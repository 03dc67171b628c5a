----------------------- MODULE SelfExtractCacheProofs -----------------------
(***************************************************************************)
(* Proofs about SelfExtractCache, for every number of loaders, every file  *)
(* length and every budget of faults.  They need one thing of the          *)
(* environment: no two loaders have the same process id.                   *)
(***************************************************************************)
EXTENDS SelfExtractCache, TLAPS

LEMMA JudgeFacts ==
  ASSUME NEW f \in File
  PROVE  /\ Judge(f) \in {"whole", "torn", "damaged"}
         /\ Judge(f) = "torn" <=> f.ok /\ f.len # Size
         /\ Judge(f) = "whole" <=> f.ok /\ f.len = Size
  BY DEF Judge, File

LEMMA InitInductive == Init => IInv
  <1> SUFFICES ASSUME Init PROVE IInv
    OBVIOUS
  <1> USE NoneAssumption, SizeAssumption, PidAssumption, FaultsAssumption, FreshAssumption
        DEF Init
  <1>1. TypeOK
    <2>1. dest \in Name
      BY DEF Name
    <2>2. file \in [Inodes -> File]
      <3>1. [len |-> 0, ok |-> FALSE, synced |-> TRUE] \in File
        BY DEF File
      <3>2. \A n \in {0, Size}, ok \in BOOLEAN : [len |-> n, ok |-> ok, synced |-> TRUE] \in File
        BY DEF File
      <3> QED
        BY <3>1, <3>2
    <2>3. unix \in Systems /\ dir \in [Levels -> DirState] /\ harmed \in BOOLEAN
      OBVIOUS
    <2>4. faults \in 0 .. MaxFaults
      <3>1. faults = MaxFaults
        OBVIOUS
      <3> HIDE DEF Init
      <3> QED
        BY <3>1
    <2>5. /\ pc \in [Loaders -> Label] /\ fd \in [Loaders -> Name]
          /\ mapped \in [Loaders -> Name] /\ tmp \in [Pids -> Name]
          /\ got \in [Loaders -> {"none", "whole", "torn", "damaged"}]
      BY DEF Label, Name
    <2> QED
      BY <2>1, <2>2, <2>3, <2>4, <2>5 DEF TypeOK
  <1>2. Descriptors /\ WriterOwns /\ TempsPrivate /\ DirsChecked
    BY DEF Descriptors, WriterOwns, TempsPrivate, DirsChecked
  <1>3. EntriesDurable
    BY DEF EntriesDurable, Published, Judge, Name
  <1>4. NeverLoadsTorn
    BY DEF NeverLoadsTorn
  <1> QED
    BY <1>1, <1>2, <1>3, <1>4 DEF IInv

LEMMA NextInductive ==
  ASSUME PidsDistinct, IInv, [Next]_vars
  PROVE  IInv'
  <1> USE NoneAssumption, SizeAssumption, PidAssumption, FaultsAssumption, JudgeFacts
  <1> USE DEF IInv, Goto, PidsDistinct, TypeOK, Label, Name, File, Levels, DirState, Finished,
        Descriptors, WriterOwns, TempsPrivate, EntriesDurable, Published, DirsChecked,
        Refused, ParentExists, Miss, NeverLoadsTorn
  <1>0. UNCHANGED unix /\ harmed' \in BOOLEAN
    BY DEF Next, Step, Environment, vars, Harm, Crash, FailIO, DamageEntry, CleanTmpdir, PowerLoss
  <1> USE <1>0
  <1>1. ASSUME NEW l \in Loaders, ReadSelf(l) PROVE IInv'
    BY <1>1 DEF ReadSelf
  <1>2. ASSUME NEW l \in Loaders, StatEntry(l) PROVE IInv'
    BY <1>2 DEF StatEntry
  <1>3. ASSUME NEW l \in Loaders, OpenEntry(l) PROVE IInv'
    BY <1>3 DEF OpenEntry
  <1>4. ASSUME NEW l \in Loaders, HashEntry(l) PROVE IInv'
    BY <1>4 DEF HashEntry
  <1>5. ASSUME NEW l \in Loaders, CreateAll(l) \/ CreateShared(l) PROVE IInv'
    <2>1. CASE CreateAll(l)
      BY <2>1 DEF CreateDir, CreateAll
    <2>2. CASE CreateShared(l)
      BY <2>2 DEF CreateDir, CreateShared
    <2> QED
      BY <1>5, <2>1, <2>2
  <1>6. ASSUME NEW l \in Loaders, ValidateShared(l) PROVE IInv'
    BY <1>6 DEF ValidateDir, ValidateShared
  <1>7. ASSUME NEW l \in Loaders, CreateLeaf(l) PROVE IInv'
    BY <1>7 DEF CreateDir, CreateLeaf
  <1>8. ASSUME NEW l \in Loaders, ValidateLeaf(l) PROVE IInv'
    BY <1>8 DEF ValidateDir, ValidateLeaf
  <1>9. ASSUME NEW l \in Loaders, RemoveStaleTemp(l) PROVE IInv'
    BY <1>9 DEF RemoveStaleTemp
  <1>10. ASSUME NEW l \in Loaders, OpenTemp(l) PROVE IInv'
    <2>1. CASE tmp[Pid[l]] # None \/ dir["leaf"] = "absent"
      <3>1. /\ pc[l] = "create" /\ pc' = [pc EXCEPT ![l] = "cleanup"]
            /\ UNCHANGED <<fd, mapped, got, dest, tmp, file, dir, faults>>
        BY <1>10, <2>1 DEF OpenTemp
      <3> QED
        BY <3>1
    <2>2. CASE tmp[Pid[l]] = None /\ dir["leaf"] # "absent"
      <3>0. Fresh({j \in Inodes : ~InUse(j)}) \subseteq {j \in Inodes : ~InUse(j)}
        BY FreshAssumption
      <3>1. PICK i \in Inodes :
              /\ ~InUse(i)
              /\ tmp' = [tmp EXCEPT ![Pid[l]] = i]
              /\ fd' = [fd EXCEPT ![l] = i]
              /\ file' = [file EXCEPT ![i] = [len |-> 0, ok |-> TRUE, synced |-> FALSE]]
        BY <1>10, <2>2, <3>0 DEF OpenTemp
      <3>2. /\ pc[l] = "create" /\ pc' = [pc EXCEPT ![l] = "write"]
            /\ UNCHANGED <<mapped, got, dest, dir, faults>>
        BY <1>10, <2>2 DEF OpenTemp
      <3>3. TypeOK' /\ Descriptors' /\ DirsChecked' /\ NeverLoadsTorn'
        BY <3>1, <3>2
      <3>4. WriterOwns'
        BY <3>1, <3>2 DEF InUse
      <3>5. TempsPrivate'
        BY <3>1, <3>2 DEF InUse
      <3>6. EntriesDurable'
        BY <3>1, <3>2 DEF InUse
      <3> QED
        BY <3>3, <3>4, <3>5, <3>6
    <2> QED
      BY <2>1, <2>2
  <1>11. ASSUME NEW l \in Loaders, WriteTemp(l) PROVE IInv'
    <2>1. /\ pc[l] = "write" /\ fd[l] \in Inodes
          /\ UNCHANGED <<pc, fd, mapped, got, dest, tmp, dir, faults>>
      BY <1>11 DEF WriteTemp
    <2>2. /\ file' \in [Inodes -> File]
          /\ file'[fd[l]].ok = file[fd[l]].ok
          /\ \A i \in Inodes : i # fd[l] => file'[i] = file[i]
      <3> DEFINE g == [len |-> file[fd[l]].len + 1, ok |-> file[fd[l]].ok, synced |-> FALSE]
      <3>1. file' = [file EXCEPT ![fd[l]] = g]
        BY <1>11, <2>1 DEF WriteTemp
      <3>2. g \in File /\ g.ok = file[fd[l]].ok
        BY <1>11, <2>1 DEF WriteTemp
      <3> HIDE DEF g
      <3> QED
        BY <3>1, <3>2, <2>1
    <2>3. TypeOK' /\ Descriptors' /\ DirsChecked' /\ NeverLoadsTorn'
      BY <2>1, <2>2
    <2>4. WriterOwns' /\ TempsPrivate'
      BY <2>1, <2>2
    <2>5. EntriesDurable'
      <3>1. fd[l] # dest /\ \A m \in Loaders : /\ pc[m] = "hash" => fd[m] # fd[l]
                                              /\ pc[m] = "rename" => tmp[Pid[m]] # fd[l]
        BY <2>1
      <3>2. \A i \in Inodes : i # fd[l] /\ Published(i) => Published(i)'
        BY <2>2
      <3> QED
        BY <2>1, <2>2, <3>1, <3>2
    <2> QED
      BY <2>3, <2>4, <2>5
  <1>12. ASSUME NEW l \in Loaders, SyncTemp(l) PROVE IInv'
    <2>1. /\ pc[l] = "write" /\ pc' = [pc EXCEPT ![l] = "rename"]
          /\ fd[l] \in Inodes /\ fd' = [fd EXCEPT ![l] = None]
          /\ UNCHANGED <<mapped, got, dest, tmp, dir, faults>>
      BY <1>12 DEF SyncTemp
    <2>2. /\ file' \in [Inodes -> File]
          /\ file'[fd[l]].ok /\ file'[fd[l]].len = Size /\ file'[fd[l]].synced
          /\ \A i \in Inodes : i # fd[l] => file'[i] = file[i]
      <3> DEFINE g == [len |-> file[fd[l]].len, ok |-> file[fd[l]].ok, synced |-> TRUE]
      <3>1. file' = [file EXCEPT ![fd[l]] = g]
        BY <1>12, <2>1 DEF SyncTemp
      <3>2. g \in File /\ g.len = Size /\ g.ok /\ g.synced
        BY <1>12, <2>1 DEF SyncTemp
      <3> HIDE DEF g
      <3> QED
        BY <3>1, <3>2, <2>1
    <2>3. TypeOK' /\ Descriptors' /\ DirsChecked' /\ NeverLoadsTorn'
      BY <2>1, <2>2
    <2>4. WriterOwns' /\ TempsPrivate'
      BY <2>1, <2>2
    <2>5. EntriesDurable'
      BY <2>1, <2>2
    <2> QED
      BY <2>3, <2>4, <2>5
  <1>13. ASSUME NEW l \in Loaders, RenameTemp(l) PROVE IInv'
    <2>1. CASE RenameRefused(l)
      <3>1. /\ pc[l] = "rename" /\ pc' = [pc EXCEPT ![l] = "cleanup"]
            /\ UNCHANGED <<fd, mapped, got, dest, tmp, file, dir, faults>>
        BY <1>13, <2>1 DEF RenameTemp
      <3> QED
        BY <3>1
    <2>2. CASE ~RenameRefused(l)
      <3>1. /\ pc[l] = "rename" /\ pc' = [pc EXCEPT ![l] = "dlopen"]
            /\ tmp[Pid[l]] \in Inodes /\ dest' = tmp[Pid[l]]
            /\ tmp' = [tmp EXCEPT ![Pid[l]] = None]
            /\ UNCHANGED <<fd, mapped, got, file, dir, faults>>
        BY <1>13, <2>2 DEF RenameTemp, RenameRefused
      <3>2. TypeOK' /\ Descriptors' /\ DirsChecked' /\ NeverLoadsTorn'
        BY <3>1
      <3>3. WriterOwns' /\ TempsPrivate'
        BY <3>1
      <3>4. EntriesDurable'
        BY <3>1
      <3> QED
        BY <3>2, <3>3, <3>4
    <2> QED
      BY <2>1, <2>2
  <1>14. ASSUME NEW l \in Loaders, RemoveFailedTemp(l) PROVE IInv'
    BY <1>14 DEF RemoveFailedTemp
  <1>15. ASSUME NEW l \in Loaders, LoadRegister(l) PROVE IInv'
    <2>1. CASE dest = None
      <3>1. /\ pc[l] = "dlopen" /\ pc' = [pc EXCEPT ![l] = "fallback"]
            /\ UNCHANGED <<fd, mapped, got, dest, tmp, file, dir, faults>>
        BY <1>15, <2>1 DEF LoadRegister
      <3> QED
        BY <3>1
    <2>2. CASE dest # None
      <3>1. /\ pc[l] = "dlopen" /\ pc' = [pc EXCEPT ![l] = "loaded"]
            /\ mapped' = [mapped EXCEPT ![l] = dest]
            /\ got' = [got EXCEPT ![l] = Judge(file[dest])]
            /\ UNCHANGED <<fd, dest, tmp, file, dir, faults>>
        BY <1>15, <2>2 DEF LoadRegister
      <3>2. Judge(file[dest]) \in {"whole", "damaged"}
        BY <2>2
      <3>3. TypeOK' /\ Descriptors' /\ DirsChecked' /\ NeverLoadsTorn'
        BY <3>1, <3>2
      <3>4. WriterOwns' /\ TempsPrivate'
        BY <3>1, <2>2
      <3>5. EntriesDurable'
        BY <3>1
      <3> QED
        BY <3>3, <3>4, <3>5
    <2> QED
      BY <2>1, <2>2
  <1>16. ASSUME NEW l \in Loaders, Exit(l) PROVE IInv'
    BY <1>16 DEF Gone, Exit
  <1>17. ASSUME NEW l \in Loaders, Crash(l) PROVE IInv'
    BY <1>17 DEF Gone, Fault, Crash
  <1>18. ASSUME NEW l \in Loaders, FailIO(l) PROVE IInv'
    <2>1. /\ UNCHANGED <<mapped, got, dest, tmp, file, dir>> /\ fd' = [fd EXCEPT ![l] = None]
          /\ faults' \in 0 .. MaxFaults
      BY <1>18 DEF Harm, Fault, FailIO
    <2>2. CASE pc' = [pc EXCEPT ![l] = Miss]
      BY <2>1, <2>2
    <2>3. CASE \E to \in {"fallback", "cleanup"} : pc' = [pc EXCEPT ![l] = to]
      BY <2>1, <2>3
    <2>4. CASE pc[l] = "unlink" /\ pc' = [pc EXCEPT ![l] = "create"]
      BY <2>1, <2>4
    <2> QED
      BY <1>18, <2>2, <2>3, <2>4 DEF FailIO
  <1>19. CASE DamageEntry
    <2>1. PICK n \in 0 .. Size :
            file' = [file EXCEPT ![dest] = [len |-> n, ok |-> FALSE, synced |-> @.synced]]
      BY <1>19 DEF DamageEntry
    <2>2. dest \in Inodes /\ faults' \in 0 .. MaxFaults
          /\ UNCHANGED <<pc, fd, mapped, got, dest, tmp, dir>>
      BY <1>19 DEF DamageEntry, Harm, Fault
    <2>3. /\ file' \in [Inodes -> File]
          /\ ~file'[dest].ok /\ file'[dest].synced = file[dest].synced
          /\ \A i \in Inodes : i # dest => file'[i] = file[i]
      <3> DEFINE g == [len |-> n, ok |-> FALSE, synced |-> file[dest].synced]
      <3>1. file' = [file EXCEPT ![dest] = g]
        BY <2>1, <2>2
      <3>2. g \in File /\ ~g.ok /\ g.synced = file[dest].synced
        BY <2>1, <2>2
      <3> HIDE DEF g
      <3> QED
        BY <3>1, <3>2, <2>2
    <2>4. TypeOK' /\ Descriptors' /\ DirsChecked' /\ NeverLoadsTorn'
      BY <2>2, <2>3
    <2>5. WriterOwns' /\ TempsPrivate'
      BY <2>2, <2>3
    <2>6. EntriesDurable'
      <3>1. \A i \in Inodes : Published(i) => Published(i)'
        BY <2>2, <2>3
      <3>2. \A l \in Loaders : pc[l] = "rename" /\ tmp[Pid[l]] # None => tmp[Pid[l]] # dest
        OBVIOUS
      <3> QED
        BY <2>2, <2>3, <3>1, <3>2
    <2> QED
      BY <2>4, <2>5, <2>6
  <1>20. CASE CleanTmpdir
    BY <1>20 DEF Harm, Fault, CleanTmpdir
  <1>21. CASE PowerLoss
    <2>1. PICK kept \in [{i \in Inodes : ~file[i].synced} -> 0 .. Size] :
            file' = [i \in Inodes |->
                       IF file[i].synced \/ kept[i] > file[i].len THEN file[i]
                       ELSE [file[i] EXCEPT !.len = kept[i]]]
      BY <1>21 DEF PowerLoss
    <2>2. /\ faults' \in 0 .. MaxFaults
          /\ pc' = [l \in Loaders |-> "idle"] /\ fd' = [l \in Loaders |-> None]
          /\ mapped' = [l \in Loaders |-> None] /\ got' = [l \in Loaders |-> "none"]
          /\ UNCHANGED <<dest, tmp, dir>>
      BY <1>21 DEF PowerLoss, Gone, Fault
    <2>3. /\ file' \in [Inodes -> File]
          /\ \A i \in Inodes : file[i].synced => file'[i] = file[i]
      BY <2>1, SMTT(30)
    <2>4. TypeOK' /\ Descriptors' /\ DirsChecked' /\ NeverLoadsTorn'
      BY <2>2, <2>3
    <2>5. WriterOwns' /\ TempsPrivate'
      BY <2>2, <2>3
    <2>6. EntriesDurable'
      BY <2>2, <2>3
    <2> QED
      BY <2>4, <2>5, <2>6
  <1>22. CASE UNCHANGED vars
    BY <1>22 DEF vars
  <1> QED
    BY <1>1, <1>2, <1>3, <1>4, <1>5, <1>6, <1>7, <1>8, <1>9, <1>10, <1>11, <1>12,
       <1>13, <1>14, <1>15, <1>16, <1>17, <1>18, <1>19, <1>20, <1>21, <1>22
       DEF Next, Step, Environment

\* The inductive invariant holds in every behaviour, so the properties it contains do.
THEOREM Inductive ==
  ASSUME PidsDistinct
  PROVE  Spec => []IInv
  <1>1. Init => IInv
    BY InitInductive
  <1>2. IInv /\ [Next]_vars => IInv'
    BY NextInductive
  <1> QED
    BY <1>1, <1>2, PTL DEF Spec

\* Every variable keeps its type.
THEOREM TypeCorrect ==
  ASSUME PidsDistinct
  PROVE  Spec => []TypeOK
  <1>1. IInv => TypeOK
    BY DEF IInv
  <1> QED
    BY <1>1, Inductive, PTL

\* No crash, power loss, failure or interleaving of any number of loaders leaves a
\* half-written file under the cache entry's name.
THEOREM EntryIsNeverTorn ==
  ASSUME PidsDistinct
  PROVE  Spec => []EntryNeverTorn
  <1>1. IInv => EntryNeverTorn
    BY DEF IInv, EntriesDurable, Published, EntryNeverTorn
  <1> QED
    BY <1>1, Inductive, PTL

\* No loader ever maps a half-written addon.
THEOREM TornIsNeverLoaded ==
  ASSUME PidsDistinct
  PROVE  Spec => []NeverLoadsTorn
  <1>1. IInv => NeverLoadsTorn
    BY DEF IInv
  <1> QED
    BY <1>1, Inductive, PTL

\* A file that is the entry, or that a process has mapped, is never written to again.
THEOREM WritesArePrivate ==
  ASSUME PidsDistinct
  PROVE  Spec => []WritesStayPrivate
  <1>1. IInv => WritesStayPrivate
    BY DEF IInv, WriterOwns, WritesStayPrivate
  <1> QED
    BY <1>1, Inductive, PTL

\* On unix nothing is made, neither the leaf nor a temporary nor an entry, below or in a
\* directory that is not the user's own, whatever is found and whoever made it.
THEOREM UnsafeDirIsNeverWritten ==
  ASSUME PidsDistinct
  PROVE  Spec => UnsafeDirNeverWritten
  <1> DEFINE MakesNothing ==
               unix => /\ dir["shared"] \in Refused => dir'["leaf"] = dir["leaf"]
                       /\ ~DirsSound => /\ dest' \in {dest, None}
                                        /\ \A p \in Pids : tmp'[p] \in {tmp[p], None}
  <1>1. IInv /\ [Next]_vars => [MakesNothing]_vars
    <2> SUFFICES ASSUME IInv, Next, unix PROVE MakesNothing
      OBVIOUS
    <2> USE DEF IInv, TypeOK, Goto, Levels, Refused, DirsSound
    <2>1. ASSUME NEW l \in Loaders, Step(l) PROVE MakesNothing
      <3>1. CASE CreateAll(l) \/ CreateShared(l) \/ CreateLeaf(l)
        BY <3>1 DEF CreateAll, CreateShared, CreateLeaf, CreateDir, DirsChecked
      <3>2. CASE OpenTemp(l) \/ RenameTemp(l)
        <4>1. pc[l] \in {"create", "rename"} /\ UNCHANGED dir
          BY <3>2 DEF OpenTemp, RenameTemp
        <4>2. DirsSound
          BY <4>1 DEF DirsChecked
        <4> QED
          BY <4>1, <4>2
      <3>3. CASE RemoveStaleTemp(l) \/ RemoveFailedTemp(l)
        BY <3>3, PidAssumption DEF RemoveStaleTemp, RemoveFailedTemp
      <3>4. CASE UNCHANGED <<dir, dest, tmp>>
        BY <3>4
      <3> QED
        BY <2>1, <3>1, <3>2, <3>3, <3>4
           DEF Step, ReadSelf, StatEntry, OpenEntry, HashEntry, ValidateShared, ValidateLeaf,
               ValidateDir, WriteTemp, SyncTemp, LoadRegister, Exit
    <2>2. CASE Environment
      BY <2>2 DEF Environment, Crash, FailIO, DamageEntry, CleanTmpdir, PowerLoss
    <2> QED
      BY <2>1, <2>2 DEF Next
  <1> QED
    BY <1>1, Inductive, PTL DEF Spec, UnsafeDirNeverWritten

-----------------------------------------------------------------------------
(* Loaders do not make each other fail. *)

\* Nothing has gone wrong but that loaders or the machine died, and nobody else's
\* directory is in the way.
Quiet == ~harmed /\ DirsSound

EntryWhole == dest # None /\ Judge(file[dest]) = "whole"

\* What each loader can rely on while nothing goes wrong: the directories that it has
\* made, its temporary from the creation to the rename, and an entry that, once found or
\* made whole, stays whole.
QuietInv ==
  Quiet => \A l \in Loaders :
    /\ pc[l] \in {"ckshared", "mkleaf", "ckleaf", "unlink", "create", "write", "rename"}
         => dir["shared"] = "owned"
    /\ pc[l] \in {"ckleaf", "unlink", "create", "write", "rename"} => dir["leaf"] = "owned"
    /\ pc[l] = "create" => tmp[Pid[l]] = None
    /\ pc[l] \in {"write", "rename"} => tmp[Pid[l]] # None
    /\ pc[l] = "hash" => fd[l] = dest \/ EntryWhole
    /\ pc[l] = "dlopen" \/ mapped[l] # None => EntryWhole
    /\ pc[l] \in {"cleanup", "fallback"} => ~unix /\ EntryWhole

LEMMA InitQuiet == Init => QuietInv
  BY DEF Init, QuietInv, Quiet

\* What a death leaves behind is a temporary at most: harm is for good, and the entry, whole
\* or not, is on disk.
LEMMA EnvironmentQuiet ==
  ASSUME IInv, QuietInv, Environment
  PROVE  QuietInv'
  <1> USE DEF QuietInv, Quiet
  <1>1. CASE \E l \in Loaders : Crash(l)
    <2>1. PICK l \in Loaders : Gone({l}) /\ UNCHANGED <<unix, dest, tmp, file, dir, harmed>>
      BY <1>1 DEF Crash, Environment
    <2>2. UNCHANGED <<EntryWhole, DirsSound>>
      BY <2>1 DEF EntryWhole, DirsSound
    <2> QED
      BY <2>1, <2>2 DEF Gone
  <1>2. CASE (\E l \in Loaders : FailIO(l)) \/ DamageEntry \/ CleanTmpdir
    BY <1>2 DEF FailIO, DamageEntry, CleanTmpdir, Harm
  <1>3. CASE PowerLoss
    BY <1>3 DEF PowerLoss, Gone
  <1> QED
    BY <1>1, <1>2, <1>3 DEF Environment

\* Directories that are sound stay so, and were sound before.
LEMMA QuietBegan ==
  ASSUME TypeOK, NEW l \in Loaders, Step(l), Quiet'
  PROVE  Quiet /\ UNCHANGED unix
         /\ \A v \in Levels : dir[v] = "owned" => dir'[v] = "owned"
  <1>1. UNCHANGED <<harmed, unix>>
    BY DEF Step
  <1>2. \/ UNCHANGED dir
        \/ \E level \in Levels :
             dir' = [dir EXCEPT ![level] = IF @ = "absent" THEN "owned" ELSE @]
    BY DEF Levels, Step, ReadSelf, StatEntry, OpenEntry, HashEntry, CreateAll, CreateShared, ValidateShared,
           CreateLeaf, ValidateLeaf, CreateDir, ValidateDir, RemoveStaleTemp, OpenTemp,
           WriteTemp, SyncTemp, RenameTemp, RemoveFailedTemp, LoadRegister, Exit
  <1> QED
    BY <1>1, <1>2 DEF Quiet, DirsSound, Refused, TypeOK, DirState, Levels

\* No step of a loader spoils a whole entry.
LEMMA WholeStays ==
  ASSUME IInv, NEW l \in Loaders, Step(l), EntryWhole
  PROVE  EntryWhole'
  <1> USE DEF EntryWhole, IInv
  <1>1. CASE OpenTemp(l)
    <2>1. Fresh({j \in Inodes : ~InUse(j)}) \subseteq {j \in Inodes : ~InUse(j)}
      BY FreshAssumption
    <2>2. UNCHANGED dest /\ file'[dest] = file[dest]
      BY <1>1, <2>1 DEF OpenTemp, InUse, TypeOK, Name
    <2> QED
      BY <2>2
  <1>2. CASE WriteTemp(l) \/ SyncTemp(l)
    <2>1. UNCHANGED dest /\ pc[l] = "write" /\ fd[l] # dest
      BY <1>2 DEF WriteTemp, SyncTemp, Goto, WriterOwns
    <2>2. file'[dest] = file[dest]
      BY <1>2, <2>1 DEF WriteTemp, SyncTemp, TypeOK, Name
    <2> QED
      BY <2>1, <2>2
  <1>3. CASE RenameTemp(l)
    <2>1. CASE UNCHANGED dest
      BY <1>3, <2>1 DEF RenameTemp
    <2>2. CASE ~RenameRefused(l) /\ dest' = tmp[Pid[l]]
      BY <1>3, <2>2 DEF RenameTemp, RenameRefused, Goto, EntriesDurable
    <2> QED
      BY <1>3, <2>1, <2>2 DEF RenameTemp
  <1>4. CASE UNCHANGED <<dest, file>>
    BY <1>4
  <1> QED
    BY <1>1, <1>2, <1>3, <1>4
       DEF Step, ReadSelf, StatEntry, OpenEntry, HashEntry, CreateAll, CreateShared, ValidateShared,
           CreateLeaf, ValidateLeaf, CreateDir, ValidateDir, RemoveStaleTemp,
           RemoveFailedTemp, LoadRegister, Exit

LEMMA StepQuiet ==
  ASSUME PidsDistinct, IInv, QuietInv, NEW l \in Loaders, Step(l)
  PROVE  QuietInv'
  <1> SUFFICES ASSUME Quiet' PROVE QuietInv'
    BY DEF QuietInv
  <1>1. /\ Quiet /\ UNCHANGED unix
        /\ \A v \in Levels : dir[v] = "owned" => dir'[v] = "owned"
    BY QuietBegan DEF IInv
  <1>2. EntryWhole => EntryWhole'
    BY WholeStays
  <1> USE NoneAssumption, PidAssumption, <1>1, <1>2
      DEF QuietInv, Goto, IInv, TypeOK, Levels, Finished, PidsDistinct
  <1>3. CASE ReadSelf(l)
    BY <1>3 DEF ReadSelf
  <1>4. CASE StatEntry(l)
    BY <1>4 DEF StatEntry, Miss
  <1>5. CASE OpenEntry(l)
    BY <1>5 DEF OpenEntry, Miss
  <1>6. CASE HashEntry(l)
    BY <1>6 DEF HashEntry, Miss, EntryWhole, Descriptors, Name
  <1>7. CASE CreateAll(l) \/ CreateShared(l)
    BY <1>7 DEF CreateAll, CreateShared, ParentExists, CreateDir, Quiet, DirsSound, Refused, DirState
  <1>8. CASE ValidateShared(l)
    BY <1>8 DEF ValidateShared, ValidateDir, Quiet, DirsSound, Refused
  <1>9. CASE CreateLeaf(l)
    BY <1>9 DEF CreateLeaf, ParentExists, CreateDir, Quiet, DirsSound, Refused, DirState
  <1>10. CASE ValidateLeaf(l)
    BY <1>10 DEF ValidateLeaf, ValidateDir, Quiet, DirsSound, Refused
  <1>11. CASE RemoveStaleTemp(l)
    BY <1>11 DEF RemoveStaleTemp
  <1>12. CASE OpenTemp(l)
    <2>1. /\ pc[l] = "create" /\ pc' = [pc EXCEPT ![l] = "write"]
          /\ \E i \in Inodes : /\ tmp' = [tmp EXCEPT ![Pid[l]] = i]
                               /\ fd' = [fd EXCEPT ![l] = i]
          /\ UNCHANGED <<mapped, dest>>
      <3>1. Fresh({j \in Inodes : ~InUse(j)}) \subseteq Inodes
        BY FreshAssumption
      <3>2. pc[l] = "create" /\ tmp[Pid[l]] = None /\ dir["leaf"] # "absent"
        BY <1>12 DEF OpenTemp
      <3> QED
        BY <1>12, <3>1, <3>2 DEF OpenTemp
    <2> QED
      BY <2>1
  <1>13. CASE WriteTemp(l)
    BY <1>13 DEF WriteTemp
  <1>14. CASE SyncTemp(l)
    BY <1>14 DEF SyncTemp
  <1>15. CASE RenameTemp(l)
    <2>1. tmp[Pid[l]] # None
      BY <1>15 DEF RenameTemp
    <2>2. CASE RenameRefused(l)
      <3>1. ~unix /\ \E m \in Loaders : mapped[m] # None
        BY <2>1, <2>2 DEF RenameRefused
      <3>2. EntryWhole
        BY <3>1
      <3>3. /\ pc[l] = "rename" /\ pc' = [pc EXCEPT ![l] = "cleanup"]
            /\ UNCHANGED <<dest, tmp, fd, mapped, file, dir>>
        BY <1>15, <2>2 DEF RenameTemp
      <3> QED
        BY <3>1, <3>2, <3>3
    <2>3. CASE ~RenameRefused(l)
      <3>1. EntryWhole'
        BY <1>15, <2>1, <2>3 DEF RenameTemp, EntryWhole, EntriesDurable
      <3>2. /\ pc[l] = "rename" /\ pc' = [pc EXCEPT ![l] = "dlopen"]
            /\ tmp' = [tmp EXCEPT ![Pid[l]] = None]
            /\ UNCHANGED <<fd, mapped, file, dir>>
        BY <1>15, <2>3 DEF RenameTemp
      <3> QED
        BY <3>1, <3>2
    <2> QED
      BY <2>2, <2>3
  <1>16. CASE RemoveFailedTemp(l)
    BY <1>16 DEF RemoveFailedTemp
  <1>17. CASE LoadRegister(l)
    BY <1>17 DEF LoadRegister, EntryWhole
  <1>18. CASE Exit(l)
    BY <1>18 DEF Exit, Gone
  <1> QED
    BY <1>3, <1>4, <1>5, <1>6, <1>7, <1>8, <1>9, <1>10, <1>11, <1>12, <1>13, <1>14, <1>15,
       <1>16, <1>17, <1>18 DEF Step

\* While nothing goes wrong around them but deaths, loaders rely on directories, temporaries and the
\* entry as QuietInv says.
THEOREM QuietInductive ==
  ASSUME PidsDistinct
  PROVE  Spec => []QuietInv
  <1>1. IInv /\ QuietInv /\ [Next]_vars => QuietInv'
    <2> SUFFICES ASSUME IInv, QuietInv, [Next]_vars PROVE QuietInv'
      OBVIOUS
    <2>1. CASE Environment
      BY <2>1, EnvironmentQuiet
    <2>2. CASE UNCHANGED vars
      BY <2>2 DEF vars, QuietInv, Quiet, DirsSound, EntryWhole
    <2> QED
      BY <2>1, <2>2, StepQuiet DEF Next
  <1> QED
    BY InitQuiet, <1>1, Inductive, PTL DEF Spec

\* Loaders never make each other fail, except where a mapped file cannot be replaced, and
\* then a whole entry is in place.
THEOREM FallbacksHaveCauses ==
  ASSUME PidsDistinct
  PROVE  Spec => []NoSpuriousFallback
  <1>1. QuietInv => NoSpuriousFallback
    BY DEF QuietInv, Quiet, EntryWhole, NoSpuriousFallback
  <1> QED
    BY <1>1, QuietInductive, PTL

-----------------------------------------------------------------------------
(* The refinement: every step of the file protocol is a step of the cell. *)

LEMMA CellInit == Init => Cell!Init
  <1> SUFFICES ASSUME Init PROVE Cell!Init
    OBVIOUS
  <1>1. Entry \in Cell!Content \cup {"absent"}
    <2>1. dest \in Inodes \cup {None}
      BY FreshAssumption DEF Init
    <2> QED
      BY <2>1, SizeAssumption DEF Init, Entry, Judge, Cell!Content
  <1>2. Phases = [l \in Loaders |-> "idle"]
    BY DEF Init, Phases, PhaseOf
  <1> QED
    BY <1>1, <1>2 DEF Init, Cell!Init

LEMMA CellStep ==
  ASSUME PidsDistinct, IInv, [Next]_vars
  PROVE  [Cell!Next]_(Cell!vars)
  <1> USE NoneAssumption, SizeAssumption, PidAssumption
  <1> USE DEF Miss, Goto, Finished, Entry, Phases, PhaseOf, Cell!Next, Cell!vars, Cell!Content
  <1>0. /\ TypeOK
        /\ dest # None => dest \in Inodes /\ Judge(file[dest]) \in Cell!Content
        /\ \A l \in Loaders : pc[l] = "write" => fd[l] \in Inodes /\ fd[l] # dest
        /\ \A l \in Loaders : pc[l] = "hash" => fd[l] \in Inodes /\ file[fd[l]].synced
        /\ \A l, m \in Loaders : pc[l] = "write" /\ pc[m] = "hash" => fd[l] # fd[m]
    BY JudgeFacts DEF IInv, TypeOK, Name, Descriptors, WriterOwns, EntriesDurable, Published
  <1>1. ASSUME NEW l \in Loaders, ReadSelf(l) PROVE [Cell!Next]_(Cell!vars)
    <2>1. Cell!Begin(l)
      BY <1>1, <1>0 DEF ReadSelf, TypeOK, Cell!Begin
    <2> QED
      BY <2>1
  <1>2. ASSUME NEW l \in Loaders, StatEntry(l) PROVE [Cell!Next]_(Cell!vars)
    BY <1>2, <1>0 DEF StatEntry, TypeOK
  <1>3. ASSUME NEW l \in Loaders, OpenEntry(l) PROVE [Cell!Next]_(Cell!vars)
    <2>1. CASE dest # None /\ Judge(file[dest]) = "whole"
      <3>1. Cell!Verify(l)
        BY <1>3, <2>1, <1>0 DEF OpenEntry, TypeOK, Cell!Verify
      <3> QED
        BY <3>1
    <2>2. CASE dest = None \/ Judge(file[dest]) # "whole"
      BY <1>3, <2>2, <1>0 DEF OpenEntry, TypeOK
    <2> QED
      BY <2>1, <2>2
  <1>4. ASSUME NEW l \in Loaders, HashEntry(l) PROVE [Cell!Next]_(Cell!vars)
    BY <1>4, <1>0 DEF HashEntry, TypeOK
  <1>5. ASSUME NEW l \in Loaders, CreateAll(l) \/ CreateShared(l) PROVE [Cell!Next]_(Cell!vars)
    BY <1>5, <1>0 DEF CreateAll, CreateShared, CreateDir, TypeOK
  <1>6. ASSUME NEW l \in Loaders, ValidateShared(l) PROVE [Cell!Next]_(Cell!vars)
    <2>1. CASE pc'[l] = "mkleaf"
      BY <1>6, <2>1, <1>0 DEF ValidateShared, ValidateDir, TypeOK
    <2>2. CASE pc'[l] # "mkleaf"
      <3>1. Cell!FallBack(l)
        BY <1>6, <2>2, <1>0 DEF ValidateShared, ValidateDir, TypeOK, Cell!FallBack
      <3> QED
        BY <3>1
    <2> QED
      BY <2>1, <2>2
  <1>7. ASSUME NEW l \in Loaders, CreateLeaf(l) PROVE [Cell!Next]_(Cell!vars)
    <2>1. CASE ParentExists
      BY <1>7, <2>1, <1>0 DEF CreateLeaf, CreateDir, TypeOK
    <2>2. CASE ~ParentExists
      <3>1. Cell!FallBack(l)
        BY <1>7, <2>2, <1>0 DEF CreateLeaf, CreateDir, TypeOK, Cell!FallBack
      <3> QED
        BY <3>1
    <2> QED
      BY <2>1, <2>2
  <1>8. ASSUME NEW l \in Loaders, ValidateLeaf(l) PROVE [Cell!Next]_(Cell!vars)
    <2>1. CASE pc'[l] = "unlink"
      BY <1>8, <2>1, <1>0 DEF ValidateLeaf, ValidateDir, TypeOK
    <2>2. CASE pc'[l] # "unlink"
      <3>1. Cell!FallBack(l)
        BY <1>8, <2>2, <1>0 DEF ValidateLeaf, ValidateDir, TypeOK, Cell!FallBack
      <3> QED
        BY <3>1
    <2> QED
      BY <2>1, <2>2
  <1>9. ASSUME NEW l \in Loaders, RemoveStaleTemp(l) PROVE [Cell!Next]_(Cell!vars)
    BY <1>9, <1>0 DEF RemoveStaleTemp, TypeOK
  <1>10. ASSUME NEW l \in Loaders, OpenTemp(l) PROVE [Cell!Next]_(Cell!vars)
    <2>1. /\ UNCHANGED <<dest, got>> /\ pc[l] = "create"
          /\ \E to \in {"write", "cleanup"} : pc' = [pc EXCEPT ![l] = to]
          /\ dest # None => file'[dest] = file[dest]
          /\ \A m \in Loaders : pc[m] = "hash" => fd'[m] = fd[m] /\ file'[fd[m]] = file[fd[m]]
      <3>1. Fresh({j \in Inodes : ~InUse(j)}) \subseteq {j \in Inodes : ~InUse(j)}
        BY FreshAssumption
      <3>2. CASE UNCHANGED <<tmp, fd, file>>
        BY <1>10, <3>2 DEF OpenTemp
      <3>3. CASE \E i \in Fresh({j \in Inodes : ~InUse(j)}) :
                   /\ fd' = [fd EXCEPT ![l] = i]
                   /\ file' = [file EXCEPT ![i] = [len |-> 0, ok |-> TRUE, synced |-> FALSE]]
        <4>1. PICK i \in Inodes :
                /\ ~InUse(i)
                /\ fd' = [fd EXCEPT ![l] = i]
                /\ file' = [file EXCEPT ![i] = [len |-> 0, ok |-> TRUE, synced |-> FALSE]]
          BY <3>1, <3>3
        <4>2. /\ UNCHANGED <<dest, got>> /\ pc[l] = "create"
              /\ \E to \in {"write", "cleanup"} : pc' = [pc EXCEPT ![l] = to]
          BY <1>10 DEF OpenTemp
        <4> QED
          BY <4>1, <4>2, <1>0 DEF InUse, TypeOK
      <3> QED
        BY <1>10, <3>2, <3>3 DEF OpenTemp
    <2> QED
      BY <2>1, <1>0 DEF TypeOK
  <1>11. ASSUME NEW l \in Loaders, WriteTemp(l) PROVE [Cell!Next]_(Cell!vars)
    BY <1>11, <1>0 DEF WriteTemp, TypeOK
  <1>12. ASSUME NEW l \in Loaders, SyncTemp(l) PROVE [Cell!Next]_(Cell!vars)
    BY <1>12, <1>0 DEF SyncTemp, TypeOK
  <1>13. ASSUME NEW l \in Loaders, RenameTemp(l) PROVE [Cell!Next]_(Cell!vars)
    <2>1. CASE RenameRefused(l)
      BY <1>13, <2>1, <1>0 DEF RenameTemp, TypeOK
    <2>2. CASE ~RenameRefused(l)
      <3>1. tmp[Pid[l]] # None /\ Judge(file[tmp[Pid[l]]]) = "whole"
        BY <1>13, <2>2 DEF RenameTemp, RenameRefused, IInv, EntriesDurable
      <3>2. /\ Entry' = "whole" /\ UNCHANGED <<got, fd, file>>
            /\ pc[l] = "rename" /\ pc' = [pc EXCEPT ![l] = "dlopen"]
        BY <1>13, <2>2, <3>1, <1>0 DEF RenameTemp, TypeOK
      <3>3. Phases[l] = "busy" /\ Phases' = [Phases EXCEPT ![l] = "ready"]
        BY <3>2, <1>0 DEF TypeOK
      <3>4. Cell!Publish(l)
        BY <3>2, <3>3 DEF Cell!Publish
      <3> QED
        BY <3>4
    <2> QED
      BY <2>1, <2>2
  <1>14. ASSUME NEW l \in Loaders, RemoveFailedTemp(l) PROVE [Cell!Next]_(Cell!vars)
    <2>1. Cell!FallBack(l)
      BY <1>14, <1>0 DEF RemoveFailedTemp, TypeOK, Cell!FallBack
    <2> QED
      BY <2>1
  <1>15. ASSUME NEW l \in Loaders, LoadRegister(l) PROVE [Cell!Next]_(Cell!vars)
    <2>1. CASE dest # None
      <3>1. /\ pc[l] = "dlopen" /\ pc' = [pc EXCEPT ![l] = "loaded"]
            /\ got' = [got EXCEPT ![l] = Entry]
            /\ UNCHANGED <<fd, dest, file>>
        BY <1>15, <2>1 DEF LoadRegister
      <3>2. UNCHANGED Entry /\ Entry \in Cell!Content
        BY <3>1, <2>1, <1>0
      <3>3. Phases[l] = "ready" /\ Phases' = [Phases EXCEPT ![l] = "loaded"]
        BY <3>1, <1>0 DEF TypeOK
      <3>4. Cell!Load(l)
        BY <3>1, <3>2, <3>3 DEF Cell!Load
      <3> QED
        BY <3>4
    <2>2. CASE dest = None
      <3>1. Cell!FallBack(l)
        BY <1>15, <2>2, <1>0 DEF LoadRegister, TypeOK, Cell!FallBack
      <3> QED
        BY <3>1
    <2> QED
      BY <2>1, <2>2
  <1>16. ASSUME NEW l \in Loaders, Exit(l) PROVE [Cell!Next]_(Cell!vars)
    <2>1. Cell!End({l})
      BY <1>16, <1>0 DEF Exit, Gone, TypeOK, Cell!End
    <2> QED
      BY <2>1
  <1>17. ASSUME NEW l \in Loaders, Crash(l) PROVE [Cell!Next]_(Cell!vars)
    <2>1. Cell!End({l})
      BY <1>17, <1>0 DEF Crash, Gone, TypeOK, Cell!End
    <2> QED
      BY <2>1
  <1>18. ASSUME NEW l \in Loaders, FailIO(l) PROVE [Cell!Next]_(Cell!vars)
    <2>0. UNCHANGED <<mapped, got, dest, tmp, file, dir>> /\ fd' = [fd EXCEPT ![l] = None]
      BY <1>18 DEF FailIO
    <2>1. CASE pc' = [pc EXCEPT ![l] = "fallback"]
      <3>1. Cell!FallBack(l)
        BY <1>18, <2>0, <2>1, <1>0, ZenonT(60) DEF FailIO, TypeOK, Cell!FallBack
      <3> QED
        BY <3>1
    <2>2. CASE pc[l] = "hash" /\ pc' = [pc EXCEPT ![l] = Miss]
      <3>1. CASE Judge(file[fd[l]]) = "whole"
        <4>1. Cell!Doubt(l)
          BY <2>0, <2>2, <3>1, <1>0 DEF TypeOK, Cell!Doubt
        <4> QED
          BY <4>1
      <3>2. CASE Judge(file[fd[l]]) # "whole"
        BY <2>0, <2>2, <3>2, <1>0 DEF TypeOK
      <3> QED
        BY <3>1, <3>2
    <2>3. CASE /\ pc[l] \in {"stat", "open", "unlink", "create", "write", "rename"}
               /\ \E to \in {Miss, "create", "cleanup"} : pc' = [pc EXCEPT ![l] = to]
      BY <2>0, <2>3, <1>0 DEF TypeOK
    <2> QED
      BY <1>18, <2>1, <2>2, <2>3 DEF FailIO
  <1>19. CASE DamageEntry
    <2>1. dest \in Inodes /\ UNCHANGED <<pc, fd, got, dest>>
      BY <1>19, <1>0 DEF DamageEntry
    <2>2. /\ Judge(file'[dest]) = "damaged"
          /\ \A i \in Inodes : i # dest => file'[i] = file[i]
      BY <1>19, <2>1, <1>0 DEF DamageEntry, TypeOK, Judge
    <2>3. PICK S \in SUBSET Loaders : S = {l \in Loaders : pc[l] = "hash" /\ fd[l] = dest}
      OBVIOUS
    <2>4. Cell!Damage(S)
      BY <2>1, <2>2, <2>3, <1>0 DEF TypeOK, Cell!Damage
    <2> QED
      BY <2>4
  <1>20. CASE CleanTmpdir
    <2>1. UNCHANGED <<pc, fd, got, file>> /\ (dest' = None \/ UNCHANGED dest)
      BY <1>20 DEF CleanTmpdir
    <2>2. CASE dest' = None
      <3>1. Cell!Evict
        BY <2>1, <2>2 DEF Cell!Evict
      <3> QED
        BY <3>1
    <2>3. CASE UNCHANGED dest
      BY <2>1, <2>3
    <2> QED
      BY <2>1, <2>2, <2>3
  <1>21. CASE PowerLoss
    <2>1. Gone(Loaders) /\ UNCHANGED dest /\ (dest # None => file'[dest] = file[dest])
      BY <1>21, <1>0 DEF PowerLoss, IInv, EntriesDurable, Published
    <2>2. Cell!End(Loaders)
      BY <2>1 DEF Gone, Cell!End
    <2> QED
      BY <2>2
  <1>22. CASE UNCHANGED vars
    BY <1>22 DEF vars
  <1> QED
    BY <1>1, <1>2, <1>3, <1>4, <1>5, <1>6, <1>7, <1>8, <1>9, <1>10, <1>11, <1>12,
       <1>13, <1>14, <1>15, <1>16, <1>17, <1>18, <1>19, <1>20, <1>21, <1>22
       DEF Next, Step, Environment

\* The extraction protocol implements the atomic cell: what a loader maps is the whole
\* addon, or was damaged after that loader had verified or written it.
THEOREM Refinement ==
  ASSUME PidsDistinct
  PROVE  Spec => ImplementsCell
  <1>1. Init => Cell!Init
    BY CellInit
  <1>2. IInv /\ [Next]_vars => [Cell!Next]_(Cell!vars)
    BY CellStep
  <1> QED
    BY <1>1, <1>2, Inductive, PTL DEF Spec, ImplementsCell, Cell!Spec
=============================================================================
