--------------------------- MODULE FfiCacheProofs ---------------------------
(***************************************************************************)
(* What a carrier's caller opens is never half-written nor of another      *)
(* library, although the names of temporaries say nothing of the library   *)
(* and are drawn again by other carriers and after a restart.              *)
(*                                                                         *)
(* write_atomic creates its name with create_new and removes no name that  *)
(* it did not create, so a name belongs to the loader that is between its  *)
(* creation and its removal (NamesOwned), and with it the inode behind it  *)
(* (InodesOwned): what a rename publishes is what that loader wrote        *)
(* (Contents).  An operating system that cleans temporaries hands the name *)
(* of a living loader to another, hence the assumption TempsAreKept.       *)
(*                                                                         *)
(* Two further parts: no load fails while nothing goes wrong, and every    *)
(* library's cache file is an AtomicEntry of its own.                      *)
(***************************************************************************)
EXTENDS FfiCache, FiniteSetTheorems, TLAPS

\* No setting has an operating system that removes temporaries.
TempsAreKept == \A s \in Settings : ~s.cleanTemps

Owning == {"write", "discard", "rename", "undo"}

\* A name that a loader has created leads to a file, and no two loaders have the same one.
NamesOwned ==
  /\ \A l \in Loaders : pc[l] \in Owning => tmp[MyTemp(l)] # None
  /\ \A k, l \in Loaders :
       pc[k] \in Owning /\ pc[l] \in Owning /\ MyTemp(k) = MyTemp(l) => k = l

\* The file behind a name has no other name, and is open where it is being written.
InodesOwned ==
  /\ \A n, o \in TempNames : tmp[n] # None /\ tmp[n] = tmp[o] => n = o
  /\ \A n \in TempNames, b \in Libs : tmp[n] # None => tmp[n] # dest[b]
  /\ \A l \in Loaders : fd[l] = IF pc[l] = "write" THEN tmp[MyTemp(l)] ELSE None

\* What is written, what is about to be renamed, and what is in place.
Contents ==
  /\ \A l \in Loaders : pc[l] = "write" =>
       file[tmp[MyTemp(l)]].lib = MyLib(l) /\ file[tmp[MyTemp(l)]].ok
  /\ \A l \in Loaders : pc[l] = "rename" =>
       file[tmp[MyTemp(l)]] = [lib |-> MyLib(l), len |-> Size, ok |-> TRUE, synced |-> TRUE]
  /\ \A b \in Libs : dest[b] # None =>
       /\ file[dest[b]].synced
       /\ file[dest[b]].ok => file[dest[b]].lib = b /\ file[dest[b]].len = Size

IInv == TypeOK /\ NamesOwned /\ InodesOwned /\ Contents /\ NeverLoadsTorn /\ NoTempLeftBehind

LEMMA Names ==
  ASSUME TypeOK, NEW l \in Loaders
  PROVE  /\ Image[l] \in Images /\ MyLib(l) \in Libs /\ Pid[Image[l]] \in Pids
         /\ MyTemp(l) \in TempNames
         /\ tmp[MyTemp(l)] \in Name
BY SettingsAssumption DEF TypeOK, Image, MyLib, Lib, MyTemp, Pid, TempNames

LEMMA Mod == ASSUME NEW x \in 0 .. Wrap - 1 PROVE (x + 1) % Wrap \in 0 .. Wrap - 1
BY AttemptsAssumption

\* Images that end forget what they know.
LEMMA GoneTypes ==
  ASSUME TypeOK, NEW S, Gone(S)
  PROVE  /\ pc' \in [Loaders -> Label] /\ fd' \in [Loaders -> Name]
         /\ mapped' \in [Loaders -> Name]
         /\ got' \in [Loaders -> {"none", "whole", "torn", "damaged", "foreign"}]
         /\ attempt' \in [Loaders -> 0 .. MaxAttempts]
         /\ number' \in [Loaders -> 0 .. Wrap - 1]
BY AttemptsAssumption DEF TypeOK, Gone, Label, Name

\* The types, which need an open file where one is written.
LEMMA TypeNext ==
  ASSUME TypeOK, NamesOwned, InodesOwned, [Next]_vars
  PROVE  TypeOK'
<1> USE DEF Goto, Fault, private, shared
<1>1. ASSUME NEW l \in Loaders, ReadCarrier(l), UNCHANGED setting PROVE TypeOK'
  BY <1>1, Names, SizeAssumption, FaultsAssumption, AttemptsAssumption DEF
         ReadCarrier, TypeOK, Label, Checks, Finished, Name, MyTemp, MyLib, Entry
<1>2. ASSUME NEW l \in Loaders, CreateDir(l), UNCHANGED setting PROVE TypeOK'
  BY <1>2, Names, SizeAssumption, FaultsAssumption, AttemptsAssumption DEF CreateDir,
         TypeOK, Label, Checks, Finished, Name, MyTemp, MyLib, Entry
<1>3. ASSUME NEW l \in Loaders, CheckDir(l), UNCHANGED setting PROVE TypeOK'
  BY <1>3, Names, SizeAssumption, FaultsAssumption, AttemptsAssumption DEF CheckDir,
         TypeOK, Label, Checks, Finished, Name, MyTemp, MyLib, Entry
<1>4. ASSUME NEW l \in Loaders, CheckWarm(l), UNCHANGED setting PROVE TypeOK'
  BY <1>4, Names, SizeAssumption, FaultsAssumption, AttemptsAssumption DEF CheckWarm,
         Metadata, ReadBytes, TypeOK, Label, Checks, Finished, Name, MyTemp, MyLib,
         Entry
<1>5. ASSUME NEW l \in Loaders, CheckWritten(l), UNCHANGED setting PROVE TypeOK'
  BY <1>5, Names, SizeAssumption, FaultsAssumption, AttemptsAssumption DEF
         CheckWritten, Metadata, ReadBytes, TypeOK, Label, Checks, Finished, Name,
         MyTemp, MyLib, Entry
<1>6. ASSUME NEW l \in Loaders, CheckOther(l), UNCHANGED setting PROVE TypeOK'
  BY <1>6, Names, SizeAssumption, FaultsAssumption, AttemptsAssumption DEF CheckOther,
         Metadata, ReadBytes, TypeOK, Label, Checks, Finished, Name, MyTemp, MyLib,
         Entry
<1>7. ASSUME NEW l \in Loaders, OpenTemp(l), UNCHANGED setting PROVE TypeOK'
  <2> DEFINE m == Image[l]
  <2>1. m \in Images /\ MyLib(l) \in Libs
    BY Names
  <2>2. sequence' \in [Images -> 0 .. Wrap - 1]
    BY <1>7, <2>1, Mod DEF OpenTemp, TypeOK
  <2>3. attempt' \in [Loaders -> 0 .. MaxAttempts]
    BY <1>7, AttemptsAssumption DEF OpenTemp, TypeOK
  <2>4. UNCHANGED <<setting, mapped, got, dest, dir, leaky, faults>>
    BY <1>7 DEF OpenTemp
  <2>5. CASE UNCHANGED <<number, tmp, fd, file>>
    BY <1>7, <2>2, <2>3, <2>4, <2>5 DEF OpenTemp, TypeOK, Label, Finished
  <2>6. ASSUME NEW i \in Fresh({j \in Inodes : ~InUse(j)}),
               pc' = [pc EXCEPT ![l] = "write"],
               number' = [number EXCEPT ![l] = sequence[m]],
               tmp' = [tmp EXCEPT ![<<Pid[m], sequence[m]>>] = i],
               fd' = [fd EXCEPT ![l] = i],
               file' = [file EXCEPT ![i] =
                          [lib |-> MyLib(l), len |-> 0, ok |-> TRUE, synced |-> FALSE]]
        PROVE  TypeOK'
    <3>1. i \in Inodes
      BY <2>6, FreshAssumption
    <3>2. [lib |-> MyLib(l), len |-> 0, ok |-> TRUE, synced |-> FALSE] \in File
      BY <2>1, SizeAssumption DEF File
    <3>3. file' \in [Inodes -> File]
      BY <2>6, <3>1, <3>2 DEF TypeOK
    <3>4. tmp' \in [TempNames -> Name] /\ fd' \in [Loaders -> Name]
      BY <2>6, <3>1 DEF TypeOK, Name
    <3>5. pc' \in [Loaders -> Label] /\ number' \in [Loaders -> 0 .. Wrap - 1]
      BY <2>1, <2>6 DEF TypeOK, Label
    <3> QED
      BY <2>2, <2>3, <2>4, <3>3, <3>4, <3>5 DEF TypeOK
  <2> QED
    BY <1>7, <2>5, <2>6 DEF OpenTemp
<1>8. ASSUME NEW l \in Loaders, AttemptsExhausted(l), UNCHANGED setting PROVE TypeOK'
  BY <1>8, Names, SizeAssumption, FaultsAssumption, AttemptsAssumption DEF
         AttemptsExhausted, TypeOK, Label, Checks, Finished, Name, MyTemp, MyLib,
         Entry
<1>9. ASSUME NEW l \in Loaders, WriteTemp(l), UNCHANGED setting PROVE TypeOK'
  <2>1. pc[l] = "write" /\ fd[l] \in Inodes
    BY <1>9, Names DEF WriteTemp, InodesOwned, NamesOwned, Owning, TypeOK, Name
  <2>2. [lib |-> file[fd[l]].lib, len |-> file[fd[l]].len + 1, ok |-> file[fd[l]].ok, synced |-> FALSE] \in File
    BY <1>9, <2>1, SizeAssumption DEF WriteTemp, TypeOK, File
  <2>3. file' \in [Inodes -> File]
    BY <1>9, <2>1, <2>2 DEF WriteTemp, TypeOK
  <2> QED
    BY <1>9, <2>3 DEF WriteTemp, TypeOK, Label, Name
<1>10. ASSUME NEW l \in Loaders, SyncTemp(l), UNCHANGED setting PROVE TypeOK'
  <2>1. pc[l] = "write" /\ fd[l] \in Inodes
    BY <1>10, Names DEF SyncTemp, InodesOwned, NamesOwned, Owning, TypeOK, Name
  <2>2. [lib |-> file[fd[l]].lib, len |-> file[fd[l]].len, ok |-> file[fd[l]].ok, synced |-> TRUE] \in File
    BY <1>10, <2>1, SizeAssumption DEF SyncTemp, TypeOK, File
  <2>3. file' \in [Inodes -> File]
    BY <1>10, <2>1, <2>2 DEF SyncTemp, TypeOK
  <2> QED
    BY <1>10, <2>3 DEF SyncTemp, TypeOK, Label, Name
<1>11. ASSUME NEW l \in Loaders, RenameTemp(l), UNCHANGED setting PROVE TypeOK'
  <2>1. MyLib(l) \in Libs /\ MyTemp(l) \in TempNames /\ tmp[MyTemp(l)] \in Name
    BY Names
  <2> QED
    BY <1>11, <2>1 DEF RenameTemp, Rename, TypeOK, Label, Checks, Name
<1>12. ASSUME NEW l \in Loaders, RemoveTemp(l), UNCHANGED setting PROVE TypeOK'
  BY <1>12, Names, SizeAssumption, FaultsAssumption, AttemptsAssumption DEF
         RemoveTemp, TypeOK, Label, Checks, Finished, Name, MyTemp, MyLib, Entry
<1>13. ASSUME NEW l \in Loaders, OpenLibrary(l), UNCHANGED setting PROVE TypeOK'
  <2>1. Entry(l) \in Name
    BY Names DEF Entry, TypeOK
  <2>2. Judge(file[Entry(l)], MyLib(l)) \in {"none", "whole", "torn", "damaged", "foreign"}
    BY DEF Judge
  <2> QED
    BY <1>13, <2>1, <2>2 DEF OpenLibrary, TypeOK, Label, Finished, Name
<1>14. ASSUME NEW l \in Loaders, FailIO(l), UNCHANGED setting PROVE TypeOK'
  <2>1. OnError(pc[l]) \in Label
    BY DEF OnError, Label, Checks, Finished
  <2>2. faults' \in 0 .. MaxFaults
    BY <1>14, FaultsAssumption DEF FailIO, TypeOK
  <2>3. leaky' \in BOOLEAN
    BY <1>14 DEF FailIO, TypeOK
  <2>4. fd' \in [Loaders -> Name]
    BY <1>14 DEF FailIO, TypeOK, Name
  <2> QED
    BY <1>14, <2>1, <2>2, <2>3, <2>4 DEF FailIO, TypeOK
<1>15. ASSUME NEW m \in Images, Exit(m), UNCHANGED setting PROVE TypeOK'
  BY <1>15, GoneTypes, AttemptsAssumption DEF Exit, TypeOK
<1>16. ASSUME NEW m \in Images, Crash(m), UNCHANGED setting PROVE TypeOK'
  <2>1. faults' \in 0 .. MaxFaults
    BY <1>16, FaultsAssumption DEF Crash, TypeOK
  <2>2. sequence' \in [Images -> 0 .. Wrap - 1]
    BY <1>16, AttemptsAssumption DEF Crash, TypeOK
  <2> QED
    BY <1>16, <2>1, <2>2, GoneTypes DEF Crash, TypeOK
<1>17. ASSUME DamageEntry, UNCHANGED setting PROVE TypeOK'
  <2>1. faults' \in 0 .. MaxFaults
    BY <1>17, FaultsAssumption DEF DamageEntry, TypeOK
  <2>2. PICK b \in {c \in Libs : dest[c] # None}, n \in 0 .. Size :
          file' = [file EXCEPT ![dest[b]] =
                     [lib |-> @.lib, len |-> n, ok |-> FALSE, synced |-> @.synced]]
    BY <1>17 DEF DamageEntry
  <2>3. file' \in [Inodes -> File]
    BY <2>2 DEF TypeOK, Name, File
  <2> QED
    BY <1>17, <2>1, <2>3 DEF DamageEntry, TypeOK
<1>18. ASSUME CleanTmpdir, UNCHANGED setting PROVE TypeOK'
  <2>1. faults' \in 0 .. MaxFaults
    BY <1>18, FaultsAssumption DEF CleanTmpdir, TypeOK
  <2>2. dest' \in [Libs -> Name] /\ tmp' \in [TempNames -> Name]
    BY <1>18 DEF CleanTmpdir, TypeOK, Name
  <2> QED
    BY <1>18, <2>1, <2>2 DEF CleanTmpdir, TypeOK
<1>19. ASSUME PowerLoss, UNCHANGED setting PROVE TypeOK'
  <2>1. faults' \in 0 .. MaxFaults
    BY <1>19, FaultsAssumption DEF PowerLoss, TypeOK
  <2>2. sequence' \in [Images -> 0 .. Wrap - 1]
    BY <1>19, AttemptsAssumption DEF PowerLoss, TypeOK
  <2>3. file' \in [Inodes -> File]
    <3>1. PICK kept \in [{i \in Inodes : ~file[i].synced} -> 0 .. Size] :
            file' = [i \in Inodes |->
                       IF file[i].synced \/ kept[i] > file[i].len THEN file[i]
                       ELSE [file[i] EXCEPT !.len = kept[i]]]
      BY <1>19 DEF PowerLoss
    <3>2. ASSUME NEW i \in Inodes, ~file[i].synced PROVE [file[i] EXCEPT !.len = kept[i]] \in File
      BY <3>1, <3>2 DEF TypeOK, File
    <3> QED
      BY <3>1, <3>2 DEF TypeOK
  <2> QED
    BY <1>19, <2>1, <2>2, <2>3, GoneTypes DEF PowerLoss, TypeOK
<1>20. UNCHANGED vars => TypeOK'
  BY DEF vars, TypeOK, Label, Checks, Finished, Name, MyTemp, MyLib, Entry
<1> QED
  BY <1>1, <1>2, <1>3, <1>4, <1>5, <1>6, <1>7, <1>8, <1>9, <1>10, <1>11, <1>12, <1>13,
         <1>14, <1>15, <1>16, <1>17, <1>18, <1>19, <1>20 DEF Next, Step, Environment,
         Exit

-----------------------------------------------------------------------------
(* Names, inodes and contents *)

LEMMA FreshInode ==
  ASSUME TypeOK, NEW i \in Fresh({j \in Inodes : ~InUse(j)})
  PROVE  /\ i \in Inodes /\ i # None
         /\ \A n \in TempNames : tmp[n] # i
         /\ \A b \in Libs : dest[b] # i
         /\ \A l \in Loaders : fd[l] # i /\ mapped[l] # i
BY FreshAssumption, NoneAssumption DEF InUse

\* A step that touches no file, after which nobody has begun or ended an extraction.
LEMMA Quiet ==
  ASSUME TypeOK, NamesOwned, InodesOwned, Contents,
         UNCHANGED <<setting, number, fd, dest, tmp, file>>,
         \A k \in Loaders : pc'[k] # pc[k] => pc[k] # "write" /\ pc'[k] \notin Owning
  PROVE  (NamesOwned /\ InodesOwned /\ Contents)'
<1>1. \A k \in Loaders : MyTemp(k)' = MyTemp(k) /\ MyLib(k)' = MyLib(k)
  BY DEF MyTemp, MyLib, Lib, Pid, Image
<1>2. \A k \in Loaders : pc'[k] \in Owning => pc[k] = pc'[k]
  OBVIOUS
<1>3. NamesOwned'
  BY <1>1, <1>2 DEF NamesOwned
<1>4. InodesOwned'
  BY <1>1, <1>2 DEF InodesOwned, Owning
<1>5. Contents'
  BY <1>1, <1>2 DEF Contents, Owning
<1> QED
  BY <1>3, <1>4, <1>5

\* Images end: what their loaders had created stays, and belongs to nobody.
LEMMA GoneQuiet ==
  ASSUME TypeOK, NamesOwned, InodesOwned, Contents,
         NEW S, Gone(S), UNCHANGED <<setting, dest, tmp, file>>
  PROVE  (NamesOwned /\ InodesOwned /\ Contents)'
<1>1. \A k \in Loaders : pc'[k] \in Owning =>
        k \notin S /\ pc[k] = pc'[k] /\ MyTemp(k)' = MyTemp(k)
  BY DEF Gone, Owning, MyTemp, Pid, Image
<1>2. \A k \in Loaders : MyLib(k)' = MyLib(k)
  BY DEF MyLib, Lib, Image
<1>3. \A k \in Loaders : pc'[k] = "write" => fd'[k] = fd[k]
  BY <1>1 DEF Gone, Owning
<1>4. \A k \in Loaders : pc'[k] # "write" => fd'[k] = None
  BY DEF Gone, InodesOwned
<1>5. NamesOwned'
  BY <1>1 DEF NamesOwned
<1>6. InodesOwned'
  BY <1>1, <1>3, <1>4 DEF InodesOwned, Owning
<1>7. Contents'
  BY <1>1, <1>2 DEF Contents, Owning
<1> QED
  BY <1>5, <1>6, <1>7

\* Only the loader that has created a name leads others to what it has written there.
LEMMA OwnedNext ==
  ASSUME TempsAreKept \/ faults' = faults,
         TypeOK, NamesOwned, InodesOwned, Contents, [Next]_vars
  PROVE  (NamesOwned /\ InodesOwned /\ Contents)'
<1> USE DEF Goto, Fault, private, shared
<1>1. ASSUME NEW l \in Loaders, ReadCarrier(l), UNCHANGED setting PROVE (NamesOwned /\ InodesOwned /\ Contents)'
  BY <1>1, Quiet DEF ReadCarrier, TypeOK, Owning
<1>2. ASSUME NEW l \in Loaders, CreateDir(l), UNCHANGED setting PROVE (NamesOwned /\ InodesOwned /\ Contents)'
  BY <1>2, Quiet DEF CreateDir, TypeOK, Owning
<1>3. ASSUME NEW l \in Loaders, CheckDir(l), UNCHANGED setting PROVE (NamesOwned /\ InodesOwned /\ Contents)'
  BY <1>3, Quiet DEF CheckDir, TypeOK, Owning
<1>4. ASSUME NEW l \in Loaders, CheckWarm(l), UNCHANGED setting PROVE (NamesOwned /\ InodesOwned /\ Contents)'
  BY <1>4, Quiet DEF CheckWarm, Metadata, ReadBytes, TypeOK, Owning
<1>5. ASSUME NEW l \in Loaders, CheckWritten(l), UNCHANGED setting PROVE (NamesOwned /\ InodesOwned /\ Contents)'
  BY <1>5, Quiet DEF CheckWritten, Metadata, ReadBytes, TypeOK, Owning
<1>6. ASSUME NEW l \in Loaders, CheckOther(l), UNCHANGED setting PROVE (NamesOwned /\ InodesOwned /\ Contents)'
  BY <1>6, Quiet DEF CheckOther, Metadata, ReadBytes, TypeOK, Owning
<1>7. ASSUME NEW l \in Loaders, OpenTemp(l), UNCHANGED setting PROVE (NamesOwned /\ InodesOwned /\ Contents)'
  <2> DEFINE m == Image[l]
             t == <<Pid[m], sequence[m]>>
  <2>1. m \in Images /\ MyLib(l) \in Libs /\ t \in TempNames /\ pc[l] = "open"
    BY <1>7, Names DEF OpenTemp, TypeOK, TempNames
  <2>2. UNCHANGED <<setting, dest>>
    BY <1>7 DEF OpenTemp
  <2>3. CASE UNCHANGED <<number, tmp, fd, file>> /\ pc' \in {[pc EXCEPT ![l] = "open"], [pc EXCEPT ![l] = "failed"]}
    BY <2>1, <2>2, <2>3, Quiet DEF TypeOK, Owning
  <2>4. ASSUME NEW i \in Fresh({j \in Inodes : ~InUse(j)}),
               pc' = [pc EXCEPT ![l] = "write"], tmp[t] = None,
               number' = [number EXCEPT ![l] = sequence[m]],
               tmp' = [tmp EXCEPT ![t] = i],
               fd' = [fd EXCEPT ![l] = i],
               file' = [file EXCEPT ![i] =
                          [lib |-> MyLib(l), len |-> 0, ok |-> TRUE, synced |-> FALSE]]
        PROVE  (NamesOwned /\ InodesOwned /\ Contents)'
    <3>1. /\ i \in Inodes /\ i # None
          /\ \A o \in TempNames : tmp[o] # i
          /\ \A b \in Libs : dest[b] # i
      BY FreshInode
    <3>2. MyTemp(l)' = t
      BY <2>2, <2>4 DEF MyTemp, Pid, Image, TypeOK
    <3>3. \A k \in Loaders : MyLib(k)' = MyLib(k)
      BY <2>2 DEF MyLib, Lib, Image
    <3>4. \A k \in Loaders \ {l} : MyTemp(k)' = MyTemp(k) /\ pc'[k] = pc[k] /\ fd'[k] = fd[k]
      BY <2>2, <2>4 DEF MyTemp, Pid, Image, TypeOK
    <3>5. /\ tmp'[t] = i /\ fd'[l] = i /\ pc'[l] = "write"
          /\ \A o \in TempNames \ {t} : tmp'[o] = tmp[o]
      BY <2>1, <2>4 DEF TypeOK
    <3>6. \A k \in Loaders \ {l} : pc[k] \in Owning => MyTemp(k) # t /\ MyTemp(k) \in TempNames
      BY <2>4, Names DEF NamesOwned
    <3>7. /\ file'[i] = [lib |-> MyLib(l), len |-> 0, ok |-> TRUE, synced |-> FALSE]
          /\ \A j \in Inodes \ {i} : file'[j] = file[j]
      BY <2>4, <3>1 DEF TypeOK
    <3>8. NamesOwned'
      BY <3>1, <3>2, <3>4, <3>5, <3>6 DEF NamesOwned
    <3>9. InodesOwned'
      BY <2>1, <2>2, <3>1, <3>2, <3>4, <3>5, <3>6 DEF InodesOwned, Owning
    <3>10. \A k \in Loaders \ {l} : pc[k] \in Owning =>
             tmp'[MyTemp(k)] = tmp[MyTemp(k)] /\ tmp[MyTemp(k)] \in Inodes \ {i}
      BY <3>1, <3>5, <3>6, Names DEF NamesOwned, Name
    <3>11. \A b \in Libs : dest[b] # None => dest[b] \in Inodes \ {i}
      BY <3>1 DEF TypeOK, Name
    <3>12. Contents'
      BY <2>2, <3>2, <3>3, <3>4, <3>5, <3>7, <3>10, <3>11 DEF Contents, Owning
    <3> QED
      BY <3>8, <3>9, <3>12
  <2> QED
    BY <1>7, <2>1, <2>3, <2>4 DEF OpenTemp
<1>8. ASSUME NEW l \in Loaders, AttemptsExhausted(l), UNCHANGED setting PROVE (NamesOwned /\ InodesOwned /\ Contents)'
  BY <1>8, Quiet DEF AttemptsExhausted, TypeOK, Owning
<1>9. ASSUME NEW l \in Loaders, WriteTemp(l), UNCHANGED setting PROVE (NamesOwned /\ InodesOwned /\ Contents)'
  <2> DEFINE i == tmp[MyTemp(l)]
  <2>1. pc[l] = "write" /\ fd[l] = i /\ i \in Inodes
    BY <1>9, Names DEF WriteTemp, InodesOwned, NamesOwned, Owning, Name
  <2>2. UNCHANGED <<setting, pc, number, fd, dest, tmp>>
    BY <1>9 DEF WriteTemp
  <2>3. /\ file'[i].lib = file[i].lib /\ file'[i].ok = file[i].ok
        /\ \A j \in Inodes \ {i} : file'[j] = file[j]
    BY <1>9, <2>1 DEF WriteTemp, TypeOK
  <2>4. \A k \in Loaders : MyTemp(k)' = MyTemp(k) /\ MyLib(k)' = MyLib(k)
    BY <2>2 DEF MyTemp, MyLib, Lib, Pid, Image
  <2>5. NamesOwned' /\ InodesOwned'
    BY <2>2, <2>4 DEF NamesOwned, InodesOwned
  <2>6. \A k \in Loaders \ {l} : pc[k] \in Owning => tmp[MyTemp(k)] \in Inodes \ {i}
    BY <2>1, Names DEF NamesOwned, InodesOwned, Owning, Name
  <2>7. \A b \in Libs : dest[b] # None => dest[b] \in Inodes \ {i}
    BY <2>1, Names, NoneAssumption DEF InodesOwned, TypeOK, Name
  <2>8. Contents'
    BY <2>1, <2>2, <2>3, <2>4, <2>6, <2>7 DEF Contents, Owning
  <2> QED
    BY <2>5, <2>8
<1>10. ASSUME NEW l \in Loaders, SyncTemp(l), UNCHANGED setting PROVE (NamesOwned /\ InodesOwned /\ Contents)'
  <2> DEFINE i == tmp[MyTemp(l)]
  <2>1. pc[l] = "write" /\ fd[l] = i /\ i \in Inodes
    BY <1>10, Names DEF SyncTemp, InodesOwned, NamesOwned, Owning, Name
  <2>2. /\ UNCHANGED <<setting, number, dest, tmp>> /\ pc'[l] = "rename" /\ fd'[l] = None
        /\ \A k \in Loaders \ {l} : pc'[k] = pc[k] /\ fd'[k] = fd[k]
    BY <1>10 DEF SyncTemp, TypeOK
  <2>3. /\ file'[i] = [lib |-> file[i].lib, len |-> Size, ok |-> file[i].ok, synced |-> TRUE]
        /\ \A j \in Inodes \ {i} : file'[j] = file[j]
    BY <1>10, <2>1 DEF SyncTemp, TypeOK
  <2>4. \A k \in Loaders : MyTemp(k)' = MyTemp(k) /\ MyLib(k)' = MyLib(k)
    BY <2>2 DEF MyTemp, MyLib, Lib, Pid, Image
  <2>5. NamesOwned' /\ InodesOwned'
    BY <2>1, <2>2, <2>4 DEF NamesOwned, InodesOwned, Owning
  <2>6. \A k \in Loaders \ {l} : pc[k] \in Owning => tmp[MyTemp(k)] \in Inodes \ {i}
    BY <2>1, Names DEF NamesOwned, InodesOwned, Owning, Name
  <2>7. \A b \in Libs : dest[b] # None => dest[b] \in Inodes \ {i}
    BY <2>1, Names, NoneAssumption DEF InodesOwned, TypeOK, Name
  <2>8. file'[i] = [lib |-> MyLib(l), len |-> Size, ok |-> TRUE, synced |-> TRUE]
    <3>1. file[i].lib = MyLib(l) /\ file[i].ok /\ file[i].ok \in BOOLEAN
      BY <2>1 DEF Contents, TypeOK, File
    <3> QED
      BY <2>3, <3>1
  <2>9. Contents'
    <3>1. \A k \in Loaders : pc'[k] = "write" =>
            k # l /\ file'[tmp[MyTemp(k)]] = file[tmp[MyTemp(k)]]
      BY <2>2, <2>3, <2>6 DEF Owning
    <3>2. \A k \in Loaders \ {l} : pc'[k] = "rename" =>
            file'[tmp[MyTemp(k)]] = file[tmp[MyTemp(k)]]
      BY <2>2, <2>3, <2>6 DEF Owning
    <3>3. \A b \in Libs : dest[b] # None => file'[dest[b]] = file[dest[b]]
      BY <2>3, <2>7
    <3> HIDE DEF i
    <3>4. \A k \in Loaders : pc'[k] = "write" =>
            file'[tmp[MyTemp(k)]].lib = MyLib(k) /\ file'[tmp[MyTemp(k)]].ok
      BY <2>2, <3>1 DEF Contents
    <3>5. \A k \in Loaders : pc'[k] = "rename" =>
            file'[tmp[MyTemp(k)]] =
              [lib |-> MyLib(k), len |-> Size, ok |-> TRUE, synced |-> TRUE]
      <4>1. \A k \in Loaders \ {l} : pc'[k] = "rename" => pc[k] = "rename"
        BY <2>2
      <4>2. file'[tmp[MyTemp(l)]] =
              [lib |-> MyLib(l), len |-> Size, ok |-> TRUE, synced |-> TRUE]
        BY <2>8 DEF i
      <4>3. ASSUME NEW k \in Loaders \ {l}, pc'[k] = "rename"
            PROVE  file'[tmp[MyTemp(k)]] =
                     [lib |-> MyLib(k), len |-> Size, ok |-> TRUE, synced |-> TRUE]
        BY <3>2, <4>1, <4>3, ZenonT(40) DEF Contents
      <4> QED
        BY <4>2, <4>3
    <3>6. \A b \in Libs : dest[b] # None =>
            /\ file'[dest[b]].synced
            /\ file'[dest[b]].ok => file'[dest[b]].lib = b /\ file'[dest[b]].len = Size
      BY <3>3 DEF Contents
    <3> QED
      BY <2>2, <2>4, <3>4, <3>5, <3>6 DEF Contents
  <2> QED
    BY <2>5, <2>9
<1>11. ASSUME NEW l \in Loaders, RenameTemp(l), UNCHANGED setting PROVE (NamesOwned /\ InodesOwned /\ Contents)'
  <2>1. pc[l] = "rename" /\ MyLib(l) \in Libs /\ MyTemp(l) \in TempNames
    BY <1>11, Names DEF RenameTemp, Rename
  <2>2. UNCHANGED <<setting, number, fd, file>>
    BY <1>11 DEF RenameTemp, Rename
  <2>3. \A k \in Loaders : MyTemp(k)' = MyTemp(k) /\ MyLib(k)' = MyLib(k)
    BY <2>2 DEF MyTemp, MyLib, Lib, Pid, Image
  <2>4. CASE UNCHANGED <<dest, tmp>> /\ pc' = [pc EXCEPT ![l] = "undo"]
    <3>1. pc'[l] = "undo" /\ \A k \in Loaders \ {l} : pc'[k] = pc[k]
      BY <2>4 DEF TypeOK
    <3> QED
      BY <2>1, <2>2, <2>3, <2>4, <3>1 DEF NamesOwned, InodesOwned, Contents, Owning
  <2>5. CASE /\ pc' = [pc EXCEPT ![l] = "meta2"]
             /\ dest' = [dest EXCEPT ![MyLib(l)] = tmp[MyTemp(l)]]
             /\ tmp' = [tmp EXCEPT ![MyTemp(l)] = None]
    <3>1. pc'[l] = "meta2" /\ \A k \in Loaders \ {l} : pc'[k] = pc[k]
      BY <2>5 DEF TypeOK
    <3>2. /\ dest'[MyLib(l)] = tmp[MyTemp(l)]
          /\ \A b \in Libs \ {MyLib(l)} : dest'[b] = dest[b]
          /\ tmp'[MyTemp(l)] = None
          /\ \A o \in TempNames \ {MyTemp(l)} : tmp'[o] = tmp[o]
      BY <2>1, <2>5 DEF TypeOK
    <3>3. \A k \in Loaders \ {l} : pc[k] \in Owning => MyTemp(k) \in TempNames \ {MyTemp(l)}
      BY <2>1, Names DEF NamesOwned, Owning
    <3>4. NamesOwned'
      BY <2>3, <3>1, <3>2, <3>3 DEF NamesOwned, Owning
    <3>5. InodesOwned'
      BY <2>1, <2>2, <2>3, <3>1, <3>2, <3>3 DEF InodesOwned, NamesOwned, Owning
    <3>6. file[tmp[MyTemp(l)]] = [lib |-> MyLib(l), len |-> Size, ok |-> TRUE, synced |-> TRUE]
      BY <2>1 DEF Contents
    <3>7. Contents'
      BY <2>1, <2>2, <2>3, <3>1, <3>2, <3>3, <3>6 DEF Contents, Owning
    <3> QED
      BY <3>4, <3>5, <3>7
  <2> QED
    BY <1>11, <2>4, <2>5 DEF RenameTemp, Rename
<1>12. ASSUME NEW l \in Loaders, RemoveTemp(l), UNCHANGED setting PROVE (NamesOwned /\ InodesOwned /\ Contents)'
  <2>1. pc[l] \in {"discard", "undo"} /\ MyTemp(l) \in TempNames
    BY <1>12, Names DEF RemoveTemp
  <2>2. UNCHANGED <<setting, number, fd, dest, file>>
    BY <1>12 DEF RemoveTemp
  <2>3. \A k \in Loaders : MyTemp(k)' = MyTemp(k) /\ MyLib(k)' = MyLib(k)
    BY <2>2 DEF MyTemp, MyLib, Lib, Pid, Image
  <2>4. pc'[l] \in {"failed", "meta3"} /\ \A k \in Loaders \ {l} : pc'[k] = pc[k]
    BY <1>12 DEF RemoveTemp, TypeOK
  <2>5. tmp'[MyTemp(l)] = None /\ \A o \in TempNames \ {MyTemp(l)} : tmp'[o] = tmp[o]
    BY <1>12, <2>1 DEF RemoveTemp, TypeOK
  <2>6. \A k \in Loaders \ {l} : pc[k] \in Owning => MyTemp(k) \in TempNames \ {MyTemp(l)}
    BY <2>1, Names DEF NamesOwned, Owning
  <2>7. NamesOwned'
    BY <2>3, <2>4, <2>5, <2>6 DEF NamesOwned, Owning
  <2>8. InodesOwned'
    BY <2>1, <2>2, <2>3, <2>4, <2>5, <2>6 DEF InodesOwned, NamesOwned, Owning
  <2>9. Contents'
    BY <2>1, <2>2, <2>3, <2>4, <2>5, <2>6 DEF Contents, Owning
  <2> QED
    BY <2>7, <2>8, <2>9
<1>13. ASSUME NEW l \in Loaders, OpenLibrary(l), UNCHANGED setting PROVE (NamesOwned /\ InodesOwned /\ Contents)'
  BY <1>13, Quiet DEF OpenLibrary, TypeOK, Owning
<1>14. ASSUME NEW l \in Loaders, FailIO(l), UNCHANGED setting PROVE (NamesOwned /\ InodesOwned /\ Contents)'
  <2>1. UNCHANGED <<setting, number, dest, tmp, file>>
    BY <1>14 DEF FailIO
  <2>2. \A k \in Loaders : MyTemp(k)' = MyTemp(k) /\ MyLib(k)' = MyLib(k)
    BY <2>1 DEF MyTemp, MyLib, Lib, Pid, Image
  <2>3. /\ fd'[l] = None /\ pc'[l] = OnError(pc[l])
        /\ \A k \in Loaders \ {l} : pc'[k] = pc[k] /\ fd'[k] = fd[k]
    BY <1>14 DEF FailIO, TypeOK
  <2>4. /\ OnError(pc[l]) \notin {"write", "rename"}
        /\ OnError(pc[l]) \in Owning => pc[l] \in Owning
    BY DEF OnError, Owning
  <2>5. NamesOwned'
    BY <2>1, <2>2, <2>3, <2>4 DEF NamesOwned
  <2>6. InodesOwned'
    BY <2>1, <2>2, <2>3, <2>4 DEF InodesOwned
  <2>7. Contents'
    BY <2>1, <2>2, <2>3, <2>4 DEF Contents
  <2> QED
    BY <2>5, <2>6, <2>7
<1>15. ASSUME NEW m \in Images, Exit(m), UNCHANGED setting PROVE (NamesOwned /\ InodesOwned /\ Contents)'
  BY <1>15, GoneQuiet DEF Exit
<1>16. ASSUME NEW m \in Images, Crash(m), UNCHANGED setting PROVE (NamesOwned /\ InodesOwned /\ Contents)'
  BY <1>16, GoneQuiet DEF Crash
<1>17. ASSUME DamageEntry, UNCHANGED setting PROVE (NamesOwned /\ InodesOwned /\ Contents)'
  <2>1. UNCHANGED <<setting, pc, number, fd, dest, tmp>>
    BY <1>17 DEF DamageEntry
  <2>2. PICK c \in Libs, n \in 0 .. Size :
          /\ dest[c] # None
          /\ file' = [file EXCEPT ![dest[c]] =
                        [lib |-> @.lib, len |-> n, ok |-> FALSE, synced |-> @.synced]]
    BY <1>17 DEF DamageEntry
  <2>3. dest[c] \in Inodes
    BY <2>2 DEF TypeOK, Name
  <2>4. /\ ~file'[dest[c]].ok /\ file'[dest[c]].synced = file[dest[c]].synced
        /\ \A j \in Inodes \ {dest[c]} : file'[j] = file[j]
    BY <2>2, <2>3 DEF TypeOK
  <2>5. \A k \in Loaders : MyTemp(k)' = MyTemp(k) /\ MyLib(k)' = MyLib(k)
    BY <2>1 DEF MyTemp, MyLib, Lib, Pid, Image
  <2>6. NamesOwned' /\ InodesOwned'
    BY <2>1, <2>5 DEF NamesOwned, InodesOwned
  <2>7. \A k \in Loaders : pc[k] \in Owning => tmp[MyTemp(k)] \in Inodes \ {dest[c]}
    BY Names DEF NamesOwned, InodesOwned, Name
  <2>8. \A b \in Libs : dest[b] # None => dest[b] \in Inodes
    BY DEF TypeOK, Name
  <2>9. Contents'
    BY <2>1, <2>4, <2>5, <2>7, <2>8 DEF Contents, Owning
  <2> QED
    BY <2>6, <2>9
<1>18. ASSUME CleanTmpdir, UNCHANGED setting PROVE (NamesOwned /\ InodesOwned /\ Contents)'
  <2>1. UNCHANGED <<setting, pc, number, fd, file>>
    BY <1>18 DEF CleanTmpdir
  <2>2. UNCHANGED tmp /\ \A b \in Libs : dest'[b] \in {dest[b], None}
    BY <1>18 DEF TempsAreKept, CleanTmpdir, CleanTemps, TypeOK
  <2>3. \A k \in Loaders : MyTemp(k)' = MyTemp(k) /\ MyLib(k)' = MyLib(k)
    BY <2>1 DEF MyTemp, MyLib, Lib, Pid, Image
  <2> QED
    BY <2>1, <2>2, <2>3 DEF NamesOwned, InodesOwned, Contents
<1>19. ASSUME PowerLoss, UNCHANGED setting PROVE (NamesOwned /\ InodesOwned /\ Contents)'
  <2>1. UNCHANGED <<setting, dest, tmp>> /\ Gone(Loaders)
    BY <1>19 DEF PowerLoss
  <2>2. \A k \in Loaders : pc'[k] = "idle" /\ fd'[k] = None
    BY <2>1 DEF Gone
  <2>3. \A i \in Inodes : file[i].synced => file'[i] = file[i]
    BY <1>19 DEF PowerLoss
  <2>4. \A b \in Libs : dest[b] # None => dest[b] \in Inodes
    BY DEF TypeOK, Name
  <2>5. NamesOwned' /\ InodesOwned'
    BY <2>1, <2>2 DEF NamesOwned, InodesOwned, Owning
  <2>6. Contents'
    BY <2>1, <2>2, <2>3, <2>4 DEF Contents
  <2> QED
    BY <2>5, <2>6
<1>20. UNCHANGED vars => (NamesOwned /\ InodesOwned /\ Contents)'
  BY Quiet DEF vars
<1> QED
  BY <1>1, <1>2, <1>3, <1>4, <1>5, <1>6, <1>7, <1>8, <1>9, <1>10, <1>11, <1>12, <1>13,
         <1>14, <1>15, <1>16, <1>17, <1>18, <1>19, <1>20 DEF Next, Step, Environment,
         Exit

\* What is opened is in place.
LEMMA LoadsNext ==
  ASSUME TypeOK, Contents, NeverLoadsTorn, [Next]_vars
  PROVE  NeverLoadsTorn'
<1> USE DEF Goto, Fault, private, shared
<1>1. ASSUME NEW l \in Loaders, ReadCarrier(l), UNCHANGED setting PROVE NeverLoadsTorn'
  BY <1>1 DEF ReadCarrier, NeverLoadsTorn, TypeOK
<1>2. ASSUME NEW l \in Loaders, CreateDir(l), UNCHANGED setting PROVE NeverLoadsTorn'
  BY <1>2 DEF CreateDir, NeverLoadsTorn, TypeOK
<1>3. ASSUME NEW l \in Loaders, CheckDir(l), UNCHANGED setting PROVE NeverLoadsTorn'
  BY <1>3 DEF CheckDir, NeverLoadsTorn, TypeOK
<1>4. ASSUME NEW l \in Loaders, CheckWarm(l), UNCHANGED setting PROVE NeverLoadsTorn'
  BY <1>4 DEF CheckWarm, Metadata, ReadBytes, NeverLoadsTorn, TypeOK
<1>5. ASSUME NEW l \in Loaders, CheckWritten(l), UNCHANGED setting PROVE NeverLoadsTorn'
  BY <1>5 DEF CheckWritten, Metadata, ReadBytes, NeverLoadsTorn, TypeOK
<1>6. ASSUME NEW l \in Loaders, CheckOther(l), UNCHANGED setting PROVE NeverLoadsTorn'
  BY <1>6 DEF CheckOther, Metadata, ReadBytes, NeverLoadsTorn, TypeOK
<1>7. ASSUME NEW l \in Loaders, OpenTemp(l), UNCHANGED setting PROVE NeverLoadsTorn'
  BY <1>7 DEF OpenTemp, NeverLoadsTorn, TypeOK
<1>8. ASSUME NEW l \in Loaders, AttemptsExhausted(l), UNCHANGED setting PROVE NeverLoadsTorn'
  BY <1>8 DEF AttemptsExhausted, NeverLoadsTorn, TypeOK
<1>9. ASSUME NEW l \in Loaders, WriteTemp(l), UNCHANGED setting PROVE NeverLoadsTorn'
  BY <1>9 DEF WriteTemp, NeverLoadsTorn, TypeOK
<1>10. ASSUME NEW l \in Loaders, SyncTemp(l), UNCHANGED setting PROVE NeverLoadsTorn'
  BY <1>10 DEF SyncTemp, NeverLoadsTorn, TypeOK
<1>11. ASSUME NEW l \in Loaders, RenameTemp(l), UNCHANGED setting PROVE NeverLoadsTorn'
  BY <1>11 DEF RenameTemp, Rename, NeverLoadsTorn, TypeOK
<1>12. ASSUME NEW l \in Loaders, RemoveTemp(l), UNCHANGED setting PROVE NeverLoadsTorn'
  BY <1>12 DEF RemoveTemp, NeverLoadsTorn, TypeOK
<1>13. ASSUME NEW l \in Loaders, OpenLibrary(l), UNCHANGED setting PROVE NeverLoadsTorn'
  <2>1. CASE Entry(l) = None
    BY <1>13, <2>1 DEF OpenLibrary, NeverLoadsTorn
  <2>2. CASE Entry(l) # None
    <3>1. Judge(file[Entry(l)], MyLib(l)) \in {"whole", "damaged"}
      BY <2>2, Names DEF Judge, Entry, Contents
    <3>2. got' = [got EXCEPT ![l] = Judge(file[Entry(l)], MyLib(l))]
      BY <1>13, <2>2 DEF OpenLibrary
    <3> QED
      BY <3>1, <3>2 DEF NeverLoadsTorn, TypeOK
  <2> QED
    BY <2>1, <2>2
<1>14. ASSUME NEW l \in Loaders, FailIO(l), UNCHANGED setting PROVE NeverLoadsTorn'
  BY <1>14 DEF FailIO, OnError, NeverLoadsTorn, TypeOK
<1>15. ASSUME NEW m \in Images, Exit(m), UNCHANGED setting PROVE NeverLoadsTorn'
  BY <1>15 DEF Exit, Gone, NeverLoadsTorn, TypeOK
<1>16. ASSUME NEW m \in Images, Crash(m), UNCHANGED setting PROVE NeverLoadsTorn'
  BY <1>16 DEF Crash, Gone, NeverLoadsTorn, TypeOK
<1>17. ASSUME DamageEntry, UNCHANGED setting PROVE NeverLoadsTorn'
  BY <1>17 DEF DamageEntry, NeverLoadsTorn, TypeOK
<1>18. ASSUME CleanTmpdir, UNCHANGED setting PROVE NeverLoadsTorn'
  BY <1>18 DEF CleanTmpdir, NeverLoadsTorn, TypeOK
<1>19. ASSUME PowerLoss, UNCHANGED setting PROVE NeverLoadsTorn'
  BY <1>19 DEF PowerLoss, Gone, NeverLoadsTorn, TypeOK
<1>20. UNCHANGED vars => NeverLoadsTorn'
  BY DEF vars, NeverLoadsTorn, TypeOK
<1> QED
  BY <1>1, <1>2, <1>3, <1>4, <1>5, <1>6, <1>7, <1>8, <1>9, <1>10, <1>11, <1>12, <1>13,
         <1>14, <1>15, <1>16, <1>17, <1>18, <1>19, <1>20 DEF Next, Step, Environment,
         Exit

\* A temporary is removed by the loader that has it.
LEMMA LeftNext ==
  ASSUME TempsAreKept \/ faults' = faults,
         TypeOK, NamesOwned, NoTempLeftBehind, [Next]_vars
  PROVE  NoTempLeftBehind'
<1> USE DEF Goto, Fault, private, shared
<1>1. ASSUME NEW l \in Loaders, ReadCarrier(l), UNCHANGED setting PROVE NoTempLeftBehind'
  BY <1>1 DEF ReadCarrier, NoTempLeftBehind, TypeOK, MyTemp, Pid, Image
<1>2. ASSUME NEW l \in Loaders, CreateDir(l), UNCHANGED setting PROVE NoTempLeftBehind'
  BY <1>2 DEF CreateDir, NoTempLeftBehind, TypeOK, MyTemp, Pid, Image
<1>3. ASSUME NEW l \in Loaders, CheckDir(l), UNCHANGED setting PROVE NoTempLeftBehind'
  BY <1>3 DEF CheckDir, NoTempLeftBehind, TypeOK, MyTemp, Pid, Image
<1>4. ASSUME NEW l \in Loaders, CheckWarm(l), UNCHANGED setting PROVE NoTempLeftBehind'
  BY <1>4 DEF CheckWarm, Metadata, ReadBytes, NoTempLeftBehind, TypeOK, MyTemp, Pid,
         Image
<1>5. ASSUME NEW l \in Loaders, CheckWritten(l), UNCHANGED setting PROVE NoTempLeftBehind'
  BY <1>5 DEF CheckWritten, Metadata, ReadBytes, NoTempLeftBehind, TypeOK, MyTemp,
         Pid, Image
<1>6. ASSUME NEW l \in Loaders, CheckOther(l), UNCHANGED setting PROVE NoTempLeftBehind'
  BY <1>6 DEF CheckOther, Metadata, ReadBytes, NoTempLeftBehind, TypeOK, MyTemp, Pid,
         Image
<1>7. ASSUME NEW l \in Loaders, OpenTemp(l), UNCHANGED setting PROVE NoTempLeftBehind'
  <2> DEFINE t == <<Pid[Image[l]], sequence[Image[l]]>>
  <2>1. pc[l] = "open" /\ UNCHANGED <<setting, leaky>> /\ t \in TempNames
    BY <1>7, Names DEF OpenTemp, TypeOK, TempNames
  <2>2. \A k \in Loaders \ {l} : pc'[k] = pc[k] /\ MyTemp(k)' = MyTemp(k)
    BY <1>7 DEF OpenTemp, TypeOK, MyTemp, Pid, Image
  <2>3. CASE UNCHANGED tmp
    BY <2>1, <2>2, <2>3 DEF NoTempLeftBehind
  <2>4. CASE /\ pc' = [pc EXCEPT ![l] = "write"]
             /\ number' = [number EXCEPT ![l] = sequence[Image[l]]]
             /\ \E i \in Inodes : tmp' = [tmp EXCEPT ![t] = i]
    <3>1. pc'[l] = "write" /\ MyTemp(l)' = t /\ \A n \in TempNames \ {t} : tmp'[n] = tmp[n]
      BY <2>1, <2>4 DEF TypeOK, MyTemp, Pid, Image
    <3> QED
      BY <2>1, <2>2, <3>1 DEF NoTempLeftBehind
  <2> QED
    BY <1>7, <2>3, <2>4, FreshInode DEF OpenTemp
<1>8. ASSUME NEW l \in Loaders, AttemptsExhausted(l), UNCHANGED setting PROVE NoTempLeftBehind'
  BY <1>8 DEF AttemptsExhausted, NoTempLeftBehind, TypeOK, MyTemp, Pid, Image
<1>9. ASSUME NEW l \in Loaders, WriteTemp(l), UNCHANGED setting PROVE NoTempLeftBehind'
  BY <1>9 DEF WriteTemp, NoTempLeftBehind, TypeOK, MyTemp, Pid, Image
<1>10. ASSUME NEW l \in Loaders, SyncTemp(l), UNCHANGED setting PROVE NoTempLeftBehind'
  BY <1>10 DEF SyncTemp, NoTempLeftBehind, TypeOK, MyTemp, Pid, Image
<1>11. ASSUME NEW l \in Loaders, RenameTemp(l), UNCHANGED setting PROVE NoTempLeftBehind'
  <2>1. /\ pc[l] = "rename" /\ UNCHANGED <<setting, number, leaky>>
        /\ pc'[l] = "undo" \/ pc'[l] = "meta2"
        /\ \A k \in Loaders \ {l} : pc'[k] = pc[k]
    BY <1>11 DEF RenameTemp, Rename, TypeOK
  <2>2. \A k \in Loaders : MyTemp(k)' = MyTemp(k) /\ MyTemp(k) \in TempNames
    BY <2>1, Names DEF MyTemp, Pid, Image
  <2>3. CASE UNCHANGED tmp /\ pc'[l] = "undo"
    BY <2>1, <2>2, <2>3 DEF NoTempLeftBehind
  <2>4. CASE tmp' = [tmp EXCEPT ![MyTemp(l)] = None]
    <3>1. \A n \in TempNames : tmp'[n] # None => n # MyTemp(l) /\ tmp'[n] = tmp[n]
      BY <2>2, <2>4 DEF TypeOK
    <3> QED
      BY <2>1, <2>2, <3>1 DEF NoTempLeftBehind
  <2> QED
    BY <1>11, <2>3, <2>4 DEF RenameTemp, Rename, TypeOK
<1>12. ASSUME NEW l \in Loaders, RemoveTemp(l), UNCHANGED setting PROVE NoTempLeftBehind'
  <2>1. /\ UNCHANGED <<setting, number, leaky>>
        /\ \A k \in Loaders \ {l} : pc'[k] = pc[k]
    BY <1>12 DEF RemoveTemp, TypeOK
  <2>2. \A k \in Loaders : MyTemp(k)' = MyTemp(k) /\ MyTemp(k) \in TempNames
    BY <2>1, Names DEF MyTemp, Pid, Image
  <2>3. \A n \in TempNames : tmp'[n] # None => n # MyTemp(l) /\ tmp'[n] = tmp[n]
    BY <1>12, <2>2 DEF RemoveTemp, TypeOK
  <2> QED
    BY <2>1, <2>2, <2>3 DEF NoTempLeftBehind
<1>13. ASSUME NEW l \in Loaders, OpenLibrary(l), UNCHANGED setting PROVE NoTempLeftBehind'
  BY <1>13 DEF OpenLibrary, NoTempLeftBehind, TypeOK, MyTemp, Pid, Image
<1>14. ASSUME NEW l \in Loaders, FailIO(l), UNCHANGED setting PROVE NoTempLeftBehind'
  <2> SUFFICES ASSUME ~leaky' PROVE NoTempLeftBehind'
    BY DEF NoTempLeftBehind
  <2>1. /\ UNCHANGED <<setting, number, tmp>> /\ ~leaky /\ pc[l] \notin {"discard", "undo"}
        /\ pc'[l] = OnError(pc[l])
        /\ \A k \in Loaders \ {l} : pc'[k] = pc[k]
    BY <1>14 DEF FailIO, TypeOK
  <2>2. \A k \in Loaders : MyTemp(k)' = MyTemp(k)
    BY <2>1 DEF MyTemp, Pid, Image
  <2>3. pc[l] \in Owning => OnError(pc[l]) \in Owning
    BY <2>1 DEF OnError, Owning
  <2> QED
    BY <2>1, <2>2, <2>3 DEF NoTempLeftBehind, Owning
<1>15. ASSUME NEW m \in Images, Exit(m), UNCHANGED setting PROVE NoTempLeftBehind'
  <2>1. \A k \in Loaders : pc[k] \in Owning =>
          pc'[k] = pc[k] /\ MyTemp(k)' = MyTemp(k)
    BY <1>15 DEF Exit, Gone, Running, Finished, Owning, MyTemp, Pid, Image
  <2> QED
    BY <1>15, <2>1 DEF Exit, NoTempLeftBehind, Owning
<1>16. ASSUME NEW m \in Images, Crash(m), UNCHANGED setting PROVE NoTempLeftBehind'
  BY <1>16 DEF Crash, NoTempLeftBehind
<1>17. ASSUME DamageEntry, UNCHANGED setting PROVE NoTempLeftBehind'
  BY <1>17 DEF DamageEntry, NoTempLeftBehind, TypeOK, MyTemp, Pid, Image
<1>18. ASSUME CleanTmpdir, UNCHANGED setting PROVE NoTempLeftBehind'
  <2>1. UNCHANGED <<setting, pc, number, tmp, leaky>>
    BY <1>18 DEF TempsAreKept, CleanTmpdir, CleanTemps, TypeOK
  <2> QED
    BY <2>1 DEF NoTempLeftBehind, MyTemp, Pid, Image
<1>19. ASSUME PowerLoss, UNCHANGED setting PROVE NoTempLeftBehind'
  BY <1>19 DEF PowerLoss, NoTempLeftBehind
<1>20. UNCHANGED vars => NoTempLeftBehind'
  BY DEF vars, NoTempLeftBehind, TypeOK, MyTemp, Pid, Image
<1> QED
  BY <1>1, <1>2, <1>3, <1>4, <1>5, <1>6, <1>7, <1>8, <1>9, <1>10, <1>11, <1>12, <1>13,
         <1>14, <1>15, <1>16, <1>17, <1>18, <1>19, <1>20 DEF Next, Step, Environment,
         Exit

-----------------------------------------------------------------------------
(* The theorems *)

LEMMA InitInv == Init => IInv
<1> SUFFICES ASSUME Init PROVE IInv
  OBVIOUS
<1>1. /\ \A l \in Loaders : pc[l] = "idle" /\ fd[l] = None /\ got[l] = "none"
      /\ \A n \in TempNames : tmp[n] = None
      /\ dest \in [Libs -> Name]
  BY DEF Init
<1>2. PICK ok \in BOOLEAN :
        file = [i \in Inodes |->
                  IF \E b \in Libs : dest[b] = i
                  THEN [lib |-> CHOOSE b \in Libs : dest[b] = i,
                        len |-> Size, ok |-> ok, synced |-> TRUE]
                  ELSE [lib |-> None, len |-> 0, ok |-> TRUE, synced |-> TRUE]]
  BY DEF Init
<1>3. file \in [Inodes -> File]
  BY <1>2, SizeAssumption DEF File
<1>4. TypeOK
  <2>1. /\ attempt \in [Loaders -> 0 .. MaxAttempts] /\ number \in [Loaders -> 0 .. Wrap - 1]
        /\ sequence \in [Images -> 0 .. Wrap - 1] /\ faults \in 0 .. MaxFaults
    BY AttemptsAssumption, FaultsAssumption DEF Init
  <2>2. /\ setting \in Settings /\ pc \in [Loaders -> Label] /\ fd \in [Loaders -> Name]
        /\ mapped \in [Loaders -> Name] /\ tmp \in [TempNames -> Name]
        /\ got \in [Loaders -> {"none", "whole", "torn", "damaged", "foreign"}]
        /\ dir \in {"absent", "owned", "unsafe"}
    BY DEF Init, Label, Name
  <2>3. leaky \in BOOLEAN
    BY DEF Init
  <2> QED
    BY <1>1, <1>3, <2>1, <2>2, <2>3 DEF TypeOK
<1>5. \A b, c \in Libs : dest[b] # None /\ dest[b] = dest[c] => b = c
  <2> SUFFICES ASSUME NEW b \in Libs, NEW c \in Libs, dest[b] # None, dest[b] = dest[c], b # c
               PROVE  FALSE
    OBVIOUS
  <2>1. dest[b] \in Fresh({i \in Inodes : \A d \in Libs \ {b} : dest[d] # i})
    BY DEF Init
  <2> QED
    BY <2>1, FreshAssumption
<1>6. \A b \in Libs : dest[b] # None =>
        file[dest[b]].synced /\ file[dest[b]].lib = b /\ file[dest[b]].len = Size
  BY <1>1, <1>2, <1>5 DEF Name
<1> QED
  BY <1>1, <1>4, <1>6 DEF IInv, NamesOwned, InodesOwned, Contents, Owning, NeverLoadsTorn,
                          NoTempLeftBehind

LEMMA InvNext ==
  ASSUME TempsAreKept \/ faults' = faults, IInv, [Next]_vars
  PROVE  IInv'
BY TypeNext, OwnedNext, LoadsNext, LeftNext DEF IInv

\* A name belongs to the loader that has created it, its file to the name, and its contents
\* to the library of that loader: whoever shares a process or a process id.
THEOREM Inductive ==
  ASSUME TempsAreKept
  PROVE  Spec => []IInv
<1>1. IInv /\ [Next]_vars => IInv'
  BY InvNext
<1> QED
  BY InitInv, <1>1, PTL DEF Spec

\* Type correctness (crates/abitious-ffi-stub/src/cache.rs).
THEOREM TypeCorrect ==
  ASSUME TempsAreKept
  PROVE  Spec => []TypeOK
<1>1. IInv => TypeOK
  BY DEF IInv
<1> QED
  BY Inductive, <1>1, PTL

\* No caller opens a library that valid_cached_file would have found half-written or
\* another's, in any setting of processes, process ids and libraries.
THEOREM TornIsNeverLoaded ==
  ASSUME TempsAreKept
  PROVE  Spec => []NeverLoadsTorn
<1>1. IInv => NeverLoadsTorn
  BY DEF IInv
<1> QED
  BY Inductive, <1>1, PTL

\* write_atomic removes what it does not rename: a temporary without an extraction is left
\* only where a process died or a removal failed.
THEOREM NoTempIsLeft ==
  ASSUME TempsAreKept
  PROVE  Spec => []NoTempLeftBehind
<1>1. IInv => NoTempLeftBehind
  BY DEF IInv
<1> QED
  BY Inductive, <1>1, PTL

-----------------------------------------------------------------------------
(* While nothing goes wrong, no load fails.  Two things could make one fail. *)
(*                                                                           *)
(* The entry: once somebody has found it or put it there, it stays whole, so *)
(* a load that cannot replace it may use it (Unhindered).                    *)
(*                                                                           *)
(* The names: a loader could find every name it tries taken.  Its place is   *)
(* the number it will try next, or the number of the temporary it has, and   *)
(* it moves up only past a loader that stays behind with the name.  So there *)
(* are at most n - i of the n loaders at places from i on (Spread), and a    *)
(* loader that has tried i names is at a place from i on (Entitled).         *)

\* The code allows 128 names and counts them in 64 bits.
FewLoaders ==
  /\ IsFiniteSet(Loaders)
  /\ Cardinality(Loaders) <= MaxAttempts /\ Cardinality(Loaders) <= Wrap

Undrawn == {"idle", "mkdir", "ckdir", "meta", "read", "open"}

Place(l) ==
  IF pc[l] \in Undrawn THEN sequence[Image[l]]
  ELSE IF pc[l] \in Owning THEN number[l] ELSE 0

Past(i) == {l \in Loaders : Place(l) >= i}

Spread ==
  \A i \in 0 .. Cardinality(Loaders) : Cardinality(Past(i)) <= Cardinality(Loaders) - i

Entitled == \A l \in Loaders : pc[l] \in Undrawn => attempt[l] <= sequence[Image[l]]

EntryWhole(b) == dest[b] # None /\ file[dest[b]].ok

\* The loader has put its library in place, found it whole, or found it in use.
Settled == {"undo", "meta3", "read3", "meta2", "read2", "ready"}

Unhindered ==
  \A l \in Loaders :
    /\ pc[l] \notin {"discard", "failed"}
    /\ pc[l] \notin {"idle", "mkdir"} => dir = "owned"
    /\ pc[l] = "read" => Entry(l) # None
    /\ pc[l] \in Settled => EntryWhole(MyLib(l))
    /\ mapped[l] # None => file[mapped[l]].ok

CalmInv ==
  /\ faults \in 0 .. MaxFaults
  /\ faults = MaxFaults => IInv /\ ~leaky
  /\ faults = MaxFaults /\ dir # "unsafe" => Spread /\ Entitled /\ Unhindered

LEMMA PlaceType ==
  ASSUME TypeOK, NEW l \in Loaders
  PROVE  Place(l) \in 0 .. Wrap - 1
BY AttemptsAssumption, Names DEF TypeOK, Place

LEMMA PlaceTypeNext ==
  ASSUME TypeOK', NEW l \in Loaders
  PROVE  Place(l)' \in Nat
<1>1. Image[l]' \in Images
  BY SettingsAssumption DEF TypeOK, Image
<1>2. sequence'[Image[l]'] \in Nat /\ number'[l] \in Nat
  BY <1>1, AttemptsAssumption DEF TypeOK
<1> QED
  BY <1>2 DEF Place

LEMMA PastFinite ==
  ASSUME FewLoaders, NEW i
  PROVE  IsFiniteSet(Past(i)) /\ Cardinality(Past(i)) \in Nat /\ Cardinality(Loaders) \in Nat
<1>1. Past(i) \in SUBSET Loaders
  BY DEF Past
<1> QED
  BY <1>1, FS_Subset, FS_CardinalityType DEF FewLoaders

LEMMA PastShrinks ==
  ASSUME FewLoaders, NEW i, Past(i)' \subseteq Past(i)
  PROVE  Cardinality(Past(i)') \in Nat /\ Cardinality(Past(i)') <= Cardinality(Past(i))
<1>1. Past(i)' \in SUBSET Past(i)
  OBVIOUS
<1> QED
  BY <1>1, PastFinite, FS_Subset, FS_CardinalityType

\* Nobody is past the last place, and whoever shares a place has one more above.
LEMMA PlaceBound ==
  ASSUME FewLoaders, TypeOK, Spread, NEW l \in Loaders
  PROVE  /\ Place(l) < Cardinality(Loaders)
         /\ \A k \in Loaders \ {l} :
              Place(k) = Place(l) => Place(l) + 1 < Cardinality(Loaders)
<1> DEFINE n == Cardinality(Loaders)
<1>1. n \in Nat /\ Place(l) \in Nat
  BY PastFinite, PlaceType, AttemptsAssumption
<1>2. Place(l) < n
  <2> SUFFICES ASSUME Place(l) >= n PROVE FALSE
    BY <1>1
  <2>1. l \in Past(n)
    BY DEF Past
  <2>2. Cardinality(Past(n)) <= 0
    BY <1>1 DEF Spread
  <2> QED
    BY <2>1, <2>2, PastFinite, FS_EmptySet
<1>3. ASSUME NEW k \in Loaders \ {l}, Place(k) = Place(l) PROVE Place(l) + 1 < n
  <2> DEFINE i == Place(l)
  <2>1. {k, l} \in SUBSET Past(i)
    BY <1>1, <1>3 DEF Past
  <2>2. Cardinality({k, l}) = 2
    <3>1. IsFiniteSet({k}) /\ Cardinality({k}) = 1
      BY FS_Singleton
    <3>2. Cardinality({k} \cup {l}) = 2
      BY <1>3, <3>1, FS_AddElement
    <3>3. {k} \cup {l} = {k, l}
      OBVIOUS
    <3> QED
      BY <3>2, <3>3
  <2>3. 2 <= Cardinality(Past(i))
    BY <2>1, <2>2, PastFinite, FS_Subset
  <2>4. Cardinality(Past(i)) <= n - i
    BY <1>1, <1>2 DEF Spread
  <2> QED
    BY <1>1, <2>3, <2>4, PastFinite
<1> QED
  BY <1>2, <1>3

\* Nobody moves up.
LEMMA SpreadKept ==
  ASSUME FewLoaders, TypeOK, TypeOK', Spread, \A l \in Loaders : Place(l)' <= Place(l)
  PROVE  Spread'
<1> SUFFICES ASSUME NEW i \in 0 .. Cardinality(Loaders)
             PROVE  Cardinality(Past(i)') <= Cardinality(Loaders) - i
  BY DEF Spread
<1>1. \A l \in Loaders : Place(l) \in Nat /\ Place(l)' \in Nat
  BY PlaceType, PlaceTypeNext, AttemptsAssumption
<1>2. Past(i)' \subseteq Past(i)
  BY <1>1 DEF Past
<1> QED
  BY <1>2, PastFinite, PastShrinks DEF Spread

\* Some move up by one place, where another stays.
LEMMA SpreadMoves ==
  ASSUME FewLoaders, TypeOK, TypeOK', Spread, NEW k \in Loaders, Place(k)' = Place(k),
         \A l \in Loaders : \/ Place(l)' <= Place(l)
                            \/ Place(l) = Place(k) /\ Place(l)' = Place(k) + 1
  PROVE  Spread'
<1> DEFINE n == Cardinality(Loaders)
           j == Place(k)
<1> SUFFICES ASSUME NEW i \in 0 .. n PROVE Cardinality(Past(i)') <= n - i
  BY DEF Spread
<1>1. \A l \in Loaders : Place(l) \in Nat /\ Place(l)' \in Nat
  BY PlaceType, PlaceTypeNext, AttemptsAssumption
<1>2. j \in Nat /\ n \in Nat /\ j < n
  BY <1>1, PastFinite, PlaceBound
<1>3. CASE i # j + 1
  <2>1. Past(i)' \subseteq Past(i)
    BY <1>1, <1>2, <1>3 DEF Past
  <2> QED
    BY <2>1, PastFinite, PastShrinks DEF Spread
<1>4. CASE i = j + 1
  <2>1. Past(i)' \in SUBSET (Past(j) \ {k})
    BY <1>1, <1>2, <1>4 DEF Past
  <2>2. Cardinality(Past(j) \ {k}) = Cardinality(Past(j)) - 1 /\ IsFiniteSet(Past(j) \ {k})
    <3>1. k \in Past(j)
      BY <1>1 DEF Past
    <3> QED
      BY <3>1, PastFinite, FS_RemoveElement
  <2>3. Cardinality(Past(i)') <= Cardinality(Past(j)) - 1 /\ Cardinality(Past(i)') \in Nat
    BY <2>1, <2>2, FS_Subset, FS_CardinalityType
  <2>4. Cardinality(Past(j)) <= n - j
    BY <1>2 DEF Spread
  <2> QED
    BY <1>2, <1>4, <2>3, <2>4, PastFinite
<1> QED
  BY <1>3, <1>4

LEMMA Successor ==
  ASSUME NEW x \in 0 .. Wrap - 1
  PROVE  (x + 1) % Wrap = IF x + 1 = Wrap THEN 0 ELSE x + 1
BY AttemptsAssumption

\* A step of one loader that draws no number.
LEMMA SpreadQuiet ==
  ASSUME FewLoaders, TypeOK, TypeOK', Spread, Entitled,
         NEW l \in Loaders, NEW to, pc' = [pc EXCEPT ![l] = to],
         UNCHANGED <<setting, number, sequence>>,
         attempt' = attempt \/ attempt' = [attempt EXCEPT ![l] = 0],
         to \in Undrawn => pc[l] \in Undrawn,
         to \in Owning => pc[l] \in Owning
  PROVE  Spread' /\ Entitled'
<1>1. \A k \in Loaders : Image[k]' = Image[k] /\ Image[k] \in Images
  BY Names DEF Image
<1>2. \A k \in Loaders : pc'[k] = IF k = l THEN to ELSE pc[k]
  BY DEF TypeOK
<1>3. \A k \in Loaders : sequence[Image[k]] \in Nat /\ number[k] \in Nat
  BY <1>1, AttemptsAssumption DEF TypeOK
<1>4. Undrawn \cap Owning = {}
  BY DEF Undrawn, Owning
<1>5. \A k \in Loaders : Place(k)' <= Place(k)
  BY <1>1, <1>2, <1>3, <1>4 DEF Place
<1>6. Spread'
  BY <1>5, SpreadKept
<1>7. \A k \in Loaders : attempt'[k] = attempt[k] \/ attempt'[k] = 0
  BY DEF TypeOK
<1>8. Entitled'
  BY <1>1, <1>2, <1>3, <1>7 DEF Entitled
<1> QED
  BY <1>6, <1>8

\* A number is drawn.  Whoever stays behind at its place has the temporary of that number:
\* the loader itself or, if the name is taken, the loader that it belongs to.
LEMMA SpreadDraws ==
  ASSUME FewLoaders, TypeOK, TypeOK', NoTempLeftBehind, ~leaky, Spread, Entitled,
         NEW l \in Loaders, OpenTemp(l), UNCHANGED setting, dir # "absent"
  PROVE  Spread' /\ Entitled'
<1> DEFINE m == Image[l]
           j == sequence[m]
           n == Cardinality(Loaders)
<1> USE DEF Goto
<1>1. m \in Images /\ j \in 0 .. Wrap - 1 /\ j \in Nat /\ <<Pid[m], j>> \in TempNames
  BY Names, AttemptsAssumption DEF TypeOK, TempNames
<1>2. pc[l] = "open" /\ Place(l) = j
  BY DEF OpenTemp, Place, Undrawn
<1>3. \A k \in Loaders : Image[k]' = Image[k] /\ Image[k] \in Images
  BY Names DEF Image
<1>4. \A x \in Images : sequence'[x] = IF x = m THEN (j + 1) % Wrap ELSE sequence[x]
  BY <1>1 DEF OpenTemp, TypeOK
<1>5. \A k \in Loaders : attempt'[k] = IF k = l THEN attempt[l] + 1 ELSE attempt[k]
  BY DEF OpenTemp, TypeOK
<1>6. (j + 1) % Wrap = IF j + 1 = Wrap THEN 0 ELSE j + 1
  BY <1>1, Successor
<1>7. n \in Nat /\ n <= Wrap /\ Wrap \in Nat
  BY PastFinite, AttemptsAssumption DEF FewLoaders
<1>8. \A k \in Loaders : attempt[k] \in Nat /\ attempt'[k] \in Nat
  BY AttemptsAssumption DEF TypeOK
<1>9. CASE tmp[<<Pid[m], j>>] = None
  <2>1. \A k \in Loaders : /\ pc'[k] = IF k = l THEN "write" ELSE pc[k]
                           /\ number'[k] = IF k = l THEN j ELSE number[k]
    BY <1>9 DEF OpenTemp, TypeOK
  <2>2. Place(l)' = Place(l)
    BY <1>2, <2>1 DEF Place, Undrawn, Owning
  <2>3. \A k \in Loaders \ {l} :
          Place(k)' = IF pc[k] \in Undrawn /\ Image[k] = m THEN (j + 1) % Wrap ELSE Place(k)
    BY <1>3, <1>4, <2>1 DEF Place
  <2>4. \A k \in Loaders \ {l} : pc[k] \in Undrawn /\ Image[k] = m => Place(k) = j
    BY DEF Place
  <2>5. \A k \in Loaders : \/ Place(k)' <= Place(k)
                           \/ Place(k) = Place(l) /\ Place(k)' = Place(l) + 1
    BY <1>1, <1>2, <1>6, <2>2, <2>3, <2>4, PlaceType, AttemptsAssumption
  <2>6. Spread'
    BY <2>2, <2>5, SpreadMoves
  <2>7. ASSUME NEW k \in Loaders, pc'[k] \in Undrawn
        PROVE  attempt'[k] <= sequence'[Image[k]']
    <3>1. k # l /\ pc[k] \in Undrawn /\ attempt'[k] = attempt[k]
      BY <1>5, <2>1, <2>7 DEF Undrawn
    <3>2. CASE Image[k] # m
      BY <1>3, <1>4, <3>1, <3>2 DEF Entitled
    <3>3. CASE Image[k] = m
      <4>1. j + 1 < n
        BY <1>2, <2>4, <3>1, <3>3, PlaceBound
      <4>2. sequence'[Image[k]'] = j + 1
        BY <1>1, <1>3, <1>4, <1>6, <1>7, <3>3, <4>1
      <4>3. attempt[k] <= j
        BY <3>1, <3>3 DEF Entitled
      <4> QED
        BY <1>1, <1>8, <3>1, <4>2, <4>3
    <3> QED
      BY <3>2, <3>3
  <2> QED
    BY <2>6, <2>7 DEF Entitled
<1>10. CASE tmp[<<Pid[m], j>>] # None
  <2>1. PICK h \in Loaders : MyTemp(h) = <<Pid[m], j>> /\ pc[h] \in Owning
    BY <1>1, <1>10 DEF NoTempLeftBehind, Owning
  <2>2. h # l /\ number[h] = j /\ Place(h) = j
    BY <1>2, <2>1 DEF MyTemp, Place, Owning, Undrawn
  <2>3. UNCHANGED <<pc, number>>
    BY <1>10 DEF OpenTemp, TypeOK
  <2>4. \A k \in Loaders :
          Place(k)' = IF pc[k] \in Undrawn /\ Image[k] = m THEN (j + 1) % Wrap ELSE Place(k)
    BY <1>3, <1>4, <2>3 DEF Place
  <2>5. \A k \in Loaders : pc[k] \in Undrawn /\ Image[k] = m => Place(k) = j
    BY DEF Place
  <2>6. Place(h)' = Place(h)
    BY <2>1, <2>4 DEF Owning, Undrawn
  <2>7. \A k \in Loaders : \/ Place(k)' <= Place(k)
                           \/ Place(k) = Place(h) /\ Place(k)' = Place(h) + 1
    BY <1>1, <1>6, <2>2, <2>4, <2>5, PlaceType, AttemptsAssumption
  <2>8. Spread'
    BY <2>6, <2>7, SpreadMoves
  <2>9. j + 1 < n
    BY <1>2, <2>2, PlaceBound
  <2>10. sequence'[m] = j + 1
    BY <1>1, <1>4, <1>6, <1>7, <2>9
  <2>11. ASSUME NEW k \in Loaders, pc'[k] \in Undrawn
         PROVE  attempt'[k] <= sequence'[Image[k]']
    <3>1. attempt[k] <= sequence[Image[k]]
      BY <2>3, <2>11 DEF Entitled
    <3>2. CASE Image[k] # m
      BY <1>3, <1>4, <1>5, <3>1, <3>2
    <3>3. CASE Image[k] = m
      BY <1>1, <1>3, <1>5, <1>8, <2>10, <3>1, <3>3
    <3> QED
      BY <3>2, <3>3
  <2> QED
    BY <2>8, <2>11 DEF Entitled
<1> QED
  BY <1>9, <1>10

\* What keeps a step of one loader from hindering any.
LEMMA UnhinderedBy ==
  ASSUME TypeOK, Unhindered, NEW l \in Loaders, NEW to, pc' = [pc EXCEPT ![l] = to],
         UNCHANGED setting,
         dir = "owned" => dir' = "owned",
         \A b \in Libs : (EntryWhole(b) => EntryWhole(b)') /\ (dest[b] # None => dest'[b] # None),
         \A k \in Loaders : mapped'[k] # None => file'[mapped'[k]].ok,
         to \notin {"discard", "failed"},
         to \notin {"idle", "mkdir"} => dir' = "owned",
         to = "read" => Entry(l)' # None,
         to \in Settled => EntryWhole(MyLib(l))'
  PROVE  Unhindered'
<1>1. \A k \in Loaders : MyLib(k)' = MyLib(k) /\ MyLib(k) \in Libs
  BY Names DEF MyLib, Lib, Image
<1>2. \A k \in Loaders : pc'[k] = IF k = l THEN to ELSE pc[k]
  BY DEF TypeOK
<1>3. ASSUME NEW k \in Loaders
      PROVE  /\ pc'[k] \notin {"discard", "failed"}
             /\ pc'[k] \notin {"idle", "mkdir"} => dir' = "owned"
             /\ mapped'[k] # None => file'[mapped'[k]].ok
  BY <1>2 DEF Unhindered
<1>4. ASSUME NEW k \in Loaders, pc'[k] = "read" PROVE Entry(k)' # None
  <2>1. CASE k = l
    BY <1>2, <1>4, <2>1
  <2>2. CASE k # l
    <3>1. dest[MyLib(k)] # None
      BY <1>2, <1>4, <2>2 DEF Unhindered, Entry
    <3> QED
      BY <1>1, <3>1 DEF Entry
  <2> QED
    BY <2>1, <2>2
<1>5. ASSUME NEW k \in Loaders, pc'[k] \in Settled PROVE EntryWhole(MyLib(k))'
  <2>1. CASE k = l
    BY <1>2, <1>5, <2>1
  <2>2. CASE k # l
    <3>1. EntryWhole(MyLib(k))
      BY <1>2, <1>5, <2>2 DEF Unhindered
    <3>2. (dest'[MyLib(k)] # None /\ file'[dest'[MyLib(k)]].ok)
      BY <1>1, <3>1 DEF EntryWhole
    <3> QED
      BY <1>1, <3>2 DEF EntryWhole
  <2> QED
    BY <2>1, <2>2
<1> QED
  BY <1>3, <1>4, <1>5 DEF Unhindered

\* No step of a loader makes a file worse.
LEMMA OkKept ==
  ASSUME TypeOK, NamesOwned, InodesOwned, NEW l \in Loaders, Step(l)
  PROVE  \A i \in Inodes : file[i].ok => file'[i].ok
<1> USE DEF Goto, private, shared
<1>1. CASE OpenTemp(l)
  <2>1. \/ file' = file
        \/ \E i \in Inodes, b \in Libs :
             file' = [file EXCEPT ![i] =
                        [lib |-> b, len |-> 0, ok |-> TRUE, synced |-> FALSE]]
    BY <1>1, Names, FreshInode DEF OpenTemp
  <2> QED
    BY <2>1 DEF TypeOK
<1>2. CASE WriteTemp(l) \/ SyncTemp(l)
  BY <1>2 DEF WriteTemp, SyncTemp, TypeOK
<1>3. CASE ~OpenTemp(l) /\ ~WriteTemp(l) /\ ~SyncTemp(l)
  <2>1. file' = file
    BY <1>3 DEF Step, ReadCarrier, CreateDir, CheckDir, CheckWarm, CheckWritten, CheckOther,
       Metadata, ReadBytes, AttemptsExhausted, RenameTemp, Rename, RemoveTemp, OpenLibrary
  <2> QED
    BY <2>1
<1> QED
  BY <1>1, <1>2, <1>3

\* What nobody has disturbed, no step of a loader disturbs.
LEMMA CalmStep ==
  ASSUME FewLoaders, IInv, IInv', ~leaky, dir # "unsafe", Spread, Entitled, Unhindered,
         NEW l \in Loaders, Step(l)
  PROVE  Spread' /\ Entitled' /\ Unhindered'
<1> USE DEF Goto, private, shared
<1>0. /\ TypeOK /\ TypeOK' /\ NamesOwned /\ InodesOwned /\ Contents /\ NoTempLeftBehind
      /\ UNCHANGED setting
  BY DEF IInv, Step
<1>1. MyLib(l) \in Libs /\ Entry(l) = dest[MyLib(l)] /\ MyLib(l)' = MyLib(l)
  BY <1>0, Names DEF Entry, MyLib, Lib, Image
<1>2. \A i \in Inodes : file[i].ok => file'[i].ok
  BY <1>0, OkKept
<1>3. /\ \A b \in Libs : dest[b] \in Name
      /\ \A k \in Loaders : mapped[k] \in Name
  BY <1>0 DEF TypeOK
<1>4. ASSUME NEW k \in Loaders, mapped[k] # None PROVE file'[mapped[k]].ok
  <2>1. mapped[k] \in Inodes
    BY <1>3, <1>4 DEF Name
  <2>2. file[mapped[k]].ok
    BY <1>4 DEF Unhindered
  <2> QED
    BY <1>2, <2>1, <2>2
<1>5. ASSUME NEW b \in Libs, dest'[b] = dest[b]
      PROVE  (EntryWhole(b) => EntryWhole(b)') /\ (dest[b] # None => dest'[b] # None)
  BY <1>2, <1>3, <1>5 DEF EntryWhole, Name
<1>6. \A b \in Libs : EntryWhole(b) => Judge(file[dest[b]], b) = "whole"
                                       /\ file[dest[b]].len = Size
  BY <1>0 DEF EntryWhole, Contents, Judge
<1>7. /\ pc[l] \notin {"discard", "failed"}
      /\ pc[l] \notin {"idle", "mkdir"} => dir = "owned"
      /\ pc[l] = "read" => dest[MyLib(l)] # None
      /\ pc[l] \in Settled => EntryWhole(MyLib(l))
  BY <1>1 DEF Unhindered
<1>8. CASE ReadCarrier(l)
  <2>1. UNCHANGED <<setting, number, sequence, attempt, dest, mapped, dir>>
        /\ pc[l] = "idle" /\ pc' = [pc EXCEPT ![l] = "mkdir"]
    BY <1>0, <1>8 DEF ReadCarrier
  <2>2. Spread' /\ Entitled'
    BY <1>0, <2>1, SpreadQuiet DEF Undrawn, Owning
  <2>3. Unhindered'
    BY <1>0, <1>4, <1>5, <2>1, UnhinderedBy, ZenonT(60) DEF Settled
  <2> QED
    BY <2>2, <2>3
<1>9. CASE CreateDir(l)
  <2>1. UNCHANGED <<setting, number, sequence, attempt, dest, mapped>>
        /\ pc[l] = "mkdir" /\ pc' = [pc EXCEPT ![l] = "ckdir"] /\ dir' = "owned"
    BY <1>0, <1>9 DEF CreateDir, TypeOK
  <2>2. Spread' /\ Entitled'
    BY <1>0, <2>1, SpreadQuiet DEF Undrawn, Owning
  <2>3. Unhindered'
    BY <1>0, <1>4, <1>5, <2>1, UnhinderedBy, ZenonT(60) DEF Settled
  <2> QED
    BY <2>2, <2>3
<1>10. CASE CheckDir(l)
  <2>1. UNCHANGED <<setting, number, sequence, attempt, dest, mapped, dir>>
        /\ pc[l] = "ckdir" /\ pc' = [pc EXCEPT ![l] = "meta"] /\ dir' = "owned"
    BY <1>0, <1>7, <1>10 DEF CheckDir
  <2>2. Spread' /\ Entitled'
    BY <1>0, <2>1, SpreadQuiet DEF Undrawn, Owning
  <2>3. Unhindered'
    BY <1>0, <1>4, <1>5, <2>1, UnhinderedBy, ZenonT(60) DEF Settled
  <2> QED
    BY <2>2, <2>3
<1>11. CASE CheckWarm(l) \/ CheckWritten(l) \/ CheckOther(l)
  <2>1. /\ UNCHANGED <<setting, number, sequence, dest, mapped, dir>> /\ dir = "owned"
        /\ attempt' = attempt \/ attempt' = [attempt EXCEPT ![l] = 0]
    BY <1>0, <1>7, <1>11 DEF CheckWarm, CheckWritten, CheckOther, Metadata, ReadBytes
  <2>2. PICK to \in {"read", "open", "ready", "read2", "read3", "meta2"} :
                  /\ pc' = [pc EXCEPT ![l] = to]
                  /\ to \in {"read", "open"} => pc[l] \in {"meta", "read"}
                  /\ to = "read" => dest[MyLib(l)] # None
                  /\ to \in Settled => EntryWhole(MyLib(l))
    <3>1. CASE CheckWarm(l)
      <4>1. CASE Metadata(l, "meta", "read", "open")
        BY <1>1, <4>1 DEF Metadata, Settled
      <4>2. CASE ReadBytes(l, "read", "ready", "open", "failed")
        BY <1>1, <1>7, <4>2 DEF ReadBytes, Judge, EntryWhole, Settled
      <4> QED
        BY <3>1, <4>1, <4>2 DEF CheckWarm
    <3>2. CASE CheckWritten(l)
      BY <1>1, <1>6, <1>7, <3>2 DEF CheckWritten, Metadata, ReadBytes, EntryWhole, Settled
    <3>3. CASE CheckOther(l)
      BY <1>1, <1>6, <1>7, <3>3 DEF CheckOther, Metadata, ReadBytes, EntryWhole, Settled
    <3> QED
      BY <1>11, <3>1, <3>2, <3>3
  <2>3. Spread' /\ Entitled'
    BY <1>0, <2>1, <2>2, SpreadQuiet DEF Undrawn, Owning
  <2>4. Unhindered'
    <3>1. dest' = dest /\ (EntryWhole(MyLib(l)) => EntryWhole(MyLib(l))')
      BY <1>1, <1>5, <2>1
    <3>2. to \in Settled => EntryWhole(MyLib(l))'
      BY <2>2, <3>1
    <3>3. to = "read" => Entry(l)' # None
      BY <1>1, <2>2, <3>1 DEF Entry
    <3> QED
      BY <1>0, <1>4, <1>5, <2>1, <2>2, <3>2, <3>3, UnhinderedBy, ZenonT(60)
  <2> QED
    BY <2>3, <2>4
<1>12. CASE OpenTemp(l)
  <2>1. UNCHANGED <<setting, dest, mapped, dir>> /\ pc[l] = "open" /\ dir = "owned"
    BY <1>0, <1>7, <1>12 DEF OpenTemp
  <2>2. PICK to \in {"write", "open"} : pc' = [pc EXCEPT ![l] = to]
    BY <1>12, <2>1 DEF OpenTemp
  <2>3. Spread' /\ Entitled'
    BY <1>0, <1>12, <2>1, SpreadDraws
  <2>4. Unhindered'
    BY <1>0, <1>4, <1>5, <2>1, <2>2, UnhinderedBy, ZenonT(60) DEF Settled
  <2> QED
    BY <2>3, <2>4
<1>13. CASE AttemptsExhausted(l)
  <2>1. attempt[l] = MaxAttempts /\ pc[l] = "open"
    BY <1>13 DEF AttemptsExhausted
  <2>2. MaxAttempts <= Place(l)
    BY <2>1 DEF Place, Entitled, Undrawn
  <2> QED
    BY <1>0, <2>2, PlaceBound, PlaceType, PastFinite, AttemptsAssumption DEF FewLoaders
<1>14. CASE WriteTemp(l) \/ SyncTemp(l)
  <2>1. /\ UNCHANGED <<setting, number, sequence, attempt, dest, mapped, dir>>
        /\ pc[l] = "write" /\ dir = "owned"
    BY <1>0, <1>7, <1>14 DEF WriteTemp, SyncTemp
  <2>2. PICK to \in {"write", "rename"} : pc' = [pc EXCEPT ![l] = to]
    BY <1>0, <1>14, <2>1 DEF WriteTemp, SyncTemp, TypeOK
  <2>3. Spread' /\ Entitled'
    BY <1>0, <2>1, <2>2, SpreadQuiet DEF Undrawn, Owning
  <2>4. Unhindered'
    BY <1>0, <1>4, <1>5, <2>1, <2>2, UnhinderedBy, ZenonT(60) DEF Settled
  <2> QED
    BY <2>3, <2>4
<1>15. CASE RenameTemp(l)
  <2>1. /\ UNCHANGED <<setting, number, sequence, attempt, mapped, dir, file>>
        /\ pc[l] = "rename" /\ dir = "owned" /\ tmp[MyTemp(l)] # None
    BY <1>0, <1>7, <1>15 DEF RenameTemp, Rename, NamesOwned, Owning
  <2>2. CASE RenameRefused(l)
    <3>1. pc' = [pc EXCEPT ![l] = "undo"] /\ dest' = dest
      BY <1>15, <2>2 DEF RenameTemp, Rename
    <3>2. EntryWhole(MyLib(l))
      BY <1>1, <2>1, <2>2 DEF RenameRefused, Unhindered, EntryWhole
    <3>3. EntryWhole(MyLib(l))'
      BY <1>1, <1>5, <3>1, <3>2
    <3>4. Spread' /\ Entitled'
      BY <1>0, <2>1, <3>1, SpreadQuiet DEF Undrawn, Owning
    <3>5. Unhindered'
      BY <1>0, <1>4, <1>5, <2>1, <3>1, <3>3, UnhinderedBy, ZenonT(60)
    <3> QED
      BY <3>4, <3>5
  <2>3. CASE ~RenameRefused(l)
    <3>1. /\ pc' = [pc EXCEPT ![l] = "meta2"]
          /\ dest' = [dest EXCEPT ![MyLib(l)] = tmp[MyTemp(l)]]
      BY <1>15, <2>3 DEF RenameTemp, Rename
    <3>2. /\ dest'[MyLib(l)] = tmp[MyTemp(l)]
          /\ \A b \in Libs \ {MyLib(l)} : dest'[b] = dest[b]
      BY <1>0, <1>1, <3>1 DEF TypeOK
    <3>3. file'[tmp[MyTemp(l)]].ok
      <4>1. file[tmp[MyTemp(l)]] =
              [lib |-> MyLib(l), len |-> Size, ok |-> TRUE, synced |-> TRUE]
        BY <1>0, <2>1 DEF Contents
      <4>2. file[tmp[MyTemp(l)]].ok
        BY <4>1
      <4> QED
        BY <2>1, <4>2
    <3>4. EntryWhole(MyLib(l))'
      BY <1>1, <2>1, <3>2, <3>3 DEF EntryWhole
    <3>5. \A b \in Libs : /\ EntryWhole(b) => EntryWhole(b)'
                          /\ dest[b] # None => dest'[b] # None
      <4>1. ASSUME NEW b \in Libs, b # MyLib(l)
            PROVE  (EntryWhole(b) => EntryWhole(b)') /\ (dest[b] # None => dest'[b] # None)
        BY <1>5, <3>2, <4>1
      <4>2. EntryWhole(MyLib(l))' /\ dest'[MyLib(l)] # None
        BY <2>1, <3>2, <3>4
      <4> QED
        BY <1>1, <4>1, <4>2
    <3>6. Spread' /\ Entitled'
      BY <1>0, <2>1, <3>1, SpreadQuiet DEF Undrawn, Owning
    <3>7. Unhindered'
      BY <1>0, <1>4, <2>1, <3>1, <3>4, <3>5, UnhinderedBy, ZenonT(60)
    <3> QED
      BY <3>6, <3>7
  <2> QED
    BY <2>2, <2>3
<1>16. CASE RemoveTemp(l)
  <2>1. /\ UNCHANGED <<setting, number, sequence, attempt, dest, mapped, dir>>
        /\ pc[l] = "undo" /\ pc' = [pc EXCEPT ![l] = "meta3"] /\ dir = "owned"
    BY <1>0, <1>7, <1>16 DEF RemoveTemp
  <2>2. EntryWhole(MyLib(l))'
    BY <1>1, <1>5, <1>7, <2>1 DEF Settled
  <2>3. Spread' /\ Entitled'
    BY <1>0, <2>1, SpreadQuiet DEF Undrawn, Owning
  <2>4. Unhindered'
    BY <1>0, <1>4, <1>5, <2>1, <2>2, UnhinderedBy, ZenonT(60)
  <2> QED
    BY <2>3, <2>4
<1>17. CASE OpenLibrary(l)
  <2>1. /\ UNCHANGED <<setting, number, sequence, attempt, dest, dir, file>>
        /\ pc[l] = "ready" /\ dir = "owned" /\ EntryWhole(MyLib(l))
    BY <1>0, <1>7, <1>17 DEF OpenLibrary, Settled
  <2>2. /\ pc' = [pc EXCEPT ![l] = "loaded"]
        /\ mapped' = [mapped EXCEPT ![l] = dest[MyLib(l)]]
    BY <1>1, <1>17, <2>1 DEF OpenLibrary, EntryWhole
  <2>3. \A k \in Loaders : mapped'[k] # None => file'[mapped'[k]].ok
    BY <1>0, <1>4, <2>1, <2>2 DEF EntryWhole, TypeOK
  <2>4. Spread' /\ Entitled'
    BY <1>0, <2>1, <2>2, SpreadQuiet DEF Undrawn, Owning
  <2>5. Unhindered'
    BY <1>0, <1>5, <2>1, <2>2, <2>3, UnhinderedBy, ZenonT(60) DEF Settled
  <2> QED
    BY <2>4, <2>5
<1> QED
  BY <1>8, <1>9, <1>10, <1>11, <1>12, <1>13, <1>14, <1>15, <1>16, <1>17 DEF Step

\* A process ends and its places are free again.
LEMMA CalmExit ==
  ASSUME FewLoaders, TypeOK, TypeOK', Spread, Entitled, Unhindered, NEW m \in Images, Exit(m)
  PROVE  Spread' /\ Entitled' /\ Unhindered'
<1>1. UNCHANGED <<setting, dest, tmp, file, dir>> /\ Gone(Running(m))
  BY DEF Exit, shared
<1>2. \A k \in Loaders : Image[k]' = Image[k] /\ MyLib(k)' = MyLib(k) /\ Image[k] \in Images
  BY <1>1, Names DEF Image, MyLib, Lib
<1>3. \A k \in Loaders : Image[k] # m =>
        /\ pc'[k] = pc[k] /\ number'[k] = number[k] /\ attempt'[k] = attempt[k]
        /\ mapped'[k] = mapped[k] /\ sequence'[Image[k]] = sequence[Image[k]]
  BY <1>1, <1>2 DEF Exit, Gone, Running, TypeOK
<1>4. \A k \in Loaders : Image[k] = m =>
        /\ pc'[k] = "idle" /\ attempt'[k] = 0 /\ mapped'[k] = None /\ sequence'[Image[k]] = 0
  BY <1>1 DEF Exit, Gone, Running, TypeOK
<1>5. \A k \in Loaders : Place(k) \in Nat
  BY PlaceType, AttemptsAssumption
<1>6. ASSUME NEW k \in Loaders PROVE Place(k)' <= Place(k)
  <2>1. CASE Image[k] = m
    BY <1>2, <1>4, <1>5, <2>1 DEF Place, Undrawn
  <2>2. CASE Image[k] # m
    <3>1. Place(k)' = Place(k)
      BY <1>2, <1>3, <2>2 DEF Place
    <3> QED
      BY <1>5, <3>1
  <2> QED
    BY <2>1, <2>2
<1>7. Spread'
  BY <1>6, SpreadKept
<1>8. Entitled'
  BY <1>2, <1>3, <1>4 DEF Entitled
<1>9. Unhindered'
  BY <1>1, <1>2, <1>3, <1>4 DEF Unhindered, Entry, EntryWhole, Settled
<1> QED
  BY <1>7, <1>8, <1>9

LEMMA CalmNext ==
  ASSUME FewLoaders, CalmInv, [Next]_vars
  PROVE  CalmInv'
<1>1. faults' \in 0 .. MaxFaults /\ (Environment => faults' # MaxFaults)
  <2>1. CASE Environment
    BY <2>1, FaultsAssumption DEF CalmInv, Environment, Crash, FailIO, DamageEntry,
                                  CleanTmpdir, PowerLoss, Fault
  <2>2. CASE ~Environment
    <3>1. faults' = faults
      BY <2>2 DEF Next, Exit, vars, shared, Step, ReadCarrier, CreateDir, CheckDir,
        CheckWarm, CheckWritten, CheckOther, Metadata, ReadBytes, OpenTemp,
        AttemptsExhausted, WriteTemp, SyncTemp, RenameTemp, Rename, RemoveTemp, OpenLibrary
    <3> QED
      BY <2>2, <3>1 DEF CalmInv
  <2> QED
    BY <2>1, <2>2
<1> SUFFICES ASSUME faults' = MaxFaults
             PROVE  /\ IInv' /\ ~leaky'
                    /\ dir' # "unsafe" => Spread' /\ Entitled' /\ Unhindered'
  BY <1>1 DEF CalmInv
<1>2. /\ ~Environment
      /\ UNCHANGED vars \/ (\E l \in Loaders : Step(l)) \/ (\E m \in Images : Exit(m))
  BY <1>1 DEF Next
<1>3. /\ faults' = faults /\ leaky' = leaky
      /\ dir' # dir => dir = "absent" /\ dir' = "owned"
  BY <1>2 DEF Exit, vars, shared, Step, ReadCarrier, CreateDir, CheckDir, CheckWarm,
    CheckWritten, CheckOther, Metadata, ReadBytes, OpenTemp, AttemptsExhausted, WriteTemp,
    SyncTemp, RenameTemp, Rename, RemoveTemp, OpenLibrary
<1>4. IInv /\ ~leaky
  BY <1>3 DEF CalmInv
<1>5. IInv'
  BY <1>3, <1>4, InvNext
<1>6. ASSUME dir' # "unsafe" PROVE Spread' /\ Entitled' /\ Unhindered'
  <2>1. dir # "unsafe" /\ Spread /\ Entitled /\ Unhindered
    BY <1>3, <1>6 DEF CalmInv
  <2>2. CASE UNCHANGED vars
    <3>1. \A l \in Loaders : Place(l)' = Place(l) /\ MyLib(l)' = MyLib(l) /\ Entry(l)' = Entry(l)
      BY <2>2 DEF vars, Place, Image, MyLib, Lib, Entry
    <3>2. \A i : Past(i)' = Past(i)
      BY <3>1 DEF Past
    <3> QED
      BY <2>1, <2>2, <3>1, <3>2 DEF vars, Spread, Entitled, Unhindered, EntryWhole, Image
  <2>3. CASE \E l \in Loaders : Step(l)
    BY <1>4, <1>5, <2>1, <2>3, CalmStep
  <2>4. CASE \E m \in Images : Exit(m)
    BY <1>4, <1>5, <2>1, <2>4, CalmExit DEF IInv
  <2> QED
    BY <1>2, <2>2, <2>3, <2>4
<1> QED
  BY <1>3, <1>4, <1>5, <1>6

LEMMA CalmInit == ASSUME FewLoaders, Init PROVE CalmInv
<1>1. IInv /\ ~leaky /\ faults = MaxFaults
  BY InitInv DEF Init
<1>2. \A l \in Loaders : /\ pc[l] = "idle" /\ attempt[l] = 0 /\ mapped[l] = None
                         /\ Image[l] \in Images /\ sequence[Image[l]] = 0
  BY <1>1, Names DEF Init, IInv
<1>3. Entitled /\ Unhindered
  BY <1>2 DEF Entitled, Unhindered, Settled
<1>4. ASSUME NEW i \in 0 .. Cardinality(Loaders)
      PROVE  Cardinality(Past(i)) <= Cardinality(Loaders) - i
  <2>1. \A l \in Loaders : Place(l) = 0
    BY <1>2 DEF Place, Undrawn
  <2>2. CASE i = 0
    <3>1. Past(i) = Loaders
      BY <2>1, <2>2 DEF Past
    <3> QED
      BY <2>2, <3>1, PastFinite
  <2>3. CASE i # 0
    <3>0. i \in Nat /\ ~(0 >= i)
      BY <2>3, PastFinite
    <3>1. Past(i) = {}
      BY <2>1, <3>0 DEF Past
    <3> QED
      BY <3>1, PastFinite, FS_EmptySet
  <2> QED
    BY <2>2, <2>3
<1> QED
  BY <1>1, <1>3, <1>4, FaultsAssumption DEF CalmInv, Spread

\* What everybody can rely on while nothing goes wrong, in any setting and also where the
\* system cleans temporaries: it has not done so yet.
THEOREM CalmInductive ==
  ASSUME FewLoaders
  PROVE  Spec => []CalmInv
<1>1. Init => CalmInv
  BY CalmInit
<1>2. CalmInv /\ [Next]_vars => CalmInv'
  BY CalmNext
<1> QED
  BY <1>1, <1>2, PTL DEF Spec

\* Up to 128 loads of carriers that share a directory, processes and process ids never make
\* each other fail: none runs out of names, and none that finds the cache file in use is
\* refused it.
THEOREM FailuresHaveCauses ==
  ASSUME FewLoaders
  PROVE  Spec => []NoSpuriousFailure
<1>1. CalmInv => NoSpuriousFailure
  BY DEF CalmInv, NoSpuriousFailure, Unhindered
<1> QED
  BY <1>1, CalmInductive, PTL

-----------------------------------------------------------------------------
(* Every library's cache file is one cell of AtomicEntry *)

\* The phase of a loader of this library, by its label.
PhaseAt(label) ==
  CASE label \in {"idle", "loaded", "ready"} -> label
    [] label = "failed" -> "fallback"
    [] OTHER -> "busy"

Phases(b) == [l \in Loaders |-> PhaseOf(b, l)]
Gots(b) == [l \in Loaders |-> GotOf(b, l)]

LEMMA PhaseIs ==
  ASSUME NEW b, NEW l
  PROVE  PhaseOf(b, l) = IF MyLib(l) = b THEN PhaseAt(pc[l]) ELSE "idle"
BY DEF PhaseOf, PhaseAt

\* One loader goes on: only a loader of this library changes its phase here.
LEMMA OneLoader ==
  ASSUME TypeOK, NEW b \in Libs, NEW l \in Loaders, NEW to, UNCHANGED <<setting, got>>,
         pc' = [pc EXCEPT ![l] = to]
  PROVE  /\ MyLib(l) = b => Phases(b)' = [Phases(b) EXCEPT ![l] = PhaseAt(to)]
         /\ MyLib(l) # b => Phases(b)' = Phases(b)
         /\ Gots(b)' = Gots(b)
         /\ MyLib(l) = b => Phases(b)[l] = PhaseAt(pc[l])
<1>1. \A k \in Loaders : MyLib(k)' = MyLib(k)
  BY DEF MyLib, Lib, Image
<1>2. \A k \in Loaders :
        PhaseOf(b, k)' = IF MyLib(k) = b THEN PhaseAt(pc'[k]) ELSE "idle"
  BY <1>1, PhaseIs DEF PhaseOf, PhaseAt
<1>3. \A k \in Loaders : pc'[k] = IF k = l THEN to ELSE pc[k]
  BY DEF TypeOK
<1>4. Gots(b)' = Gots(b)
  BY <1>1 DEF Gots, GotOf
<1> QED
  BY <1>1, <1>2, <1>3, <1>4, PhaseIs DEF Phases

\* The loader's label changes, the cell does not.
LEMMA Stays ==
  ASSUME TypeOK, NEW b \in Libs, NEW l \in Loaders, NEW to, UNCHANGED <<setting, got>>,
         pc' = [pc EXCEPT ![l] = to], EntryOf(b)' = EntryOf(b),
         MyLib(l) = b => PhaseAt(to) = PhaseAt(pc[l])
  PROVE  UNCHANGED Cell(b)!vars
<1>1. CASE MyLib(l) # b
  BY <1>1, OneLoader DEF Cell!vars, Phases, Gots
<1>2. CASE MyLib(l) = b
  <2>0. /\ Phases(b)' = [Phases(b) EXCEPT ![l] = PhaseAt(to)] /\ Gots(b)' = Gots(b)
        /\ Phases(b)[l] = PhaseAt(pc[l])
    BY <1>2, OneLoader
  <2>1. /\ Phases(b)' = [Phases(b) EXCEPT ![l] = PhaseAt(pc[l])] /\ Gots(b)' = Gots(b)
        /\ Phases(b)[l] = PhaseAt(pc[l])
    BY <1>2, <2>0
  <2>2. Phases(b)' = Phases(b)
    BY <2>1 DEF Phases
  <2> QED
    BY <2>1, <2>2 DEF Cell!vars, Phases, Gots
<1> QED
  BY <1>1, <1>2

\* A loader that has begun and is not through gives up.
LEMMA GivesUp ==
  ASSUME TypeOK, NEW b \in Libs, NEW l \in Loaders, UNCHANGED <<setting, got>>,
         pc' = [pc EXCEPT ![l] = "failed"], EntryOf(b)' = EntryOf(b),
         pc[l] \notin Finished
  PROVE  [Cell(b)!Next]_(Cell(b)!vars)
<1>1. CASE MyLib(l) # b
  BY <1>1, Stays
<1>2. CASE MyLib(l) = b
  <2>1. /\ Phases(b)' = [Phases(b) EXCEPT ![l] = "fallback"] /\ Gots(b)' = Gots(b)
        /\ Phases(b)[l] \in {"idle", "busy", "ready"}
    BY <1>2, OneLoader DEF PhaseAt, Finished
  <2>2. Cell(b)!FallBack(l)
    BY <2>1 DEF Cell!FallBack, Phases, Gots
  <2> QED
    BY <2>2 DEF Cell!Next
<1> QED
  BY <1>1, <1>2

\* Nothing but a rename, damage and the clean-up of tmpdir touches what is in place.
LEMMA EntryKept ==
  ASSUME NEW b \in Libs, dest'[b] = dest[b], dest[b] # None => file'[dest[b]] = file[dest[b]]
  PROVE  EntryOf(b)' = EntryOf(b)
BY DEF EntryOf, Judge

\* Loaders end, the cell stays.
LEMMA CellEnds ==
  ASSUME TypeOK, NEW b \in Libs, NEW S, Gone(S), UNCHANGED setting,
         EntryOf(b)' = EntryOf(b)
  PROVE  [Cell(b)!Next]_(Cell(b)!vars)
<1> DEFINE E == {l \in Loaders : l \in S /\ MyLib(l) = b}
<1>1. \A k \in Loaders : MyLib(k)' = MyLib(k)
  BY DEF MyLib, Lib, Image
<1>2. \A k \in Loaders :
        PhaseOf(b, k)' = IF MyLib(k) = b THEN PhaseAt(pc'[k]) ELSE "idle"
  BY <1>1, PhaseIs DEF PhaseOf, PhaseAt
<1>3. PhaseAt("idle") = "idle"
  BY DEF PhaseAt
<1>4. \A k \in Loaders : PhaseOf(b, k)' = IF k \in E THEN "idle" ELSE PhaseOf(b, k)
  BY <1>2, <1>3, PhaseIs DEF Gone
<1>5. \A k \in Loaders : GotOf(b, k)' = IF k \in E THEN "none" ELSE GotOf(b, k)
  BY <1>1 DEF Gone, GotOf
<1>6. Phases(b)' = [k \in Loaders |-> IF k \in E THEN "idle" ELSE Phases(b)[k]]
  BY <1>4 DEF Phases
<1>7. Gots(b)' = [k \in Loaders |-> IF k \in E THEN "none" ELSE Gots(b)[k]]
  BY <1>5 DEF Gots
<1>8. Cell(b)!End(E)
  BY <1>6, <1>7 DEF Cell!End, Phases, Gots
<1>9. E \in SUBSET Loaders
  OBVIOUS
<1> QED
  BY <1>8, <1>9 DEF Cell!Next

\* valid_cached_file finds the file in place whole, another reason to go on or to give up.
LEMMA CellReads ==
  ASSUME TypeOK, NEW b \in Libs, NEW l \in Loaders, UNCHANGED setting,
         CheckWarm(l) \/ CheckWritten(l) \/ CheckOther(l)
  PROVE  [Cell(b)!Next]_(Cell(b)!vars)
<1> USE DEF Goto, private, shared
<1>1. UNCHANGED got /\ EntryOf(b)' = EntryOf(b)
  BY EntryKept DEF CheckWarm, CheckWritten, CheckOther, Metadata, ReadBytes
<1>2. /\ pc[l] \in Checks
      /\ \E to \in {"read", "read2", "read3", "open", "meta2", "ready", "failed"} :
           /\ pc' = [pc EXCEPT ![l] = to]
           /\ to = "ready" =>
                Entry(l) # None /\ Judge(file[Entry(l)], MyLib(l)) = "whole"
  BY DEF CheckWarm, CheckWritten, CheckOther, Metadata, ReadBytes, Checks
<1>3. PICK to \in {"read", "read2", "read3", "open", "meta2", "ready", "failed"} :
        /\ pc' = [pc EXCEPT ![l] = to]
        /\ to = "ready" => Entry(l) # None /\ Judge(file[Entry(l)], MyLib(l)) = "whole"
  BY <1>2
<1>4. PhaseAt(pc[l]) = "busy"
  BY <1>2 DEF PhaseAt, Checks
<1>5. CASE to = "failed"
  BY <1>1, <1>2, <1>3, <1>5, GivesUp DEF Checks, Finished
<1>6. CASE to = "ready" /\ MyLib(l) = b
  <2>1. /\ Phases(b)' = [Phases(b) EXCEPT ![l] = "ready"] /\ Gots(b)' = Gots(b)
        /\ Phases(b)[l] = "busy"
    BY <1>1, <1>3, <1>4, <1>6, OneLoader DEF PhaseAt
  <2>2. EntryOf(b) = "whole"
    BY <1>3, <1>6 DEF EntryOf, Entry
  <2>3. Cell(b)!Verify(l)
    BY <1>1, <2>1, <2>2 DEF Cell!Verify, Phases, Gots
  <2> QED
    BY <2>3 DEF Cell!Next
<1>7. CASE to = "ready" /\ MyLib(l) # b
  BY <1>1, <1>3, <1>7, Stays
<1>8. CASE to \notin {"ready", "failed"}
  <2>1. PhaseAt(to) = "busy"
    BY <1>8 DEF PhaseAt
  <2> QED
    BY <1>1, <1>3, <1>4, <2>1, Stays
<1> QED
  BY <1>5, <1>6, <1>7, <1>8

\* What the rename puts in place is the whole library of the loader that renames.
LEMMA CellRenames ==
  ASSUME TypeOK, NamesOwned, Contents, NEW b \in Libs, NEW l \in Loaders,
         UNCHANGED setting, RenameTemp(l)
  PROVE  [Cell(b)!Next]_(Cell(b)!vars)
<1> USE DEF Goto, private
<1>1. UNCHANGED <<got, file>> /\ pc[l] = "rename" /\ tmp[MyTemp(l)] # None
  BY DEF RenameTemp, Rename, NamesOwned, Owning
<1>2. PICK to \in {"meta2", "undo"} : pc' = [pc EXCEPT ![l] = to]
  BY DEF RenameTemp, Rename
<1>3. PhaseAt(pc[l]) = "busy" /\ PhaseAt(to) = "busy"
  BY <1>1 DEF PhaseAt
<1>4. CASE RenameRefused(l) \/ MyLib(l) # b
  <2>1. dest'[b] = dest[b]
    BY <1>4 DEF RenameTemp, Rename, TypeOK
  <2> QED
    BY <1>1, <1>2, <1>3, <2>1, Stays, EntryKept
<1>5. /\ MyLib(l) = b => Phases(b)' = [Phases(b) EXCEPT ![l] = PhaseAt(to)]
      /\ Gots(b)' = Gots(b)
      /\ MyLib(l) = b => Phases(b)[l] = PhaseAt(pc[l])
  BY <1>1, <1>2, OneLoader
<1>6. CASE ~RenameRefused(l) /\ MyLib(l) = b
  <2>1. dest'[b] = tmp[MyTemp(l)]
    BY <1>6 DEF RenameTemp, Rename, TypeOK
  <2>2. file[tmp[MyTemp(l)]] = [lib |-> b, len |-> Size, ok |-> TRUE, synced |-> TRUE]
    BY <1>1, <1>6 DEF Contents
  <2>3. EntryOf(b)' = "whole"
    BY <1>1, <2>1, <2>2 DEF EntryOf, Judge
  <2>4. /\ Phases(b)' = [Phases(b) EXCEPT ![l] = "busy"] /\ Gots(b)' = Gots(b)
        /\ Phases(b)[l] = "busy"
    BY <1>3, <1>5, <1>6
  <2>5. Cell(b)!Publish(l)
    BY <2>3, <2>4 DEF Cell!Publish, Phases, Gots
  <2> QED
    BY <2>5 DEF Cell!Next
<1> QED
  BY <1>4, <1>6

\* The caller opens what is in place, whole or damaged since.
LEMMA CellOpens ==
  ASSUME TypeOK, Contents, NEW b \in Libs, NEW l \in Loaders,
         UNCHANGED setting, OpenLibrary(l)
  PROVE  [Cell(b)!Next]_(Cell(b)!vars)
<1> USE DEF Goto, shared
<1>1. EntryOf(b)' = EntryOf(b) /\ pc[l] = "ready"
  BY EntryKept DEF OpenLibrary
<1>2. CASE Entry(l) = None
  BY <1>1, <1>2, GivesUp DEF OpenLibrary, Finished
<1>3. CASE Entry(l) # None
  <2> DEFINE c == Judge(file[Entry(l)], MyLib(l))
  <2>1. pc' = [pc EXCEPT ![l] = "loaded"] /\ got' = [got EXCEPT ![l] = c]
    BY <1>3 DEF OpenLibrary
  <2>2. \A k \in Loaders : MyLib(k)' = MyLib(k)
    BY DEF MyLib, Lib, Image
  <2>3. \A k \in Loaders :
          /\ PhaseOf(b, k)' = IF MyLib(k) = b THEN PhaseAt(pc'[k]) ELSE "idle"
          /\ GotOf(b, k)' = IF MyLib(k) = b THEN got'[k] ELSE "none"
    BY <2>2, PhaseIs DEF PhaseOf, PhaseAt, GotOf
  <2>4. PhaseAt("loaded") = "loaded" /\ PhaseAt("ready") = "ready"
    BY DEF PhaseAt
  <2>5. CASE MyLib(l) # b
    <3>1. Phases(b)' = Phases(b) /\ Gots(b)' = Gots(b)
      BY <2>1, <2>3, <2>5, PhaseIs DEF Phases, Gots, GotOf, TypeOK
    <3> QED
      BY <1>1, <3>1 DEF Cell!vars, Phases, Gots
  <2>6. CASE MyLib(l) = b
    <3>1. Phases(b)' = [Phases(b) EXCEPT ![l] = "loaded"] /\ Phases(b)[l] = "ready"
      BY <1>1, <2>1, <2>3, <2>4, <2>6, PhaseIs DEF Phases, TypeOK
    <3>2. Gots(b)' = [Gots(b) EXCEPT ![l] = c]
      BY <2>1, <2>3, <2>6 DEF Gots, GotOf, TypeOK
    <3>3. c \in {"whole", "damaged"} /\ c = EntryOf(b)
      BY <1>3, <2>6 DEF Contents, Judge, Entry, EntryOf
    <3>4. Cell(b)!Load(l)
      BY <1>1, <3>1, <3>2, <3>3 DEF Cell!Load, Cell!Content, Phases, Gots
    <3> QED
      BY <3>4 DEF Cell!Next
  <2> QED
    BY <2>5, <2>6
<1> QED
  BY <1>2, <1>3

\* Damage to a cache file is damage to the cells that lead to it.
LEMMA CellDamaged ==
  ASSUME TypeOK, Contents, NEW b \in Libs, UNCHANGED setting, DamageEntry
  PROVE  [Cell(b)!Next]_(Cell(b)!vars)
<1> USE DEF private
<1>1. Phases(b)' = Phases(b) /\ Gots(b)' = Gots(b) /\ dest' = dest
  BY DEF DamageEntry, Phases, Gots, PhaseOf, GotOf, MyLib, Lib, Image
<1>2. PICK c \in {d \in Libs : dest[d] # None}, n \in 0 .. Size :
        file' = [file EXCEPT ![dest[c]] =
                   [lib |-> @.lib, len |-> n, ok |-> FALSE, synced |-> @.synced]]
  BY DEF DamageEntry
<1>3. CASE dest[b] # dest[c]
  <2>1. EntryOf(b)' = EntryOf(b)
    BY <1>1, <1>2, <1>3 DEF EntryOf, Judge, TypeOK
  <2> QED
    BY <1>1, <2>1 DEF Cell!vars, Phases, Gots
<1>4. CASE dest[b] = dest[c]
  <2>1. dest[b] \in Inodes /\ dest[b] # None
    BY <1>4 DEF TypeOK, Name
  <2>2. ~file'[dest[b]].ok
    BY <1>2, <1>4, <2>1 DEF TypeOK
  <2>3. EntryOf(b)' = "damaged"
    BY <1>1, <2>1, <2>2 DEF EntryOf, Judge
  <2>4. EntryOf(b) \in {"whole", "damaged"}
    BY <2>1 DEF EntryOf, Judge, Contents
  <2>5. Phases(b)' = [k \in Loaders |-> IF k \in {} /\ Phases(b)[k] = "ready" THEN "busy"
                                        ELSE Phases(b)[k]]
    BY <1>1 DEF Phases
  <2>6. Cell(b)!Damage({})
    BY <1>1, <2>3, <2>4, <2>5 DEF Cell!Damage, Cell!Content, Phases, Gots
  <2> QED
    BY <2>6 DEF Cell!Next
<1> QED
  BY <1>3, <1>4

\* The clean-up of tmpdir empties one cell at most.
LEMMA CellCleaned ==
  ASSUME TypeOK, NEW b \in Libs, UNCHANGED setting, CleanTmpdir
  PROVE  [Cell(b)!Next]_(Cell(b)!vars)
<1> USE DEF private
<1>1. Phases(b)' = Phases(b) /\ Gots(b)' = Gots(b) /\ file' = file
  BY DEF CleanTmpdir, Phases, Gots, PhaseOf, GotOf, MyLib, Lib, Image
<1>2. dest'[b] = dest[b] \/ dest'[b] = None
  BY DEF CleanTmpdir, TypeOK
<1>3. CASE dest'[b] = dest[b]
  <2>1. EntryOf(b)' = EntryOf(b)
    BY <1>1, <1>3, EntryKept
  <2> QED
    BY <1>1, <2>1 DEF Cell!vars, Phases, Gots
<1>4. CASE dest'[b] = None
  <2>1. EntryOf(b)' = "absent"
    BY <1>4 DEF EntryOf
  <2>2. Cell(b)!Evict
    BY <1>1, <2>1 DEF Cell!Evict, Phases, Gots
  <2> QED
    BY <2>2 DEF Cell!Next
<1> QED
  BY <1>2, <1>3, <1>4

\* Every step of the protocol is a step of each cell, or leaves it alone.
LEMMA CellStep ==
  ASSUME IInv, [Next]_vars, NEW b \in Libs
  PROVE  [Cell(b)!Next]_(Cell(b)!vars)
<1> USE DEF Goto, Fault, private, shared
<1>0. TypeOK /\ NamesOwned /\ InodesOwned /\ Contents
  BY DEF IInv
<1>1. ASSUME NEW l \in Loaders, ReadCarrier(l), UNCHANGED setting
      PROVE  [Cell(b)!Next]_(Cell(b)!vars)
  <2>1. /\ UNCHANGED <<setting, got>> /\ EntryOf(b)' = EntryOf(b)
        /\ pc[l] = "idle" /\ pc' = [pc EXCEPT ![l] = "mkdir"]
    BY <1>1, EntryKept DEF ReadCarrier
  <2>2. /\ MyLib(l) = b => Phases(b)' = [Phases(b) EXCEPT ![l] = PhaseAt("mkdir")]
        /\ Gots(b)' = Gots(b)
        /\ MyLib(l) = b => Phases(b)[l] = PhaseAt(pc[l])
    BY <1>0, <2>1, OneLoader
  <2>3. PhaseAt(pc[l]) = "idle" /\ PhaseAt("mkdir") = "busy"
    BY <2>1 DEF PhaseAt
  <2>4. CASE MyLib(l) # b
    BY <1>0, <2>1, <2>4, Stays
  <2>5. CASE MyLib(l) = b
    <3>1. Cell(b)!Begin(l)
      BY <2>1, <2>2, <2>3, <2>5 DEF Cell!Begin, Phases, Gots
    <3> QED
      BY <3>1 DEF Cell!Next
  <2> QED
    BY <2>4, <2>5
<1>2. ASSUME NEW l \in Loaders, UNCHANGED setting, CreateDir(l) \/ CheckDir(l)
      PROVE  [Cell(b)!Next]_(Cell(b)!vars)
  <2>1. UNCHANGED <<setting, got>> /\ EntryOf(b)' = EntryOf(b)
    BY <1>2, EntryKept DEF CreateDir, CheckDir
  <2>2. CASE pc' = [pc EXCEPT ![l] = "failed"]
    BY <1>0, <1>2, <2>1, <2>2, GivesUp DEF CreateDir, CheckDir, Finished
  <2>3. CASE pc' # [pc EXCEPT ![l] = "failed"]
    <3>1. PICK to \in {"ckdir", "meta"} : pc' = [pc EXCEPT ![l] = to]
      BY <1>2, <2>3 DEF CreateDir, CheckDir
    <3>2. PhaseAt(pc[l]) = "busy" /\ PhaseAt(to) = "busy"
      BY <1>2 DEF CreateDir, CheckDir, PhaseAt
    <3> QED
      BY <1>0, <2>1, <3>1, <3>2, Stays
  <2> QED
    BY <2>2, <2>3
<1>3. ASSUME NEW l \in Loaders, CheckWarm(l) \/ CheckWritten(l) \/ CheckOther(l),
             UNCHANGED setting
      PROVE  [Cell(b)!Next]_(Cell(b)!vars)
  BY <1>0, <1>3, CellReads
<1>4. ASSUME NEW l \in Loaders, OpenTemp(l), UNCHANGED setting
      PROVE  [Cell(b)!Next]_(Cell(b)!vars)
  <2>1. UNCHANGED <<setting, got, dest>> /\ pc[l] = "open"
    BY <1>4 DEF OpenTemp
  <2>2. EntryOf(b)' = EntryOf(b)
    <3>1. CASE file' = file
      BY <2>1, <3>1, EntryKept
    <3>2. ASSUME NEW i \in Fresh({j \in Inodes : ~InUse(j)}),
                 file' = [file EXCEPT ![i] =
                            [lib |-> MyLib(l), len |-> 0, ok |-> TRUE, synced |-> FALSE]]
          PROVE  EntryOf(b)' = EntryOf(b)
      <4>1. dest[b] # i
        BY <1>0, FreshInode
      <4>2. file'[dest[b]] = file[dest[b]] \/ dest[b] = None
        BY <1>0, <3>2, <4>1 DEF TypeOK, Name
      <4> QED
        BY <2>1, <4>2, EntryKept
    <3> QED
      BY <1>4, <3>1, <3>2 DEF OpenTemp
  <2>3. PICK to \in {"write", "open", "failed"} : pc' = [pc EXCEPT ![l] = to]
    BY <1>4 DEF OpenTemp
  <2>4. CASE to = "failed"
    BY <1>0, <2>1, <2>2, <2>3, <2>4, GivesUp DEF Finished
  <2>5. CASE to # "failed"
    <3>1. PhaseAt(pc[l]) = "busy" /\ PhaseAt(to) = "busy"
      BY <2>1, <2>5 DEF PhaseAt
    <3> QED
      BY <1>0, <2>1, <2>2, <2>3, <3>1, Stays
  <2> QED
    BY <2>4, <2>5
<1>5. ASSUME NEW l \in Loaders, AttemptsExhausted(l), UNCHANGED setting
      PROVE  [Cell(b)!Next]_(Cell(b)!vars)
  <2>1. /\ UNCHANGED <<setting, got>> /\ EntryOf(b)' = EntryOf(b)
        /\ pc[l] = "open" /\ pc' = [pc EXCEPT ![l] = "failed"]
    BY <1>5, EntryKept DEF AttemptsExhausted
  <2> QED
    BY <1>0, <2>1, GivesUp DEF Finished
<1>6. ASSUME NEW l \in Loaders, WriteTemp(l) \/ SyncTemp(l), UNCHANGED setting
      PROVE  [Cell(b)!Next]_(Cell(b)!vars)
  <2>1. UNCHANGED <<setting, got, dest>> /\ pc[l] = "write" /\ MyTemp(l) \in TempNames
    BY <1>0, <1>6, Names DEF WriteTemp, SyncTemp
  <2>2. PICK to \in {"write", "rename"} : pc' = [pc EXCEPT ![l] = to]
    BY <1>0, <1>6, <2>1 DEF WriteTemp, SyncTemp, TypeOK
  <2>3. PhaseAt(pc[l]) = "busy" /\ PhaseAt(to) = "busy"
    BY <2>1 DEF PhaseAt
  <2>4. dest[b] # None => fd[l] # dest[b]
    BY <1>0, <2>1 DEF InodesOwned, NamesOwned, Owning
  <2>5. dest[b] # None => file'[dest[b]] = file[dest[b]]
    <3>1. PICK f : file' = [file EXCEPT ![fd[l]] = f]
      BY <1>6 DEF WriteTemp, SyncTemp
    <3> QED
      BY <1>0, <2>4, <3>1 DEF TypeOK, Name
  <2> QED
    BY <1>0, <2>1, <2>2, <2>3, <2>5, EntryKept, Stays
<1>7. ASSUME NEW l \in Loaders, RenameTemp(l), UNCHANGED setting
      PROVE  [Cell(b)!Next]_(Cell(b)!vars)
  BY <1>0, <1>7, CellRenames
<1>8. ASSUME NEW l \in Loaders, RemoveTemp(l), UNCHANGED setting
      PROVE  [Cell(b)!Next]_(Cell(b)!vars)
  <2>1. /\ UNCHANGED <<setting, got>> /\ EntryOf(b)' = EntryOf(b)
        /\ pc[l] \notin Finished /\ PhaseAt(pc[l]) = "busy"
    BY <1>8, EntryKept DEF RemoveTemp, Finished, PhaseAt
  <2>2. CASE pc' = [pc EXCEPT ![l] = "failed"]
    BY <1>0, <2>1, <2>2, GivesUp
  <2>3. CASE pc' = [pc EXCEPT ![l] = "meta3"]
    <3>1. PhaseAt("meta3") = "busy"
      BY DEF PhaseAt
    <3> QED
      BY <1>0, <2>1, <2>3, <3>1, Stays
  <2> QED
    BY <1>8, <2>2, <2>3 DEF RemoveTemp
<1>9. ASSUME NEW l \in Loaders, OpenLibrary(l), UNCHANGED setting
      PROVE  [Cell(b)!Next]_(Cell(b)!vars)
  BY <1>0, <1>9, CellOpens
<1>10. ASSUME NEW l \in Loaders, FailIO(l), UNCHANGED setting
       PROVE  [Cell(b)!Next]_(Cell(b)!vars)
  <2>1. /\ UNCHANGED <<setting, got>> /\ EntryOf(b)' = EntryOf(b)
        /\ pc[l] \notin Finished /\ pc' = [pc EXCEPT ![l] = OnError(pc[l])]
    BY <1>10, EntryKept DEF FailIO
  <2>2. CASE OnError(pc[l]) = "failed"
    BY <1>0, <2>1, <2>2, GivesUp
  <2>3. CASE OnError(pc[l]) # "failed"
    <3>1. PhaseAt(OnError(pc[l])) = PhaseAt(pc[l])
      BY <2>3 DEF OnError, PhaseAt
    <3> QED
      BY <1>0, <2>1, <3>1, Stays
  <2> QED
    BY <2>2, <2>3
<1>11. ASSUME NEW m \in Images, Exit(m) \/ Crash(m), UNCHANGED setting
       PROVE  [Cell(b)!Next]_(Cell(b)!vars)
  BY <1>0, <1>11, EntryKept, CellEnds DEF Exit, Crash
<1>12. ASSUME PowerLoss, UNCHANGED setting
       PROVE  [Cell(b)!Next]_(Cell(b)!vars)
  <2>1. dest' = dest /\ Gone(Loaders)
    BY <1>12 DEF PowerLoss
  <2>2. ASSUME dest[b] # None PROVE file'[dest[b]] = file[dest[b]]
    BY <1>0, <1>12, <2>2 DEF PowerLoss, Contents, TypeOK, Name
  <2> QED
    BY <1>0, <1>12, <2>1, <2>2, EntryKept, CellEnds
<1>13. UNCHANGED vars => UNCHANGED Cell(b)!vars
  BY DEF vars, Cell!vars, EntryOf, Judge, PhaseOf, GotOf, MyLib, Lib, Image
<1> QED
  BY <1>0, <1>1, <1>2, <1>3, <1>4, <1>5, <1>6, <1>7, <1>8, <1>9, <1>10, <1>11, <1>12,
     <1>13, CellDamaged, CellCleaned DEF Next, Step, Environment, Exit

\* A library's cell begins whole, damaged or absent.
LEMMA CellInit == ASSUME Init, NEW b \in Libs PROVE Cell(b)!Init
<1>1. Contents /\ \A l \in Loaders : pc[l] = "idle" /\ got[l] = "none"
  BY InitInv DEF IInv, Init
<1>2. EntryOf(b) \in {"absent", "whole", "damaged"}
  BY <1>1 DEF EntryOf, Judge, Contents
<1>3. \A l \in Loaders : PhaseOf(b, l) = "idle" /\ GotOf(b, l) = "none"
  BY <1>1 DEF PhaseOf, GotOf
<1> QED
  BY <1>2, <1>3 DEF Cell!Init, Cell!Content

\* resolve_library_path with write_atomic and valid_cached_file implements the atomic cell,
\* for every library at once: a caller is handed a library only after having found it whole,
\* or having put it there whole, and opens what is in place then.
THEOREM Refinement ==
  ASSUME TempsAreKept
  PROVE  Spec => ImplementsCell
<1>1. Init => \A b \in Libs : Cell(b)!Init
  BY CellInit
<1>2. IInv /\ [Next]_vars => [\A b \in Libs : [Cell(b)!Next]_(Cell(b)!vars)]_vars
  BY CellStep
<1> QED
  BY <1>1, <1>2, Inductive, PTL DEF Spec, ImplementsCell
=============================================================================
