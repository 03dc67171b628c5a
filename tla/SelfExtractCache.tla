-------------------------- MODULE SelfExtractCache --------------------------
(***************************************************************************)
(* The generic stub of a hybrid .node: napi_register_module_v1 calls       *)
(* resolve_self, which extracts the real addon into a per-user cache file  *)
(* and returns its path, and then dlopens that path.  Any failure makes    *)
(* the stub hand back the exports it was given ("fallback").               *)
(*                                                                         *)
(* The module is about ONE cache file, <stem>-<key>.node, and the loading  *)
(* processes that meet at it.  Every name the code uses, the temporary's   *)
(* too, contains the file name, so the entries of the cache do not         *)
(* interact.  The file system is kept as names and inodes, because a       *)
(* rename moves a name, an unlink removes one, and an open descriptor or a *)
(* mapping holds on to the inode whatever its names become.                *)
(***************************************************************************)
EXTENDS Naturals

CONSTANTS
  Loaders,        \* processes that dlopen the hybrid
  Pids,           \* the process ids the OS hands out
  Pid,            \* Pid[l], the id std::process::id() gives loader l
  Inodes,         \* the file system's inodes
  None,           \* "no file"
  Fresh(_),       \* the inodes, of the free ones, that the file system may hand out next
  Size,           \* the addon's length, counted in write(2) calls
  Systems,        \* the values of unix that a run covers
  MaxFaults       \* bound: the environment steps (crashes, failures, ...) of a behaviour

ASSUME PidAssumption == Pid \in [Loaders -> Pids]
ASSUME NoneAssumption == None \notin Inodes
ASSUME SizeAssumption == Size \in Nat \ {0}
ASSUME SystemsAssumption == Systems \subseteq BOOLEAN
ASSUME FreshAssumption == \A S \in SUBSET Inodes : Fresh(S) \subseteq S
ASSUME FaultsAssumption == MaxFaults \in Nat

VARIABLES
  unix,     \* cfg(unix), or else Windows: there no rename replaces a file that a
            \* process has mapped, and nothing checks a directory.  It never changes.
  pc,       \* per loader: the next thing it does
  fd,       \* per loader: the inode it has open, to hash it or to write it
  mapped,   \* per loader: the inode it has dlopened
  got,      \* per loader: what that inode held at the dlopen
  dest,     \* the inode the cache file's name leads to
  tmp,      \* per process id: the inode of the temporary .<name>.<pid>.tmp
  file,     \* per inode: bytes written, whether they are the addon's, whether on disk
  dir,      \* the two directories below the tmpdir
  faults,   \* environment steps still allowed
  harmed    \* has a call failed, or anybody else touched the files?  It is only recorded.

vars == <<unix, pc, fd, mapped, got, dest, tmp, file, dir, faults, harmed>>

Levels == {"shared", "leaf"}          \* abitious-cache and abitious-cache/<uid>
\* "unsafe": another user's, writable by others, or a symlink; "file": no directory.
DirState == {"absent", "owned", "unsafe", "file"}
Name == Inodes \cup {None}
File == [len : 0 .. Size, ok : BOOLEAN, synced : BOOLEAN]
Finished == {"loaded", "fallback"}
Label == {"idle", "stat", "open", "hash", "mkall", "mkshared", "ckshared", "mkleaf", "ckleaf",
          "unlink", "create", "write", "rename", "cleanup", "dlopen"} \cup Finished

TypeOK ==
  /\ unix \in Systems
  /\ pc \in [Loaders -> Label]
  /\ fd \in [Loaders -> Name]
  /\ mapped \in [Loaders -> Name]
  /\ got \in [Loaders -> {"none", "whole", "torn", "damaged"}]
  /\ dest \in Name
  /\ tmp \in [Pids -> Name]
  /\ file \in [Inodes -> File]
  /\ dir \in [Levels -> DirState]
  /\ faults \in 0 .. MaxFaults
  /\ harmed \in BOOLEAN

\* The three things a reader can find in a file: the addon, a prefix of it
\* that a writer has not finished, or bytes no writer put there.
Judge(f) == IF ~f.ok THEN "damaged" ELSE IF f.len = Size THEN "whole" ELSE "torn"

InUse(i) ==
  \/ i = dest
  \/ \E p \in Pids : tmp[p] = i
  \/ \E l \in Loaders : fd[l] = i \/ mapped[l] = i

Init ==
  /\ unix \in Systems
  /\ pc = [l \in Loaders |-> "idle"]
  /\ fd = [l \in Loaders |-> None]
  /\ mapped = [l \in Loaders |-> None]
  /\ got = [l \in Loaders |-> "none"]
  /\ tmp = [p \in Pids |-> None]
  /\ dir \in [Levels -> DirState]
  /\ dir["shared"] \in {"absent", "file"} => dir["leaf"] = "absent"
  /\ dest \in Fresh(Inodes) \cup {None}
  /\ dir["leaf"] \in {"absent", "file"} => dest = None
  \* An entry left by an earlier load: whole, or damaged since.
  /\ \E n \in {0, Size}, ok \in BOOLEAN :
       /\ n = 0 => ~ok
       /\ file = [i \in Inodes |->
                    IF i = dest THEN [len |-> n, ok |-> ok, synced |-> TRUE]
                    ELSE [len |-> 0, ok |-> FALSE, synced |-> TRUE]]
  /\ faults = MaxFaults
  /\ harmed = FALSE

Goto(l, from, to) ==
  /\ pc[l] = from
  /\ pc' = [pc EXCEPT ![l] = to]

-----------------------------------------------------------------------------
(* resolve_self: the warm hit *)

\* Reading and unwrapping one's own bytes touches nothing shared.
ReadSelf(l) ==
  /\ Goto(l, "idle", "stat")
  /\ UNCHANGED <<fd, mapped, got, dest, tmp, file, dir, faults>>

\* Where a miss continues: prepare_cache_dir is another function on unix.
Miss == IF unix THEN "mkshared" ELSE "mkall"

\* metadata(dest): a missing entry or a wrong length is a miss.
StatEntry(l) ==
  /\ Goto(l, "stat",
          IF dest # None /\ file[dest].len = Size THEN "open" ELSE Miss)
  /\ UNCHANGED <<fd, mapped, got, dest, tmp, file, dir, faults>>

\* sha512_file opens the path a second time: the entry may have gone.
OpenEntry(l) ==
  /\ Goto(l, "open", IF dest = None THEN Miss ELSE "hash")
  /\ fd' = [fd EXCEPT ![l] = dest]
  /\ UNCHANGED <<mapped, got, dest, tmp, file, dir, faults>>

\* Mutant: the length alone decides, as if the digest were not compared.
HashEntryTrustsLength(l) ==
  /\ Goto(l, "hash", "dlopen")
  /\ fd' = [fd EXCEPT ![l] = None]
  /\ UNCHANGED <<mapped, got, dest, tmp, file, dir, faults>>

\* Mutant: a mismatch is an error, not a miss.
HashEntryGivesUp(l) ==
  /\ Goto(l, "hash", IF Judge(file[fd[l]]) = "whole" THEN "dlopen" ELSE "fallback")
  /\ fd' = [fd EXCEPT ![l] = None]
  /\ UNCHANGED <<mapped, got, dest, tmp, file, dir, faults>>

\* A mismatch is a miss; a match returns the path, to be dlopened.
HashEntry(l) ==
  /\ Goto(l, "hash", IF Judge(file[fd[l]]) = "whole" THEN "dlopen" ELSE Miss)
  /\ fd' = [fd EXCEPT ![l] = None]
  /\ UNCHANGED <<mapped, got, dest, tmp, file, dir, faults>>

-----------------------------------------------------------------------------
(* prepare_cache_dir.  On unix each of the shared parent and the leaf is     *)
(* created and then validated, whoever created it.  Elsewhere it is          *)
(* create_dir_all: the leaf, else the parent and then the leaf, and of what   *)
(* exists already only whether it is a directory.                            *)

CreateDir(l, level, here, check, ok) ==
  /\ Goto(l, here, IF unix \/ dir[level] # "absent" THEN check ELSE ok)
  /\ dir' = [dir EXCEPT ![level] = IF @ = "absent" THEN "owned" ELSE @]
  /\ UNCHANGED <<fd, mapped, got, dest, tmp, file, faults>>

ValidateDir(l, level, here, ok) ==
  /\ Goto(l, here, IF dir[level] = "owned" \/ (~unix /\ dir[level] = "unsafe")
                   THEN ok ELSE "fallback")
  /\ UNCHANGED <<fd, mapped, got, dest, tmp, file, dir, faults>>

\* What mkdir of the leaf needs.
ParentExists == dir["shared"] \in {"owned", "unsafe"}

\* create_dir_all's first try.
CreateAll(l) ==
  \/ ParentExists /\ CreateDir(l, "leaf", "mkall", "ckleaf", "unlink")
  \/ /\ ~ParentExists
     /\ Goto(l, "mkall", "mkshared")
     /\ UNCHANGED <<fd, mapped, got, dest, tmp, file, dir, faults>>

CreateShared(l) == CreateDir(l, "shared", "mkshared", "ckshared", "mkleaf")

\* Mutant: only the leaf is validated.
SkipValidateShared(l) ==
  /\ Goto(l, "ckshared", "mkleaf")
  /\ UNCHANGED <<fd, mapped, got, dest, tmp, file, dir, faults>>

ValidateShared(l) == ValidateDir(l, "shared", "ckshared", "mkleaf")

\* mkdir fails when the parent has been cleaned away meanwhile.
CreateLeaf(l) ==
  \/ ParentExists /\ CreateDir(l, "leaf", "mkleaf", "ckleaf", "unlink")
  \/ /\ ~ParentExists
     /\ Goto(l, "mkleaf", "fallback")
     /\ UNCHANGED <<fd, mapped, got, dest, tmp, file, dir, faults>>

ValidateLeaf(l) == ValidateDir(l, "leaf", "ckleaf", "unlink")

-----------------------------------------------------------------------------
(* write_atomic *)

\* Mutant: the name is free, so nothing is removed.
StaleTempStays(l) ==
  /\ Goto(l, "unlink", "create")
  /\ UNCHANGED <<fd, mapped, got, dest, tmp, file, dir, faults>>

\* remove_file(&tmp), its error ignored.
RemoveStaleTemp(l) ==
  /\ Goto(l, "unlink", "create")
  /\ tmp' = [tmp EXCEPT ![Pid[l]] = None]
  /\ UNCHANGED <<fd, mapped, got, dest, file, dir, faults>>

\* create_new: a fresh inode, or an error when the name exists or the directory does not.
OpenTemp(l) ==
  /\ \/ /\ tmp[Pid[l]] = None /\ dir["leaf"] # "absent"
        /\ Goto(l, "create", "write")
        /\ \E i \in Fresh({j \in Inodes : ~InUse(j)}) :
             /\ tmp' = [tmp EXCEPT ![Pid[l]] = i]
             /\ fd' = [fd EXCEPT ![l] = i]
             /\ file' = [file EXCEPT ![i] = [len |-> 0, ok |-> TRUE, synced |-> FALSE]]
     \/ /\ tmp[Pid[l]] # None \/ dir["leaf"] = "absent"
        /\ Goto(l, "create", "cleanup")
        /\ UNCHANGED <<tmp, fd, file>>
  /\ UNCHANGED <<mapped, got, dest, dir, faults>>

\* One write(2) of write_all, into the inode the descriptor holds.
WriteTemp(l) ==
  /\ pc[l] = "write"
  /\ file[fd[l]].len < Size
  /\ file' = [file EXCEPT ![fd[l]] = [len |-> @.len + 1, ok |-> @.ok, synced |-> FALSE]]
  /\ UNCHANGED <<pc, fd, mapped, got, dest, tmp, dir, faults>>

\* Mutant: a short write passes for a complete one.
SyncTempShort(l) ==
  /\ Goto(l, "write", "rename")
  /\ file' = [file EXCEPT ![fd[l]] = [len |-> @.len, ok |-> @.ok, synced |-> TRUE]]
  /\ fd' = [fd EXCEPT ![l] = None]
  /\ UNCHANGED <<mapped, got, dest, tmp, dir, faults>>

\* Mutant: no sync_all before the rename.
SyncTempSkipped(l) ==
  /\ Goto(l, "write", "rename")
  /\ file[fd[l]].len = Size
  /\ fd' = [fd EXCEPT ![l] = None]
  /\ UNCHANGED <<mapped, got, dest, tmp, file, dir, faults>>

\* sync_all, after the last write; the descriptor is then dropped.
SyncTemp(l) ==
  /\ Goto(l, "write", "rename")
  /\ file[fd[l]].len = Size
  /\ file' = [file EXCEPT ![fd[l]] = [len |-> @.len, ok |-> @.ok, synced |-> TRUE]]
  /\ fd' = [fd EXCEPT ![l] = None]
  /\ UNCHANGED <<mapped, got, dest, tmp, dir, faults>>

\* The name may be gone, and a file that is mapped may not be replaceable.
RenameRefused(l) ==
  \/ tmp[Pid[l]] = None
  \/ ~unix /\ dest # None /\ \E m \in Loaders : mapped[m] = dest

\* rename moves whatever inode the temporary's name leads to NOW.
RenameTemp(l) ==
  /\ \/ /\ ~RenameRefused(l)
        /\ Goto(l, "rename", "dlopen")
        /\ dest' = tmp[Pid[l]]
        /\ tmp' = [tmp EXCEPT ![Pid[l]] = None]
     \/ /\ RenameRefused(l)
        /\ Goto(l, "rename", "cleanup")
        /\ UNCHANGED <<dest, tmp>>
  /\ UNCHANGED <<fd, mapped, got, file, dir, faults>>

RemoveFailedTemp(l) ==
  /\ Goto(l, "cleanup", "fallback")
  /\ tmp' = [tmp EXCEPT ![Pid[l]] = None]
  /\ UNCHANGED <<fd, mapped, got, dest, file, dir, faults>>

-----------------------------------------------------------------------------
(* The stub: dlopen the returned path, forward, and the end of the process *)

\* dlopen follows the path once more; a null handle is a fallback.
LoadRegister(l) ==
  /\ \/ /\ dest # None
        /\ Goto(l, "dlopen", "loaded")
        /\ mapped' = [mapped EXCEPT ![l] = dest]
        /\ got' = [got EXCEPT ![l] = Judge(file[dest])]
     \/ /\ dest = None
        /\ Goto(l, "dlopen", "fallback")
        /\ UNCHANGED <<mapped, got>>
  /\ UNCHANGED <<fd, dest, tmp, file, dir, faults>>

Gone(S) ==
  /\ pc' = [l \in Loaders |-> IF l \in S THEN "idle" ELSE pc[l]]
  /\ fd' = [l \in Loaders |-> IF l \in S THEN None ELSE fd[l]]
  /\ mapped' = [l \in Loaders |-> IF l \in S THEN None ELSE mapped[l]]
  /\ got' = [l \in Loaders |-> IF l \in S THEN "none" ELSE got[l]]

\* The process ends; a later process loads the hybrid again.
Exit(l) ==
  /\ pc[l] \in Finished
  /\ Gone({l})
  /\ UNCHANGED <<dest, tmp, file, dir, faults>>

-----------------------------------------------------------------------------
(* The environment.  Each step uses up one of MaxFaults. *)

Fault == faults > 0 /\ faults' = faults - 1

\* A fault that leaves the loaders something to stumble over.
Harm == Fault /\ harmed' = TRUE

\* The process dies half-way: its temporary, if any, stays behind.
Crash(l) ==
  /\ pc[l] \notin Finished \cup {"idle"}
  /\ Fault
  /\ Gone({l})
  /\ UNCHANGED <<dest, tmp, file, dir, harmed>>

\* A read, an open, a write, a sync, a rename or a mkdir fails (a full disk, no
\* permission), or the file is no intact hybrid.  An error of write_atomic
\* removes the temporary; one before it returns at once; one of metadata or of
\* sha512_file is only a miss; one of a removal is ignored.
FailIO(l) ==
  /\ Harm
  /\ \/ pc[l] \in {"idle", "mkall", "mkshared", "ckshared", "mkleaf", "ckleaf", "dlopen"}
          /\ pc' = [pc EXCEPT ![l] = "fallback"]
     \/ pc[l] \in {"stat", "open", "hash"}
          /\ pc' = [pc EXCEPT ![l] = Miss]
     \/ pc[l] \in {"create", "write", "rename"}
          /\ pc' = [pc EXCEPT ![l] = "cleanup"]
     \/ pc[l] = "unlink" /\ pc' = [pc EXCEPT ![l] = "create"]
     \/ pc[l] = "cleanup" /\ pc' = [pc EXCEPT ![l] = "fallback"]
  /\ fd' = [fd EXCEPT ![l] = None]
  /\ UNCHANGED <<mapped, got, dest, tmp, file, dir>>

\* The bytes of the cache file change under its name ("could have been corrupted").
DamageEntry ==
  /\ Harm
  /\ dest # None
  /\ \E n \in 0 .. Size :
       file' = [file EXCEPT ![dest] = [len |-> n, ok |-> FALSE, synced |-> @.synced]]
  /\ UNCHANGED <<pc, fd, mapped, got, dest, tmp, dir>>

\* The OS cleans its tmpdir: the entry, a temporary, or an empty directory.
CleanTmpdir ==
  /\ Harm
  /\ \/ dest # None /\ dest' = None /\ UNCHANGED <<tmp, dir>>
     \/ /\ \E p \in Pids : tmp[p] # None /\ tmp' = [tmp EXCEPT ![p] = None]
        /\ UNCHANGED <<dest, dir>>
     \/ /\ dest = None /\ \A p \in Pids : tmp[p] = None
        /\ dir["shared"] = "owned" /\ dir["leaf"] \in {"absent", "owned"}
        /\ \/ dir' = [dir EXCEPT !["leaf"] = "absent"]
           \/ dir' = [level \in Levels |-> "absent"]
        /\ UNCHANGED <<dest, tmp>>
  /\ UNCHANGED <<pc, fd, mapped, got, file>>

\* The machine stops: what was not synced may be cut short.
PowerLoss ==
  /\ Fault
  /\ Gone(Loaders)
  /\ \E kept \in [{i \in Inodes : ~file[i].synced} -> 0 .. Size] :
       file' = [i \in Inodes |->
                  IF file[i].synced \/ kept[i] > file[i].len THEN file[i]
                  ELSE [file[i] EXCEPT !.len = kept[i]]]
  /\ UNCHANGED <<dest, tmp, dir, harmed>>

-----------------------------------------------------------------------------
Step(l) ==
  /\ \/ ReadSelf(l) \/ StatEntry(l) \/ OpenEntry(l) \/ HashEntry(l)
     \/ CreateAll(l) \/ CreateShared(l) \/ ValidateShared(l) \/ CreateLeaf(l) \/ ValidateLeaf(l)
     \/ RemoveStaleTemp(l) \/ OpenTemp(l) \/ WriteTemp(l) \/ SyncTemp(l)
     \/ RenameTemp(l) \/ RemoveFailedTemp(l) \/ LoadRegister(l) \/ Exit(l)
  /\ UNCHANGED <<unix, harmed>>

Environment ==
  /\ \/ \E l \in Loaders : Crash(l) \/ FailIO(l)
     \/ DamageEntry \/ CleanTmpdir \/ PowerLoss
  /\ UNCHANGED unix

Next == (\E l \in Loaders : Step(l)) \/ Environment

Spec == Init /\ [][Next]_vars

\* Every process the OS runs gets to its next step, and the addon goes on
\* being loaded.
FairSpec == Spec /\ \A l \in Loaders : WF_vars(Step(l))
-----------------------------------------------------------------------------
(* Properties *)

Refused == {"unsafe", "file"}
DirsSound == \A v \in Levels : dir[v] \notin Refused

\* The cache file is never half-written under its own name: after any crash, power
\* loss or interleaving it is absent, whole, or damaged by something else.  This is
\* write_atomic's "a crash or a concurrent reader never observes a partial extraction".
EntryNeverTorn == dest # None => Judge(file[dest]) # "torn"

\* No process dlopens a half-written file (resolve_self: "a concurrent loader never
\* dlopens a half-written file").
NeverLoadsTorn == \A l \in Loaders : got[l] # "torn"

\* An inode that is being written is neither the cache file nor mapped by anybody:
\* the code replaces a library in use, it never rewrites one in place.
WritesStayPrivate ==
  \A l \in Loaders :
    pc[l] = "write" => fd[l] # dest /\ \A m \in Loaders : mapped[m] # fd[l]

\* Loaders never make each other fail, running or dead: while no call fails, nobody else
\* touches the files and the directories are sound, a load ends without the addon only
\* where a file in use cannot be replaced, and then in spite of a whole entry that
\* somebody else put there.  A loader that dies, or the machine, leaves nothing behind
\* that makes a later load fail ("a stale temp from a crashed same-pid run is cleared
\* first").
NoSpuriousFallback ==
  ~harmed /\ DirsSound
    => \A l \in Loaders : pc[l] = "fallback" =>
         ~unix /\ dest # None /\ Judge(file[dest]) = "whole"

\* On unix no step creates anything where prepare_cache_dir refuses a directory,
\* whichever of the two levels it is: no temporary, no entry, and no leaf below a parent
\* that has not been found sound.  On Windows the code promises no such thing.
UnsafeDirNeverWritten ==
  [][unix =>
       /\ dir["shared"] \in Refused => dir'["leaf"] = dir["leaf"]
       /\ ~DirsSound => /\ dest' \in {dest, None}
                        /\ \A p \in Pids : tmp'[p] \in {tmp[p], None}]_vars

\* The cache repairs itself: once nothing more goes wrong, and while the addon goes on
\* being loaded, the entry becomes and stays whole ("treated as a MISS: the addon is
\* re-extracted").
EntryHeals ==
  []DirsSound => <>[](dest # None /\ Judge(file[dest]) = "whole")

-----------------------------------------------------------------------------
(* Why they hold: who may hold which inode.  Inductive when pids are distinct. *)

PidsDistinct == \A l, m \in Loaders : Pid[l] = Pid[m] => l = m

Descriptors == \A l \in Loaders : fd[l] # None <=> pc[l] \in {"hash", "write"}

\* The inode being written has at most one name, its writer's, and no other user.
WriterOwns ==
  \A l \in Loaders : pc[l] = "write" =>
    /\ file[fd[l]].ok
    /\ dest # fd[l]
    /\ \A p \in Pids : tmp[p] = fd[l] => p = Pid[l]
    /\ tmp[Pid[l]] \in {None, fd[l]}
    /\ \A m \in Loaders : mapped[m] # fd[l] /\ (fd[m] = fd[l] => m = l)

\* A temporary has one name and is neither the entry, nor read, nor mapped.
TempsPrivate ==
  \A p \in Pids : tmp[p] # None =>
    /\ dest # tmp[p]
    /\ \A q \in Pids : tmp[q] = tmp[p] => q = p
    /\ \A m \in Loaders : mapped[m] # tmp[p] /\ (pc[m] = "hash" => fd[m] # tmp[p])

Published(i) == file[i].synced /\ Judge(file[i]) # "torn"

\* What is about to be renamed, the entry, and what is being hashed are on disk.
EntriesDurable ==
  /\ dest # None => Published(dest)
  /\ \A l \in Loaders :
       /\ pc[l] = "hash" => Published(fd[l])
       /\ pc[l] = "rename" /\ tmp[Pid[l]] # None =>
            file[tmp[Pid[l]]].synced /\ Judge(file[tmp[Pid[l]]]) = "whole"

\* On unix a loader that is past a directory's check found it sound, and that is stable.
DirsChecked ==
  unix => \A l \in Loaders :
    /\ pc[l] # "mkall"
    /\ pc[l] \in {"mkleaf", "ckleaf", "unlink", "create", "write", "rename"}
         => dir["shared"] \notin Refused
    /\ pc[l] \in {"unlink", "create", "write", "rename"} => dir["leaf"] \notin Refused

IInv ==
  /\ TypeOK /\ Descriptors /\ WriterOwns /\ TempsPrivate /\ EntriesDurable
  /\ DirsChecked /\ NeverLoadsTorn

-----------------------------------------------------------------------------
(* The file protocol implements the atomic cell of AtomicEntry. *)

Entry == IF dest = None THEN "absent" ELSE Judge(file[dest])

\* A loader counts as ready from the moment it opens an intact entry, although it
\* knows only once it has hashed it.
PhaseOf(l) ==
  IF pc[l] \in Finished \cup {"idle"} THEN pc[l]
  ELSE IF pc[l] = "dlopen" \/ (pc[l] = "hash" /\ Judge(file[fd[l]]) = "whole")
    THEN "ready" ELSE "busy"

Phases == [l \in Loaders |-> PhaseOf(l)]

Cell == INSTANCE AtomicEntry WITH entry <- Entry, phase <- Phases

\* Every load sees the entry as one cell, replaced in one step by the whole addon and
\* loaded only by a process that had found it or left it whole: damage is loaded only
\* when it happened after the loader's verification.
ImplementsCell == Cell!Spec
=============================================================================
