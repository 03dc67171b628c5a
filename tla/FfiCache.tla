------------------------------ MODULE FfiCache ------------------------------
(***************************************************************************)
(* The cache behind the FFI carrier.  A carrier addon's entry point calls  *)
(* resolve_library_path, which extracts the shared library of its own FFI  *)
(* section to library-<sha512>.<suffix> in a private directory, verifies   *)
(* it there, and hands its path to the caller, who opens it with Node's    *)
(* FFI.  Any error is thrown to the caller ("failed").                     *)
(*                                                                         *)
(* Unlike the generic stub's cache, the temporaries are NOT named after    *)
(* the library: .ffi-<pid>-<sequence>.tmp, the sequence being a static of  *)
(* the loaded carrier.  Two carriers of one process, or two processes with *)
(* one id, draw the same names, so the module keeps several libraries.     *)
(***************************************************************************)
EXTENDS Naturals

CONSTANTS
  Loaders,        \* calls of a carrier's entry point that may overlap
  Images,         \* loaded copies of carriers, each with its TEMP_SEQUENCE
  Pids,           \* process ids
  Libs,           \* libraries, one cache file each
  Settings,       \* the settings (below) the loaders may find themselves in
  Inodes, None,
  Fresh(_),       \* the inodes, of the free ones, that the file system may hand out next
  Size,           \* a library's length, counted in write(2) calls
  MaxAttempts,    \* temporary names tried by one write_atomic (128)
  Wrap,           \* the counter TEMP_SEQUENCE is taken modulo Wrap (2^64)
  MaxFaults       \* bound: the environment steps of a behaviour

ASSUME SettingsAssumption ==
  \A s \in Settings :
    /\ s.image \in [Loaders -> Images] /\ s.pid \in [Images -> Pids]
    /\ s.lib \in [Images -> Libs]
    /\ s.replaceMapped \in BOOLEAN /\ s.cleanTemps \in BOOLEAN
ASSUME NoneAssumption == None \notin Inodes /\ None \notin Libs
ASSUME FreshAssumption == \A S \in SUBSET Inodes : Fresh(S) \subseteq S
ASSUME SizeAssumption == Size \in Nat \ {0}
ASSUME AttemptsAssumption == MaxAttempts \in Nat \ {0} /\ Wrap \in Nat \ {0}
ASSUME FaultsAssumption == MaxFaults \in Nat

VARIABLES
  setting,   \* who shares what, and what the system does; it never changes
  pc,        \* per loader: the next thing it does
  attempt,   \* per loader: names write_atomic has tried
  number,    \* per loader: the sequence number of its temporary
  fd,        \* per loader: the inode it writes
  mapped,    \* per loader: the inode its caller has opened as a library
  got,       \* per loader: what that inode held when it was opened
  sequence,  \* per image: TEMP_SEQUENCE
  dest,      \* per library: the inode of its cache file
  tmp,       \* the temporaries, by process id and sequence number
  file,      \* per inode: whose bytes, how many, intact, on disk
  dir,       \* the private directory abitious-ffi-<user>
  leaky,     \* has a process died, or a removal failed?
  faults     \* environment steps still allowed

vars == <<setting, pc, attempt, number, fd, mapped, got, sequence, dest, tmp, file, dir,
          leaky, faults>>

Name == Inodes \cup {None}
TempNames == Pids \X (0 .. Wrap - 1)
File == [lib : Libs \cup {None}, len : 0 .. Size, ok : BOOLEAN, synced : BOOLEAN]
Finished == {"loaded", "failed"}
Checks == {"meta", "read", "meta2", "read2", "meta3", "read3"}
Label == {"idle", "mkdir", "ckdir", "open", "write", "discard", "rename", "undo", "ready"}
           \cup Checks \cup Finished

Image == setting.image    \* Image[l], the copy whose code loader l runs
Pid == setting.pid        \* Pid[m], the process id image m sees
Lib == setting.lib        \* Lib[m], the library in image m's section
ReplaceMapped == setting.replaceMapped   \* may rename replace a file in use?  (unix)
CleanTemps == setting.cleanTemps         \* does the OS clean temporaries too?

MyLib(l) == Lib[Image[l]]
MyTemp(l) == <<Pid[Image[l]], number[l]>>
Entry(l) == dest[MyLib(l)]

TypeOK ==
  /\ setting \in Settings
  /\ pc \in [Loaders -> Label]
  /\ attempt \in [Loaders -> 0 .. MaxAttempts]
  /\ number \in [Loaders -> 0 .. Wrap - 1]
  /\ fd \in [Loaders -> Name]
  /\ mapped \in [Loaders -> Name]
  /\ got \in [Loaders -> {"none", "whole", "torn", "damaged", "foreign"}]
  /\ sequence \in [Images -> 0 .. Wrap - 1]
  /\ dest \in [Libs -> Name]
  /\ tmp \in [TempNames -> Name]
  /\ file \in [Inodes -> File]
  /\ dir \in {"absent", "owned", "unsafe"}
  /\ leaky \in BOOLEAN
  /\ faults \in 0 .. MaxFaults

\* "damaged" stands for changed bytes and for a changed type, owner or mode.
Judge(f, lib) ==
  IF ~f.ok THEN "damaged"
  ELSE IF f.lib # lib THEN "foreign"
  ELSE IF f.len = Size THEN "whole" ELSE "torn"

InUse(i) ==
  \/ \E b \in Libs : dest[b] = i
  \/ \E n \in TempNames : tmp[n] = i
  \/ \E l \in Loaders : fd[l] = i \/ mapped[l] = i

Init ==
  /\ setting \in Settings
  /\ pc = [l \in Loaders |-> "idle"]
  /\ attempt = [l \in Loaders |-> 0]
  /\ number = [l \in Loaders |-> 0]
  /\ fd = [l \in Loaders |-> None]
  /\ mapped = [l \in Loaders |-> None]
  /\ got = [l \in Loaders |-> "none"]
  /\ sequence = [m \in Images |-> 0]
  /\ tmp = [n \in TempNames |-> None]
  /\ dir \in {"absent", "owned", "unsafe"}
  \* A cache file left by an earlier load: whole, or damaged since.
  /\ dest \in [Libs -> Name]
  /\ dir = "absent" => \A b \in Libs : dest[b] = None
  /\ \A b \in Libs : dest[b] # None => \E m \in Images : Lib[m] = b
  /\ \A b \in Libs : dest[b] # None =>
       dest[b] \in Fresh({i \in Inodes : \A c \in Libs \ {b} : dest[c] # i})
  /\ \E ok \in BOOLEAN :
       file = [i \in Inodes |->
                 IF \E b \in Libs : dest[b] = i
                 THEN [lib |-> CHOOSE b \in Libs : dest[b] = i,
                       len |-> Size, ok |-> ok, synced |-> TRUE]
                 ELSE [lib |-> None, len |-> 0, ok |-> TRUE, synced |-> TRUE]]
  /\ leaky = FALSE
  /\ faults = MaxFaults

Goto(l, from, to) ==
  /\ pc[l] = from
  /\ pc' = [pc EXCEPT ![l] = to]

private == <<attempt, number, fd, mapped, got, sequence>>
shared == <<dest, tmp, file, dir, leaky, faults>>

-----------------------------------------------------------------------------
(* resolve_library_path, up to the cache file *)

\* Reads its own file, inspects the envelope and compares the target with the host's.
ReadCarrier(l) == Goto(l, "idle", "mkdir") /\ UNCHANGED <<private, shared>>

CreateDir(l) ==
  /\ Goto(l, "mkdir", "ckdir")
  /\ dir' = IF dir = "absent" THEN "owned" ELSE dir
  /\ UNCHANGED <<private, dest, tmp, file, leaky, faults>>

CheckDir(l) ==
  /\ Goto(l, "ckdir", IF dir = "owned" THEN "meta" ELSE "failed")
  /\ UNCHANGED <<private, shared>>

\* valid_cached_file: a missing file or one of another length is not valid.
Metadata(l, here, read, invalid) ==
  /\ Goto(l, here, IF Entry(l) # None /\ file[Entry(l)].len = Size THEN read ELSE invalid)
  /\ UNCHANGED <<private, shared>>

\* Mutant: the right length is enough.
ReadBytesTrustsLength(l, here, valid, invalid, error) ==
  /\ Goto(l, here, IF Entry(l) = None THEN error ELSE valid)
  /\ attempt' = [attempt EXCEPT ![l] = 0]
  /\ UNCHANGED <<number, fd, mapped, got, sequence, shared>>

\* valid_cached_file goes on to read it: now a missing file is an error.
ReadBytes(l, here, valid, invalid, error) ==
  /\ Goto(l, here, IF Entry(l) = None THEN error
                   ELSE IF Judge(file[Entry(l)], MyLib(l)) = "whole" THEN valid
                   ELSE invalid)
  /\ attempt' = [attempt EXCEPT ![l] = 0]
  /\ UNCHANGED <<number, fd, mapped, got, sequence, shared>>

\* Mutant: a cache file that does not match is an error, not a miss.
CheckWarmGivesUp(l) ==
  Metadata(l, "meta", "read", "open") \/ ReadBytes(l, "read", "ready", "failed", "failed")

\* First use, a hit or a miss; second use, on the file just written.
CheckWarm(l) ==
  Metadata(l, "meta", "read", "open") \/ ReadBytes(l, "read", "ready", "open", "failed")

CheckWritten(l) ==
  Metadata(l, "meta2", "read2", "failed") \/ ReadBytes(l, "read2", "ready", "failed", "failed")

\* Third use, after a refused rename: somebody else's file will do.
CheckOther(l) ==
  Metadata(l, "meta3", "read3", "failed") \/ ReadBytes(l, "read3", "meta2", "failed", "failed")

-----------------------------------------------------------------------------
(* write_atomic *)

\* Mutant: the cache file itself is written.
OpenTempInPlace(l) ==
  /\ Goto(l, "open", "write")
  /\ Entry(l) # None
  /\ fd' = [fd EXCEPT ![l] = Entry(l)]
  /\ file' = [file EXCEPT ![Entry(l)] =
                [lib |-> MyLib(l), len |-> 0, ok |-> TRUE, synced |-> FALSE]]
  /\ UNCHANGED <<attempt, number, mapped, got, sequence, dest, tmp, dir, leaky, faults>>

\* One turn of its loop: draw a number and create_new the name.
OpenTemp(l) ==
  LET m == Image[l]
      n == <<Pid[m], sequence[m]>>
  IN /\ attempt[l] < MaxAttempts
     /\ sequence' = [sequence EXCEPT ![m] = (@ + 1) % Wrap]
     /\ attempt' = [attempt EXCEPT ![l] = @ + 1]
     /\ \/ /\ dir # "absent" /\ tmp[n] = None
           /\ Goto(l, "open", "write")
           /\ number' = [number EXCEPT ![l] = sequence[m]]
           /\ \E i \in Fresh({j \in Inodes : ~InUse(j)}) :
                /\ tmp' = [tmp EXCEPT ![n] = i]
                /\ fd' = [fd EXCEPT ![l] = i]
                /\ file' = [file EXCEPT ![i] =
                              [lib |-> MyLib(l), len |-> 0, ok |-> TRUE, synced |-> FALSE]]
        \/ /\ dir # "absent" /\ tmp[n] # None
           /\ Goto(l, "open", "open")
           /\ UNCHANGED <<number, tmp, fd, file>>
        \/ /\ dir = "absent"
           /\ Goto(l, "open", "failed")
           /\ UNCHANGED <<number, tmp, fd, file>>
     /\ UNCHANGED <<mapped, got, dest, dir, leaky, faults>>

\* "cannot allocate a unique FFI cache temporary file"
AttemptsExhausted(l) ==
  /\ attempt[l] = MaxAttempts
  /\ Goto(l, "open", "failed")
  /\ UNCHANGED <<private, shared>>

\* Mutant: it does not stop at the end.
WriteTempPastEnd(l) ==
  /\ pc[l] = "write"
  /\ file' = [file EXCEPT ![fd[l]] =
                [lib |-> @.lib, len |-> @.len + 1, ok |-> @.ok, synced |-> FALSE]]
  /\ UNCHANGED <<pc, private, dest, tmp, dir, leaky, faults>>

WriteTemp(l) ==
  /\ pc[l] = "write"
  /\ file[fd[l]].len < Size
  /\ file' = [file EXCEPT ![fd[l]] =
                [lib |-> @.lib, len |-> @.len + 1, ok |-> @.ok, synced |-> FALSE]]
  /\ UNCHANGED <<pc, private, dest, tmp, dir, leaky, faults>>

SyncTemp(l) ==
  /\ Goto(l, "write", "rename")
  /\ file[fd[l]].len = Size
  /\ file' = [file EXCEPT ![fd[l]] =
                [lib |-> @.lib, len |-> @.len, ok |-> @.ok, synced |-> TRUE]]
  /\ fd' = [fd EXCEPT ![l] = None]
  /\ UNCHANGED <<attempt, number, mapped, got, sequence, dest, tmp, dir, leaky, faults>>

RenameRefused(l) ==
  \/ tmp[MyTemp(l)] = None
  \/ ~ReplaceMapped /\ Entry(l) # None /\ \E m \in Loaders : mapped[m] = Entry(l)

\* rename moves whatever inode the temporary's name leads to NOW.
Rename(l, refused) ==
  /\ \/ /\ ~RenameRefused(l)
        /\ Goto(l, "rename", "meta2")
        /\ dest' = [dest EXCEPT ![MyLib(l)] = tmp[MyTemp(l)]]
        /\ tmp' = [tmp EXCEPT ![MyTemp(l)] = None]
     \/ /\ RenameRefused(l)
        /\ Goto(l, "rename", refused)
        /\ UNCHANGED <<dest, tmp>>
  /\ UNCHANGED <<private, file, dir, leaky, faults>>

\* Mutant: a refused rename is final.
RenameTempFinal(l) == Rename(l, "discard")

RenameTemp(l) == Rename(l, "undo")

\* remove_file(&temp) after a failed write, or after a refused rename.
RemoveTemp(l) ==
  /\ Goto(l, "discard", "failed") \/ Goto(l, "undo", "meta3")
  /\ tmp' = [tmp EXCEPT ![MyTemp(l)] = None]
  /\ UNCHANGED <<private, dest, file, dir, leaky, faults>>

-----------------------------------------------------------------------------
(* The entry point sets libraryPath; the caller opens that path. *)

OpenLibrary(l) ==
  /\ \/ /\ Entry(l) # None
        /\ Goto(l, "ready", "loaded")
        /\ mapped' = [mapped EXCEPT ![l] = Entry(l)]
        /\ got' = [got EXCEPT ![l] = Judge(file[Entry(l)], MyLib(l))]
     \/ /\ Entry(l) = None
        /\ Goto(l, "ready", "failed")
        /\ UNCHANGED <<mapped, got>>
  /\ UNCHANGED <<attempt, number, fd, sequence, shared>>

Gone(S) ==
  /\ pc' = [l \in Loaders |-> IF l \in S THEN "idle" ELSE pc[l]]
  /\ fd' = [l \in Loaders |-> IF l \in S THEN None ELSE fd[l]]
  /\ mapped' = [l \in Loaders |-> IF l \in S THEN None ELSE mapped[l]]
  /\ got' = [l \in Loaders |-> IF l \in S THEN "none" ELSE got[l]]
  /\ attempt' = [l \in Loaders |-> IF l \in S THEN 0 ELSE attempt[l]]
  /\ number' = [l \in Loaders |-> IF l \in S THEN 0 ELSE number[l]]

Running(m) == {l \in Loaders : Image[l] = m}

\* The process ends and a new one is started: its sequence begins at 0 again.
Exit(m) ==
  /\ \A l \in Running(m) : pc[l] \in Finished
  /\ Gone(Running(m))
  /\ sequence' = [sequence EXCEPT ![m] = 0]
  /\ UNCHANGED <<setting, shared>>

-----------------------------------------------------------------------------
(* The environment.  Each step uses up one of MaxFaults. *)

Fault == faults > 0 /\ faults' = faults - 1

Crash(m) ==
  /\ \E l \in Running(m) : pc[l] \notin Finished \cup {"idle"}
  /\ Fault
  /\ Gone(Running(m))
  /\ sequence' = [sequence EXCEPT ![m] = 0]
  /\ leaky' = TRUE
  /\ UNCHANGED <<dest, tmp, file, dir>>

\* Mutant: a failed write leaves its temporary.
OnErrorKeeps(label) ==
  CASE label = "rename" -> "undo"
    [] label = "undo" -> "meta3"
    [] OTHER -> "failed"

\* Where an error of the call at each label leads.  Only a failed removal and the
\* check after a refused rename ignore theirs.
OnError(label) ==
  CASE label = "write" -> "discard"
    [] label = "rename" -> "undo"
    [] label = "undo" -> "meta3"
    [] OTHER -> "failed"

FailIO(l) ==
  /\ pc[l] \notin Finished
  /\ Fault
  /\ pc' = [pc EXCEPT ![l] = OnError(pc[l])]
  /\ fd' = [fd EXCEPT ![l] = None]
  /\ leaky' = (leaky \/ pc[l] \in {"discard", "undo"})
  /\ UNCHANGED <<attempt, number, mapped, got, sequence, dest, tmp, file, dir>>

DamageEntry ==
  /\ Fault
  /\ \E b \in {c \in Libs : dest[c] # None}, n \in 0 .. Size :
       file' = [file EXCEPT ![dest[b]] =
                  [lib |-> @.lib, len |-> n, ok |-> FALSE, synced |-> @.synced]]
  /\ UNCHANGED <<pc, private, dest, tmp, dir, leaky>>

CleanTmpdir ==
  /\ Fault
  /\ \/ /\ \E b \in Libs : dest[b] # None /\ dest' = [dest EXCEPT ![b] = None]
        /\ UNCHANGED <<tmp, dir>>
     \/ /\ CleanTemps
        /\ \E n \in TempNames : tmp[n] # None /\ tmp' = [tmp EXCEPT ![n] = None]
        /\ UNCHANGED <<dest, dir>>
     \/ /\ dir = "owned" /\ dir' = "absent"
        /\ \A b \in Libs : dest[b] = None
        /\ \A n \in TempNames : tmp[n] = None
        /\ UNCHANGED <<dest, tmp>>
  /\ UNCHANGED <<pc, private, file, leaky>>

PowerLoss ==
  /\ Fault
  /\ Gone(Loaders)
  /\ sequence' = [m \in Images |-> 0]
  /\ leaky' = TRUE
  /\ \E kept \in [{i \in Inodes : ~file[i].synced} -> 0 .. Size] :
       file' = [i \in Inodes |->
                  IF file[i].synced \/ kept[i] > file[i].len THEN file[i]
                  ELSE [file[i] EXCEPT !.len = kept[i]]]
  /\ UNCHANGED <<dest, tmp, dir>>

-----------------------------------------------------------------------------
Step(l) ==
  /\ \/ ReadCarrier(l) \/ CreateDir(l) \/ CheckDir(l)
     \/ CheckWarm(l) \/ CheckWritten(l) \/ CheckOther(l)
     \/ OpenTemp(l) \/ AttemptsExhausted(l) \/ WriteTemp(l) \/ SyncTemp(l)
     \/ RenameTemp(l) \/ RemoveTemp(l) \/ OpenLibrary(l)
  /\ UNCHANGED setting

Environment ==
  /\ \/ \E m \in Images : Crash(m)
     \/ \E l \in Loaders : FailIO(l)
     \/ DamageEntry \/ CleanTmpdir \/ PowerLoss
  /\ UNCHANGED setting

Next ==
  \/ \E l \in Loaders : Step(l)
  \/ \E m \in Images : Exit(m)
  \/ Environment

Spec == Init /\ [][Next]_vars

FairSpec ==
  /\ Spec
  /\ \A l \in Loaders : WF_vars(Step(l))
  /\ \A m \in Images : WF_vars(Exit(m))

-----------------------------------------------------------------------------
(* Properties *)

\* A caller never opens a half-written file nor another library's bytes, although
\* concurrent extractions may draw the same temporary names.
NeverLoadsTorn == \A l \in Loaders : got[l] \notin {"torn", "foreign"}

\* Loaders never make each other fail: while nothing has gone wrong around them and
\* the directory is sound, every load ends with the library, also where a file in use
\* cannot be replaced.
NoSpuriousFailure ==
  faults = MaxFaults /\ dir # "unsafe" => \A l \in Loaders : pc[l] # "failed"

\* Every temporary belongs to a running extraction unless a process died or a removal
\* failed ("It removes partial output when extraction fails", docs/commands.md).
NoTempLeftBehind ==
  ~leaky => \A n \in TempNames : tmp[n] # None =>
    \E l \in Loaders : MyTemp(l) = n /\ pc[l] \in {"write", "discard", "rename", "undo"}

\* The cache repairs itself once nothing more goes wrong, unless stale temporaries of
\* crashed processes use up every name an extraction may try.
EntriesHeal ==
  [](dir # "unsafe")
    => <>[](\A m \in Images :
              dest[Lib[m]] # None /\ Judge(file[dest[Lib[m]]], Lib[m]) = "whole")

-----------------------------------------------------------------------------
(* How the protocol maps to the atomic cell of AtomicEntry, for each library. *)

EntryOf(b) == IF dest[b] = None THEN "absent" ELSE Judge(file[dest[b]], b)

\* Loaders of other libraries never begin.
PhaseOf(b, l) ==
  CASE MyLib(l) # b -> "idle"
    [] MyLib(l) = b /\ pc[l] \in {"idle", "loaded", "ready"} -> pc[l]
    [] MyLib(l) = b /\ pc[l] = "failed" -> "fallback"
    [] OTHER -> "busy"

GotOf(b, l) == IF MyLib(l) = b THEN got[l] ELSE "none"

Cell(b) == INSTANCE AtomicEntry
             WITH entry <- EntryOf(b), phase <- [l \in Loaders |-> PhaseOf(b, l)],
                  got <- [l \in Loaders |-> GotOf(b, l)]

\* Every load sees its library's cache file as one cell of AtomicEntry: what a caller
\* opens is the whole library, or was damaged after this load had verified it in place.
\* (Cell(b)!Spec for every b, in the form TLC checks.)
ImplementsCell ==
  /\ \A b \in Libs : Cell(b)!Init
  /\ [][\A b \in Libs : [Cell(b)!Next]_(Cell(b)!vars)]_vars
=============================================================================
