---------------------------- MODULE BuildOutput ----------------------------
(***************************************************************************)
(* The output file of the producer commands and how it is written:         *)
(* `abi build' with and without --compress (cargo, copy_artifact,          *)
(* compress_node in place), `abitious-producer' (compress_node) and        *)
(* `abi pack-ffi' (compress_ffi), each with its own write_atomic.  Builds  *)
(* are processes that share one output path; an application may dlopen     *)
(* what is there at any moment; a build may die, meet an I/O error, or go  *)
(* down with the machine.                                                  *)
(*                                                                         *)
(* A file is what it holds, of which version of the source, and how many   *)
(* of its Length units have been written.  Temporaries have names of their *)
(* own (process id, and a sequence number for compress_ffi); one that      *)
(* compress_node left behind is truncated by the next process with its id, *)
(* one that compress_ffi left behind keeps its name taken.  A power loss   *)
(* keeps the names and loses any suffix of data that was not synced.       *)
(***************************************************************************)
EXTENDS Integers, FiniteSets

CONSTANTS
    Builds,        \* the build processes, each with a process id of its own
    Settings,      \* the settings (below) they may run in
    Length,        \* units of data in a file
    Attempts,      \* names compress_ffi tries for its temporary (128 in the code)
    MaxRuns,       \* bound: commands started
    MaxFaults,     \* bound: faults
    MaxEdits       \* bound: edits of the source

ASSUME LengthAssumption == Length \in Nat \ {0}
ASSUME BoundsAssumption == {Attempts, MaxRuns, MaxFaults, MaxEdits} \subseteq Nat

Commands == {"abi", "abi-raw", "producer", "pack"}
Building == {"abi", "abi-raw"}

(* A setting says who builds, what they run, on which system ("posix" or   *)
(* "win32": whether a loaded file can be replaced), and what can go wrong. *)
ASSUME SettingsAssumption ==
    Settings \subseteq [builds : SUBSET Builds, jobs : SUBSET Commands,
                        system : {"posix", "win32"},
                        faults : SUBSET {"crash", "io", "power"}]

VARIABLES
    setting,    \* the setting; it never changes
    source,     \* version of the source tree
    artifact,   \* version cargo last built into target/
    out,        \* the file at the output path
    mapped,     \* an application has loaded the file that is at the output path
    job,        \* the command each build runs
    pc,         \* its next step
    input,      \* version of the addon it compresses
    temp,       \* the temporary it made
    litter,     \* compress_ffi's temporaries left behind under its process id
    runs, faults

vars == <<setting, source, artifact, out, mapped, job, pc, input, temp, litter,
          runs, faults>>

File(what, ver, len, synced) ==
    [what |-> what, ver |-> ver, len |-> len, synced |-> synced]
NoFile == File("none", 0, 0, TRUE)

Exists(f) == f.what # "none"
Whole(f) == f.len = Length

Product(j) == CASE j = "abi-raw" -> "raw" [] j = "pack" -> "carrier" [] OTHER -> "hybrid"

Finished == {"idle", "ok", "failed"}
Active(b) == pc[b] \notin Finished
Writing == {"write", "sync", "rename"}

Init ==
    /\ setting \in Settings
    /\ source = 1 /\ artifact = 0
    /\ out \in {NoFile, File("old", 0, Length, TRUE)}
    /\ mapped = FALSE
    /\ job = [b \in Builds |-> "producer"]
    /\ pc = [b \in Builds |-> "idle"]
    /\ input = [b \in Builds |-> 0]
    /\ temp = [b \in Builds |-> NoFile]
    /\ litter = [b \in Builds |-> 0]
    /\ runs = 0 /\ faults = 0

Goto(b, step) == pc' = [pc EXCEPT ![b] = step]
At(b, step) == pc[b] = step

----------------------------------------------------------------------------
(* Steps of a command.                                                     *)

(* `abi build' goes to cargo, the others straight to their input.          *)
Begin(b) ==
    /\ b \in setting.builds /\ runs < MaxRuns /\ ~Active(b)
    /\ runs' = runs + 1
    /\ \E j \in setting.jobs :
         /\ job' = [job EXCEPT ![b] = j]
         /\ Goto(b, IF j \in Building THEN "cargo" ELSE "read")
    /\ temp' = [temp EXCEPT ![b] = NoFile]
    /\ UNCHANGED <<setting, source, artifact, out, mapped, input, litter, faults>>

Cargo(b) ==
    /\ At(b, "cargo")
    /\ artifact' = source
    /\ Goto(b, "remove")
    /\ UNCHANGED <<setting, source, out, mapped, job, input, temp, litter, runs, faults>>

CanReplace == setting.system = "posix" \/ ~mapped

(* Mutant: the stale output stays and is overwritten in place.             *)
KeepStale(b) ==
    /\ At(b, "remove")
    /\ Goto(b, "copy")
    /\ UNCHANGED <<setting, source, artifact, out, mapped, job, input, temp, litter,
                   runs, faults>>

(* Mutant: an output that is there counts as the copy.                     *)
CopyOnlyIfMissing(b) ==
    /\ At(b, "remove")
    /\ Goto(b, IF ~Exists(out) THEN "copy" ELSE IF job[b] = "abi" THEN "read" ELSE "ok")
    /\ UNCHANGED <<setting, source, artifact, out, mapped, job, input, temp, litter,
                   runs, faults>>

(* copy_artifact removes a stale output first: the copy makes a new file   *)
(* rather than truncate one that may be loaded.                            *)
RemoveStale(b) ==
    /\ At(b, "remove")
    /\ IF CanReplace
       THEN out' = NoFile /\ mapped' = FALSE /\ Goto(b, "copy")
       ELSE UNCHANGED <<out, mapped>> /\ Goto(b, "failed")
    /\ UNCHANGED <<setting, source, artifact, job, input, temp, litter, runs, faults>>

OpenCopy(b) ==
    /\ At(b, "copy")
    /\ out' = File("raw", artifact, 0, FALSE)
    /\ Goto(b, "copying")
    /\ UNCHANGED <<setting, source, artifact, mapped, job, input, temp, litter,
                   runs, faults>>

Copy(b) ==
    /\ At(b, "copying")
    /\ IF Whole(out)
       THEN /\ Goto(b, IF job[b] = "abi" THEN "read" ELSE "ok")
            /\ UNCHANGED out
       ELSE /\ out' = [out EXCEPT !.len = @ + 1]
            /\ UNCHANGED pc
    /\ UNCHANGED <<setting, source, artifact, mapped, job, input, temp, litter,
                   runs, faults>>

(* compress_node of `abi build' reads the copy at the output path, the     *)
(* other commands the library they are given; then the section is built    *)
(* and injected in memory.                                                 *)
Read(b) ==
    /\ At(b, "read")
    /\ IF job[b] = "abi" /\ ~Exists(out)
       THEN UNCHANGED input /\ Goto(b, "failed")
       ELSE /\ input' = [input EXCEPT ![b] = IF job[b] = "abi" THEN out.ver ELSE artifact]
            /\ Goto(b, "open")
    /\ UNCHANGED <<setting, source, artifact, out, mapped, job, temp, litter,
                   runs, faults>>

(* Mutant: compress_ffi gives up on the first name that is taken.          *)
OpenTempOnce(b) ==
    /\ At(b, "open")
    /\ IF job[b] = "pack" /\ litter[b] > 0
       THEN UNCHANGED temp /\ Goto(b, "failed")
       ELSE /\ temp' = [temp EXCEPT ![b] = File(Product(job[b]), input[b], 0, FALSE)]
            /\ Goto(b, "write")
    /\ UNCHANGED <<setting, source, artifact, out, mapped, job, input, litter,
                   runs, faults>>

(* compress_node truncates whatever has its temporary's name; compress_ffi *)
(* creates a new one, trying the next sequence number if the name is taken *)
(* by what an earlier process with this id left.                           *)
OpenTemp(b) ==
    /\ At(b, "open")
    /\ IF job[b] = "pack" /\ litter[b] >= Attempts
       THEN UNCHANGED temp /\ Goto(b, "failed")
       ELSE /\ temp' = [temp EXCEPT ![b] = File(Product(job[b]), input[b], 0, FALSE)]
            /\ Goto(b, "write")
    /\ UNCHANGED <<setting, source, artifact, out, mapped, job, input, litter,
                   runs, faults>>

AfterWrite(b) == IF job[b] = "pack" THEN "sync" ELSE "rename"

WriteTemp(b) ==
    /\ At(b, "write")
    /\ IF Whole(temp[b])
       THEN UNCHANGED temp /\ Goto(b, AfterWrite(b))
       ELSE temp' = [temp EXCEPT ![b].len = @ + 1] /\ UNCHANGED pc
    /\ UNCHANGED <<setting, source, artifact, out, mapped, job, input, litter,
                   runs, faults>>

(* Mutant: compress_ffi renames without sync_all.                          *)
SyncNothing(b) ==
    /\ At(b, "sync")
    /\ Goto(b, "rename")
    /\ UNCHANGED <<setting, source, artifact, out, mapped, job, input, temp, litter,
                   runs, faults>>

(* Only compress_ffi syncs.                                                *)
SyncTemp(b) ==
    /\ At(b, "sync")
    /\ temp' = [temp EXCEPT ![b].synced = TRUE]
    /\ Goto(b, "rename")
    /\ UNCHANGED <<setting, source, artifact, out, mapped, job, input, litter,
                   runs, faults>>

(* Mutant: compress_ffi returns the error and forgets its temporary.       *)
KeepTemp(b) == UNCHANGED temp

(* What the two write_atomic leave of the temporary when they fail:        *)
(* compress_ffi removes it, compress_node does not.                        *)
DropTemp(b) == temp' = [temp EXCEPT ![b] = IF job[b] = "pack" THEN NoFile ELSE @]

Rename(b) ==
    /\ At(b, "rename")
    /\ IF CanReplace
       THEN /\ out' = temp[b] /\ mapped' = FALSE
            /\ temp' = [temp EXCEPT ![b] = NoFile]
            /\ Goto(b, "ok")
       ELSE DropTemp(b) /\ Goto(b, "failed") /\ UNCHANGED <<out, mapped>>
    /\ UNCHANGED <<setting, source, artifact, job, input, litter, runs, faults>>

Step(b) ==
    \/ Cargo(b) \/ RemoveStale(b) \/ OpenCopy(b) \/ Copy(b) \/ Read(b)
    \/ OpenTemp(b) \/ WriteTemp(b) \/ SyncTemp(b) \/ Rename(b)

----------------------------------------------------------------------------
(* Faults.                                                                 *)

Fault(kind) == kind \in setting.faults /\ faults < MaxFaults /\ faults' = faults + 1

(* Any step may fail: cargo, a stub that cannot take the section, or I/O.  *)
(* The error is returned at once and nothing but the temporary is touched. *)
Fail(b) ==
    /\ Fault("io") /\ Active(b)
    /\ DropTemp(b)
    /\ Goto(b, "failed")
    /\ UNCHANGED <<setting, source, artifact, out, mapped, job, input, litter, runs>>

Orphan(bs) ==
    /\ temp' = [b \in Builds |-> IF b \in bs THEN NoFile ELSE temp[b]]
    /\ litter' = [b \in Builds |->
                    IF b \in bs /\ pc[b] \in Writing /\ job[b] = "pack"
                    THEN litter[b] + 1 ELSE litter[b]]
    /\ pc' = [b \in Builds |-> IF b \in bs THEN "idle" ELSE pc[b]]

Crash(b) ==
    /\ Fault("crash") /\ Active(b)
    /\ Orphan({b})
    /\ UNCHANGED <<setting, source, artifact, out, mapped, job, input, runs>>

PowerLoss ==
    /\ Fault("power")
    /\ Orphan(Builds)
    /\ mapped' = FALSE
    /\ \E len \in IF out.synced THEN {out.len} ELSE 0..out.len :
         out' = [out EXCEPT !.len = len, !.synced = TRUE]
    /\ UNCHANGED <<setting, source, artifact, job, input, runs>>

----------------------------------------------------------------------------
(* The developer edits; applications load what they find and exit.         *)

Edit ==
    /\ source <= MaxEdits
    /\ source' = source + 1
    /\ UNCHANGED <<setting, artifact, out, mapped, job, pc, input, temp, litter,
                   runs, faults>>

Load ==
    /\ Exists(out) /\ Whole(out) /\ ~mapped
    /\ mapped' = TRUE
    /\ UNCHANGED <<setting, source, artifact, out, job, pc, input, temp, litter,
                   runs, faults>>

Unload ==
    /\ mapped
    /\ mapped' = FALSE
    /\ UNCHANGED <<setting, source, artifact, out, job, pc, input, temp, litter,
                   runs, faults>>

Next ==
    \/ \E b \in Builds : Begin(b) \/ Step(b) \/ Fail(b) \/ Crash(b)
    \/ PowerLoss \/ Edit \/ Load \/ Unload

Spec == Init /\ [][Next]_vars

(* A command that was started is scheduled until it ends.                  *)
Fairness == \A b \in Builds : WF_vars(Step(b))
FairSpec == Spec /\ Fairness

----------------------------------------------------------------------------
(* Properties.                                                             *)

Files == [what : {"none", "old", "raw", "hybrid", "carrier"},
          ver : 0..MaxEdits + 1, len : 0..Length, synced : BOOLEAN]

(* Every variable has its type, and a build that is about to write, sync   *)
(* or rename its temporary has one: write_atomic renames once.             *)
TypeOK ==
    /\ setting \in Settings /\ source \in 1..MaxEdits + 1 /\ artifact \in 0..source
    /\ out \in Files /\ mapped \in BOOLEAN
    /\ job \in [Builds -> Commands]
    /\ pc \in [Builds -> Finished \union Writing
                            \union {"cargo", "remove", "copy", "copying", "read", "open"}]
    /\ input \in [Builds -> 0..MaxEdits + 1]
    /\ temp \in [Builds -> Files]
    /\ litter \in [Builds -> 0..MaxFaults]
    /\ \A b \in Builds : pc[b] \in Writing => Exists(temp[b])

(* The commands that write the output by a rename only, of which only      *)
(* compress_ffi is asked to stand a power loss.                            *)
AtomicCommands ==
    /\ setting.jobs \subseteq {"producer", "pack"}
    /\ "power" \in setting.faults => setting.jobs \subseteq {"pack"}

(* One build after the other.                                              *)
Alone == \A b, c \in setting.builds : b = c

BeforeTemp == {"cargo", "remove", "copy", "copying", "read", "open"}

(* A temporary exists only while it is written or after a failure.         *)
TempsAccounted ==
    /\ faults \in 0..MaxFaults
    /\ \A b \in Builds :
         /\ litter[b] <= faults
         /\ pc[b] \in BeforeTemp \union {"ok"} => ~Exists(temp[b])
         /\ pc[b] = "failed" /\ job[b] = "pack" => ~Exists(temp[b])

(* What is about to be renamed is whole, and compress_ffi has synced it.   *)
RenamesAreReady ==
    \A b \in Builds :
        /\ pc[b] \in {"sync", "rename"} => Whole(temp[b])
        /\ pc[b] = "rename" /\ job[b] = "pack" => temp[b].synced

(* As long as nobody copies in place, what was renamed stays as it was.    *)
OutputIsRenamed ==
    AtomicCommands =>
        /\ Exists(out) => Whole(out) /\ ("power" \in setting.faults => out.synced)
        /\ \A b \in Builds :
             /\ pc[b] \notin {"cargo", "remove", "copy", "copying"}
             /\ Active(b) => job[b] \in setting.jobs

(* Why the promises below hold.                                            *)
IInv == TypeOK /\ TempsAccounted /\ RenamesAreReady /\ OutputIsRenamed

(* The producers promise never to leave a partial output at the final path *)
(* (producer lib.rs:180, 302): whatever is there is whole, while builds    *)
(* overlap on it, fail half-way or die.  A power loss is compress_ffi's    *)
(* alone to stand.                                                         *)
OutNeverPartial == AtomicCommands => (Exists(out) => Whole(out))

(* A command that succeeds has no temporary left beside the output, and    *)
(* compress_ffi (producer ffi.rs:161) none when it fails either, whichever *)
(* of its steps it was that failed.                                        *)
NoTempLeft ==
    \A b \in Builds :
        pc[b] = "ok" \/ (pc[b] = "failed" /\ job[b] = "pack") => ~Exists(temp[b])

(* A command that reports success has left at the output path what its     *)
(* receipt says: the whole product of its own kind, of the version that    *)
(* was built last, not what an earlier or interrupted build left there.    *)
ReceiptIsTrue ==
    Alone => \A b \in Builds : pc[b] = "ok" =>
        /\ Whole(out) /\ out.what = Product(job[b])
        /\ out.ver = artifact

(* An application that has loaded the output keeps the bytes it mapped:    *)
(* a later build replaces the file and never writes into it, unless two    *)
(* abi builds copy to one output at a time.                                *)
AppsUndisturbed ==
    [][(Alone \/ AtomicCommands) /\ mapped /\ mapped' => out' = out]_vars

(* Whatever earlier builds left behind (a partial copy at the output path, *)
(* stale temporaries under the same process id), a command that meets no   *)
(* further fault ends in success.                                          *)
RunsSucceed ==
    \A b \in Builds :
        Alone /\ setting.system = "posix" /\ faults = MaxFaults /\ Active(b)
            ~> pc[b] = "ok"
============================================================================
