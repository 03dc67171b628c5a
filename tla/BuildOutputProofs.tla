------------------------- MODULE BuildOutputProofs -------------------------
(***************************************************************************)
(* Proofs about BuildOutput, for any builds, commands, file lengths and    *)
(* budgets of faults, overlapping or not.  That the output is never        *)
(* partial is proved for the commands that promise it (AtomicCommands).    *)
(***************************************************************************)
EXTENDS BuildOutput, TLAPS

LEMMA Bounds ==
    /\ Attempts \in Nat /\ MaxFaults \in Nat /\ MaxEdits \in Nat
    /\ Length \in Nat \ {0}
  BY BoundsAssumption, LengthAssumption

----------------------------------------------------------------------------
(* The operations on files, so that a step need not look inside a record.  *)

Kinds == {"old", "raw", "hybrid", "carrier"}
Versions == 0..MaxEdits + 1

LEMMA NoFileFacts == NoFile \in Files /\ ~Exists(NoFile)
  BY Bounds DEF NoFile, File, Files, Exists

LEMMA FileFacts ==
  ASSUME NEW what \in Kinds, NEW ver \in Versions, NEW len \in 0..Length,
         NEW synced \in BOOLEAN
  PROVE  /\ File(what, ver, len, synced) \in Files
         /\ Exists(File(what, ver, len, synced))
         /\ File(what, ver, len, synced).len = len
         /\ File(what, ver, len, synced).synced = synced
  BY DEF File, Files, Exists, Kinds, Versions

LEMMA VersionFacts ==
  ASSUME NEW f \in Files
  PROVE  f.ver \in Versions /\ f.len \in 0..Length /\ f.synced \in BOOLEAN
  BY DEF Files, Versions

LEMMA GrownFacts ==
  ASSUME NEW f \in Files, ~Whole(f), NEW g, g = [f EXCEPT !.len = @ + 1]
  PROVE  g \in Files /\ g.synced = f.synced /\ (Exists(g) <=> Exists(f))
  BY Bounds DEF Whole, Files, Exists

LEMMA SyncedFacts ==
  ASSUME NEW f \in Files, NEW g, g = [f EXCEPT !.synced = TRUE]
  PROVE  g \in Files /\ g.len = f.len /\ g.synced /\ (Exists(g) <=> Exists(f))
  BY Bounds DEF Files, Exists

LEMMA CutFacts ==
  ASSUME NEW f \in Files, NEW len \in 0..f.len
  PROVE  LET g == [f EXCEPT !.len = len, !.synced = TRUE]
         IN  g \in Files /\ g.len = len /\ g.synced /\ (Exists(g) <=> Exists(f))
  <1> DEFINE h == [f EXCEPT !.len = len]
             g == [f EXCEPT !.len = len, !.synced = TRUE]
  <1>1. len \in 0..Length
    BY Bounds, VersionFacts
  <1>2. h \in Files /\ h.len = len /\ (Exists(h) <=> Exists(f))
    BY <1>1 DEF Files, Exists
  <1>3. g = [h EXCEPT !.synced = TRUE]
    BY DEF Files
  <1> HIDE DEF h, g
  <1>4. g \in Files /\ g.len = len /\ g.synced /\ (Exists(g) <=> Exists(f))
    BY <1>2, <1>3, SyncedFacts
  <1> QED
    BY <1>4 DEF g

LEMMA SettingFacts == ASSUME NEW s \in Settings PROVE s.jobs \subseteq Commands
  BY SettingsAssumption

LEMMA ProductFacts == ASSUME NEW j PROVE Product(j) \in Kinds
  BY DEF Product, Kinds

----------------------------------------------------------------------------
(* The invariant.                                                          *)

LEMMA InitInductive == Init => IInv
  <1> SUFFICES ASSUME Init PROVE IInv
    OBVIOUS
  <1> USE Bounds, NoFileFacts DEF Init
  <1>1. out \in Files /\ (Exists(out) => Whole(out) /\ out.synced)
    <2>1. Length \in 0..Length /\ 0 \in Versions /\ "old" \in Kinds
      BY DEF Versions, Kinds
    <2> DEFINE old == File("old", 0, Length, TRUE)
    <2>2. old \in Files /\ Whole(old) /\ old.synced
      BY <2>1, FileFacts DEF Whole
    <2> QED
      BY <2>2
  <1>2. TypeOK
    <2>1. /\ setting \in Settings /\ source \in 1..MaxEdits + 1 /\ artifact \in 0..source
      OBVIOUS
    <2>5. mapped \in BOOLEAN /\ job \in [Builds -> Commands]
      BY DEF Commands
    <2>4. input \in [Builds -> 0..MaxEdits + 1]
      OBVIOUS
    <2>2. pc \in [Builds -> Finished] /\ \A b \in Builds : pc[b] \notin Writing
      BY DEF Finished, Writing
    <2>3. temp \in [Builds -> Files] /\ litter \in [Builds -> 0..MaxFaults]
      OBVIOUS
    <2> QED
      BY <1>1, <2>1, <2>2, <2>3, <2>4, <2>5 DEF TypeOK
  <1>3. TempsAccounted /\ RenamesAreReady /\ OutputIsRenamed
    BY <1>1 DEF TempsAccounted, RenamesAreReady, OutputIsRenamed, BeforeTemp, Active, Finished
  <1> QED
    BY <1>2, <1>3 DEF IInv

LEMMA NextInductive ==
  ASSUME IInv, [Next]_vars
  PROVE  IInv'
  <1> USE Bounds, NoFileFacts, SettingFacts
  <1> USE DEF IInv, TypeOK, TempsAccounted, RenamesAreReady, OutputIsRenamed, AtomicCommands,
        BeforeTemp, Goto, At, Fault, Whole, Finished, Writing, Active
  <1>1. ASSUME NEW b \in Builds, Begin(b) PROVE IInv'
    <2>1. TypeOK'
      BY <1>1 DEF Begin, Building
    <2>2. TempsAccounted'
      BY <1>1 DEF Begin, Building
    <2>3. RenamesAreReady'
      BY <1>1 DEF Begin, Building
    <2>4. OutputIsRenamed'
      BY <1>1 DEF Begin, Building
    <2> QED
      BY <2>1, <2>2, <2>3, <2>4
  <1>2. ASSUME NEW b \in Builds, Cargo(b) PROVE IInv'
    <2>1. TypeOK'
      BY <1>2 DEF Cargo
    <2>2. TempsAccounted'
      BY <1>2 DEF Cargo
    <2>3. RenamesAreReady'
      BY <1>2 DEF Cargo
    <2>4. OutputIsRenamed'
      BY <1>2 DEF Cargo
    <2> QED
      BY <2>1, <2>2, <2>3, <2>4
  <1>3. ASSUME NEW b \in Builds, RemoveStale(b) PROVE IInv'
    <2>1. TypeOK'
      BY <1>3 DEF RemoveStale
    <2>2. TempsAccounted'
      BY <1>3 DEF RemoveStale
    <2>3. RenamesAreReady'
      BY <1>3 DEF RemoveStale
    <2>4. OutputIsRenamed'
      BY <1>3 DEF RemoveStale
    <2> QED
      BY <2>1, <2>2, <2>3, <2>4
  <1>4. ASSUME NEW b \in Builds, OpenCopy(b) PROVE IInv'
    <2>1. out' \in Files /\ Exists(out')
      <3>1. artifact \in Versions /\ 0 \in 0..Length /\ "raw" \in Kinds
        BY DEF Versions, Kinds
      <3> QED
        BY <1>4, <3>1, FileFacts DEF OpenCopy
    <2>2. TypeOK'
      BY <1>4, <2>1 DEF OpenCopy
    <2>3. TempsAccounted'
      BY <1>4, <2>1 DEF OpenCopy
    <2>4. RenamesAreReady'
      BY <1>4, <2>1 DEF OpenCopy
    <2>5. OutputIsRenamed'
      BY <1>4, <2>1 DEF OpenCopy
    <2> QED
      BY <2>2, <2>3, <2>4, <2>5
  <1>5. ASSUME NEW b \in Builds, Copy(b) PROVE IInv'
    <2>1. out' \in Files
      BY <1>5, GrownFacts DEF Copy
    <2>2. TypeOK'
      BY <1>5, <2>1 DEF Copy
    <2>3. TempsAccounted'
      BY <1>5, <2>1 DEF Copy
    <2>4. RenamesAreReady'
      BY <1>5, <2>1 DEF Copy
    <2>5. OutputIsRenamed'
      BY <1>5, <2>1 DEF Copy
    <2> QED
      BY <2>2, <2>3, <2>4, <2>5
  <1>6. ASSUME NEW b \in Builds, Read(b) PROVE IInv'
    <2>1. input'[b] \in Versions
      BY <1>6, VersionFacts DEF Read, Versions
    <2>2. TypeOK'
      BY <1>6, <2>1 DEF Read, Versions
    <2>3. TempsAccounted'
      BY <1>6, <2>1 DEF Read, Versions
    <2>4. RenamesAreReady'
      BY <1>6, <2>1 DEF Read, Versions
    <2>5. OutputIsRenamed'
      BY <1>6, <2>1 DEF Read, Versions
    <2> QED
      BY <2>2, <2>3, <2>4, <2>5
  <1>7. ASSUME NEW b \in Builds, OpenTemp(b) PROVE IInv'
    <2>1. /\ temp' = [temp EXCEPT ![b] = temp'[b]]
          /\ temp'[b] \in Files
          /\ pc'[b] = "write" => Exists(temp'[b])
          /\ pc'[b] = "failed" => ~Exists(temp'[b])
      <3>1. input[b] \in Versions /\ 0 \in 0..Length /\ Product(job[b]) \in Kinds
        BY ProductFacts DEF Versions
      <3> DEFINE new == File(Product(job[b]), input[b], 0, FALSE)
      <3>2. new \in Files /\ Exists(new)
        BY <3>1, FileFacts
      <3> HIDE DEF new
      <3>3. \/ UNCHANGED temp /\ pc'[b] = "failed"
            \/ temp' = [temp EXCEPT ![b] = new] /\ pc'[b] = "write"
        BY <1>7 DEF OpenTemp, new
      <3>4. ~Exists(temp[b])
        BY <1>7 DEF OpenTemp
      <3> QED
        BY <3>2, <3>3, <3>4
    <2>2. /\ pc[b] = "open" /\ pc' = [pc EXCEPT ![b] = pc'[b]]
          /\ pc'[b] \in {"failed", "write"}
          /\ UNCHANGED <<setting, source, artifact, out, mapped, job, input, litter, faults>>
      BY <1>7 DEF OpenTemp
    <2>3. TypeOK'
      BY <2>1, <2>2
    <2>4. TempsAccounted'
      BY <2>1, <2>2
    <2>5. RenamesAreReady'
      BY <2>1, <2>2
    <2>6. OutputIsRenamed'
      BY <2>1, <2>2
    <2> QED
      BY <2>3, <2>4, <2>5, <2>6
  <1>8. ASSUME NEW b \in Builds, WriteTemp(b) PROVE IInv'
    <2>1. temp'[b] \in Files /\ Exists(temp'[b])
      BY <1>8, GrownFacts DEF WriteTemp
    <2>2. TypeOK'
      BY <1>8, <2>1 DEF WriteTemp, AfterWrite
    <2>3. TempsAccounted'
      BY <1>8, <2>1 DEF WriteTemp, AfterWrite
    <2>4. RenamesAreReady'
      BY <1>8, <2>1 DEF WriteTemp, AfterWrite
    <2>5. OutputIsRenamed'
      BY <1>8, <2>1 DEF WriteTemp, AfterWrite
    <2> QED
      BY <2>2, <2>3, <2>4, <2>5
  <1>9. ASSUME NEW b \in Builds, SyncTemp(b) PROVE IInv'
    <2>1. /\ temp'[b] \in Files /\ Exists(temp'[b])
          /\ temp'[b].len = temp[b].len /\ temp'[b].synced
      BY <1>9, SyncedFacts DEF SyncTemp
    <2>2. TypeOK'
      BY <1>9, <2>1 DEF SyncTemp
    <2>3. TempsAccounted'
      BY <1>9, <2>1 DEF SyncTemp
    <2>4. RenamesAreReady'
      BY <1>9, <2>1 DEF SyncTemp
    <2>5. OutputIsRenamed'
      BY <1>9, <2>1 DEF SyncTemp
    <2> QED
      BY <2>2, <2>3, <2>4, <2>5
  <1>10. ASSUME NEW b \in Builds, Rename(b) PROVE IInv'
    <2>1. TypeOK'
      <3>1. out' \in Files
        BY <1>10 DEF Rename
      <3>2. temp' = [temp EXCEPT ![b] = temp'[b]] /\ temp'[b] \in Files
        BY <1>10 DEF Rename, DropTemp
      <3>3. pc' = [pc EXCEPT ![b] = pc'[b]] /\ pc'[b] \in Finished
        BY <1>10 DEF Rename
      <3>4. mapped' \in BOOLEAN
            /\ UNCHANGED <<setting, source, artifact, job, input, litter>>
        BY <1>10 DEF Rename
      <3> QED
        BY <3>1, <3>2, <3>3, <3>4
    <2>2. TempsAccounted'
      BY <1>10 DEF Rename, DropTemp
    <2>3. RenamesAreReady'
      BY <1>10 DEF Rename, DropTemp
    <2>4. OutputIsRenamed'
      BY <1>10 DEF Rename, DropTemp
    <2> QED
      BY <2>1, <2>2, <2>3, <2>4
  <1>11. ASSUME NEW b \in Builds, Fail(b) PROVE IInv'
    <2>1. TypeOK'
      BY <1>11 DEF Fail, DropTemp
    <2>2. TempsAccounted'
      BY <1>11 DEF Fail, DropTemp
    <2>3. RenamesAreReady'
      BY <1>11 DEF Fail, DropTemp
    <2>4. OutputIsRenamed'
      BY <1>11 DEF Fail, DropTemp
    <2> QED
      BY <2>1, <2>2, <2>3, <2>4
  <1>12. ASSUME NEW b \in Builds, Crash(b) PROVE IInv'
    <2>1. TypeOK'
      BY <1>12 DEF Crash, Orphan
    <2>2. TempsAccounted'
      BY <1>12 DEF Crash, Orphan
    <2>3. RenamesAreReady'
      BY <1>12 DEF Crash, Orphan
    <2>4. OutputIsRenamed'
      BY <1>12 DEF Crash, Orphan
    <2> QED
      BY <2>1, <2>2, <2>3, <2>4
  <1>13. CASE PowerLoss
    <2>1. /\ out' \in Files /\ (Exists(out') <=> Exists(out))
          /\ out'.synced /\ (out.synced => out'.len = out.len)
      <3>1. PICK len \in IF out.synced THEN {out.len} ELSE 0..out.len :
                 out' = [out EXCEPT !.len = len, !.synced = TRUE]
        BY <1>13 DEF PowerLoss
      <3>2. out.len \in 0..Length /\ out.synced \in BOOLEAN
        BY VersionFacts
      <3>3. len \in 0..out.len
        BY <3>1, <3>2
      <3>4. out' \in Files /\ out'.len = len /\ out'.synced /\ (Exists(out') <=> Exists(out))
        <4> DEFINE cut == [out EXCEPT !.len = len, !.synced = TRUE]
        <4>1. /\ cut \in Files /\ cut.len = len /\ cut.synced
              /\ (Exists(cut) <=> Exists(out))
          BY <3>3, CutFacts
        <4> HIDE DEF cut
        <4> QED
          BY <3>1, <4>1 DEF cut
      <3> QED
        BY <3>1, <3>4
    <2>2. TypeOK'
      <3>1. temp' = [b \in Builds |-> NoFile] /\ pc' = [b \in Builds |-> "idle"]
        BY <1>13 DEF PowerLoss, Orphan
      <3>2. litter' \in [Builds -> 0..MaxFaults]
        <4>1. \A b \in Builds : litter[b] \in 0..MaxFaults - 1
          BY <1>13 DEF PowerLoss
        <4> QED
          BY <1>13, <4>1 DEF PowerLoss, Orphan
      <3>3. mapped' = FALSE /\ UNCHANGED <<setting, source, artifact, job, input>>
        BY <1>13 DEF PowerLoss
      <3> QED
        BY <2>1, <3>1, <3>2, <3>3
    <2>3. TempsAccounted'
      BY <1>13, <2>1 DEF PowerLoss, Orphan
    <2>4. RenamesAreReady'
      BY <1>13, <2>1 DEF PowerLoss, Orphan
    <2>5. OutputIsRenamed'
      BY <1>13, <2>1 DEF PowerLoss, Orphan
    <2> QED
      BY <2>2, <2>3, <2>4, <2>5
  <1>14. CASE Edit
    <2>1. TypeOK'
      BY <1>14 DEF Edit
    <2>2. TempsAccounted'
      BY <1>14 DEF Edit
    <2>3. RenamesAreReady'
      BY <1>14 DEF Edit
    <2>4. OutputIsRenamed'
      BY <1>14 DEF Edit
    <2> QED
      BY <2>1, <2>2, <2>3, <2>4
  <1>15. CASE Load
    <2>1. TypeOK'
      BY <1>15 DEF Load
    <2>2. TempsAccounted'
      BY <1>15 DEF Load
    <2>3. RenamesAreReady'
      BY <1>15 DEF Load
    <2>4. OutputIsRenamed'
      BY <1>15 DEF Load
    <2> QED
      BY <2>1, <2>2, <2>3, <2>4
  <1>16. CASE Unload
    <2>1. TypeOK'
      BY <1>16 DEF Unload
    <2>2. TempsAccounted'
      BY <1>16 DEF Unload
    <2>3. RenamesAreReady'
      BY <1>16 DEF Unload
    <2>4. OutputIsRenamed'
      BY <1>16 DEF Unload
    <2> QED
      BY <2>1, <2>2, <2>3, <2>4
  <1>17. CASE UNCHANGED vars
    BY <1>17 DEF vars
  <1> QED
    BY <1>1, <1>2, <1>3, <1>4, <1>5, <1>6, <1>7, <1>8, <1>9, <1>10, <1>11, <1>12, <1>13, <1>14, <1>15, <1>16, <1>17 DEF Next, Step

\* The strengthened invariant of the commands that share an output path.
THEOREM Inductive == Spec => []IInv
  <1>1. Init => IInv
    BY InitInductive
  <1>2. IInv /\ [Next]_vars => IInv'
    BY NextInductive
  <1> QED
    BY <1>1, <1>2, PTL DEF Spec

\* Every variable has its type, and write_atomic renames what it has written.
THEOREM TypeCorrect == Spec => []TypeOK
  <1>1. IInv => TypeOK
    BY DEF IInv
  <1> QED
    BY <1>1, Inductive, PTL

\* compress_node and compress_ffi never leave a partial output, however many of them
\* overlap, fail or are killed; compress_ffi alone stands a power loss too.
THEOREM OutIsNeverPartial == Spec => []OutNeverPartial
  <1>1. IInv => OutNeverPartial
    BY DEF IInv, OutputIsRenamed, OutNeverPartial
  <1> QED
    BY <1>1, Inductive, PTL

\* No success leaves a temporary, and no failure of compress_ffi does.
THEOREM NoTempIsLeft == Spec => []NoTempLeft
  <1>1. IInv => NoTempLeft
    BY DEF IInv, TempsAccounted, NoTempLeft
  <1> QED
    BY <1>1, Inductive, PTL

----------------------------------------------------------------------------
(* One build after the other.                                              *)

\* Only the builds of the setting run, and only `abi build' copies.
BuildersRun ==
    \A b \in Builds :
        /\ pc[b] # "idle" => b \in setting.builds
        /\ pc[b] \in {"cargo", "remove", "copy", "copying"} => job[b] \in Building

\* What a build that has the output path to itself is about to write, or has written, is
\* of the version that cargo built last.
SoloInv ==
    Alone => \A b \in Builds :
        /\ pc[b] = "copy" => ~Exists(out)
        /\ pc[b] = "copying" => out.what = "raw" /\ out.ver = artifact
        /\ pc[b] = "read" /\ job[b] = "abi" => out.ver = artifact
        /\ pc[b] \in {"open"} \union Writing => input[b] = artifact /\ job[b] # "abi-raw"
        /\ pc[b] = "read" => job[b] # "abi-raw"
        /\ pc[b] \in Writing => temp[b].what = Product(job[b]) /\ temp[b].ver = artifact
        /\ pc[b] = "ok" => /\ Whole(out) /\ out.what = Product(job[b])
                           /\ out.ver = artifact

\* What an application has loaded is whole.
MappedWhole == Alone \/ AtomicCommands => (mapped => Exists(out) /\ Whole(out))

TrueInv == IInv /\ BuildersRun /\ SoloInv /\ MappedWhole

\* Those who are not idle are one build.
LEMMA OnlyOne ==
  ASSUME BuildersRun, Alone, NEW b \in setting.builds, NEW c \in Builds, pc[c] # "idle"
  PROVE  c = b
  BY DEF BuildersRun, Alone

LEMMA SettingStays == ASSUME [Next]_vars PROVE UNCHANGED setting
  <1>1. ASSUME NEW b \in Builds, Begin(b) \/ Fail(b) \/ Crash(b) PROVE UNCHANGED setting
    BY <1>1 DEF Begin, Fail, Crash
  <1>2. ASSUME NEW b \in Builds, Step(b) PROVE UNCHANGED setting
    <2>1. CASE Cargo(b) \/ RemoveStale(b) \/ OpenCopy(b) \/ Copy(b) \/ Read(b)
      BY <2>1 DEF Cargo, RemoveStale, OpenCopy, Copy, Read
    <2>2. CASE OpenTemp(b) \/ WriteTemp(b) \/ SyncTemp(b) \/ Rename(b)
      BY <2>2 DEF OpenTemp, WriteTemp, SyncTemp, Rename
    <2> QED
      BY <1>2, <2>1, <2>2 DEF Step
  <1>3. CASE PowerLoss
    BY <1>3 DEF PowerLoss
  <1>4. CASE Edit \/ Load \/ Unload
    BY <1>4 DEF Edit, Load, Unload
  <1>5. CASE UNCHANGED vars
    BY <1>5 DEF vars
  <1> QED
    BY <1>1, <1>2, <1>3, <1>4, <1>5 DEF Next

LEMMA InitTrue == Init => TrueInv
  <1> SUFFICES ASSUME Init PROVE TrueInv
    OBVIOUS
  <1>1. BuildersRun /\ SoloInv /\ MappedWhole
    BY DEF Init, BuildersRun, SoloInv, MappedWhole, Writing
  <1> QED
    BY <1>1, InitInductive DEF TrueInv

LEMMA NextBuildersRun ==
  ASSUME IInv, BuildersRun, [Next]_vars
  PROVE  BuildersRun'
  <1> USE DEF BuildersRun, IInv, TypeOK, Goto, At, Active, Finished
  <1>1. ASSUME NEW b \in Builds, Begin(b) PROVE BuildersRun'
    BY <1>1 DEF Begin, Building
  <1>2. ASSUME NEW b \in Builds, Cargo(b) PROVE BuildersRun'
    BY <1>2 DEF Cargo
  <1>3. ASSUME NEW b \in Builds, RemoveStale(b) PROVE BuildersRun'
    BY <1>3 DEF RemoveStale
  <1>4. ASSUME NEW b \in Builds, OpenCopy(b) PROVE BuildersRun'
    BY <1>4 DEF OpenCopy
  <1>5. ASSUME NEW b \in Builds, Copy(b) PROVE BuildersRun'
    BY <1>5 DEF Copy
  <1>6. ASSUME NEW b \in Builds, Read(b) PROVE BuildersRun'
    BY <1>6 DEF Read
  <1>7. ASSUME NEW b \in Builds, OpenTemp(b) PROVE BuildersRun'
    BY <1>7 DEF OpenTemp
  <1>8. ASSUME NEW b \in Builds, WriteTemp(b) PROVE BuildersRun'
    BY <1>8 DEF WriteTemp, AfterWrite
  <1>9. ASSUME NEW b \in Builds, SyncTemp(b) PROVE BuildersRun'
    BY <1>9 DEF SyncTemp
  <1>10. ASSUME NEW b \in Builds, Rename(b) PROVE BuildersRun'
    BY <1>10 DEF Rename
  <1>11. ASSUME NEW b \in Builds, Fail(b) PROVE BuildersRun'
    BY <1>11 DEF Fail
  <1>12. ASSUME NEW b \in Builds, Crash(b) PROVE BuildersRun'
    BY <1>12 DEF Crash, Orphan
  <1>13. CASE PowerLoss
    BY <1>13 DEF PowerLoss, Orphan
  <1>14. CASE Edit
    BY <1>14 DEF Edit
  <1>15. CASE Load
    BY <1>15 DEF Load
  <1>16. CASE Unload
    BY <1>16 DEF Unload
  <1>17. CASE UNCHANGED vars
    BY <1>17 DEF vars
  <1> QED
    BY <1>1, <1>2, <1>3, <1>4, <1>5, <1>6, <1>7, <1>8, <1>9, <1>10, <1>11, <1>12, <1>13, <1>14, <1>15, <1>16, <1>17 DEF Next, Step

\* With the path to itself, nobody else writes the output or moves what cargo built.
LEMMA NextSolo ==
  ASSUME TrueInv, [Next]_vars
  PROVE  SoloInv'
  <1> SUFFICES ASSUME Alone PROVE SoloInv'
    BY SettingStays DEF SoloInv, Alone
  <1> USE DEF TrueInv, IInv, TypeOK, SoloInv, Goto, At, Active, Finished, Writing
  <1>1. ASSUME NEW b \in Builds, Begin(b) PROVE SoloInv'
    <2>1. \A c \in Builds : pc[c] # "idle" => c = b
      BY <1>1, OnlyOne DEF Begin, BuildersRun
    <2> QED
      BY <1>1, <2>1 DEF Begin, Building
  <1>2. ASSUME NEW b \in Builds, Cargo(b) PROVE SoloInv'
    <2>1. \A c \in Builds : pc[c] # "idle" => c = b
      BY <1>2, OnlyOne DEF Cargo, BuildersRun
    <2> QED
      BY <1>2, <2>1 DEF Cargo, Building
  <1>3. ASSUME NEW b \in Builds, RemoveStale(b) PROVE SoloInv'
    <2>1. \A c \in Builds : pc[c] # "idle" => c = b
      BY <1>3, OnlyOne DEF RemoveStale, BuildersRun
    <2> QED
      BY <1>3, <2>1, NoFileFacts DEF RemoveStale
  <1>4. ASSUME NEW b \in Builds, OpenCopy(b) PROVE SoloInv'
    <2>1. \A c \in Builds : pc[c] # "idle" => c = b
      BY <1>4, OnlyOne DEF OpenCopy, BuildersRun
    <2> QED
      BY <1>4, <2>1 DEF OpenCopy, File, Exists
  <1>5. ASSUME NEW b \in Builds, Copy(b) PROVE SoloInv'
    <2>1. \A c \in Builds : pc[c] # "idle" => c = b
      BY <1>5, OnlyOne DEF Copy, BuildersRun
    <2>2. out'.what = out.what /\ out'.ver = out.ver /\ pc[b] = "copying"
      BY <1>5 DEF Copy, Files
    <2>3. \/ pc' = pc
          \/ Whole(out) /\ out' = out /\ pc' = [pc EXCEPT ![b] = IF job[b] = "abi" THEN "read" ELSE "ok"]
      BY <1>5 DEF Copy
    <2>4. UNCHANGED <<job, input, temp, artifact>>
      BY <1>5 DEF Copy
    <2>5. job[b] \in {"abi", "abi-raw"}
      BY <2>2 DEF BuildersRun, Building
    <2> QED
      BY <2>1, <2>2, <2>3, <2>4, <2>5 DEF Product
  <1>6. ASSUME NEW b \in Builds, Read(b) PROVE SoloInv'
    <2>1. \A c \in Builds : pc[c] # "idle" => c = b
      BY <1>6, OnlyOne DEF Read, BuildersRun
    <2> QED
      BY <1>6, <2>1 DEF Read, BuildersRun
  <1>7. ASSUME NEW b \in Builds, OpenTemp(b) PROVE SoloInv'
    <2>1. \A c \in Builds : pc[c] # "idle" => c = b
      BY <1>7, OnlyOne DEF OpenTemp, BuildersRun
    <2> QED
      BY <1>7, <2>1 DEF OpenTemp, File, Product
  <1>8. ASSUME NEW b \in Builds, WriteTemp(b) PROVE SoloInv'
    <2>1. \A c \in Builds : pc[c] # "idle" => c = b
      BY <1>8, OnlyOne DEF WriteTemp, BuildersRun
    <2>2. temp[b] \in Files /\ temp'[b].what = temp[b].what /\ temp'[b].ver = temp[b].ver
      BY <1>8 DEF WriteTemp, Files
    <2>3. pc[b] = "write" /\ pc'[b] \in Writing /\ UNCHANGED <<out, job, input, artifact>>
      BY <1>8 DEF WriteTemp, AfterWrite
    <2>4. \A c \in Builds \ {b} : pc'[c] = pc[c] /\ temp'[c] = temp[c]
      BY <1>8 DEF WriteTemp
    <2> QED
      BY <2>1, <2>2, <2>3, <2>4
  <1>9. ASSUME NEW b \in Builds, SyncTemp(b) PROVE SoloInv'
    <2>1. \A c \in Builds : pc[c] # "idle" => c = b
      BY <1>9, OnlyOne DEF SyncTemp, BuildersRun
    <2> QED
      BY <1>9, <2>1 DEF SyncTemp
  <1>10. ASSUME NEW b \in Builds, Rename(b) PROVE SoloInv'
    <2>1. \A c \in Builds : pc[c] # "idle" => c = b
      BY <1>10, OnlyOne DEF Rename, BuildersRun
    <2> QED
      BY <1>10, <2>1 DEF Rename, DropTemp, RenamesAreReady, Whole
  <1>11. ASSUME NEW b \in Builds, Fail(b) PROVE SoloInv'
    <2>1. \A c \in Builds : pc[c] # "idle" => c = b
      BY <1>11, OnlyOne DEF Fail, BuildersRun
    <2> QED
      BY <1>11, <2>1 DEF Fail, DropTemp
  <1>12. ASSUME NEW b \in Builds, Crash(b) PROVE SoloInv'
    <2>1. \A c \in Builds : pc[c] # "idle" => c = b
      BY <1>12, OnlyOne DEF Crash, BuildersRun
    <2> QED
      BY <1>12, <2>1 DEF Crash, Orphan
  <1>13. CASE PowerLoss
    BY <1>13 DEF PowerLoss, Orphan, Alone
  <1>14. CASE Edit
    BY <1>14 DEF Edit, Alone
  <1>15. CASE Load
    BY <1>15 DEF Load, Alone
  <1>16. CASE Unload
    BY <1>16 DEF Unload, Alone
  <1>17. CASE UNCHANGED vars
    BY <1>17 DEF vars, Alone, Whole
  <1> QED
    BY <1>1, <1>2, <1>3, <1>4, <1>5, <1>6, <1>7, <1>8, <1>9, <1>10, <1>11, <1>12, <1>13, <1>14, <1>15, <1>16, <1>17 DEF Next, Step

\* Nobody writes in place into what may be loaded.
LEMMA OutputKept ==
  ASSUME TrueInv, [Next]_vars, Alone \/ AtomicCommands, mapped, mapped'
  PROVE  out' = out
  <1> USE DEF TrueInv, IInv, MappedWhole, Goto, At
  <1>1. Exists(out) /\ Whole(out)
    OBVIOUS
  <1>2. ASSUME NEW b \in Builds, OpenCopy(b) PROVE FALSE
    BY <1>1, <1>2 DEF OpenCopy, SoloInv, OutputIsRenamed
  <1>3. ASSUME NEW b \in Builds, Copy(b) PROVE out' = out
    BY <1>1, <1>3 DEF Copy
  <1>4. ASSUME NEW b \in Builds, RemoveStale(b) \/ Rename(b) PROVE out' = out
    BY <1>4 DEF RemoveStale, Rename
  <1>5. CASE PowerLoss
    BY <1>5 DEF PowerLoss
  <1> QED
    BY <1>2, <1>3, <1>4, <1>5
    DEF Next, Step, vars, Begin, Cargo, Read, OpenTemp, WriteTemp, SyncTemp, Fail, Crash,
        Edit, Load, Unload

LEMMA NextMapped ==
  ASSUME TrueInv, [Next]_vars
  PROVE  MappedWhole'
  <1>1. UNCHANGED setting
    BY SettingStays
  <1>2. SUFFICES ASSUME Alone \/ AtomicCommands, mapped' PROVE Exists(out') /\ Whole(out')
    BY <1>1 DEF MappedWhole, Alone, AtomicCommands, Exists, Whole
  <1>3. CASE mapped
    BY <1>2, <1>3, OutputKept DEF TrueInv, MappedWhole
  <1>4. CASE ~mapped
    <2>1. Load
      BY <1>2, <1>4
      DEF Next, Step, vars, Begin, Cargo, RemoveStale, OpenCopy, Copy, Read, OpenTemp,
          WriteTemp, SyncTemp, Rename, Fail, Crash, PowerLoss, Edit, Unload
    <2> QED
      BY <2>1 DEF Load
  <1> QED
    BY <1>2, <1>3, <1>4 DEF TrueInv, IInv, TypeOK

\* What the two theorems below rest on.
THEOREM TrueInductive == Spec => []TrueInv
  <1>1. TrueInv /\ [Next]_vars => TrueInv'
    BY NextInductive, NextBuildersRun, NextSolo, NextMapped DEF TrueInv
  <1> QED
    BY <1>1, InitTrue, PTL DEF Spec

\* One build after the other, whatever fails, crashes or is edited in between: a success
\* leaves the product that its receipt names.
THEOREM ReceiptsAreTrue == Spec => []ReceiptIsTrue
  <1>1. TrueInv => ReceiptIsTrue
    BY DEF TrueInv, SoloInv, ReceiptIsTrue
  <1> QED
    BY <1>1, TrueInductive, PTL

\* An application keeps what it has loaded, unless two abi builds copy at a time.
THEOREM AppsAreUndisturbed == Spec => AppsUndisturbed
  <1>1. ASSUME TrueInv, [Next]_vars
        PROVE  [(Alone \/ AtomicCommands) /\ mapped /\ mapped' => out' = out]_vars
    BY <1>1, OutputKept
  <1> QED
    BY <1>1, TrueInductive, PTL DEF Spec, AppsUndisturbed
=============================================================================
