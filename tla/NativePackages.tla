---------------------------- MODULE NativePackages ----------------------------
(***************************************************************************)
(* How the signed native packages travel.  A publish job takes them from   *)
(* one attempt of the producer's run, stages them in its checkout and      *)
(* uploads a receipt: which artifacts, of which attempt, and the hash of   *)
(* every file (prepare-native.mts).  A scan job of a later run finds the   *)
(* receipt of the publish run, downloads the pinned artifacts again,       *)
(* stages them and keeps the receipt (restore-native.mts).  Both are then  *)
(* packed after an offline verification of files against receipt.          *)
(*                                                                         *)
(* Each action is one request to GitHub, or one change of the checkout,    *)
(* with what the job does up to the next.  Meanwhile either run may be     *)
(* repeated: a repeated run has a larger attempt and replaces artifacts    *)
(* one by one.  How the producer's run is found is NativeProducer's part.  *)
(***************************************************************************)
EXTENDS Naturals

CONSTANTS
  Targets,       \* the platform packages; one artifact and one file stand for each
  Reproducible,  \* the targets whose file is the same in every build
  None,          \* no receipt, no build, no file
  Torn,          \* a file or a receipt written in part
  MaxAttempt,    \* bound: attempts of either run
  MaxFaults      \* bound: failures, deaths of jobs and repetitions in a behaviour

ASSUME TargetsAssumption == Reproducible \subseteq Targets
ASSUME BoundsAssumption == MaxAttempt \in Nat \ {0} /\ MaxFaults \in Nat

Jobs == {"publish", "scan"}
Attempts == 1 .. MaxAttempt

\* What the file of a target that was built in attempt k contains.
Bytes(t, k) == IF t \in Reproducible THEN 1 ELSE k

Content == Attempts \cup {None, Torn}
Builds == [Targets -> Attempts]

\* NativePackageReceipt; an artifact's id is the attempt that built it.
Receipt == [publishRunAttempt : Attempts, runAttempt : Attempts, artifacts : Builds,
            files : [Targets -> Content]]

\* A job's download, and the scan's reading of the publish run.
Fetch == [attempt : Attempts \cup {None}, listed : [Targets -> Attempts \cup {None}],
          left : SUBSET Targets]
Parent == [attempt : Attempts \cup {None}, seen : Attempts \cup {None},
           receipt : Receipt \cup {None}, got : Receipt \cup {None}]

ASSUME NoneAssumption ==
  /\ {None, Torn} \cap (Attempts \cup Receipt \cup [Targets -> Content]) = {}
  /\ None # Torn

VARIABLES
  producer,  \* the producer's run: attempt, state, and the attempt that built each artifact
  publish,   \* the publish run: attempt and state
  uploaded,  \* npm-signed-native-packages, by the attempt that uploaded it
  pc,        \* each job's next step
  fetch,     \* each job's download: the attempt, the artifacts listed, what is left to do
  parent,    \* the scan's reading of the publish run: attempt, receipt, and which reading
  payload,   \* the package files in each job's checkout
  receipt,   \* receipt.json in each job's checkout
  output,    \* publish-run-attempt, as the scan's later steps get it
  signed,    \* ghost: the artifacts of each attempt of the producer that ended signed
  packed,    \* ghost: the files that each attempt of the publish run has packed
  repeated,  \* ghost: was the publish run repeated while the scan relied on its reading?
  faults

runs == <<producer, publish, uploaded>>
checkouts == <<payload, receipt>>
vars == <<runs, pc, fetch, parent, checkouts, output, signed, packed, repeated, faults>>

Unbuilt == [t \in Targets |-> None]

\* The steps of a download, and of a job.
Steps == {"await", "list", "download", "refresh", "clean", "copy"}
Places == Steps \cup {"idle", "failed", "write", "upload", "pack", "parent", "receipt", "recheck",
                      "last", "delete", "rename", "done"}

TypeOK ==
  /\ producer \in [attempt : Attempts, state : {"active", "signed", "failed"},
                   built : [Targets -> Attempts \cup {None}]]
  /\ publish \in [attempt : Attempts, state : {"active", "success", "failed"}]
  /\ uploaded \in [Attempts -> Receipt \cup {None}]
  /\ pc \in [Jobs -> Places]
  /\ fetch \in [Jobs -> Fetch]
  /\ parent \in Parent
  /\ payload \in [Jobs -> [Targets -> Content]]
  /\ receipt \in [Jobs -> Receipt \cup {None, Torn}]
  /\ output \in Attempts \cup {None}
  /\ signed \in [Attempts -> Builds \cup {None}]
  /\ packed \in [Attempts -> [Targets -> Content] \cup {None}]
  /\ repeated \in BOOLEAN
  /\ faults \in 0 .. MaxFaults

NoFetch == [attempt |-> None, listed |-> Unbuilt, left |-> {}]
NoParent == [attempt |-> None, seen |-> None, receipt |-> None, got |-> None]

Init ==
  /\ producer = [attempt |-> 1, state |-> "active", built |-> Unbuilt]
  /\ publish = [attempt |-> 1, state |-> "active"]
  /\ uploaded = [a \in Attempts |-> None]
  /\ pc = [publish |-> "await", scan |-> "idle"]
  /\ fetch = [j \in Jobs |-> NoFetch]
  /\ parent = NoParent
  /\ payload = [j \in Jobs |-> Unbuilt]
  /\ receipt = [j \in Jobs |-> None]
  /\ output = None
  /\ signed = [a \in Attempts |-> None]
  /\ packed = [a \in Attempts |-> None]
  /\ repeated = FALSE
  /\ faults = MaxFaults

Fault == faults > 0 /\ faults' = faults - 1

Go(j, step) == pc' = [pc EXCEPT ![j] = step] /\ UNCHANGED publish

\* A step that throws ends its job, and the run that the job belongs to.
Fail(j) ==
  /\ pc' = [pc EXCEPT ![j] = "failed"]
  /\ publish' = IF j = "publish" THEN [publish EXCEPT !.state = "failed"] ELSE publish

\* validateNativePackageReceipt without the payload files.
Valid(r, attempt) == r \notin {None, Torn} /\ r.publishRunAttempt = attempt

\* Mutant: the files are not looked at.
VerifiesReceipt(j, attempt) == Valid(receipt[j], attempt)

\* verifyNativePackagesForPublish (--verify-local), with its payload files, does not throw.
Verifies(j, attempt) == Valid(receipt[j], attempt) /\ payload[j] = receipt[j].files

-----------------------------------------------------------------------------
(* completedRun, listArtifacts, downloadArtifacts: a job downloads the artifacts of one *)
(* attempt.  The scan knows which: those of the receipt it has read.                    *)

\* Mutant: the attempts of the two runs are confused.
PinnedToPublish(j, attempt) == j = "scan" => attempt = parent.seen

\* The attempt and the artifacts a job insists on.
Pinned(j, attempt) == j = "scan" => attempt = parent.receipt.runAttempt

Expected(j, listed) == j = "scan" => listed = parent.receipt.artifacts

Fetched == <<producer, uploaded, checkouts, output, signed, packed, repeated, faults>>

Await(j) ==
  /\ pc[j] = "await"
  /\ producer.state # "active"
  /\ IF producer.state = "signed" /\ Pinned(j, producer.attempt)
     THEN Go(j, "list") /\ fetch' = [fetch EXCEPT ![j].attempt = producer.attempt]
     ELSE Fail(j) /\ UNCHANGED fetch
  /\ UNCHANGED <<Fetched, parent>>

\* selectNativeProducerArtifacts wants all of them.
List(j) ==
  /\ pc[j] = "list"
  /\ LET listed == producer.built IN
       IF (\A t \in Targets : listed[t] # None) /\ Expected(j, listed)
       THEN /\ Go(j, "download")
            /\ fetch' = [fetch EXCEPT ![j].listed = listed, ![j].left = Targets]
       ELSE Fail(j) /\ UNCHANGED fetch
  /\ UNCHANGED <<Fetched, parent>>

\* The metadata of one artifact, its archive, and the digest.  An artifact that has been
\* replaced since may be gone.
Download(j, t) ==
  /\ pc[j] = "download" /\ t \in fetch[j].left
  /\ \/ /\ fetch' = [fetch EXCEPT ![j].left = @ \ {t}]
        /\ Go(j, IF fetch[j].left = {t} THEN "refresh" ELSE "download")
     \/ /\ producer.built[t] # fetch[j].listed[t]
        /\ Fail(j) /\ UNCHANGED fetch
  /\ UNCHANGED <<Fetched, parent>>

\* Mutant: the run is not looked at again after the download.
RefreshSkipped(j) ==
  /\ pc[j] = "refresh"
  /\ Go(j, IF j = "scan" THEN "parent" ELSE "clean")
  /\ UNCHANGED <<Fetched, fetch, parent>>

\* The run must still be that attempt and successful.  The scan then reads its parent again.
Refresh(j) ==
  /\ pc[j] = "refresh"
  /\ IF producer.state = "signed" /\ producer.attempt = fetch[j].attempt
     THEN Go(j, IF j = "scan" THEN "parent" ELSE "clean")
     ELSE Fail(j)
  /\ UNCHANGED <<Fetched, fetch, parent>>

-----------------------------------------------------------------------------
(* stageNativeProducerPayloads: the parts are extracted, validated and aggregated into  *)
(* emptied directories; then each file is copied over the package's.                    *)

Staged(j) == [t \in Targets |-> Bytes(t, fetch[j].listed[t])]

\* Extraction and aggregation; the scan compares every hash before it copies anything.
Clean(j) ==
  /\ pc[j] = "clean"
  /\ IF j = "scan" => Staged(j) = parent.receipt.files
     THEN Go(j, "copy") /\ fetch' = [fetch EXCEPT ![j].left = Targets]
     ELSE Fail(j) /\ UNCHANGED fetch
  /\ UNCHANGED <<Fetched, parent>>

Copy(j, t) ==
  /\ pc[j] = "copy" /\ t \in fetch[j].left
  /\ payload' = [payload EXCEPT ![j][t] = Staged(j)[t]]
  /\ fetch' = [fetch EXCEPT ![j].left = @ \ {t}]
  /\ Go(j, IF fetch[j].left # {t} THEN "copy" ELSE IF j = "scan" THEN "delete" ELSE "write")
  /\ UNCHANGED <<producer, uploaded, parent, receipt, output, signed, packed, repeated, faults>>

-----------------------------------------------------------------------------
(* The publish job: prepare-native.mts and the steps of publish-npm.yml after it *)

\* Every file is hashed as it lies in the checkout; writeFileSync of the receipt.
WriteReceipt ==
  /\ pc["publish"] = "write"
  /\ receipt' = [receipt EXCEPT !["publish"] =
       [publishRunAttempt |-> publish.attempt, runAttempt |-> fetch["publish"].attempt,
        artifacts |-> fetch["publish"].listed, files |-> payload["publish"]]]
  /\ Go("publish", "upload")
  /\ UNCHANGED <<producer, uploaded, fetch, parent, payload, output, signed, packed, repeated,
                 faults>>

Upload ==
  /\ pc["publish"] = "upload"
  /\ uploaded' = [uploaded EXCEPT ![publish.attempt] = receipt["publish"]]
  /\ Go("publish", "pack")
  /\ UNCHANGED <<producer, fetch, parent, checkouts, output, signed, packed, repeated, faults>>

\* The offline verification, with the identity of this run, and the packing.
Pack ==
  /\ pc["publish"] = "pack"
  /\ IF Verifies("publish", publish.attempt)
     THEN /\ packed' = [packed EXCEPT ![publish.attempt] = payload["publish"]]
          /\ pc' = [pc EXCEPT !["publish"] = "done"]
          /\ publish' = [publish EXCEPT !.state = "success"]
     ELSE Fail("publish") /\ UNCHANGED packed
  /\ UNCHANGED <<producer, uploaded, fetch, parent, checkouts, output, signed, repeated, faults>>

-----------------------------------------------------------------------------
(* The scan job: restore-native.mts *)

\* A runner of its own, or a checkout in which this has been done before.
StartScan ==
  /\ pc["scan"] \in {"idle", "failed", "done"}
  /\ Go("scan", "parent")
  /\ fetch' = [fetch EXCEPT !["scan"] = NoFetch]
  /\ parent' = NoParent
  /\ output' = None
  /\ repeated' = FALSE
  /\ \/ UNCHANGED checkouts
     \/ /\ payload' = [payload EXCEPT !["scan"] = Unbuilt]
        /\ receipt' = [receipt EXCEPT !["scan"] = None]
  /\ UNCHANGED <<producer, uploaded, signed, packed, faults>>

Restoring == <<producer, uploaded, fetch, checkouts, output, signed, packed, repeated, faults>>

\* readParentReceipt reads the publish run, which must have succeeded,
ReadParent ==
  /\ pc["scan"] = "parent"
  /\ IF publish.state = "success"
     THEN Go("scan", "receipt") /\ parent' = [parent EXCEPT !.seen = publish.attempt]
     ELSE Fail("scan") /\ UNCHANGED parent
  /\ UNCHANGED Restoring

\* then finds and downloads the receipt; while the run is being repeated that may be any
\* attempt's,
ReadReceipt ==
  /\ pc["scan"] = "receipt"
  /\ \/ \E k \in Attempts :
          /\ uploaded[k] # None
          /\ publish.state # "active" => k = publish.attempt
          /\ parent' = [parent EXCEPT !.got = uploaded[k]]
        /\ Go("scan", "recheck")
     \/ /\ publish.state = "active" \/ uploaded[publish.attempt] = None
        /\ Fail("scan") /\ UNCHANGED parent
  /\ UNCHANGED Restoring

Unrepeated == publish.state = "success" /\ publish.attempt = parent.seen

\* and reads the run again.  The first time the receipt is validated; the second time, when
\* the artifacts are there, nothing may have changed.
Recheck ==
  /\ pc["scan"] = "recheck"
  /\ \/ /\ Unrepeated /\ parent.attempt = None /\ Valid(parent.got, parent.seen)
        /\ Go("scan", "await")
        /\ parent' = [parent EXCEPT !.attempt = parent.seen, !.receipt = parent.got]
     \/ /\ Unrepeated /\ parent.seen = parent.attempt /\ parent.got = parent.receipt
        /\ Go("scan", "last") /\ UNCHANGED parent
     \/ /\ ~Unrepeated \/ (IF parent.attempt = None THEN ~Valid(parent.got, parent.seen)
                           ELSE parent.seen # parent.attempt \/ parent.got # parent.receipt)
        /\ Fail("scan") /\ UNCHANGED parent
  /\ UNCHANGED Restoring

\* Mutant: the last reading of the publish run does not compare the attempt.
LastAnyAttempt ==
  /\ pc["scan"] = "last"
  /\ IF publish.state = "success" THEN Go("scan", "clean") ELSE Fail("scan")
  /\ UNCHANGED <<Restoring, parent>>

\* parentAfterProducer
Last ==
  /\ pc["scan"] = "last"
  /\ IF Unrepeated THEN Go("scan", "clean") ELSE Fail("scan")
  /\ UNCHANGED <<Restoring, parent>>

\* The receipt is validated with the files and written beside; the one that is there goes.
DeleteReceipt ==
  /\ pc["scan"] = "delete"
  /\ IF Valid(parent.receipt, parent.attempt) /\ payload["scan"] = parent.receipt.files
     THEN Go("scan", "rename") /\ receipt' = [receipt EXCEPT !["scan"] = None]
     ELSE Fail("scan") /\ UNCHANGED receipt
  /\ UNCHANGED <<producer, uploaded, fetch, parent, payload, output, signed, packed, repeated,
                 faults>>

\* The rename, and the attempt for the steps that follow.
RenameReceipt ==
  /\ pc["scan"] = "rename"
  /\ receipt' = [receipt EXCEPT !["scan"] = parent.receipt]
  /\ output' = parent.attempt
  /\ Go("scan", "done")
  /\ UNCHANGED <<producer, uploaded, fetch, parent, payload, signed, packed, repeated, faults>>

-----------------------------------------------------------------------------
(* GitHub, other people, and failures *)

Quiet == <<pc, fetch, parent, checkouts, output, packed>>

\* A target's build job uploads its artifact; a repetition replaces it.
Build(t) ==
  /\ producer.state = "active" /\ producer.built[t] # producer.attempt
  /\ producer' = [producer EXCEPT !.built[t] = producer.attempt]
  /\ UNCHANGED <<publish, uploaded, Quiet, signed, repeated, faults>>

\* A repetition may build some targets only.
Complete ==
  /\ producer.state = "active" /\ \A t \in Targets : producer.built[t] # None
  /\ \/ /\ producer' = [producer EXCEPT !.state = "signed"]
        /\ signed' = [signed EXCEPT ![producer.attempt] = producer.built]
        /\ UNCHANGED faults
     \/ /\ Fault
        /\ producer' = [producer EXCEPT !.state = "failed"]
        /\ UNCHANGED signed
  /\ UNCHANGED <<publish, uploaded, Quiet, repeated>>

RerunProducer ==
  /\ Fault
  /\ producer.state # "active" /\ producer.attempt < MaxAttempt
  /\ producer' = [producer EXCEPT !.state = "active", !.attempt = @ + 1]
  /\ UNCHANGED <<publish, uploaded, Quiet, signed, repeated>>

\* The steps of a scan from its first reading of the publish run to its last.
Relies == pc["scan"] \in {"receipt", "recheck", "await", "list", "download", "refresh", "last"}
            \/ (pc["scan"] = "parent" /\ parent.attempt # None)

\* The publish run is repeated, in a workspace of its own or the one that is there.
RerunPublish ==
  /\ publish.state # "active" /\ publish.attempt < MaxAttempt
  /\ IF publish.state = "success" THEN Fault ELSE UNCHANGED faults
  /\ publish' = [attempt |-> publish.attempt + 1, state |-> "active"]
  /\ pc' = [pc EXCEPT !["publish"] = "await"]
  /\ fetch' = [fetch EXCEPT !["publish"] = NoFetch]
  /\ \/ UNCHANGED checkouts
     \/ /\ payload' = [payload EXCEPT !["publish"] = Unbuilt]
        /\ receipt' = [receipt EXCEPT !["publish"] = None]
  /\ repeated' = (repeated \/ Relies)
  /\ UNCHANGED <<producer, uploaded, parent, output, signed, packed>>

\* A job dies, at a request or in the middle of a file.
Die(j) ==
  /\ Fault
  /\ pc[j] \notin {"idle", "failed", "done"}
  /\ Fail(j)
  /\ \/ UNCHANGED checkouts
     \/ \E t \in fetch[j].left : /\ pc[j] = "copy"
                                 /\ payload' = [payload EXCEPT ![j][t] = Torn]
                                 /\ UNCHANGED receipt
     \/ /\ pc[j] = "write"
        /\ receipt' = [receipt EXCEPT ![j] = Torn]
        /\ UNCHANGED payload
  /\ UNCHANGED <<producer, uploaded, fetch, parent, output, signed, packed, repeated>>

-----------------------------------------------------------------------------
Take(j) ==
  \/ Await(j) \/ List(j) \/ Refresh(j) \/ Clean(j)
  \/ \E t \in Targets : Download(j, t) \/ Copy(j, t)

Prepare == Take("publish") \/ WriteReceipt \/ Upload \/ Pack

Restore ==
  \/ StartScan \/ ReadParent \/ ReadReceipt \/ Recheck \/ Take("scan") \/ Last
  \/ DeleteReceipt \/ RenameReceipt

Next ==
  \/ Prepare \/ Restore
  \/ (\E t \in Targets : Build(t)) \/ Complete
  \/ RerunProducer \/ RerunPublish \/ \E j \in Jobs : Die(j)

Spec == Init /\ [][Next]_vars

\* The jobs go on, the scan is dispatched again, and a producer's run ends.
FairSpec ==
  /\ Spec
  /\ WF_vars(Prepare) /\ WF_vars(Restore) /\ WF_vars(Complete)
  /\ \A t \in Targets : WF_vars(Build(t))

-----------------------------------------------------------------------------
(* Properties *)

\* Whatever a restore or the death of one leaves in the scan's checkout: if the offline
\* verification lets it pass as an attempt's, it is byte for byte what that attempt packed.
VerifiedIsPacked ==
  \A a \in Attempts : Verifies("scan", a) => payload["scan"] = packed[a]

\* What an attempt packs are the artifacts of one attempt of the producer that ended
\* signed, the one its receipt names, although artifacts are replaced one by one meanwhile.
PackedIsSigned ==
  \A a \in Attempts : packed[a] # None =>
    LET r == uploaded[a]
    IN /\ signed[r.runAttempt] = r.artifacts
       /\ packed[a] = [t \in Targets |-> Bytes(t, r.artifacts[t])]

\* Nothing is restored for a publish run that was repeated between the scan's first reading
\* and the end of the downloads.
NoStaleRestore == pc["scan"] \in {"clean", "copy", "delete", "rename", "done"} => ~repeated

\* The publish run has succeeded and nobody has repeated its producer since.
Restorable ==
  /\ publish.state = "success"
  /\ producer.state = "signed" /\ producer.attempt = uploaded[publish.attempt].runAttempt

\* A scan that is dispatched again restores the packages in the end, and they pass the
\* offline verification of the step that follows, with the attempt that step is given.
RestoresInTheEnd ==
  <>[]Restorable =>
    []<>(pc["scan"] = "done" /\ output = publish.attempt /\ Verifies("scan", output))
=============================================================================
