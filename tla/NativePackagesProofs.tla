------------------------ MODULE NativePackagesProofs ------------------------
(***************************************************************************)
(* What the scan restores is what the publish run has packed, and that is  *)
(* what one attempt of the producer has signed: for any targets, however   *)
(* often either run is repeated and whichever job dies.                    *)
(*                                                                         *)
(* What an attempt has signed, uploaded or packed stays (Kept).  The two   *)
(* jobs meet there only, so each keeps its own part of the invariant, and  *)
(* the other's steps leave what that part is about alone.                  *)
(***************************************************************************)
EXTENDS NativePackages, TLAPS

Working == Steps \cup {"write", "upload", "pack"}

\* An attempt has a set of signed artifacts once it has ended signed, and what is listed of
\* the run is that set until the run is repeated.
ProducerInv ==
  /\ signed[producer.attempt] # None <=> producer.state = "signed"
  /\ producer.state = "signed" => producer.built = signed[producer.attempt]
  /\ \A k \in Attempts : k > producer.attempt => signed[k] = None

\* An attempt of the publish run uploads once and packs once.
PublishInv ==
  /\ pc["publish"] \in Working \cup {"failed", "done"}
  /\ publish.state = "active" <=> pc["publish"] \in Working
  /\ publish.state = "success" => packed[publish.attempt] # None
  /\ publish.state = "active" => packed[publish.attempt] = None
  /\ publish.state = "active" /\ pc["publish"] # "pack" => uploaded[publish.attempt] = None
  /\ \A a \in Attempts : a > publish.attempt => uploaded[a] = None /\ packed[a] = None

\* A receipt that names the artifacts of a signed attempt, and their files.
Good(r) ==
  /\ signed[r.runAttempt] # None /\ signed[r.runAttempt] = r.artifacts
  /\ r.files = [t \in Targets |-> Bytes(t, r.artifacts[t])]

\* The publish job's download is of a signed attempt, as long as the run is at that attempt,
\* and for good once the run has been looked at again.
FetchInv ==
  LET f == fetch["publish"] IN
    /\ pc["publish"] \in {"list", "download", "refresh", "clean", "copy", "write"} =>
         f.attempt # None /\ signed[f.attempt] # None
    /\ pc["publish"] \in {"download", "refresh"} /\ producer.attempt = f.attempt =>
         f.listed = signed[f.attempt]
    /\ pc["publish"] \in {"clean", "copy", "write"} => f.listed = signed[f.attempt]
    /\ pc["publish"] = "copy" =>
         \A t \in Targets \ f.left : payload["publish"][t] = Bytes(t, f.listed[t])
    /\ pc["publish"] = "write" =>
         \A t \in Targets : payload["publish"][t] = Bytes(t, f.listed[t])
    /\ pc["publish"] = "upload" =>
         /\ receipt["publish"] \in Receipt /\ Good(receipt["publish"])
         /\ receipt["publish"].publishRunAttempt = publish.attempt
    /\ pc["publish"] = "pack" =>
         uploaded[publish.attempt] = receipt["publish"] /\ uploaded[publish.attempt] # None

\* What has been uploaded is good, and what has been packed is what was uploaded.
UploadedInv ==
  \A a \in Attempts :
    /\ uploaded[a] # None => Good(uploaded[a]) /\ uploaded[a].publishRunAttempt = a
    /\ packed[a] # None => uploaded[a] # None /\ packed[a] = uploaded[a].files

\* A receipt whose files have been packed.
Vouched(r) == packed[r.publishRunAttempt] # None /\ packed[r.publishRunAttempt] = r.files

Late == {"await", "list", "download", "refresh", "last", "clean", "copy", "delete", "rename"}

\* What the scan holds are uploaded receipts, and those it has validated are of attempts
\* that have packed.
ScanInv ==
  /\ pc["scan"] \in Late => parent.attempt # None
  /\ pc["scan"] = "recheck" => parent.got # None
  /\ parent.got # None => uploaded[parent.got.publishRunAttempt] = parent.got
  /\ parent.attempt # None =>
       /\ parent.receipt # None /\ parent.receipt.publishRunAttempt = parent.attempt
       /\ Vouched(parent.receipt)
  /\ receipt["scan"] \notin {None, Torn} => Vouched(receipt["scan"])

\* A repetition of the publish run shows in the attempt for as long as the scan may read it.
StaleInv ==
  /\ pc["scan"] = "parent" /\ parent.attempt = None => ~repeated
  /\ pc["scan"] \in {"receipt", "recheck"} => parent.seen # None /\ parent.seen <= publish.attempt
  /\ parent.attempt # None => parent.attempt <= publish.attempt
  /\ pc["scan"] \in {"receipt", "recheck"} /\ parent.attempt = None /\ repeated =>
       publish.attempt > parent.seen
  /\ Relies /\ parent.attempt # None /\ repeated => publish.attempt > parent.attempt
  /\ pc["scan"] = "last" => parent.seen = parent.attempt
  /\ pc["scan"] \in {"clean", "copy", "delete", "rename", "done"} => ~repeated

IInv ==
  TypeOK /\ ProducerInv /\ PublishInv /\ FetchInv /\ UploadedInv /\ ScanInv /\ StaleInv

-----------------------------------------------------------------------------
(* Types *)

LEMMA Types ==
  ASSUME TypeOK
  PROVE  /\ producer.attempt \in Attempts /\ publish.attempt \in Attempts
         /\ producer.built \in [Targets -> Attempts \cup {None}]
         /\ \A j \in Jobs : /\ fetch[j] \in Fetch /\ fetch[j].left \subseteq Targets
                            /\ fetch[j].attempt \in Attempts \cup {None}
                            /\ fetch[j].listed \in [Targets -> Attempts \cup {None}]
         /\ parent.attempt \in Attempts \cup {None} /\ parent.seen \in Attempts \cup {None}
         /\ parent.receipt \in Receipt \cup {None} /\ parent.got \in Receipt \cup {None}
BY DEF TypeOK, Fetch, Parent

LEMMA ReceiptTypes ==
  ASSUME NEW r \in Receipt
  PROVE  /\ r # None /\ r # Torn /\ r.publishRunAttempt \in Attempts /\ r.runAttempt \in Attempts
         /\ r.artifacts \in Builds /\ r.files \in [Targets -> Content]
BY NoneAssumption DEF Receipt

LEMMA AttemptTypes ==
  /\ None \notin Attempts /\ Torn \notin Attempts /\ None \notin Receipt /\ 1 \in Attempts
  /\ \A a \in Attempts : a \in Nat /\ a <= MaxAttempt
BY NoneAssumption, BoundsAssumption DEF Attempts

LEMMA StagedTypes ==
  ASSUME TypeOK, NEW j \in Jobs
  PROVE  Staged(j) \in [Targets -> Content]
BY Types, AttemptTypes DEF Staged, Bytes, Content

LEMMA FaultTypes == ASSUME TypeOK, Fault PROVE faults' \in 0 .. MaxFaults
BY BoundsAssumption DEF TypeOK, Fault

\* The changes of a download, one field at a time.
LEMMA FetchUpdate ==
  ASSUME TypeOK, NEW j \in Jobs, NEW f \in Fetch, fetch' = [fetch EXCEPT ![j] = f]
  PROVE  /\ fetch' \in [Jobs -> Fetch] /\ \A i \in Jobs \ {j} : fetch'[i] = fetch[i]
         /\ fetch'[j] = f
BY DEF TypeOK

LEMMA FetchLeft ==
  ASSUME TypeOK, NEW j \in Jobs, NEW L \in SUBSET Targets, fetch' = [fetch EXCEPT ![j].left = L]
  PROVE  /\ fetch' \in [Jobs -> Fetch] /\ \A i \in Jobs \ {j} : fetch'[i] = fetch[i]
         /\ fetch'[j].left = L /\ fetch'[j].attempt = fetch[j].attempt
         /\ fetch'[j].listed = fetch[j].listed
<1> DEFINE f == [fetch[j] EXCEPT !.left = L]
<1>1. /\ f \in Fetch /\ f.left = L /\ f.attempt = fetch[j].attempt
      /\ f.listed = fetch[j].listed
  BY Types DEF Fetch
<1>2. fetch' = [fetch EXCEPT ![j] = f]
  BY DEF TypeOK
<1> HIDE DEF f
<1> QED
  BY <1>1, <1>2, FetchUpdate

LEMMA FetchAttempt ==
  ASSUME TypeOK, NEW j \in Jobs, NEW a \in Attempts, fetch' = [fetch EXCEPT ![j].attempt = a]
  PROVE  /\ fetch' \in [Jobs -> Fetch] /\ \A i \in Jobs \ {j} : fetch'[i] = fetch[i]
         /\ fetch'[j].attempt = a
<1> DEFINE f == [fetch[j] EXCEPT !.attempt = a]
<1>1. f \in Fetch /\ f.attempt = a
  BY Types DEF Fetch
<1>2. fetch' = [fetch EXCEPT ![j] = f]
  BY DEF TypeOK
<1> HIDE DEF f
<1> QED
  BY <1>1, <1>2, FetchUpdate

LEMMA FetchListed ==
  ASSUME TypeOK, NEW j \in Jobs, NEW l \in [Targets -> Attempts \cup {None}],
         fetch' = [fetch EXCEPT ![j].listed = l, ![j].left = Targets]
  PROVE  /\ fetch' \in [Jobs -> Fetch] /\ \A i \in Jobs \ {j} : fetch'[i] = fetch[i]
         /\ fetch'[j].attempt = fetch[j].attempt /\ fetch'[j].listed = l
<1> DEFINE f == [fetch[j] EXCEPT !.listed = l, !.left = Targets]
<1>1. f \in Fetch /\ f.attempt = fetch[j].attempt /\ f.listed = l
  BY Types DEF Fetch
<1>2. fetch' = [fetch EXCEPT ![j] = f]
  BY DEF TypeOK
<1> HIDE DEF f
<1> QED
  BY <1>1, <1>2, FetchUpdate

LEMMA NoFetchTypes == NoFetch \in Fetch
BY DEF NoFetch, Fetch, Unbuilt

LEMMA UnbuiltTypes == Unbuilt \in [Targets -> Content]
BY DEF Unbuilt, Content

\* A step that ends a job, and one that goes on.
LEMMA PlaceTypes ==
  {"idle", "failed", "write", "upload", "pack", "parent", "receipt", "recheck", "last", "delete",
   "rename", "done", "await", "list", "download", "refresh", "clean", "copy"} \subseteq Places
BY DEF Places, Steps

LEMMA FailTypes ==
  ASSUME TypeOK, NEW j \in Jobs, Fail(j)
  PROVE  /\ publish' \in [attempt : Attempts, state : {"active", "success", "failed"}]
         /\ publish'.attempt = publish.attempt
         /\ j = "publish" => publish'.state = "failed"
         /\ j # "publish" => publish' = publish
         /\ pc' \in [Jobs -> Places]
         /\ pc'[j] = "failed" /\ \A i \in Jobs \ {j} : pc'[i] = pc[i]
<1>1. pc \in [Jobs -> Places] /\ "failed" \in Places
  BY PlaceTypes DEF TypeOK
<1>2. publish \in [attempt : Attempts, state : {"active", "success", "failed"}]
  BY DEF TypeOK
<1>3. pc' = [pc EXCEPT ![j] = "failed"]
  BY DEF Fail
<1>4. publish' = IF j = "publish" THEN [publish EXCEPT !.state = "failed"] ELSE publish
  BY DEF Fail
<1>5. CASE j = "publish"
  BY <1>1, <1>2, <1>3, <1>4, <1>5
<1>6. CASE j # "publish"
  BY <1>1, <1>2, <1>3, <1>4, <1>6
<1> QED
  BY <1>5, <1>6

LEMMA GoTypes ==
  ASSUME TypeOK, NEW j \in Jobs, NEW step \in Places, Go(j, step)
  PROVE  /\ UNCHANGED publish /\ pc' \in [Jobs -> Places]
         /\ pc'[j] = step /\ \A i \in Jobs \ {j} : pc'[i] = pc[i]
BY DEF Go, TypeOK

LEMMA MoveTypes ==
  ASSUME TypeOK, NEW j \in Jobs, Fail(j) \/ \E step \in Places : Go(j, step)
  PROVE  /\ publish' \in [attempt : Attempts, state : {"active", "success", "failed"}]
         /\ pc' \in [Jobs -> Places]
<1>1. CASE Fail(j)
  BY <1>1, FailTypes
<1>2. ASSUME NEW step \in Places, Go(j, step)
      PROVE  publish' = publish /\ pc' \in [Jobs -> Places]
  BY <1>2, GoTypes
<1>3. publish \in [attempt : Attempts, state : {"active", "success", "failed"}]
  BY DEF TypeOK
<1> QED
  BY <1>1, <1>2, <1>3

LEMMA TakeTypes ==
  ASSUME IInv, NEW j \in Jobs, Take(j)
  PROVE  TypeOK'
<1> USE DEF IInv, Fetched, checkouts
<1>1. TypeOK
  OBVIOUS
<1>2. ASSUME Await(j) PROVE TypeOK'
  <2>1. fetch' \in [Jobs -> Fetch]
    BY <1>1, <1>2, FetchAttempt, Types DEF Await, TypeOK
  <2>9. Fail(j) \/ \E step \in Places : Go(j, step)
    BY <1>2, PlaceTypes DEF Await
  <2>10. /\ publish' \in [attempt : Attempts, state : {"active", "success", "failed"}]
         /\ pc' \in [Jobs -> Places]
    BY <1>1, <2>9, MoveTypes
  <2> QED
    BY <1>1, <1>2, <2>1, <2>10 DEF Await, TypeOK
<1>3. ASSUME List(j) PROVE TypeOK'
  <2>1. fetch' \in [Jobs -> Fetch]
    BY <1>1, <1>3, FetchListed, Types DEF List, TypeOK
  <2>9. Fail(j) \/ \E step \in Places : Go(j, step)
    BY <1>3, PlaceTypes DEF List
  <2>10. /\ publish' \in [attempt : Attempts, state : {"active", "success", "failed"}]
         /\ pc' \in [Jobs -> Places]
    BY <1>1, <2>9, MoveTypes
  <2> QED
    BY <1>1, <1>3, <2>1, <2>10 DEF List, TypeOK
<1>4. ASSUME NEW t \in Targets, Download(j, t) PROVE TypeOK'
  <2>1. fetch[j].left \ {t} \in SUBSET Targets
    BY <1>1, Types
  <2>2. fetch' \in [Jobs -> Fetch]
    BY <1>1, <1>4, <2>1, FetchLeft DEF Download, TypeOK
  <2>9. Fail(j) \/ \E step \in Places : Go(j, step)
    BY <1>4, PlaceTypes DEF Download
  <2>10. /\ publish' \in [attempt : Attempts, state : {"active", "success", "failed"}]
         /\ pc' \in [Jobs -> Places]
    BY <1>1, <2>9, MoveTypes
  <2> QED
    BY <1>1, <1>4, <2>2, <2>10 DEF Download, TypeOK
<1>5. ASSUME Refresh(j) PROVE TypeOK'
  <2>9. Fail(j) \/ \E step \in Places : Go(j, step)
    BY <1>5, PlaceTypes DEF Refresh
  <2>10. /\ publish' \in [attempt : Attempts, state : {"active", "success", "failed"}]
         /\ pc' \in [Jobs -> Places]
    BY <1>1, <2>9, MoveTypes
  <2> QED
    BY <1>1, <1>5, <2>10 DEF Refresh, TypeOK
<1>6. ASSUME Clean(j) PROVE TypeOK'
  <2>1. fetch' \in [Jobs -> Fetch]
    BY <1>1, <1>6, FetchLeft DEF Clean, TypeOK
  <2>9. Fail(j) \/ \E step \in Places : Go(j, step)
    BY <1>6, PlaceTypes DEF Clean
  <2>10. /\ publish' \in [attempt : Attempts, state : {"active", "success", "failed"}]
         /\ pc' \in [Jobs -> Places]
    BY <1>1, <2>9, MoveTypes
  <2> QED
    BY <1>1, <1>6, <2>1, <2>10 DEF Clean, TypeOK
<1>7. ASSUME NEW t \in Targets, Copy(j, t) PROVE TypeOK'
  <2>1. fetch[j].left \ {t} \in SUBSET Targets
    BY <1>1, Types
  <2>2. fetch' \in [Jobs -> Fetch]
    BY <1>1, <1>7, <2>1, FetchLeft DEF Copy
  <2>3. Staged(j)[t] \in Content
    BY <1>1, StagedTypes
  <2>4. payload' \in [Jobs -> [Targets -> Content]]
    BY <1>7, <2>3 DEF Copy, TypeOK
  <2>5. pc' \in [Jobs -> Places] /\ UNCHANGED publish
    BY <1>1, <1>7, GoTypes, PlaceTypes DEF Copy
  <2> QED
    BY <1>7, <2>2, <2>4, <2>5 DEF Copy, TypeOK
<1> QED
  BY <1>2, <1>3, <1>4, <1>5, <1>6, <1>7 DEF Take

LEMMA PublishTypes ==
  ASSUME IInv, WriteReceipt \/ Upload \/ Pack
  PROVE  TypeOK'
<1> USE DEF IInv
<1>1. TypeOK /\ "publish" \in Jobs
  BY DEF Jobs
<1>2. ASSUME WriteReceipt PROVE TypeOK'
  <2>1. fetch["publish"].attempt \in Attempts /\ fetch["publish"].listed \in Builds
    BY <1>1, <1>2, Types DEF WriteReceipt, FetchInv, TypeOK
  <2>2. payload["publish"] \in [Targets -> Content] /\ publish.attempt \in Attempts
    BY <1>1, Types DEF TypeOK
  <2>3. [publishRunAttempt |-> publish.attempt, runAttempt |-> fetch["publish"].attempt,
         artifacts |-> fetch["publish"].listed, files |-> payload["publish"]] \in Receipt
    BY <2>1, <2>2 DEF Receipt
  <2>4. receipt' \in [Jobs -> Receipt \cup {None, Torn}]
    BY <1>1, <1>2, <2>3 DEF WriteReceipt, TypeOK
  <2>9. Fail("publish") \/ \E step \in Places : Go("publish", step)
    BY <1>2, PlaceTypes DEF WriteReceipt
  <2>10. /\ publish' \in [attempt : Attempts, state : {"active", "success", "failed"}]
         /\ pc' \in [Jobs -> Places]
    BY <1>1, <2>9, MoveTypes
  <2> QED
    BY <1>1, <1>2, <2>4, <2>10 DEF WriteReceipt, TypeOK
<1>3. ASSUME Upload PROVE TypeOK'
  <2>1. receipt["publish"] \in Receipt /\ publish.attempt \in Attempts
    BY <1>1, <1>3, Types DEF Upload, FetchInv
  <2>2. uploaded' \in [Attempts -> Receipt \cup {None}]
    BY <1>3, <2>1 DEF Upload, TypeOK
  <2>9. Fail("publish") \/ \E step \in Places : Go("publish", step)
    BY <1>3, PlaceTypes DEF Upload
  <2>10. /\ publish' \in [attempt : Attempts, state : {"active", "success", "failed"}]
         /\ pc' \in [Jobs -> Places]
    BY <1>1, <2>9, MoveTypes
  <2> QED
    BY <1>1, <1>3, <2>2, <2>10 DEF Upload, TypeOK, checkouts
<1>4. ASSUME Pack PROVE TypeOK'
  <2>1. publish.attempt \in Attempts /\ payload["publish"] \in [Targets -> Content]
    BY <1>1, Types DEF TypeOK
  <2>2. CASE Fail("publish") /\ UNCHANGED packed
    BY <1>1, <1>4, <2>2, FailTypes, PlaceTypes DEF Pack, TypeOK, checkouts
  <2>3. CASE /\ packed' = [packed EXCEPT ![publish.attempt] = payload["publish"]]
             /\ pc' = [pc EXCEPT !["publish"] = "done"]
             /\ publish' = [publish EXCEPT !.state = "success"]
    BY <1>1, <1>4, <2>1, <2>3, PlaceTypes DEF Pack, TypeOK, checkouts
  <2> QED
    BY <1>4, <2>2, <2>3 DEF Pack
<1> QED
  BY <1>2, <1>3, <1>4

LEMMA ScanTypes ==
  ASSUME IInv, \/ StartScan \/ ReadParent \/ ReadReceipt \/ Recheck \/ Last
               \/ DeleteReceipt \/ RenameReceipt
  PROVE  TypeOK'
<1> USE DEF IInv, Restoring, checkouts
<1>1. TypeOK /\ "scan" \in Jobs
  BY DEF Jobs
<1>2. ASSUME StartScan PROVE TypeOK'
  <2>1. NoParent \in Parent
    BY DEF NoParent, Parent
  <2>2. fetch' \in [Jobs -> Fetch]
    BY <1>2, NoFetchTypes DEF StartScan, TypeOK
  <2>3. payload' \in [Jobs -> [Targets -> Content]]
    BY <1>2, UnbuiltTypes DEF StartScan, TypeOK
  <2>4. receipt' \in [Jobs -> Receipt \cup {None, Torn}]
    BY <1>2 DEF StartScan, TypeOK
  <2>9. Fail("scan") \/ \E step \in Places : Go("scan", step)
    BY <1>2, PlaceTypes DEF StartScan
  <2>10. /\ publish' \in [attempt : Attempts, state : {"active", "success", "failed"}]
         /\ pc' \in [Jobs -> Places]
    BY <1>1, <2>9, MoveTypes
  <2> QED
    BY <1>1, <1>2, <2>1, <2>2, <2>3, <2>4, <2>10 DEF StartScan, TypeOK
<1>3. ASSUME ReadParent PROVE TypeOK'
  <2>1. parent' \in Parent
    BY <1>1, <1>3, Types DEF ReadParent, TypeOK, Parent
  <2>9. Fail("scan") \/ \E step \in Places : Go("scan", step)
    BY <1>3, PlaceTypes DEF ReadParent
  <2>10. /\ publish' \in [attempt : Attempts, state : {"active", "success", "failed"}]
         /\ pc' \in [Jobs -> Places]
    BY <1>1, <2>9, MoveTypes
  <2> QED
    BY <1>1, <1>3, <2>1, <2>10 DEF ReadParent, TypeOK
<1>4. ASSUME ReadReceipt PROVE TypeOK'
  <2>1. parent' \in Parent
    <3>1. ASSUME NEW k \in Attempts, parent' = [parent EXCEPT !.got = uploaded[k]]
          PROVE  parent' \in Parent
      <4>1. uploaded[k] \in Receipt \cup {None} /\ parent \in Parent
        BY <1>1 DEF TypeOK
      <4> QED
        BY <3>1, <4>1 DEF Parent
    <3>2. CASE UNCHANGED parent
      BY <1>1, <3>2 DEF TypeOK
    <3> QED
      BY <1>4, <3>1, <3>2 DEF ReadReceipt
  <2>9. Fail("scan") \/ \E step \in Places : Go("scan", step)
    BY <1>4, PlaceTypes DEF ReadReceipt
  <2>10. /\ publish' \in [attempt : Attempts, state : {"active", "success", "failed"}]
         /\ pc' \in [Jobs -> Places]
    BY <1>1, <2>9, MoveTypes
  <2> QED
    BY <1>1, <1>4, <2>1, <2>10 DEF ReadReceipt, TypeOK
<1>5. ASSUME Recheck PROVE TypeOK'
  <2>1. parent' \in Parent
    BY <1>1, <1>5, Types DEF Recheck, TypeOK, Parent
  <2>9. Fail("scan") \/ \E step \in Places : Go("scan", step)
    BY <1>5, PlaceTypes DEF Recheck
  <2>10. /\ publish' \in [attempt : Attempts, state : {"active", "success", "failed"}]
         /\ pc' \in [Jobs -> Places]
    BY <1>1, <2>9, MoveTypes
  <2> QED
    BY <1>1, <1>5, <2>1, <2>10 DEF Recheck, TypeOK
<1>6. ASSUME Last PROVE TypeOK'
  <2>9. Fail("scan") \/ \E step \in Places : Go("scan", step)
    BY <1>6, PlaceTypes DEF Last
  <2>10. /\ publish' \in [attempt : Attempts, state : {"active", "success", "failed"}]
         /\ pc' \in [Jobs -> Places]
    BY <1>1, <2>9, MoveTypes
  <2> QED
    BY <1>1, <1>6, <2>10 DEF Last, TypeOK
<1>7. ASSUME DeleteReceipt PROVE TypeOK'
  <2>1. receipt' \in [Jobs -> Receipt \cup {None, Torn}]
    BY <1>7 DEF DeleteReceipt, TypeOK
  <2>9. Fail("scan") \/ \E step \in Places : Go("scan", step)
    BY <1>7, PlaceTypes DEF DeleteReceipt
  <2>10. /\ publish' \in [attempt : Attempts, state : {"active", "success", "failed"}]
         /\ pc' \in [Jobs -> Places]
    BY <1>1, <2>9, MoveTypes
  <2> QED
    BY <1>1, <1>7, <2>1, <2>10 DEF DeleteReceipt, TypeOK
<1>8. ASSUME RenameReceipt PROVE TypeOK'
  <2>1. receipt' \in [Jobs -> Receipt \cup {None, Torn}]
    BY <1>1, <1>8, Types DEF RenameReceipt, TypeOK
  <2>9. Fail("scan") \/ \E step \in Places : Go("scan", step)
    BY <1>8, PlaceTypes DEF RenameReceipt
  <2>10. /\ publish' \in [attempt : Attempts, state : {"active", "success", "failed"}]
         /\ pc' \in [Jobs -> Places]
    BY <1>1, <2>9, MoveTypes
  <2> QED
    BY <1>1, <1>8, <2>1, Types, <2>10 DEF RenameReceipt, TypeOK
<1> QED
  BY <1>2, <1>3, <1>4, <1>5, <1>6, <1>7, <1>8

LEMMA HubTypes ==
  ASSUME IInv, (\E t \in Targets : Build(t)) \/ Complete \/ RerunProducer \/ RerunPublish
  PROVE  TypeOK'
<1> USE DEF IInv, Quiet, checkouts
<1>1. TypeOK
  OBVIOUS
<1>2. ASSUME NEW t \in Targets, Build(t) PROVE TypeOK'
  BY <1>2, Types DEF Build, TypeOK
<1>3. ASSUME Complete PROVE TypeOK'
  <2>1. producer.built \in Builds
    BY <1>3, Types DEF Complete, Builds
  <2>2. faults' \in 0 .. MaxFaults /\ signed' \in [Attempts -> Builds \cup {None}]
    BY <1>3, <2>1, FaultTypes DEF Complete, TypeOK
  <2>3. producer' \in [attempt : Attempts, state : {"active", "signed", "failed"},
                       built : [Targets -> Attempts \cup {None}]]
    BY <1>3 DEF Complete, TypeOK
  <2> QED
    BY <1>3, <2>2, <2>3 DEF Complete, TypeOK
<1>4. ASSUME RerunProducer PROVE TypeOK'
  <2>1. producer.attempt + 1 \in Attempts
    BY <1>4, Types, BoundsAssumption DEF RerunProducer, Attempts
  <2>2. producer' \in [attempt : Attempts, state : {"active", "signed", "failed"},
                       built : [Targets -> Attempts \cup {None}]]
    BY <1>4, <2>1 DEF RerunProducer, TypeOK
  <2>3. faults' \in 0 .. MaxFaults
    BY <1>4, FaultTypes DEF RerunProducer
  <2> QED
    BY <1>4, <2>2, <2>3 DEF RerunProducer, TypeOK
<1>5. ASSUME RerunPublish PROVE TypeOK'
  <2>1. publish.attempt + 1 \in Attempts
    BY <1>5, Types, BoundsAssumption DEF RerunPublish, Attempts
  <2>2. publish' \in [attempt : Attempts, state : {"active", "success", "failed"}]
    BY <1>5, <2>1 DEF RerunPublish
  <2>3. faults' \in 0 .. MaxFaults
    BY <1>5, FaultTypes DEF RerunPublish, TypeOK
  <2>4. fetch' \in [Jobs -> Fetch] /\ pc' \in [Jobs -> Places]
    BY <1>5, NoFetchTypes, PlaceTypes DEF RerunPublish, TypeOK
  <2>5. payload' \in [Jobs -> [Targets -> Content]]
    BY <1>5, UnbuiltTypes DEF RerunPublish, TypeOK
  <2>7. receipt' \in [Jobs -> Receipt \cup {None, Torn}]
    BY <1>5 DEF RerunPublish, TypeOK
  <2>6. repeated' \in BOOLEAN
    BY <1>5 DEF RerunPublish, TypeOK, Relies
  <2> QED
    BY <1>5, <2>2, <2>3, <2>4, <2>5, <2>6, <2>7 DEF RerunPublish, TypeOK
<1> QED
  BY <1>2, <1>3, <1>4, <1>5

LEMMA DieTypes ==
  ASSUME TypeOK, NEW j \in Jobs, Die(j)
  PROVE  TypeOK'
<1>1. faults' \in 0 .. MaxFaults
  BY FaultTypes DEF Die
<1>2. payload' \in [Jobs -> [Targets -> Content]]
  <2>1. Torn \in Content /\ fetch[j].left \subseteq Targets
    BY Types DEF Content
  <2> QED
    BY <2>1 DEF Die, TypeOK, checkouts
<1>3. receipt' \in [Jobs -> Receipt \cup {None, Torn}]
  BY DEF Die, TypeOK, checkouts
<1> QED
  BY <1>1, <1>2, <1>3, FailTypes, PlaceTypes DEF Die, TypeOK

\* The types.
LEMMA TypeNext ==
  ASSUME IInv, [Next]_vars
  PROVE  TypeOK'
<1>1. UNCHANGED vars => TypeOK'
  BY DEF IInv, TypeOK, vars, runs, checkouts
<1> QED
  BY <1>1, TakeTypes, PublishTypes, ScanTypes, HubTypes, DieTypes
     DEF Next, Prepare, Restore, Jobs, IInv

-----------------------------------------------------------------------------
(* What each job leaves alone *)

Mine(j) == <<pc[j], fetch[j], payload[j], receipt[j]>>

\* A step of one job is none of the other's.
LEMMA JobsApart ==
  ASSUME TypeOK, NEW i \in Jobs, NEW j \in Jobs \ {i}, Take(i) \/ Die(i)
  PROVE  UNCHANGED <<Mine(j), producer, uploaded, parent, signed, packed, repeated>>
<1> USE DEF Fetched, checkouts
<1>1. ASSUME NEW step \in Places, Go(i, step) PROVE UNCHANGED pc[j]
  BY <1>1, GoTypes
<1>2. ASSUME Fail(i) PROVE UNCHANGED pc[j]
  BY <1>2, FailTypes
<1>3. UNCHANGED pc[j]
  BY <1>1, <1>2, PlaceTypes DEF Take, Die, Await, List, Download, Refresh, Clean, Copy
<1>4. UNCHANGED <<fetch[j], payload[j], receipt[j]>>
  BY DEF TypeOK, Take, Die, Await, List, Download, Refresh, Clean, Copy
<1>5. UNCHANGED <<producer, uploaded, parent, signed, packed, repeated>>
  BY DEF Take, Die, Await, List, Download, Refresh, Clean, Copy
<1> QED
  BY <1>3, <1>4, <1>5 DEF Mine

Scanning ==
  \/ StartScan \/ ReadParent \/ ReadReceipt \/ Recheck \/ Take("scan") \/ Last
  \/ DeleteReceipt \/ RenameReceipt \/ Die("scan")

LEMMA ScanApart ==
  ASSUME TypeOK, Scanning
  PROVE  UNCHANGED <<Mine("publish"), producer, publish, uploaded, signed, packed>>
<1> USE DEF Restoring, checkouts
<1>1. "scan" \in Jobs /\ "publish" \in Jobs \ {"scan"}
  BY DEF Jobs
<1>2. ASSUME Take("scan") \/ Die("scan")
      PROVE  UNCHANGED <<Mine("publish"), producer, publish, uploaded, signed, packed>>
  <2>1. UNCHANGED <<Mine("publish"), producer, uploaded, signed, packed>>
    BY <1>1, <1>2, JobsApart
  <2>2. UNCHANGED publish
    BY <1>2 DEF Take, Die, Await, List, Download, Refresh, Clean, Copy, Go, Fail
  <2> QED
    BY <2>1, <2>2
<1>3. ASSUME StartScan \/ ReadParent \/ ReadReceipt \/ Recheck \/ Last \/ DeleteReceipt
             \/ RenameReceipt
      PROVE  UNCHANGED <<Mine("publish"), producer, publish, uploaded, signed, packed>>
  <2>1. UNCHANGED <<producer, publish, uploaded, signed, packed>>
    BY <1>3 DEF StartScan, ReadParent, ReadReceipt, Recheck, Last, DeleteReceipt, RenameReceipt,
                Go, Fail
  <2>2. UNCHANGED pc["publish"]
    BY <1>1, <1>3 DEF TypeOK, StartScan, ReadParent, ReadReceipt, Recheck, Last, DeleteReceipt,
                      RenameReceipt, Go, Fail
  <2>3. UNCHANGED <<fetch["publish"], payload["publish"], receipt["publish"]>>
    BY <1>1, <1>3 DEF TypeOK, StartScan, ReadParent, ReadReceipt, Recheck, Last, DeleteReceipt,
                      RenameReceipt
  <2> QED
    BY <2>1, <2>2, <2>3 DEF Mine
<1> QED
  BY <1>2, <1>3 DEF Scanning

Publishing == Take("publish") \/ WriteReceipt \/ Upload \/ Pack \/ Die("publish")

LEMMA PublishApart ==
  ASSUME TypeOK, Publishing
  PROVE  UNCHANGED <<Mine("scan"), producer, publish.attempt, parent, signed, repeated>>
<1> USE DEF checkouts
<1>1. "publish" \in Jobs /\ "scan" \in Jobs \ {"publish"}
  BY DEF Jobs
<1>2. ASSUME Take("publish") \/ Die("publish")
      PROVE  UNCHANGED <<Mine("scan"), producer, publish.attempt, parent, signed, repeated>>
  <2>1. UNCHANGED <<Mine("scan"), producer, parent, signed, repeated>>
    BY <1>1, <1>2, JobsApart
  <2>2. Fail("publish") => UNCHANGED publish.attempt
    BY <1>1, FailTypes
  <2>3. UNCHANGED publish.attempt
    BY <1>2, <2>2 DEF Take, Die, Await, List, Download, Refresh, Clean, Copy, Go
  <2> QED
    BY <2>1, <2>3
<1>3. ASSUME WriteReceipt \/ Upload \/ Pack
      PROVE  UNCHANGED <<Mine("scan"), producer, publish.attempt, parent, signed, repeated>>
  <2>1. UNCHANGED <<producer, publish.attempt, parent, signed, repeated>>
    BY <1>3 DEF TypeOK, WriteReceipt, Upload, Pack, Go, Fail
  <2>2. UNCHANGED pc["scan"]
    BY <1>1, <1>3 DEF TypeOK, WriteReceipt, Upload, Pack, Go, Fail
  <2>3. UNCHANGED <<fetch["scan"], payload["scan"], receipt["scan"]>>
    BY <1>1, <1>3 DEF TypeOK, WriteReceipt, Upload, Pack
  <2> QED
    BY <2>1, <2>2, <2>3 DEF Mine
<1> QED
  BY <1>2, <1>3 DEF Publishing

Hub == (\E t \in Targets : Build(t)) \/ Complete \/ RerunProducer

LEMMA HubApart ==
  ASSUME Hub
  PROVE  UNCHANGED <<publish, uploaded, pc, fetch, parent, payload, receipt, packed, repeated>>
BY DEF Hub, Build, Complete, RerunProducer, Quiet, checkouts

LEMMA RerunApart ==
  ASSUME TypeOK, RerunPublish
  PROVE  UNCHANGED <<Mine("scan"), producer, uploaded, parent, signed, packed>>
BY DEF TypeOK, Jobs, Mine, RerunPublish, checkouts

LEMMA Cases ==
  ASSUME [Next]_vars
  PROVE  Scanning \/ Publishing \/ Hub \/ RerunPublish \/ UNCHANGED vars
BY DEF Next, Scanning, Publishing, Hub, Prepare, Restore, Jobs

LEMMA NoPayload == None \notin [Targets -> Content]
BY NoneAssumption

LEMMA NoBuilds == None \notin Builds
BY NoPayload DEF Builds, Content

-----------------------------------------------------------------------------
(* What is signed, uploaded and packed *)

\* What an attempt has signed, uploaded or packed stays.
Kept ==
  \A a \in Attempts :
    /\ signed[a] # None => signed'[a] = signed[a]
    /\ uploaded[a] # None => uploaded'[a] = uploaded[a]
    /\ packed[a] # None => packed'[a] = packed[a]

LEMMA KeptNext ==
  ASSUME IInv, [Next]_vars
  PROVE  Kept
<1> USE DEF IInv
<1>1. ASSUME UNCHANGED <<signed, uploaded, packed>> PROVE Kept
  BY <1>1 DEF Kept
<1>2. ASSUME Complete PROVE Kept
  BY <1>2, Types DEF Complete, Kept, ProducerInv, TypeOK, Quiet
<1>3. ASSUME Upload PROVE Kept
  BY <1>3, Types DEF Upload, Kept, PublishInv, TypeOK, Working
<1>4. ASSUME Pack PROVE Kept
  BY <1>4, Types DEF Pack, Kept, PublishInv, TypeOK, Working, Fail
<1>5. ASSUME Take("publish") \/ Die("publish") PROVE UNCHANGED <<signed, uploaded, packed>>
  BY <1>5 DEF Take, Die, Await, List, Download, Refresh, Clean, Copy, Fetched
<1>6. ASSUME WriteReceipt \/ (\E t \in Targets : Build(t)) \/ RerunProducer \/ UNCHANGED vars
      PROVE  UNCHANGED <<signed, uploaded, packed>>
  BY <1>6 DEF WriteReceipt, Build, RerunProducer, Quiet, vars, runs
<1> QED
  BY <1>1, <1>2, <1>3, <1>4, <1>5, <1>6, Cases, ScanApart, RerunApart DEF Publishing, Hub

\* The producer's run.
LEMMA ProducerNext ==
  ASSUME IInv, [Next]_vars
  PROVE  ProducerInv'
<1> USE DEF IInv
<1>1. ASSUME UNCHANGED <<producer, signed>> PROVE ProducerInv'
  BY <1>1 DEF ProducerInv
<1>2. ASSUME NEW t \in Targets, Build(t) PROVE ProducerInv'
  <2>1. /\ producer'.attempt = producer.attempt /\ producer'.state = "active"
        /\ producer.state = "active" /\ UNCHANGED signed
    BY <1>2 DEF Build, TypeOK
  <2> QED
    BY <2>1 DEF ProducerInv
<1>3. ASSUME Complete PROVE ProducerInv'
  <2>1. /\ producer'.attempt = producer.attempt /\ producer'.built = producer.built
        /\ producer.state = "active" /\ producer.attempt \in Attempts
    BY <1>3, Types DEF Complete, TypeOK
  <2>2. signed[producer.attempt] = None
    BY <2>1 DEF ProducerInv
  <2>3. CASE producer'.state = "signed" /\ signed' = [signed EXCEPT ![producer.attempt] = producer.built]
    <3>1. producer.built # None
      <4>1. producer.built \in Builds
        BY <1>3, Types DEF Complete, Builds
      <4> QED
        BY <4>1, NoBuilds
    <3>2. signed'[producer.attempt] = producer.built
      BY <2>1, <2>3 DEF TypeOK
    <3>3. \A k \in Attempts : k > producer.attempt => signed'[k] = signed[k]
      BY <2>1, <2>3, AttemptTypes DEF TypeOK
    <3> QED
      BY <2>1, <2>3, <3>1, <3>2, <3>3 DEF ProducerInv
  <2>4. CASE producer'.state = "failed" /\ UNCHANGED signed
    BY <2>1, <2>2, <2>4 DEF ProducerInv
  <2> QED
    BY <1>3, <2>3, <2>4 DEF Complete, TypeOK
<1>4. ASSUME RerunProducer PROVE ProducerInv'
  <2>1. /\ producer'.attempt = producer.attempt + 1 /\ producer'.state = "active"
        /\ UNCHANGED signed
    BY <1>4 DEF RerunProducer, TypeOK
  <2>2. producer.attempt \in Nat /\ producer.attempt + 1 \in Attempts
    BY <1>4, Types, BoundsAssumption DEF RerunProducer, Attempts
  <2>3. \A k \in Attempts : k > producer.attempt => signed[k] = None
    BY DEF ProducerInv
  <2>4. \A k \in Attempts : k > producer.attempt + 1 => k > producer.attempt
    BY <2>2, AttemptTypes
  <2>5. signed[producer.attempt + 1] = None
    BY <2>2, <2>3
  <2> QED
    BY <2>1, <2>3, <2>4, <2>5 DEF ProducerInv
<1>5. ASSUME UNCHANGED vars PROVE UNCHANGED <<producer, signed>>
  BY <1>5 DEF vars, runs
<1> QED
  BY <1>1, <1>2, <1>3, <1>4, <1>5, Cases, ScanApart, PublishApart, RerunApart DEF Hub

\* The publish run.
LEMMA PublishNext ==
  ASSUME IInv, [Next]_vars
  PROVE  PublishInv'
<1> USE DEF IInv
<1>0. TypeOK /\ "publish" \in Jobs /\ publish.attempt \in Attempts
  BY Types DEF Jobs
<1>1. ASSUME UNCHANGED <<publish, uploaded, packed, pc["publish"]>> PROVE PublishInv'
  BY <1>1 DEF PublishInv
<1>2. ASSUME Fail("publish"), UNCHANGED <<uploaded, packed>>, pc["publish"] \in Working
      PROVE  PublishInv'
  <2>1. /\ publish'.attempt = publish.attempt /\ publish'.state = "failed"
        /\ pc'["publish"] = "failed"
    BY <1>0, <1>2, FailTypes
  <2>2. "failed" \notin Working
    BY DEF Working, Steps
  <2> QED
    BY <1>2, <2>1, <2>2 DEF PublishInv
<1>3. ASSUME NEW step \in Working, Go("publish", step), UNCHANGED packed, pc["publish"] \in Working,
             pc["publish"] # "pack", step # "pack" => UNCHANGED uploaded,
             \A a \in Attempts \ {publish.attempt} : uploaded'[a] = uploaded[a]
      PROVE  PublishInv'
  <2>1. step \in Places
    BY DEF Working, Places
  <2>2. UNCHANGED publish /\ pc'["publish"] = step
    BY <1>0, <1>3, <2>1, GoTypes
  <2>3. \A a \in Attempts : a > publish.attempt => a # publish.attempt
    BY <1>0, AttemptTypes
  <2> QED
    BY <1>0, <1>3, <2>2, <2>3 DEF PublishInv
<1>4. ASSUME Take("publish") PROVE PublishInv'
  <2>1. pc["publish"] \in Working /\ pc["publish"] # "pack" /\ UNCHANGED <<uploaded, packed>>
    BY <1>4 DEF Take, Await, List, Download, Refresh, Clean, Copy, Fetched, Working, Steps
  <2>2. Fail("publish") \/ \E step \in Working : Go("publish", step)
    BY <1>4 DEF Take, Await, List, Download, Refresh, Clean, Copy, Working, Steps
  <2> QED
    BY <1>2, <1>3, <2>1, <2>2
<1>5. ASSUME WriteReceipt PROVE PublishInv'
  BY <1>3, <1>5 DEF WriteReceipt, Working, Steps
<1>6. ASSUME Upload PROVE PublishInv'
  <2>1. \A a \in Attempts \ {publish.attempt} : uploaded'[a] = uploaded[a]
    BY <1>6 DEF Upload, TypeOK
  <2> QED
    BY <1>3, <1>6, <2>1 DEF Upload, Working
<1>7. ASSUME Pack PROVE PublishInv'
  <2>1. CASE Fail("publish") /\ UNCHANGED packed
    BY <1>2, <1>7, <2>1 DEF Pack, Working
  <2>2. CASE /\ packed' = [packed EXCEPT ![publish.attempt] = payload["publish"]]
             /\ pc' = [pc EXCEPT !["publish"] = "done"]
             /\ publish' = [publish EXCEPT !.state = "success"]
    <3>1. /\ publish'.attempt = publish.attempt /\ publish'.state = "success"
          /\ pc'["publish"] = "done" /\ packed'[publish.attempt] = payload["publish"]
          /\ \A a \in Attempts \ {publish.attempt} : packed'[a] = packed[a]
      BY <1>0, <2>2 DEF TypeOK
    <3>2. payload["publish"] # None
      BY <1>0, NoPayload DEF TypeOK
    <3>3. "done" \notin Working /\ UNCHANGED uploaded
      BY <1>7 DEF Working, Steps, Pack
    <3>4. \A a \in Attempts : a > publish.attempt => a # publish.attempt
      BY <1>0, AttemptTypes
    <3> QED
      BY <3>1, <3>2, <3>3, <3>4 DEF PublishInv
  <2> QED
    BY <1>7, <2>1, <2>2 DEF Pack
<1>8. ASSUME Die("publish") PROVE PublishInv'
  <2>1. pc["publish"] \in Working
    BY <1>8 DEF Die, PublishInv
  <2> QED
    BY <1>2, <1>8, <2>1 DEF Die
<1>9. ASSUME RerunPublish PROVE PublishInv'
  <2>1. /\ publish'.attempt = publish.attempt + 1 /\ publish'.state = "active"
        /\ pc'["publish"] = "await" /\ UNCHANGED <<uploaded, packed>>
    BY <1>0, <1>9 DEF RerunPublish, TypeOK
  <2>2. publish.attempt + 1 \in Attempts /\ publish.attempt \in Nat
    BY <1>0, <1>9, BoundsAssumption DEF RerunPublish, Attempts
  <2>3. \A a \in Attempts : a > publish.attempt => uploaded[a] = None /\ packed[a] = None
    BY DEF PublishInv
  <2>4. "await" \in Working
    BY DEF Working, Steps
  <2>5. uploaded[publish.attempt + 1] = None /\ packed[publish.attempt + 1] = None
    BY <2>2, <2>3
  <2>6. \A a \in Attempts : a > publish.attempt + 1 => a > publish.attempt
    BY <2>2, AttemptTypes
  <2> QED
    BY <2>1, <2>3, <2>4, <2>5, <2>6 DEF PublishInv
<1>10. ASSUME UNCHANGED vars PROVE UNCHANGED <<publish, uploaded, packed, pc["publish"]>>
  BY <1>10 DEF vars, runs
<1>11. ASSUME Scanning \/ Hub PROVE UNCHANGED <<publish, uploaded, packed, pc["publish"]>>
  BY <1>11, ScanApart, HubApart DEF Mine
<1> QED
  BY <1>1, <1>4, <1>5, <1>6, <1>7, <1>8, <1>9, <1>10, <1>11, Cases DEF Publishing

\* A receipt that is good stays so.
LEMMA GoodStays ==
  ASSUME IInv, [Next]_vars, NEW r \in Receipt, Good(r)
  PROVE  Good(r)'
BY KeptNext, ReceiptTypes DEF Kept, Good

\* The publish job's download.
LEMMA FetchNext ==
  ASSUME IInv, [Next]_vars
  PROVE  FetchInv'
<1> USE DEF IInv
<1> DEFINE f == fetch["publish"]
<1>0. TypeOK /\ "publish" \in Jobs /\ publish.attempt \in Attempts
  BY Types DEF Jobs
<1>1. /\ f.attempt \in Attempts \cup {None} /\ f.listed \in [Targets -> Attempts \cup {None}]
      /\ f.left \subseteq Targets /\ producer.attempt \in Attempts
  BY <1>0, Types
<1>2. ASSUME UNCHANGED <<Mine("publish"), producer, signed, uploaded, publish.attempt>>
      PROVE  FetchInv'
  BY <1>2 DEF FetchInv, Mine, Good
<1>3. ASSUME pc'["publish"] \in {"failed", "done", "await"} PROVE FetchInv'
  BY <1>3 DEF FetchInv
<1>4. ASSUME Fail("publish") PROVE FetchInv'
  BY <1>0, <1>3, <1>4, FailTypes
<1>5. ASSUME Await("publish") PROVE FetchInv'
  <2>1. CASE Go("publish", "list") /\ fetch' = [fetch EXCEPT !["publish"].attempt = producer.attempt]
             /\ producer.state = "signed"
    <3>1. pc'["publish"] = "list"
      BY <1>0, <2>1, GoTypes, PlaceTypes
    <3>2. fetch'["publish"].attempt = producer.attempt /\ producer.attempt # None
      BY <1>0, <1>1, <2>1, FetchAttempt, AttemptTypes
    <3>3. signed[producer.attempt] # None /\ UNCHANGED signed
      BY <1>5, <2>1 DEF ProducerInv, Await, Fetched
    <3> QED
      BY <3>1, <3>2, <3>3 DEF FetchInv
  <2> QED
    BY <1>4, <1>5, <2>1 DEF Await
<1>6. ASSUME List("publish") PROVE FetchInv'
  <2>1. CASE /\ Go("publish", "download")
             /\ fetch' = [fetch EXCEPT !["publish"].listed = producer.built, !["publish"].left = Targets]
    <3>1. pc'["publish"] = "download"
      BY <1>0, <2>1, GoTypes, PlaceTypes
    <3>2. fetch'["publish"].attempt = f.attempt /\ fetch'["publish"].listed = producer.built
      BY <1>0, <2>1, FetchListed, Types
    <3>3. UNCHANGED <<producer, signed>> /\ f.attempt # None /\ signed[f.attempt] # None
      BY <1>6 DEF List, Fetched, FetchInv
    <3>4. producer.attempt = f.attempt => producer.built = signed[f.attempt]
      BY <3>3 DEF ProducerInv
    <3> QED
      BY <3>1, <3>2, <3>3, <3>4 DEF FetchInv
  <2> QED
    BY <1>4, <1>6, <2>1 DEF List
<1>7. ASSUME NEW t \in Targets, Download("publish", t) PROVE FetchInv'
  <2>1. CASE /\ fetch' = [fetch EXCEPT !["publish"].left = @ \ {t}]
             /\ Go("publish", IF f.left = {t} THEN "refresh" ELSE "download")
    <3>1. pc'["publish"] \in {"refresh", "download"}
      BY <1>0, <2>1, GoTypes, PlaceTypes
    <3>2. fetch'["publish"].attempt = f.attempt /\ fetch'["publish"].listed = f.listed
      <4>1. f.left \ {t} \in SUBSET Targets
        BY <1>1
      <4> QED
        BY <1>0, <2>1, <4>1, FetchLeft
    <3>3. UNCHANGED <<producer, signed>> /\ pc["publish"] = "download"
      BY <1>7 DEF Download, Fetched
    <3> QED
      BY <3>1, <3>2, <3>3 DEF FetchInv
  <2> QED
    BY <1>4, <1>7, <2>1 DEF Download
<1>8. ASSUME Refresh("publish") PROVE FetchInv'
  <2>1. CASE Go("publish", "clean") /\ producer.state = "signed" /\ producer.attempt = f.attempt
    <3>1. pc'["publish"] = "clean" /\ UNCHANGED <<fetch, signed, producer>>
      BY <1>0, <1>8, <2>1, GoTypes, PlaceTypes DEF Refresh, Fetched
    <3>2. f.attempt # None /\ signed[f.attempt] # None /\ f.listed = signed[f.attempt]
      BY <1>8, <2>1 DEF Refresh, FetchInv
    <3> QED
      BY <3>1, <3>2 DEF FetchInv
  <2> QED
    BY <1>4, <1>8, <2>1 DEF Refresh
<1>9. ASSUME Clean("publish") PROVE FetchInv'
  <2>1. CASE Go("publish", "copy") /\ fetch' = [fetch EXCEPT !["publish"].left = Targets]
    <3>1. pc'["publish"] = "copy" /\ UNCHANGED signed
      BY <1>0, <1>9, <2>1, GoTypes, PlaceTypes DEF Clean, Fetched
    <3>2. /\ fetch'["publish"].left = Targets /\ fetch'["publish"].attempt = f.attempt
          /\ fetch'["publish"].listed = f.listed
      BY <1>0, <2>1, FetchLeft
    <3>3. f.attempt # None /\ signed[f.attempt] # None /\ f.listed = signed[f.attempt]
      BY <1>9 DEF Clean, FetchInv
    <3> QED
      BY <3>1, <3>2, <3>3 DEF FetchInv
  <2> QED
    BY <1>4, <1>9, <2>1 DEF Clean
<1>10. ASSUME NEW t \in Targets, Copy("publish", t) PROVE FetchInv'
  <2>1. /\ fetch'["publish"].left = f.left \ {t} /\ fetch'["publish"].attempt = f.attempt
        /\ fetch'["publish"].listed = f.listed
    <3>1. f.left \ {t} \in SUBSET Targets
      BY <1>1
    <3> QED
      BY <1>0, <1>10, <3>1, FetchLeft DEF Copy
  <2>2. /\ payload'["publish"][t] = Bytes(t, f.listed[t])
        /\ \A u \in Targets \ {t} : payload'["publish"][u] = payload["publish"][u]
    <3>1. Staged("publish")[t] = Bytes(t, f.listed[t])
      BY DEF Staged
    <3>2. payload["publish"] \in [Targets -> Content]
      BY <1>0 DEF TypeOK
    <3> QED
      BY <1>0, <1>10, <3>1, <3>2 DEF Copy, TypeOK
  <2>3. /\ f.attempt # None /\ signed[f.attempt] # None /\ f.listed = signed[f.attempt]
        /\ \A u \in Targets \ f.left : payload["publish"][u] = Bytes(u, f.listed[u])
    BY <1>10 DEF Copy, FetchInv
  <2>4. \A u \in Targets \ (f.left \ {t}) : payload'["publish"][u] = Bytes(u, f.listed[u])
    BY <2>2, <2>3
  <2>5. UNCHANGED signed /\ pc'["publish"] \in {"copy", "write"}
    BY <1>0, <1>10, GoTypes, PlaceTypes DEF Copy
  <2>6. pc'["publish"] = "write" => f.left = {t}
    BY <1>0, <1>10, GoTypes, PlaceTypes DEF Copy
  <2> QED
    BY <2>1, <2>3, <2>4, <2>5, <2>6 DEF FetchInv
<1>11. ASSUME WriteReceipt PROVE FetchInv'
  <2> DEFINE r == [publishRunAttempt |-> publish.attempt, runAttempt |-> f.attempt,
                   artifacts |-> f.listed, files |-> payload["publish"]]
  <2>1. pc'["publish"] = "upload" /\ UNCHANGED <<signed, publish>>
    BY <1>0, <1>11, GoTypes, PlaceTypes DEF WriteReceipt
  <2>2. receipt'["publish"] = r
    BY <1>0, <1>11 DEF WriteReceipt, TypeOK
  <2>3. /\ signed[f.attempt] # None /\ f.listed = signed[f.attempt] /\ f.attempt # None
        /\ \A t \in Targets : payload["publish"][t] = Bytes(t, f.listed[t])
    BY <1>11 DEF WriteReceipt, FetchInv
  <2>4. payload["publish"] \in [Targets -> Content]
    BY <1>0 DEF TypeOK
  <2>5. payload["publish"] = [t \in Targets |-> Bytes(t, f.listed[t])]
    BY <2>3, <2>4
  <2>6. r \in Receipt
    <3>1. f.attempt \in Attempts /\ f.listed \in Builds
      BY <1>0, <1>1, <2>3 DEF TypeOK
    <3> QED
      BY <1>0, <2>4, <3>1 DEF Receipt
  <2>7. /\ r.runAttempt = f.attempt /\ r.artifacts = f.listed /\ r.files = payload["publish"]
        /\ r.publishRunAttempt = publish.attempt
    OBVIOUS
  <2> HIDE DEF r
  <2>8. receipt'["publish"] \in Receipt /\ receipt'["publish"].publishRunAttempt = publish'.attempt
    BY <2>1, <2>2, <2>6, <2>7
  <2>9. Good(receipt["publish"])'
    BY <2>1, <2>2, <2>3, <2>5, <2>7 DEF Good
  <2> QED
    BY <2>1, <2>8, <2>9 DEF FetchInv
<1>12. ASSUME Upload PROVE FetchInv'
  <2>1. pc'["publish"] = "pack" /\ UNCHANGED <<receipt, publish>>
    BY <1>0, <1>12, GoTypes, PlaceTypes DEF Upload, checkouts
  <2>2. uploaded'[publish.attempt] = receipt["publish"] /\ receipt["publish"] \in Receipt
    BY <1>0, <1>12 DEF Upload, TypeOK, FetchInv
  <2> QED
    BY <2>1, <2>2, ReceiptTypes DEF FetchInv
<1>13. ASSUME Pack PROVE FetchInv'
  <2>1. CASE pc' = [pc EXCEPT !["publish"] = "done"]
    BY <1>0, <1>3, <2>1 DEF TypeOK
  <2> QED
    BY <1>4, <1>13, <2>1 DEF Pack
<1>14. ASSUME RerunPublish PROVE FetchInv'
  BY <1>0, <1>3, <1>14 DEF RerunPublish, TypeOK
<1>15. ASSUME Hub PROVE FetchInv'
  <2>1. UNCHANGED <<Mine("publish"), uploaded, publish>>
    BY <1>15, HubApart DEF Mine
  <2>2. \A a \in Attempts : signed[a] # None => signed'[a] = signed[a]
    BY KeptNext DEF Kept
  <2>3. ASSUME pc["publish"] \in {"download", "refresh"}, producer'.attempt = f.attempt
        PROVE  producer.attempt = f.attempt
    <3>1. f.attempt # None /\ signed[f.attempt] # None
      BY <2>3 DEF FetchInv
    <3>2. f.attempt <= producer.attempt
      BY <1>1, <3>1, AttemptTypes DEF ProducerInv
    <3>3. ASSUME RerunProducer PROVE FALSE
      <4>1. producer'.attempt = producer.attempt + 1
        BY <3>3 DEF RerunProducer, TypeOK
      <4> QED
        BY <1>1, <2>3, <3>1, <3>2, <4>1, AttemptTypes
    <3>4. ASSUME Complete \/ \E t \in Targets : Build(t) PROVE producer'.attempt = producer.attempt
      BY <3>4 DEF Complete, Build, TypeOK
    <3> QED
      BY <1>15, <2>3, <3>3, <3>4 DEF Hub
  <2>4. ASSUME pc["publish"] = "upload" PROVE Good(receipt["publish"])'
    BY <2>1, <2>4, GoodStays DEF FetchInv, Mine, Good
  <2>5. pc["publish"] \in {"list", "download", "refresh", "clean", "copy", "write"} =>
          f.attempt \in Attempts /\ signed'[f.attempt] = signed[f.attempt]
    BY <1>1, <2>2 DEF FetchInv
  <2> QED
    BY <2>1, <2>3, <2>4, <2>5 DEF FetchInv, Mine
<1>16. ASSUME Scanning PROVE FetchInv'
  BY <1>0, <1>2, <1>16, ScanApart
<1>17. ASSUME UNCHANGED vars PROVE FetchInv'
  BY <1>2, <1>17 DEF vars, runs, checkouts, Mine
<1>18. ASSUME Die("publish") PROVE FetchInv'
  BY <1>4, <1>18 DEF Die
<1>19. ASSUME Take("publish") PROVE FetchInv'
  BY <1>5, <1>6, <1>7, <1>8, <1>9, <1>10, <1>19 DEF Take
<1> QED
  BY <1>11, <1>12, <1>13, <1>14, <1>15, <1>16, <1>17, <1>18, <1>19, Cases DEF Publishing

\* What is uploaded is good, and packed as it is.
LEMMA UploadedNext ==
  ASSUME IInv, [Next]_vars
  PROVE  UploadedInv'
<1> USE DEF IInv
<1>0. TypeOK /\ publish.attempt \in Attempts
  BY Types
<1>1. \A a \in Attempts : uploaded[a] # None => Good(uploaded[a]) /\ uploaded[a] \in Receipt
  BY <1>0 DEF UploadedInv, TypeOK
<1>2. ASSUME NEW a \in Attempts, uploaded[a] # None, UNCHANGED uploaded[a]
      PROVE  Good(uploaded[a])'
  <2>1. signed[uploaded[a].runAttempt] # None /\ uploaded[a].runAttempt \in Attempts
    BY <1>1, <1>2, ReceiptTypes DEF Good
  <2>2. signed'[uploaded[a].runAttempt] = signed[uploaded[a].runAttempt]
    BY <2>1, KeptNext DEF Kept
  <2> QED
    BY <1>1, <1>2, <2>2 DEF Good
<1>3. ASSUME UNCHANGED <<uploaded, packed>> PROVE UploadedInv'
  BY <1>2, <1>3 DEF UploadedInv
<1>4. ASSUME Upload PROVE UploadedInv'
  <2>1. /\ uploaded'[publish.attempt] = receipt["publish"] /\ UNCHANGED <<packed, signed, publish>>
        /\ \A a \in Attempts \ {publish.attempt} : uploaded'[a] = uploaded[a]
    BY <1>0, <1>4 DEF Upload, TypeOK, Go
  <2>2. Good(receipt["publish"]) /\ receipt["publish"].publishRunAttempt = publish.attempt
    BY <1>4 DEF Upload, FetchInv
  <2>3. packed[publish.attempt] = None
    BY <1>0, <1>4 DEF Upload, PublishInv, Working
  <2>4. Good(uploaded[publish.attempt])'
    BY <2>1, <2>2 DEF Good
  <2> QED
    BY <1>2, <2>1, <2>2, <2>3, <2>4 DEF UploadedInv
<1>5. ASSUME Pack PROVE UploadedInv'
  <2>1. CASE UNCHANGED packed
    BY <1>3, <1>5, <2>1 DEF Pack
  <2>2. CASE packed' = [packed EXCEPT ![publish.attempt] = payload["publish"]]
             /\ Verifies("publish", publish.attempt)
    <3>1. /\ packed'[publish.attempt] = payload["publish"] /\ UNCHANGED uploaded
          /\ \A a \in Attempts \ {publish.attempt} : packed'[a] = packed[a]
      BY <1>0, <1>5, <2>2 DEF TypeOK, Pack
    <3>2. /\ uploaded[publish.attempt] = receipt["publish"] /\ uploaded[publish.attempt] # None
          /\ payload["publish"] = receipt["publish"].files
      BY <1>5, <2>2 DEF Pack, FetchInv, Verifies
    <3> QED
      BY <1>2, <3>1, <3>2 DEF UploadedInv
  <2> QED
    BY <1>5, <2>1, <2>2 DEF Pack
<1>6. ASSUME Take("publish") \/ Die("publish") \/ WriteReceipt PROVE UNCHANGED <<uploaded, packed>>
  BY <1>6 DEF Take, Die, WriteReceipt, Await, List, Download, Refresh, Clean, Copy, Fetched
<1>7. ASSUME UNCHANGED vars PROVE UNCHANGED <<uploaded, packed>>
  BY <1>7 DEF vars, runs
<1> QED
  BY <1>0, <1>3, <1>4, <1>5, <1>6, <1>7, Cases, ScanApart, HubApart, RerunApart DEF Publishing

\* A receipt that is vouched for stays so.
LEMMA VouchedStays ==
  ASSUME IInv, [Next]_vars, NEW r \in Receipt, Vouched(r)
  PROVE  Vouched(r)'
BY KeptNext, ReceiptTypes DEF Kept, Vouched

\* What the scan has read, and what lies in its checkout.
LEMMA ScanNext ==
  ASSUME IInv, [Next]_vars
  PROVE  ScanInv'
<1> USE DEF IInv
<1>0. /\ TypeOK /\ "scan" \in Jobs
      /\ parent.attempt \in Attempts \cup {None} /\ parent.seen \in Attempts \cup {None}
      /\ parent.receipt \in Receipt \cup {None} /\ parent.got \in Receipt \cup {None}
      /\ parent \in Parent /\ receipt["scan"] \in Receipt \cup {None, Torn}
  BY Types DEF Jobs, TypeOK
<1>1. parent.got # None => uploaded'[parent.got.publishRunAttempt] = parent.got
  BY <1>0, KeptNext, ReceiptTypes, AttemptTypes DEF Kept, ScanInv
<1>2. parent.attempt # None => parent.receipt \in Receipt /\ Vouched(parent.receipt)
  BY <1>0 DEF ScanInv
<1>3. parent.attempt # None /\ UNCHANGED parent.receipt => Vouched(parent.receipt)'
  BY <1>2, VouchedStays DEF Vouched
<1>4. receipt["scan"] \notin {None, Torn} /\ UNCHANGED receipt["scan"] => Vouched(receipt["scan"])'
  BY <1>0, VouchedStays DEF ScanInv, Vouched
<1>5. ASSUME UNCHANGED <<pc["scan"], parent, receipt["scan"]>> PROVE ScanInv'
  BY <1>1, <1>3, <1>4, <1>5 DEF ScanInv
<1>6. ASSUME pc'["scan"] \notin Late \cup {"recheck"}, UNCHANGED parent,
             receipt'["scan"] \in {receipt["scan"], None, Torn}
      PROVE  ScanInv'
  BY <1>1, <1>3, <1>4, <1>6 DEF ScanInv
<1>7. ASSUME pc["scan"] \in Late, pc'["scan"] # "recheck", UNCHANGED parent,
             receipt'["scan"] \in {receipt["scan"], None, Torn}
      PROVE  ScanInv'
  BY <1>1, <1>3, <1>4, <1>7 DEF ScanInv
<1>8. ASSUME Fail("scan"), UNCHANGED parent, receipt'["scan"] \in {receipt["scan"], None, Torn}
      PROVE  ScanInv'
  <2>1. pc'["scan"] = "failed"
    BY <1>0, <1>8, FailTypes
  <2>2. "failed" \notin Late \cup {"recheck"}
    BY DEF Late
  <2> QED
    BY <1>6, <1>8, <2>1, <2>2
<1>9. ASSUME Take("scan") PROVE ScanInv'
  <2>1. pc["scan"] \in Late /\ UNCHANGED <<parent, receipt>>
    BY <1>9 DEF Take, Await, List, Download, Refresh, Clean, Copy, Fetched, checkouts, Late,
                ScanInv
  <2>2. Fail("scan") \/ \E step \in Places \ {"recheck"} : Go("scan", step)
    BY <1>9, PlaceTypes DEF Take, Await, List, Download, Refresh, Clean, Copy
  <2>3. pc'["scan"] # "recheck"
    BY <1>0, <2>2, GoTypes, FailTypes
  <2> QED
    BY <1>7, <2>1, <2>3
<1>10. ASSUME StartScan PROVE ScanInv'
  <2>1. pc'["scan"] = "parent" /\ parent' = NoParent
    BY <1>0, <1>10, GoTypes, PlaceTypes DEF StartScan
  <2>2. parent'.attempt = None /\ parent'.got = None
    BY <2>1 DEF NoParent
  <2>3. receipt'["scan"] \in {receipt["scan"], None}
    BY <1>0, <1>10 DEF StartScan, TypeOK, checkouts
  <2>4. "parent" \notin Late
    BY DEF Late
  <2> QED
    BY <1>4, <2>1, <2>2, <2>3, <2>4 DEF ScanInv
<1>11. ASSUME ReadParent PROVE ScanInv'
  <2>1. CASE Go("scan", "receipt") /\ parent' = [parent EXCEPT !.seen = publish.attempt]
    <3>1. pc'["scan"] = "receipt" /\ UNCHANGED receipt
      BY <1>0, <1>11, <2>1, GoTypes, PlaceTypes DEF ReadParent, Restoring, checkouts
    <3>2. /\ parent'.attempt = parent.attempt /\ parent'.receipt = parent.receipt
          /\ parent'.got = parent.got
      BY <1>0, <2>1 DEF Parent
    <3>3. "receipt" \notin Late
      BY DEF Late
    <3> QED
      BY <1>1, <1>3, <1>4, <3>1, <3>2, <3>3 DEF ScanInv
  <2> QED
    BY <1>8, <1>11, <2>1 DEF ReadParent, Restoring, checkouts
<1>12. ASSUME ReadReceipt PROVE ScanInv'
  <2>1. ASSUME NEW k \in Attempts, uploaded[k] # None, parent' = [parent EXCEPT !.got = uploaded[k]],
               Go("scan", "recheck")
        PROVE  ScanInv'
    <3>1. pc'["scan"] = "recheck" /\ UNCHANGED <<receipt, uploaded>>
      BY <1>0, <1>12, <2>1, GoTypes, PlaceTypes DEF ReadReceipt, Restoring, checkouts
    <3>2. /\ parent'.attempt = parent.attempt /\ parent'.receipt = parent.receipt
          /\ parent'.got = uploaded[k]
      BY <1>0, <2>1 DEF Parent
    <3>3. uploaded[k].publishRunAttempt = k
      BY <2>1 DEF UploadedInv
    <3>4. "recheck" \notin Late
      BY DEF Late
    <3> QED
      BY <1>3, <1>4, <2>1, <3>1, <3>2, <3>3, <3>4 DEF ScanInv
  <2> QED
    BY <1>8, <1>12, <2>1 DEF ReadReceipt, Restoring, checkouts
<1>13. ASSUME Recheck PROVE ScanInv'
  <2>1. ASSUME Unrepeated, Valid(parent.got, parent.seen), Go("scan", "await"),
               parent' = [parent EXCEPT !.attempt = parent.seen, !.receipt = parent.got]
        PROVE  ScanInv'
    <3>1. pc'["scan"] = "await" /\ UNCHANGED <<receipt, uploaded, packed>>
      BY <1>0, <1>13, <2>1, GoTypes, PlaceTypes DEF Recheck, Restoring, checkouts
    <3>2. /\ parent'.attempt = parent.seen /\ parent'.receipt = parent.got
          /\ parent'.got = parent.got
      BY <1>0, <2>1 DEF Parent
    <3>3. /\ parent.got # None /\ parent.got.publishRunAttempt = parent.seen
          /\ parent.seen = publish.attempt /\ publish.state = "success"
      BY <2>1 DEF Valid, Unrepeated
    <3>4. parent.seen \in Attempts /\ parent.seen # None
      BY <1>0, <3>3, ReceiptTypes, AttemptTypes
    <3>5. packed[parent.seen] # None /\ uploaded[parent.seen] = parent.got
      BY <3>3 DEF PublishInv, ScanInv
    <3>6. Vouched(parent.got)
      BY <3>3, <3>4, <3>5 DEF UploadedInv, Vouched
    <3>7. Vouched(parent.receipt)'
      BY <3>1, <3>2, <3>6 DEF Vouched
    <3> QED
      BY <1>1, <1>4, <3>1, <3>2, <3>3, <3>4, <3>7 DEF ScanInv
  <2>2. ASSUME parent.seen = parent.attempt, Unrepeated, Go("scan", "last"), UNCHANGED parent
        PROVE  ScanInv'
    <3>1. pc'["scan"] = "last" /\ UNCHANGED receipt
      BY <1>0, <1>13, <2>2, GoTypes, PlaceTypes DEF Recheck, Restoring, checkouts
    <3>2. parent.attempt # None
      BY <2>2, Types, AttemptTypes DEF Unrepeated
    <3> QED
      BY <1>1, <1>3, <1>4, <2>2, <3>1, <3>2 DEF ScanInv
  <2>3. CASE Fail("scan") /\ UNCHANGED parent
    BY <1>8, <1>13, <2>3 DEF Recheck, Restoring, checkouts
  <2> QED
    BY <1>13, <2>1, <2>2, <2>3 DEF Recheck
<1>14. ASSUME Last PROVE ScanInv'
  <2>1. Fail("scan") \/ Go("scan", "clean")
    BY <1>14 DEF Last
  <2>2. pc'["scan"] # "recheck"
    BY <1>0, <2>1, GoTypes, FailTypes, PlaceTypes
  <2> QED
    BY <1>7, <1>14, <2>2 DEF Last, Restoring, checkouts, Late
<1>15. ASSUME DeleteReceipt PROVE ScanInv'
  <2>1. Fail("scan") \/ Go("scan", "rename")
    BY <1>15 DEF DeleteReceipt
  <2>2. pc'["scan"] # "recheck"
    BY <1>0, <2>1, GoTypes, FailTypes, PlaceTypes
  <2>3. receipt'["scan"] \in {receipt["scan"], None}
    BY <1>0, <1>15 DEF DeleteReceipt, TypeOK
  <2> QED
    BY <1>7, <1>15, <2>2, <2>3 DEF DeleteReceipt, Late
<1>16. ASSUME RenameReceipt PROVE ScanInv'
  <2>1. pc'["scan"] = "done" /\ UNCHANGED parent
    BY <1>0, <1>16, GoTypes, PlaceTypes DEF RenameReceipt
  <2>2. receipt'["scan"] = parent.receipt /\ parent.attempt # None
    BY <1>0, <1>16 DEF RenameReceipt, TypeOK, ScanInv, Late
  <2>3. Vouched(receipt["scan"])'
    BY <1>3, <2>1, <2>2 DEF Vouched
  <2>4. "done" \notin Late
    BY DEF Late
  <2> QED
    BY <1>1, <1>3, <2>1, <2>3, <2>4 DEF ScanInv
<1>17. ASSUME Die("scan") PROVE ScanInv'
  <2>1. receipt'["scan"] \in {receipt["scan"], Torn}
    BY <1>0, <1>17 DEF Die, TypeOK, checkouts
  <2> QED
    BY <1>8, <1>17, <2>1 DEF Die
<1>18. ASSUME Publishing \/ RerunPublish PROVE ScanInv'
  BY <1>0, <1>5, <1>18, PublishApart, RerunApart DEF Mine
<1>19. ASSUME Hub PROVE ScanInv'
  BY <1>5, <1>19, HubApart
<1>20. ASSUME UNCHANGED vars PROVE ScanInv'
  BY <1>5, <1>20 DEF vars, checkouts
<1> QED
  BY <1>9, <1>10, <1>11, <1>12, <1>13, <1>14, <1>15, <1>16, <1>17, <1>18, <1>19, <1>20, Cases
     DEF Scanning

\* A repetition of the publish run.
LEMMA StaleNext ==
  ASSUME IInv, [Next]_vars
  PROVE  StaleInv'
<1> USE DEF IInv
<1> DEFINE Ending == {"clean", "copy", "delete", "rename", "done"}
<1>0. /\ TypeOK /\ "scan" \in Jobs /\ publish.attempt \in Attempts /\ parent \in Parent
      /\ parent.attempt \in Attempts \cup {None} /\ parent.seen \in Attempts \cup {None}
  BY Types DEF Jobs, TypeOK
<1>1. \A a \in Attempts : a \in Nat /\ a # None
  BY AttemptTypes
<1>2. ASSUME UNCHANGED <<pc["scan"], parent, publish.attempt, repeated>> PROVE StaleInv'
  BY <1>2 DEF StaleInv, Relies
<1>3. ASSUME Fail("scan"), UNCHANGED <<parent, repeated>> PROVE StaleInv'
  <2>1. pc'["scan"] = "failed" /\ UNCHANGED publish.attempt
    BY <1>0, <1>3, FailTypes
  <2> QED
    BY <1>3, <2>1 DEF StaleInv, Relies
<1>4. ASSUME pc["scan"] \in {"await", "list", "download", "refresh"},
             pc'["scan"] \in {"list", "download", "refresh", "parent"},
             UNCHANGED <<parent, repeated, publish>>
      PROVE  StaleInv'
  <2>1. parent.attempt # None
    BY <1>4 DEF ScanInv, Late
  <2>2. Relies
    BY <1>4 DEF Relies
  <2> QED
    BY <1>4, <2>1, <2>2 DEF StaleInv
<1>5. ASSUME pc["scan"] \in Ending, pc'["scan"] \in Ending, UNCHANGED <<parent, repeated, publish>>
      PROVE  StaleInv'
  BY <1>5 DEF StaleInv, Relies
<1>6. ASSUME Take("scan") PROVE StaleInv'
  <2>1. UNCHANGED <<parent, repeated>>
    BY <1>6 DEF Take, Await, List, Download, Refresh, Clean, Copy, Fetched
  <2>2. CASE Fail("scan")
    BY <1>3, <2>1, <2>2
  <2>3. ASSUME NEW step \in {"list", "download", "refresh", "parent"}, Go("scan", step),
               pc["scan"] \in {"await", "list", "download", "refresh"}
        PROVE  StaleInv'
    BY <1>0, <1>4, <2>1, <2>3, GoTypes, PlaceTypes
  <2>4. ASSUME NEW step \in {"copy", "delete"}, Go("scan", step), pc["scan"] \in {"clean", "copy"}
        PROVE  StaleInv'
    BY <1>0, <1>5, <2>1, <2>4, GoTypes, PlaceTypes
  <2> QED
    BY <1>6, <2>2, <2>3, <2>4 DEF Take, Await, List, Download, Refresh, Clean, Copy
<1>7. ASSUME StartScan PROVE StaleInv'
  <2>1. pc'["scan"] = "parent" /\ parent'.attempt = None /\ repeated' = FALSE
    BY <1>0, <1>7, GoTypes, PlaceTypes DEF StartScan, NoParent
  <2> QED
    BY <2>1 DEF StaleInv, Relies
<1>8. ASSUME ReadParent PROVE StaleInv'
  <2>1. CASE Go("scan", "receipt") /\ parent' = [parent EXCEPT !.seen = publish.attempt]
    <3>1. pc'["scan"] = "receipt" /\ UNCHANGED <<publish, repeated>> /\ pc["scan"] = "parent"
      BY <1>0, <1>8, <2>1, GoTypes, PlaceTypes DEF ReadParent, Restoring
    <3>2. parent'.attempt = parent.attempt /\ parent'.seen = publish.attempt
      BY <1>0, <2>1 DEF Parent
    <3> QED
      BY <1>0, <1>1, <3>1, <3>2 DEF StaleInv, Relies
  <2> QED
    BY <1>3, <1>8, <2>1 DEF ReadParent, Restoring
<1>9. ASSUME ReadReceipt PROVE StaleInv'
  <2>1. ASSUME NEW k \in Attempts, parent' = [parent EXCEPT !.got = uploaded[k]], Go("scan", "recheck")
        PROVE  StaleInv'
    <3>1. pc'["scan"] = "recheck" /\ UNCHANGED <<publish, repeated>> /\ pc["scan"] = "receipt"
      BY <1>0, <1>9, <2>1, GoTypes, PlaceTypes DEF ReadReceipt, Restoring
    <3>2. parent'.attempt = parent.attempt /\ parent'.seen = parent.seen
      BY <1>0, <2>1 DEF Parent
    <3> QED
      BY <3>1, <3>2 DEF StaleInv, Relies
  <2> QED
    BY <1>3, <1>9, <2>1 DEF ReadReceipt, Restoring
<1>10. ASSUME Recheck PROVE StaleInv'
  <2>1. pc["scan"] = "recheck" /\ UNCHANGED repeated
    BY <1>10 DEF Recheck, Restoring
  <2>2. ASSUME Unrepeated, parent.attempt = None, Go("scan", "await"),
               parent' = [parent EXCEPT !.attempt = parent.seen, !.receipt = parent.got]
        PROVE  StaleInv'
    <3>1. pc'["scan"] = "await" /\ UNCHANGED publish
      BY <1>0, <2>2, GoTypes, PlaceTypes
    <3>2. parent'.attempt = publish.attempt
      BY <1>0, <2>2 DEF Parent, Unrepeated
    <3>3. ~repeated
      BY <1>0, <1>1, <2>1, <2>2 DEF StaleInv, Unrepeated
    <3> QED
      BY <1>0, <1>1, <2>1, <3>1, <3>2, <3>3 DEF StaleInv, TypeOK
  <2>3. ASSUME Unrepeated, parent.seen = parent.attempt, Go("scan", "last"), UNCHANGED parent
        PROVE  StaleInv'
    <3>1. pc'["scan"] = "last" /\ UNCHANGED publish
      BY <1>0, <2>3, GoTypes, PlaceTypes
    <3> QED
      BY <2>1, <2>3, <3>1 DEF StaleInv, Relies
  <2>4. CASE Fail("scan") /\ UNCHANGED parent
    BY <1>3, <2>1, <2>4
  <2> QED
    BY <1>10, <2>2, <2>3, <2>4 DEF Recheck
<1>11. ASSUME Last PROVE StaleInv'
  <2>1. pc["scan"] = "last" /\ UNCHANGED <<parent, repeated>>
    BY <1>11 DEF Last, Restoring
  <2>2. CASE Unrepeated /\ Go("scan", "clean")
    <3>1. pc'["scan"] = "clean" /\ UNCHANGED publish
      BY <1>0, <2>2, GoTypes, PlaceTypes
    <3>2. parent.attempt # None /\ Relies /\ publish.attempt = parent.attempt
      BY <2>1, <2>2 DEF ScanInv, Late, Relies, StaleInv, Unrepeated
    <3>3. ~repeated
      BY <1>0, <1>1, <3>2 DEF StaleInv
    <3> QED
      BY <2>1, <3>1, <3>3 DEF StaleInv, Relies, TypeOK
  <2> QED
    BY <1>3, <1>11, <2>1, <2>2 DEF Last
<1>12. ASSUME DeleteReceipt \/ RenameReceipt PROVE StaleInv'
  <2>1. UNCHANGED <<parent, repeated>> /\ pc["scan"] \in {"delete", "rename"}
    BY <1>12 DEF DeleteReceipt, RenameReceipt
  <2>2. Fail("scan") \/ Go("scan", "rename") \/ Go("scan", "done")
    BY <1>12 DEF DeleteReceipt, RenameReceipt
  <2> QED
    BY <1>0, <1>3, <1>5, <2>1, <2>2, GoTypes, PlaceTypes
<1>13. ASSUME Die("scan") PROVE StaleInv'
  BY <1>3, <1>13 DEF Die
<1>14. ASSUME RerunPublish PROVE StaleInv'
  <2>1. publish'.attempt = publish.attempt + 1 /\ repeated' = (repeated \/ Relies)
    BY <1>0, <1>14 DEF RerunPublish, TypeOK
  <2>2. UNCHANGED <<pc["scan"], parent>>
    BY <1>0, <1>14, RerunApart DEF Mine
  <2>3. \A a \in Attempts : a <= publish.attempt => a <= publish.attempt + 1 /\ publish.attempt + 1 > a
    BY <1>0, <1>1
  <2>4. repeated \in BOOLEAN /\ Relies \in BOOLEAN
    BY <1>0 DEF TypeOK, Relies
  <2>5. pc["scan"] \in Ending \/ (pc["scan"] = "parent" /\ parent.attempt = None) => ~Relies /\ ~repeated
    BY DEF Relies, StaleInv
  <2>6. parent.attempt # None => parent.attempt <= publish.attempt /\ parent.attempt \in Attempts
    BY <1>0 DEF StaleInv
  <2>7. pc["scan"] \in {"receipt", "recheck"} =>
          parent.seen # None /\ parent.seen <= publish.attempt /\ parent.seen \in Attempts
    BY <1>0 DEF StaleInv
  <2>8. pc["scan"] = "last" => parent.seen = parent.attempt
    BY DEF StaleInv
  <2> QED
    BY <2>1, <2>2, <2>3, <2>5, <2>6, <2>7, <2>8 DEF StaleInv
<1>15. ASSUME Publishing PROVE StaleInv'
  BY <1>0, <1>2, <1>15, PublishApart DEF Mine
<1>16. ASSUME Hub PROVE StaleInv'
  BY <1>2, <1>16, HubApart
<1>17. ASSUME UNCHANGED vars PROVE StaleInv'
  BY <1>2, <1>17 DEF vars, runs
<1> QED
  BY <1>6, <1>7, <1>8, <1>9, <1>10, <1>11, <1>12, <1>13, <1>14, <1>15, <1>16, <1>17, Cases
     DEF Scanning

-----------------------------------------------------------------------------
(* The theorems *)

LEMMA InitInv == Init => IInv
<1> SUFFICES ASSUME Init PROVE IInv
  OBVIOUS
<1> USE DEF Init
<1>1. TypeOK
  <2>1. 1 \in Attempts /\ None \notin Attempts
    BY AttemptTypes
  <2>2. producer \in [attempt : Attempts, state : {"active", "signed", "failed"},
                      built : [Targets -> Attempts \cup {None}]]
    BY <2>1 DEF Unbuilt
  <2>3. publish \in [attempt : Attempts, state : {"active", "success", "failed"}]
    BY <2>1
  <2>4. pc \in [Jobs -> Places]
    <3>1. pc = [publish |-> "await", scan |-> "idle"] /\ "await" \in Places /\ "idle" \in Places
      BY PlaceTypes
    <3> QED
      BY <3>1 DEF Jobs
  <2>5. fetch \in [Jobs -> Fetch] /\ parent \in Parent
    BY NoFetchTypes DEF NoParent, Parent
  <2>6. payload \in [Jobs -> [Targets -> Content]]
    BY UnbuiltTypes
  <2>7. faults \in 0 .. MaxFaults
    BY BoundsAssumption
  <2> QED
    BY <2>2, <2>3, <2>4, <2>5, <2>6, <2>7 DEF TypeOK
<1>2. pc["publish"] = "await" /\ pc["scan"] = "idle"
  OBVIOUS
<1>3. ProducerInv /\ UploadedInv
  BY AttemptTypes DEF ProducerInv, UploadedInv
<1>4. PublishInv
  BY <1>2, AttemptTypes DEF PublishInv, Working, Steps
<1>5. FetchInv
  BY <1>2 DEF FetchInv
<1>6. parent.attempt = None /\ parent.got = None
  BY DEF NoParent
<1>7. ScanInv
  BY <1>2, <1>6 DEF ScanInv, Late, Jobs
<1>8. StaleInv
  BY <1>2, <1>6 DEF StaleInv, Relies
<1> QED
  BY <1>1, <1>3, <1>4, <1>5, <1>7, <1>8 DEF IInv

LEMMA NextInv == IInv /\ [Next]_vars => IInv'
BY TypeNext, ProducerNext, PublishNext, FetchNext, UploadedNext, ScanNext, StaleNext DEF IInv

\* The invariant holds in every state.
THEOREM Inductive == Spec => []IInv
<1> QED
  BY InitInv, NextInv, PTL DEF Spec

\* Every variable keeps its type: a failed job, a repeated run or a half-written file
\* leaves nothing the code does not expect.
THEOREM TypeCorrect == Spec => []TypeOK
<1>1. IInv => TypeOK
  BY DEF IInv
<1> QED
  BY <1>1, Inductive, PTL

\* What the offline verification of the scan accepts as an attempt's is byte for byte what
\* that attempt of the publish run has packed, whatever died before.
THEOREM VerifiedArePacked == Spec => []VerifiedIsPacked
<1>1. ASSUME IInv PROVE VerifiedIsPacked
  <2> SUFFICES ASSUME NEW a \in Attempts, Verifies("scan", a) PROVE payload["scan"] = packed[a]
    BY DEF VerifiedIsPacked
  <2>1. /\ receipt["scan"] \notin {None, Torn} /\ receipt["scan"].publishRunAttempt = a
        /\ payload["scan"] = receipt["scan"].files
    BY DEF Verifies, Valid
  <2>2. Vouched(receipt["scan"])
    BY <1>1, <2>1 DEF IInv, ScanInv
  <2> QED
    BY <2>1, <2>2 DEF Vouched
<1> QED
  BY <1>1, Inductive, PTL

\* What an attempt of the publish run packs is what one attempt of the producer has signed,
\* the one its receipt names.
THEOREM PackedAreSigned == Spec => []PackedIsSigned
<1>1. ASSUME IInv PROVE PackedIsSigned
  BY <1>1 DEF IInv, UploadedInv, Good, PackedIsSigned
<1> QED
  BY <1>1, Inductive, PTL

\* A scan restores nothing for a publish run that was repeated after it had read it.
THEOREM RestoresAreFresh == Spec => []NoStaleRestore
<1>1. IInv => NoStaleRestore
  BY DEF IInv, StaleInv, NoStaleRestore
<1> QED
  BY <1>1, Inductive, PTL

=============================================================================
