------------------------ MODULE NativeProducerProofs ------------------------
(***************************************************************************)
(* The receipt names what the job has, and the call returns what it names: *)
(* for any number of runs, attempts and mishaps.                           *)
(*                                                                         *)
(* GitHub goes on between two requests, so nothing the job has read is     *)
(* true later.  What stays true is relative to the attempt: as long as a   *)
(* run has not been repeated it is what it was (Grown), and a repetition   *)
(* has a larger number.  Each part of the invariant says of what the job   *)
(* has read that it still holds or that the attempt has grown since.       *)
(***************************************************************************)
EXTENDS NativeProducer, FiniteSetTheorems, TLAPS

\* A run that exists has an attempt.
RunsInv == \A r \in RunIds : runs[r].attempt = 0 <=> runs[r].state = "none"

\* The receipt names an attempt of its run that has existed, and none without a run.
IntentInv ==
  intent # None =>
    IF intent.run = None THEN intent.attempt = 0
    ELSE intent.attempt # 0 /\ intent.attempt <= runs[intent.run].attempt

\* Since the listing, a run that was not active then has been repeated, or is what the
\* job takes it for.
ListingInv ==
  pc = "qualify" =>
    /\ seen.active \cup seen.todo \cup seen.asked \cup seen.qualified \subseteq seen.exact
    /\ \A q, r \in seen.asked : q = r
    /\ \A r \in seen.exact :
         /\ seen.attempt[r] # 0 /\ seen.attempt[r] <= runs[r].attempt
         /\ r \notin seen.active /\ runs[r].attempt = seen.attempt[r] =>
              /\ runs[r].state = "done"
              /\ r \notin seen.todo \cup seen.asked \cup seen.qualified => runs[r].conclusion # "signed"
         /\ intent # None /\ intent.run = r => intent.attempt <= seen.attempt[r]

\* The receipt is one step behind what the job knows: it has no run until that is found,
\* and no attempt of a run that the POST has named until that is complete.
ReceiptInv ==
  /\ pc \in {"post", "poll"} =>
       my.run = None /\ my.attempt = 0 /\ intent # None /\ intent.run = None
  /\ pc \in {"await", "jobs", "artifacts", "refresh"} =>
       /\ my.run \in RunIds /\ intent # None
       /\ \/ intent.run = my.run /\ intent.attempt = my.attempt /\ my.attempt # 0
          \/ intent.run = None /\ my.attempt = 0
  /\ pc \in {"artifacts", "refresh"} => intent.run = my.run /\ my.attempt = fetched

\* Unless the run has been repeated, it is the one the job has looked at.
FetchedInv ==
  /\ pc \in {"jobs", "artifacts", "refresh"} =>
       /\ fetched # 0 /\ fetched <= runs[my.run].attempt /\ runs[my.run].exact
       /\ runs[my.run].attempt = fetched => Success(my.run)
  /\ pc \in {"artifacts", "refresh"} /\ runs[my.run].attempt = fetched => Signed(my.run)
  /\ pc = "refresh" /\ runs[my.run].attempt = fetched => origin = fetched

IInv == TypeOK /\ RunsInv /\ IntentInv /\ ListingInv /\ ReceiptInv /\ FetchedInv

Grown(q) ==
  /\ runs'[q].attempt >= runs[q].attempt
  /\ runs[q].attempt # 0 => runs'[q].exact = runs[q].exact
  /\ runs[q].state = "done" /\ runs'[q].attempt = runs[q].attempt =>
       runs'[q].state = "done" /\ runs'[q].conclusion = runs[q].conclusion

LEMMA RunTypes ==
  ASSUME TypeOK, NEW q \in RunIds
  PROVE  /\ runs[q] \in Run /\ runs[q].attempt \in Attempts /\ runs[q].attempt \in Nat
         /\ runs[q].exact \in BOOLEAN
BY BoundsAssumption DEF TypeOK, Run, Attempts

LEMMA NewRunGrows ==
  ASSUME TypeOK, RunsInv, NEW r \in RunIds, NEW e \in BOOLEAN, NEW m \in BOOLEAN, NewRun(r, e, m)
  PROVE  runs' \in [RunIds -> Run] /\ RunsInv' /\ \A q \in RunIds : Grown(q)
<1> DEFINE new == [state |-> "hidden", attempt |-> 1, conclusion |-> "none",
                   exact |-> e, mine |-> m]
<1>1. new \in Run
  BY BoundsAssumption DEF Run, Attempts
<1>2. runs'[r] = new /\ \A q \in RunIds \ {r} : runs'[q] = runs[q]
  BY DEF NewRun, TypeOK
<1>3. runs[r].state = "none" /\ runs[r].attempt = 0
  BY DEF NewRun, RunsInv
<1>4. runs' \in [RunIds -> Run]
  BY <1>1 DEF NewRun, TypeOK
<1>5. RunsInv'
  BY <1>2 DEF RunsInv
<1>6. \A q \in RunIds : Grown(q)
  BY <1>2, <1>3, RunTypes DEF Grown
<1> QED
  BY <1>4, <1>5, <1>6

\* A run goes on: to another state of the same attempt, or from its end to the next one.
LEMMA RunGrows ==
  ASSUME TypeOK, RunsInv, NEW r \in RunIds, NEW new \in Run,
         runs' = [runs EXCEPT ![r] = new], new.exact = runs[r].exact, new.attempt # 0,
         new.state # "none",
         \/ new.attempt = runs[r].attempt /\ runs[r].state # "done"
         \/ new.attempt = runs[r].attempt + 1
  PROVE  runs' \in [RunIds -> Run] /\ RunsInv' /\ \A q \in RunIds : Grown(q)
<1>1. runs'[r] = new /\ \A q \in RunIds \ {r} : runs'[q] = runs[q]
  BY DEF TypeOK
<1>2. runs' \in [RunIds -> Run]
  BY DEF TypeOK
<1>3. RunsInv'
  BY <1>1 DEF RunsInv
<1>4. \A q \in RunIds : Grown(q)
  BY <1>1, RunTypes DEF Grown
<1> QED
  BY <1>2, <1>3, <1>4

LEMMA Grows ==
  ASSUME TypeOK, RunsInv, [Next]_vars
  PROVE  runs' \in [RunIds -> Run] /\ RunsInv' /\ \A q \in RunIds : Grown(q)
<1> DEFINE Good == runs' \in [RunIds -> Run] /\ RunsInv' /\ \A q \in RunIds : Grown(q)
<1>1. ASSUME UNCHANGED runs PROVE Good
  BY <1>1, RunTypes DEF TypeOK, RunsInv, Grown
<1>2. ASSUME Post PROVE Good
  BY <1>1, <1>2, NewRunGrows DEF Post
<1>3. ASSUME NEW r \in RunIds, Appear(r) PROVE Good
  <2> DEFINE new == [runs[r] EXCEPT !.state = "active"]
  <2>1. /\ new \in Run /\ new.exact = runs[r].exact /\ new.attempt = runs[r].attempt
        /\ new.state = "active"
    BY RunTypes DEF Run
  <2>2. runs' = [runs EXCEPT ![r] = new] /\ runs[r].state = "hidden"
    BY <1>3 DEF Appear
  <2>3. runs[r].attempt # 0
    BY <2>2 DEF RunsInv
  <2> HIDE DEF new
  <2> QED
    BY <2>1, <2>2, <2>3, RunGrows
<1>4. ASSUME NEW r \in RunIds, Complete(r) PROVE Good
  <2>1. PICK c \in {"signed", "unsigned", "failed"} :
          runs' = [runs EXCEPT ![r].state = "done", ![r].conclusion = c]
    BY <1>4 DEF Complete
  <2> DEFINE new == [runs[r] EXCEPT !.state = "done", !.conclusion = c]
  <2>2. /\ new \in Run /\ new.exact = runs[r].exact /\ new.attempt = runs[r].attempt
        /\ new.state = "done"
    BY RunTypes DEF Run
  <2>3. runs' = [runs EXCEPT ![r] = new] /\ runs[r].state = "active"
    BY <1>4, <2>1 DEF Complete, TypeOK
  <2>4. runs[r].attempt # 0
    BY <2>3 DEF RunsInv
  <2> HIDE DEF new
  <2> QED
    BY <2>2, <2>3, <2>4, RunGrows
<1>5. ASSUME NEW r \in RunIds, Rerun(r) PROVE Good
  <2> DEFINE new == [runs[r] EXCEPT !.state = "active", !.conclusion = "none", !.attempt = @ + 1]
  <2>1. runs[r].attempt + 1 \in Attempts /\ runs[r].attempt + 1 # 0
    BY <1>5, RunTypes, BoundsAssumption DEF Rerun, Attempts
  <2>2. /\ new \in Run /\ new.exact = runs[r].exact /\ new.attempt = runs[r].attempt + 1
        /\ new.state = "active"
    BY <2>1, RunTypes DEF Run
  <2>3. runs' = [runs EXCEPT ![r] = new]
    BY <1>5 DEF Rerun, TypeOK
  <2> HIDE DEF new
  <2> QED
    BY <2>1, <2>2, <2>3, RunGrows
<1>6. ASSUME NEW r \in RunIds, DispatchByHand(r) PROVE Good
  BY <1>6, NewRunGrows DEF DispatchByHand
<1>7. UNCHANGED runs \/ Post \/ \E r \in RunIds : Appear(r) \/ Complete(r) \/ Rerun(r) \/ DispatchByHand(r)
  BY DEF Next, Resolve, GitHub, vars, job, ListRuns, Qualify, QualifyJobs, RefuseAmbiguous, ResumePinned,
         ReuseRun, IntendDispatch, ResumeDispatch, Continue, Poll, Await, Expire, ReadJobs,
         ListArtifacts, Refresh, Again, LoseReceipt, Abort
<1> QED
  BY <1>1, <1>2, <1>3, <1>4, <1>5, <1>6, <1>7

LEMMA FaultTypes == ASSUME TypeOK, Fault PROVE faults' \in 0 .. MaxFaults
BY BoundsAssumption DEF TypeOK, Fault

LEMMA NothingTypes == Nothing \in Seen
<1>1. [r \in RunIds |-> 0] \in [RunIds -> Attempts]
  BY BoundsAssumption DEF Attempts
<1> QED
  BY <1>1 DEF Nothing, Seen

LEMMA BlankTypes == Blank \in Intent
<1>1. 0 \in Attempts
  BY BoundsAssumption DEF Attempts
<1> QED
  BY <1>1 DEF Blank, Intent, MaybeRun

\* The end of a call leaves nothing in memory.
LEMMA EndTypes ==
  ASSUME TypeOK, NEW how, End(how)
  PROVE  /\ seen' \in Seen /\ my' \in Intent /\ fetched' \in Attempts /\ origin' \in Attempts
         /\ late' \in BOOLEAN
<1>1. 0 \in Attempts
  BY BoundsAssumption DEF Attempts
<1>2. seen' = Nothing /\ my' = Blank /\ fetched' = 0 /\ origin' = 0 /\ late' = FALSE
  BY DEF End
<1> QED
  BY <1>1, <1>2, NothingTypes, BlankTypes

LEMMA ResumedTypes ==
  ASSUME TypeOK
  PROVE  /\ Resumed \in Intent
         /\ intent # None => intent \in Intent
         /\ seen.exact \subseteq RunIds /\ Eligible \subseteq RunIds
         /\ \A r \in RunIds : seen.attempt[r] \in Attempts
<1>1. seen.exact \subseteq RunIds /\ Eligible \subseteq RunIds /\ seen.attempt \in [RunIds -> Attempts]
  BY DEF TypeOK, Seen, Eligible
<1>2. intent # None => intent \in Intent /\ intent.baseline \subseteq RunIds
  BY DEF TypeOK, Intent
<1>3. \A B \in SUBSET RunIds : [Blank EXCEPT !.baseline = B] \in Intent
  BY BlankTypes DEF Intent
<1> QED
  BY <1>1, <1>2, <1>3 DEF Resumed

LEMMA IntentTypes ==
  ASSUME NEW i \in Intent, NEW q \in MaybeRun, NEW a \in Attempts
  PROVE  /\ [i EXCEPT !.run = q] \in Intent /\ [i EXCEPT !.run = q, !.attempt = a] \in Intent
         /\ [i EXCEPT !.attempt = a] \in Intent /\ [i EXCEPT !.dispatched = TRUE] \in Intent
BY DEF Intent

LEMMA SeenTypes ==
  ASSUME NEW t \in Seen, NEW r \in RunIds, NEW a \in {{}, {r}},
         NEW q \in {t.qualified, t.qualified \cup {r}}
  PROVE  /\ [t EXCEPT !.todo = @ \ {r}, !.asked = a] \in Seen
         /\ [t EXCEPT !.asked = {}, !.qualified = q] \in Seen
BY DEF Seen

LEMMA SomeRun == ASSUME NEW S, Cardinality(S) = 1 PROVE (CHOOSE r \in S : TRUE) \in S
BY FS_EmptySet

\* The types.
LEMMA TypeNext ==
  ASSUME IInv, [Next]_vars
  PROVE  TypeOK'
<1> USE DEF Fault, job, IInv
<1>1. ASSUME ListRuns PROVE TypeOK'
  <2>1. seen' \in Seen
    BY <1>1, RunTypes DEF ListRuns, Listed, Seen
  <2> QED
    BY <1>1, <2>1 DEF ListRuns, TypeOK
<1>2. ASSUME NEW r \in RunIds, Qualify(r) \/ QualifyJobs(r) PROVE TypeOK'
  <2>1. seen' \in Seen
    BY <1>2, SeenTypes DEF Qualify, QualifyJobs, TypeOK
  <2> QED
    BY <1>2, <2>1 DEF Qualify, QualifyJobs, TypeOK
<1>3. ASSUME RefuseAmbiguous PROVE TypeOK'
  BY <1>3, EndTypes DEF RefuseAmbiguous, End, TypeOK
<1>4. ASSUME ResumePinned PROVE TypeOK'
  BY <1>4, ResumedTypes, NothingTypes DEF ResumePinned, Continue, TypeOK
<1>5. ASSUME ReuseRun PROVE TypeOK'
  <2>1. PICK r \in Eligible :
          LET i == [Resumed EXCEPT !.run = r, !.attempt = seen.attempt[r]]
          IN intent' = i /\ Continue("await", i)
    BY <1>5 DEF ReuseRun, WriteIntent
  <2>2. [Resumed EXCEPT !.run = r, !.attempt = seen.attempt[r]] \in Intent
    BY ResumedTypes, IntentTypes DEF MaybeRun
  <2> QED
    BY <2>1, <2>2, NothingTypes DEF Continue, TypeOK
<1>6. ASSUME IntendDispatch PROVE TypeOK'
  <2>1. [Resumed EXCEPT !.dispatched = TRUE] \in Intent
    BY ResumedTypes DEF Intent
  <2> QED
    BY <1>6, <2>1, NothingTypes DEF IntendDispatch, Continue, WriteIntent, TypeOK
<1>7. ASSUME ResumeDispatch PROVE TypeOK'
  BY <1>7, ResumedTypes, NothingTypes DEF ResumeDispatch, Continue, TypeOK
<1>8. ASSUME Post PROVE TypeOK'
  <2>1. faults' \in 0 .. MaxFaults
    BY <1>8, FaultTypes DEF Post, TypeOK
  <2>2. PICK q \in MaybeRun : Answer(q)
    BY <1>8 DEF Post, MaybeRun
  <2>3. my' \in Intent
    BY <2>2 DEF Answer, TypeOK, Intent
  <2>4. runs' \in [RunIds -> Run]
    BY Grows
  <2> QED
    BY <1>8, <2>1, <2>2, <2>3, <2>4 DEF Post, Answer, TypeOK
<1>9. ASSUME Poll PROVE TypeOK'
  <2>1. CASE End("failed") /\ UNCHANGED intent
    BY <1>9, <2>1, EndTypes DEF Poll, End, TypeOK
  <2>2. ASSUME Cardinality(NewRuns) = 1, pc' = "await",
               LET r == CHOOSE r \in NewRuns : TRUE
                   i == [my EXCEPT !.run = r, !.attempt = runs[r].attempt]
               IN my' = i /\ intent' = i
        PROVE  TypeOK'
    <3> DEFINE r == CHOOSE r \in NewRuns : TRUE
    <3>1. r \in RunIds
      BY <2>2, SomeRun DEF NewRuns, Listed
    <3>2. [my EXCEPT !.run = r, !.attempt = runs[r].attempt] \in Intent
      BY <3>1, RunTypes, IntentTypes DEF TypeOK, MaybeRun
    <3>3. UNCHANGED <<seen, fetched, origin, late, runs, lost, faults>>
      BY <1>9, <2>2 DEF Poll, End
    <3> QED
      BY <2>2, <3>2, <3>3 DEF TypeOK
  <2>3. CASE late' \in BOOLEAN /\ UNCHANGED <<pc, seen, my, fetched, origin, intent>>
    BY <1>9, <2>3 DEF Poll, TypeOK
  <2> QED
    BY <1>9, <2>1, <2>2, <2>3 DEF Poll, WriteIntent
<1>10. ASSUME Await PROVE TypeOK'
  <2>1. CASE End("failed")
    BY <1>10, <2>1, EndTypes DEF Await, End, TypeOK
  <2>2. CASE pc' = "jobs" /\ fetched' = runs[my.run].attempt /\ UNCHANGED <<seen, my, origin, late>>
    <3>1. my.run \in RunIds
      BY <1>10 DEF Await, ReceiptInv
    <3> QED
      BY <1>10, <2>2, <3>1, RunTypes DEF Await, TypeOK
  <2>3. CASE late' \in BOOLEAN /\ UNCHANGED <<pc, seen, my, fetched, origin>>
    BY <1>10, <2>3 DEF Await, TypeOK
  <2> QED
    BY <1>10, <2>1, <2>2, <2>3 DEF Await
<1>11. ASSUME Expire PROVE TypeOK'
  BY <1>11, EndTypes DEF Expire, End, TypeOK
<1>12. ASSUME ReadJobs PROVE TypeOK'
  <2>1. CASE End("failed") /\ UNCHANGED intent
    BY <1>12, <2>1, EndTypes DEF ReadJobs, End, TypeOK
  <2>2. CASE pc' = "artifacts" /\ my' = [my EXCEPT !.attempt = fetched] /\ intent' = my'
             /\ UNCHANGED <<seen, fetched, origin, late>>
    <3>1. my' \in Intent
      BY <2>2 DEF TypeOK, Intent
    <3> QED
      BY <1>12, <2>2, <3>1 DEF ReadJobs, TypeOK
  <2> QED
    BY <1>12, <2>1, <2>2 DEF ReadJobs, WriteIntent
<1>13. ASSUME ListArtifacts PROVE TypeOK'
  <2>1. my.run \in RunIds
    BY <1>13 DEF ListArtifacts, ReceiptInv
  <2>2. runs[my.run].attempt \in Attempts /\ runs[my.run].attempt # 0
    BY <1>13, <2>1, RunTypes, BoundsAssumption DEF ListArtifacts, FetchedInv, Attempts, TypeOK
  <2>3. origin' \in Attempts
    BY <1>13, <2>2, BoundsAssumption DEF ListArtifacts, Attempts
  <2> QED
    BY <1>13, <2>3 DEF ListArtifacts, TypeOK
<1>14. ASSUME Refresh PROVE TypeOK'
  <2>1. intent' \in Intent \cup {None}
    BY <1>14 DEF Refresh, WriteIntent, TypeOK
  <2> QED
    BY <1>14, <2>1, EndTypes DEF Refresh, End, TypeOK
<1>15. ASSUME Again PROVE TypeOK'
  BY <1>15 DEF Again, TypeOK
<1>16. ASSUME LoseReceipt PROVE TypeOK'
  BY <1>16, FaultTypes DEF LoseReceipt, TypeOK
<1>17. ASSUME Abort PROVE TypeOK'
  BY <1>17, EndTypes, FaultTypes DEF Abort, End, TypeOK
<1>18. ASSUME NEW r \in RunIds, Appear(r) PROVE TypeOK'
  <2>1. faults' \in 0 .. MaxFaults
    BY <1>18, FaultTypes DEF Appear, TypeOK
  <2> QED
    BY <1>18, <2>1, Grows DEF Appear, TypeOK
<1>19. ASSUME NEW r \in RunIds, Complete(r) PROVE TypeOK'
  <2>1. faults' \in 0 .. MaxFaults
    BY <1>19, FaultTypes DEF Complete, TypeOK
  <2> QED
    BY <1>19, <2>1, Grows DEF Complete, TypeOK
<1>20. ASSUME NEW r \in RunIds, Rerun(r) PROVE TypeOK'
  <2>1. faults' \in 0 .. MaxFaults
    BY <1>20, FaultTypes DEF Rerun, TypeOK
  <2> QED
    BY <1>20, <2>1, Grows DEF Rerun, TypeOK
<1>21. ASSUME NEW r \in RunIds, DispatchByHand(r) PROVE TypeOK'
  <2>1. faults' \in 0 .. MaxFaults
    BY <1>21, FaultTypes DEF DispatchByHand, TypeOK
  <2> QED
    BY <1>21, <2>1, Grows DEF DispatchByHand, TypeOK
<1>22. UNCHANGED vars => TypeOK'
  BY DEF vars, TypeOK
<1> QED
  BY <1>1, <1>2, <1>3, <1>4, <1>5, <1>6, <1>7, <1>8, <1>9, <1>10, <1>11, <1>12, <1>13,
         <1>14, <1>15, <1>16, <1>17, <1>18, <1>19, <1>20, <1>21, <1>22 DEF Next,
         Resolve, GitHub

\* The receipt.
LEMMA IntentNext ==
  ASSUME IInv, [Next]_vars
  PROVE  IntentInv'
<1> USE DEF Fault, job, IInv
<1>1. ASSUME ListRuns PROVE IntentInv'
  BY <1>1 DEF ListRuns, IntentInv
<1>2. ASSUME NEW r \in RunIds, Qualify(r) \/ QualifyJobs(r) PROVE IntentInv'
  BY <1>2 DEF Qualify, QualifyJobs, IntentInv
<1>3. ASSUME RefuseAmbiguous PROVE IntentInv'
  BY <1>3 DEF RefuseAmbiguous, End, IntentInv
<1>4. ASSUME ResumePinned PROVE IntentInv'
  BY <1>4 DEF ResumePinned, Continue, Resumed, IntentInv
<1>5. ASSUME ReuseRun PROVE IntentInv'
  <2>1. PICK r \in Eligible : intent' = [Resumed EXCEPT !.run = r, !.attempt = seen.attempt[r]]
    BY <1>5 DEF ReuseRun, WriteIntent
  <2>2. UNCHANGED runs /\ pc = "qualify" /\ r \in seen.exact /\ r \in RunIds
    BY <1>5, ResumedTypes DEF ReuseRun, Continue, Chosen, Eligible, ListingInv
  <2>3. seen.attempt[r] # 0 /\ seen.attempt[r] <= runs[r].attempt
    BY <2>2 DEF ListingInv
  <2>4. intent'.run = r /\ intent'.attempt = seen.attempt[r] /\ r # None
    BY <2>1, <2>2, ResumedTypes, RunsAssumption DEF Intent
  <2> QED
    BY <2>2, <2>3, <2>4 DEF IntentInv
<1>6. ASSUME IntendDispatch PROVE IntentInv'
  <2>1. intent' = [Resumed EXCEPT !.dispatched = TRUE] /\ Resumed.run = None
    BY <1>6 DEF IntendDispatch, WriteIntent
  <2>2. intent'.run = None /\ intent'.attempt = Resumed.attempt
    BY <2>1, ResumedTypes DEF Intent
  <2>3. Resumed.attempt = 0
    BY <2>1 DEF Resumed, Blank, IntentInv
  <2> QED
    BY <2>2, <2>3 DEF IntentInv
<1>7. ASSUME ResumeDispatch PROVE IntentInv'
  BY <1>7 DEF ResumeDispatch, Continue, Resumed, IntentInv
<1>8. ASSUME Post PROVE IntentInv'
  <2>1. \A q \in RunIds : Grown(q)
    BY Grows
  <2>2. intent # None /\ intent.run # None => intent.run \in RunIds /\ intent.attempt \in Nat
    BY DEF TypeOK, Intent, MaybeRun, Attempts
  <2>3. UNCHANGED intent
    BY <1>8 DEF Post
  <2>4. runs' \in [RunIds -> Run]
    BY Grows
  <2>5. \A q \in RunIds : runs[q].attempt \in Nat /\ runs'[q].attempt \in Nat
    BY <2>4, RunTypes DEF Run, Attempts
  <2> QED
    BY <2>1, <2>2, <2>3, <2>5 DEF IntentInv, Grown
<1>9. ASSUME Poll PROVE IntentInv'
  <2>1. CASE UNCHANGED intent
    BY <1>9, <2>1 DEF Poll, IntentInv
  <2>2. CASE Cardinality(NewRuns) = 1 /\ LET r == CHOOSE r \in NewRuns : TRUE
               i == [my EXCEPT !.run = r, !.attempt = runs[r].attempt]
           IN my' = i /\ WriteIntent(i)
    <3> DEFINE r == CHOOSE r \in NewRuns : TRUE
    <3>1. r \in NewRuns
      BY <2>2, SomeRun
    <3>2. r \in RunIds /\ runs[r].attempt # 0 /\ UNCHANGED runs
      BY <1>9, <3>1, RunTypes DEF NewRuns, Listed, RunsInv, Poll
    <3>3. intent' = [my EXCEPT !.run = r, !.attempt = runs[r].attempt]
      BY <2>2 DEF WriteIntent
    <3> HIDE DEF r
    <3>4. intent'.run = r /\ intent'.attempt = runs[r].attempt
      BY <3>3 DEF TypeOK, Intent
    <3> QED
      BY <3>2, <3>4, RunsAssumption, RunTypes DEF IntentInv
  <2> QED
    BY <1>9, <2>1, <2>2 DEF Poll
<1>10. ASSUME Await PROVE IntentInv'
  BY <1>10 DEF Await, End, IntentInv
<1>11. ASSUME Expire PROVE IntentInv'
  BY <1>11 DEF Expire, End, IntentInv
<1>12. ASSUME ReadJobs PROVE IntentInv'
  <2>1. CASE UNCHANGED intent
    BY <1>12, <2>1 DEF ReadJobs, IntentInv
  <2>2. CASE intent' = [my EXCEPT !.attempt = fetched]
    <3>1. my.run \in RunIds /\ fetched # 0 /\ fetched <= runs[my.run].attempt /\ UNCHANGED runs
      BY <1>12 DEF ReadJobs, ReceiptInv, FetchedInv
    <3>2. intent'.run = my.run /\ intent'.attempt = fetched
      BY <2>2 DEF TypeOK, Intent
    <3> QED
      BY <3>1, <3>2, RunsAssumption DEF IntentInv
  <2> QED
    BY <1>12, <2>1, <2>2 DEF ReadJobs, WriteIntent
<1>13. ASSUME ListArtifacts PROVE IntentInv'
  BY <1>13 DEF ListArtifacts, IntentInv
<1>14. ASSUME Refresh PROVE IntentInv'
  <2>1. CASE UNCHANGED intent
    BY <1>14, <2>1 DEF Refresh, IntentInv
  <2>2. CASE intent' = my
    <3>1. my.run \in RunIds /\ my.attempt = intent.attempt /\ my.run = intent.run /\ my.attempt # 0
      BY <1>14 DEF Refresh, ReceiptInv, FetchedInv
    <3> QED
      BY <1>14, <2>2, <3>1, RunsAssumption DEF IntentInv, ReceiptInv, Refresh
  <2> QED
    BY <1>14, <2>1, <2>2 DEF Refresh, WriteIntent
<1>15. ASSUME Again PROVE IntentInv'
  BY <1>15 DEF Again, IntentInv
<1>16. ASSUME LoseReceipt PROVE IntentInv'
  BY <1>16 DEF LoseReceipt, IntentInv
<1>17. ASSUME Abort PROVE IntentInv'
  BY <1>17 DEF Abort, End, IntentInv
<1>18. ASSUME UNCHANGED <<pc, job, intent>> PROVE IntentInv'
  <2>1. \A q \in RunIds : Grown(q)
    BY Grows
  <2>2. intent # None /\ intent.run # None => intent.run \in RunIds /\ intent.attempt \in Nat
    BY DEF TypeOK, Intent, MaybeRun, Attempts
  <2>3. UNCHANGED intent
    BY <1>18
  <2>4. runs' \in [RunIds -> Run]
    BY Grows
  <2>5. \A q \in RunIds : runs[q].attempt \in Nat /\ runs'[q].attempt \in Nat
    BY <2>4, RunTypes DEF Run, Attempts
  <2> QED
    BY <2>1, <2>2, <2>3, <2>5 DEF IntentInv, Grown
<1> QED
  BY <1>1, <1>2, <1>3, <1>4, <1>5, <1>6, <1>7, <1>8, <1>9, <1>10, <1>11, <1>12, <1>13,
         <1>14, <1>15, <1>16, <1>17, <1>18 DEF Next, Resolve, GitHub, Appear,
         Complete, Rerun, DispatchByHand, vars

\* What the job has listed.
LEMMA ListingNext ==
  ASSUME IInv, [Next]_vars
  PROVE  ListingInv'
<1> USE DEF Fault, job, IInv
<1>1. ASSUME ListRuns PROVE ListingInv'
  <2>1. seen'.exact = Listed /\ seen'.active = {r \in Listed : runs[r].state = "active"}
        /\ seen'.todo = {r \in Listed : Success(r)} /\ seen'.asked = {} /\ seen'.qualified = {}
    BY <1>1 DEF ListRuns
  <2>2. \A r \in RunIds : seen'.attempt[r] = runs[r].attempt
    BY <1>1 DEF ListRuns
  <2>3. UNCHANGED <<runs, intent>>
    BY <1>1 DEF ListRuns
  <2>4. seen'.active \cup seen'.todo \cup seen'.asked \cup seen'.qualified \subseteq seen'.exact
    BY <2>1
  <2>5. ASSUME NEW r \in Listed
        PROVE  /\ seen'.attempt[r] # 0 /\ seen'.attempt[r] <= runs[r].attempt
               /\ r \notin seen'.active => runs[r].state = "done"
               /\ r \notin seen'.todo => runs[r].conclusion # "signed" \/ runs[r].state # "done"
               /\ intent # None /\ intent.run = r => intent.attempt <= seen'.attempt[r]
    <3>1. r \in RunIds /\ runs[r].state \in {"active", "done"} /\ r # None
      BY RunsAssumption DEF Listed
    <3>2. seen'.attempt[r] = runs[r].attempt /\ runs[r].attempt # 0
      BY <3>1, <2>2 DEF RunsInv
    <3> QED
      BY <2>1, <3>1, <3>2, RunTypes DEF Success, IntentInv
  <2>6. seen'.asked = {} /\ seen'.qualified = {} /\ Listed = seen'.exact
    BY <2>1
  <2> QED
    BY <2>3, <2>4, <2>5, <2>6 DEF ListingInv
<1>2. ASSUME NEW r \in RunIds, Qualify(r) \/ QualifyJobs(r) PROVE ListingInv'
  <2>1. /\ seen'.exact = seen.exact /\ seen'.active = seen.active /\ seen'.attempt = seen.attempt
        /\ \/ /\ r \in seen.todo /\ seen'.todo = seen.todo \ {r} /\ seen.asked = {}
              /\ seen'.asked = (IF Success(r) THEN {r} ELSE {})
              /\ seen'.qualified = seen.qualified
           \/ \E signed \in SigningSeen(r) :
                /\ r \in seen.asked /\ seen'.todo = seen.todo /\ seen'.asked = {}
                /\ seen'.qualified = (IF signed THEN seen.qualified \cup {r} ELSE seen.qualified)
                /\ \A q \in seen.asked : q = r
    BY <1>2 DEF Qualify, QualifyJobs, TypeOK, Seen, ListingInv
  <2>2. UNCHANGED <<runs, intent>> /\ pc = "qualify"
    BY <1>2 DEF Qualify, QualifyJobs
  <2>3. seen'.active \cup seen'.todo \cup seen'.asked \cup seen'.qualified \subseteq seen'.exact
    BY <2>1, <2>2 DEF ListingInv
  <2>4. ASSUME NEW q \in seen'.exact, q \notin seen'.active /\ runs[q].attempt = seen.attempt[q],
               q \notin seen'.todo \cup seen'.asked \cup seen'.qualified
        PROVE  runs[q].conclusion # "signed"
    <3>1. CASE q = r
      BY <2>1, <2>2, <2>4, <3>1 DEF ListingInv, Success, Signed, SigningSeen
    <3>2. CASE q # r
      BY <2>1, <2>2, <2>4, <3>2 DEF ListingInv
    <3> QED
      BY <3>1, <3>2
  <2> QED
    BY <2>1, <2>2, <2>3, <2>4 DEF ListingInv
<1>3. ASSUME RefuseAmbiguous PROVE ListingInv'
  BY <1>3 DEF RefuseAmbiguous, End, ListingInv
<1>4. ASSUME ResumePinned PROVE ListingInv'
  BY <1>4 DEF ResumePinned, Continue, Resumed, ListingInv
<1>5. ASSUME ReuseRun PROVE ListingInv'
  BY <1>5 DEF ReuseRun, Continue, Resumed, WriteIntent, ListingInv
<1>6. ASSUME IntendDispatch PROVE ListingInv'
  BY <1>6 DEF IntendDispatch, Continue, Resumed, WriteIntent, ListingInv
<1>7. ASSUME ResumeDispatch PROVE ListingInv'
  BY <1>7 DEF ResumeDispatch, Continue, Resumed, ListingInv
<1>8. ASSUME Post PROVE ListingInv'
  BY <1>8 DEF Post, Answer, ListingInv
<1>9. ASSUME Poll PROVE ListingInv'
  BY <1>9 DEF Poll, End, WriteIntent, ListingInv
<1>10. ASSUME Await PROVE ListingInv'
  BY <1>10 DEF Await, End, ListingInv
<1>11. ASSUME Expire PROVE ListingInv'
  BY <1>11 DEF Expire, End, ListingInv
<1>12. ASSUME ReadJobs PROVE ListingInv'
  BY <1>12 DEF ReadJobs, End, WriteIntent, ListingInv
<1>13. ASSUME ListArtifacts PROVE ListingInv'
  BY <1>13 DEF ListArtifacts, ListingInv
<1>14. ASSUME Refresh PROVE ListingInv'
  BY <1>14 DEF Refresh, End, WriteIntent, ListingInv
<1>15. ASSUME Again PROVE ListingInv'
  BY <1>15 DEF Again, ListingInv
<1>16. ASSUME LoseReceipt PROVE ListingInv'
  BY <1>16 DEF LoseReceipt, ListingInv
<1>17. ASSUME Abort PROVE ListingInv'
  BY <1>17 DEF Abort, End, ListingInv
<1>18. ASSUME UNCHANGED <<pc, job, intent>> PROVE ListingInv'
  <2>1. \A q \in RunIds : Grown(q)
    BY Grows
  <2>2. runs' \in [RunIds -> Run]
    BY Grows
  <2>3. \A q \in RunIds : runs[q].attempt \in Nat /\ runs'[q].attempt \in Nat
    BY <2>2, RunTypes DEF Run, Attempts
  <2>4. UNCHANGED <<pc, seen, intent>>
    BY <1>18
  <2>5. seen.exact \subseteq RunIds /\ \A q \in RunIds : seen.attempt[q] \in Nat
    BY ResumedTypes DEF Attempts
  <2>6. ASSUME pc = "qualify", NEW q \in seen.exact
        PROVE  /\ seen.attempt[q] <= runs'[q].attempt
               /\ runs'[q].attempt = seen.attempt[q] => runs[q].attempt = seen.attempt[q]
    BY <2>1, <2>3, <2>5, <2>6 DEF ListingInv, Grown
  <2>7. ASSUME pc = "qualify", NEW q \in seen.exact,
               q \notin seen.active /\ runs'[q].attempt = seen.attempt[q]
        PROVE  /\ runs'[q].state = "done"
               /\ q \notin seen.todo \cup seen.asked \cup seen.qualified => runs'[q].conclusion # "signed"
    BY <2>1, <2>5, <2>6, <2>7 DEF ListingInv, Grown
  <2> QED
    BY <2>4, <2>6, <2>7 DEF ListingInv
<1> QED
  BY <1>1, <1>2, <1>3, <1>4, <1>5, <1>6, <1>7, <1>8, <1>9, <1>10, <1>11, <1>12, <1>13,
         <1>14, <1>15, <1>16, <1>17, <1>18 DEF Next, Resolve, GitHub, Appear,
         Complete, Rerun, DispatchByHand, vars

\* What the job has next to the receipt.
LEMMA ReceiptNext ==
  ASSUME IInv, [Next]_vars
  PROVE  ReceiptInv'
<1> USE DEF Fault, job, IInv
<1>1. ASSUME ListRuns PROVE ReceiptInv'
  BY <1>1 DEF ListRuns, ReceiptInv
<1>2. ASSUME NEW r \in RunIds, Qualify(r) \/ QualifyJobs(r) PROVE ReceiptInv'
  BY <1>2 DEF Qualify, QualifyJobs, ReceiptInv
<1>3. ASSUME RefuseAmbiguous PROVE ReceiptInv'
  BY <1>3 DEF RefuseAmbiguous, End, ReceiptInv
<1>4. ASSUME ResumePinned PROVE ReceiptInv'
  <2>1. pc' = "await" /\ my' = Resumed /\ Resumed.run # None /\ UNCHANGED intent
    BY <1>4 DEF ResumePinned, Continue
  <2>2. Resumed = intent /\ intent # None
    BY <2>1 DEF Resumed, Blank
  <2>3. intent.run \in RunIds /\ intent.attempt # 0
    BY <2>1, <2>2, ResumedTypes DEF Intent, MaybeRun, IntentInv
  <2> QED
    BY <2>1, <2>2, <2>3 DEF ReceiptInv
<1>5. ASSUME ReuseRun PROVE ReceiptInv'
  <2>1. PICK r \in Eligible : intent' = [Resumed EXCEPT !.run = r, !.attempt = seen.attempt[r]]
                              /\ my' = intent'
    BY <1>5 DEF ReuseRun, WriteIntent, Continue
  <2>2. pc = "qualify" /\ pc' = "await" /\ r \in seen.exact /\ r \in RunIds
    BY <1>5, ResumedTypes DEF ReuseRun, Continue, Chosen, Eligible, ListingInv
  <2>3. seen.attempt[r] # 0
    BY <2>2 DEF ListingInv
  <2>4. intent'.run = r /\ intent'.attempt = seen.attempt[r] /\ intent' \in Intent
    BY <2>1, <2>2, ResumedTypes DEF Intent, MaybeRun
  <2>5. intent' # None
    BY <2>4, NoneAssumption
  <2> QED
    BY <2>1, <2>2, <2>3, <2>4, <2>5 DEF ReceiptInv
<1>6. ASSUME IntendDispatch PROVE ReceiptInv'
  <2>1. /\ intent' = [Resumed EXCEPT !.dispatched = TRUE] /\ Resumed.run = None
        /\ my' = intent' /\ pc' = "post"
    BY <1>6 DEF IntendDispatch, WriteIntent, Continue
  <2>2. intent'.run = None /\ intent'.attempt = Resumed.attempt /\ intent' \in Intent
    BY <2>1, ResumedTypes DEF Intent
  <2>3. Resumed.attempt = 0
    BY <2>1 DEF Resumed, Blank, IntentInv
  <2> QED
    BY <2>1, <2>2, <2>3, NoneAssumption DEF ReceiptInv
<1>7. ASSUME ResumeDispatch PROVE ReceiptInv'
  <2>1. pc' = "poll" /\ my' = Resumed /\ Resumed.run = None /\ Resumed.dispatched /\ UNCHANGED intent
    BY <1>7 DEF ResumeDispatch, Continue
  <2>2. Resumed = intent /\ intent # None
    BY <2>1 DEF Resumed, Blank
  <2> QED
    BY <2>1, <2>2 DEF ReceiptInv, IntentInv
<1>8. ASSUME Post PROVE ReceiptInv'
  <2>1. PICK q \in RunIds \cup {None} : Answer(q)
    BY <1>8 DEF Post
  <2>2. my.run = None /\ my.attempt = 0 /\ intent # None /\ intent.run = None /\ UNCHANGED intent
    BY <1>8 DEF Post, ReceiptInv
  <2>3. my'.run = q /\ my'.attempt = 0 /\ pc' = IF q = None THEN "poll" ELSE "await"
    BY <2>1, <2>2 DEF Answer, TypeOK, Intent
  <2> QED
    BY <2>2, <2>3, RunsAssumption DEF ReceiptInv
<1>9. ASSUME Poll PROVE ReceiptInv'
  <2>1. CASE End("failed")
    BY <2>1 DEF End, ReceiptInv
  <2>2. CASE UNCHANGED <<pc, my, intent>>
    BY <1>9, <2>2 DEF Poll, ReceiptInv
  <2>3. CASE /\ Cardinality(NewRuns) = 1
             /\ LET r == CHOOSE r \in NewRuns : TRUE
                    i == [my EXCEPT !.run = r, !.attempt = runs[r].attempt]
                IN my' = i /\ WriteIntent(i)
             /\ pc' = "await"
    <3> DEFINE r == CHOOSE r \in NewRuns : TRUE
    <3>1. r \in NewRuns
      BY <2>3, SomeRun
    <3>2. r \in RunIds /\ runs[r].attempt # 0
      BY <3>1, RunTypes DEF NewRuns, Listed, RunsInv
    <3>3. intent' = [my EXCEPT !.run = r, !.attempt = runs[r].attempt] /\ my' = intent'
      BY <2>3 DEF WriteIntent
    <3> HIDE DEF r
    <3>4. intent'.run = r /\ intent'.attempt = runs[r].attempt /\ intent' \in Intent
      BY <3>2, <3>3, RunTypes DEF TypeOK, Intent, MaybeRun
    <3> QED
      BY <2>3, <3>2, <3>3, <3>4, NoneAssumption DEF ReceiptInv
  <2> QED
    BY <1>9, <2>1, <2>2, <2>3 DEF Poll
<1>10. ASSUME Await PROVE ReceiptInv'
  BY <1>10 DEF Await, End, ReceiptInv
<1>11. ASSUME Expire PROVE ReceiptInv'
  BY <1>11 DEF Expire, End, ReceiptInv
<1>12. ASSUME ReadJobs PROVE ReceiptInv'
  <2>1. CASE End("failed")
    BY <2>1 DEF End, ReceiptInv
  <2>2. CASE pc' = "artifacts" /\ my' = [my EXCEPT !.attempt = fetched] /\ intent' = my'
             /\ UNCHANGED fetched
    <3>1. my.run \in RunIds /\ fetched # 0
      BY <1>12 DEF ReadJobs, ReceiptInv, FetchedInv
    <3>2. my'.run = my.run /\ my'.attempt = fetched /\ my' \in Intent
      BY <2>2 DEF TypeOK, Intent
    <3> QED
      BY <2>2, <3>1, <3>2, NoneAssumption DEF ReceiptInv
  <2> QED
    BY <1>12, <2>1, <2>2 DEF ReadJobs, WriteIntent
<1>13. ASSUME ListArtifacts PROVE ReceiptInv'
  BY <1>13 DEF ListArtifacts, ReceiptInv
<1>14. ASSUME Refresh PROVE ReceiptInv'
  BY <1>14 DEF Refresh, End, WriteIntent, ReceiptInv
<1>15. ASSUME Again PROVE ReceiptInv'
  BY <1>15 DEF Again, ReceiptInv
<1>16. ASSUME LoseReceipt PROVE ReceiptInv'
  BY <1>16 DEF LoseReceipt, ReceiptInv
<1>17. ASSUME Abort PROVE ReceiptInv'
  BY <1>17 DEF Abort, End, ReceiptInv
<1>18. ASSUME UNCHANGED <<pc, job, intent>> PROVE ReceiptInv'
  <2> QED
    BY <1>18 DEF ReceiptInv
<1> QED
  BY <1>1, <1>2, <1>3, <1>4, <1>5, <1>6, <1>7, <1>8, <1>9, <1>10, <1>11, <1>12, <1>13,
         <1>14, <1>15, <1>16, <1>17, <1>18 DEF Next, Resolve, GitHub, Appear,
         Complete, Rerun, DispatchByHand, vars

\* What the job has looked at.
LEMMA FetchedNext ==
  ASSUME IInv, [Next]_vars
  PROVE  FetchedInv'
<1> USE DEF Fault, job, IInv
<1>1. ASSUME ListRuns PROVE FetchedInv'
  BY <1>1 DEF ListRuns, FetchedInv
<1>2. ASSUME NEW r \in RunIds, Qualify(r) \/ QualifyJobs(r) PROVE FetchedInv'
  BY <1>2 DEF Qualify, QualifyJobs, FetchedInv
<1>3. ASSUME RefuseAmbiguous PROVE FetchedInv'
  BY <1>3 DEF RefuseAmbiguous, End, FetchedInv
<1>4. ASSUME ResumePinned PROVE FetchedInv'
  BY <1>4 DEF ResumePinned, Continue, Resumed, FetchedInv
<1>5. ASSUME ReuseRun PROVE FetchedInv'
  BY <1>5 DEF ReuseRun, Continue, Resumed, WriteIntent, FetchedInv
<1>6. ASSUME IntendDispatch PROVE FetchedInv'
  BY <1>6 DEF IntendDispatch, Continue, Resumed, WriteIntent, FetchedInv
<1>7. ASSUME ResumeDispatch PROVE FetchedInv'
  BY <1>7 DEF ResumeDispatch, Continue, Resumed, FetchedInv
<1>8. ASSUME Post PROVE FetchedInv'
  BY <1>8 DEF Post, Answer, FetchedInv
<1>9. ASSUME Poll PROVE FetchedInv'
  BY <1>9 DEF Poll, End, WriteIntent, FetchedInv
<1>10. ASSUME Await PROVE FetchedInv'
  <2>1. CASE End("failed")
    BY <2>1 DEF End, FetchedInv
  <2>2. CASE pc' \notin {"jobs", "artifacts", "refresh"}
    BY <2>2 DEF FetchedInv
  <2>3. CASE pc' = "jobs" /\ fetched' = runs[my.run].attempt /\ UNCHANGED my
             /\ runs[my.run].exact /\ Success(my.run)
    <3>1. my.run \in RunIds /\ UNCHANGED runs
      BY <1>10 DEF Await, ReceiptInv
    <3>2. Success(my.run) /\ runs[my.run].attempt # 0
      BY <2>3, <3>1, RunTypes DEF Success, RunsInv
    <3>3. runs[my.run].attempt \in Nat
      BY <3>1, RunTypes
    <3> QED
      BY <2>3, <3>1, <3>2, <3>3 DEF FetchedInv, Success
  <2> QED
    BY <1>10, <2>1, <2>2, <2>3 DEF Await
<1>11. ASSUME Expire PROVE FetchedInv'
  BY <1>11 DEF Expire, End, FetchedInv
<1>12. ASSUME ReadJobs PROVE FetchedInv'
  <2>1. CASE End("failed")
    BY <2>1 DEF End, FetchedInv
  <2>2. CASE pc' = "artifacts" /\ my' = [my EXCEPT !.attempt = fetched] /\ UNCHANGED fetched
             /\ TRUE \in SigningSeen(my.run)
    <3>1. my'.run = my.run /\ UNCHANGED runs
      BY <1>12, <2>2 DEF TypeOK, Intent, ReadJobs
    <3>2. runs[my.run].attempt = fetched => Success(my.run) /\ Signed(my.run)
      BY <1>12, <2>2 DEF FetchedInv, ReadJobs, SigningSeen
    <3> QED
      BY <1>12, <2>2, <3>1, <3>2 DEF FetchedInv, ReadJobs, Success, Signed
  <2> QED
    BY <1>12, <2>1, <2>2 DEF ReadJobs
<1>13. ASSUME ListArtifacts PROVE FetchedInv'
  <2>1. pc' = "refresh" /\ UNCHANGED <<my, fetched, runs>> /\ pc = "artifacts"
    BY <1>13 DEF ListArtifacts
  <2>2. runs[my.run].state = "done" => origin' = runs[my.run].attempt
    BY <1>13 DEF ListArtifacts
  <2> QED
    BY <2>1, <2>2 DEF FetchedInv, Success, Signed
<1>14. ASSUME Refresh PROVE FetchedInv'
  BY <1>14 DEF Refresh, End, WriteIntent, FetchedInv
<1>15. ASSUME Again PROVE FetchedInv'
  BY <1>15 DEF Again, FetchedInv
<1>16. ASSUME LoseReceipt PROVE FetchedInv'
  BY <1>16 DEF LoseReceipt, FetchedInv
<1>17. ASSUME Abort PROVE FetchedInv'
  BY <1>17 DEF Abort, End, FetchedInv
<1>18. ASSUME UNCHANGED <<pc, job, intent>> PROVE FetchedInv'
  <2>1. \A q \in RunIds : Grown(q)
    BY Grows
  <2>2. runs' \in [RunIds -> Run]
    BY Grows
  <2>3. \A q \in RunIds : runs[q].attempt \in Nat /\ runs'[q].attempt \in Nat
    BY <2>2, RunTypes DEF Run, Attempts
  <2>4. UNCHANGED <<pc, my, fetched, origin>>
    BY <1>18
  <2>5. pc \in {"jobs", "artifacts", "refresh"} => my.run \in RunIds /\ fetched \in Nat
    BY DEF ReceiptInv, TypeOK, Attempts
  <2>6. ASSUME pc \in {"jobs", "artifacts", "refresh"}
        PROVE  /\ fetched <= runs'[my.run].attempt /\ runs'[my.run].exact
               /\ runs'[my.run].attempt = fetched =>
                    /\ runs[my.run].attempt = fetched /\ runs'[my.run].state = "done"
                    /\ runs'[my.run].conclusion = runs[my.run].conclusion
    BY <2>1, <2>3, <2>5, <2>6 DEF FetchedInv, Success, Grown
  <2> QED
    BY <2>4, <2>6 DEF FetchedInv, Success, Signed
<1> QED
  BY <1>1, <1>2, <1>3, <1>4, <1>5, <1>6, <1>7, <1>8, <1>9, <1>10, <1>11, <1>12, <1>13,
         <1>14, <1>15, <1>16, <1>17, <1>18 DEF Next, Resolve, GitHub, Appear,
         Complete, Rerun, DispatchByHand, vars

LEMMA InitInv == Init => IInv
<1> SUFFICES ASSUME Init PROVE IInv
  OBVIOUS
<1>1. 0 \in Attempts /\ MaxFaults \in 0 .. MaxFaults
  BY BoundsAssumption DEF Attempts
<1>2. TypeOK
  BY <1>1, NothingTypes, BlankTypes DEF Init, TypeOK, Run
<1> QED
  BY <1>2 DEF Init, IInv, RunsInv, IntentInv, ListingInv, ReceiptInv, FetchedInv

\* The invariant of the resolver: what a job and its receipt know of a run is true of the
\* run, or somebody has repeated it since.
THEOREM Inductive == Spec => []IInv
<1>1. ASSUME IInv, [Next]_vars PROVE IInv'
  <2>1. IInv => TypeOK /\ RunsInv
    BY DEF IInv
  <2>2. RunsInv'
    BY <1>1, <2>1, Grows
  <2>3. TypeOK'
    BY <1>1, TypeNext
  <2>4. IntentInv' /\ ListingInv'
    BY <1>1, IntentNext, ListingNext
  <2>5. ReceiptInv' /\ FetchedInv'
    BY <1>1, ReceiptNext, FetchedNext
  <2> QED
    BY <2>2, <2>3, <2>4, <2>5 DEF IInv
<1> QED
  BY <1>1, InitInv, PTL DEF Spec

\* Every variable keeps its type.
THEOREM TypeCorrect == Spec => []TypeOK
<1>1. IInv => TypeOK
  BY DEF IInv
<1> QED
  BY <1>1, Inductive, PTL

\* What a step does to a receipt that names a run: it keeps it, or lets go of a run that
\* the listing had no use for.
LEMMA ReceiptSteps ==
  ASSUME IInv, [Next]_vars, intent # None, intent.run # None, intent' # None
  PROVE  \/ intent'.run = intent.run /\ intent'.attempt = intent.attempt
         \/ /\ pc = "qualify" /\ seen.todo = {} /\ seen.asked = {} /\ UNCHANGED runs
            /\ intent.run \in seen.exact \ Eligible /\ intent'.run # intent.run
<1> DEFINE Kept == intent'.run = intent.run /\ intent'.attempt = intent.attempt
           LetGo == /\ pc = "qualify" /\ seen.todo = {} /\ seen.asked = {} /\ UNCHANGED runs
                    /\ intent.run \in seen.exact \ Eligible /\ intent'.run # intent.run
<1>1. CASE UNCHANGED intent
  BY <1>1
<1>2. ASSUME PinIsUseless, Chosen, UNCHANGED runs, intent'.run # intent.run PROVE LetGo
  BY <1>2 DEF PinIsUseless, Pinned, Chosen
<1>3. ~PinIsUseless => Resumed = intent
  BY DEF Resumed
<1>4. CASE ReuseRun
  <2>1. PICK r \in Eligible : intent' = [Resumed EXCEPT !.run = r, !.attempt = seen.attempt[r]]
    BY <1>4 DEF ReuseRun, WriteIntent
  <2>2. intent'.run = r
    BY <2>1, ResumedTypes DEF IInv, Intent
  <2>3. PinIsUseless
    BY <1>3, <1>4 DEF ReuseRun
  <2>4. intent'.run # intent.run
    BY <2>2, <2>3 DEF PinIsUseless, Pinned
  <2>5. UNCHANGED runs /\ Chosen
    BY <1>4 DEF ReuseRun, Continue
  <2> QED
    BY <1>2, <2>3, <2>4, <2>5
<1>5. CASE IntendDispatch
  <2>1. intent' = [Resumed EXCEPT !.dispatched = TRUE] /\ Resumed.run = None
    BY <1>5 DEF IntendDispatch, WriteIntent
  <2>2. intent'.run = None
    BY <2>1, ResumedTypes DEF IInv, Intent
  <2>3. PinIsUseless
    BY <1>3, <2>1
  <2>4. UNCHANGED runs /\ Chosen
    BY <1>5 DEF IntendDispatch, Continue
  <2> QED
    BY <1>2, <2>2, <2>3, <2>4
<1>6. CASE Poll
  <2>1. intent.run = None
    BY <1>6 DEF Poll, IInv, ReceiptInv
  <2> QED
    BY <2>1
<1>7. CASE ReadJobs
  <2>1. CASE UNCHANGED intent
    BY <2>1
  <2>2. CASE my.attempt \in {0, fetched} /\ intent' = [my EXCEPT !.attempt = fetched]
    <3>1. intent.run = my.run /\ intent.attempt = my.attempt /\ my.attempt # 0
      BY <1>7 DEF ReadJobs, IInv, ReceiptInv
    <3>2. intent'.run = my.run /\ intent'.attempt = fetched
      BY <2>2 DEF IInv, TypeOK, Intent
    <3> QED
      BY <2>2, <3>1, <3>2
  <2> QED
    BY <1>7, <2>1, <2>2 DEF ReadJobs, WriteIntent
<1>8. CASE Refresh
  <2>1. intent.run = my.run /\ intent.attempt = my.attempt
    BY <1>8 DEF Refresh, IInv, ReceiptInv
  <2>2. UNCHANGED intent \/ intent' = my
    BY <1>8 DEF Refresh, WriteIntent
  <2> QED
    BY <2>1, <2>2
<1>9. CASE LoseReceipt
  BY <1>9 DEF LoseReceipt
<1>10. \/ UNCHANGED intent \/ ReuseRun \/ IntendDispatch \/ Poll \/ ReadJobs \/ Refresh
       \/ LoseReceipt
  BY DEF Next, Resolve, GitHub, vars, job, ListRuns, Qualify, QualifyJobs, RefuseAmbiguous, ResumePinned,
         ResumeDispatch, Post, Await, Expire, ListArtifacts, Again, Abort, Appear, Complete,
         Rerun, DispatchByHand
<1> QED
  BY <1>1, <1>4, <1>5, <1>6, <1>7, <1>8, <1>9, <1>10

\* The receipt never moves to another attempt of the run it names.
THEOREM AttemptsStay == Spec => AttemptsArePinned
<1>1. ASSUME IInv, [Next]_vars
      PROVE  [intent # None /\ intent' # None /\ intent.run # None /\ intent'.run = intent.run =>
                intent'.attempt = intent.attempt]_vars
  BY <1>1, ReceiptSteps
<1> QED
  BY <1>1, Inductive, PTL DEF Spec, AttemptsArePinned

\* The receipt lets go of a run only when that run is complete and useless, or somebody
\* has repeated it since: even though the listing it decides from is older.
THEOREM PinsStay == Spec => PinsAreKept
<1> DEFINE Let(run) == run.attempt > intent.attempt
                         \/ (run.state = "done" /\ run.conclusion # "signed")
<1>1. ASSUME IInv, [Next]_vars, intent # None, intent' # None, intent.run # None,
             intent'.run # intent.run
      PROVE  Let(runs[intent.run])
  <2>1. pc = "qualify" /\ seen.todo = {} /\ seen.asked = {} /\ intent.run \in seen.exact \ Eligible
    BY <1>1, ReceiptSteps
  <2>2. intent.run \in RunIds /\ intent.attempt \in Nat
    BY <1>1 DEF IInv, TypeOK, Intent, MaybeRun, Attempts
  <2> DEFINE run == runs[intent.run]
  <2>3. run.attempt \in Nat /\ seen.attempt[intent.run] \in Nat
    BY <1>1, <2>2, RunTypes, ResumedTypes DEF IInv, Attempts
  <2>4. intent.attempt <= seen.attempt[intent.run] /\ seen.attempt[intent.run] <= run.attempt
    BY <1>1, <2>1 DEF IInv, ListingInv
  <2>5. run.attempt = seen.attempt[intent.run] => run.state = "done" /\ run.conclusion # "signed"
    BY <1>1, <2>1 DEF IInv, ListingInv, Eligible
  <2>6. run.attempt > seen.attempt[intent.run] => run.attempt > intent.attempt
    BY <2>2, <2>3, <2>4
  <2> HIDE DEF run
  <2>7. Let(run)
    BY <2>3, <2>4, <2>5, <2>6
  <2> QED
    BY <2>7 DEF run
<1>2. ASSUME IInv, [Next]_vars
      PROVE  [intent # None /\ intent' # None /\ intent.run # None /\ intent'.run # intent.run =>
                LET run == runs[intent.run] IN Let(run)]_vars
  BY <1>1, <1>2
<1> QED
  BY <1>2, Inductive, PTL DEF Spec, PinsAreKept

\* What the call returns is one attempt, which the receipt names, of a run of this very
\* commit that is signed at the return.
THEOREM ReturnsAreSigned == Spec => ReturnsOneSignedAttempt
<1>1. ASSUME IInv, [Next]_vars, pc' = "done", pc # "done"
      PROVE  /\ Signed(my.run) /\ runs[my.run].exact
             /\ origin = runs[my.run].attempt /\ my.attempt = origin
  <2>1. Refresh
    BY <1>1 DEF Next, Resolve, GitHub, vars, job, ListRuns, Qualify, QualifyJobs, RefuseAmbiguous,
                ResumePinned, ReuseRun, IntendDispatch, ResumeDispatch, Continue, Post, Answer,
                Poll, Await, Expire, ReadJobs, ListArtifacts, Again, LoseReceipt, Abort, End,
                Appear, Complete, Rerun, DispatchByHand
  <2>2. pc = "refresh" /\ runs[my.run].attempt = fetched
    BY <1>1, <2>1 DEF Refresh, End
  <2> QED
    BY <1>1, <2>2 DEF IInv, ReceiptInv, FetchedInv
<1>2. ASSUME IInv, [Next]_vars
      PROVE  [pc' = "done" /\ pc # "done" =>
                /\ Signed(my.run) /\ runs[my.run].exact
                /\ origin = runs[my.run].attempt /\ my.attempt = origin]_vars
  BY <1>1, <1>2
<1> QED
  BY <1>2, Inductive, PTL DEF Spec, ReturnsOneSignedAttempt

-----------------------------------------------------------------------------
(* One dispatch at a time.                                                 *)

Created(r) == runs[r].state # "none"
Live(r) == runs[r].state \notin {"none", "done"}
New(r, baseline) == Created(r) /\ runs[r].exact /\ r \notin baseline

\* Only this job creates runs, and it has kept its receipt.
Quiet == ~lost /\ \A r \in RunIds : Created(r) => runs[r].mine /\ runs[r].attempt = 1

OneLive == \A r, s \in RunIds : Live(r) /\ Live(s) => r = s

\* Every run is accounted for by the receipt: the one it names is the only one that may be
\* under way; with a dispatch whose run is not known, so is a run outside the baseline.
AccountInv ==
  /\ intent = None => \A r \in RunIds : ~Created(r)
  /\ intent # None /\ intent.run # None => \A r \in RunIds : Live(r) => r = intent.run
  /\ intent # None /\ intent.run = None =>
       /\ intent.dispatched
       /\ \A r, s \in RunIds : Live(r) /\ New(s, intent.baseline) => r = s

\* What the job knows on its way from the listing to the run it takes.
JobInv ==
  /\ pc = "qualify" /\ (intent # None => intent.run # None) =>
       \A r \in RunIds : Created(r) /\ runs[r].exact => r \in seen.exact \/ r = Pinned
  /\ pc = "post" => \A r \in RunIds : ~Live(r) /\ ~New(r, intent.baseline)
  /\ pc \in {"post", "poll"} => my.baseline = intent.baseline
  /\ pc \in {"await", "jobs", "artifacts", "refresh"} => \A r \in RunIds : Live(r) => r = my.run

DispatchInv == Quiet => OneLive /\ AccountInv /\ JobInv

\* Nothing is under way when the job is about to take or dispatch a run anew, and what the
\* commit has is in the baseline.
LEMMA NothingUnderWay ==
  ASSUME IInv, DispatchInv, Quiet, pc = "qualify", Resumed.run = None, ~Resumed.dispatched
  PROVE  \A r \in RunIds : ~Live(r) /\ ~New(r, Resumed.baseline)
<1>1. CASE intent = None
  BY <1>1 DEF DispatchInv, AccountInv, Created, Live, New
<1>2. CASE intent # None /\ ~PinIsUseless
  <2>1. Resumed = intent
    BY <1>2 DEF Resumed
  <2> QED
    BY <1>2, <2>1 DEF DispatchInv, AccountInv
<1>3. CASE intent # None /\ PinIsUseless
  <2>1. Pinned = intent.run /\ Pinned \in seen.exact \ Eligible
    BY <1>3 DEF Pinned, PinIsUseless
  <2>2. Resumed = [Blank EXCEPT !.baseline = intent.baseline \cup seen.exact]
    BY <1>3 DEF Resumed
  <2>3. Resumed.baseline = intent.baseline \cup seen.exact
    BY <2>2 DEF Blank
  <2>4. intent.run \in RunIds /\ intent.run # None
    BY <2>1, ResumedTypes, RunsAssumption DEF IInv
  <2>5. ~Live(intent.run)
    <3> DEFINE q == intent.run
    <3>1. seen.attempt[q] # 0 /\ seen.attempt[q] <= runs[q].attempt
          /\ (runs[q].attempt = seen.attempt[q] => runs[q].state = "done")
      BY <2>1, <2>4 DEF IInv, ListingInv, Eligible
    <3>2. seen.attempt[q] \in Nat /\ runs[q].attempt \in Nat
      BY <2>4, ResumedTypes, RunTypes DEF IInv, Attempts
    <3>3. Created(q) => runs[q].attempt = 1
      BY <2>4 DEF Quiet
    <3> QED
      BY <3>1, <3>2, <3>3 DEF Live, Created
  <2>6. \A r \in RunIds : Live(r) => r = intent.run
    BY <1>3, <2>4 DEF DispatchInv, AccountInv
  <2>7. \A r \in RunIds : Created(r) /\ runs[r].exact => r \in seen.exact
    BY <1>3, <2>1, <2>4 DEF DispatchInv, JobInv
  <2> QED
    BY <2>3, <2>5, <2>6, <2>7 DEF New
<1> QED
  BY <1>1, <1>2, <1>3

\* The runs as the job leaves them: none created, none begun again.
Same ==
  \A q \in RunIds : /\ Live(q)' => Live(q)
                    /\ Created(q)' <=> Created(q)
                    /\ Created(q) => runs'[q].exact = runs[q].exact

LEMMA SameWhenUnchanged == ASSUME UNCHANGED runs PROVE Same
BY DEF Same, Live, Created

LEMMA SameWhenGoingOn == ASSUME TypeOK, GitHub PROVE Same
<1>1. ASSUME NEW r \in RunIds, Appear(r) PROVE Same
  <2>1. runs'[r].state = "active" /\ runs'[r].exact = runs[r].exact /\ runs[r].state = "hidden"
    BY <1>1 DEF Appear, TypeOK, Run
  <2>2. \A q \in RunIds \ {r} : runs'[q] = runs[q]
    BY <1>1 DEF Appear, TypeOK
  <2> QED
    BY <2>1, <2>2 DEF Same, Live, Created
<1>2. ASSUME NEW r \in RunIds, Complete(r) PROVE Same
  <2>1. runs'[r].state = "done" /\ runs'[r].exact = runs[r].exact /\ runs[r].state = "active"
    BY <1>2 DEF Complete, TypeOK, Run
  <2>2. \A q \in RunIds \ {r} : runs'[q] = runs[q]
    BY <1>2 DEF Complete, TypeOK
  <2> QED
    BY <2>1, <2>2 DEF Same, Live, Created
<1> QED
  BY <1>1, <1>2 DEF GitHub

\* A quiet state follows a quiet one, and neither a repetition nor a dispatch by hand.
LEMMA QuietBefore ==
  ASSUME IInv, [Next]_vars, Quiet'
  PROVE  Quiet /\ ~LoseReceipt /\ \A r \in RunIds : ~Rerun(r) /\ ~DispatchByHand(r)
<1>1. ASSUME LoseReceipt PROVE FALSE
  BY <1>1 DEF LoseReceipt, Quiet
<1>2. ASSUME NEW r \in RunIds, Rerun(r) PROVE FALSE
  <2>1. runs'[r].attempt = runs[r].attempt + 1 /\ runs'[r].state = "active"
        /\ runs[r].state = "done"
    BY <1>2 DEF Rerun, IInv, TypeOK, Run
  <2>2. runs[r].attempt \in Nat /\ runs[r].attempt # 0
    BY <2>1, RunTypes DEF IInv, RunsInv
  <2>3. runs'[r].attempt = 1
    BY <2>1 DEF Quiet, Created
  <2> QED
    BY <2>1, <2>2, <2>3
<1>3. ASSUME NEW r \in RunIds, DispatchByHand(r) PROVE FALSE
  <2>1. runs'[r].state = "hidden" /\ runs'[r].mine = FALSE
    BY <1>3 DEF DispatchByHand, NewRun, IInv, TypeOK
  <2> QED
    BY <2>1 DEF Quiet, Created
<1>4. lost' = lost
  <2>1. CASE Resolve
    BY <2>1 DEF Resolve, ListRuns, Qualify, QualifyJobs, RefuseAmbiguous, ResumePinned, ReuseRun,
                IntendDispatch, ResumeDispatch, Continue, Post, Poll, Await, Expire, ReadJobs,
                ListArtifacts, Refresh, Again
  <2>2. CASE GitHub \/ Abort \/ UNCHANGED vars
    BY <2>2 DEF GitHub, Appear, Complete, Abort, vars
  <2> QED
    BY <1>1, <1>2, <1>3, <2>1, <2>2 DEF Next
<1>5. ASSUME NEW r \in RunIds, Created(r) PROVE runs[r].mine /\ runs[r].attempt = 1
  <2>1. runs[r].attempt # 0 /\ runs[r].attempt \in Nat /\ runs'[r].attempt >= runs[r].attempt
    BY <1>5, Grows, RunTypes DEF IInv, RunsInv, Created, Grown
  <2>2. Created(r)'
    BY <1>5, <2>1, Grows, RunTypes DEF RunsInv, Created, IInv, Run
  <2>3. runs'[r].mine /\ runs'[r].attempt = 1
    BY <2>2 DEF Quiet
  <2>4. runs'[r].mine = runs[r].mine
    <3>1. ASSUME NEW q \in RunIds, Appear(q) \/ Complete(q) PROVE runs'[r].mine = runs[r].mine
      BY <3>1 DEF Appear, Complete, IInv, TypeOK, Run
    <3>2. ASSUME Post PROVE runs'[r].mine = runs[r].mine
      BY <1>5, <3>2 DEF Post, NewRun, Created, IInv, TypeOK
    <3>3. UNCHANGED runs \/ Post \/ \E q \in RunIds : Appear(q) \/ Complete(q) \/ Rerun(q) \/ DispatchByHand(q)
      BY DEF Next, Resolve, GitHub, vars, job, ListRuns, Qualify, QualifyJobs, RefuseAmbiguous, ResumePinned,
             ReuseRun, IntendDispatch, ResumeDispatch, Continue, Poll, Await, Expire, ReadJobs,
             ListArtifacts, Refresh, Again, LoseReceipt, Abort
    <3> QED
      BY <1>2, <1>3, <3>1, <3>2, <3>3
  <2> QED
    BY <2>1, <2>3, <2>4
<1> QED
  BY <1>1, <1>2, <1>3, <1>4, <1>5 DEF Quiet

LEMMA DispatchNext ==
  ASSUME IInv, DispatchInv, [Next]_vars
  PROVE  DispatchInv'
<1> SUFFICES ASSUME Quiet' PROVE OneLive' /\ AccountInv' /\ JobInv'
  BY DEF DispatchInv
<1>q. Quiet
  BY QuietBefore
<1>a. OneLive /\ AccountInv /\ JobInv
  BY <1>q DEF DispatchInv
<1> DEFINE Good == OneLive' /\ AccountInv' /\ JobInv'
<1>i. intent # None => intent \in Intent /\ intent.run \in MaybeRun
  BY DEF IInv, TypeOK, Intent
<1>e. ASSUME End("failed"), Same, UNCHANGED intent PROVE Good
  BY <1>e, <1>a DEF End, Same, OneLive, AccountInv, JobInv, Live, Created, New
<1>1. ASSUME ListRuns PROVE Good
  <2>1. UNCHANGED <<runs, intent>> /\ pc' = "qualify" /\ seen'.exact = Listed
    BY <1>1 DEF ListRuns
  <2>2. OneLive' /\ AccountInv'
    BY <1>a, <2>1 DEF OneLive, AccountInv, Live, Created, New
  <2>3. ASSUME NEW r \in RunIds, Created(r), runs[r].exact, intent # None => intent.run # None
        PROVE  r \in Listed \/ r = Pinned
    <3>1. intent # None /\ Pinned = intent.run
      BY <1>a, <2>3 DEF AccountInv, Pinned
    <3>2. Live(r) => r = Pinned
      BY <1>a, <2>3, <3>1 DEF AccountInv
    <3> QED
      BY <2>3, <3>2 DEF Listed, Live, Created
  <2>4. JobInv'
    BY <2>1, <2>3 DEF JobInv, Live, Created, New, Pinned
  <2> QED
    BY <2>2, <2>4
<1>2. ASSUME NEW r \in RunIds, Qualify(r) \/ QualifyJobs(r) PROVE Good
  <2>1. UNCHANGED <<pc, runs, intent, my>> /\ seen'.exact = seen.exact
    BY <1>2 DEF Qualify, QualifyJobs, IInv, TypeOK, Seen
  <2> QED
    BY <1>a, <2>1 DEF OneLive, AccountInv, JobInv, Live, Created, New, Pinned
<1>3. ASSUME RefuseAmbiguous PROVE Good
  BY <1>3, <1>e, SameWhenUnchanged DEF RefuseAmbiguous
<1>4. ASSUME ResumePinned PROVE Good
  <2>1. pc' = "await" /\ my' = Resumed /\ Resumed.run # None /\ UNCHANGED <<runs, intent>>
    BY <1>4 DEF ResumePinned, Continue
  <2>2. Resumed = intent /\ intent # None
    BY <2>1 DEF Resumed, Blank
  <2> QED
    BY <1>a, <2>1, <2>2 DEF OneLive, AccountInv, JobInv, Live, Created, New
<1>5. ASSUME ReuseRun PROVE Good
  <2>1. PICK r \in Eligible :
          LET i == [Resumed EXCEPT !.run = r, !.attempt = seen.attempt[r]]
          IN intent' = i /\ Continue("await", i)
    BY <1>5 DEF ReuseRun, WriteIntent
  <2>2. r \in RunIds /\ Resumed \in Intent
    BY <2>1, ResumedTypes DEF IInv
  <2>3. intent' = my' /\ my'.run = r /\ pc' = "await" /\ UNCHANGED runs
    BY <2>1, <2>2 DEF Continue, Intent
  <2>4. \A q \in RunIds : ~Live(q)
    BY <1>5, <1>q, NothingUnderWay DEF ReuseRun, Chosen
  <2>5. intent' # None /\ intent'.run # None
    <3>1. seen.attempt[r] \in Attempts
      BY <2>2, ResumedTypes DEF IInv
    <3>2. [Resumed EXCEPT !.run = r, !.attempt = seen.attempt[r]] \in Intent
      BY <2>2, <3>1, IntentTypes DEF MaybeRun
    <3> QED
      BY <2>1, <2>2, <2>3, <3>2, NoneAssumption, RunsAssumption
  <2> QED
    BY <2>3, <2>4, <2>5 DEF OneLive, AccountInv, JobInv, Live, Created, New
<1>6. ASSUME IntendDispatch PROVE Good
  <2> DEFINE i == [Resumed EXCEPT !.dispatched = TRUE]
  <2>1. intent' = i /\ my' = i /\ pc' = "post" /\ UNCHANGED runs
    BY <1>6 DEF IntendDispatch, WriteIntent, Continue
  <2>2. i \in Intent /\ i.run = None /\ i.dispatched /\ i.baseline = Resumed.baseline
    BY <1>6, ResumedTypes DEF IntendDispatch, IInv, Intent
  <2>3. \A r \in RunIds : ~Live(r) /\ ~New(r, Resumed.baseline)
    BY <1>6, <1>q, NothingUnderWay DEF IntendDispatch, Chosen
  <2>4. i # None
    BY <2>2, NoneAssumption
  <2> HIDE DEF i
  <2> QED
    BY <2>1, <2>2, <2>3, <2>4 DEF OneLive, AccountInv, JobInv, Live, Created, New
<1>7. ASSUME ResumeDispatch PROVE Good
  <2>1. pc' = "poll" /\ my' = Resumed /\ Resumed.dispatched /\ UNCHANGED <<runs, intent>>
    BY <1>7 DEF ResumeDispatch, Continue
  <2>2. Resumed = intent
    BY <2>1 DEF Resumed, Blank
  <2> QED
    BY <1>a, <2>1, <2>2 DEF OneLive, AccountInv, JobInv, Live, Created, New
<1>8. ASSUME Post PROVE Good
  <2>1. pc = "post" /\ UNCHANGED intent /\ pc' \in {"poll", "await"} /\ my'.baseline = my.baseline
    BY <1>8 DEF Post, Answer, IInv, TypeOK, Intent
  <2>2. intent # None /\ intent.run = None
    BY <2>1 DEF IInv, ReceiptInv
  <2>3. \A q \in RunIds : ~Live(q) /\ ~New(q, intent.baseline)
    BY <1>a, <2>1 DEF JobInv
  <2>4. ASSUME NEW r \in RunIds, NEW e \in BOOLEAN, NewRun(r, e, TRUE),
               Answer(r) \/ Answer(None)
        PROVE  Good
    <3>1. \A q \in RunIds \ {r} : runs'[q] = runs[q]
      BY <2>4 DEF NewRun, IInv, TypeOK
    <3>2. \A q \in RunIds : (Live(q)' => q = r) /\ (New(q, intent.baseline)' => q = r)
      BY <2>1, <2>3, <3>1 DEF Live, Created, New
    <3>3. pc' = "await" => my'.run = r
      BY <2>4 DEF Answer, IInv, TypeOK, Intent
    <3> QED
      BY <1>a, <2>1, <2>2, <3>2, <3>3 DEF OneLive, AccountInv, JobInv, Live, Created, New
  <2>5. ASSUME UNCHANGED runs, Answer(None) PROVE Good
    BY <1>a, <2>1, <2>2, <2>3, <2>5 DEF OneLive, AccountInv, JobInv, Live, Created, New, Answer
  <2> QED
    BY <1>8, <2>4, <2>5 DEF Post
<1>9. ASSUME Poll PROVE Good
  <2>1. CASE End("failed") /\ UNCHANGED intent
    BY <1>9, <2>1, <1>e, SameWhenUnchanged DEF Poll
  <2>2. ASSUME Cardinality(NewRuns) = 1, pc' = "await",
               LET r == CHOOSE r \in NewRuns : TRUE
                   i == [my EXCEPT !.run = r, !.attempt = runs[r].attempt]
               IN my' = i /\ intent' = i
        PROVE  Good
    <3> DEFINE r == CHOOSE r \in NewRuns : TRUE
               i == [my EXCEPT !.run = r, !.attempt = runs[r].attempt]
    <3>1. r \in NewRuns /\ r \in RunIds
      BY <2>2, SomeRun DEF NewRuns, Listed
    <3>2. intent # None /\ intent.run = None /\ my.baseline = intent.baseline
      BY <1>9, <1>a DEF Poll, IInv, ReceiptInv, JobInv
    <3>3. New(r, intent.baseline)
      BY <3>1, <3>2 DEF NewRuns, Listed, New, Created
    <3>4. \A q \in RunIds : Live(q) => q = r
      BY <1>a, <3>1, <3>2, <3>3 DEF AccountInv
    <3>5. i \in Intent /\ i.run = r
      <4>1. my \in Intent /\ r \in MaybeRun /\ runs[r].attempt \in Attempts
        BY <3>1, RunTypes DEF IInv, TypeOK, MaybeRun
      <4> QED
        BY <4>1, IntentTypes DEF Intent
    <3>6. i # None /\ r # None
      BY <3>1, <3>5, NoneAssumption, RunsAssumption
    <3>7. my' = i /\ intent' = i /\ UNCHANGED runs
      BY <1>9, <2>2 DEF Poll
    <3> HIDE DEF i, r
    <3> QED
      BY <2>2, <3>4, <3>5, <3>6, <3>7 DEF OneLive, AccountInv, JobInv, Live, Created, New
  <2>3. CASE late' \in BOOLEAN /\ UNCHANGED <<pc, seen, my, fetched, origin, intent>>
    BY <1>9, <1>a, <2>3 DEF Poll, OneLive, AccountInv, JobInv, Live, Created, New, Pinned
  <2> QED
    BY <1>9, <2>1, <2>2, <2>3 DEF Poll, WriteIntent
<1>10. ASSUME Await PROVE Good
  <2>1. CASE End("failed")
    BY <1>10, <2>1, <1>e, SameWhenUnchanged DEF Await
  <2>2. CASE pc' \in {"await", "jobs"} /\ UNCHANGED <<seen, my>>
    BY <1>10, <1>a, <2>2 DEF Await, OneLive, AccountInv, JobInv, Live, Created, New
  <2> QED
    BY <1>10, <2>1, <2>2 DEF Await
<1>11. ASSUME Expire PROVE Good
  BY <1>11, <1>e, SameWhenUnchanged DEF Expire
<1>12. ASSUME ReadJobs PROVE Good
  <2>1. CASE End("failed") /\ UNCHANGED intent
    BY <1>12, <2>1, <1>e, SameWhenUnchanged DEF ReadJobs
  <2>2. CASE pc' = "artifacts" /\ my' = [my EXCEPT !.attempt = fetched] /\ intent' = my'
    <3>1. my' \in Intent /\ my'.run = my.run /\ my.run \in RunIds
      BY <1>12, <2>2 DEF ReadJobs, IInv, TypeOK, Intent, ReceiptInv
    <3>2. intent' # None /\ intent'.run # None /\ UNCHANGED runs
      BY <1>12, <2>2, <3>1, NoneAssumption, RunsAssumption DEF ReadJobs
    <3> QED
      BY <1>12, <1>a, <2>2, <3>1, <3>2
      DEF ReadJobs, OneLive, AccountInv, JobInv, Live, Created, New
  <2> QED
    BY <1>12, <2>1, <2>2 DEF ReadJobs, WriteIntent
<1>13. ASSUME ListArtifacts PROVE Good
  BY <1>13, <1>a DEF ListArtifacts, OneLive, AccountInv, JobInv, Live, Created, New
<1>14. ASSUME Refresh PROVE Good
  <2>1. CASE UNCHANGED intent /\ End("failed")
    BY <1>14, <2>1, <1>e, SameWhenUnchanged DEF Refresh
  <2>2. CASE intent' = my /\ End("done")
    <3>1. my \in Intent /\ my.run \in RunIds /\ \A r \in RunIds : Live(r) => r = my.run
      BY <1>14, <1>a DEF Refresh, IInv, TypeOK, ReceiptInv, JobInv
    <3>2. intent' # None /\ intent'.run # None /\ UNCHANGED runs
      BY <1>14, <2>2, <3>1, NoneAssumption, RunsAssumption DEF Refresh
    <3> QED
      BY <1>a, <2>2, <3>1, <3>2 DEF End, OneLive, AccountInv, JobInv, Live, Created, New
  <2> QED
    BY <1>14, <2>1, <2>2 DEF Refresh, WriteIntent
<1>15. ASSUME Again PROVE Good
  BY <1>15, <1>a DEF Again, OneLive, AccountInv, JobInv, Live, Created, New
<1>16. ASSUME Abort PROVE Good
  BY <1>16, <1>e, SameWhenUnchanged DEF Abort
<1>17. ASSUME GitHub PROVE Good
  <2>1. Same
    BY <1>17, SameWhenGoingOn DEF IInv
  <2>2. UNCHANGED <<pc, my, seen, intent>>
    BY <1>17 DEF GitHub, Appear, Complete, job
  <2> QED
    BY <1>a, <2>1, <2>2 DEF Same, OneLive, AccountInv, JobInv, Live, Created, New, Pinned
<1>18. CASE UNCHANGED vars
  BY <1>18, <1>a DEF vars, job, OneLive, AccountInv, JobInv, Live, Created, New, Pinned
<1> QED
  BY <1>1, <1>2, <1>3, <1>4, <1>5, <1>6, <1>7, <1>8, <1>9, <1>10, <1>11, <1>12, <1>13, <1>14,
     <1>15, <1>16, <1>17, <1>18, QuietBefore DEF Next, Resolve

\* The receipt accounts for every run that the job has dispatched.
THEOREM DispatchesAccounted == Spec => []DispatchInv
<1>1. Init => DispatchInv
  BY DEF Init, DispatchInv, OneLive, AccountInv, JobInv, Live, Created, New
<1>2. IInv /\ DispatchInv /\ [Next]_vars => DispatchInv'
  BY DispatchNext
<1> QED
  BY <1>1, <1>2, Inductive, PTL DEF Spec

\* Two runs of the job are never under way together, as long as the receipt is kept and
\* nobody else dispatches or repeats a run.
THEOREM DispatchesAreSingle == Spec => []OneLiveDispatch
<1>1. ASSUME DispatchInv PROVE OneLiveDispatch
  <2> DEFINE created == {r \in RunIds : runs[r].state # "none"}
             live == {r \in created : runs[r].state # "done"}
  <2> SUFFICES ASSUME ~lost, \A r \in created : runs[r].mine /\ runs[r].attempt = 1
               PROVE  Cardinality(live) <= 1
    BY DEF OneLiveDispatch
  <2>1. Quiet
    BY DEF Quiet, Created
  <2>2. \A r, s \in live : r = s
    BY <1>1, <2>1 DEF DispatchInv, OneLive, Live
  <2>3. live = {} \/ \E r : live = {r}
    BY <2>2
  <2> HIDE DEF live
  <2>4. CASE live = {}
    <3>1. Cardinality(live) = 0
      BY <2>4, FS_EmptySet, Zenon
    <3> QED
      BY <3>1
  <2>5. ASSUME NEW r, live = {r} PROVE Cardinality(live) <= 1
    <3>1. Cardinality({r}) = 1
      BY FS_Singleton, Zenon
    <3> QED
      BY <2>5, <3>1
  <2> QED
    BY <2>3, <2>4, <2>5
<1> QED
  BY <1>1, DispatchesAccounted, PTL
=============================================================================
