--------------------------- MODULE NativeProducer ---------------------------
(***************************************************************************)
(* resolveNativeProducerArtifacts: a publish job obtains the signed native *)
(* packages of ONE source commit from the producer workflow on GitHub.  It *)
(* reuses a run that is active or qualified, or dispatches one, waits for  *)
(* it, and downloads its artifacts.  A receipt file, the dispatch intent,  *)
(* survives the job: it is written before the POST, so that a job that is  *)
(* resumed does not dispatch again.                                        *)
(*                                                                         *)
(* Each action is one request to GitHub together with what the job does up *)
(* to its next request.  Between two of them GitHub goes on: runs appear   *)
(* in the listing late, complete, are re-run, are dispatched by others.    *)
(***************************************************************************)
EXTENDS Naturals, FiniteSets

CONSTANTS
  RunIds,      \* the workflow runs GitHub may create for the commit
  None,        \* "undefined"
  MaxAttempt,  \* bound: attempts of one run
  MaxFaults    \* bound: errors, crashes and doings of others in a behaviour

ASSUME RunsAssumption == RunIds \subseteq Nat \ {0} /\ None \notin RunIds
ASSUME BoundsAssumption == MaxAttempt \in Nat \ {0} /\ MaxFaults \in Nat

VARIABLES
  pc,       \* the job's next request
  seen,     \* the first listing, reduced to what the job asks of it
  my,       \* dispatchAttempted, runId, expectedRunAttempt and baselineRunIds
  fetched,  \* the attempt completedRun has read (0: none yet)
  origin,   \* the attempt whose artifacts were listed (0: none yet)
  late,     \* has the deadline passed?
  intent,   \* the receipt on disk
  runs,     \* GitHub's runs of the workflow
  lost,     \* has the receipt ever been lost?
  faults    \* doings of the environment still allowed

job == <<seen, my, fetched, origin, late>>
vars == <<pc, job, intent, runs, lost, faults>>

Attempts == 0 .. MaxAttempt
MaybeRun == RunIds \cup {None}
Intent == [dispatched : BOOLEAN, run : MaybeRun, attempt : Attempts, baseline : SUBSET RunIds]
ASSUME NoneAssumption == None \notin Intent

Run == [state : {"none", "hidden", "active", "done"}, attempt : Attempts,
        conclusion : {"none", "signed", "unsigned", "failed"}, exact : BOOLEAN, mine : BOOLEAN]
Seen == [exact : SUBSET RunIds, active : SUBSET RunIds, todo : SUBSET RunIds,
         asked : SUBSET RunIds, qualified : SUBSET RunIds, attempt : [RunIds -> Attempts]]

Nothing == [exact |-> {}, active |-> {}, todo |-> {}, asked |-> {}, qualified |-> {},
            attempt |-> [r \in RunIds |-> 0]]
Blank == [dispatched |-> FALSE, run |-> None, attempt |-> 0, baseline |-> {}]

TypeOK ==
  /\ pc \in {"idle", "qualify", "post", "poll", "await", "jobs", "artifacts", "refresh",
             "done", "failed"}
  /\ seen \in Seen
  /\ my \in Intent
  /\ fetched \in Attempts
  /\ origin \in Attempts
  /\ late \in BOOLEAN
  /\ intent \in Intent \cup {None}
  /\ runs \in [RunIds -> Run]
  /\ lost \in BOOLEAN
  /\ faults \in 0 .. MaxFaults

Init ==
  /\ pc = "idle"
  /\ seen = Nothing
  /\ my = Blank
  /\ fetched = 0
  /\ origin = 0
  /\ late = FALSE
  /\ intent = None
  /\ runs = [r \in RunIds |-> [state |-> "none", attempt |-> 0, conclusion |-> "none",
                               exact |-> FALSE, mine |-> FALSE]]
  /\ lost = FALSE
  /\ faults = MaxFaults

\* listWorkflowRuns and exactSourceRuns: what GitHub lists for the commit and branch.
Listed == {r \in RunIds : runs[r].state \in {"active", "done"} /\ runs[r].exact}

Success(r) == runs[r].state = "done" /\ runs[r].conclusion \in {"signed", "unsigned"}

Signed(r) == runs[r].state = "done" /\ runs[r].conclusion = "signed"

\* The end of the call.  A later call starts from the receipt alone.
End(result) ==
  /\ pc' = result
  /\ seen' = Nothing
  /\ my' = Blank
  /\ fetched' = 0
  /\ origin' = 0
  /\ late' = FALSE

-----------------------------------------------------------------------------
(* Choosing a run *)

ListRuns ==
  /\ pc = "idle"
  /\ pc' = "qualify"
  /\ seen' = [exact |-> Listed,
              active |-> {r \in Listed : runs[r].state = "active"},
              todo |-> {r \in Listed : Success(r)},
              asked |-> {},
              qualified |-> {},
              attempt |-> [r \in RunIds |-> runs[r].attempt]]
  /\ UNCHANGED <<my, fetched, origin, late, intent, runs, lost, faults>>

\* What listJobs can say of the macOS signing: it lists the jobs of the latest attempt,
\* and of one that is under way, or failed elsewhere, that job may be done or not.
SigningSeen(r) == IF Success(r) THEN {Signed(r)} ELSE BOOLEAN

\* isQualifiedCompletedRun fetches each successful run again ...
Qualify(r) ==
  /\ pc = "qualify"
  /\ r \in seen.todo /\ seen.asked = {}
  /\ seen' = [seen EXCEPT !.todo = @ \ {r}, !.asked = IF Success(r) THEN {r} ELSE {}]
  /\ UNCHANGED <<pc, my, fetched, origin, late, intent, runs, lost, faults>>

\* ... and then its jobs, of the attempt that is the latest by then.
QualifyJobs(r) ==
  /\ pc = "qualify"
  /\ r \in seen.asked
  /\ \E signed \in SigningSeen(r) :
       seen' = [seen EXCEPT !.asked = {},
                            !.qualified = IF signed THEN @ \cup {r} ELSE @]
  /\ UNCHANGED <<pc, my, fetched, origin, late, intent, runs, lost, faults>>

Eligible == seen.active \cup seen.qualified

Pinned == IF intent = None THEN None ELSE intent.run

\* Mutants: a pinned run is dropped while it is active; it is never dropped.
PinIsUnqualified == Pinned \in seen.exact \ seen.qualified

PinIsForever == FALSE

\* pinnedRunIsUnqualifiedComplete
PinIsUseless == Pinned \in seen.exact \ Eligible

\* Where this call starts from.
Resumed ==
  IF intent = None THEN [Blank EXCEPT !.baseline = seen.exact]
  ELSE IF PinIsUseless THEN [Blank EXCEPT !.baseline = intent.baseline \cup seen.exact]
  ELSE intent

\* writeIntent: temporary file, fsync, rename, fsync of the directory.
WriteIntent(i) == intent' = i

Chosen == pc = "qualify" /\ seen.todo = {} /\ seen.asked = {}

Ambiguous == Cardinality(Eligible) > 1 /\ Pinned \notin Eligible

RefuseAmbiguous ==
  /\ Chosen /\ Ambiguous
  /\ End("failed")
  /\ UNCHANGED <<intent, runs, lost, faults>>

Continue(next, i) ==
  /\ pc' = next
  /\ my' = i
  /\ seen' = Nothing
  /\ UNCHANGED <<fetched, origin, late, runs, lost, faults>>

ResumePinned ==
  /\ Chosen /\ ~Ambiguous
  /\ Resumed.run # None
  /\ Continue("await", Resumed)
  /\ UNCHANGED intent

ReuseRun ==
  /\ Chosen /\ ~Ambiguous
  /\ Resumed.run = None /\ ~Resumed.dispatched
  /\ \E r \in Eligible :
       LET i == [Resumed EXCEPT !.run = r, !.attempt = seen.attempt[r]]
       IN WriteIntent(i) /\ Continue("await", i)

\* Mutant: the receipt is not written before the POST.
IntendWithoutReceipt ==
  /\ Chosen /\ ~Ambiguous
  /\ Resumed.run = None /\ ~Resumed.dispatched /\ Eligible = {}
  /\ Continue("post", [Resumed EXCEPT !.dispatched = TRUE])
  /\ UNCHANGED intent

IntendDispatch ==
  /\ Chosen /\ ~Ambiguous
  /\ Resumed.run = None /\ ~Resumed.dispatched /\ Eligible = {}
  /\ LET i == [Resumed EXCEPT !.dispatched = TRUE]
     IN WriteIntent(i) /\ Continue("post", i)

\* A dispatch whose run is not known yet is never repeated.
ResumeDispatch ==
  /\ Chosen /\ ~Ambiguous
  /\ Resumed.run = None /\ Resumed.dispatched
  /\ Continue("poll", Resumed)
  /\ UNCHANGED intent

-----------------------------------------------------------------------------
(* Dispatching and finding the run *)

\* GitHub numbers its runs upwards.
NewRun(r, exact, mine) ==
  /\ runs[r].state = "none"
  /\ \A q \in RunIds : q < r => runs[q].state # "none"
  /\ runs' = [runs EXCEPT ![r] = [state |-> "hidden", attempt |-> 1, conclusion |-> "none",
                                  exact |-> exact, mine |-> mine]]

Fault == faults > 0 /\ faults' = faults - 1

\* Mutant: a response without an id reads as id 0.
AnswerUnchecked(run) ==
  /\ my' = [my EXCEPT !.run = IF run = None THEN 0 ELSE run]
  /\ pc' = IF run = None THEN "poll" ELSE "await"

Answer(run) ==
  /\ my' = [my EXCEPT !.run = run]
  /\ pc' = IF run = None THEN "poll" ELSE "await"

\* The POST: accepted, with or without a response that names the run; built from a
\* branch that has moved on; or not accepted.  Every error is swallowed.  (An answer with
\* an invalid id ends the call at its next request: that is a Post and then an Abort.)
Post ==
  /\ pc = "post"
  /\ \/ \E r \in RunIds :
          /\ NewRun(r, TRUE, TRUE) /\ UNCHANGED faults
          /\ Answer(r) \/ Answer(None)
     \/ \E r \in RunIds : Fault /\ NewRun(r, FALSE, TRUE) /\ (Answer(r) \/ Answer(None))
     \/ Fault /\ UNCHANGED runs /\ Answer(None)
  /\ UNCHANGED <<seen, fetched, origin, late, intent, lost>>

NewRuns == Listed \ my.baseline

\* One turn of the loop that looks for the dispatched run.
Poll ==
  /\ pc = "poll" /\ ~late
  /\ UNCHANGED <<runs, lost, faults>>
  /\ \/ /\ Cardinality(NewRuns) > 1
        /\ End("failed")
        /\ UNCHANGED intent
     \/ /\ Cardinality(NewRuns) = 1
        /\ LET r == CHOOSE r \in NewRuns : TRUE
               i == [my EXCEPT !.run = r, !.attempt = runs[r].attempt]
           IN my' = i /\ WriteIntent(i)
        /\ pc' = "await"
        /\ UNCHANGED <<seen, fetched, origin, late>>
     \/ /\ NewRuns = {}
        /\ late' \in BOOLEAN
        /\ UNCHANGED <<pc, seen, my, fetched, origin, intent>>

-----------------------------------------------------------------------------
(* Waiting for the run and taking its artifacts *)

\* One turn of completedRun's loop: a run of another commit or a failed one is refused.
Await ==
  /\ pc = "await" /\ ~late
  /\ LET run == runs[my.run] IN
       \/ /\ run.exact /\ run.state # "done"
          /\ late' \in BOOLEAN
          /\ UNCHANGED <<pc, seen, my, fetched, origin>>
       \/ /\ run.exact /\ Success(my.run)
          /\ pc' = "jobs"
          /\ fetched' = run.attempt
          /\ UNCHANGED <<seen, my, origin, late>>
       \/ /\ ~run.exact \/ (run.state = "done" /\ run.conclusion = "failed")
          /\ End("failed")
  /\ UNCHANGED <<intent, runs, lost, faults>>

\* "could not be reconciled", "deadline expired"
Expire ==
  /\ pc \in {"poll", "await"} /\ late
  /\ End("failed")
  /\ UNCHANGED <<intent, runs, lost, faults>>

\* Mutant: the attempt the receipt names is not compared.
ReadJobsAnyAttempt ==
  /\ pc = "jobs"
  /\ UNCHANGED <<runs, lost, faults>>
  /\ \E signed \in SigningSeen(my.run) :
       IF signed
       THEN /\ pc' = "artifacts"
            /\ my' = [my EXCEPT !.attempt = fetched]
            /\ WriteIntent(my')
            /\ UNCHANGED <<seen, fetched, origin, late>>
       ELSE End("failed") /\ UNCHANGED intent

\* listJobs: the jobs of the run's latest attempt must include the macOS signing; then
\* the attempt fetched is compared with the one the receipt names, and recorded in it.
ReadJobs ==
  /\ pc = "jobs"
  /\ UNCHANGED <<runs, lost, faults>>
  /\ \E signed \in SigningSeen(my.run) :
       IF signed /\ my.attempt \in {0, fetched}
       THEN /\ pc' = "artifacts"
            /\ my' = [my EXCEPT !.attempt = fetched]
            /\ WriteIntent(my')
            /\ UNCHANGED <<seen, fetched, origin, late>>
       ELSE End("failed") /\ UNCHANGED intent

\* The complete listing of the eight artifacts, which fixes their ids and digests; while
\* the run is being repeated it may still be the previous attempt's.
ListArtifacts ==
  /\ pc = "artifacts"
  /\ \E attempt \in {runs[my.run].attempt, runs[my.run].attempt - 1} \ {0} :
       /\ runs[my.run].state = "done" => attempt = runs[my.run].attempt
       /\ origin' = attempt
  /\ pc' = "refresh"
  /\ UNCHANGED <<seen, my, fetched, late, intent, runs, lost, faults>>

\* Mutant: the run is not looked at again after the download.
RefreshSkipped ==
  /\ pc = "refresh"
  /\ WriteIntent(my)
  /\ End("done")
  /\ UNCHANGED <<runs, lost, faults>>

\* After the download the run must still be that attempt, completed and successful.
Refresh ==
  /\ pc = "refresh"
  /\ UNCHANGED <<runs, lost, faults>>
  /\ IF Success(my.run) /\ runs[my.run].attempt = fetched
     THEN WriteIntent(my) /\ End("done")
     ELSE UNCHANGED intent /\ End("failed")

\* The next publish run of the same commit.
Again ==
  /\ pc \in {"done", "failed"}
  /\ pc' = "idle"
  /\ UNCHANGED <<job, intent, runs, lost, faults>>

-----------------------------------------------------------------------------
(* GitHub, other people, and failures *)

Appear(r) ==
  /\ runs[r].state = "hidden"
  /\ runs' = [runs EXCEPT ![r].state = "active"]
  /\ UNCHANGED <<pc, job, intent, lost, faults>>

\* A run that does not end signed, because it failed, was cancelled or had no
\* certificate, uses up a fault.
Complete(r) ==
  /\ runs[r].state = "active"
  /\ \/ runs' = [runs EXCEPT ![r].state = "done", ![r].conclusion = "signed"]
          /\ UNCHANGED faults
     \/ /\ Fault
        /\ \E c \in {"unsigned", "failed"} :
             runs' = [runs EXCEPT ![r].state = "done", ![r].conclusion = c]
  /\ UNCHANGED <<pc, job, intent, lost>>

Rerun(r) ==
  /\ Fault
  /\ runs[r].state = "done" /\ runs[r].attempt < MaxAttempt
  /\ runs' = [runs EXCEPT ![r].state = "active", ![r].conclusion = "none",
                          ![r].attempt = @ + 1]
  /\ UNCHANGED <<pc, job, intent, lost>>

DispatchByHand(r) ==
  /\ Fault
  /\ NewRun(r, TRUE, FALSE)
  /\ UNCHANGED <<pc, job, intent, lost>>

\* A fresh runner does not have the receipt.
LoseReceipt ==
  /\ pc = "idle" /\ intent # None
  /\ Fault
  /\ intent' = None
  /\ lost' = TRUE
  /\ UNCHANGED <<pc, job, runs>>

\* A request fails or the job dies.
Abort ==
  /\ pc \notin {"idle", "done", "failed"}
  /\ Fault
  /\ End("failed")
  /\ UNCHANGED <<intent, runs, lost>>

-----------------------------------------------------------------------------
Resolve ==
  \/ ListRuns \/ (\E r \in RunIds : Qualify(r) \/ QualifyJobs(r))
  \/ RefuseAmbiguous \/ ResumePinned \/ ReuseRun \/ IntendDispatch \/ ResumeDispatch
  \/ Post \/ Poll \/ Await \/ Expire \/ ReadJobs \/ ListArtifacts \/ Refresh \/ Again

GitHub == \E r \in RunIds : Appear(r) \/ Complete(r)

Next ==
  \/ Resolve \/ GitHub \/ LoseReceipt \/ Abort
  \/ \E r \in RunIds : Rerun(r) \/ DispatchByHand(r)

Spec == Init /\ [][Next]_vars

\* The publish job is run again until it succeeds, and GitHub goes on with its runs.
FairSpec ==
  /\ Spec
  /\ WF_vars(Resolve)
  /\ \A r \in RunIds : WF_vars(Appear(r)) /\ WF_vars(Complete(r))

-----------------------------------------------------------------------------
(* Properties *)

\* A source is dispatched once: whatever crashes, lost responses and resumptions do,
\* two runs of this job are never under way together, as long as the receipt is kept
\* and nobody dispatches or repeats a run by hand.
OneLiveDispatch ==
  LET created == {r \in RunIds : runs[r].state # "none"}
  IN ~lost /\ (\A r \in created : runs[r].mine /\ runs[r].attempt = 1)
       => Cardinality({r \in created : runs[r].state # "done"}) <= 1

\* What the call returns is one attempt: the artifacts listed are those of the attempt
\* that the receipt names, of a run of this very commit that is signed at the return.
ReturnsOneSignedAttempt ==
  [][pc' = "done" /\ pc # "done" =>
       /\ Signed(my.run) /\ runs[my.run].exact
       /\ origin = runs[my.run].attempt /\ my.attempt = origin]_vars

\* The receipt lets go of a run only when that run is complete and useless, or somebody
\* has repeated it since.
PinsAreKept ==
  [][intent # None /\ intent' # None /\ intent.run # None /\ intent'.run # intent.run =>
       LET run == runs[intent.run]
       IN run.attempt > intent.attempt \/ (run.state = "done" /\ run.conclusion # "signed")]_vars

\* The receipt never moves to another attempt of the run it names.
AttemptsArePinned ==
  [][intent # None /\ intent' # None /\ intent.run # None /\ intent'.run = intent.run =>
       intent'.attempt = intent.attempt]_vars

\* What a resumption cannot get out of: no new run or several for a dispatch that was
\* intended, a repeated run that the receipt names, or several eligible runs none of
\* which it names.
Unreconciled ==
  /\ intent # None
  /\ \/ intent.run = None /\ intent.dispatched /\ Cardinality(Listed \ intent.baseline) # 1
     \/ intent.run # None /\ runs[intent.run].attempt > intent.attempt

Duplicated ==
  LET eligible == {r \in Listed : runs[r].state = "active" \/ Signed(r)}
  IN Cardinality(eligible) > 1 /\ Pinned \notin eligible

\* Every publish eventually gets its artifacts, if it is repeated, unless an operator is
\* needed for one of the reasons above.
ResolvesOrNeedsOperator ==
  []<>(pc = "done") \/ <>[](Unreconciled \/ Duplicated)

\* Nobody else dispatches or repeats a run, and no run is built from a later commit.
OnlyThisJobsRuns ==
  \A r \in RunIds : runs[r].state # "none" =>
    runs[r].mine /\ runs[r].exact /\ runs[r].attempt = 1

\* "resume with the same intent receipt" (native-producer.mts:238): whoever does so, of a
\* source whose runs are all this job's own, gets the artifacts in the end.
ResumeResolves == []OnlyThisJobsRuns => <>(pc = "done")
=============================================================================
