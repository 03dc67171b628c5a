--------------------------- MODULE FleetHydration ---------------------------
(***************************************************************************)
(* ensureCurrentFleet and installFleet: a checkout gets the files of the   *)
(* fleet pack that the green channel names.  Every `prepare`, session      *)
(* start and sync of the checkout runs the command, so several overlap.    *)
(* They meet at a lock directory, at the payload's files, at three records *)
(* of what was applied (ref, file list, manifest) and at a receipt of the  *)
(* last check.  A command given --ref installs without the lock.           *)
(*                                                                         *)
(* The module is about the files that git does not track; tracked ones are *)
(* left alone (readFleetTrackedPaths).  Packs are numbered by their time   *)
(* of creation, and a file's content is the first pack that had it.        *)
(***************************************************************************)
EXTENDS Naturals, Sequences

CONSTANTS
  Runs,          \* commands that may overlap in one checkout
  Files, Packs,
  Content,       \* Content[p]: the pack's files, each with its content
  ByCodeUnits,   \* Files in the order of toSorted()
  ByCollation,   \* Files in the order of localeCompare
  LockAttempts,  \* turns of the loop that waits for the lock (300)
  None, Torn, Dead,
  MaxFaults      \* bound: the --ref commands and environment steps of a behaviour

ASSUME PacksAssumption ==
  /\ Packs \subseteq Nat \ {0}
  /\ \A p \in Packs : DOMAIN Content[p] \subseteq Files /\ DOMAIN Content[p] # {}
  /\ \A p \in Packs : \A f \in DOMAIN Content[p] : Content[p][f] \in Packs
ASSUME OrdersAssumption ==
  \A order \in {ByCodeUnits, ByCollation} :
    order \in Seq(Files) /\ \A f \in Files : \E i \in DOMAIN order : order[i] = f
Lock == [owner : Runs \cup {None, Dead}, old : BOOLEAN]
Receipt == [pack : Packs, fresh : BOOLEAN]

ASSUME NamesAssumption ==
  /\ None \notin Packs \cup Runs \cup {Dead} \cup Lock \cup Receipt /\ Dead \notin Runs
  /\ Torn \notin Packs \cup {None}
ASSUME BoundsAssumption == LockAttempts \in Nat \ {0} /\ MaxFaults \in Nat

VARIABLES
  pc,        \* per run: its next step
  mode,      \* per run: "refresh" or "cached" (--cached) until it has the lock, then
             \* "locked"; or "pinned" (--ref); "none" when no command runs
  result,    \* per run: the exit of its last command, "none" for a failure
  tries,     \* per run: turns it has waited for the lock
  news,      \* per run: has a receipt been written since it read one?
  judged,    \* per run: the lock that it found stale
  latest,    \* per run: the receipt's pack, read under the lock
  target,    \* per run: the pack it installs
  todo,      \* per run: the files it has still to place
  lock,      \* the lock directory: its owner file, and whether that is 10 minutes old
  tree,      \* the payload's files: whose content each has
  ref, files, manifest,   \* the three applied records, each by the pack it describes
  receipt,   \* the pack of the last check, and whether that is within the TTL
  channel,   \* the pack that the green channel names
  faults,    \* environment steps still allowed
  raced,     \* has a takeover or a release ever met a lock other than the one looked at?
  stalled,   \* has a live holder's lock ever grown old?
  mixed,     \* have two installations, or one and an edit, ever overlapped?
  stray      \* files placed by installations that did not finish

run == <<mode, result, tries, news, judged, latest, target, todo>>
applied == <<ref, files, manifest>>
history == <<raced, stalled, mixed, stray>>
world == <<channel, faults>>
vars == <<pc, run, lock, tree, applied, receipt, world, history>>

MaybePack == Packs \cup {None}
Installing == {"place", "project", "files", "manifest"}
Held == {"resolve", "fetch", "receipt", "unlock"} \cup Installing
Label == {"idle", "acquire", "own", "retire", "remake", "wait", "unlink", "rmdir"} \cup Held

TypeOK ==
  /\ pc \in [Runs -> Label]
  /\ mode \in [Runs -> {"none", "refresh", "cached", "locked", "pinned"}]
  /\ result \in [Runs -> {"none", "ok", "unavailable"}]
  /\ tries \in [Runs -> 0 .. LockAttempts - 1]
  /\ news \in [Runs -> BOOLEAN]
  /\ judged \in [Runs -> Lock \cup {None}]
  /\ latest \in [Runs -> MaybePack]
  /\ target \in [Runs -> MaybePack]
  /\ todo \in [Runs -> SUBSET Files]
  /\ lock \in Lock \cup {None}
  /\ tree \in [Files -> Packs \cup {None, Torn}]
  /\ ref \in MaybePack /\ files \in MaybePack /\ manifest \in MaybePack
  /\ receipt \in Receipt \cup {None}
  /\ channel \in Packs
  /\ faults \in 0 .. MaxFaults
  /\ raced \in BOOLEAN /\ stalled \in BOOLEAN /\ mixed \in BOOLEAN
  /\ stray \subseteq Files

Owned(p) == IF p = None THEN {} ELSE DOMAIN Content[p]

Installed(p) == \A f \in Owned(p) : tree[f] = Content[p][f]

Sorted(p, order) == SelectSeq(order, LAMBDA f : f \in Owned(p))

\* Mutant: the record counts, not the files.
CompleteByRecord(p) == ref = p /\ files = p /\ manifest = p

\* appliedPayloadIsComplete: the records agree, entry by entry, and so do the files.
Complete(p) ==
  /\ ref = p /\ files # None /\ manifest # None
  /\ Sorted(files, ByCodeUnits) = Sorted(manifest, ByCollation)
  /\ Installed(manifest)

Init ==
  /\ pc = [r \in Runs |-> "idle"] /\ mode = [r \in Runs |-> "none"]
  /\ result = [r \in Runs |-> "none"] /\ tries = [r \in Runs |-> 0]
  /\ news = [r \in Runs |-> FALSE] /\ judged = [r \in Runs |-> None]
  /\ latest = [r \in Runs |-> None] /\ target = [r \in Runs |-> None]
  /\ todo = [r \in Runs |-> {}]
  /\ lock = None
  /\ tree = [f \in Files |-> None]
  /\ ref = None /\ files = None /\ manifest = None /\ receipt = None
  /\ channel \in Packs
  /\ faults = MaxFaults
  /\ raced = FALSE /\ stalled = FALSE /\ mixed = FALSE /\ stray = {}

Goto(r, from, to) ==
  /\ pc[r] = from
  /\ pc' = [pc EXCEPT ![r] = to]

Fault == faults > 0 /\ faults' = faults - 1

\* What a run keeps in memory is gone when it ends; its exit is remembered.
Forget(r, how) ==
  /\ result' = [result EXCEPT ![r] = how]
  /\ mode' = [mode EXCEPT ![r] = "none"]
  /\ tries' = [tries EXCEPT ![r] = 0]
  /\ judged' = [judged EXCEPT ![r] = None]
  /\ latest' = [latest EXCEPT ![r] = None]
  /\ target' = [target EXCEPT ![r] = None]
  /\ todo' = [todo EXCEPT ![r] = {}]

NoNews(r) == news' = [news EXCEPT ![r] = FALSE]

\* The run ends, after it has given back the lock if it took one.
Exit(r, from, how) ==
  /\ Goto(r, from, IF mode[r] = "pinned" THEN "idle" ELSE "unlock")
  /\ Forget(r, how)
  /\ NoNews(r)

-----------------------------------------------------------------------------
(* ensureCurrentFleet, up to the lock *)

Current ==
  /\ receipt # None
  /\ receipt.fresh
  /\ Complete(receipt.pack)

Start(r, m) ==
  /\ mode' = [mode EXCEPT ![r] = m]
  /\ result' = [result EXCEPT ![r] = "none"]
  /\ UNCHANGED <<tries, news, judged, latest, todo, lock, tree, applied, receipt, channel,
                 history>>

\* main sends --ref straight to installFleet.
Pin(r) ==
  /\ Goto(r, "idle", "fetch")
  /\ Start(r, "pinned")
  /\ Fault
  /\ \E p \in Packs : target' = [target EXCEPT ![r] = p]

\* A cached run may find that nothing is to be done.
Check(r) ==
  \/ /\ Current
     /\ pc[r] = "idle" /\ UNCHANGED pc
     /\ Forget(r, "ok") /\ NoNews(r)
     /\ UNCHANGED <<lock, tree, applied, receipt, world, history>>
  \/ /\ Goto(r, "idle", "acquire")
     /\ \E m \in {"refresh", "cached"} : Start(r, m) /\ (m = "cached" => ~Current)
     /\ UNCHANGED <<target, faults>>

\* Mutant: any lock may be taken over.
AcquireImpatient(r) ==
  /\ IF lock # None /\ lock.owner # None THEN judged' = [judged EXCEPT ![r] = lock]
     ELSE UNCHANGED judged
  /\ Goto(r, "acquire", IF lock = None THEN "own"
                        ELSE IF lock.owner # None THEN "retire" ELSE "wait")
  /\ lock' = IF lock = None THEN [owner |-> None, old |-> FALSE] ELSE lock
  /\ UNCHANGED <<mode, result, tries, news, latest, target, todo, tree, applied, receipt,
                 world, history>>

\* mkdir of the lock, or a look at the owner file of the one that is there.
Acquire(r) ==
  /\ \/ /\ lock = None
        /\ Goto(r, "acquire", "own")
        /\ lock' = [owner |-> None, old |-> FALSE]
        /\ UNCHANGED judged
     \/ /\ lock # None
        /\ Goto(r, "acquire", IF lock.owner # None /\ lock.old THEN "retire" ELSE "wait")
        /\ judged' = [judged EXCEPT ![r] = IF lock.old THEN lock ELSE None]
        /\ UNCHANGED lock
  /\ UNCHANGED <<mode, result, tries, news, latest, target, todo, tree, applied, receipt,
                 world, history>>

\* renameSync moves whatever lock has the name NOW.
Retire(r) ==
  /\ Goto(r, "retire", IF lock = None THEN "wait" ELSE "remake")
  /\ lock' = None
  /\ raced' = (raced \/ lock \notin {None, judged[r]})
  /\ judged' = [judged EXCEPT ![r] = None]
  /\ UNCHANGED <<mode, result, tries, news, latest, target, todo, tree, applied, receipt,
                 world, stalled, mixed, stray>>

Remake(r) ==
  /\ Goto(r, "remake", IF lock = None THEN "own" ELSE "wait")
  /\ lock' = IF lock = None THEN [owner |-> None, old |-> FALSE] ELSE lock
  /\ UNCHANGED <<run, tree, applied, receipt, world, history>>

\* writeFileSync(<lock>/owner), into whatever lock has the name now; then the receipt is
\* read again.
WriteOwner(r) ==
  /\ \/ /\ lock = None
        /\ Goto(r, "own", "wait")
        /\ UNCHANGED <<lock, run>>
     \/ /\ lock # None
        /\ Goto(r, "own", "resolve")
        /\ lock' = [owner |-> r, old |-> FALSE]
        /\ mode' = [mode EXCEPT ![r] = "locked"]
        /\ latest' = [latest EXCEPT ![r] = IF receipt = None THEN None ELSE receipt.pack]
        /\ tries' = [tries EXCEPT ![r] = 0]
        /\ judged' = [judged EXCEPT ![r] = None]
        /\ NoNews(r)
        /\ UNCHANGED <<result, target, todo>>
  /\ UNCHANGED <<tree, applied, receipt, world, history>>

\* Mutant: one turn too many.
WaitOnceMore(r) ==
  /\ LET finished == Current /\ (mode[r] = "refresh" => news[r])
     IN \/ /\ finished \/ tries[r] = LockAttempts
           /\ Goto(r, "wait", "idle")
           /\ Forget(r, IF finished THEN "ok" ELSE "none")
           /\ NoNews(r)
        \/ /\ ~finished /\ tries[r] < LockAttempts
           /\ Goto(r, "wait", "acquire")
           /\ tries' = [tries EXCEPT ![r] = @ + 1]
           /\ UNCHANGED <<mode, result, news, judged, latest, target, todo>>
  /\ UNCHANGED <<lock, tree, applied, receipt, world, history>>

\* Somebody else has the lock: perhaps to do what this run is here for.
Wait(r) ==
  /\ LET finished == Current /\ (mode[r] = "refresh" => news[r])
     IN \/ /\ finished \/ tries[r] + 1 = LockAttempts
           /\ Goto(r, "wait", "idle")
           /\ Forget(r, IF finished THEN "ok" ELSE "none")
           /\ NoNews(r)
        \/ /\ ~finished /\ tries[r] + 1 < LockAttempts
           /\ Goto(r, "wait", "acquire")
           /\ tries' = [tries EXCEPT ![r] = @ + 1]
           /\ UNCHANGED <<mode, result, news, judged, latest, target, todo>>
  /\ UNCHANGED <<lock, tree, applied, receipt, world, history>>

-----------------------------------------------------------------------------
(* Under the lock *)

\* The runs that install, or have found that there is nothing to install.
Busy == {r \in Runs : pc[r] \in Installing \cup {"receipt"}}

Overlap(r) == mixed' = (mixed \/ Busy \ {r} # {})

\* resolveGreenPack
GreenPack == channel

\* Mutant: the channel may go backwards.
ResolveAnything(r) ==
  /\ Goto(r, "resolve", IF Complete(GreenPack) THEN "receipt" ELSE "fetch")
  /\ target' = [target EXCEPT ![r] = GreenPack]
  /\ latest' = [latest EXCEPT ![r] = None]
  /\ UNCHANGED <<mode, result, tries, news, judged, todo, lock, tree, applied, receipt,
                 world, history>>

\* resolveGreenPack has answered, or has failed and an installed pack must do.
Resolve(r) ==
  /\ \/ /\ latest[r] # None /\ GreenPack < latest[r]
        /\ Exit(r, "resolve", "none")
        /\ UNCHANGED <<faults, mixed>>
     \/ /\ latest[r] # None => GreenPack >= latest[r]
        /\ Goto(r, "resolve", IF Complete(GreenPack) THEN "receipt" ELSE "fetch")
        /\ target' = [target EXCEPT ![r] = GreenPack]
        /\ latest' = [latest EXCEPT ![r] = None]
        /\ IF Complete(GreenPack) THEN Overlap(r) ELSE UNCHANGED mixed
        /\ UNCHANGED <<mode, result, tries, news, judged, todo, faults>>
     \/ /\ Fault
        /\ Exit(r, "resolve", IF ref # None /\ Complete(ref) THEN "ok" ELSE "unavailable")
        /\ UNCHANGED mixed
  /\ UNCHANGED <<lock, tree, applied, receipt, channel, raced, stalled, stray>>

\* Download and verification: a failure of either leaves the checkout alone.
Fetch(r) ==
  /\ \/ /\ Goto(r, "fetch", "place")
        /\ todo' = [todo EXCEPT ![r] = Owned(target[r])]
        /\ Overlap(r)
        /\ UNCHANGED <<mode, result, tries, news, judged, latest, target, faults>>
     \/ /\ Fault
        /\ Exit(r, "fetch", "none")
        /\ UNCHANGED mixed
  /\ UNCHANGED <<lock, tree, applied, receipt, channel, raced, stalled, stray>>

Turn(r, f) ==
  /\ f \in todo[r]
  /\ \E i \in DOMAIN ByCodeUnits :
       ByCodeUnits[i] = f /\ \A j \in 1 .. i - 1 : ByCodeUnits[j] \notin todo[r]

\* installFiles, one file at a time.
Place(r) ==
  /\ pc[r] = "place"
  /\ \E f \in Files :
       /\ Turn(r, f)
       /\ tree' = [tree EXCEPT ![f] = Content[target[r]][f]]
       /\ todo' = [todo EXCEPT ![r] = @ \ {f}]
  /\ UNCHANGED <<pc, mode, result, tries, news, judged, latest, target, lock, applied,
                 receipt, world, history>>

\* Mutant: nothing is pruned.
PruneNothing(r) ==
  /\ todo[r] = {}
  /\ Goto(r, "place", "project")
  /\ UNCHANGED <<run, tree, lock, applied, receipt, world, history>>

\* pruneStaleFleetFiles: what the last applied pack owned and this one does not have.
Prune(r) ==
  /\ todo[r] = {}
  /\ Goto(r, "place", "project")
  /\ tree' = [f \in Files |->
                IF f \in Owned(files) \ Owned(target[r])
                THEN None ELSE tree[f]]
  /\ UNCHANGED <<run, lock, applied, receipt, world, history>>

Unfinished(r) == stray \cup Owned(target[r])

\* Moves, segments, settings, workspace and adapters, each of which may refuse; then
\* the first of the records.
Project(r) ==
  /\ \/ /\ Goto(r, "project", "files")
        /\ ref' = target[r]
        /\ UNCHANGED <<run, faults, stray>>
     \/ /\ Fault
        /\ Exit(r, "project", "none")
        /\ stray' = Unfinished(r)
        /\ UNCHANGED ref
  /\ UNCHANGED <<lock, tree, files, manifest, receipt, channel, raced, stalled, mixed>>

\* Each of the three records is rewritten in place, in one step here: a death inside a
\* record is not told apart from one before or behind it.
WriteFiles(r) ==
  /\ Goto(r, "files", "manifest")
  /\ files' = target[r]
  /\ UNCHANGED <<run, lock, tree, ref, manifest, receipt, world, history>>

WriteManifest(r) ==
  /\ manifest' = target[r]
  /\ \/ mode[r] = "pinned" /\ Exit(r, "manifest", "ok")
     \/ mode[r] # "pinned" /\ Goto(r, "manifest", "receipt") /\ UNCHANGED run
  /\ UNCHANGED <<lock, tree, ref, files, receipt, world, history>>

WriteReceipt(r) ==
  /\ Goto(r, "receipt", "unlock")
  /\ Forget(r, "ok")
  /\ receipt' = [pack |-> target[r], fresh |-> TRUE]
  /\ news' = [q \in Runs |-> pc[q] \in {"acquire", "own", "retire", "remake", "wait"}]
  /\ UNCHANGED <<lock, tree, applied, world, history>>

\* Mutant: it is removed without a look at its owner.
UnlockAny(r) ==
  /\ Goto(r, "unlock", "idle")
  /\ lock' = None
  /\ UNCHANGED <<run, tree, applied, receipt, world, history>>

\* Mutant: the lock is never given back.
UnlockForgets(r) ==
  /\ Goto(r, "unlock", "idle")
  /\ UNCHANGED <<run, lock, tree, applied, receipt, world, history>>

\* releaseEnsureCurrentLock reads whose lock it is ...
Unlock(r) ==
  /\ Goto(r, "unlock", IF lock # None /\ lock.owner = r THEN "unlink" ELSE "idle")
  /\ UNCHANGED <<run, lock, tree, applied, receipt, world, history>>

\* ... then removes what has the name: the owner file ...
UnlinkOwner(r) ==
  /\ Goto(r, "unlink", IF lock = None THEN "idle" ELSE "rmdir")
  /\ lock' = IF lock = None THEN None ELSE [owner |-> None, old |-> FALSE]
  /\ raced' = (raced \/ (lock # None /\ lock.owner # r))
  /\ UNCHANGED <<run, tree, applied, receipt, world, stalled, mixed, stray>>

\* ... and the directory.
RemoveLock(r) ==
  /\ Goto(r, "rmdir", "idle")
  /\ lock' = IF lock # None /\ lock.owner = None THEN None ELSE lock
  /\ UNCHANGED <<run, tree, applied, receipt, world, history>>

-----------------------------------------------------------------------------
(* The environment *)

\* The process dies.  A copy it was making stays half-made, a lock it had made stays.
Crash(r) ==
  /\ pc[r] # "idle"
  /\ Fault
  /\ pc' = [pc EXCEPT ![r] = "idle"]
  /\ Forget(r, "none") /\ NoNews(r)
  /\ \/ UNCHANGED tree
     \/ /\ pc[r] = "place"
        /\ \E f \in Files : Turn(r, f) /\ tree' = [tree EXCEPT ![f] = Torn]
  /\ lock' = IF lock # None /\ lock.owner = r THEN [lock EXCEPT !.owner = Dead] ELSE lock
  /\ stray' = IF pc[r] \in Installing \ {"manifest"} THEN Unfinished(r) ELSE stray
  /\ UNCHANGED <<applied, receipt, channel, raced, stalled, mixed>>

\* Ten minutes without a heartbeat: the holder is dead, or stopped (a laptop asleep).
LockAges ==
  /\ lock # None /\ lock.owner # None /\ ~lock.old
  /\ lock' = [lock EXCEPT !.old = TRUE]
  /\ \/ lock.owner = Dead /\ UNCHANGED <<faults, stalled>>
     \/ lock.owner # Dead /\ Fault /\ stalled' = TRUE
  /\ UNCHANGED <<pc, run, tree, applied, receipt, channel, raced, mixed, stray>>

\* refreshEnsureCurrentLock, every 30 seconds.
Heartbeat(r) ==
  /\ pc[r] \in Held
  /\ lock # None /\ lock.owner = r /\ lock.old
  /\ lock' = [lock EXCEPT !.old = FALSE]
  /\ UNCHANGED <<pc, run, tree, applied, receipt, world, history>>

\* Four hours after the last check.
ReceiptAges ==
  /\ receipt # None /\ receipt.fresh
  /\ receipt' = [receipt EXCEPT !.fresh = FALSE]
  /\ UNCHANGED <<pc, run, lock, tree, applied, world, history>>

\* A pack is published, or the channel is moved back.
Publish ==
  /\ \E p \in Packs :
       /\ channel' = p
       /\ (p > channel /\ UNCHANGED faults) \/ (p < channel /\ Fault)
  /\ UNCHANGED <<pc, run, lock, tree, applied, receipt, history>>

\* Somebody changes a file of the payload.
Edit ==
  /\ Fault
  /\ \E f \in Files : tree[f] # None /\ tree' = [tree EXCEPT ![f] = Torn]
  /\ mixed' = (mixed \/ Busy # {})
  /\ UNCHANGED <<pc, run, lock, applied, receipt, channel, raced, stalled, stray>>

-----------------------------------------------------------------------------
Step(r) ==
  \/ Pin(r) \/ Check(r) \/ Acquire(r) \/ Retire(r) \/ Remake(r)
  \/ WriteOwner(r) \/ Wait(r) \/ Resolve(r) \/ Fetch(r) \/ Place(r) \/ Prune(r)
  \/ Project(r) \/ WriteFiles(r) \/ WriteManifest(r) \/ WriteReceipt(r)
  \/ Unlock(r) \/ UnlinkOwner(r) \/ RemoveLock(r)

Next ==
  \/ \E r \in Runs : Step(r) \/ Crash(r) \/ Heartbeat(r)
  \/ LockAges \/ ReceiptAges \/ Publish \/ Edit

Spec == Init /\ [][Next]_vars

\* Commands go on and are given again, and time passes for a dead holder's lock.
FairSpec ==
  /\ Spec
  /\ \A r \in Runs : WF_vars(Step(r))
  /\ WF_vars(LockAges /\ lock.owner = Dead)

-----------------------------------------------------------------------------
(* Properties *)

\* Commands that take the lock never install at the same time, unless a live holder
\* stopped for ten minutes or two takeovers of one dead lock crossed.
OneInstaller ==
  ~raced /\ ~stalled =>
    \A q, r \in Runs :
      pc[q] \in Installing /\ pc[r] \in Installing
        /\ mode[q] # "pinned" /\ mode[r] # "pinned" => q = r

\* A holder that lives loses its lock only when that is old, or to a takeover or release
\* that looked at another lock: not to the end of the run that it was taken from.
LocksKept ==
  [][\A r \in Runs :
       lock # None /\ lock.owner = r /\ pc[r] \in Held /\ pc'[r] \in Held =>
         (lock' # None /\ lock'.owner = r) \/ lock.old \/ raced']_vars

\* A receipt is written only for the pack that is recorded, and only when its files are
\* there, however many runs compete: unless installations overlapped (--ref takes no lock),
\* or a run died between the records, which leaves an older manifest to check against.
ReceiptVouches ==
  [][(\E r \in Runs : pc[r] = "receipt" /\ pc'[r] = "unlock") /\ ~mixed' =>
       /\ ref = receipt'.pack
       /\ Installed(receipt'.pack) \/ manifest # receipt'.pack]_vars

\* "a fetch is a true SYNC (place + prune)": between installations every file of the
\* payload is one of the recorded pack's, or was left by an installation that failed.
NoOrphans ==
  Busy = {} /\ ~mixed => \A f \in Files : tree[f] # None => f \in Owned(files) \cup stray

\* "refusing green-channel rollback": once a pack has been confirmed, no older one is,
\* however long a run waited between its look at the receipt and its own.
NoRollback ==
  [][~raced' /\ ~stalled' /\ receipt # None /\ receipt' # None => receipt'.pack >= receipt.pack]_vars

\* A checkout whose command is given again gets its payload, unless a run died between
\* making the lock and signing it, or the channel went back for good.
Hydrates ==
  \/ []<>(\E r \in Runs : pc[r] = "idle" /\ result[r] = "ok")
  \/ <>[](lock # None /\ lock.owner = None)
  \/ <>[](receipt # None /\ channel < receipt.pack)

\* "no verified fleet pack is available locally" (ensureCurrentFleet) is said only when
\* none is installed.
UnavailableIsTrue ==
  [][\A r \in Runs : result[r] = "none" /\ result'[r] = "unavailable" =>
       ~(\E p \in Packs : ref = p /\ files = p /\ manifest = p /\ Installed(p))]_vars
=============================================================================
