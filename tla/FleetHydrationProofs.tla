------------------------ MODULE FleetHydrationProofs ------------------------
(***************************************************************************)
(* The safety of FleetHydration for any runs, files, packs, orders and     *)
(* bounds.  The invariant has four parts: the types, what the lock and the *)
(* runs that hold it agree on, what a run has confirmed, and where every   *)
(* file of the payload comes from.                                         *)
(***************************************************************************)
EXTENDS FleetHydration, TLAPS

Pinnable == {"fetch", "place", "project", "files", "manifest"}

\* What a run that has a pack to install carries.
Carrying == Installing \cup {"fetch", "receipt"}

TypeInv ==
  /\ TypeOK
  /\ \A r \in Runs : pc[r] \in Carrying => target[r] \in Packs
  /\ \A r \in Runs : pc[r] = "place" => todo[r] \subseteq Owned(target[r])

\* Runs that have made a lock of their own, and have not lost the way to give it back.
Makes(r) == pc[r] \in {"own", "rmdir"}
Holds(r) == pc[r] \in Held \cup {"unlink"} /\ mode[r] # "pinned"

\* Only a run with --ref is without the lock while it installs.
PinnedInv == \A r \in Runs : mode[r] = "pinned" => pc[r] \in Pinnable

\* What is judged stale was signed, and an unsigned lock is never old.
JudgedInv == \A r \in Runs : judged[r] # None => judged[r].old /\ judged[r].owner # None
UnsignedInv == lock # None /\ lock.owner = None => ~lock.old

\* The lock that has no owner file belongs to the one run that makes or removes it.
MakerInv ==
  ~raced =>
    \A r \in Runs : Makes(r) =>
      /\ lock # None /\ lock.owner = None
      /\ \A q \in Runs : Makes(q) => q = r

\* A run that holds the lock is its owner, and only a dead owner's lock grows old.
HolderInv ==
  ~raced /\ ~stalled =>
    /\ \A r \in Runs : Holds(r) => lock # None /\ lock.owner = r
    /\ lock # None /\ lock.old => lock.owner = Dead

LockInv == PinnedInv /\ JudgedInv /\ UnsignedInv /\ MakerInv /\ HolderInv

\* What a run has seen under the lock is still so.
ConfirmedInv ==
  ~raced /\ ~stalled =>
    \A r \in Runs : Holds(r) =>
      /\ pc[r] = "resolve" => latest[r] = IF receipt = None THEN None ELSE receipt.pack
      /\ pc[r] \in Carrying => (receipt # None => target[r] >= receipt.pack)

\* Every file of the payload is accounted for.
OriginInv ==
  ~mixed =>
    /\ \A q, r \in Busy : q = r
    /\ \A f \in Files : tree[f] # None =>
         /\ (\A r \in Runs : pc[r] \notin {"place", "project", "files"})
              => f \in stray \cup Owned(files)
         /\ \A r \in Runs : pc[r] = "place" => f \in stray \cup Owned(files) \cup Owned(target[r])
         /\ \A r \in Runs : pc[r] \in {"project", "files"} => f \in stray \cup Owned(target[r])

\* An installation that has been through its files has them all, until its receipt.
VouchInv ==
  ~mixed =>
    \A r \in Runs :
      /\ pc[r] = "place" =>
           \A f \in Owned(target[r]) \ todo[r] : tree[f] = Content[target[r]][f]
      /\ pc[r] \in {"project", "files", "manifest"} => Installed(target[r])
      /\ pc[r] \in {"files", "manifest", "receipt"} => ref = target[r]
      /\ pc[r] = "receipt" => Installed(target[r]) \/ manifest # target[r]

-----------------------------------------------------------------------------
(* Types *)

LEMMA OwnedTypes ==
  ASSUME NEW p \in Packs
  PROVE  /\ Owned(p) \subseteq Files
         /\ \A f \in Owned(p) : Content[p][f] \in Packs
BY PacksAssumption, NamesAssumption DEF Owned

RunOK ==
  /\ mode \in [Runs -> {"none", "refresh", "cached", "locked", "pinned"}]
  /\ result \in [Runs -> {"none", "ok", "unavailable"}]
  /\ tries \in [Runs -> 0 .. LockAttempts - 1]
  /\ news \in [Runs -> BOOLEAN]
  /\ judged \in [Runs -> Lock \cup {None}]
  /\ latest \in [Runs -> MaybePack]
  /\ target \in [Runs -> MaybePack]
  /\ todo \in [Runs -> SUBSET Files]

WorldOK ==
  /\ lock \in Lock \cup {None}
  /\ tree \in [Files -> Packs \cup {None, Torn}]
  /\ ref \in MaybePack /\ files \in MaybePack /\ manifest \in MaybePack
  /\ receipt \in Receipt \cup {None}
  /\ channel \in Packs
  /\ faults \in 0 .. MaxFaults
  /\ raced \in BOOLEAN /\ stalled \in BOOLEAN /\ mixed \in BOOLEAN
  /\ stray \subseteq Files

LEMMA TypeParts == TypeOK <=> pc \in [Runs -> Label] /\ RunOK /\ WorldOK
BY DEF TypeOK, RunOK, WorldOK

LEMMA TypePartsNext == pc' \in [Runs -> Label] /\ RunOK' /\ WorldOK' => TypeOK'
BY DEF TypeOK, RunOK, WorldOK

LEMMA FaultTypes ==
  ASSUME TypeOK, UNCHANGED faults \/ Fault
  PROVE  faults' \in 0 .. MaxFaults
BY BoundsAssumption DEF Fault, TypeOK

\* Of the runs only r moves, to a step where it has no pack to install.
LEMMA Empties ==
  ASSUME TypeInv, NEW r \in Runs, NEW to \in Label \ Carrying, pc' = [pc EXCEPT ![r] = to],
         RunOK', WorldOK', \A q \in Runs \ {r} : target'[q] = target[q] /\ todo'[q] = todo[q]
  PROVE  TypeInv'
<1>1. pc' \in [Runs -> Label] /\ pc'[r] = to /\ \A q \in Runs \ {r} : pc'[q] = pc[q]
  BY DEF TypeInv, TypeOK
<1>2. TypeOK'
  BY <1>1, TypePartsNext
<1>3. \A q \in Runs : pc'[q] \in Carrying => target'[q] \in Packs
  BY <1>1 DEF TypeInv
<1>4. \A q \in Runs : pc'[q] = "place" => todo'[q] \subseteq Owned(target'[q])
  BY <1>1 DEF TypeInv, Carrying, Installing
<1> QED
  BY <1>2, <1>3, <1>4 DEF TypeInv, Owned

LEMMA Forgets ==
  ASSUME TypeOK, NEW r \in Runs, NEW how \in {"none", "ok", "unavailable"}, Forget(r, how),
         NoNews(r)
  PROVE  /\ RunOK'
         /\ \A q \in Runs \ {r} : target'[q] = target[q] /\ todo'[q] = todo[q]
<1>1. 0 \in 0 .. LockAttempts - 1
  BY BoundsAssumption
<1>2. None \in MaybePack
  BY DEF MaybePack
<1> QED
  BY <1>1, <1>2 DEF TypeOK, RunOK, Forget, NoNews

LEMMA Exits ==
  ASSUME TypeInv, NEW r \in Runs, NEW how \in {"none", "ok", "unavailable"}, NEW from,
         Exit(r, from, how), WorldOK'
  PROVE  TypeInv'
<1>1. RunOK' /\ \A q \in Runs \ {r} : target'[q] = target[q] /\ todo'[q] = todo[q]
  BY Forgets DEF Exit, TypeInv
<1>2. PICK to \in {"idle", "unlock"} : pc' = [pc EXCEPT ![r] = to]
  BY DEF Exit, Goto
<1>3. to \in Label \ Carrying
  BY DEF Label, Held, Carrying, Installing
<1> QED
  BY <1>1, <1>2, <1>3, Empties

LEMMA InitTypes == Init => TypeInv
<1> SUFFICES ASSUME Init PROVE TypeInv
  OBVIOUS
<1>1. RunOK
  BY BoundsAssumption DEF Init, RunOK, MaybePack
<1>2. WorldOK
  <2>1. faults \in 0 .. MaxFaults
    BY BoundsAssumption DEF Init
  <2> QED
    BY <2>1 DEF Init, WorldOK, MaybePack
<1>3. pc \in [Runs -> Label] /\ \A r \in Runs : pc[r] \notin Carrying /\ pc[r] # "place"
  BY DEF Init, Label, Carrying, Installing, Held
<1> QED
  BY <1>1, <1>2, <1>3, TypeParts DEF TypeInv

LEMMA PinTypes ==
  ASSUME TypeInv, NEW r \in Runs, Pin(r)
  PROVE  TypeInv'
BY PacksAssumption, NamesAssumption, BoundsAssumption
DEF Pin, Goto, Fault, Start, applied, history, TypeInv, TypeOK, MaybePack, Label, Carrying,
    Installing, Held, Owned

LEMMA CheckTypes ==
  ASSUME TypeInv, NEW r \in Runs, Check(r)
  PROVE  TypeInv'
<1>1. CASE /\ pc[r] = "idle" /\ UNCHANGED pc
           /\ Forget(r, "ok") /\ NoNews(r)
           /\ UNCHANGED <<lock, tree, applied, receipt, world, history>>
  <2>1. RunOK' /\ \A q \in Runs \ {r} : target'[q] = target[q] /\ todo'[q] = todo[q]
    BY <1>1, Forgets DEF TypeInv
  <2>2. WorldOK'
    BY <1>1 DEF TypeInv, TypeOK, WorldOK, applied, world, history
  <2>3. pc' = [pc EXCEPT ![r] = "idle"] /\ "idle" \in Label \ Carrying
    BY <1>1 DEF TypeInv, TypeOK, Label, Carrying, Held, Installing
  <2> QED
    BY <2>1, <2>2, <2>3, Empties
<1>2. CASE /\ Goto(r, "idle", "acquire")
           /\ \E m \in {"refresh", "cached"} : Start(r, m)
           /\ UNCHANGED <<target, faults>>
  <2>1. RunOK' /\ target' = target /\ todo' = todo
    BY <1>2 DEF TypeInv, TypeOK, RunOK, Start
  <2>2. WorldOK'
    BY <1>2 DEF TypeInv, TypeOK, WorldOK, applied, history, Start
  <2>3. pc' = [pc EXCEPT ![r] = "acquire"] /\ "acquire" \in Label \ Carrying
    BY <1>2 DEF Goto, Label, Carrying, Held, Installing
  <2> QED
    BY <2>1, <2>2, <2>3, Empties
<1> QED
  BY <1>1, <1>2 DEF Check

LEMMA AcquireTypes ==
  ASSUME TypeInv, NEW r \in Runs, Acquire(r)
  PROVE  TypeInv'
<1>1. PICK to \in {"own", "retire", "wait"} : pc' = [pc EXCEPT ![r] = to]
  BY DEF Acquire, Goto
<1>2. to \in Label \ Carrying
  BY DEF Label, Carrying, Held, Installing
<1>3. RunOK' /\ target' = target /\ todo' = todo
  BY DEF Acquire, TypeInv, TypeOK, RunOK
<1>4. [owner |-> None, old |-> FALSE] \in Lock
  BY DEF Lock
<1>5. WorldOK'
  BY <1>4 DEF Acquire, TypeInv, TypeOK, WorldOK, applied, world, history
<1> QED
  BY <1>1, <1>2, <1>3, <1>5, Empties

LEMMA RetireTypes ==
  ASSUME TypeInv, NEW r \in Runs, Retire(r)
  PROVE  TypeInv'
BY PacksAssumption, NamesAssumption, BoundsAssumption
DEF Retire, Goto, run, applied, history, world, TypeInv, TypeOK, Lock, Receipt, MaybePack,
    Label, Carrying,
    Installing, Held, Owned

LEMMA RemakeTypes ==
  ASSUME TypeInv, NEW r \in Runs, Remake(r)
  PROVE  TypeInv'
BY PacksAssumption, NamesAssumption, BoundsAssumption
DEF Remake, Goto, run, applied, history, world, TypeInv, TypeOK, Lock, Receipt, MaybePack,
    Label, Carrying,
    Installing, Held, Owned

LEMMA WriteOwnerTypes ==
  ASSUME TypeInv, NEW r \in Runs, WriteOwner(r)
  PROVE  TypeInv'
<1>1. PICK to \in {"wait", "resolve"} : pc' = [pc EXCEPT ![r] = to]
  BY DEF WriteOwner, Goto
<1>2. to \in Label \ Carrying
  BY DEF Label, Carrying, Held, Installing
<1>3. (IF receipt = None THEN None ELSE receipt.pack) \in MaybePack /\ 0 \in 0 .. LockAttempts - 1
  BY BoundsAssumption DEF TypeInv, TypeOK, MaybePack, Receipt
<1>4. RunOK' /\ target' = target /\ todo' = todo
  <2>1. CASE UNCHANGED run
    BY <2>1 DEF run, TypeInv, TypeOK, RunOK
  <2>2. CASE /\ mode' = [mode EXCEPT ![r] = "locked"]
             /\ latest' = [latest EXCEPT ![r] = IF receipt = None THEN None ELSE receipt.pack]
             /\ tries' = [tries EXCEPT ![r] = 0]
             /\ judged' = [judged EXCEPT ![r] = None]
             /\ NoNews(r)
             /\ UNCHANGED <<result, target, todo>>
    <3>1. latest' \in [Runs -> MaybePack] /\ tries' \in [Runs -> 0 .. LockAttempts - 1]
      BY <1>3, <2>2 DEF TypeInv, TypeOK
    <3> QED
      BY <2>2, <3>1 DEF NoNews, TypeInv, TypeOK, RunOK
  <2> QED
    BY <2>1, <2>2 DEF WriteOwner
<1>5. [owner |-> r, old |-> FALSE] \in Lock
  BY DEF Lock
<1>6. WorldOK'
  BY <1>5 DEF WriteOwner, TypeInv, TypeOK, WorldOK, applied, world, history
<1> QED
  BY <1>1, <1>2, <1>4, <1>6, Empties

LEMMA WaitTypes ==
  ASSUME TypeInv, NEW r \in Runs, Wait(r)
  PROVE  TypeInv'
<1>1. WorldOK'
  BY DEF Wait, TypeInv, TypeOK, WorldOK, applied, world, history
<1>2. CASE /\ Goto(r, "wait", "idle")
           /\ Forget(r, "ok") \/ Forget(r, "none")
           /\ NoNews(r)
  <2>1. RunOK' /\ \A q \in Runs \ {r} : target'[q] = target[q] /\ todo'[q] = todo[q]
    BY <1>2, Forgets DEF TypeInv
  <2>2. pc' = [pc EXCEPT ![r] = "idle"] /\ "idle" \in Label \ Carrying
    BY <1>2 DEF Goto, Label, Carrying, Held, Installing
  <2> QED
    BY <1>1, <2>1, <2>2, Empties
<1>3. CASE /\ tries[r] + 1 < LockAttempts
           /\ Goto(r, "wait", "acquire")
           /\ tries' = [tries EXCEPT ![r] = @ + 1]
           /\ UNCHANGED <<mode, result, news, judged, latest, target, todo>>
  <2>1. tries[r] + 1 \in 0 .. LockAttempts - 1
    BY <1>3, BoundsAssumption DEF TypeInv, TypeOK
  <2>2. RunOK'
    BY <1>3, <2>1 DEF TypeInv, TypeOK, RunOK
  <2>3. pc' = [pc EXCEPT ![r] = "acquire"] /\ "acquire" \in Label \ Carrying
    BY <1>3 DEF Goto, Label, Carrying, Held, Installing
  <2> QED
    BY <1>1, <1>3, <2>2, <2>3, Empties
<1> QED
  BY <1>2, <1>3 DEF Wait

LEMMA ResolveTypes ==
  ASSUME TypeInv, NEW r \in Runs, Resolve(r)
  PROVE  TypeInv'
<1>1. WorldOK'
  <2>1. faults' \in 0 .. MaxFaults
    BY FaultTypes DEF Resolve, TypeInv
  <2>2. mixed' \in BOOLEAN
    BY DEF Resolve, Overlap, TypeInv, TypeOK
  <2> QED
    BY <2>1, <2>2 DEF Resolve, TypeInv, TypeOK, WorldOK, applied
<1>2. CASE Exit(r, "resolve", "none") \/ Exit(r, "resolve", "ok") \/ Exit(r, "resolve", "unavailable")
  BY <1>1, <1>2, Exits
<1>3. CASE /\ Goto(r, "resolve", IF Complete(GreenPack) THEN "receipt" ELSE "fetch")
           /\ target' = [target EXCEPT ![r] = GreenPack]
           /\ latest' = [latest EXCEPT ![r] = None]
           /\ UNCHANGED <<mode, result, tries, news, judged, todo>>
  <2>1. GreenPack \in Packs
    BY DEF GreenPack, TypeInv, TypeOK
  <2>2. RunOK'
    BY <1>3, <2>1 DEF TypeInv, TypeOK, RunOK, MaybePack
  <2>3. PICK to \in {"receipt", "fetch"} : pc' = [pc EXCEPT ![r] = to]
    BY <1>3 DEF Goto
  <2>4. pc' \in [Runs -> Label]
    BY <2>3 DEF TypeInv, TypeOK, Label, Held
  <2>5. \A q \in Runs : pc'[q] \in Carrying => target'[q] \in Packs
    BY <1>3, <2>1, <2>3 DEF TypeInv, TypeOK
  <2>6. \A q \in Runs : pc'[q] = "place" => todo'[q] \subseteq Owned(target'[q])
    BY <1>3, <2>3 DEF TypeInv, TypeOK
  <2> QED
    BY <1>1, <2>2, <2>4, <2>5, <2>6, TypePartsNext DEF TypeInv, Owned
<1> QED
  BY <1>2, <1>3 DEF Resolve

LEMMA FetchTypes ==
  ASSUME TypeInv, NEW r \in Runs, Fetch(r)
  PROVE  TypeInv'
<1>1. WorldOK'
  <2>1. faults' \in 0 .. MaxFaults
    BY FaultTypes DEF Fetch, TypeInv
  <2>2. mixed' \in BOOLEAN
    BY DEF Fetch, Overlap, TypeInv, TypeOK
  <2> QED
    BY <2>1, <2>2 DEF Fetch, TypeInv, TypeOK, WorldOK, applied
<1>2. CASE Exit(r, "fetch", "none")
  BY <1>1, <1>2, Exits
<1>3. CASE /\ Goto(r, "fetch", "place")
           /\ todo' = [todo EXCEPT ![r] = Owned(target[r])]
           /\ UNCHANGED <<mode, result, tries, news, judged, latest, target>>
  <2>1. target[r] \in Packs
    BY <1>3 DEF Goto, TypeInv, Carrying
  <2>2. Owned(target[r]) \subseteq Files
    BY <2>1, OwnedTypes
  <2>3. RunOK'
    BY <1>3, <2>2 DEF TypeInv, TypeOK, RunOK
  <2>4. pc' \in [Runs -> Label]
    BY <1>3 DEF Goto, TypeInv, TypeOK, Label, Held, Installing
  <2>5. \A q \in Runs : pc'[q] \in Carrying => target'[q] \in Packs
    BY <1>3, <2>1 DEF Goto, TypeInv, TypeOK
  <2>6. \A q \in Runs : pc'[q] = "place" => todo'[q] \subseteq Owned(target[q])
    BY <1>3 DEF Goto, TypeInv, TypeOK
  <2> QED
    BY <1>1, <1>3, <2>3, <2>4, <2>5, <2>6, TypePartsNext DEF TypeInv, Owned
<1> QED
  BY <1>2, <1>3 DEF Fetch

LEMMA PlaceTypes ==
  ASSUME TypeInv, NEW r \in Runs, Place(r)
  PROVE  TypeInv'
<1>1. PICK f \in Files :
        /\ pc[r] = "place" /\ f \in todo[r]
        /\ tree' = [tree EXCEPT ![f] = Content[target[r]][f]]
        /\ todo' = [todo EXCEPT ![r] = @ \ {f}]
  BY DEF Place, Turn
<1>2. target[r] \in Packs /\ f \in Owned(target[r])
  BY <1>1 DEF TypeInv, Carrying, Installing
<1>3. Content[target[r]][f] \in Packs
  BY <1>2, OwnedTypes
<1>4. WorldOK'
  BY <1>1, <1>3 DEF Place, TypeInv, TypeOK, WorldOK, applied, world, history
<1>5. RunOK'
  BY <1>1 DEF Place, TypeInv, TypeOK, RunOK
<1>6. pc' = pc /\ target' = target
  BY DEF Place
<1>7. \A q \in Runs : todo'[q] \subseteq todo[q]
  BY <1>1 DEF TypeInv, TypeOK
<1>8. TypeOK'
  BY <1>4, <1>5, <1>6, TypePartsNext DEF TypeInv, TypeOK
<1> QED
  BY <1>6, <1>7, <1>8 DEF TypeInv, Owned

LEMMA PruneTypes ==
  ASSUME TypeInv, NEW r \in Runs, Prune(r)
  PROVE  TypeInv'
BY PacksAssumption, NamesAssumption, BoundsAssumption
DEF Prune, Goto, run, applied, history, world, TypeInv, TypeOK, Lock, Receipt, MaybePack,
    Label, Carrying,
    Installing, Held, Owned

LEMMA UnfinishedTypes ==
  ASSUME TypeInv, NEW r \in Runs, pc[r] \in Installing
  PROVE  Unfinished(r) \subseteq Files
<1>1. target[r] \in Packs
  BY DEF TypeInv, Carrying
<1> QED
  BY <1>1, OwnedTypes DEF Unfinished, TypeInv, TypeOK

LEMMA ProjectTypes ==
  ASSUME TypeInv, NEW r \in Runs, Project(r)
  PROVE  TypeInv'
<1>1. pc[r] = "project" /\ target[r] \in Packs /\ Unfinished(r) \subseteq Files
  BY UnfinishedTypes DEF Project, Exit, Goto, TypeInv, Carrying, Installing
<1>2. WorldOK'
  BY <1>1, BoundsAssumption DEF Project, Fault, TypeInv, TypeOK, WorldOK, MaybePack
<1>3. CASE Exit(r, "project", "none")
  BY <1>2, <1>3, Exits
<1>4. CASE Goto(r, "project", "files") /\ UNCHANGED run
  <2>1. RunOK' /\ target' = target /\ todo' = todo
    BY <1>4 DEF run, TypeInv, TypeOK, RunOK
  <2>2. pc' \in [Runs -> Label]
    BY <1>4 DEF Goto, TypeInv, TypeOK, Label, Held, Installing
  <2>3. \A q \in Runs : pc'[q] \in Carrying => target[q] \in Packs
    BY <1>1, <1>4 DEF Goto, TypeInv, TypeOK
  <2>4. \A q \in Runs : pc'[q] = "place" => todo[q] \subseteq Owned(target[q])
    BY <1>4 DEF Goto, TypeInv, TypeOK
  <2> QED
    BY <1>2, <2>1, <2>2, <2>3, <2>4, TypePartsNext DEF TypeInv, Owned
<1> QED
  BY <1>3, <1>4 DEF Project

LEMMA WriteFilesTypes ==
  ASSUME TypeInv, NEW r \in Runs, WriteFiles(r)
  PROVE  TypeInv'
BY PacksAssumption, NamesAssumption, BoundsAssumption
DEF WriteFiles, Goto, run, applied, history, world, TypeInv, TypeOK, Lock, Receipt,
    MaybePack, Label, Carrying,
    Installing, Held, Owned

LEMMA WriteManifestTypes ==
  ASSUME TypeInv, NEW r \in Runs, WriteManifest(r)
  PROVE  TypeInv'
<1>1. pc[r] = "manifest" /\ target[r] \in Packs
  BY DEF WriteManifest, Exit, Goto, TypeInv, Carrying, Installing
<1>2. WorldOK'
  BY <1>1 DEF WriteManifest, TypeInv, TypeOK, WorldOK, MaybePack, world, history
<1>3. CASE Exit(r, "manifest", "ok")
  BY <1>2, <1>3, Exits
<1>4. CASE Goto(r, "manifest", "receipt") /\ UNCHANGED run
  <2>1. RunOK' /\ target' = target /\ todo' = todo
    BY <1>4 DEF run, TypeInv, TypeOK, RunOK
  <2>2. pc' \in [Runs -> Label]
    BY <1>4 DEF Goto, TypeInv, TypeOK, Label, Held
  <2>3. \A q \in Runs : pc'[q] \in Carrying => target[q] \in Packs
    BY <1>1, <1>4 DEF Goto, TypeInv, TypeOK
  <2>4. \A q \in Runs : pc'[q] = "place" => todo[q] \subseteq Owned(target[q])
    BY <1>4 DEF Goto, TypeInv, TypeOK
  <2> QED
    BY <1>2, <2>1, <2>2, <2>3, <2>4, TypePartsNext DEF TypeInv, Owned
<1> QED
  BY <1>3, <1>4 DEF WriteManifest

LEMMA WriteReceiptTypes ==
  ASSUME TypeInv, NEW r \in Runs, WriteReceipt(r)
  PROVE  TypeInv'
BY PacksAssumption, NamesAssumption, BoundsAssumption
DEF WriteReceipt, Goto, Forget, applied, history, world, TypeInv, TypeOK, Lock, Receipt,
    MaybePack, Label, Carrying,
    Installing, Held, Owned

LEMMA UnlockTypes ==
  ASSUME TypeInv, NEW r \in Runs, Unlock(r)
  PROVE  TypeInv'
BY PacksAssumption, NamesAssumption, BoundsAssumption
DEF Unlock, Goto, run, applied, history, world, TypeInv, TypeOK, Lock, Receipt, MaybePack,
    Label, Carrying,
    Installing, Held, Owned

LEMMA UnlinkOwnerTypes ==
  ASSUME TypeInv, NEW r \in Runs, UnlinkOwner(r)
  PROVE  TypeInv'
BY PacksAssumption, NamesAssumption, BoundsAssumption
DEF UnlinkOwner, Goto, run, applied, history, world, TypeInv, TypeOK, Lock, Receipt,
    MaybePack, Label, Carrying,
    Installing, Held, Owned

LEMMA RemoveLockTypes ==
  ASSUME TypeInv, NEW r \in Runs, RemoveLock(r)
  PROVE  TypeInv'
BY PacksAssumption, NamesAssumption, BoundsAssumption
DEF RemoveLock, Goto, run, applied, history, world, TypeInv, TypeOK, Lock, Receipt,
    MaybePack, Label, Carrying,
    Installing, Held, Owned

LEMMA CrashTypes ==
  ASSUME TypeInv, NEW r \in Runs, Crash(r)
  PROVE  TypeInv'
BY PacksAssumption, NamesAssumption, BoundsAssumption
DEF Crash, Fault, Forget, NoNews, Unfinished, applied, TypeInv, TypeOK, Lock, Receipt,
    MaybePack, Label, Carrying,
    Installing, Held, Owned

LEMMA HeartbeatTypes ==
  ASSUME TypeInv, NEW r \in Runs, Heartbeat(r)
  PROVE  TypeInv'
BY PacksAssumption, NamesAssumption, BoundsAssumption
DEF Heartbeat, run, applied, history, world, TypeInv, TypeOK, Lock, Receipt, MaybePack,
    Label, Carrying,
    Installing, Held, Owned

LEMMA LockAgesTypes ==
  ASSUME TypeInv, LockAges
  PROVE  TypeInv'
<1>1. lock' \in Lock
  BY DEF LockAges, TypeInv, TypeOK, Lock
<1>2. WorldOK'
  <2>1. faults' \in 0 .. MaxFaults
    BY FaultTypes DEF LockAges, TypeInv
  <2> QED
    BY <1>1, <2>1 DEF LockAges, TypeInv, TypeOK, WorldOK, applied
<1>3. RunOK' /\ UNCHANGED <<pc, target, todo>>
  BY DEF LockAges, run, TypeInv, TypeOK, RunOK
<1>4. TypeOK'
  BY <1>2, <1>3, TypePartsNext DEF TypeInv, TypeOK
<1> QED
  BY <1>3, <1>4 DEF TypeInv, Owned

LEMMA ReceiptAgesTypes ==
  ASSUME TypeInv, ReceiptAges
  PROVE  TypeInv'
BY PacksAssumption, NamesAssumption, BoundsAssumption
DEF ReceiptAges, Fault, run, applied, history, world, TypeInv, TypeOK, Lock, Receipt,
    MaybePack, Label, Carrying,
    Installing, Held, Owned

LEMMA PublishTypes ==
  ASSUME TypeInv, Publish
  PROVE  TypeInv'
BY PacksAssumption, NamesAssumption, BoundsAssumption
DEF Publish, Fault, run, applied, history, world, TypeInv, TypeOK, Lock, Receipt,
    MaybePack, Label, Carrying,
    Installing, Held, Owned

LEMMA EditTypes ==
  ASSUME TypeInv, Edit
  PROVE  TypeInv'
BY PacksAssumption, NamesAssumption, BoundsAssumption
DEF Edit, Fault, run, applied, history, world, TypeInv, TypeOK, Lock, Receipt, MaybePack,
    Label, Carrying,
    Installing, Held, Owned

LEMMA NextTypes ==
  ASSUME TypeInv, [Next]_vars
  PROVE  TypeInv'
<1>1. UNCHANGED vars => TypeInv'
  BY DEF vars, run, applied, world, history, TypeInv, TypeOK, Owned
<1> QED
  BY PinTypes, CheckTypes, AcquireTypes, RetireTypes, RemakeTypes, WriteOwnerTypes,
     WaitTypes, ResolveTypes, FetchTypes, PlaceTypes, PruneTypes, ProjectTypes,
     WriteFilesTypes, WriteManifestTypes, WriteReceiptTypes, UnlockTypes,
     UnlinkOwnerTypes, RemoveLockTypes, CrashTypes, HeartbeatTypes, LockAgesTypes,
     ReceiptAgesTypes, PublishTypes, EditTypes, <1>1 DEF Next, Step

-----------------------------------------------------------------------------
(* The lock *)

LEMMA NewLock ==
  ASSUME NEW o \in Runs \cup {None}
  PROVE  [owner |-> o, old |-> FALSE] # None
<1>1. [owner |-> o, old |-> FALSE] \in Lock
  BY DEF Lock
<1> QED
  BY <1>1, NamesAssumption

\* Without the lock only from the download to the last record.
LEMMA PinnedNext ==
  ASSUME TypeInv, LockInv, [Next]_vars
  PROVE  PinnedInv'
<1> USE DEF Goto, Fault, Forget, NoNews, Exit, Start, run, applied, history, world,
            TypeInv, TypeOK, Pinnable
<1>1. ASSUME NEW r \in Runs, Pin(r) PROVE PinnedInv'
  BY <1>1, NamesAssumption DEF Pin, LockInv, PinnedInv
<1>2. ASSUME NEW r \in Runs, Check(r) PROVE PinnedInv'
  BY <1>2, NamesAssumption DEF Check, LockInv, PinnedInv
<1>3. ASSUME NEW r \in Runs, Acquire(r) PROVE PinnedInv'
  BY <1>3, NamesAssumption DEF Acquire, LockInv, PinnedInv
<1>4. ASSUME NEW r \in Runs, Retire(r) PROVE PinnedInv'
  BY <1>4, NamesAssumption DEF Retire, LockInv, PinnedInv
<1>5. ASSUME NEW r \in Runs, Remake(r) PROVE PinnedInv'
  BY <1>5, NamesAssumption DEF Remake, LockInv, PinnedInv
<1>6. ASSUME NEW r \in Runs, WriteOwner(r) PROVE PinnedInv'
  BY <1>6, NamesAssumption DEF WriteOwner, LockInv, PinnedInv
<1>7. ASSUME NEW r \in Runs, Wait(r) PROVE PinnedInv'
  BY <1>7, NamesAssumption DEF Wait, LockInv, PinnedInv
<1>8. ASSUME NEW r \in Runs, Resolve(r) PROVE PinnedInv'
  BY <1>8, NamesAssumption DEF Resolve, LockInv, PinnedInv
<1>9. ASSUME NEW r \in Runs, Fetch(r) PROVE PinnedInv'
  BY <1>9, NamesAssumption DEF Fetch, LockInv, PinnedInv
<1>10. ASSUME NEW r \in Runs, Place(r) PROVE PinnedInv'
  BY <1>10, NamesAssumption DEF Place, LockInv, PinnedInv
<1>11. ASSUME NEW r \in Runs, Prune(r) PROVE PinnedInv'
  BY <1>11, NamesAssumption DEF Prune, LockInv, PinnedInv
<1>12. ASSUME NEW r \in Runs, Project(r) PROVE PinnedInv'
  BY <1>12, NamesAssumption DEF Project, LockInv, PinnedInv
<1>13. ASSUME NEW r \in Runs, WriteFiles(r) PROVE PinnedInv'
  BY <1>13, NamesAssumption DEF WriteFiles, LockInv, PinnedInv
<1>14. ASSUME NEW r \in Runs, WriteManifest(r) PROVE PinnedInv'
  BY <1>14, NamesAssumption DEF WriteManifest, LockInv, PinnedInv
<1>15. ASSUME NEW r \in Runs, WriteReceipt(r) PROVE PinnedInv'
  BY <1>15, NamesAssumption DEF WriteReceipt, LockInv, PinnedInv
<1>16. ASSUME NEW r \in Runs, Unlock(r) PROVE PinnedInv'
  BY <1>16, NamesAssumption DEF Unlock, LockInv, PinnedInv
<1>17. ASSUME NEW r \in Runs, UnlinkOwner(r) PROVE PinnedInv'
  BY <1>17, NamesAssumption DEF UnlinkOwner, LockInv, PinnedInv
<1>18. ASSUME NEW r \in Runs, RemoveLock(r) PROVE PinnedInv'
  BY <1>18, NamesAssumption DEF RemoveLock, LockInv, PinnedInv
<1>19. ASSUME NEW r \in Runs, Crash(r) PROVE PinnedInv'
  BY <1>19, NamesAssumption DEF Crash, LockInv, PinnedInv
<1>20. ASSUME NEW r \in Runs, Heartbeat(r) PROVE PinnedInv'
  BY <1>20, NamesAssumption DEF Heartbeat, LockInv, PinnedInv
<1>21. ASSUME LockAges PROVE PinnedInv'
  BY <1>21, NamesAssumption DEF LockAges, LockInv, PinnedInv
<1>22. ASSUME ReceiptAges PROVE PinnedInv'
  BY <1>22, NamesAssumption DEF ReceiptAges, LockInv, PinnedInv
<1>23. ASSUME Publish PROVE PinnedInv'
  BY <1>23, NamesAssumption DEF Publish, LockInv, PinnedInv
<1>24. ASSUME Edit PROVE PinnedInv'
  BY <1>24, NamesAssumption DEF Edit, LockInv, PinnedInv
<1>25. UNCHANGED vars => PinnedInv'
  BY DEF vars, LockInv, PinnedInv
<1> QED
  BY <1>1, <1>2, <1>3, <1>4, <1>5, <1>6, <1>7, <1>8, <1>9, <1>10, <1>11, <1>12,
     <1>13, <1>14, <1>15, <1>16, <1>17, <1>18, <1>19, <1>20, <1>21, <1>22, <1>23,
     <1>24, <1>25 DEF Next, Step

\* The judgement is the lock's, or none.
LEMMA JudgedNext ==
  ASSUME TypeInv, LockInv, [Next]_vars
  PROVE  JudgedInv'
<1> USE DEF Goto, Fault, Forget, NoNews, Exit, Start, run, applied, history, world,
            TypeInv, TypeOK
<1>1. ASSUME NEW r \in Runs, Pin(r) PROVE JudgedInv'
  BY <1>1, NamesAssumption DEF Pin, LockInv, JudgedInv
<1>2. ASSUME NEW r \in Runs, Check(r) PROVE JudgedInv'
  BY <1>2, NamesAssumption DEF Check, LockInv, JudgedInv
<1>3. ASSUME NEW r \in Runs, Acquire(r) PROVE JudgedInv'
  <2>1. CASE UNCHANGED judged
    BY <2>1 DEF LockInv, JudgedInv
  <2>2. CASE lock # None /\ judged' = [judged EXCEPT ![r] = IF lock.old THEN lock ELSE None]
    <3>1. lock.old => lock.owner # None
      BY <2>2 DEF LockInv, UnsignedInv
    <3> QED
      BY <2>2, <3>1 DEF LockInv, JudgedInv
  <2> QED
    BY <1>3, <2>1, <2>2 DEF Acquire
<1>4. ASSUME NEW r \in Runs, Retire(r) PROVE JudgedInv'
  BY <1>4, NamesAssumption DEF Retire, LockInv, JudgedInv
<1>5. ASSUME NEW r \in Runs, Remake(r) PROVE JudgedInv'
  BY <1>5, NamesAssumption DEF Remake, LockInv, JudgedInv
<1>6. ASSUME NEW r \in Runs, WriteOwner(r) PROVE JudgedInv'
  BY <1>6, NamesAssumption DEF WriteOwner, LockInv, JudgedInv
<1>7. ASSUME NEW r \in Runs, Wait(r) PROVE JudgedInv'
  BY <1>7, NamesAssumption DEF Wait, LockInv, JudgedInv
<1>8. ASSUME NEW r \in Runs, Resolve(r) PROVE JudgedInv'
  BY <1>8, NamesAssumption DEF Resolve, LockInv, JudgedInv
<1>9. ASSUME NEW r \in Runs, Fetch(r) PROVE JudgedInv'
  BY <1>9, NamesAssumption DEF Fetch, LockInv, JudgedInv
<1>10. ASSUME NEW r \in Runs, Place(r) PROVE JudgedInv'
  BY <1>10, NamesAssumption DEF Place, LockInv, JudgedInv
<1>11. ASSUME NEW r \in Runs, Prune(r) PROVE JudgedInv'
  BY <1>11, NamesAssumption DEF Prune, LockInv, JudgedInv
<1>12. ASSUME NEW r \in Runs, Project(r) PROVE JudgedInv'
  BY <1>12, NamesAssumption DEF Project, LockInv, JudgedInv
<1>13. ASSUME NEW r \in Runs, WriteFiles(r) PROVE JudgedInv'
  BY <1>13, NamesAssumption DEF WriteFiles, LockInv, JudgedInv
<1>14. ASSUME NEW r \in Runs, WriteManifest(r) PROVE JudgedInv'
  BY <1>14, NamesAssumption DEF WriteManifest, LockInv, JudgedInv
<1>15. ASSUME NEW r \in Runs, WriteReceipt(r) PROVE JudgedInv'
  BY <1>15, NamesAssumption DEF WriteReceipt, LockInv, JudgedInv
<1>16. ASSUME NEW r \in Runs, Unlock(r) PROVE JudgedInv'
  BY <1>16, NamesAssumption DEF Unlock, LockInv, JudgedInv
<1>17. ASSUME NEW r \in Runs, UnlinkOwner(r) PROVE JudgedInv'
  BY <1>17, NamesAssumption DEF UnlinkOwner, LockInv, JudgedInv
<1>18. ASSUME NEW r \in Runs, RemoveLock(r) PROVE JudgedInv'
  BY <1>18, NamesAssumption DEF RemoveLock, LockInv, JudgedInv
<1>19. ASSUME NEW r \in Runs, Crash(r) PROVE JudgedInv'
  BY <1>19, NamesAssumption DEF Crash, LockInv, JudgedInv
<1>20. ASSUME NEW r \in Runs, Heartbeat(r) PROVE JudgedInv'
  BY <1>20, NamesAssumption DEF Heartbeat, LockInv, JudgedInv
<1>21. ASSUME LockAges PROVE JudgedInv'
  BY <1>21, NamesAssumption DEF LockAges, LockInv, JudgedInv
<1>22. ASSUME ReceiptAges PROVE JudgedInv'
  BY <1>22, NamesAssumption DEF ReceiptAges, LockInv, JudgedInv
<1>23. ASSUME Publish PROVE JudgedInv'
  BY <1>23, NamesAssumption DEF Publish, LockInv, JudgedInv
<1>24. ASSUME Edit PROVE JudgedInv'
  BY <1>24, NamesAssumption DEF Edit, LockInv, JudgedInv
<1>25. UNCHANGED vars => JudgedInv'
  BY DEF vars, LockInv, JudgedInv
<1> QED
  BY <1>1, <1>2, <1>3, <1>4, <1>5, <1>6, <1>7, <1>8, <1>9, <1>10, <1>11, <1>12,
     <1>13, <1>14, <1>15, <1>16, <1>17, <1>18, <1>19, <1>20, <1>21, <1>22, <1>23,
     <1>24, <1>25 DEF Next, Step

\* Only a signed lock grows old.
LEMMA UnsignedNext ==
  ASSUME TypeInv, LockInv, [Next]_vars
  PROVE  UnsignedInv'
<1> USE DEF Goto, Fault, Forget, NoNews, Exit, Start, run, applied, history, world,
            TypeInv, TypeOK, Lock
<1>1. ASSUME NEW r \in Runs, Pin(r) PROVE UnsignedInv'
  BY <1>1, NamesAssumption DEF Pin, LockInv, UnsignedInv
<1>2. ASSUME NEW r \in Runs, Check(r) PROVE UnsignedInv'
  BY <1>2, NamesAssumption DEF Check, LockInv, UnsignedInv
<1>3. ASSUME NEW r \in Runs, Acquire(r) PROVE UnsignedInv'
  BY <1>3, NamesAssumption DEF Acquire, LockInv, UnsignedInv
<1>4. ASSUME NEW r \in Runs, Retire(r) PROVE UnsignedInv'
  BY <1>4, NamesAssumption DEF Retire, LockInv, UnsignedInv
<1>5. ASSUME NEW r \in Runs, Remake(r) PROVE UnsignedInv'
  BY <1>5, NamesAssumption DEF Remake, LockInv, UnsignedInv
<1>6. ASSUME NEW r \in Runs, WriteOwner(r) PROVE UnsignedInv'
  BY <1>6, NamesAssumption DEF WriteOwner, LockInv, UnsignedInv
<1>7. ASSUME NEW r \in Runs, Wait(r) PROVE UnsignedInv'
  BY <1>7, NamesAssumption DEF Wait, LockInv, UnsignedInv
<1>8. ASSUME NEW r \in Runs, Resolve(r) PROVE UnsignedInv'
  BY <1>8, NamesAssumption DEF Resolve, LockInv, UnsignedInv
<1>9. ASSUME NEW r \in Runs, Fetch(r) PROVE UnsignedInv'
  BY <1>9, NamesAssumption DEF Fetch, LockInv, UnsignedInv
<1>10. ASSUME NEW r \in Runs, Place(r) PROVE UnsignedInv'
  BY <1>10, NamesAssumption DEF Place, LockInv, UnsignedInv
<1>11. ASSUME NEW r \in Runs, Prune(r) PROVE UnsignedInv'
  BY <1>11, NamesAssumption DEF Prune, LockInv, UnsignedInv
<1>12. ASSUME NEW r \in Runs, Project(r) PROVE UnsignedInv'
  BY <1>12, NamesAssumption DEF Project, LockInv, UnsignedInv
<1>13. ASSUME NEW r \in Runs, WriteFiles(r) PROVE UnsignedInv'
  BY <1>13, NamesAssumption DEF WriteFiles, LockInv, UnsignedInv
<1>14. ASSUME NEW r \in Runs, WriteManifest(r) PROVE UnsignedInv'
  BY <1>14, NamesAssumption DEF WriteManifest, LockInv, UnsignedInv
<1>15. ASSUME NEW r \in Runs, WriteReceipt(r) PROVE UnsignedInv'
  BY <1>15, NamesAssumption DEF WriteReceipt, LockInv, UnsignedInv
<1>16. ASSUME NEW r \in Runs, Unlock(r) PROVE UnsignedInv'
  BY <1>16, NamesAssumption DEF Unlock, LockInv, UnsignedInv
<1>17. ASSUME NEW r \in Runs, UnlinkOwner(r) PROVE UnsignedInv'
  BY <1>17, NamesAssumption DEF UnlinkOwner, LockInv, UnsignedInv
<1>18. ASSUME NEW r \in Runs, RemoveLock(r) PROVE UnsignedInv'
  BY <1>18, NamesAssumption DEF RemoveLock, LockInv, UnsignedInv
<1>19. ASSUME NEW r \in Runs, Crash(r) PROVE UnsignedInv'
  BY <1>19, NamesAssumption DEF Crash, LockInv, UnsignedInv
<1>20. ASSUME NEW r \in Runs, Heartbeat(r) PROVE UnsignedInv'
  BY <1>20, NamesAssumption DEF Heartbeat, LockInv, UnsignedInv
<1>21. ASSUME LockAges PROVE UnsignedInv'
  BY <1>21, NamesAssumption DEF LockAges, LockInv, UnsignedInv
<1>22. ASSUME ReceiptAges PROVE UnsignedInv'
  BY <1>22, NamesAssumption DEF ReceiptAges, LockInv, UnsignedInv
<1>23. ASSUME Publish PROVE UnsignedInv'
  BY <1>23, NamesAssumption DEF Publish, LockInv, UnsignedInv
<1>24. ASSUME Edit PROVE UnsignedInv'
  BY <1>24, NamesAssumption DEF Edit, LockInv, UnsignedInv
<1>25. UNCHANGED vars => UnsignedInv'
  BY DEF vars, LockInv, UnsignedInv
<1> QED
  BY <1>1, <1>2, <1>3, <1>4, <1>5, <1>6, <1>7, <1>8, <1>9, <1>10, <1>11, <1>12,
     <1>13, <1>14, <1>15, <1>16, <1>17, <1>18, <1>19, <1>20, <1>21, <1>22, <1>23,
     <1>24, <1>25 DEF Next, Step

\* The lock without an owner file has one maker.
LEMMA MakerNext ==
  ASSUME TypeInv, LockInv, [Next]_vars
  PROVE  MakerInv'
<1> USE DEF Goto, Fault, Forget, NoNews, Exit, Start, run, applied, history, world,
            TypeInv, TypeOK, Lock, Makes
<1>1. ASSUME NEW r \in Runs, Pin(r) PROVE MakerInv'
  BY <1>1, NamesAssumption DEF Pin, LockInv, MakerInv
<1>2. ASSUME NEW r \in Runs, Check(r) PROVE MakerInv'
  BY <1>2, NamesAssumption DEF Check, LockInv, MakerInv
<1>3. ASSUME NEW r \in Runs, Acquire(r) PROVE MakerInv'
  <2>1. CASE /\ lock = None
             /\ Goto(r, "acquire", "own")
             /\ lock' = [owner |-> None, old |-> FALSE]
    <3>1. ~raced => \A q \in Runs : ~Makes(q)
      BY <2>1 DEF LockInv, MakerInv
    <3>2. ~raced' => \A q \in Runs : Makes(q)' <=> q = r
      BY <1>3, <2>1, <3>1 DEF Acquire
    <3>3. lock' # None /\ lock'.owner = None
      BY <2>1, NewLock
    <3> QED
      BY <3>2, <3>3 DEF MakerInv
  <2>2. CASE UNCHANGED lock /\ \E to \in {"retire", "wait"} : Goto(r, "acquire", to)
    <3>1. \A q \in Runs : Makes(q)' => Makes(q)
      BY <2>2
    <3> QED
      BY <1>3, <2>2, <3>1 DEF Acquire, LockInv, MakerInv
  <2> QED
    BY <1>3, <2>1, <2>2 DEF Acquire
<1>4. ASSUME NEW r \in Runs, Retire(r) PROVE MakerInv'
  <2> SUFFICES ASSUME ~raced' PROVE \A q \in Runs : ~Makes(q)'
    BY DEF MakerInv
  <2>1. ~raced /\ (lock = None \/ lock = judged[r])
    BY <1>4 DEF Retire
  <2>2. lock # None => lock.owner # None
    BY <2>1 DEF LockInv, JudgedInv
  <2>3. \A q \in Runs : ~Makes(q)
    BY <2>1, <2>2 DEF LockInv, MakerInv
  <2> QED
    BY <1>4, <2>3 DEF Retire
<1>5. ASSUME NEW r \in Runs, Remake(r) PROVE MakerInv'
  <2>1. CASE lock = None
    <3>1. ~raced => \A q \in Runs : ~Makes(q)
      BY <2>1 DEF LockInv, MakerInv
    <3>2. ~raced' => \A q \in Runs : Makes(q)' <=> q = r
      BY <1>5, <2>1, <3>1 DEF Remake
    <3>3. lock' # None /\ lock'.owner = None
      BY <1>5, <2>1, NewLock DEF Remake
    <3> QED
      BY <3>2, <3>3 DEF MakerInv
  <2>2. CASE lock # None
    <3>1. UNCHANGED lock /\ \A q \in Runs : Makes(q)' => Makes(q)
      BY <1>5, <2>2 DEF Remake
    <3> QED
      BY <1>5, <3>1 DEF Remake, LockInv, MakerInv
  <2> QED
    BY <2>1, <2>2
<1>6. ASSUME NEW r \in Runs, WriteOwner(r) PROVE MakerInv'
  BY <1>6, NamesAssumption DEF WriteOwner, LockInv, MakerInv
<1>7. ASSUME NEW r \in Runs, Wait(r) PROVE MakerInv'
  BY <1>7, NamesAssumption DEF Wait, LockInv, MakerInv
<1>8. ASSUME NEW r \in Runs, Resolve(r) PROVE MakerInv'
  BY <1>8, NamesAssumption DEF Resolve, LockInv, MakerInv
<1>9. ASSUME NEW r \in Runs, Fetch(r) PROVE MakerInv'
  BY <1>9, NamesAssumption DEF Fetch, LockInv, MakerInv
<1>10. ASSUME NEW r \in Runs, Place(r) PROVE MakerInv'
  BY <1>10, NamesAssumption DEF Place, LockInv, MakerInv
<1>11. ASSUME NEW r \in Runs, Prune(r) PROVE MakerInv'
  BY <1>11, NamesAssumption DEF Prune, LockInv, MakerInv
<1>12. ASSUME NEW r \in Runs, Project(r) PROVE MakerInv'
  BY <1>12, NamesAssumption DEF Project, LockInv, MakerInv
<1>13. ASSUME NEW r \in Runs, WriteFiles(r) PROVE MakerInv'
  BY <1>13, NamesAssumption DEF WriteFiles, LockInv, MakerInv
<1>14. ASSUME NEW r \in Runs, WriteManifest(r) PROVE MakerInv'
  BY <1>14, NamesAssumption DEF WriteManifest, LockInv, MakerInv
<1>15. ASSUME NEW r \in Runs, WriteReceipt(r) PROVE MakerInv'
  BY <1>15, NamesAssumption DEF WriteReceipt, LockInv, MakerInv
<1>16. ASSUME NEW r \in Runs, Unlock(r) PROVE MakerInv'
  BY <1>16, NamesAssumption DEF Unlock, LockInv, MakerInv
<1>17. ASSUME NEW r \in Runs, UnlinkOwner(r) PROVE MakerInv'
  <2> SUFFICES ASSUME ~raced' PROVE MakerInv'
    BY DEF MakerInv
  <2>1. ~raced /\ (lock = None \/ lock.owner = r)
    BY <1>17 DEF UnlinkOwner
  <2>2. \A q \in Runs : ~Makes(q)
    BY <2>1, NamesAssumption DEF LockInv, MakerInv
  <2>3. CASE lock = None
    BY <1>17, <2>2, <2>3 DEF UnlinkOwner, MakerInv
  <2>4. CASE lock # None
    <3>1. lock' # None /\ lock'.owner = None
      BY <1>17, <2>4, NewLock DEF UnlinkOwner
    <3>2. \A q \in Runs : Makes(q)' => q = r
      BY <1>17, <2>2, <2>4 DEF UnlinkOwner
    <3> QED
      BY <3>1, <3>2 DEF MakerInv
  <2> QED
    BY <2>3, <2>4
<1>18. ASSUME NEW r \in Runs, RemoveLock(r) PROVE MakerInv'
  BY <1>18, NamesAssumption DEF RemoveLock, LockInv, MakerInv
<1>19. ASSUME NEW r \in Runs, Crash(r) PROVE MakerInv'
  BY <1>19, NamesAssumption DEF Crash, LockInv, MakerInv
<1>20. ASSUME NEW r \in Runs, Heartbeat(r) PROVE MakerInv'
  BY <1>20, NamesAssumption DEF Heartbeat, LockInv, MakerInv
<1>21. ASSUME LockAges PROVE MakerInv'
  BY <1>21, NamesAssumption DEF LockAges, LockInv, MakerInv
<1>22. ASSUME ReceiptAges PROVE MakerInv'
  BY <1>22, NamesAssumption DEF ReceiptAges, LockInv, MakerInv
<1>23. ASSUME Publish PROVE MakerInv'
  BY <1>23, NamesAssumption DEF Publish, LockInv, MakerInv
<1>24. ASSUME Edit PROVE MakerInv'
  BY <1>24, NamesAssumption DEF Edit, LockInv, MakerInv
<1>25. UNCHANGED vars => MakerInv'
  BY DEF vars, LockInv, MakerInv
<1> QED
  BY <1>1, <1>2, <1>3, <1>4, <1>5, <1>6, <1>7, <1>8, <1>9, <1>10, <1>11, <1>12,
     <1>13, <1>14, <1>15, <1>16, <1>17, <1>18, <1>19, <1>20, <1>21, <1>22, <1>23,
     <1>24, <1>25 DEF Next, Step

\* The holder is the owner.
LEMMA HolderNext ==
  ASSUME TypeInv, LockInv, [Next]_vars
  PROVE  HolderInv'
<1> USE DEF Goto, Fault, Forget, NoNews, Exit, Start, run, applied, history, world,
            TypeInv, TypeOK, Lock, Makes, Holds, Held, Installing, Pinnable
<1>1. ASSUME NEW r \in Runs, Pin(r) PROVE HolderInv'
  BY <1>1, NamesAssumption DEF Pin, LockInv, HolderInv, PinnedInv, JudgedInv, MakerInv
<1>2. ASSUME NEW r \in Runs, Check(r) PROVE HolderInv'
  BY <1>2, NamesAssumption DEF Check, LockInv, HolderInv, PinnedInv, JudgedInv, MakerInv
<1>3. ASSUME NEW r \in Runs, Acquire(r) PROVE HolderInv'
  BY <1>3, NamesAssumption DEF Acquire, LockInv, HolderInv, PinnedInv, JudgedInv, MakerInv
<1>4. ASSUME NEW r \in Runs, Retire(r) PROVE HolderInv'
  <2> SUFFICES ASSUME ~raced' /\ ~stalled' PROVE \A q \in Runs : ~Holds(q)'
    BY <1>4 DEF Retire, HolderInv
  <2>1. ~raced /\ ~stalled /\ (lock = None \/ lock = judged[r])
    BY <1>4 DEF Retire
  <2>2. lock # None => lock.owner = Dead
    BY <2>1 DEF LockInv, JudgedInv, HolderInv
  <2>3. \A q \in Runs : ~Holds(q)
    BY <2>1, <2>2, NamesAssumption DEF LockInv, HolderInv
  <2> QED
    BY <1>4, <2>3 DEF Retire
<1>5. ASSUME NEW r \in Runs, Remake(r) PROVE HolderInv'
  BY <1>5, NamesAssumption DEF Remake, LockInv, HolderInv, PinnedInv, JudgedInv, MakerInv
<1>6. ASSUME NEW r \in Runs, WriteOwner(r) PROVE HolderInv'
  <2> SUFFICES ASSUME ~raced' /\ ~stalled' PROVE HolderInv'
    BY DEF HolderInv
  <2>1. ~raced /\ ~stalled /\ Makes(r)
    BY <1>6 DEF WriteOwner
  <2>2. lock # None /\ lock.owner = None
    BY <2>1 DEF LockInv, MakerInv
  <2>3. lock' = [owner |-> r, old |-> FALSE] /\ r # None
    BY <1>6, <2>2, NamesAssumption DEF WriteOwner
  <2>4. \A q \in Runs : ~Holds(q)
    BY <2>1, <2>2, NamesAssumption DEF LockInv, HolderInv
  <2>5. \A q \in Runs : Holds(q)' => q = r
    BY <1>6, <2>2, <2>4 DEF WriteOwner
  <2>6. lock' # None
    BY <2>3, NewLock
  <2> QED
    BY <2>3, <2>5, <2>6 DEF HolderInv
<1>7. ASSUME NEW r \in Runs, Wait(r) PROVE HolderInv'
  BY <1>7, NamesAssumption DEF Wait, LockInv, HolderInv, PinnedInv, JudgedInv, MakerInv
<1>8. ASSUME NEW r \in Runs, Resolve(r) PROVE HolderInv'
  BY <1>8, NamesAssumption DEF Resolve, LockInv, HolderInv, PinnedInv, JudgedInv, MakerInv
<1>9. ASSUME NEW r \in Runs, Fetch(r) PROVE HolderInv'
  BY <1>9, NamesAssumption DEF Fetch, LockInv, HolderInv, PinnedInv, JudgedInv, MakerInv
<1>10. ASSUME NEW r \in Runs, Place(r) PROVE HolderInv'
  BY <1>10, NamesAssumption DEF Place, LockInv, HolderInv, PinnedInv, JudgedInv, MakerInv
<1>11. ASSUME NEW r \in Runs, Prune(r) PROVE HolderInv'
  BY <1>11, NamesAssumption DEF Prune, LockInv, HolderInv, PinnedInv, JudgedInv, MakerInv
<1>12. ASSUME NEW r \in Runs, Project(r) PROVE HolderInv'
  BY <1>12, NamesAssumption DEF Project, LockInv, HolderInv, PinnedInv, JudgedInv, MakerInv
<1>13. ASSUME NEW r \in Runs, WriteFiles(r) PROVE HolderInv'
  BY <1>13, NamesAssumption DEF WriteFiles, LockInv, HolderInv, PinnedInv, JudgedInv, MakerInv
<1>14. ASSUME NEW r \in Runs, WriteManifest(r) PROVE HolderInv'
  BY <1>14, NamesAssumption DEF WriteManifest, LockInv, HolderInv, PinnedInv, JudgedInv, MakerInv
<1>15. ASSUME NEW r \in Runs, WriteReceipt(r) PROVE HolderInv'
  BY <1>15, NamesAssumption DEF WriteReceipt, LockInv, HolderInv, PinnedInv, JudgedInv, MakerInv
<1>16. ASSUME NEW r \in Runs, Unlock(r) PROVE HolderInv'
  BY <1>16, NamesAssumption DEF Unlock, LockInv, HolderInv, PinnedInv, JudgedInv, MakerInv
<1>17. ASSUME NEW r \in Runs, UnlinkOwner(r) PROVE HolderInv'
  BY <1>17, NamesAssumption DEF UnlinkOwner, LockInv, HolderInv, PinnedInv, JudgedInv, MakerInv
<1>18. ASSUME NEW r \in Runs, RemoveLock(r) PROVE HolderInv'
  BY <1>18, NamesAssumption DEF RemoveLock, LockInv, HolderInv, PinnedInv, JudgedInv, MakerInv
<1>19. ASSUME NEW r \in Runs, Crash(r) PROVE HolderInv'
  BY <1>19, NamesAssumption DEF Crash, LockInv, HolderInv, PinnedInv, JudgedInv, MakerInv
<1>20. ASSUME NEW r \in Runs, Heartbeat(r) PROVE HolderInv'
  BY <1>20, NamesAssumption DEF Heartbeat, LockInv, HolderInv, PinnedInv, JudgedInv, MakerInv
<1>21. ASSUME LockAges PROVE HolderInv'
  BY <1>21, NamesAssumption DEF LockAges, LockInv, HolderInv, PinnedInv, JudgedInv, MakerInv
<1>22. ASSUME ReceiptAges PROVE HolderInv'
  BY <1>22, NamesAssumption DEF ReceiptAges, LockInv, HolderInv, PinnedInv, JudgedInv, MakerInv
<1>23. ASSUME Publish PROVE HolderInv'
  BY <1>23, NamesAssumption DEF Publish, LockInv, HolderInv, PinnedInv, JudgedInv, MakerInv
<1>24. ASSUME Edit PROVE HolderInv'
  BY <1>24, NamesAssumption DEF Edit, LockInv, HolderInv, PinnedInv, JudgedInv, MakerInv
<1>25. UNCHANGED vars => HolderInv'
  BY DEF vars, LockInv, HolderInv, PinnedInv, JudgedInv, MakerInv
<1> QED
  BY <1>1, <1>2, <1>3, <1>4, <1>5, <1>6, <1>7, <1>8, <1>9, <1>10, <1>11, <1>12,
     <1>13, <1>14, <1>15, <1>16, <1>17, <1>18, <1>19, <1>20, <1>21, <1>22, <1>23,
     <1>24, <1>25 DEF Next, Step

LEMMA LockNext ==
  ASSUME TypeInv, LockInv, [Next]_vars
  PROVE  LockInv'
BY PinnedNext, JudgedNext, UnsignedNext, MakerNext, HolderNext DEF LockInv

-----------------------------------------------------------------------------
(* What a run has confirmed *)

\* The receipt does not change under the lock.
LEMMA ConfirmedNext ==
  ASSUME TypeInv, LockInv, ConfirmedInv, [Next]_vars
  PROVE  ConfirmedInv'
<1> USE DEF Goto, Fault, Forget, NoNews, Exit, Start, run, applied, history, world,
            TypeInv, TypeOK, Makes, Holds, Held, Carrying, Installing, Pinnable,
            MaybePack, Receipt
<1>1. ASSUME NEW r \in Runs, Pin(r) PROVE ConfirmedInv'
  BY <1>1, NamesAssumption, PacksAssumption DEF Pin, ConfirmedInv, LockInv, HolderInv, MakerInv, PinnedInv
<1>2. ASSUME NEW r \in Runs, Check(r) PROVE ConfirmedInv'
  BY <1>2, NamesAssumption, PacksAssumption DEF Check, ConfirmedInv, LockInv, HolderInv, MakerInv, PinnedInv
<1>3. ASSUME NEW r \in Runs, Acquire(r) PROVE ConfirmedInv'
  BY <1>3, NamesAssumption, PacksAssumption DEF Acquire, ConfirmedInv, LockInv, HolderInv, MakerInv, PinnedInv
<1>4. ASSUME NEW r \in Runs, Retire(r) PROVE ConfirmedInv'
  BY <1>4, NamesAssumption, PacksAssumption DEF Retire, ConfirmedInv, LockInv, HolderInv, MakerInv, PinnedInv
<1>5. ASSUME NEW r \in Runs, Remake(r) PROVE ConfirmedInv'
  BY <1>5, NamesAssumption, PacksAssumption DEF Remake, ConfirmedInv, LockInv, HolderInv, MakerInv, PinnedInv
<1>6. ASSUME NEW r \in Runs, WriteOwner(r) PROVE ConfirmedInv'
  BY <1>6, NamesAssumption, PacksAssumption DEF WriteOwner, ConfirmedInv, LockInv, HolderInv, MakerInv, PinnedInv
<1>7. ASSUME NEW r \in Runs, Wait(r) PROVE ConfirmedInv'
  BY <1>7, NamesAssumption, PacksAssumption DEF Wait, ConfirmedInv, LockInv, HolderInv, MakerInv, PinnedInv
<1>8. ASSUME NEW r \in Runs, Resolve(r) PROVE ConfirmedInv'
  BY <1>8, NamesAssumption, PacksAssumption DEF Resolve, ConfirmedInv, LockInv, HolderInv, MakerInv, PinnedInv
<1>9. ASSUME NEW r \in Runs, Fetch(r) PROVE ConfirmedInv'
  BY <1>9, NamesAssumption, PacksAssumption DEF Fetch, ConfirmedInv, LockInv, HolderInv, MakerInv, PinnedInv
<1>10. ASSUME NEW r \in Runs, Place(r) PROVE ConfirmedInv'
  BY <1>10, NamesAssumption, PacksAssumption DEF Place, ConfirmedInv, LockInv, HolderInv, MakerInv, PinnedInv
<1>11. ASSUME NEW r \in Runs, Prune(r) PROVE ConfirmedInv'
  BY <1>11, NamesAssumption, PacksAssumption DEF Prune, ConfirmedInv, LockInv, HolderInv, MakerInv, PinnedInv
<1>12. ASSUME NEW r \in Runs, Project(r) PROVE ConfirmedInv'
  BY <1>12, NamesAssumption, PacksAssumption DEF Project, ConfirmedInv, LockInv, HolderInv, MakerInv, PinnedInv
<1>13. ASSUME NEW r \in Runs, WriteFiles(r) PROVE ConfirmedInv'
  BY <1>13, NamesAssumption, PacksAssumption DEF WriteFiles, ConfirmedInv, LockInv, HolderInv, MakerInv, PinnedInv
<1>14. ASSUME NEW r \in Runs, WriteManifest(r) PROVE ConfirmedInv'
  BY <1>14, NamesAssumption, PacksAssumption DEF WriteManifest, ConfirmedInv, LockInv, HolderInv, MakerInv, PinnedInv
<1>15. ASSUME NEW r \in Runs, WriteReceipt(r) PROVE ConfirmedInv'
  BY <1>15, NamesAssumption, PacksAssumption DEF WriteReceipt, ConfirmedInv, LockInv, HolderInv, MakerInv, PinnedInv
<1>16. ASSUME NEW r \in Runs, Unlock(r) PROVE ConfirmedInv'
  BY <1>16, NamesAssumption, PacksAssumption DEF Unlock, ConfirmedInv, LockInv, HolderInv, MakerInv, PinnedInv
<1>17. ASSUME NEW r \in Runs, UnlinkOwner(r) PROVE ConfirmedInv'
  BY <1>17, NamesAssumption, PacksAssumption DEF UnlinkOwner, ConfirmedInv, LockInv, HolderInv, MakerInv, PinnedInv
<1>18. ASSUME NEW r \in Runs, RemoveLock(r) PROVE ConfirmedInv'
  BY <1>18, NamesAssumption, PacksAssumption DEF RemoveLock, ConfirmedInv, LockInv, HolderInv, MakerInv, PinnedInv
<1>19. ASSUME NEW r \in Runs, Crash(r) PROVE ConfirmedInv'
  BY <1>19, NamesAssumption, PacksAssumption DEF Crash, ConfirmedInv, LockInv, HolderInv, MakerInv, PinnedInv
<1>20. ASSUME NEW r \in Runs, Heartbeat(r) PROVE ConfirmedInv'
  BY <1>20, NamesAssumption, PacksAssumption DEF Heartbeat, ConfirmedInv, LockInv, HolderInv, MakerInv, PinnedInv
<1>21. ASSUME LockAges PROVE ConfirmedInv'
  BY <1>21, NamesAssumption, PacksAssumption DEF LockAges, ConfirmedInv, LockInv, HolderInv, MakerInv, PinnedInv
<1>22. ASSUME ReceiptAges PROVE ConfirmedInv'
  <2>1. receipt' \in Receipt /\ receipt'.pack = receipt.pack
    BY <1>22 DEF ReceiptAges, Receipt
  <2>2. receipt # None /\ receipt' # None
    BY <1>22, <2>1, NamesAssumption DEF ReceiptAges
  <2> QED
    BY <1>22, <2>1, <2>2 DEF ReceiptAges, ConfirmedInv, Holds
<1>23. ASSUME Publish PROVE ConfirmedInv'
  BY <1>23, NamesAssumption, PacksAssumption DEF Publish, ConfirmedInv, LockInv, HolderInv, MakerInv, PinnedInv
<1>24. ASSUME Edit PROVE ConfirmedInv'
  BY <1>24, NamesAssumption, PacksAssumption DEF Edit, ConfirmedInv, LockInv, HolderInv, MakerInv, PinnedInv
<1>25. UNCHANGED vars => ConfirmedInv'
  BY DEF vars, ConfirmedInv, LockInv, HolderInv, MakerInv, PinnedInv
<1> QED
  BY <1>1, <1>2, <1>3, <1>4, <1>5, <1>6, <1>7, <1>8, <1>9, <1>10, <1>11, <1>12,
     <1>13, <1>14, <1>15, <1>16, <1>17, <1>18, <1>19, <1>20, <1>21, <1>22, <1>23,
     <1>24, <1>25 DEF Next, Step

-----------------------------------------------------------------------------
(* Where the files come from *)

\* Every file is the record's, a run's or a failed run's.
LEMMA OriginNext ==
  ASSUME TypeInv, OriginInv, [Next]_vars
  PROVE  OriginInv'
<1> USE DEF Goto, Fault, Forget, NoNews, Exit, Start, run, applied, history, world,
            TypeInv, TypeOK, Busy, Installing, Overlap, Unfinished, Turn
<1>1. ASSUME NEW r \in Runs, Pin(r) PROVE OriginInv'
  BY <1>1, NamesAssumption DEF Pin, OriginInv
<1>2. ASSUME NEW r \in Runs, Check(r) PROVE OriginInv'
  BY <1>2, NamesAssumption DEF Check, OriginInv
<1>3. ASSUME NEW r \in Runs, Acquire(r) PROVE OriginInv'
  BY <1>3, NamesAssumption DEF Acquire, OriginInv
<1>4. ASSUME NEW r \in Runs, Retire(r) PROVE OriginInv'
  BY <1>4, NamesAssumption DEF Retire, OriginInv
<1>5. ASSUME NEW r \in Runs, Remake(r) PROVE OriginInv'
  BY <1>5, NamesAssumption DEF Remake, OriginInv
<1>6. ASSUME NEW r \in Runs, WriteOwner(r) PROVE OriginInv'
  BY <1>6, NamesAssumption DEF WriteOwner, OriginInv
<1>7. ASSUME NEW r \in Runs, Wait(r) PROVE OriginInv'
  BY <1>7, NamesAssumption DEF Wait, OriginInv
<1>8. ASSUME NEW r \in Runs, Resolve(r) PROVE OriginInv'
  <2> SUFFICES ASSUME ~mixed' PROVE OriginInv'
    BY DEF OriginInv
  <2>1. UNCHANGED <<tree, files, stray>>
    BY <1>8 DEF Resolve
  <2>2. ~mixed
    BY <1>8 DEF Resolve
  <2>3. PICK to \in {"idle", "unlock", "receipt", "fetch"} :
          /\ pc' = [pc EXCEPT ![r] = to] /\ pc[r] = "resolve"
          /\ to = "receipt" => Busy \ {r} = {}
    BY <1>8 DEF Resolve
  <2>4. \A q \in Busy' : q \in Busy \/ (q = r /\ pc'[r] = "receipt")
    BY <2>3
  <2>5. \A p, q \in Busy' : p = q
    BY <2>2, <2>3, <2>4 DEF OriginInv
  <2>6. \A q \in Runs \ {r} : target'[q] = target[q] /\ pc'[q] = pc[q]
    BY <1>8 DEF Resolve
  <2>7. pc'[r] \notin {"place", "project", "files"} /\ pc[r] \notin {"place", "project", "files"}
    BY <2>3
  <2> QED
    BY <2>1, <2>2, <2>5, <2>6, <2>7 DEF OriginInv, Owned
<1>9. ASSUME NEW r \in Runs, Fetch(r) PROVE OriginInv'
  <2> SUFFICES ASSUME ~mixed' PROVE OriginInv'
    BY DEF OriginInv
  <2>1. UNCHANGED <<tree, files, stray>> /\ ~mixed
    BY <1>9 DEF Fetch
  <2>2. PICK to \in {"idle", "unlock", "place"} :
          /\ pc' = [pc EXCEPT ![r] = to] /\ pc[r] = "fetch"
          /\ to = "place" => Busy \ {r} = {}
    BY <1>9 DEF Fetch
  <2>3. \A q \in Runs \ {r} : target'[q] = target[q] /\ pc'[q] = pc[q]
    BY <1>9 DEF Fetch
  <2>4. \A p, q \in Busy' : p = q
    BY <2>1, <2>2 DEF OriginInv
  <2>5. CASE to = "place"
    <3>1. \A q \in Runs : pc[q] \notin {"place", "project", "files"}
      BY <2>2, <2>5
    <3>2. \A f \in Files : tree[f] # None => f \in stray \cup Owned(files)
      BY <2>1, <3>1 DEF OriginInv
    <3>3. \A q \in Runs : pc'[q] \notin {"project", "files"}
      BY <2>2, <2>5, <3>1
    <3> QED
      BY <2>1, <2>4, <3>2, <3>3 DEF OriginInv, Owned
  <2>6. CASE to # "place"
    <3>1. pc'[r] \notin {"place", "project", "files"} /\ pc[r] \notin {"place", "project", "files"}
      BY <2>2, <2>6
    <3> QED
      BY <2>1, <2>3, <2>4, <3>1 DEF OriginInv, Owned
  <2> QED
    BY <2>5, <2>6
<1>10. ASSUME NEW r \in Runs, Place(r) PROVE OriginInv'
  BY <1>10, NamesAssumption DEF Place, OriginInv
<1>11. ASSUME NEW r \in Runs, Prune(r) PROVE OriginInv'
  BY <1>11, NamesAssumption DEF Prune, OriginInv
<1>12. ASSUME NEW r \in Runs, Project(r) PROVE OriginInv'
  BY <1>12, NamesAssumption DEF Project, OriginInv
<1>13. ASSUME NEW r \in Runs, WriteFiles(r) PROVE OriginInv'
  BY <1>13, NamesAssumption DEF WriteFiles, OriginInv
<1>14. ASSUME NEW r \in Runs, WriteManifest(r) PROVE OriginInv'
  BY <1>14, NamesAssumption DEF WriteManifest, OriginInv
<1>15. ASSUME NEW r \in Runs, WriteReceipt(r) PROVE OriginInv'
  BY <1>15, NamesAssumption DEF WriteReceipt, OriginInv
<1>16. ASSUME NEW r \in Runs, Unlock(r) PROVE OriginInv'
  BY <1>16, NamesAssumption DEF Unlock, OriginInv
<1>17. ASSUME NEW r \in Runs, UnlinkOwner(r) PROVE OriginInv'
  BY <1>17, NamesAssumption DEF UnlinkOwner, OriginInv
<1>18. ASSUME NEW r \in Runs, RemoveLock(r) PROVE OriginInv'
  BY <1>18, NamesAssumption DEF RemoveLock, OriginInv
<1>19. ASSUME NEW r \in Runs, Crash(r) PROVE OriginInv'
  BY <1>19, NamesAssumption DEF Crash, OriginInv
<1>20. ASSUME NEW r \in Runs, Heartbeat(r) PROVE OriginInv'
  BY <1>20, NamesAssumption DEF Heartbeat, OriginInv
<1>21. ASSUME LockAges PROVE OriginInv'
  BY <1>21, NamesAssumption DEF LockAges, OriginInv
<1>22. ASSUME ReceiptAges PROVE OriginInv'
  BY <1>22, NamesAssumption DEF ReceiptAges, OriginInv
<1>23. ASSUME Publish PROVE OriginInv'
  BY <1>23, NamesAssumption DEF Publish, OriginInv
<1>24. ASSUME Edit PROVE OriginInv'
  BY <1>24, NamesAssumption DEF Edit, OriginInv
<1>25. UNCHANGED vars => OriginInv'
  BY DEF vars, OriginInv
<1> QED
  BY <1>1, <1>2, <1>3, <1>4, <1>5, <1>6, <1>7, <1>8, <1>9, <1>10, <1>11, <1>12,
     <1>13, <1>14, <1>15, <1>16, <1>17, <1>18, <1>19, <1>20, <1>21, <1>22, <1>23,
     <1>24, <1>25 DEF Next, Step

\* A run that installs alone has what it has placed.
LEMMA VouchNext ==
  ASSUME TypeInv, OriginInv, VouchInv, [Next]_vars
  PROVE  VouchInv'
<1> USE DEF Goto, Fault, Forget, NoNews, Exit, Start, run, applied, history, world,
            TypeInv, TypeOK, Busy, Installing, Overlap, Unfinished, Turn, Owned,
            Installed
<1>1. ASSUME NEW r \in Runs, Pin(r) PROVE VouchInv'
  BY <1>1, NamesAssumption DEF Pin, VouchInv, OriginInv
<1>2. ASSUME NEW r \in Runs, Check(r) PROVE VouchInv'
  BY <1>2, NamesAssumption DEF Check, VouchInv, OriginInv
<1>3. ASSUME NEW r \in Runs, Acquire(r) PROVE VouchInv'
  BY <1>3, NamesAssumption DEF Acquire, VouchInv, OriginInv
<1>4. ASSUME NEW r \in Runs, Retire(r) PROVE VouchInv'
  BY <1>4, NamesAssumption DEF Retire, VouchInv, OriginInv
<1>5. ASSUME NEW r \in Runs, Remake(r) PROVE VouchInv'
  BY <1>5, NamesAssumption DEF Remake, VouchInv, OriginInv
<1>6. ASSUME NEW r \in Runs, WriteOwner(r) PROVE VouchInv'
  BY <1>6, NamesAssumption DEF WriteOwner, VouchInv, OriginInv
<1>7. ASSUME NEW r \in Runs, Wait(r) PROVE VouchInv'
  BY <1>7, NamesAssumption DEF Wait, VouchInv, OriginInv
<1>8. ASSUME NEW r \in Runs, Resolve(r) PROVE VouchInv'
  <2> SUFFICES ASSUME ~mixed' PROVE VouchInv'
    BY DEF VouchInv
  <2>1. UNCHANGED <<tree, ref, manifest>> /\ ~mixed
    BY <1>8 DEF Resolve
  <2>2. \A q \in Runs \ {r} : target'[q] = target[q] /\ todo'[q] = todo[q] /\ pc'[q] = pc[q]
    BY <1>8 DEF Resolve
  <2>3. pc'[r] \notin {"place", "project", "files", "manifest"}
    BY <1>8 DEF Resolve
  <2>4. ASSUME pc'[r] = "receipt" PROVE target'[r] = GreenPack /\ Complete(GreenPack)
    BY <1>8, <2>4 DEF Resolve
  <2>5. pc'[r] = "receipt" => ref = target'[r] /\ (Installed(target'[r]) \/ manifest # target'[r])
    BY <2>4 DEF Complete
  <2> QED
    BY <2>1, <2>2, <2>3, <2>5 DEF VouchInv
<1>9. ASSUME NEW r \in Runs, Fetch(r) PROVE VouchInv'
  BY <1>9, NamesAssumption DEF Fetch, VouchInv, OriginInv
<1>10. ASSUME NEW r \in Runs, Place(r) PROVE VouchInv'
  BY <1>10, NamesAssumption DEF Place, VouchInv, OriginInv
<1>11. ASSUME NEW r \in Runs, Prune(r) PROVE VouchInv'
  <2> SUFFICES ASSUME ~mixed' PROVE VouchInv'
    BY DEF VouchInv
  <2>1. UNCHANGED <<target, todo, ref, manifest>> /\ ~mixed
    BY <1>11 DEF Prune
  <2>2. pc[r] = "place" /\ todo[r] = {} /\ pc' = [pc EXCEPT ![r] = "project"]
    BY <1>11 DEF Prune
  <2>3. \A q \in Runs \ {r} : pc[q] \notin Installing \cup {"receipt"}
    BY <2>1, <2>2 DEF OriginInv
  <2>4. Owned(target[r]) \subseteq Files
    BY <2>2, OwnedTypes DEF Carrying
  <2>5. \A f \in Owned(target[r]) : tree'[f] = tree[f]
    BY <1>11, <2>4 DEF Prune
  <2>6. \A f \in Owned(target[r]) : tree'[f] = Content[target[r]][f]
    BY <2>1, <2>2, <2>5 DEF VouchInv
  <2> QED
    BY <2>1, <2>2, <2>3, <2>6 DEF VouchInv
<1>12. ASSUME NEW r \in Runs, Project(r) PROVE VouchInv'
  BY <1>12, NamesAssumption DEF Project, VouchInv, OriginInv
<1>13. ASSUME NEW r \in Runs, WriteFiles(r) PROVE VouchInv'
  BY <1>13, NamesAssumption DEF WriteFiles, VouchInv, OriginInv
<1>14. ASSUME NEW r \in Runs, WriteManifest(r) PROVE VouchInv'
  BY <1>14, NamesAssumption DEF WriteManifest, VouchInv, OriginInv
<1>15. ASSUME NEW r \in Runs, WriteReceipt(r) PROVE VouchInv'
  BY <1>15, NamesAssumption DEF WriteReceipt, VouchInv, OriginInv
<1>16. ASSUME NEW r \in Runs, Unlock(r) PROVE VouchInv'
  BY <1>16, NamesAssumption DEF Unlock, VouchInv, OriginInv
<1>17. ASSUME NEW r \in Runs, UnlinkOwner(r) PROVE VouchInv'
  BY <1>17, NamesAssumption DEF UnlinkOwner, VouchInv, OriginInv
<1>18. ASSUME NEW r \in Runs, RemoveLock(r) PROVE VouchInv'
  BY <1>18, NamesAssumption DEF RemoveLock, VouchInv, OriginInv
<1>19. ASSUME NEW r \in Runs, Crash(r) PROVE VouchInv'
  BY <1>19, NamesAssumption DEF Crash, VouchInv, OriginInv
<1>20. ASSUME NEW r \in Runs, Heartbeat(r) PROVE VouchInv'
  BY <1>20, NamesAssumption DEF Heartbeat, VouchInv, OriginInv
<1>21. ASSUME LockAges PROVE VouchInv'
  BY <1>21, NamesAssumption DEF LockAges, VouchInv, OriginInv
<1>22. ASSUME ReceiptAges PROVE VouchInv'
  BY <1>22, NamesAssumption DEF ReceiptAges, VouchInv, OriginInv
<1>23. ASSUME Publish PROVE VouchInv'
  BY <1>23, NamesAssumption DEF Publish, VouchInv, OriginInv
<1>24. ASSUME Edit PROVE VouchInv'
  BY <1>24, NamesAssumption DEF Edit, VouchInv, OriginInv
<1>25. UNCHANGED vars => VouchInv'
  BY DEF vars, VouchInv, OriginInv
<1> QED
  BY <1>1, <1>2, <1>3, <1>4, <1>5, <1>6, <1>7, <1>8, <1>9, <1>10, <1>11, <1>12,
     <1>13, <1>14, <1>15, <1>16, <1>17, <1>18, <1>19, <1>20, <1>21, <1>22, <1>23,
     <1>24, <1>25 DEF Next, Step

-----------------------------------------------------------------------------
(* The theorems *)

IInv == TypeInv /\ LockInv /\ ConfirmedInv /\ OriginInv /\ VouchInv

LEMMA InitInv == Init => IInv
<1> SUFFICES ASSUME Init PROVE IInv
  OBVIOUS
<1>1. TypeInv
  BY InitTypes
<1>2. \A r \in Runs : pc[r] = "idle" /\ mode[r] = "none" /\ judged[r] = None
  BY DEF Init
<1>3. LockInv
  BY <1>2 DEF Init, LockInv, PinnedInv, JudgedInv, UnsignedInv, MakerInv, HolderInv, Makes,
              Holds, Held, Installing
<1>4. ConfirmedInv
  BY <1>2 DEF ConfirmedInv, Holds, Held, Installing
<1>5. OriginInv /\ VouchInv
  BY <1>2 DEF Init, OriginInv, VouchInv, Busy, Installing
<1> QED
  BY <1>1, <1>3, <1>4, <1>5 DEF IInv

\* The five parts of the invariant, together, are inductive: for any runs, files, packs,
\* contents and orders of names.
THEOREM Inductive == Spec => []IInv
<1>1. IInv /\ [Next]_vars => IInv'
  BY NextTypes, LockNext, ConfirmedNext, OriginNext, VouchNext DEF IInv
<1> QED
  BY InitInv, <1>1, PTL DEF Spec

\* Type correctness.
THEOREM TypeCorrect == Spec => []TypeOK
<1>1. IInv => TypeOK
  BY DEF IInv, TypeInv
<1> QED
  BY <1>1, Inductive, PTL

\* However many commands overlap, those that take the lock install one after the other, as
\* long as no live holder stops for ten minutes and no takeovers of one dead lock cross.
THEOREM InstallersAlternate == Spec => []OneInstaller
<1>1. IInv => OneInstaller
  BY DEF IInv, LockInv, HolderInv, OneInstaller, Holds, Held
<1> QED
  BY <1>1, Inductive, PTL

\* A holder that lives is robbed of its lock only when that had grown old, or by a run that
\* had looked at another lock.
THEOREM HoldersKeepLocks == Spec => LocksKept
<1> USE DEF Goto, run, applied, history, world
<1>1. ASSUME IInv, Next, NEW r \in Runs, lock # None, lock.owner = r, pc[r] \in Held,
             pc'[r] \in Held, ~lock.old, ~raced'
      PROVE  lock' # None /\ lock'.owner = r
  <2> USE <1>1 DEF IInv
  <2>1. r # None /\ r # Dead
    BY NamesAssumption
  <2>3. CASE UNCHANGED lock
    BY <2>3
  <2>4. ASSUME NEW q \in Runs, Acquire(q) \/ Remake(q) \/ RemoveLock(q) PROVE UNCHANGED lock
    BY <2>1, <2>4 DEF Acquire, Remake, RemoveLock
  <2>5. ASSUME NEW q \in Runs, Retire(q) PROVE FALSE
    <3>1. lock = judged[q]
      BY <2>5 DEF Retire
    <3> QED
      BY <3>1 DEF LockInv, JudgedInv
  <2>6. ASSUME NEW q \in Runs, WriteOwner(q) PROVE FALSE
    <3>1. ~raced /\ Makes(q)
      BY <2>6 DEF WriteOwner, Makes
    <3> QED
      BY <2>1, <3>1 DEF LockInv, MakerInv
  <2>7. ASSUME NEW q \in Runs, UnlinkOwner(q) PROVE FALSE
    <3>1. q = r
      BY <2>7 DEF UnlinkOwner
    <3>2. pc'[r] = "rmdir"
      BY <2>7, <3>1 DEF UnlinkOwner, TypeInv, TypeOK
    <3> QED
      BY <3>2 DEF Held, Installing
  <2>8. ASSUME NEW q \in Runs, Crash(q) PROVE UNCHANGED lock
    <3>1. q # r
      BY <2>8 DEF Crash, TypeInv, TypeOK, Held, Installing
    <3> QED
      BY <2>8, <3>1 DEF Crash
  <2>9. ASSUME LockAges \/ \E q \in Runs : Heartbeat(q) PROVE lock' # None /\ lock'.owner = r
    <3>1. lock \in Lock
      BY DEF TypeInv, TypeOK
    <3>2. lock' \in Lock /\ lock'.owner = lock.owner
      BY <2>9, <3>1 DEF LockAges, Heartbeat, Lock
    <3> QED
      BY <3>2, NamesAssumption
  <2>10. ASSUME NEW q \in Runs,
                Pin(q) \/ Check(q) \/ Wait(q) \/ Resolve(q) \/ Fetch(q) \/ Place(q) \/ Prune(q)
         PROVE UNCHANGED lock
    BY <2>10 DEF Pin, Check, Start, Wait, Resolve, Fetch, Place, Prune
  <2>11. ASSUME NEW q \in Runs,
                Project(q) \/ WriteFiles(q) \/ WriteManifest(q) \/ WriteReceipt(q) \/ Unlock(q)
         PROVE UNCHANGED lock
    BY <2>11 DEF Project, WriteFiles, WriteManifest, WriteReceipt, Unlock
  <2>12. ASSUME ReceiptAges \/ Publish \/ Edit PROVE UNCHANGED lock
    BY <2>12 DEF ReceiptAges, Publish, Edit
  <2> QED
    BY <2>3, <2>4, <2>5, <2>6, <2>7, <2>8, <2>9, <2>10, <2>11, <2>12
       DEF Next, Step
<1>2. IInv /\ [Next]_vars =>
        [\A r \in Runs :
           lock # None /\ lock.owner = r /\ pc[r] \in Held /\ pc'[r] \in Held =>
             (lock' # None /\ lock'.owner = r) \/ lock.old \/ raced']_vars
  BY <1>1 DEF vars
<1> QED
  BY <1>2, Inductive, PTL DEF Spec, LocksKept

\* Once a pack has been confirmed no older one is, with the same exceptions.
THEOREM NoPackIsRolledBack == Spec => NoRollback
<1>1. ASSUME IInv, [Next]_vars, ~raced', ~stalled', receipt # None, receipt' # None
      PROVE  receipt'.pack >= receipt.pack
  <2> USE <1>1 DEF IInv
  <2>1. receipt \in Receipt /\ receipt.pack \in Nat
    BY PacksAssumption DEF TypeInv, TypeOK, Receipt
  <2>2. CASE UNCHANGED receipt
    BY <2>1, <2>2
  <2>3. ASSUME NEW r \in Runs, WriteReceipt(r) PROVE receipt'.pack >= receipt.pack
    <3>1. Holds(r) /\ pc[r] \in Carrying /\ ~raced /\ ~stalled
      BY <2>3 DEF WriteReceipt, Goto, history, Holds, Held, Carrying, LockInv, PinnedInv, Pinnable
    <3>2. target[r] >= receipt.pack
      BY <3>1 DEF ConfirmedInv
    <3> QED
      BY <2>3, <3>2 DEF WriteReceipt
  <2>4. ASSUME ReceiptAges PROVE receipt'.pack >= receipt.pack
    <3>1. receipt'.pack = receipt.pack
      BY <2>1, <2>4 DEF ReceiptAges, Receipt
    <3> QED
      BY <2>1, <3>1
  <2>5. ASSUME NEW r \in Runs,
               \/ Pin(r) \/ Check(r) \/ Acquire(r) \/ Retire(r) \/ Remake(r) \/ WriteOwner(r)
               \/ Wait(r) \/ Resolve(r) \/ Fetch(r) \/ Place(r)
        PROVE  UNCHANGED receipt
    BY <2>5 DEF Pin, Check, Start, Acquire, Retire, Remake, WriteOwner, Wait, Resolve, Fetch, Place
  <2>6. ASSUME NEW r \in Runs,
               \/ Prune(r) \/ Project(r) \/ WriteFiles(r) \/ WriteManifest(r)
               \/ Unlock(r) \/ UnlinkOwner(r) \/ RemoveLock(r) \/ Crash(r) \/ Heartbeat(r)
        PROVE  UNCHANGED receipt
    BY <2>6 DEF Prune, Project, WriteFiles, WriteManifest, Unlock, UnlinkOwner, RemoveLock,
                Crash, Heartbeat
  <2>7. ASSUME LockAges \/ Publish \/ Edit PROVE UNCHANGED receipt
    BY <2>7 DEF LockAges, Publish, Edit
  <2> QED
    BY <2>2, <2>3, <2>4, <2>5, <2>6, <2>7 DEF Next, Step, vars
<1>2. IInv /\ [Next]_vars =>
        [~raced' /\ ~stalled' /\ receipt # None /\ receipt' # None
           => receipt'.pack >= receipt.pack]_vars
  BY <1>1
<1> QED
  BY <1>2, Inductive, PTL DEF Spec, NoRollback

\* Between installations every file of the payload belongs to the recorded pack, or was left
\* by an installation that failed, unless installations overlapped.
THEOREM NoFileIsOrphaned == Spec => []NoOrphans
<1>1. IInv => NoOrphans
  <2> SUFFICES ASSUME IInv, Busy = {}, ~mixed, NEW f \in Files, tree[f] # None
               PROVE  f \in Owned(files) \cup stray
    BY DEF NoOrphans
  <2>1. \A r \in Runs : pc[r] \notin {"place", "project", "files"}
    BY DEF Busy, Installing
  <2> QED
    BY <2>1 DEF IInv, OriginInv
<1> QED
  BY <1>1, Inductive, PTL

\* What a receipt says was installed was, unless installations overlapped or a run had died
\* between the records.
THEOREM ReceiptsVouch == Spec => ReceiptVouches
<1>1. ASSUME IInv, Next, ~mixed', NEW r \in Runs, pc[r] = "receipt", pc'[r] = "unlock"
      PROVE  /\ ref = receipt'.pack
             /\ Installed(receipt'.pack) \/ manifest # receipt'.pack
  <2> USE <1>1 DEF IInv, TypeInv, TypeOK, Goto
  <2>1. ASSUME WriteReceipt(r) PROVE receipt'.pack = target[r] /\ ~mixed
    BY <2>1 DEF WriteReceipt, history
  <2>2. WriteReceipt(r)
    <3>1. ASSUME NEW q \in Runs, Step(q), q # r PROVE FALSE
      BY <3>1 DEF Step, Pin, Check, Acquire, Retire, Remake, WriteOwner, Wait, Resolve, Fetch, Place,
                  Prune, Project, WriteFiles, WriteManifest, WriteReceipt, Unlock, UnlinkOwner,
                  RemoveLock, Exit
    <3>2. ASSUME Step(r) PROVE WriteReceipt(r)
      BY <3>2 DEF Step, Pin, Check, Acquire, Retire, Remake, WriteOwner, Wait, Resolve, Fetch, Place,
                  Prune, Project, WriteFiles, WriteManifest, WriteReceipt, Unlock, UnlinkOwner,
                  RemoveLock, Exit
    <3>3. ASSUME NEW q \in Runs, Crash(q) \/ Heartbeat(q) PROVE FALSE
      BY <3>3 DEF Crash, Heartbeat
    <3>4. ASSUME LockAges \/ ReceiptAges \/ Publish \/ Edit PROVE FALSE
      BY <3>4 DEF LockAges, ReceiptAges, Publish, Edit
    <3> QED
      BY <3>1, <3>2, <3>3, <3>4 DEF Next
  <2> QED
    BY <2>1, <2>2 DEF VouchInv
<1>2. IInv /\ [Next]_vars =>
        [(\E r \in Runs : pc[r] = "receipt" /\ pc'[r] = "unlock") /\ ~mixed' =>
           /\ ref = receipt'.pack
           /\ Installed(receipt'.pack) \/ manifest # receipt'.pack]_vars
  BY <1>1
<1> QED
  BY <1>2, Inductive, PTL DEF Spec, ReceiptVouches

=============================================================================
