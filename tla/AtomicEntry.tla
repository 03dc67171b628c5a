----------------------------- MODULE AtomicEntry -----------------------------
(***************************************************************************)
(* What an extraction cache promises its loaders, whatever its file        *)
(* protocol is: the cache entry is one cell.  A loader replaces it by the  *)
(* whole library in one step, or finds it whole, and only then loads it.   *)
(* The cell is never half-written.  The world around the cache may damage  *)
(* or evict the entry at any time, so a loader may still load a damaged    *)
(* entry, but only one that was damaged after that loader had become ready *)
(* -- which is what "re-verified before it is used" buys and no more.      *)
(***************************************************************************)
CONSTANT Loaders      \* the loading processes

VARIABLES
  entry,    \* the cell: "absent", "whole" or "damaged"
  phase,    \* per loader: "idle", "busy", "ready", "loaded" or "fallback"
  got       \* per loader: the content it loaded, "none" before that

vars == <<entry, phase, got>>

Content == {"whole", "damaged"}
Phase == {"idle", "busy", "ready", "loaded", "fallback"}

Init ==
  /\ entry \in Content \cup {"absent"}
  /\ phase = [l \in Loaders |-> "idle"]
  /\ got = [l \in Loaders |-> "none"]

Begin(l) ==
  /\ phase[l] = "idle"
  /\ phase' = [phase EXCEPT ![l] = "busy"]
  /\ UNCHANGED <<entry, got>>

\* The loader opens the entry and finds it whole.
Verify(l) ==
  /\ phase[l] = "busy"
  /\ entry = "whole"
  /\ phase' = [phase EXCEPT ![l] = "ready"]
  /\ UNCHANGED <<entry, got>>

\* The loader replaces whatever is there by the whole library.  It may use its own
\* file as it is, or verify it like any other.
Publish(l) ==
  /\ phase[l] = "busy"
  /\ entry' = "whole"
  /\ \E next \in {"busy", "ready"} : phase' = [phase EXCEPT ![l] = next]
  /\ UNCHANGED got

\* The loader could not finish reading what it had found: back to the start.
Doubt(l) ==
  /\ phase[l] = "ready"
  /\ phase' = [phase EXCEPT ![l] = "busy"]
  /\ UNCHANGED <<entry, got>>

Load(l) ==
  /\ phase[l] = "ready"
  /\ entry \in Content
  /\ phase' = [phase EXCEPT ![l] = "loaded"]
  /\ got' = [got EXCEPT ![l] = entry]
  /\ UNCHANGED entry

\* Any failure: the loader carries on without the library.
FallBack(l) ==
  /\ phase[l] \in {"idle", "busy", "ready"}
  /\ phase' = [phase EXCEPT ![l] = "fallback"]
  /\ UNCHANGED <<entry, got>>

\* Processes end, one by one or all together.
End(S) ==
  /\ phase' = [l \in Loaders |-> IF l \in S THEN "idle" ELSE phase[l]]
  /\ got' = [l \in Loaders |-> IF l \in S THEN "none" ELSE got[l]]
  /\ UNCHANGED entry

\* The entry is damaged.  Loaders that are still reading it notice.
Damage(S) ==
  /\ entry \in Content
  /\ entry' = "damaged"
  /\ phase' = [l \in Loaders |->
                IF l \in S /\ phase[l] = "ready" THEN "busy" ELSE phase[l]]
  /\ UNCHANGED got

Evict ==
  /\ entry' = "absent"
  /\ UNCHANGED <<phase, got>>

Next ==
  \/ \E l \in Loaders :
       Begin(l) \/ Verify(l) \/ Publish(l) \/ Doubt(l) \/ Load(l) \/ FallBack(l)
  \/ \E S \in SUBSET Loaders : End(S) \/ Damage(S)
  \/ Evict

Spec == Init /\ [][Next]_vars
=============================================================================
