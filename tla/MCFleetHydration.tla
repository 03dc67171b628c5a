-------------------------- MODULE MCFleetHydration --------------------------
(***************************************************************************)
(* Two packs of two files, whose names sort one way or the other.  Either  *)
(* the second pack adds a file and leaves the other as it was, or it       *)
(* changes one and drops the other.                                        *)
(***************************************************************************)
EXTENDS FleetHydration, TLC

CONSTANTS README, index

Adding == 1 :> (README :> 1) @@ 2 :> (README :> 1 @@ index :> 2)
Changing == 1 :> (README :> 1 @@ index :> 1) @@ 2 :> (README :> 2)

\* Upper case first, as code units have it; and as a collation has it.
CodeUnits == <<README, index>>
Collation == <<index, README>>
=============================================================================
