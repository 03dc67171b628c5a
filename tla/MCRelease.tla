----------------------------- MODULE MCRelease -----------------------------
(***************************************************************************)
(* A prerelease (1), its plain version (2) and the next one (3).           *)
(***************************************************************************)
EXTENDS Release, TLC

ThreeVersions == 1 .. 3
Plain == 1 :> 2
=============================================================================
