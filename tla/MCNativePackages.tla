--------------------------- MODULE MCNativePackages ---------------------------
(* A small instance of NativePackages. *)
EXTENDS NativePackages

CONSTANTS t1, t2

MCTargets == {t1, t2}
MCReproducible == {t1}
=============================================================================
