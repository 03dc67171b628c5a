----------------------------- MODULE MCFfiCache -----------------------------
(***************************************************************************)
(* Instances of FfiCache: who shares a process, a process id, a library.   *)
(***************************************************************************)
EXTENDS FfiCache, TLC, FiniteSets

CONSTANTS l1, l2, m1, m2, p1, p2, a, b

Setting(image, pid, lib, replaceMapped, cleanTemps) ==
  [image |-> image, pid |-> pid, lib |-> lib,
   replaceMapped |-> replaceMapped, cleanTemps |-> cleanTemps]

OneImage == l1 :> m1 @@ l2 :> m1
TwoImages == l1 :> m1 @@ l2 :> m2
SamePid == m1 :> p1 @@ m2 :> p1
OwnPids == m1 :> p1 @@ m2 :> p2
OneLib == m1 :> a @@ m2 :> a
TwoLibs == m1 :> a @@ m2 :> b

\* Two worker threads of one process that load the same carrier.
Threads == Setting(OneImage, SamePid, OneLib, TRUE, TRUE)

\* Two processes with the same id (two containers on one tmpdir), one library.
Containers == Setting(TwoImages, SamePid, OneLib, TRUE, FALSE)

\* Two carriers of different libraries in one process.
Carriers == Setting(TwoImages, SamePid, TwoLibs, TRUE, FALSE)

\* Two processes with ids of their own, where a file in use cannot be replaced.
Windows == Setting(TwoImages, OwnPids, OneLib, FALSE, FALSE)

AllSettings == {Threads, Containers, Carriers, Windows}

\* Inodes are interchangeable: any free one will do.
AnyOne(S) == IF S = {} THEN {} ELSE {CHOOSE i \in S : TRUE}
=============================================================================
