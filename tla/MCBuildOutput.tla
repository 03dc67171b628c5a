--------------------------- MODULE MCBuildOutput ---------------------------
(***************************************************************************)
(* Instances of BuildOutput: who writes the output path, with what.        *)
(***************************************************************************)
EXTENDS BuildOutput

CONSTANTS b1, b2

Setting(builds, jobs, system, what) ==
    [builds |-> builds, jobs |-> jobs, system |-> system, faults |-> what]

(* Two processes compress to one output, in any order and at a time.       *)
Overlapping(system) ==
    Setting({b1, b2}, {"producer", "pack"}, system, {"crash", "io"})

(* One command after the other, of every kind, and anything may happen.    *)
Serial(system) == Setting({b1}, Commands, system, {"crash", "io", "power"})

(* compress_ffi, which syncs.                                              *)
Synced == Setting({b1, b2}, {"pack"}, "posix", {"crash", "io", "power"})

AllSettings ==
    { Overlapping(s) : s \in {"posix", "win32"} }
    \union { Serial(s) : s \in {"posix", "win32"} } \union {Synced}
============================================================================
