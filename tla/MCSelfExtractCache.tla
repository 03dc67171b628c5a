------------------------ MODULE MCSelfExtractCache ------------------------
(***************************************************************************)
(* Instances of SelfExtractCache: which process id each loader has.        *)
(***************************************************************************)
EXTENDS SelfExtractCache

\* One pid name space: every process has an id of its own (Pids = Loaders).
DistinctPids == [l \in Loaders |-> l]

\* Loaders that share an id: the first processes of two containers that mount the
\* same tmpdir, or two threads of one process.
SharedPid == [l \in Loaders |-> CHOOSE p \in Pids : TRUE]

\* Inodes are interchangeable: any free one will do.
AnyOne(S) == IF S = {} THEN {} ELSE {CHOOSE i \in S : TRUE}
=============================================================================
