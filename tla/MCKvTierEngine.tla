--------------------------- MODULE MCKvTierEngine ---------------------------
(* KvTierEngine for TLC with stores and loads of a few blocks and a job    *)
(* with nothing to move: three blocks a store against the invariants, two  *)
(* for refinement and liveness.                                            *)
EXTENDS KvTierEngine, TLC

CONSTANTS k1, k2, k3, s1, s2, s3

Job(op, xfers) == [op |-> op, xfers |-> xfers]

Blocks3 == << <<k1, s1>>, <<k2, s2>>, <<k3, s3>> >>
Blocks2 == << <<k1, s1>>, <<k2, s2>> >>

Workload3 == {Job("store", Blocks3), Job("load", Blocks2), Job("load", << >>)}
Workload2 == {Job("store", Blocks2), Job("load", << <<k1, s1>> >>), Job("load", << >>)}

Symmetry == Permutations(JobIds)
=============================================================================
