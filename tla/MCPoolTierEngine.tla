-------------------------- MODULE MCPoolTierEngine --------------------------
(* PoolTierEngine for TLC: two workers, a store of two blocks, a load of    *)
(* one of them and a job with nothing to move.                              *)
EXTENDS PoolTierEngine

CONSTANTS k1, k2, s1, s2

Job(op, xfers) == [op |-> op, xfers |-> xfers]

MCWorkload ==
  {Job("store", << <<k1, s1>>, <<k2, s2>> >>), Job("load", << <<k1, s1>> >>), Job("load", << >>)}
=============================================================================
