--------------------------- MODULE MCTierManager ---------------------------
(* TierManager with symmetric keys, slots and jobs for TLC. *)
EXTENDS TierManager, TLC

Symmetry == Permutations(Keys) \cup Permutations(Slots) \cup Permutations(JobIds)
=============================================================================
