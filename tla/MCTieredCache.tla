----------------------------- MODULE MCTieredCache -----------------------------
EXTENDS TieredCache, TLC

Blocks == Permutations(Ids) \cup Permutations(Readers)
================================================================================
