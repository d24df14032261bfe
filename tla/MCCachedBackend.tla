-------------------------- MODULE MCCachedBackend --------------------------
(* CachedBackend for TLC.                                                   *)
EXTENDS CachedBackend, TLC

Kind(op, whole) == [op |-> op, whole |-> whole]

MCKinds == {Kind("read", TRUE), Kind("write", TRUE), Kind("read", FALSE), Kind("write", FALSE)}

\* bench.cpp: reads and writes of whole blocks.
BenchKinds == {Kind("read", TRUE), Kind("write", TRUE)}

Symmetry == Permutations(Offsets) \cup Permutations(Slots)
=============================================================================
