--------------------------- MODULE MCDynamicBarrier ---------------------------
(* DynamicBarrier with three nodes and merges of up to two values.         *)
EXTENDS DynamicBarrier, TLC
CONSTANTS a, b, c
ThreeNames == {a, b, c}
NameSymmetry == Permutations(ThreeNames)
=============================================================================
