-------------------------- MODULE MCKVCacheManager --------------------------
(* Model-checking instance of KVCacheManager. *)
EXTENDS KVCacheManager, TLC

CONSTANTS r1, r2, x, y

TwoRequests == {r1, r2}
Contents == {x, y}
Symmetry == Permutations(Request) \cup Permutations(Content)
=============================================================================
