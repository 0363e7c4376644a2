-------------------------- MODULE MCLifecycleCache --------------------------
(***************************************************************************)
(* TLC instance of LifecycleCache: two threads in one cache.               *)
(***************************************************************************)
EXTENDS LifecycleCache, TLC

CONSTANTS c1, c2, i1, i2

Symmetry == Permutations({i1, i2}) \cup Permutations({c1, c2})
=============================================================================
