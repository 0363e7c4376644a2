--------------------------- MODULE MCSchemaFamily ---------------------------
(***************************************************************************)
(* TLC instance of SchemaFamily.                                           *)
(***************************************************************************)
EXTENDS SchemaFamily, TLC

CONSTANTS t1, t2, t3

\* A third joins two neighbours of a chain, a half joins a set and a part of it, one
\* only equals, and zero every two schemas that have features.
Taus == {<<0, 1>>, <<1, 3>>, <<1, 2>>, <<1, 1>>}
\* Sharing off, all of it or half of it without a gate, and under either gate.
Configs    ==
    {[share |-> s, contamination |-> NoCap, fragmentation |-> NoCap] : s \in {<<0, 1>>, <<1, 2>>, <<1, 1>>}}
    \cup {[share |-> <<1, 1>>, contamination |-> <<0, 1>>, fragmentation |-> NoCap],
          [share |-> <<1, 1>>, contamination |-> <<1, 2>>, fragmentation |-> <<1, 2>>]}

\* Features are interchangeable.
Symmetry == Permutations(Feature)
=============================================================================
