-------------------------- MODULE MCConsolidation --------------------------
(***************************************************************************)
(* TLC instance of Consolidation: two contents that contradict each other. *)
(***************************************************************************)
EXTENDS Consolidation, TLC

CONSTANTS x, y

MCContradicts == {<<x, y>>, <<y, x>>}

Symmetry == Permutations({x, y})
=============================================================================
