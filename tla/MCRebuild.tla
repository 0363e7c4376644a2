----------------------------- MODULE MCRebuild -----------------------------
(***************************************************************************)
(* TLC instance of Rebuild: an application and an administrator, who both  *)
(* remember, forget and rebuild.                                           *)
(***************************************************************************)
EXTENDS Rebuild, TLC

CONSTANTS app, admin, x, y
Symmetry == Permutations(Content) \cup Permutations(Caller)
=============================================================================
