----------------------------- MODULE MCRestore -----------------------------
(***************************************************************************)
(* TLC instance of Restore: an application and a scheduled job, which also *)
(* consolidates and rebuilds.                                              *)
(***************************************************************************)
EXTENDS Restore, TLC

CONSTANTS app, job, reward, p1

\* Not the default of a dimension.
MCPresets == {[d \in {reward} |-> Top]}
=============================================================================
