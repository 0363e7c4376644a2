-------------------------- MODULE MCSchemaLifecycle --------------------------
(***************************************************************************)
(* TLC instance of SchemaLifecycle.                                        *)
(***************************************************************************)
EXTENDS SchemaLifecycle

CONSTANTS s1, w1, w2, e1, e2, e3
=============================================================================
