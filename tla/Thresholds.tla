----------------------------- MODULE Thresholds -----------------------------
(***************************************************************************)
(* Thresholds of consolidation/schema_decision.py: how much evidence of    *)
(* one window promotes, deprecates or recovers a schema.                   *)
(***************************************************************************)
EXTENDS Naturals

CONSTANTS
    PromoteAt,      \* supporting facts that promote an inferred schema
    DeprecateAt,    \* contradictions that deprecate a live one
    RecoverAt       \* supporting facts that recover a deprecated one

\* Thresholds.__post_init__ refuses any other.
ASSUME ThresholdAssumption == {PromoteAt, DeprecateAt, RecoverAt} \subseteq Nat \ {0}
=============================================================================
