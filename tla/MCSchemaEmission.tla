-------------------------- MODULE MCSchemaEmission --------------------------
(***************************************************************************)
(* An instance of SchemaEmission: two emitters, and patterns of two texts. *)
(* Either there is one summary, two reports of it at most, a fault, and    *)
(* outside votes or schemas that leave the live states; or there are two   *)
(* summaries and three reports, so that the second run may not find a      *)
(* schema beyond the limit, and neither votes nor faults.                  *)
(***************************************************************************)
EXTENDS SchemaEmission, TLC

CONSTANTS e1, e2, x, y, short, long

\* The first run names an emitter, the others none.
MCConsolidatorId == [r \in Run |-> IF r = 1 THEN e1 ELSE None]

\* One deprecation from outside names a window, the other does not.
MCOutsideVotes == {[window |-> Outside, emitter |-> e1], [window |-> None, emitter |-> e2]}

\* Which states are explored further.
OneSummary   == /\ reported <= 2 /\ \A s \in Created : known[s].summary = x
                /\ outside = {} \/ rows = stored
TwoSummaries == /\ outside = {} /\ faults = 0
                /\ \A s \in Created : known[s].supports = 1 /\ (s = 1 => known[s].summary = x)
Explored     == OneSummary \/ TwoSummaries

\* Nothing but their identity tells the two texts apart.
Symmetry == Permutations({short, long})
=============================================================================
