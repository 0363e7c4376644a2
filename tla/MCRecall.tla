------------------------------ MODULE MCRecall ------------------------------
(***************************************************************************)
(* TLC instance of Recall: three memories of two agents and of none; one   *)
(* is a schema, one mentions the entity and may have the higher merit, one *)
(* may be forgotten or deleted, and one may be without a vector.  BM25     *)
(* turns the order round when the second memory is not stored.             *)
(***************************************************************************)
EXTENDS Recall, TLC

CONSTANTS alice, bob

MCOwnerships  == {[m \in 1 .. Size |-> IF m \in S THEN bob ELSE IF m = 2 THEN Shared ELSE alice] : S \in {{1}, {3}, {1, 3}}}
MCSchemaSets  == {{1}}
MCMerits      == {[m \in 1 .. Size |-> IF m \in S THEN 1 ELSE 0] : S \in {{}, {3}}}
MCMentionSets == {{3}}
MCRows        == {[m \in 1 .. Size |-> IF m \in S THEN s ELSE "active"] : S \in {{}, {2}}, s \in {"hidden", "absent"}}
MCOrders      == {[C \in SUBSET (1 .. Size) |-> [m \in 1 .. Size |-> IF 2 \in C THEN m ELSE Size + 1 - m]]}
MCVectorSets  == {1 .. Size, {2, 3}}
=============================================================================
