---------------------------- MODULE SchemaFamily ----------------------------
(***************************************************************************)
(* Evidence shared within a family of schemas: the prepass of the stage    *)
(* SchemaUpdate (_build_schema_family_siblings in pipeline.py) clusters    *)
(* the patterns of one batch, gates on the quality of the clusters, and    *)
(* lets every schema borrow a share of its cluster-mates' evidence         *)
(* (schema_family_contamination.py, _evidence.py, _window.py and           *)
(* _decision.py).                                                          *)
(*                                                                         *)
(* Data.  A schema is a pattern's summary; the first pattern of a summary  *)
(* stands for it.  Rates and shares are fractions.  Evidence, which        *)
(* clustering does not read, is chosen when it is first used.              *)
(***************************************************************************)
EXTENDS Clustering, Thresholds, FiniteSetsExt

CONSTANTS
    Config,         \* schema_family_share and the caps on contamination and fragmentation
    NoCap,          \* None, for a cap that is not configured
    MaxSupports,    \* bound: supporting facts of a pattern in the batch
    MaxContradictions

Fraction(q) == q[1] \in Nat /\ q[2] \in Nat \ {0} /\ q[1] <= q[2]

ASSUME ConfigAssumption ==
    \A c \in Config : /\ Fraction(c.share)
                      /\ c.contamination = NoCap \/ Fraction(c.contamination)
                      /\ c.fragmentation = NoCap \/ Fraction(c.fragmentation)

ASSUME EvidenceAssumption == {MaxSupports, MaxContradictions} \subseteq Nat

VARIABLES
    config,     \* the configuration
    siblings,   \* siblings[s]: whose evidence s may borrow
    evidence,   \* evidence[s]: what the batch says of s
    decided,    \* decided[s][status]: the event decided for s if it had that status
    step        \* "cluster", "siblings", "decided"

familyVars == <<clusterVars, config, siblings, evidence, decided, step>>

Policy == INSTANCE SchemaReducer WITH
    Schema <- Id, Window <- {"earlier", "this"}, Emitter <- {}, None <- "none", Blank <- "", Quorum <- 1

NoEvidence == [window |-> "this", supports |-> 0, contradictions |-> 0]

\* Contradictions are counted among supporting facts, and so are tokens.
EvidenceOf(s) ==
    {e \in [window : {"this"}, supports : 0 .. MaxSupports, contradictions : 0 .. MaxContradictions] :
        e.supports = 0 => e.contradictions = 0 /\ features[s] = {}}

\* A new pattern decides as inferred in this window, a known one only if it is deprecated.
StateAs(status) ==
    [Policy!Unknown EXCEPT !.status = status, !.version = 1,
                            !.window = IF status = "inferred" THEN "this" ELSE "earlier"]

-----------------------------------------------------------------------------
Mates(s)    == {r \in Id : bucket[r] = bucket[s]}
OtherMates(s) == Mates(s) \ {s}

\* The pairs within clusters, and those of them that are no links themselves.
Within     == {p \in Id \X Id : p[1] < p[2] /\ bucket[p[1]] = bucket[p[2]]}
Apart      == {p \in Within : ~Similar(features[p[1]], features[p[2]], tau)}
Singletons == {s \in Id : OtherMates(s) = {}}

\* part / whole > cap, where nothing of nothing is zero.
Exceeds(part, whole, cap) == cap # NoCap /\ Cardinality(part) * cap[2] > cap[1] * Cardinality(whole)

GatedOnSingletons == Exceeds(Singletons, Id, config.fragmentation)
Gated == Exceeds(Apart, Within, config.contamination) \/ Exceeds(Singletons, Id, config.fragmentation)

BuildSiblings ==
    /\ pc = "done" /\ step = "cluster"
    /\ siblings' = [s \in Id |-> IF config.share[1] = 0 \/ Gated THEN {} ELSE OtherMates(s)]
    /\ step' = "siblings"
    /\ UNCHANGED <<clusterVars, config, evidence, decided>>

\* _aggregate_siblings over siblings_for: nothing for a pattern that has none.
Total(batch, count, S) == MapThenSumSet(LAMBDA r : batch[r][count], S)

Borrowed(s, batch) == [supports       |-> Total(batch, "supports", siblings[s]),
                       contradictions |-> Total(batch, "contradictions", siblings[s])]

Decision(s, status, batch) ==
    Policy!DecideWithFamily(StateAs(status), batch[s], Borrowed(s, batch), config.share[1], config.share[2])

DecideBatch ==
    /\ step = "siblings"
    /\ \E batch \in [Id -> UNION {EvidenceOf(s) : s \in Id}] :
          /\ \A s \in Id : batch[s] \in EvidenceOf(s)
          /\ evidence' = batch
          /\ decided' = [s \in Id |-> [status \in {"inferred", "deprecated"} |-> Decision(s, status, batch)]]
    /\ step' = "decided"
    /\ UNCHANGED <<clusterVars, config, siblings>>

-----------------------------------------------------------------------------
FamilyInit ==
    /\ ClusterInit
    /\ config \in Config
    /\ siblings = [s \in Id |-> {}] /\ evidence = [s \in Id |-> NoEvidence]
    /\ decided = [s \in Id |-> [status \in {"inferred", "deprecated"} |-> Policy!NoDecision]]
    /\ step = "cluster"

FamilyNext ==
    \/ ClusterNext /\ UNCHANGED <<config, siblings, evidence, decided, step>>
    \/ BuildSiblings
    \/ DecideBatch

FamilySpec == FamilyInit /\ [][FamilyNext]_familyVars

-----------------------------------------------------------------------------
\* With a contamination cap of zero nobody borrows from a schema that is not
\* similar to it: the gate sees every pair that only a chain holds together
\* (the rule of schema_family_contamination.py:14-28).
BorrowsFromSimilar ==
    config.contamination # NoCap /\ config.contamination[1] = 0 =>
        \A s \in Id : \A r \in siblings[s] : Linked(s, r)

\* With the whole share of its mates' evidence every schema of a cluster counts
\* the same evidence, its own once and each mate's once: cluster-mates of one status
\* are decided alike, whichever of them the evidence came from.
MatesDecideAlike ==
    step = "decided" /\ config.share[1] = config.share[2] /\ ~Gated =>
        \A s, r \in Id : bucket[s] = bucket[r] => decided[s] = decided[r]
=============================================================================
