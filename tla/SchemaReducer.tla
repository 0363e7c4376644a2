---------------------------- MODULE SchemaReducer ----------------------------
(***************************************************************************)
(* The schema-lifecycle reducer (consolidation/schema_lifecycle.py) and    *)
(* the decision policies that feed it (schema_decision.py and              *)
(* schema_family_decision.py): pure functions of a schema's state and of   *)
(* one event or one window of evidence.                                    *)
(*                                                                         *)
(* Data.  A schema without an entry in the snapshot has the state Unknown. *)
(* Blank is the empty string, which is a window id for "is None" and for   *)
(* "==" but not for "or".                                                  *)
(***************************************************************************)
EXTENDS Naturals, FiniteSets, Thresholds

CONSTANTS
    Schema,     \* schema ids
    Window,     \* evidence window ids
    Emitter,    \* consolidator identities
    None,       \* Python's None
    Blank,      \* the window id ""
    Quorum      \* deprecate_quorum_k

ASSUME QuorumAssumption == Quorum \in Nat \ {0}
ASSUME NoneAssumption   == None \notin Window \cup Emitter

Status   == {"inferred", "promoted", "deprecated"}
Kind     == {"create", "promote", "deprecate", "recover", "bump_version"}
LifecycleEvent == [schema : Schema, kind : Kind, window : Window \cup {None}, emitter : Emitter \cup {None}]

\* pending_deprecate_emitters is ballot; the counts keep the source's order.
State == [status : Status \cup {"unknown"}, version : Nat,
          promotes : Nat, deprecates : Nat, recovers : Nat,
          window : Window \cup {None}, ballot : SUBSET (Emitter \cup {None})]

Unknown == [status |-> "unknown", version |-> 0, promotes |-> 0, deprecates |-> 0, recovers |-> 0,
            window |-> None, ballot |-> {}]

AllowedTransitions == {<<"inferred", "promoted">>, <<"inferred", "deprecated">>,
                       <<"promoted", "deprecated">>, <<"deprecated", "inferred">>}

\* The status an event of this kind leads to.
Target == [promote |-> "promoted", deprecate |-> "deprecated", recover |-> "inferred"]

(***************************************************************************)
(* _apply: strict mode raises where an event is not legal, lenient mode    *)
(* drops the event.                                                        *)
(***************************************************************************)
AnyWindow(st, ev)   == ev.window # None
FreshWindow(st, ev) == ev.window # None /\ ev.window # st.window

Legal(st, ev) ==
    CASE ev.kind = "create"       -> st.status = "unknown"
      [] ev.kind = "bump_version" -> st.status # "unknown"
      [] OTHER -> /\ <<st.status, Target[ev.kind]>> \in AllowedTransitions
                  /\ ev.kind = "recover" => FreshWindow(st, ev)
                  /\ ev.kind = "deprecate" /\ Quorum > 1 => ev.emitter # None

\* ev.window_id or state.last_window_id
MovedWindow(st, ev) == IF ev.window \in {None, Blank} THEN st.window ELSE ev.window

Created(st, ev) ==
    [status |-> "inferred", version |-> 1, promotes |-> 0, deprecates |-> 0, recovers |-> 0,
     window |-> ev.window, ballot |-> {}]

Bumped(st, ev) ==
    [status |-> st.status, version |-> st.version + 1, promotes |-> st.promotes,
     deprecates |-> st.deprecates, recovers |-> st.recovers,
     window |-> MovedWindow(st, ev), ballot |-> st.ballot]

One(condition) == IF condition THEN 1 ELSE 0

MovedToKind(st, ev) ==
    [status |-> ev.kind, version |-> st.version, promotes |-> st.promotes, deprecates |-> st.deprecates,
     recovers |-> st.recovers, window |-> MovedWindow(st, ev), ballot |-> {}]

MovedKeepingBallot(st, ev) ==
    [status |-> Target[ev.kind], version |-> st.version,
     promotes |-> st.promotes + One(ev.kind = "promote"),
     deprecates |-> st.deprecates + One(ev.kind = "deprecate"),
     recovers |-> st.recovers + One(ev.kind = "recover"),
     window |-> MovedWindow(st, ev), ballot |-> IF ev.kind = "promote" THEN st.ballot ELSE {}]

\* A transition counts itself and clears the ballot.
Moved(st, ev) ==
    [status |-> Target[ev.kind], version |-> st.version,
     promotes |-> st.promotes + One(ev.kind = "promote"),
     deprecates |-> st.deprecates + One(ev.kind = "deprecate"),
     recovers |-> st.recovers + One(ev.kind = "recover"),
     window |-> MovedWindow(st, ev), ballot |-> {}]

\* A vote below the quorum is recorded and changes nothing else.
Voted(st, ev) ==
    [status |-> st.status, version |-> st.version, promotes |-> st.promotes,
     deprecates |-> st.deprecates, recovers |-> st.recovers,
     window |-> st.window, ballot |-> st.ballot \cup {ev.emitter}]

QuorumCountingVotes(st, ev) == Cardinality(st.ballot) + 1 < Quorum
BelowQuorum(st, ev) == Quorum > 1 /\ Cardinality(st.ballot \cup {ev.emitter}) < Quorum

Apply(st, ev) ==
    CASE ~Legal(st, ev)                                 -> st
      [] Legal(st, ev) /\ ev.kind = "create"            -> Created(st, ev)
      [] Legal(st, ev) /\ ev.kind = "bump_version"      -> Bumped(st, ev)
      [] Legal(st, ev) /\ ev.kind = "deprecate" /\ BelowQuorum(st, ev) -> Voted(st, ev)
      [] OTHER                                          -> Moved(st, ev)

(***************************************************************************)
(* The decision policies.  Evidence is what one window says of one schema. *)
(***************************************************************************)
NoDecision == "none"

DecideSupportsFirst(st, ev) ==
    CASE st.status = "deprecated" ->
            IF ev.supports >= RecoverAt /\ ev.window # st.window THEN "recover" ELSE NoDecision
      [] st.status # "deprecated" /\ ev.supports >= PromoteAt -> "promote"
      [] OTHER -> IF ev.contradictions >= DeprecateAt THEN "deprecate" ELSE NoDecision

\* decide: contradictions take precedence over supports.
Decide(st, ev) ==
    CASE st.status = "deprecated" ->
            IF ev.supports >= RecoverAt /\ ev.window # st.window THEN "recover" ELSE NoDecision
      [] st.status # "deprecated" /\ ev.contradictions >= DeprecateAt -> "deprecate"
      [] OTHER ->
            IF st.status = "inferred" /\ ev.supports >= PromoteAt THEN "promote" ELSE NoDecision

\* decide_with_family: the owner is credited floor(share * sum) of its cluster
\* mates' evidence, with share = num / den.
Credited(own, siblings, num, den) ==
    [window |-> own.window,
     supports |-> own.supports + (num * siblings.supports) \div den,
     contradictions |-> own.contradictions + (num * siblings.contradictions) \div den]

DecideWithFamily(st, own, siblings, num, den) == Decide(st, Credited(own, siblings, num, den))
=============================================================================
