--------------------------- MODULE SchemaLifecycle ---------------------------
(***************************************************************************)
(* reduce_events in lenient mode, as production replays the log: one Fold  *)
(* per event, for any log whatsoever.  What the log holds comes from many  *)
(* writers that decide on views of their own, so no order of kinds, windows *)
(* or emitters is excluded.                                                *)
(***************************************************************************)
EXTENDS SchemaReducer

CONSTANT MaxEvents      \* bound: events folded

ASSUME MaxEventsAssumption == MaxEvents \in Nat

VARIABLES
    snap,       \* {schema_id: SchemaState}
    folded,     \* events folded so far
    dissent,    \* history: who asked to deprecate since the schema last came to life
    condemned,  \* history: the window that the last deprecation left in the state, None if it
                \* left none, or if a version bump has moved it since
    redeemed    \* history: the window of the RECOVER event accepted last

vars == <<snap, folded, dissent, condemned, redeemed>>

Live(st) == st.status \in {"inferred", "promoted"}

\* A vote that the reducer may count.
Counts(ev) == ev.kind = "deprecate" /\ (Quorum = 1 \/ ev.emitter # None)

\* The history of condemned and redeemed: what an event makes of it.
CondemnedBy(old, new, ev, window) ==
    CASE new.deprecates # old.deprecates                      -> IF ev.window = Blank THEN None ELSE ev.window
      [] new.deprecates = old.deprecates /\ new.status = "deprecated" /\ new.window # old.window -> None
      [] OTHER                                                -> window

RedeemedBy(old, new, ev, window) == IF new.recovers # old.recovers THEN ev.window ELSE window

Fold(ev) ==
    LET s == ev.schema  old == snap[s]  new == Apply(old, ev) IN
    /\ folded < MaxEvents
    /\ folded' = folded + 1
    /\ snap' = [snap EXCEPT ![s] = new]
    /\ dissent' = [dissent EXCEPT ![s] =
                     CASE Live(new) /\ new.status # old.status -> {}
                       [] Live(old) /\ Counts(ev)              -> @ \cup {ev.emitter}
                       [] OTHER                                -> @]
    /\ condemned' = [condemned EXCEPT ![s] = CondemnedBy(old, new, ev, @)]
    /\ redeemed' = [redeemed EXCEPT ![s] = RedeemedBy(old, new, ev, @)]

Init ==
    /\ snap = [s \in Schema |-> Unknown]
    /\ folded = 0
    /\ dissent = [s \in Schema |-> {}]
    /\ condemned = [s \in Schema |-> None]
    /\ redeemed = [s \in Schema |-> None]

Next == \E ev \in LifecycleEvent : Fold(ev)

Spec == Init /\ [][Next]_vars

-----------------------------------------------------------------------------
TypeOK ==
    /\ snap \in [Schema -> State]
    /\ folded \in 0 .. MaxEvents
    /\ dissent \in [Schema -> SUBSET (Emitter \cup {None})]
    /\ condemned \in [Schema -> Window \cup {None}]
    /\ redeemed \in [Schema -> Window \cup {None}]

\* The counts tell the path: every deprecation but the current one was recovered
\* from, and at most one promotion belongs to each life of the schema.
\* (schema_lifecycle.py:96-97, "Counts let downstream consumers check fold integrity".)
Ledger ==
    \A s \in Schema : LET st == snap[s] IN
        /\ st.deprecates = st.recovers + One(st.status = "deprecated")
        /\ st.promotes <= st.recovers + One(st.status # "inferred")
        /\ st.status = "promoted" => st.promotes >= 1

\* Nobody suppresses a schema alone: a deprecated one has at least Quorum distinct
\* dissenters since it was created, promoted or recovered.
\* (schema_lifecycle.py:122-127: "a single malicious actor can no longer
\* unilaterally suppress a schema".)
QuorumReached ==
    \A s \in Schema : snap[s].status = "deprecated" => Cardinality(dissent[s]) >= Quorum

\* The ballot holds exactly what is still needed to count: always below the
\* quorum, only open on a live schema, and nothing but real dissenters.
BallotOpen ==
    \A s \in Schema : LET ballot == snap[s].ballot IN
        /\ ballot \subseteq dissent[s]
        /\ ballot # {} => Live(snap[s]) /\ Cardinality(ballot) < Quorum

\* No log takes anything back: a known schema stays known, its version and its
\* counts never decrease, and its status moves only along the DAG.
Forward ==
    [][\A s \in Schema :
          LET st == snap[s]  new == snap'[s] IN
          /\ new.version >= st.version /\ new.promotes >= st.promotes
          /\ new.deprecates >= st.deprecates /\ new.recovers >= st.recovers
          /\ \/ new.status = st.status
             \/ <<st.status, new.status>> \in AllowedTransitions
             \/ st = Unknown /\ new.status = "inferred" /\ new.version = 1]_vars

\* Whatever the policy decides on a state the reducer can be in, the reducer
\* accepts and carries out (below a quorum, it counts the vote).  The window may
\* be any string and the decision is emitted with that window and an identity.
\* (schema_decision.py P1-P3, "matches reducer invariant #5".)
Evidence == [window : Window, supports : 0 .. PromoteAt + RecoverAt, contradictions : 0 .. DeprecateAt]

DecisionsAccepted ==
    \A s \in Schema, own \in Evidence, e \in Emitter :
        LET st == snap[s]
            kind == Decide(st, own)
            new == Apply(st, [schema |-> s, kind |-> kind, window |-> own.window, emitter |-> e])
        IN  st.status # "unknown" /\ kind # NoDecision =>
               /\ new.status = Target[kind] \/ (kind = "deprecate" /\ e \in new.ballot)
               /\ new # st \/ e \in st.ballot

\* Invariant #5: the window that condemned a schema never redeems it.
\* (schema_lifecycle.py:71-74, "RECOVER events MUST carry a window_id distinct from
\* the window_id of the DEPRECATE that immediately preceded them".)  The code keeps
\* this in last_window_id only, so it forgets the window when a BUMP_VERSION moves
\* it, and never knew it when the DEPRECATE had none or the empty one.
FreshRecovery ==
    \A s \in Schema : snap[s].recovers > 0 /\ Live(snap[s]) => redeemed[s] # condemned[s]
=============================================================================
