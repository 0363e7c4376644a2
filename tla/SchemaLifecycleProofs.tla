------------------------ MODULE SchemaLifecycleProofs ------------------------
(***************************************************************************)
(* Proofs about the lifecycle of schemas, for every set of schemas, windows *)
(* and emitters, every quorum and every threshold: about the reducer and    *)
(* its decision policies, and, from "The snapshot cache" on, about the      *)
(* cache in which recall() keeps what the reducer made of the log.          *)
(***************************************************************************)
EXTENDS SchemaLifecycle, LifecycleCache, FiniteSetTheorems, SequenceTheorems, TLAPS

\* Ballots and dissenters are counted, so they have to be finite; an absent
\* schema has nothing at all.
CountInv ==
    \A s \in Schema :
        /\ IsFiniteSet(dissent[s])
        /\ snap[s].status = "unknown" => snap[s] = Unknown

\* What the reducer knows of the window that condemned a schema: its last window.
WindowInv ==
    \A s \in Schema : /\ snap[s].status = "deprecated" => condemned[s] \in {None, snap[s].window}
                      /\ snap[s].status = "unknown" => snap[s].recovers = 0

IInv == TypeOK /\ CountInv /\ Ledger /\ QuorumReached /\ BallotOpen /\ WindowInv /\ FreshRecovery

-----------------------------------------------------------------------------
(***************************************************************************)
(* One event                                                               *)
(***************************************************************************)
\* The reducer's cases: an event is dropped, creates, bumps, votes or moves.
LEMMA ApplyCases ==
  ASSUME NEW st \in State, NEW ev \in LifecycleEvent
  PROVE  \/ ~Legal(st, ev) /\ Apply(st, ev) = st
         \/ ev.kind = "create" /\ st.status = "unknown" /\ Apply(st, ev) = Created(st, ev)
         \/ ev.kind = "bump_version" /\ st.status # "unknown" /\ Apply(st, ev) = Bumped(st, ev)
         \/ /\ ev.kind = "deprecate" /\ Live(st) /\ Counts(ev) /\ BelowQuorum(st, ev)
            /\ Apply(st, ev) = Voted(st, ev)
         \/ /\ ev.kind = "deprecate" /\ Live(st) /\ Counts(ev) /\ ~BelowQuorum(st, ev)
            /\ Apply(st, ev) = Moved(st, ev)
         \/ ev.kind = "promote" /\ st.status = "inferred" /\ Apply(st, ev) = Moved(st, ev)
         \/ /\ ev.kind = "recover" /\ st.status = "deprecated" /\ FreshWindow(st, ev)
            /\ Apply(st, ev) = Moved(st, ev)
<1>1. ev.kind \in Kind
  BY DEF LifecycleEvent
<1>2. CASE ~Legal(st, ev)
  BY <1>2 DEF Apply
<1>3. CASE Legal(st, ev)
  <2>1. CASE ev.kind = "create"
    BY <1>3, <2>1 DEF Apply, Legal
  <2>2. CASE ev.kind = "bump_version"
    BY <1>3, <2>2 DEF Apply, Legal
  <2>3. CASE ev.kind = "deprecate"
    BY <1>3, <2>3, QuorumAssumption DEF Apply, Legal, Target, AllowedTransitions, Live, Counts
  <2>4. CASE ev.kind \in {"promote", "recover"}
    BY <1>3, <2>4 DEF Apply, Legal, Target, AllowedTransitions
  <2> QED
    BY <1>1, <2>1, <2>2, <2>3, <2>4 DEF Kind
<1> QED
  BY <1>2, <1>3

\* Applying an event to a state gives a state.
LEMMA ApplyType ==
  ASSUME NEW st \in State, NEW ev \in LifecycleEvent
  PROVE  Apply(st, ev) \in State
<1>1. /\ ev.window \in Window \cup {None} /\ ev.emitter \in Emitter \cup {None}
      /\ MovedWindow(st, ev) \in Window \cup {None}
  BY DEF LifecycleEvent, State, MovedWindow
<1>2. Created(st, ev) \in State
  BY <1>1 DEF Created, State, Status
<1>3. Bumped(st, ev) \in State
  BY <1>1 DEF Bumped, State
<1>4. Voted(st, ev) \in State
  BY <1>1 DEF Voted, State
<1>5. ASSUME ev.kind \in {"promote", "deprecate", "recover"}
      PROVE  Moved(st, ev) \in State
  <2>1. Target[ev.kind] \in Status
    BY <1>5 DEF Target, Status
  <2>2. \A b \in BOOLEAN : One(b) \in Nat
    BY DEF One
  <2>3. /\ st.promotes + One(ev.kind = "promote") \in Nat
        /\ st.deprecates + One(ev.kind = "deprecate") \in Nat
        /\ st.recovers + One(ev.kind = "recover") \in Nat
        /\ st.version \in Nat
    BY DEF State, One
  <2> QED
    BY <1>1, <2>1, <2>3 DEF Moved, State
<1> QED
  BY <1>2, <1>3, <1>4, <1>5, ApplyCases

\* The counts and the version never go back, and the status follows the DAG.
LEMMA ApplyForward ==
  ASSUME NEW st \in State, NEW ev \in LifecycleEvent, st.status = "unknown" => st = Unknown
  PROVE  LET new == Apply(st, ev) IN
         /\ new.version >= st.version /\ new.promotes >= st.promotes
         /\ new.deprecates >= st.deprecates /\ new.recovers >= st.recovers
         /\ \/ new.status = st.status
            \/ <<st.status, new.status>> \in AllowedTransitions
            \/ st = Unknown /\ new.status = "inferred" /\ new.version = 1
<1>1. /\ st.version \in Nat /\ st.promotes \in Nat /\ st.deprecates \in Nat /\ st.recovers \in Nat
      /\ st.status \in Status \cup {"unknown"}
  BY DEF State
<1> QED
  BY <1>1, ApplyCases
  DEF Created, Bumped, Voted, Moved, Unknown, One, Target, AllowedTransitions, Live, Status

\* An unknown schema stays exactly that until it is created.
LEMMA ApplyKnown ==
  ASSUME NEW st \in State, NEW ev \in LifecycleEvent, Apply(st, ev).status = "unknown"
  PROVE  Apply(st, ev) = st /\ st.status = "unknown"
BY ApplyCases DEF Created, Bumped, Voted, Moved, Target, Live

\* One event keeps the books.
LEMMA ApplyLedger ==
  ASSUME NEW st \in State, NEW ev \in LifecycleEvent,
         st.status = "unknown" => st = Unknown,
         st.deprecates = st.recovers + One(st.status = "deprecated"),
         st.promotes <= st.recovers + One(st.status # "inferred"),
         st.status = "promoted" => st.promotes >= 1
  PROVE  LET new == Apply(st, ev) IN
         /\ new.deprecates = new.recovers + One(new.status = "deprecated")
         /\ new.promotes <= new.recovers + One(new.status # "inferred")
         /\ new.status = "promoted" => new.promotes >= 1
<1>1. /\ st.version \in Nat /\ st.promotes \in Nat /\ st.deprecates \in Nat /\ st.recovers \in Nat
      /\ st.status \in Status \cup {"unknown"}
  BY DEF State
<1> QED
  BY <1>1, ApplyCases DEF Created, Bumped, Voted, Moved, Unknown, One, Target, Live, Status

\* The quorum is met by real dissenters when a vote fires, whatever else the
\* ballot went through, and an open ballot stays below the quorum.
LEMMA ApplyQuorum ==
  ASSUME NEW st \in State, NEW ev \in LifecycleEvent,
         st.status = "unknown" => st = Unknown,
         NEW D, IsFiniteSet(D),
         st.status = "deprecated" => Cardinality(D) >= Quorum,
         st.ballot \subseteq D,
         st.ballot # {} => Live(st) /\ Cardinality(st.ballot) < Quorum
  PROVE  LET new == Apply(st, ev)
             E == CASE Live(new) /\ new.status # st.status -> {}
                    [] Live(st) /\ Counts(ev)              -> D \cup {ev.emitter}
                    [] OTHER                               -> D
         IN  /\ IsFiniteSet(E)
             /\ new.status = "deprecated" => Cardinality(E) >= Quorum
             /\ new.ballot \subseteq E
             /\ new.ballot # {} => Live(new) /\ Cardinality(new.ballot) < Quorum
<1> DEFINE new == Apply(st, ev)
           E == CASE Live(new) /\ new.status # st.status -> {}
                  [] Live(st) /\ Counts(ev)              -> D \cup {ev.emitter}
                  [] OTHER                               -> D
           vote == st.ballot \cup {ev.emitter}
<1>1. IsFiniteSet({}) /\ IsFiniteSet(D \cup {ev.emitter})
  BY FS_EmptySet, FS_AddElement
<1>2. IsFiniteSet(st.ballot) /\ IsFiniteSet(vote) /\ Cardinality(vote) \in Nat
  BY FS_Subset, FS_AddElement, FS_CardinalityType
<1>3. vote \subseteq D \cup {ev.emitter} /\ Cardinality(vote) <= Cardinality(D \cup {ev.emitter})
  BY <1>1, FS_Subset
<1>4. Cardinality(D \cup {ev.emitter}) \in Nat /\ Cardinality(D) \in Nat
  BY <1>1, FS_CardinalityType
<1>5. st.status \in Status \cup {"unknown"}
  BY DEF State
<1>6. CASE new = st
  <2>1. E \in {D, D \cup {ev.emitter}}
    BY <1>6
  <2>2. st.status = "deprecated" => E = D
    BY <1>6 DEF Live
  <2>3. IsFiniteSet(E) /\ st.ballot \subseteq E
    BY <1>1, <2>1
  <2> HIDE DEF E, new
  <2> QED
    BY <1>6, <2>2, <2>3 DEF E, new
<1>7. CASE ev.kind = "create" /\ st.status = "unknown" /\ new = Created(st, ev)
  <2>1. E = {} /\ new.status = "inferred" /\ new.ballot = {}
    BY <1>7 DEF Created, Live
  <2> QED
    BY <1>1, <2>1
<1>8. CASE ev.kind = "bump_version" /\ st.status # "unknown" /\ new = Bumped(st, ev)
  <2>1. E = D /\ new.status = st.status /\ new.ballot = st.ballot
    BY <1>8 DEF Bumped, Counts
  <2> QED
    BY <2>1 DEF Live
<1>9. CASE ev.kind = "deprecate" /\ Live(st) /\ Counts(ev) /\ BelowQuorum(st, ev) /\ new = Voted(st, ev)
  <2>1. E = D \cup {ev.emitter} /\ new.status = st.status /\ new.ballot = vote
    BY <1>9 DEF Voted
  <2> QED
    BY <1>1, <1>3, <1>9, <2>1 DEF Live, BelowQuorum
<1>10. CASE ev.kind = "deprecate" /\ Live(st) /\ Counts(ev) /\ ~BelowQuorum(st, ev) /\ new = Moved(st, ev)
  <2>1. E = D \cup {ev.emitter} /\ new.status = "deprecated" /\ new.ballot = {}
    BY <1>10 DEF Moved, Target, Live
  <2>2. CASE Quorum > 1
    BY <1>1, <1>2, <1>3, <1>4, <1>10, <2>1, <2>2, QuorumAssumption DEF BelowQuorum
  <2>3. CASE Quorum = 1
    <3>1. Cardinality(D \cup {ev.emitter}) # 0
      BY <1>1, FS_EmptySet
    <3> QED
      BY <1>1, <1>4, <2>1, <2>3, <3>1
  <2> QED
    BY <2>2, <2>3, QuorumAssumption
<1>11. CASE ev.kind \in {"promote", "recover"} /\ new = Moved(st, ev)
            /\ (ev.kind = "promote" => st.status = "inferred")
            /\ (ev.kind = "recover" => st.status = "deprecated")
  <2>1. new.status = Target[ev.kind] /\ new.ballot = {}
    BY <1>11 DEF Moved
  <2>2. new.status \in {"promoted", "inferred"} /\ new.status # st.status
    BY <1>11, <2>1 DEF Target
  <2> HIDE DEF new
  <2>3. E = {}
    BY <1>11, <2>2 DEF Live, Counts
  <2> HIDE DEF E
  <2> QED
    BY <1>1, <2>1, <2>2, <2>3 DEF new, E
<1> QED
  BY <1>6, <1>7, <1>8, <1>9, <1>10, <1>11, ApplyCases

\* A recovery comes with a window other than the last one, a deprecation leaves its
\* own, and everything else keeps the count of recoveries.
LEMMA ApplyWindows ==
  ASSUME NEW st \in State, NEW ev \in LifecycleEvent,
         st.status = "unknown" => st = Unknown,
         NEW c, NEW r,
         st.status = "deprecated" => c \in {None, st.window},
         st.recovers > 0 /\ Live(st) => r # c
  PROVE  LET new == Apply(st, ev)
             c2 == CondemnedBy(st, new, ev, c)
         IN  /\ new.status = "deprecated" => c2 \in {None, new.window}
             /\ new.recovers > 0 /\ Live(new) => RedeemedBy(st, new, ev, r) # c2
<1> DEFINE new == Apply(st, ev)
           c2 == CondemnedBy(st, new, ev, c)
           r2 == RedeemedBy(st, new, ev, r)
<1>0. ASSUME new.deprecates = st.deprecates, new.status # "deprecated" \/ new.window = st.window
      PROVE  c2 = c
  BY <1>0 DEF CondemnedBy
<1> SUFFICES /\ new.status = "deprecated" => c2 \in {None, new.window}
             /\ new.recovers > 0 /\ Live(new) => r2 # c2
  OBVIOUS
<1>1. /\ st.promotes \in Nat /\ st.deprecates \in Nat /\ st.recovers \in Nat
      /\ st.status \in Status \cup {"unknown"}
  BY DEF State
<1> HIDE DEF new, c2, r2
<1>2. CASE new = st
  BY <1>0, <1>2 DEF c2, r2, RedeemedBy
<1>3. CASE ev.kind = "create" /\ st.status = "unknown" /\ new = Created(st, ev)
  <2>1. st = Unknown /\ new.status = "inferred" /\ new.recovers = 0
    BY <1>3 DEF Created
  <2> QED
    BY <2>1
<1>4. CASE ev.kind = "bump_version" /\ st.status # "unknown" /\ new = Bumped(st, ev)
  <2>1. /\ new.status = st.status /\ new.deprecates = st.deprecates /\ new.recovers = st.recovers
        /\ r2 = r
    BY <1>4 DEF Bumped, r2, RedeemedBy
  <2>2. st.status = "deprecated" => c2 \in {None, new.window}
    BY <2>1 DEF c2, CondemnedBy
  <2>3. Live(st) => c2 = c
    BY <1>0, <2>1 DEF Live
  <2> QED
    BY <2>1, <2>2, <2>3 DEF Live
<1>5. CASE ev.kind = "deprecate" /\ Live(st) /\ new = Voted(st, ev)
  <2>1. /\ new.status = st.status /\ new.deprecates = st.deprecates /\ new.recovers = st.recovers
        /\ st.status # "deprecated"
    BY <1>5 DEF Voted, Live
  <2>2. r2 = r /\ c2 = c
    BY <1>0, <2>1 DEF r2, RedeemedBy
  <2> QED
    BY <2>1, <2>2 DEF Live
<1>6. CASE ev.kind = "deprecate" /\ Live(st) /\ new = Moved(st, ev)
  <2>1. /\ new.status = "deprecated" /\ new.deprecates = st.deprecates + 1
        /\ new.window = MovedWindow(st, ev)
    BY <1>6 DEF Moved, Target, One
  <2>2. c2 = IF ev.window = Blank THEN None ELSE ev.window
    BY <1>1, <2>1 DEF c2, CondemnedBy
  <2>3. c2 \in {None, new.window}
    BY <2>1, <2>2 DEF MovedWindow
  <2> QED
    BY <2>1, <2>3 DEF Live
<1>7. CASE ev.kind = "promote" /\ st.status = "inferred" /\ new = Moved(st, ev)
  <2>1. /\ new.status = "promoted" /\ new.deprecates = st.deprecates /\ new.recovers = st.recovers
    BY <1>1, <1>7 DEF Moved, Target, One
  <2>2. r2 = r /\ c2 = c
    BY <1>0, <1>7, <2>1 DEF r2, RedeemedBy
  <2> QED
    BY <1>7, <2>1, <2>2 DEF Live
<1>8. CASE ev.kind = "recover" /\ st.status = "deprecated" /\ FreshWindow(st, ev) /\ new = Moved(st, ev)
  <2>1. /\ new.status = "inferred" /\ new.deprecates = st.deprecates /\ new.recovers = st.recovers + 1
    BY <1>1, <1>8 DEF Moved, Target, One
  <2>2. r2 = ev.window /\ c2 = c
    BY <1>0, <1>1, <2>1 DEF r2, RedeemedBy
  <2>3. ev.window # None /\ ev.window # st.window
    BY <1>8 DEF FreshWindow
  <2> QED
    BY <1>8, <2>1, <2>2, <2>3
<1> QED
  BY <1>2, <1>3, <1>4, <1>5, <1>6, <1>7, <1>8, ApplyCases DEF new, c2, r2

-----------------------------------------------------------------------------
(***************************************************************************)
(* The fold                                                                *)
(***************************************************************************)
\* With no event folded, no schema exists and no ballot is open.
LEMMA InitInvariant == Init => IInv
<1> SUFFICES ASSUME Init
             PROVE  IInv
  OBVIOUS
<1>1. Unknown \in State
  BY DEF Unknown, State
<1>2. TypeOK
  BY <1>1, MaxEventsAssumption DEF Init, TypeOK
<1>3. \A s \in Schema : snap[s] = Unknown /\ dissent[s] = {}
  BY DEF Init
<1>4. CountInv
  BY <1>3, FS_EmptySet DEF CountInv
<1>5. Ledger /\ QuorumReached /\ BallotOpen
  BY <1>3 DEF Ledger, QuorumReached, BallotOpen, Unknown, One
<1>6. WindowInv /\ FreshRecovery
  BY <1>3 DEF WindowInv, FreshRecovery, Unknown
<1> QED
  BY <1>2, <1>4, <1>5, <1>6 DEF IInv

\* What a fold does to the schema of the event, and to the others.
LEMMA FoldStep ==
  ASSUME IInv, NEW ev \in LifecycleEvent, Fold(ev)
  PROVE  /\ snap'[ev.schema] = Apply(snap[ev.schema], ev)
         /\ \A s \in Schema \ {ev.schema} : snap'[s] = snap[s] /\ dissent'[s] = dissent[s]
         /\ ev.schema \in Schema /\ snap[ev.schema] \in State
         /\ snap[ev.schema].status = "unknown" => snap[ev.schema] = Unknown
<1>1. ev.schema \in Schema
  BY DEF LifecycleEvent
<1> QED
  BY <1>1 DEF IInv, TypeOK, CountInv, Fold

\* Folding one more event of the log keeps the inductive invariant.
LEMMA FoldInvariant ==
  ASSUME IInv, NEW ev \in LifecycleEvent, Fold(ev)
  PROVE  IInv'
<1> DEFINE s == ev.schema
           old == snap[s]
           new == Apply(old, ev)
           E == CASE Live(new) /\ new.status # old.status -> {}
                  [] Live(old) /\ Counts(ev)              -> dissent[s] \cup {ev.emitter}
                  [] OTHER                                -> dissent[s]
           C == CondemnedBy(old, new, ev, condemned[s])
           R == RedeemedBy(old, new, ev, redeemed[s])
<1>1. /\ s \in Schema /\ old \in State /\ snap'[s] = new
      /\ old.status = "unknown" => old = Unknown
      /\ \A t \in Schema \ {s} : snap'[t] = snap[t] /\ dissent'[t] = dissent[t]
  BY FoldStep
<1>2. new \in State
  BY <1>1, ApplyType
<1>3. dissent' = [dissent EXCEPT ![s] = E] /\ dissent'[s] = E
  BY <1>1 DEF Fold, IInv, TypeOK
<1>12. /\ condemned' = [condemned EXCEPT ![s] = C] /\ condemned'[s] = C
       /\ redeemed' = [redeemed EXCEPT ![s] = R] /\ redeemed'[s] = R
  BY <1>1 DEF Fold, IInv, TypeOK
<1>4. /\ IsFiniteSet(E)
      /\ new.status = "deprecated" => Cardinality(E) >= Quorum
      /\ new.ballot \subseteq E
      /\ new.ballot # {} => Live(new) /\ Cardinality(new.ballot) < Quorum
  <2>1. /\ IsFiniteSet(dissent[s])
        /\ old.status = "deprecated" => Cardinality(dissent[s]) >= Quorum
        /\ old.ballot \subseteq dissent[s]
        /\ old.ballot # {} => Live(old) /\ Cardinality(old.ballot) < Quorum
    BY <1>1 DEF IInv, CountInv, QuorumReached, BallotOpen
  <2> HIDE DEF new, old
  <2> QED
    BY <1>1, <2>1, ApplyQuorum DEF new
<1>5. /\ new.deprecates = new.recovers + One(new.status = "deprecated")
      /\ new.promotes <= new.recovers + One(new.status # "inferred")
      /\ new.status = "promoted" => new.promotes >= 1
  BY <1>1, ApplyLedger DEF IInv, Ledger
<1>6. new.status = "unknown" => new = Unknown
  BY <1>1, ApplyKnown
<1>7. TypeOK'
  <2>1. ev.window \in Window \cup {None} /\ ev.emitter \in Emitter \cup {None}
    BY DEF LifecycleEvent
  <2>2. snap' \in [Schema -> State] /\ folded' \in 0 .. MaxEvents
    BY <1>1, <1>2, MaxEventsAssumption DEF Fold, IInv, TypeOK
  <2>3. E \in SUBSET (Emitter \cup {None})
    BY <1>1, <2>1 DEF IInv, TypeOK
  <2>4. dissent' \in [Schema -> SUBSET (Emitter \cup {None})]
    BY <1>1, <1>3, <2>3 DEF IInv, TypeOK
  <2>5. C \in Window \cup {None} /\ R \in Window \cup {None}
    BY <1>1, <2>1 DEF IInv, TypeOK, CondemnedBy, RedeemedBy
  <2>6. condemned' \in [Schema -> Window \cup {None}] /\ redeemed' \in [Schema -> Window \cup {None}]
    BY <1>1, <1>12, <2>5 DEF IInv, TypeOK
  <2> QED
    BY <2>2, <2>4, <2>6 DEF TypeOK
<1>13. /\ new.status = "deprecated" => C \in {None, new.window}
       /\ new.recovers > 0 /\ Live(new) => R # C
  <2>1. /\ old.status = "deprecated" => condemned[s] \in {None, old.window}
        /\ old.recovers > 0 /\ Live(old) => redeemed[s] # condemned[s]
    BY <1>1 DEF IInv, WindowInv, FreshRecovery
  <2> HIDE DEF new, old
  <2> QED
    BY <1>1, <2>1, ApplyWindows DEF new
<1> HIDE DEF E, C, R, new, old
<1>8. CountInv'
  BY <1>1, <1>3, <1>4, <1>6 DEF IInv, CountInv
<1>9. Ledger'
  BY <1>1, <1>5 DEF IInv, Ledger
<1>10. QuorumReached'
  BY <1>1, <1>3, <1>4 DEF IInv, QuorumReached
<1>11. BallotOpen'
  BY <1>1, <1>3, <1>4 DEF IInv, BallotOpen, Live
<1>14. \A t \in Schema \ {s} : condemned'[t] = condemned[t] /\ redeemed'[t] = redeemed[t]
  BY <1>1, <1>12 DEF IInv, TypeOK
<1>15. WindowInv'
  BY <1>1, <1>6, <1>12, <1>13, <1>14 DEF IInv, WindowInv, Unknown
<1>16. FreshRecovery'
  BY <1>1, <1>12, <1>13, <1>14 DEF IInv, FreshRecovery, Live
<1> QED
  BY <1>7, <1>8, <1>9, <1>10, <1>11, <1>15, <1>16 DEF IInv

\* The inductive invariant holds however long the log, for every window and quorum.
THEOREM Invariant == Spec => []IInv
<1>1. IInv /\ [Next]_vars => IInv'
  <2> SUFFICES ASSUME IInv, [Next]_vars
               PROVE  IInv'
    OBVIOUS
  <2>1. CASE Next
    BY <2>1, FoldInvariant DEF Next
  <2>2. CASE UNCHANGED vars
    BY <2>2 DEF vars, IInv, TypeOK, CountInv, Ledger, QuorumReached, BallotOpen, WindowInv, FreshRecovery
  <2> QED
    BY <2>1, <2>2
<1> QED
  BY <1>1, InitInvariant, PTL DEF Spec

\* Whatever the log holds, the snapshot is a map of well-formed states.
THEOREM TypeCorrect == Spec => []TypeOK
BY Invariant, PTL DEF IInv

\* For every log: the counts of a schema agree with its status, so a fold that
\* lost or double-counted a transition would show.
THEOREM LedgerBalances == Spec => []Ledger
BY Invariant, PTL DEF IInv

\* For every log and every quorum: a deprecated schema has as many distinct
\* dissenters since it last came to life as the quorum asks for.
THEOREM QuorumProtects == Spec => []QuorumReached
BY Invariant, PTL DEF IInv

\* For every log: an open ballot belongs to a live schema, is below the quorum
\* and names only emitters that voted since the schema last came to life.
THEOREM BallotsStayOpen == Spec => []BallotOpen
BY Invariant, PTL DEF IInv

\* For every log: no schema is redeemed by the window that condemned it, as long as
\* last_window_id still holds that window.
THEOREM RecoveriesFresh == Spec => []FreshRecovery
BY Invariant, PTL DEF IInv

\* No log takes a count, a version or a schema back, nor leaves the DAG.
THEOREM LifecycleForward == Spec => Forward
<1>1. IInv /\ [Next]_vars =>
        [\A s \in Schema :
           LET st == snap[s]  new == snap'[s] IN
           /\ new.version >= st.version /\ new.promotes >= st.promotes
           /\ new.deprecates >= st.deprecates /\ new.recovers >= st.recovers
           /\ \/ new.status = st.status
              \/ <<st.status, new.status>> \in AllowedTransitions
              \/ st = Unknown /\ new.status = "inferred" /\ new.version = 1]_vars
  <2> SUFFICES ASSUME IInv, Next, NEW s \in Schema
               PROVE  LET st == snap[s]  new == snap'[s] IN
                      /\ new.version >= st.version /\ new.promotes >= st.promotes
                      /\ new.deprecates >= st.deprecates /\ new.recovers >= st.recovers
                      /\ \/ new.status = st.status
                         \/ <<st.status, new.status>> \in AllowedTransitions
                         \/ st = Unknown /\ new.status = "inferred" /\ new.version = 1
    OBVIOUS
  <2>1. PICK ev \in LifecycleEvent : Fold(ev)
    BY DEF Next
  <2>2. CASE s = ev.schema
    BY <2>1, <2>2, FoldStep, ApplyForward
  <2>3. CASE s # ev.schema
    <3>1. snap'[s] = snap[s] /\ snap[s] \in State
      BY <2>1, <2>3, FoldStep DEF IInv, TypeOK
    <3> QED
      BY <3>1 DEF State
  <2> QED
    BY <2>2, <2>3
<1> QED
  BY <1>1, Invariant, PTL DEF Spec, Forward

-----------------------------------------------------------------------------
(***************************************************************************)
(* The policies                                                            *)
(***************************************************************************)
\* P5: more evidence never takes a decision back to none.  More supports keep a
\* PROMOTE or a RECOVER, more contradictions keep a DEPRECATE.
THEOREM DecisionsMonotone ==
  ASSUME NEW st \in State, NEW w,
         NEW a \in Nat, NEW b \in Nat, NEW c \in Nat, NEW d \in Nat, a <= c, b <= d
  PROVE  LET less == [window |-> w, supports |-> a, contradictions |-> b]
             more == [window |-> w, supports |-> c, contradictions |-> b]
             worse == [window |-> w, supports |-> a, contradictions |-> d]
         IN  /\ Decide(st, less) \in {"promote", "recover"} => Decide(st, more) = Decide(st, less)
             /\ Decide(st, less) = "deprecate" => Decide(st, worse) = "deprecate"
BY ThresholdAssumption DEF Decide, NoDecision

\* P1-P3 against the reducer: a decision on any state with an entry is accepted,
\* for every threshold and every quorum, if its emitter has an identity.
THEOREM DecisionsLegal ==
  ASSUME NEW st \in State, st.status # "unknown", NEW s \in Schema, NEW e \in Emitter,
         NEW own \in [window : Window, supports : Nat, contradictions : Nat],
         Decide(st, own) # NoDecision
  PROVE  Legal(st, [schema |-> s, kind |-> Decide(st, own), window |-> own.window, emitter |-> e])
<1>1. st.status \in Status /\ own.window # None /\ e # None
  BY NoneAssumption DEF State
<1> QED
  BY <1>1 DEF Decide, NoDecision, Legal, Target, AllowedTransitions, FreshWindow, Status

\* The reducer not only accepts what the policy decides, it carries it out: the
\* status moves, or below the quorum the emitter is on the ballot; only the repeated
\* vote of an emitter changes nothing.
THEOREM DecisionsCarriedOut == Spec => []DecisionsAccepted
<1>1. TypeOK => DecisionsAccepted
  <2> SUFFICES ASSUME TypeOK, NEW s \in Schema, NEW own \in Evidence, NEW e \in Emitter,
                      snap[s].status # "unknown", Decide(snap[s], own) # NoDecision
               PROVE  LET st == snap[s]
                          kind == Decide(st, own)
                          new == Apply(st, [schema |-> s, kind |-> kind, window |-> own.window, emitter |-> e])
                      IN  /\ new.status = Target[kind] \/ (kind = "deprecate" /\ e \in new.ballot)
                          /\ new # st \/ e \in st.ballot
    BY DEF DecisionsAccepted
  <2> DEFINE st == snap[s]
             kind == Decide(st, own)
             ev == [schema |-> s, kind |-> kind, window |-> own.window, emitter |-> e]
             new == Apply(st, ev)
  <2>1. st \in State /\ st.status \in Status
    BY DEF TypeOK, State
  <2>2. own \in [window : Window, supports : Nat, contradictions : Nat]
    BY ThresholdAssumption DEF Evidence
  <2>3. Legal(st, ev)
    BY <2>1, <2>2, DecisionsLegal
  <2>4. \/ kind = "promote" /\ st.status = "inferred"
        \/ kind = "recover" /\ st.status = "deprecated"
        \/ kind = "deprecate" /\ st.status \in {"inferred", "promoted"}
    BY <2>1 DEF Decide, NoDecision, Status
  <2>5. ev.kind = kind /\ ev.emitter = e
    OBVIOUS
  <2> HIDE DEF st, kind, ev
  <2>6. CASE kind = "deprecate" /\ BelowQuorum(st, ev)
    <3>1. new = Voted(st, ev)
      BY <2>3, <2>5, <2>6 DEF Apply
    <3>2. new.ballot = st.ballot \cup {e}
      BY <2>5, <3>1 DEF Voted
    <3> QED
      BY <2>6, <3>2 DEF st, kind, ev
  <2>7. CASE ~(kind = "deprecate" /\ BelowQuorum(st, ev))
    <3>1. new = Moved(st, ev)
      BY <2>3, <2>4, <2>5, <2>7 DEF Apply
    <3>2. new.status = Target[kind]
      BY <2>5, <3>1 DEF Moved
    <3>3. Target[kind] # st.status
      BY <2>4 DEF Target
    <3> QED
      BY <3>2, <3>3 DEF st, kind, ev
  <2> QED
    BY <2>6, <2>7
<1> QED
  BY <1>1, TypeCorrect, PTL

\* G1 and G2: with share zero, or without sibling evidence, the family policy is
\* the bare one.
THEOREM FamilyPolicyNeutral ==
  ASSUME NEW st \in State,
         NEW own \in [window : Window, supports : Nat, contradictions : Nat],
         NEW sib \in [supports : Nat, contradictions : Nat],
         NEW num \in Nat, NEW den \in Nat \ {0},
         num = 0 \/ (sib.supports = 0 /\ sib.contradictions = 0)
  PROVE  DecideWithFamily(st, own, sib, num, den) = Decide(st, own)
<1>1. num * sib.supports = 0 /\ num * sib.contradictions = 0
  OBVIOUS
<1>2. 0 \div den = 0
  OBVIOUS
<1>3. Credited(own, sib, num, den) = own
  <2>1. (num * sib.supports) \div den = 0 /\ (num * sib.contradictions) \div den = 0
    BY <1>1, <1>2
  <2>2. own.supports + 0 = own.supports /\ own.contradictions + 0 = own.contradictions
    OBVIOUS
  <2>3. Credited(own, sib, num, den)
          = [window |-> own.window, supports |-> own.supports, contradictions |-> own.contradictions]
    BY <2>1, <2>2 DEF Credited
  <2> QED
    BY <2>3
<1>4. DecideWithFamily(st, own, sib, num, den) = Decide(st, Credited(own, sib, num, den))
  BY Zenon DEF DecideWithFamily
<1> QED
  BY <1>3, <1>4, Zenon

-----------------------------------------------------------------------------
(***************************************************************************)
(* The snapshot cache.  The inductive invariant says of the file that each *)
(* event is in it once; of the cache that the fold covers the file up to   *)
(* the offset and no event behind it; and of every call what the things it *)
(* has learned so far still mean, whoever writes or folds meanwhile.       *)
(***************************************************************************)
Running(c) == call[c].pc \notin {"idle", "done"}
Moving(c)  == call[c].pc \in {"compare", "probe", "tail", "fold"}
Checked(c) == call[c].pc \in {"probe", "tail", "fold"}
Ahead(c)   == call[c].pc \in {"tail", "fold"}

\* The cache belongs to a file, and no call is rebuilding it.
Settled == cache.key # NoFile /\ \A c \in Caller : ~Rebuilding(c)
Sound   == ~missed /\ ~crossed

Once(s)       == \A i, j \in DOMAIN s : s[i][1] = s[j][1] => i = j
OnceIn(text)  == \A i, j \in DOMAIN text : text[i] \in Event /\ text[i] = text[j] => i = j
Upto(s, n)    == \A i \in DOMAIN s : s[i][1] <= n
\* No event of s lies behind the first n cells of the file.
Folded(s, n)  == \A i \in DOMAIN s, j \in DOMAIN cells : s[i][1] = cells[j] => j <= n

\* No event is twice in the file, and none is known before it is appended.
FileInv ==
    /\ OnceIn(cells)
    /\ \A i \in DOMAIN cells : cells[i] \in Event => cells[i] <= created
    /\ Upto(cache.snap, created)
    /\ \A c \in Caller : Upto(call[c].read, created)

\* A quorum is missing only until a rebuild has read the head.
QuorumInv == cache.key # NoFile /\ cache.quorum = 0 => \E c \in Caller : call[c].pc = "head"

\* What was folded does not lie behind the offset.
OnceInv == ~crossed =>
    /\ Once(cache.snap)
    /\ cache.key # NoFile /\ (\A c \in Caller : call[c].pc # "stat") => Folded(cache.snap, cache.offset)

\* The cache holds the fold of the file up to its offset under quorum k.
Holds(k) == /\ cache.key = inode /\ cache.offset <= Len(cells)
            /\ cache.snap = Folds(FirstCells(cells, cache.offset), 0, k)

SettledInv == Sound /\ Settled =>
    /\ ~rotated => Holds(cache.quorum)
    /\ cache.prefix = <<>> => cache.offset = 0
    /\ cache.offset = 0 => cache.snap = <<>>

\* What a call knows where it stands.
KnownInv(c) ==
    /\ Running(c) => call[c].k \in QuorumChoice
    /\ Moving(c) => call[c].key \in Inode
    /\ ~crossed /\ Rebuilding(c) => Alone(c)
    /\ ~crossed /\ Checked(c) => ~Stale(c)
    /\ ~crossed /\ Ahead(c) => call[c].size # cache.offset

\* What a call has read is news.
NewsInv(c) == ~crossed /\ call[c].pc = "fold" =>
    Once(cache.snap \o call[c].read) /\ Folded(cache.snap \o call[c].read, call[c].size)

\* What stat() told a call is true of a file that only grew.
SeenInv(c) ==
    /\ Moving(c) /\ call[c].undisturbed => call[c].key = inode /\ call[c].size = Len(cells)
    /\ Moving(c) /\ ~crossed /\ ~rotated => call[c].key = inode /\ call[c].size <= Len(cells)

\* Who reads the tail continues a fold of this file, or starts from nothing.
TailInv(c) == Sound =>
    /\ call[c].pc = "tail" /\ (~rotated \/ call[c].undisturbed) => cache.prefix # <<>>
    /\ call[c].pc = "fold" => cache.prefix # <<>>
    /\ call[c].pc = "tail" /\ call[c].undisturbed /\ rotated => cache.snap = <<>> /\ cache.offset = 0
    /\ call[c].pc = "fold" /\ call[c].undisturbed /\ rotated => cache.snap = <<>> /\ call[c].read = Replay(call[c].k)
    /\ call[c].pc = "fold" /\ ~rotated =>
          LET text == FirstCells(cells, call[c].size) IN
          call[c].read = Folds(text, cache.offset, call[c].k) /\ ~SplitsLine(text, cache.offset)

RebuildInv(c) ==
    /\ ~crossed /\ call[c].pc = "stat" /\ call[c].scanned => cache.snap = Replay(call[c].k)
    /\ Sound /\ call[c].pc = "head" /\ ~rotated /\ cache.key # NoFile => Holds(call[c].k)
    /\ Sound /\ call[c].pc = "head" /\ call[c].undisturbed => cache.snap = Replay(call[c].k)

DoneInv(c) == call[c].pc = "done" /\ call[c].undisturbed => call[c].answer = Replay(call[c].k)

CallInv(c) == KnownInv(c) /\ NewsInv(c) /\ SeenInv(c) /\ TailInv(c) /\ RebuildInv(c) /\ DoneInv(c)

CacheInv == /\ CacheTypeOK /\ FileInv /\ QuorumInv /\ OnceInv /\ SettledInv
            /\ \A c \in Caller : CallInv(c)

-----------------------------------------------------------------------------
(***************************************************************************)
(* What is picked at a set of places: the n-th value stands at the place   *)
(* that has n places of the set up to itself.                              *)
(***************************************************************************)
RankOf(P, i) == Cardinality({j \in P : j <= i})

LEMMA PlaceCount ==
    ASSUME NEW m \in Nat, NEW P, P \subseteq 1 .. m
    PROVE  IsFiniteSet(P) /\ Cardinality(P) \in Nat /\ Cardinality(P) <= m
<1>1. IsFiniteSet(1 .. m) /\ Cardinality(1 .. m) = m
  BY FS_Interval
<1> QED BY <1>1, FS_Subset, FS_CardinalityType

LEMMA Ranks ==
    ASSUME NEW m \in Nat, NEW P, P \subseteq 1 .. m
    PROVE  /\ \A i \in P : RankOf(P, i) \in 1 .. Cardinality(P) /\ RankOf(P, i) <= i
           /\ \A i, j \in P : i < j => RankOf(P, i) < RankOf(P, j)
<1> DEFINE Below(i) == {j \in P : j <= i}
<1>0. \A i \in P : i \in Nat /\ i >= 1
  OBVIOUS
<1>1. \A i \in P : Below(i) \subseteq P /\ Below(i) \subseteq 1 .. i /\ i \in Below(i) /\ i \in Nat
  <2> SUFFICES ASSUME NEW i \in P
               PROVE  Below(i) \subseteq P /\ Below(i) \subseteq 1 .. i /\ i \in Below(i) /\ i \in Nat
    OBVIOUS
  <2>1. \A j \in Below(i) : j \in P /\ j \in 1 .. i
    BY <1>0
  <2>2. i \in Below(i)
    BY <1>0
  <2> QED BY <2>1, <2>2, <1>0
<1>2. IsFiniteSet(P) /\ Cardinality(P) \in Nat
  BY PlaceCount
<1>3. \A i \in P : Cardinality(Below(i)) \in Nat /\ Cardinality(Below(i)) <= i /\ IsFiniteSet(Below(i))
  BY <1>1, PlaceCount
<1>4. \A i \in P : Cardinality(Below(i)) <= Cardinality(P)
  BY <1>1, <1>2, FS_Subset
<1>5. \A i \in P : Cardinality(Below(i)) # 0
  BY <1>1, <1>3, FS_EmptySet
<1>6. ASSUME NEW i \in P, NEW j \in P, i < j
      PROVE  Cardinality(Below(i)) < Cardinality(Below(j))
  <2>1. Below(i) \subseteq Below(j)
    <3>1. \A n \in P : n <= i => n <= j
      BY <1>6, <1>0
    <3> QED BY <3>1
  <2>3. j \in Below(j) /\ j \notin Below(i)
    BY <1>6, <1>0
  <2>2. Cardinality(Below(i)) <= Cardinality(Below(j)) /\ Cardinality(Below(i)) # Cardinality(Below(j))
    BY <2>1, <2>3, <1>3, FS_Subset
  <2> QED BY <2>2, <1>3
<1>7. \A i \in P : RankOf(P, i) = Cardinality(Below(i))
  BY DEF RankOf
<1> HIDE DEF Below
<1> QED BY <1>2, <1>3, <1>4, <1>5, <1>6, <1>7

LEMMA NthPlace ==
    ASSUME NEW m \in Nat, NEW P, P \subseteq 1 .. m
    PROVE  /\ \A n \in 1 .. Cardinality(P) :
                 Nth(P, n) \in P /\ RankOf(P, Nth(P, n)) = n /\ n <= Nth(P, n)
           /\ \A i \in P : RankOf(P, i) \in 1 .. Cardinality(P) /\ Nth(P, RankOf(P, i)) = i
<1> DEFINE C == Cardinality(P)
           r == [i \in P |-> RankOf(P, i)]
<1>1. IsFiniteSet(P) /\ C \in Nat
  BY PlaceCount
<1>2. /\ \A i \in P : RankOf(P, i) \in 1 .. C /\ RankOf(P, i) <= i
      /\ \A i, j \in P : i < j => RankOf(P, i) < RankOf(P, j)
  BY Ranks
<1>3. \A i, j \in P : RankOf(P, i) = RankOf(P, j) => i = j
  BY <1>2
<1>4. r \in Injection(P, 1 .. C)
  BY <1>2, <1>3 DEF Injection, IsInjective
<1>5. IsFiniteSet(1 .. C) /\ Cardinality(1 .. C) = C
  BY <1>1, FS_Interval
<1>6. r \in Surjection(P, 1 .. C)
  BY <1>4, <1>5, FS_Injection
<1>7. \A n \in 1 .. C : \E i \in P : RankOf(P, i) = n
  BY <1>6 DEF Surjection
<1>8. \A n : Nth(P, n) = CHOOSE i \in P : RankOf(P, i) = n
  BY DEF Nth, RankOf
<1>9. \A n \in 1 .. C : Nth(P, n) \in P /\ RankOf(P, Nth(P, n)) = n
  BY <1>7, <1>8
<1>10. \A i \in P : Nth(P, RankOf(P, i)) = i
  BY <1>2, <1>3, <1>9
<1> HIDE DEF r
<1> QED BY <1>2, <1>9, <1>10

LEMMA PickedValues ==
    ASSUME NEW m \in Nat, NEW P, P \subseteq 1 .. m, NEW f, NEW S, \A i \in P : f[i] \in S
    PROVE  /\ Picked(f, P) \in Seq(S) /\ Len(Picked(f, P)) = Cardinality(P)
           /\ DOMAIN Picked(f, P) = 1 .. Cardinality(P)
           /\ \A n \in 1 .. Cardinality(P) : Nth(P, n) \in P /\ Picked(f, P)[n] = f[Nth(P, n)]
<1> DEFINE C == Cardinality(P)
<1>1. C \in Nat
  BY PlaceCount
<1>2. \A n \in 1 .. C : Nth(P, n) \in P
  BY NthPlace
<1>3. Picked(f, P) = [n \in 1 .. C |-> f[Nth(P, n)]]
  BY DEF Picked
<1>4. \A n \in 1 .. C : f[Nth(P, n)] \in S
  BY <1>2
<1> HIDE DEF C
<1>5. Picked(f, P) \in [1 .. C -> S]
  BY <1>3, <1>4
<1>6. Picked(f, P) \in Seq(S) /\ DOMAIN Picked(f, P) = 1 .. C
  BY <1>1, <1>5
<1>7. Len(Picked(f, P)) = C
  BY <1>1, <1>6
<1> QED BY <1>2, <1>3, <1>6, <1>7 DEF C

LEMMA PickedSame ==
    ASSUME NEW m \in Nat, NEW P, P \subseteq 1 .. m, NEW f, NEW g, \A i \in P : f[i] = g[i]
    PROVE  Picked(f, P) = Picked(g, P)
<1>1. \A n \in 1 .. Cardinality(P) : f[Nth(P, n)] = g[Nth(P, n)]
  BY NthPlace
<1> QED BY <1>1 DEF Picked

\* What is picked before a point and what is picked after it.
InTwo(m, P, A, B) ==
    m \in Nat /\ P = A \cup B /\ A \subseteq 1 .. m /\ B \subseteq 1 .. m /\ \A i \in A, j \in B : i < j
Values(f, P, S) == \A i \in P : f[i] \in S
Joins(w, u, v)  == w = u \o v

LEMMA PickedConcat ==
    ASSUME NEW m, NEW P, NEW A, NEW B, InTwo(m, P, A, B), NEW f, NEW S, Values(f, P, S)
    PROVE  Joins(Picked(f, P), Picked(f, A), Picked(f, B))
<1> USE DEF InTwo, Values, Joins
<1> DEFINE a == Cardinality(A)
           b == Cardinality(B)
<1>1. /\ IsFiniteSet(A) /\ IsFiniteSet(B) /\ a \in Nat /\ b \in Nat
      /\ P \subseteq 1 .. m /\ Cardinality(P) \in Nat
  BY PlaceCount
<1>2. ASSUME NEW X, NEW Y, IsFiniteSet(X), IsFiniteSet(Y), X \cap Y = {}
      PROVE  Cardinality(X \cup Y) = Cardinality(X) + Cardinality(Y)
  <2>1. Cardinality(X \cup Y) = Cardinality(X) + Cardinality(Y) - Cardinality(X \cap Y)
    BY <1>2, FS_Union
  <2>2. Cardinality(X \cap Y) = 0 /\ Cardinality(X) \in Nat /\ Cardinality(Y) \in Nat
    BY <1>2, FS_EmptySet, FS_CardinalityType
  <2> QED BY <2>1, <2>2
<1>3. A \cap B = {} /\ Cardinality(P) = a + b
  <2>1. A \cap B = {}
    BY SMT
  <2> QED BY <2>1, <1>1, <1>2
<1>4. \A i \in A : RankOf(P, i) = RankOf(A, i)
  <2> SUFFICES ASSUME NEW i \in A PROVE {j \in P : j <= i} = {j \in A : j <= i}
    BY DEF RankOf
  <2>1. \A j \in B : ~(j <= i)
    BY SMT
  <2> QED BY <2>1
<1>5. \A i \in B : RankOf(P, i) = a + RankOf(B, i)
  <2> SUFFICES ASSUME NEW i \in B PROVE RankOf(P, i) = a + RankOf(B, i)
    OBVIOUS
  <2> DEFINE Y == {j \in B : j <= i}
  <2>3. \A j \in A : j <= i
    BY SMT
  <2>1. {j \in P : j <= i} = A \cup Y /\ A \cap Y = {}
    BY <2>3, <1>3
  <2>2. IsFiniteSet(Y)
    BY <1>1, FS_Subset
  <2> QED BY <2>1, <2>2, <1>1, <1>2 DEF RankOf
<1>6. \A n \in 1 .. a : Nth(P, n) = Nth(A, n)
  <2> SUFFICES ASSUME NEW n \in 1 .. a PROVE Nth(P, n) = Nth(A, n)
    OBVIOUS
  <2>1. Nth(A, n) \in A /\ RankOf(A, Nth(A, n)) = n
    BY NthPlace
  <2>2. RankOf(P, Nth(A, n)) = n /\ Nth(A, n) \in P
    BY <2>1, <1>4
  <2>3. Nth(P, RankOf(P, Nth(A, n))) = Nth(A, n)
    BY <2>2, <1>1, NthPlace
  <2> QED BY <2>2, <2>3
<1>7. \A n \in 1 .. b : Nth(P, a + n) = Nth(B, n)
  <2> SUFFICES ASSUME NEW n \in 1 .. b PROVE Nth(P, a + n) = Nth(B, n)
    OBVIOUS
  <2>1. Nth(B, n) \in B /\ RankOf(B, Nth(B, n)) = n
    BY NthPlace
  <2>2. RankOf(P, Nth(B, n)) = a + n /\ Nth(B, n) \in P
    BY <2>1, <1>5
  <2>3. Nth(P, RankOf(P, Nth(B, n))) = Nth(B, n)
    BY <2>2, <1>1, NthPlace
  <2> QED BY <2>2, <2>3
<1>8. /\ Picked(f, P) \in Seq(S) /\ Len(Picked(f, P)) = Cardinality(P)
      /\ \A n \in 1 .. Cardinality(P) : Picked(f, P)[n] = f[Nth(P, n)]
  <2>1. m \in Nat /\ P \subseteq 1 .. m /\ \A i \in P : f[i] \in S
    BY <1>1
  <2> HIDE DEF InTwo, Values
  <2> QED BY <2>1, PickedValues
<1>9. /\ Picked(f, A) \in Seq(S) /\ Len(Picked(f, A)) = a
      /\ \A n \in 1 .. a : Picked(f, A)[n] = f[Nth(A, n)]
  BY PickedValues
<1>10. /\ Picked(f, B) \in Seq(S) /\ Len(Picked(f, B)) = b
       /\ \A n \in 1 .. b : Picked(f, B)[n] = f[Nth(B, n)]
  BY PickedValues
<1> DEFINE u == Picked(f, A)
           v == Picked(f, B)
           w == Picked(f, P)
<1> HIDE DEF a, b, u, v, w
<1>11. /\ u \o v \in Seq(S) /\ Len(u \o v) = a + b
       /\ \A n \in 1 .. a + b : (u \o v)[n] = IF n <= a THEN u[n] ELSE v[n - a]
  BY <1>9, <1>10, ConcatProperties DEF u, v
<1>12. ASSUME NEW n \in 1 .. a + b PROVE (u \o v)[n] = w[n]
  <2>1. CASE n <= a
    <3>1. n \in 1 .. a
      BY <2>1, <1>1
    <3> QED BY <3>1, <2>1, <1>11, <1>9, <1>8, <1>6, <1>3 DEF u, w
  <2>2. CASE ~(n <= a)
    <3>1. n - a \in 1 .. b /\ a + (n - a) = n
      BY <2>2, <1>1
    <3>2. Nth(P, n) = Nth(B, n - a)
      BY <3>1, <1>7
    <3> QED BY <3>1, <3>2, <2>2, <1>11, <1>10, <1>8, <1>3 DEF v, w
  <2> QED BY <2>1, <2>2
<1>13. u \o v = w
  BY <1>11, <1>12, <1>8, <1>3, SeqEqual DEF w
<1> QED BY <1>13 DEF u, v, w

-----------------------------------------------------------------------------
(***************************************************************************)
(* Texts and what is folded of them.                                       *)
(***************************************************************************)
LEMMA Bounds ==
    /\ MaxCreated \in Nat /\ MaxRewrites \in Nat /\ MaxFaults \in Nat /\ MaxCalls \in Nat
    /\ Event \subseteq Nat \ {0} /\ Event \subseteq Cell /\ NL \in Cell /\ Torn \in Cell /\ NL \notin Event /\ Torn \notin Event
    /\ QuorumChoice \subseteq Nat \ {0} /\ NoFile \notin Inode
BY BoundsAssumption, ChoiceAssumption, InodeAssumption DEF Event, Cell, NL, Torn

LEMMA FirstCellsOf ==
    ASSUME NEW text \in Seq(Cell), NEW n \in Nat
    PROVE  /\ FirstCells(text, n) \in Seq(Cell)
           /\ Len(FirstCells(text, n)) = IF n < Len(text) THEN n ELSE Len(text)
           /\ \A i \in 1 .. Len(text) : i <= n => FirstCells(text, n)[i] = text[i]
           /\ Len(text) <= n => FirstCells(text, n) = text
<1> DEFINE m == IF n < Len(text) THEN n ELSE Len(text)
<1>1. m \in Nat /\ m <= Len(text) /\ m <= n /\ Len(text) \in Nat /\ \A i \in 1 .. m : text[i] \in Cell
  OBVIOUS
<1>2. FirstCells(text, n) = SubSeq(text, 1, m)
  BY DEF FirstCells
<1> HIDE DEF m
<1>3. /\ SubSeq(text, 1, m) \in Seq(Cell)
      /\ Len(SubSeq(text, 1, m)) = IF 1 <= m THEN m - 1 + 1 ELSE 0
      /\ \A i \in 1 .. m - 1 + 1 : SubSeq(text, 1, m)[i] = text[1 + i - 1]
  BY <1>1, SubSeqProperties
<1>4. Len(SubSeq(text, 1, m)) = m /\ \A i \in 1 .. m : SubSeq(text, 1, m)[i] = text[i]
  BY <1>1, <1>3
<1>5. \A i \in 1 .. Len(text) : i <= n => i \in 1 .. m
  BY DEF m
<1>6. ASSUME Len(text) <= n PROVE SubSeq(text, 1, m) = text
  <2>1. m = Len(text)
    BY <1>6, <1>1 DEF m
  <2> QED BY <2>1, SubSeqFull
<1> QED BY <1>2, <1>3, <1>4, <1>5, <1>6 DEF m

\* Two texts that begin alike.
LEMMA FirstCellsSame ==
    ASSUME NEW text \in Seq(Cell), NEW other \in Seq(Cell), NEW n \in Nat,
           n <= Len(text), n <= Len(other), \A i \in 1 .. n : text[i] = other[i]
    PROVE  FirstCells(text, n) = FirstCells(other, n)
<1> DEFINE u == FirstCells(text, n)
           v == FirstCells(other, n)
<1>0. Len(text) \in Nat /\ Len(other) \in Nat
  OBVIOUS
<1>1. /\ u \in Seq(Cell) /\ Len(u) = n /\ \A i \in 1 .. n : u[i] = text[i]
  <2>1. /\ u \in Seq(Cell) /\ Len(u) = IF n < Len(text) THEN n ELSE Len(text)
        /\ \A i \in 1 .. Len(text) : i <= n => u[i] = text[i]
    BY FirstCellsOf
  <2> HIDE DEF u
  <2> QED BY <2>1, <1>0
<1>2. /\ v \in Seq(Cell) /\ Len(v) = n /\ \A i \in 1 .. n : v[i] = other[i]
  <2>1. /\ v \in Seq(Cell) /\ Len(v) = IF n < Len(other) THEN n ELSE Len(other)
        /\ \A i \in 1 .. Len(other) : i <= n => v[i] = other[i]
    BY FirstCellsOf
  <2> HIDE DEF v
  <2> QED BY <2>1, <1>0
<1> HIDE DEF u, v
<1>3. u = v
  BY <1>1, <1>2, SeqEqual
<1> QED BY <1>3 DEF u, v

LEMMA FirstCellsFirst ==
    ASSUME NEW text \in Seq(Cell), NEW n \in Nat, NEW m \in Nat, n <= m, m <= Len(text)
    PROVE  FirstCells(FirstCells(text, m), n) = FirstCells(text, n)
<1> DEFINE u == FirstCells(text, m)
<1>1. /\ u \in Seq(Cell) /\ Len(u) = (IF m < Len(text) THEN m ELSE Len(text)) /\ Len(text) \in Nat
      /\ \A i \in 1 .. Len(text) : i <= m => u[i] = text[i]
  BY FirstCellsOf
<1> HIDE DEF u
<1>2. Len(u) = m /\ n <= Len(u) /\ n <= Len(text) /\ \A i \in 1 .. n : u[i] = text[i]
  BY <1>1
<1>3. FirstCells(u, n) = FirstCells(text, n)
  BY <1>1, <1>2, FirstCellsSame
<1> QED BY <1>3 DEF u

Tagged(text, k)    == [i \in DOMAIN text |-> <<text[i], k>>]
Folding(text, from) == {i \in Decoded(text, from) : text[i] \in Lifecycle}

LEMMA FoldingPlaces ==
    ASSUME NEW text \in Seq(Cell), NEW from \in Nat, NEW k
    PROVE  /\ Folds(text, from, k) = Picked(Tagged(text, k), Folding(text, from))
           /\ Folding(text, from) \subseteq 1 .. Len(text)
           /\ \A i \in Folding(text, from) : i > from /\ i <= Len(text) /\ text[i] \in Event
                                             /\ Tagged(text, k)[i] = <<text[i], k>>
<1>1. Folds(text, from, k) = Picked(Tagged(text, k), Folding(text, from))
  BY DEF Folds, Tagged, Folding
<1>2. \A i \in Folding(text, from) : i \in from + 1 .. Len(text) /\ text[i] \in Event
  BY DEF Folding, Decoded, IsLine
<1>3. \A i \in Folding(text, from) : i > from /\ i <= Len(text) /\ i \in 1 .. Len(text)
  BY <1>2
<1> QED BY <1>1, <1>2, <1>3 DEF Tagged

LEMMA FoldsAre ==
    ASSUME NEW text \in Seq(Cell), NEW from \in Nat, NEW k \in QuorumChoice
    PROVE  /\ Folds(text, from, k) \in Seq(Event \X QuorumChoice)
           /\ \A n \in DOMAIN Folds(text, from, k) :
                 \E i \in 1 .. Len(text) : i > from /\ text[i] \in Event /\ Folds(text, from, k)[n][1] = text[i]
           /\ OnceIn(text) => Once(Folds(text, from, k))
<1> DEFINE P == Folding(text, from)
           g == Tagged(text, k)
           s == Folds(text, from, k)
<1>1. /\ s = Picked(g, P) /\ P \subseteq 1 .. Len(text)
      /\ \A i \in P : i > from /\ i <= Len(text) /\ text[i] \in Event /\ g[i] = <<text[i], k>>
  BY FoldingPlaces
<1> HIDE DEF P, g, s
<1>2. \A i \in P : g[i] \in Event \X QuorumChoice
  <2> SUFFICES ASSUME NEW i \in P PROVE g[i] \in Event \X QuorumChoice
    OBVIOUS
  <2>1. g[i] = <<text[i], k>> /\ text[i] \in Event
    BY <1>1
  <2> QED BY <2>1
<1>3. /\ s \in Seq(Event \X QuorumChoice) /\ DOMAIN s = 1 .. Cardinality(P)
      /\ \A n \in 1 .. Cardinality(P) : Nth(P, n) \in P /\ s[n] = g[Nth(P, n)]
  <2>1. Len(text) \in Nat
    OBVIOUS
  <2> QED BY <2>1, <1>1, <1>2, PickedValues
<1>4. \A n \in DOMAIN s : Nth(P, n) \in P /\ s[n][1] = text[Nth(P, n)]
  <2> SUFFICES ASSUME NEW n \in DOMAIN s PROVE Nth(P, n) \in P /\ s[n][1] = text[Nth(P, n)]
    OBVIOUS
  <2>1. Nth(P, n) \in P /\ s[n] = g[Nth(P, n)]
    BY <1>3
  <2>2. g[Nth(P, n)] = <<text[Nth(P, n)], k>>
    BY <2>1, <1>1
  <2> QED BY <2>1, <2>2
<1>5. \A n \in DOMAIN s : \E i \in 1 .. Len(text) : i > from /\ text[i] \in Event /\ s[n][1] = text[i]
  BY <1>1, <1>4
<1>6. ASSUME OnceIn(text), NEW n \in DOMAIN s, NEW l \in DOMAIN s, s[n][1] = s[l][1]
      PROVE  n = l
  <2>1. Nth(P, n) = Nth(P, l)
    <3>1. Nth(P, n) \in P /\ Nth(P, l) \in P /\ text[Nth(P, n)] = text[Nth(P, l)]
      BY <1>6, <1>4
    <3>2. Nth(P, n) \in DOMAIN text /\ Nth(P, l) \in DOMAIN text /\ text[Nth(P, n)] \in Event
      <4>1. DOMAIN text = 1 .. Len(text) /\ P \subseteq DOMAIN text /\ \A i \in P : text[i] \in Event
        BY <1>1
      <4> QED BY <3>1, <4>1
    <3> QED BY <3>1, <3>2, <1>6 DEF OnceIn
  <2>2. RankOf(P, Nth(P, n)) = n /\ RankOf(P, Nth(P, l)) = l
    <3>1. Len(text) \in Nat /\ n \in 1 .. Cardinality(P) /\ l \in 1 .. Cardinality(P)
      BY <1>3, <1>6
    <3> QED BY <3>1, <1>1, NthPlace
  <2> QED BY <2>1, <2>2
<1> QED BY <1>3, <1>5, <1>6 DEF s, Once

LEMMA FoldsNothing ==
    ASSUME NEW text \in Seq(Cell), NEW from \in Nat, NEW k \in QuorumChoice, Len(text) <= from
    PROVE  Folds(text, from, k) = <<>>
<1> DEFINE s == Folds(text, from, k)
<1>1. s \in Seq(Event \X QuorumChoice) /\ \A n \in DOMAIN s : \E i \in 1 .. Len(text) : i > from
  BY FoldsAre
<1> HIDE DEF s
<1>2. Len(text) \in Nat /\ ~\E i \in 1 .. Len(text) : i > from
  OBVIOUS
<1>3. DOMAIN s = {}
  BY <1>1, <1>2
<1>4. Len(s) \in Nat /\ DOMAIN s = 1 .. Len(s)
  BY <1>1
<1>5. s = <<>>
  BY <1>1, <1>3, <1>4
<1> QED BY <1>5 DEF s

\* Reading in two parts, where the first does not end within a line.
LEMMA FoldsSplit ==
    ASSUME NEW text \in Seq(Cell), NEW n \in Nat, n <= Len(text), ~SplitsLine(text, n), NEW k \in QuorumChoice
    PROVE  Folds(text, 0, k) = Folds(FirstCells(text, n), 0, k) \o Folds(text, n, k)
<1> DEFINE first == FirstCells(text, n)
           A == Folding(first, 0)
           B == Folding(text, n)
<1>1. /\ first \in Seq(Cell) /\ Len(first) = n /\ Len(text) \in Nat
      /\ \A i \in 1 .. n : first[i] = text[i]
  <2>1. /\ first \in Seq(Cell) /\ Len(first) = IF n < Len(text) THEN n ELSE Len(text)
        /\ \A i \in 1 .. Len(text) : i <= n => first[i] = text[i]
    BY FirstCellsOf
  <2> HIDE DEF first
  <2>2. Len(text) \in Nat
    OBVIOUS
  <2> QED BY <2>1, <2>2
<1> HIDE DEF first
<1>2. \A i \in 1 .. n : IsLine(first, 0, i) <=> IsLine(text, 0, i)
  <2> SUFFICES ASSUME NEW i \in 1 .. n PROVE IsLine(first, 0, i) <=> IsLine(text, 0, i)
    OBVIOUS
  <2>1. first[i] = text[i]
    BY <1>1
  <2>2. i = 0 + 1 \/ (i - 1 \in 1 .. n /\ first[i - 1] = text[i - 1])
    BY <1>1
  <2>3. CASE i < n
    <3>1. first[i + 1] = text[i + 1] /\ i # Len(first) /\ i # Len(text)
      BY <2>3, <1>1
    <3> QED BY <2>1, <2>2, <3>1 DEF IsLine
  <2>4. CASE i = n
    <3>1. text[n] \in Event => n = Len(text) \/ text[n + 1] = NL
      <4>1. text[n] \in Event => text[n] # NL
        BY Bounds
      <4> QED BY <4>1, <2>4, <1>1 DEF SplitsLine
    <3> QED BY <2>1, <2>2, <2>4, <3>1, <1>1 DEF IsLine
  <2> QED BY <2>3, <2>4
<1>3. \A i \in n + 1 .. Len(text) : IsLine(text, n, i) <=> IsLine(text, 0, i)
  <2> SUFFICES ASSUME NEW i \in n + 1 .. Len(text) PROVE IsLine(text, n, i) <=> IsLine(text, 0, i)
    OBVIOUS
  <2>1. CASE i > n + 1
    <3>1. i # n + 1 /\ i # 0 + 1
      BY <2>1
    <3> QED BY <3>1 DEF IsLine
  <2>2. CASE i = n + 1
    <3>1. text[i] \in Event => n = 0 \/ text[n] = NL
      <4>1. text[n + 1] \in Event => text[n + 1] # NL
        BY Bounds
      <4> QED BY <4>1, <2>2, <1>1 DEF SplitsLine
    <3>2. i - 1 = n /\ (i = 0 + 1 <=> n = 0)
      BY <2>2
    <3> QED BY <2>2, <3>1, <3>2 DEF IsLine
  <2> QED BY <2>1, <2>2
<1>4. Folding(text, 0) = A \cup B
  <2>1. Decoded(first, 0) = {i \in 1 .. n : IsLine(first, 0, i)}
    BY <1>1 DEF Decoded
  <2>2. Decoded(text, 0) = {i \in 1 .. Len(text) : IsLine(text, 0, i)}
    BY DEF Decoded
  <2>3. Decoded(text, n) = {i \in n + 1 .. Len(text) : IsLine(text, n, i)}
    BY DEF Decoded
  <2>4. \A i : i \in 1 .. Len(text) <=> i \in 1 .. n \/ i \in n + 1 .. Len(text)
    BY <1>1
  <2>5. Decoded(text, 0) = Decoded(first, 0) \cup Decoded(text, n)
    BY <2>1, <2>2, <2>3, <2>4, <1>2, <1>3
  <2>6. \A i \in Decoded(first, 0) : first[i] = text[i]
    BY <2>1, <1>1
  <2> QED BY <2>5, <2>6 DEF Folding
<1>5. /\ A \subseteq 1 .. n
      /\ \A i \in A : i <= n /\ first[i] \in Event /\ Tagged(first, k)[i] = <<first[i], k>>
      /\ Folds(first, 0, k) = Picked(Tagged(first, k), A)
  BY <1>1, FoldingPlaces
<1>6. /\ B \subseteq 1 .. Len(text)
      /\ \A i \in B : i > n /\ i <= Len(text) /\ text[i] \in Event /\ Tagged(text, k)[i] = <<text[i], k>>
      /\ Folds(text, n, k) = Picked(Tagged(text, k), B)
  BY FoldingPlaces
<1>7. Folds(text, 0, k) = Picked(Tagged(text, k), Folding(text, 0))
  BY FoldingPlaces
<1> HIDE DEF A, B
<1>8. \A i \in A : Tagged(first, k)[i] = Tagged(text, k)[i]
  <2>1. \A i \in A : i \in DOMAIN text /\ first[i] = text[i]
    BY <1>5, <1>1
  <2> QED BY <2>1, <1>5 DEF Tagged
<1>9. Picked(Tagged(first, k), A) = Picked(Tagged(text, k), A)
  BY <1>5, <1>8, PickedSame
<1>10. A \subseteq 1 .. Len(text) /\ \A i \in A, j \in B : i < j
  BY <1>5, <1>6, <1>1
<1>11. \A i \in A \cup B : Tagged(text, k)[i] \in Event \X QuorumChoice
  <2>1. \A i \in A : <<first[i], k>> \in Event \X QuorumChoice
    BY <1>5
  <2>2. \A i \in B : <<text[i], k>> \in Event \X QuorumChoice
    BY <1>6
  <2> QED BY <2>1, <2>2, <1>5, <1>6, <1>8
<1>12. Picked(Tagged(text, k), Folding(text, 0)) = Picked(Tagged(text, k), A) \o Picked(Tagged(text, k), B)
  <2> DEFINE g == Tagged(text, k)
             S == Event \X QuorumChoice
             m == Len(text)
  <2>1. Values(g, Folding(text, 0), S)
    BY <1>11, <1>4 DEF Values
  <2>2. InTwo(m, Folding(text, 0), A, B)
    BY <1>4, <1>6, <1>10, <1>1 DEF InTwo
  <2> HIDE DEF g, S, m
  <2>3. Joins(Picked(g, Folding(text, 0)), Picked(g, A), Picked(g, B))
    BY <2>1, <2>2, PickedConcat
  <2> QED BY <2>3 DEF g, Joins
<1> QED BY <1>4, <1>5, <1>6, <1>7, <1>9, <1>12 DEF first

-----------------------------------------------------------------------------
(***************************************************************************)
(* Snapshots and the events of a file.                                     *)
(***************************************************************************)
Snapshots == Seq(Event \X QuorumChoice)

LEMMA SnapshotValues ==
    ASSUME NEW s \in Snapshots
    PROVE  /\ Len(s) \in Nat /\ DOMAIN s = 1 .. Len(s)
           /\ \A i \in DOMAIN s : s[i][1] \in Event
BY DEF Snapshots

LEMMA JoinedValues ==
    ASSUME NEW s \in Snapshots, NEW r \in Snapshots
    PROVE  /\ s \o r \in Snapshots
           /\ \A i \in DOMAIN (s \o r) :
                 \/ i \in DOMAIN s /\ (s \o r)[i] = s[i]
                 \/ i - Len(s) \in DOMAIN r /\ (s \o r)[i] = r[i - Len(s)]
<1>1. /\ s \o r \in Snapshots /\ Len(s \o r) = Len(s) + Len(r)
      /\ \A i \in 1 .. Len(s) + Len(r) : (s \o r)[i] = IF i <= Len(s) THEN s[i] ELSE r[i - Len(s)]
  BY ConcatProperties DEF Snapshots
<1>2. /\ Len(s) \in Nat /\ DOMAIN s = 1 .. Len(s) /\ Len(r) \in Nat /\ DOMAIN r = 1 .. Len(r)
  BY SnapshotValues
<1> DEFINE w == s \o r
<1> HIDE DEF w
<1>3. DOMAIN w = 1 .. Len(s) + Len(r)
  BY <1>1, SnapshotValues DEF w
<1>4. ASSUME NEW i \in DOMAIN w
      PROVE  \/ i \in DOMAIN s /\ w[i] = s[i]
             \/ i - Len(s) \in DOMAIN r /\ w[i] = r[i - Len(s)]
  <2>1. CASE i <= Len(s)
    BY <2>1, <1>1, <1>2, <1>3 DEF w
  <2>2. CASE ~(i <= Len(s))
    BY <2>2, <1>1, <1>2, <1>3 DEF w
  <2> QED BY <2>1, <2>2
<1> QED BY <1>1, <1>4 DEF w

LEMMA JoinedUpto ==
    ASSUME NEW s \in Snapshots, NEW r \in Snapshots, NEW n, Upto(s, n), Upto(r, n)
    PROVE  Upto(s \o r, n)
BY JoinedValues DEF Upto

\* The events of a text that is read up to m.
LEMMA FirstCellsOnce ==
    ASSUME NEW text \in Seq(Cell), OnceIn(text), NEW m \in Nat
    PROVE  OnceIn(FirstCells(text, m))
<1> DEFINE u == FirstCells(text, m)
<1>1. /\ u \in Seq(Cell) /\ Len(u) = (IF m < Len(text) THEN m ELSE Len(text)) /\ Len(text) \in Nat
      /\ \A i \in 1 .. Len(text) : i <= m => u[i] = text[i]
  BY FirstCellsOf
<1> HIDE DEF u
<1>2. \A i \in DOMAIN u : i \in DOMAIN text /\ u[i] = text[i]
  BY <1>1
<1>3. OnceIn(u)
  BY <1>2 DEF OnceIn
<1> QED BY <1>3 DEF u

LEMMA FoldsUpto ==
    ASSUME NEW text \in Seq(Cell), NEW from \in Nat, NEW k \in QuorumChoice, NEW n,
           \A i \in DOMAIN text : text[i] \in Event => text[i] <= n
    PROVE  Upto(Folds(text, from, k), n)
<1>1. \A j \in DOMAIN Folds(text, from, k) :
         \E i \in 1 .. Len(text) : i > from /\ text[i] \in Event /\ Folds(text, from, k)[j][1] = text[i]
  BY FoldsAre
<1>2. DOMAIN text = 1 .. Len(text)
  OBVIOUS
<1> QED BY <1>1, <1>2 DEF Upto

\* What is read from the offset up to m is new to a snapshot of what lies before.
LEMMA FoldsOnTop ==
    ASSUME cells \in Seq(Cell), OnceIn(cells), NEW s \in Snapshots, Once(s), NEW n \in Nat, NEW m \in Nat,
           n <= m, Folded(s, n), NEW k \in QuorumChoice
    PROVE  /\ Once(s \o Folds(FirstCells(cells, m), n, k))
           /\ Folded(s \o Folds(FirstCells(cells, m), n, k), m)
<1> DEFINE u == FirstCells(cells, m)
           r == Folds(u, n, k)
           w == s \o r
<1>1. /\ u \in Seq(Cell) /\ Len(u) = (IF m < Len(cells) THEN m ELSE Len(cells)) /\ Len(cells) \in Nat
      /\ \A i \in 1 .. Len(cells) : i <= m => u[i] = cells[i]
  BY FirstCellsOf
<1>2. OnceIn(u)
  BY FirstCellsOnce
<1>3. /\ r \in Snapshots /\ Once(r)
      /\ \A j \in DOMAIN r : \E i \in 1 .. Len(u) : i > n /\ u[i] \in Event /\ r[j][1] = u[i]
  BY <1>1, <1>2, FoldsAre DEF Snapshots
<1> HIDE DEF u, r
<1>4. \A j \in DOMAIN r : \E i \in DOMAIN cells : i > n /\ i <= m /\ cells[i] \in Event /\ r[j][1] = cells[i]
  BY <1>1, <1>3
<1>5. \A i \in DOMAIN w : \/ i \in DOMAIN s /\ w[i] = s[i]
                          \/ i - Len(s) \in DOMAIN r /\ w[i] = r[i - Len(s)]
  BY <1>3, JoinedValues
<1>6. /\ w \in Snapshots /\ Len(s) \in Nat /\ DOMAIN w = 1 .. Len(w) /\ Len(w) \in Nat
  BY <1>3, JoinedValues, SnapshotValues
<1>7. \A i \in DOMAIN s, j \in DOMAIN r : s[i][1] # r[j][1]
  <2> SUFFICES ASSUME NEW i \in DOMAIN s, NEW j \in DOMAIN r, s[i][1] = r[j][1] PROVE FALSE
    OBVIOUS
  <2>1. PICK l \in DOMAIN cells : l > n /\ r[j][1] = cells[l]
    BY <1>4
  <2>2. l <= n
    BY <2>1 DEF Folded
  <2> QED BY <2>1, <2>2
<1> HIDE DEF w
<1>8. ASSUME NEW i \in DOMAIN w, NEW j \in DOMAIN w, w[i][1] = w[j][1]
      PROVE  i = j
  <2>1. i \in Int /\ j \in Int
    BY <1>6
  <2>2. CASE i \in DOMAIN s /\ w[i] = s[i] /\ j \in DOMAIN s /\ w[j] = s[j]
    BY <2>2, <1>8 DEF Once
  <2>3. CASE i - Len(s) \in DOMAIN r /\ w[i] = r[i - Len(s)] /\ j - Len(s) \in DOMAIN r /\ w[j] = r[j - Len(s)]
    <3>1. i - Len(s) = j - Len(s)
      BY <2>3, <1>8, <1>3 DEF Once
    <3> QED BY <3>1, <2>1, <1>6
  <2>4. CASE i \in DOMAIN s /\ w[i] = s[i] /\ j - Len(s) \in DOMAIN r /\ w[j] = r[j - Len(s)]
    BY <2>4, <1>8, <1>7
  <2>5. CASE i - Len(s) \in DOMAIN r /\ w[i] = r[i - Len(s)] /\ j \in DOMAIN s /\ w[j] = s[j]
    BY <2>5, <1>8, <1>7
  <2> QED BY <1>5, <2>2, <2>3, <2>4, <2>5
<1>9. ASSUME NEW i \in DOMAIN w, NEW j \in DOMAIN cells, w[i][1] = cells[j]
      PROVE  j <= m
  <2>1. CASE i \in DOMAIN s /\ w[i] = s[i]
    <3>1. j <= n
      BY <2>1, <1>9 DEF Folded
    <3> QED BY <3>1
  <2>2. CASE i - Len(s) \in DOMAIN r /\ w[i] = r[i - Len(s)]
    <3>1. PICK l \in DOMAIN cells : l <= m /\ cells[l] \in Event /\ r[i - Len(s)][1] = cells[l]
      BY <2>2, <1>4
    <3>2. l = j
      BY <3>1, <2>2, <1>9 DEF OnceIn
    <3> QED BY <3>1, <3>2
  <2> QED BY <1>5, <2>1, <2>2
<1>10. Once(w) /\ Folded(w, m)
  BY <1>8, <1>9 DEF Once, Folded
<1> QED BY <1>10 DEF w, r, u

\* A text from which lines were taken out: no event moves back.
LEMMA PickedKeeps ==
    ASSUME NEW text \in Seq(Cell), NEW P, P \subseteq 1 .. Len(text)
    PROVE  /\ Picked(text, P) \in Seq(Cell)
           /\ OnceIn(text) => OnceIn(Picked(text, P))
           /\ \A n \in DOMAIN Picked(text, P) : \E i \in DOMAIN text : i >= n /\ text[i] = Picked(text, P)[n]
<1> DEFINE w == Picked(text, P)
           C == Cardinality(P)
<1>1. Len(text) \in Nat /\ DOMAIN text = 1 .. Len(text) /\ \A i \in P : text[i] \in Cell
  OBVIOUS
<1>2. /\ w \in Seq(Cell) /\ DOMAIN w = 1 .. C
      /\ \A n \in 1 .. C : w[n] = text[Nth(P, n)]
  BY <1>1, PickedValues
<1>3. \A n \in 1 .. C : Nth(P, n) \in P /\ RankOf(P, Nth(P, n)) = n /\ n <= Nth(P, n)
  BY <1>1, NthPlace
<1> HIDE DEF w, C
<1>4. ASSUME NEW n \in DOMAIN w PROVE \E i \in DOMAIN text : i >= n /\ text[i] = w[n]
  <2>1. Nth(P, n) \in 1 .. Len(text) /\ n <= Nth(P, n) /\ w[n] = text[Nth(P, n)] /\ n \in 1 .. C
    BY <1>2, <1>3
  <2>2. Nth(P, n) \in DOMAIN text /\ Nth(P, n) >= n
    BY <2>1, <1>1, PlaceCount DEF C
  <2> QED BY <2>1, <2>2
<1>5. ASSUME OnceIn(text), NEW i \in DOMAIN w, NEW j \in DOMAIN w, w[i] \in Event, w[i] = w[j]
      PROVE  i = j
  <2>1. Nth(P, i) \in DOMAIN text /\ Nth(P, j) \in DOMAIN text /\ text[Nth(P, i)] \in Event
        /\ text[Nth(P, i)] = text[Nth(P, j)]
    BY <1>1, <1>2, <1>3, <1>5
  <2>2. Nth(P, i) = Nth(P, j)
    BY <2>1, <1>5 DEF OnceIn
  <2> QED BY <2>2, <1>2, <1>3
<1> QED BY <1>2, <1>4, <1>5 DEF w, OnceIn

LEMMA WithoutKeeps ==
    ASSUME NEW text \in Seq(Cell), NEW before
    PROVE  /\ Without(text, before) \in Seq(Cell)
           /\ OnceIn(text) => OnceIn(Without(text, before))
           /\ \A n \in DOMAIN Without(text, before) :
                 \E i \in DOMAIN text : i >= n /\ text[i] = Without(text, before)[n]
<1>1. \E P \in SUBSET DOMAIN text : Without(text, before) = Picked(text, P)
  BY DEF Without
<1>2. PICK P \in SUBSET DOMAIN text : Without(text, before) = Picked(text, P)
  BY <1>1
<1>3. P \subseteq 1 .. Len(text)
  OBVIOUS
<1> QED BY <1>2, <1>3, PickedKeeps

\* A text with something written behind it.
LEMMA GrownText ==
    ASSUME NEW text \in Seq(Cell), NEW more \in Seq(Cell)
    PROVE  /\ text \o more \in Seq(Cell) /\ DOMAIN (text \o more) = 1 .. Len(text \o more)
           /\ Len(text \o more) = Len(text) + Len(more) /\ Len(text) \in Nat /\ Len(more) \in Nat
           /\ \A i \in 1 .. Len(text) : (text \o more)[i] = text[i]
           /\ \A i \in DOMAIN (text \o more) :
                 \/ i \in DOMAIN text /\ (text \o more)[i] = text[i]
                 \/ i > Len(text) /\ i - Len(text) \in DOMAIN more /\ (text \o more)[i] = more[i - Len(text)]
<1> DEFINE w == text \o more
<1>1. /\ w \in Seq(Cell) /\ Len(w) = Len(text) + Len(more)
      /\ \A i \in 1 .. Len(text) + Len(more) : w[i] = IF i <= Len(text) THEN text[i] ELSE more[i - Len(text)]
  BY ConcatProperties
<1>2. /\ Len(text) \in Nat /\ DOMAIN text = 1 .. Len(text) /\ Len(more) \in Nat /\ DOMAIN more = 1 .. Len(more)
  OBVIOUS
<1> HIDE DEF w
<1>3. DOMAIN w = 1 .. Len(w)
  BY <1>1
<1>4. \A i \in 1 .. Len(text) : w[i] = text[i]
  BY <1>1, <1>2
<1>5. ASSUME NEW i \in DOMAIN w
      PROVE  \/ i \in DOMAIN text /\ w[i] = text[i]
             \/ i > Len(text) /\ i - Len(text) \in DOMAIN more /\ w[i] = more[i - Len(text)]
  <2>1. CASE i <= Len(text)
    BY <2>1, <1>1, <1>2, <1>3
  <2>2. CASE ~(i <= Len(text))
    BY <2>2, <1>1, <1>2, <1>3
  <2> QED BY <2>1, <2>2
<1> QED BY <1>1, <1>2, <1>3, <1>4, <1>5 DEF w

LEMMA AppendedText ==
    ASSUME NEW text \in Seq(Cell), NEW cell \in Cell
    PROVE  Append(text, cell) = text \o <<cell>>
<1>1. /\ text \o <<cell>> \in Seq(Cell) /\ Len(text \o <<cell>>) = Len(text) + 1 /\ Len(text) \in Nat
      /\ \A i \in 1 .. Len(text) + 1 : (text \o <<cell>>)[i] = IF i <= Len(text) THEN text[i] ELSE <<cell>>[i - Len(text)]
  <2>1. <<cell>> \in Seq(Cell) /\ Len(<<cell>>) = 1
    OBVIOUS
  <2> QED BY <2>1, ConcatProperties
<1>2. /\ Append(text, cell) \in Seq(Cell) /\ Len(Append(text, cell)) = Len(text) + 1
      /\ \A i \in 1 .. Len(text) + 1 : Append(text, cell)[i] = IF i <= Len(text) THEN text[i] ELSE cell
  BY AppendProperties
<1>3. \A i \in 1 .. Len(text) + 1 : ~(i <= Len(text)) => i - Len(text) = 1
  BY <1>1
<1>4. <<cell>>[1] = cell
  OBVIOUS
<1> DEFINE u == text \o <<cell>>
           v == Append(text, cell)
<1> HIDE DEF u, v
<1>5. \A i \in 1 .. Len(text) + 1 : u[i] = v[i]
  BY <1>1, <1>2, <1>3, <1>4 DEF u, v
<1>6. u = v
  BY <1>1, <1>2, <1>5, SeqEqual DEF u, v
<1> QED BY <1>6 DEF u, v

-----------------------------------------------------------------------------
(***************************************************************************)
(* What the type invariant says of each variable, and what a step does to  *)
(* the calls.                                                              *)
(***************************************************************************)
CallRec == [pc : Label, k : QuorumChoice \cup {0}, key : Inode \cup {NoFile}, size : Nat,
            undisturbed : BOOLEAN, scanned : BOOLEAN, read : Snapshots, answer : Snapshots]

CacheRec == [offset : Nat, key : Inode \cup {NoFile}, prefix : Seq(Cell),
             snap : Snapshots, quorum : QuorumChoice \cup {0}]

LEMMA Typed ==
    CacheTypeOK <=>
        /\ cells \in Seq(Cell) /\ inode \in Inode /\ cache \in CacheRec /\ call \in [Caller -> CallRec]
        /\ created \in 0 .. MaxCreated /\ rewrites \in 0 .. MaxRewrites
        /\ faults \in 0 .. MaxFaults /\ calls \in 0 .. MaxCalls
        /\ {rotated, missed, crossed} \subseteq BOOLEAN
        /\ cache.key = NoFile => cache.offset = 0
BY DEF CacheTypeOK, CallRec, CacheRec, Snapshots

LEMMA TypedNext ==
    CacheTypeOK' <=>
        /\ cells' \in Seq(Cell) /\ inode' \in Inode /\ cache' \in CacheRec /\ call' \in [Caller -> CallRec]
        /\ created' \in 0 .. MaxCreated /\ rewrites' \in 0 .. MaxRewrites
        /\ faults' \in 0 .. MaxFaults /\ calls' \in 0 .. MaxCalls
        /\ {rotated', missed', crossed'} \subseteq BOOLEAN
        /\ cache'.key = NoFile => cache'.offset = 0
BY DEF CacheTypeOK, CallRec, CacheRec, Snapshots

LEMMA Fields ==
    ASSUME CacheTypeOK
    PROVE  /\ cells \in Seq(Cell) /\ Len(cells) \in Nat /\ DOMAIN cells = 1 .. Len(cells) /\ inode \in Inode
           /\ cache \in CacheRec /\ call \in [Caller -> CallRec]
           /\ cache.offset \in Nat /\ cache.key \in Inode \cup {NoFile} /\ cache.prefix \in Seq(Cell)
           /\ cache.snap \in Snapshots /\ cache.quorum \in QuorumChoice \cup {0}
           /\ created \in Nat /\ created <= MaxCreated
           /\ \A c \in Caller :
                 /\ call[c] \in CallRec /\ call[c].pc \in Label /\ call[c].k \in QuorumChoice \cup {0}
                 /\ call[c].key \in Inode \cup {NoFile} /\ call[c].size \in Nat
                 /\ call[c].undisturbed \in BOOLEAN /\ call[c].scanned \in BOOLEAN
                 /\ call[c].read \in Snapshots /\ call[c].answer \in Snapshots
<1>1. /\ cells \in Seq(Cell) /\ inode \in Inode /\ cache \in CacheRec /\ call \in [Caller -> CallRec]
      /\ created \in 0 .. MaxCreated
  BY Typed
<1>2. Len(cells) \in Nat /\ DOMAIN cells = 1 .. Len(cells)
  BY <1>1
<1>3. /\ cache.offset \in Nat /\ cache.key \in Inode \cup {NoFile} /\ cache.prefix \in Seq(Cell)
      /\ cache.snap \in Snapshots /\ cache.quorum \in QuorumChoice \cup {0}
  BY <1>1 DEF CacheRec
<1>4. ASSUME NEW c \in Caller
      PROVE  /\ call[c] \in CallRec /\ call[c].pc \in Label /\ call[c].k \in QuorumChoice \cup {0}
             /\ call[c].key \in Inode \cup {NoFile} /\ call[c].size \in Nat
             /\ call[c].undisturbed \in BOOLEAN /\ call[c].scanned \in BOOLEAN
             /\ call[c].read \in Snapshots /\ call[c].answer \in Snapshots
  <2>1. call[c] \in CallRec
    BY <1>1
  <2> QED BY <2>1 DEF CallRec
<1> QED BY <1>1, <1>2, <1>3, <1>4, Bounds

\* The other calls stay where they are.
Others(c) == \A d \in Caller : d # c => call'[d] = call[d]

LEMMA GotoEffect ==
    ASSUME CacheTypeOK, NEW c \in Caller, NEW label \in Label, Goto(c, label)
    PROVE  /\ call' \in [Caller -> CallRec] /\ Others(c)
           /\ call'[c].pc = label /\ call'[c].k = call[c].k /\ call'[c].key = call[c].key
           /\ call'[c].size = call[c].size /\ call'[c].undisturbed = call[c].undisturbed
           /\ call'[c].scanned = call[c].scanned /\ call'[c].read = call[c].read
           /\ call'[c].answer = call[c].answer
<1>1. call \in [Caller -> CallRec] /\ call[c] \in CallRec
  BY Fields
<1>2. call' = [call EXCEPT ![c].pc = label]
  BY DEF Goto
<1> QED BY <1>1, <1>2 DEF CallRec, Others

LEMMA AnswerEffect ==
    ASSUME CacheTypeOK, NEW c \in Caller, NEW s \in Snapshots, Answer(c, s),
           missed' \in BOOLEAN, crossed' \in BOOLEAN
    PROVE  /\ call' \in [Caller -> CallRec] /\ Others(c)
           /\ call'[c].pc = "done" /\ call'[c].k = call[c].k /\ call'[c].read = call[c].read
           /\ call'[c].answer = s
           /\ call'[c].undisturbed => call[c].undisturbed /\ ~missed' /\ ~crossed'
<1>1. call \in [Caller -> CallRec] /\ call[c] \in CallRec /\ call[c].undisturbed \in BOOLEAN
  BY Fields
<1> DEFINE u == call[c].undisturbed /\ ~missed' /\ ~crossed'
<1>2. call' = [call EXCEPT ![c].pc = "done", ![c].answer = s, ![c].undisturbed = u]
  BY DEF Answer
<1>3. u \in BOOLEAN /\ "done" \in Label
  BY <1>1 DEF Label
<1>4. u => call[c].undisturbed /\ ~missed' /\ ~crossed'
  OBVIOUS
<1> HIDE DEF u
<1>5. /\ call' \in [Caller -> CallRec] /\ Others(c)
      /\ call'[c].pc = "done" /\ call'[c].k = call[c].k /\ call'[c].read = call[c].read
      /\ call'[c].answer = s /\ call'[c].undisturbed = u
  BY <1>1, <1>2, <1>3 DEF CallRec, Others
<1> QED BY <1>4, <1>5

LEMMA WriteEffect ==
    ASSUME CacheTypeOK, NEW text, Write(text)
    PROVE  /\ cells' = text /\ cache' = cache /\ calls' = calls /\ missed' = missed /\ crossed' = crossed
           /\ call' \in [Caller -> CallRec]
           /\ \A c \in Caller :
                 /\ call'[c].pc = call[c].pc /\ call'[c].k = call[c].k /\ call'[c].key = call[c].key
                 /\ call'[c].size = call[c].size /\ call'[c].read = call[c].read
                 /\ ~call'[c].undisturbed /\ ~call'[c].scanned
<1>1. call \in [Caller -> CallRec] /\ \A c \in Caller : call[c] \in CallRec
  BY Fields
<1>2. call' = [c \in Caller |-> [call[c] EXCEPT !.undisturbed = FALSE, !.scanned = FALSE]]
  BY DEF Write
<1>3. cells' = text /\ cache' = cache /\ calls' = calls /\ missed' = missed /\ crossed' = crossed
  BY DEF Write
<1>4. ASSUME NEW c \in Caller
      PROVE  /\ call'[c] \in CallRec
             /\ call'[c].pc = call[c].pc /\ call'[c].k = call[c].k /\ call'[c].key = call[c].key
             /\ call'[c].size = call[c].size /\ call'[c].read = call[c].read
             /\ ~call'[c].undisturbed /\ ~call'[c].scanned
  BY <1>1, <1>2 DEF CallRec
<1>5. call' \in [Caller -> CallRec]
  BY <1>2, <1>4
<1> QED BY <1>3, <1>4, <1>5

-----------------------------------------------------------------------------
(***************************************************************************)
(* Writers.                                                                *)
(***************************************************************************)
\* An event of the new file is new, or it has not moved back.
Later == \A j \in DOMAIN cells' : cells'[j] \in Event =>
             created < cells'[j] \/ \E i \in DOMAIN cells : i >= j /\ cells[i] = cells'[j]

\* The file that path names is the same one, with more behind it.
Grows == /\ ~rotated /\ inode' = inode /\ Len(cells) <= Len(cells')
         /\ \A i \in 1 .. Len(cells) : cells'[i] = cells[i]

Written ==
    /\ cells' \in Seq(Cell) /\ inode' \in Inode
    /\ created' \in 0 .. MaxCreated /\ created <= created'
    /\ rewrites' \in 0 .. MaxRewrites /\ faults' \in 0 .. MaxFaults /\ rotated' \in BOOLEAN
    /\ OnceIn(cells') /\ \A i \in DOMAIN cells' : cells'[i] \in Event => cells'[i] <= created'
    /\ Later
    /\ ~rotated' => Grows
    /\ \E text : Write(text)

LEMMA FoldedLater ==
    ASSUME CacheTypeOK, Written, NEW s \in Snapshots, Upto(s, created), NEW n \in Nat, Folded(s, n)
    PROVE  \A i \in DOMAIN s, j \in DOMAIN cells' : s[i][1] = cells'[j] => j <= n
<1> SUFFICES ASSUME NEW i \in DOMAIN s, NEW j \in DOMAIN cells', s[i][1] = cells'[j] PROVE j <= n
  OBVIOUS
<1>1. s[i][1] \in Event /\ s[i][1] <= created /\ created \in Nat /\ cells' \in Seq(Cell)
  BY SnapshotValues, Fields DEF Upto, Written
<1>2. cells'[j] \in Event /\ cells'[j] \in Nat /\ ~(created < cells'[j])
  <2>1. cells'[j] \in Event /\ cells'[j] <= created
    BY <1>1
  <2>2. cells'[j] \in Nat
    BY <2>1, Bounds
  <2> QED BY <2>1, <2>2, <1>1
<1>3. PICK m \in DOMAIN cells : m >= j /\ cells[m] = cells'[j]
  BY <1>2 DEF Written, Later
<1>4. m <= n /\ m \in Nat /\ j \in Nat
  BY <1>1, <1>3, Fields DEF Folded
<1> QED BY <1>3, <1>4

LEMMA GrownHolds ==
    ASSUME CacheTypeOK, Grows, cells' \in Seq(Cell), NEW n \in Nat, n <= Len(cells)
    PROVE  FirstCells(cells', n) = FirstCells(cells, n) /\ n <= Len(cells')
<1>1. cells \in Seq(Cell) /\ Len(cells) \in Nat /\ Len(cells') \in Nat
  BY Fields
<1>2. n <= Len(cells') /\ \A i \in 1 .. n : cells'[i] = cells[i]
  BY <1>1 DEF Grows
<1> QED BY <1>1, <1>2, FirstCellsSame

LEMMA WrittenStep ==
    ASSUME CacheInv, Written
    PROVE  CacheInv'
<1> USE DEF CacheInv
<1>0. /\ cells' \in Seq(Cell) /\ inode' \in Inode
      /\ created' \in 0 .. MaxCreated /\ created <= created'
      /\ rewrites' \in 0 .. MaxRewrites /\ faults' \in 0 .. MaxFaults /\ rotated' \in BOOLEAN
      /\ OnceIn(cells') /\ \A i \in DOMAIN cells' : cells'[i] \in Event => cells'[i] <= created'
      /\ ~rotated' => Grows
      /\ ~rotated' => ~rotated /\ inode' = inode
  BY DEF Written, Grows
<1>1. /\ cache' = cache /\ calls' = calls /\ missed' = missed /\ crossed' = crossed
      /\ call' \in [Caller -> CallRec]
      /\ \A c \in Caller :
            /\ call'[c].pc = call[c].pc /\ call'[c].k = call[c].k /\ call'[c].key = call[c].key
            /\ call'[c].size = call[c].size /\ call'[c].read = call[c].read
            /\ ~call'[c].undisturbed /\ ~call'[c].scanned
  BY WriteEffect DEF Written
<1>2. CacheTypeOK'
  <2>1. cache' \in CacheRec /\ calls' \in 0 .. MaxCalls /\ {rotated', missed', crossed'} \subseteq BOOLEAN
        /\ (cache'.key = NoFile => cache'.offset = 0)
    BY <1>0, <1>1, Typed
  <2> QED BY <2>1, <1>0, <1>1, TypedNext
<1>3. /\ cache.offset \in Nat /\ cache.snap \in Snapshots /\ created \in Nat /\ created' \in Nat
      /\ \A c \in Caller : call[c].size \in Nat /\ call[c].read \in Snapshots
  BY <1>0, Fields
<1>4. \A s \in Snapshots : Upto(s, created) => Upto(s, created')
  <2> SUFFICES ASSUME NEW s \in Snapshots, Upto(s, created), NEW i \in DOMAIN s PROVE s[i][1] <= created'
    BY DEF Upto
  <2>1. s[i][1] \in Nat /\ s[i][1] <= created
    BY SnapshotValues, Bounds DEF Upto
  <2> QED BY <2>1, <1>0, <1>3
<1>5. FileInv'
  BY <1>0, <1>1, <1>3, <1>4 DEF FileInv
<1>6. QuorumInv'
  BY <1>1 DEF QuorumInv
<1>7. Upto(cache.snap, created) /\ \A c \in Caller : Upto(call[c].read, created)
  BY DEF FileInv
<1>8. OnceInv'
  <2> SUFFICES ASSUME ~crossed, cache.key # NoFile, \A c \in Caller : call[c].pc # "stat"
               PROVE  Folded(cache.snap, cache.offset)'
    BY <1>1 DEF OnceInv
  <2>1. Folded(cache.snap, cache.offset)
    BY DEF OnceInv
  <2>2. Folded(cache.snap, cache.offset)' <=> \A i \in DOMAIN cache.snap, j \in DOMAIN cells' :
                                                cache.snap[i][1] = cells'[j] => j <= cache.offset
    BY <1>1 DEF Folded
  <2> QED BY <2>1, <2>2, <1>3, <1>7, FoldedLater
<1>9. SettledInv'
  <2> SUFFICES ASSUME Sound', Settled'
               PROVE  /\ ~rotated' => Holds(cache.quorum)'
                      /\ cache.prefix = <<>> => cache.offset = 0
                      /\ cache.offset = 0 => cache.snap = <<>>
    BY <1>1 DEF SettledInv
  <2>1. Sound /\ Settled
    BY <1>1 DEF Sound, Settled, Rebuilding
  <2>2. cache.quorum \in QuorumChoice \cup {0}
    BY Fields
  <2>3. ~rotated' => Holds(cache.quorum)'
    <3> SUFFICES ASSUME ~rotated' PROVE Holds(cache.quorum)'
      OBVIOUS
    <3>1. Holds(cache.quorum)
      BY <2>1, <1>0 DEF SettledInv
    <3>2. cache.offset <= Len(cells) /\ cache.key = inode /\ cache.snap = Folds(FirstCells(cells, cache.offset), 0, cache.quorum)
      BY <3>1 DEF Holds
    <3>3. FirstCells(cells', cache.offset) = FirstCells(cells, cache.offset) /\ cache.offset <= Len(cells')
      BY <3>2, <1>0, <1>3, GrownHolds
    <3> QED BY <3>2, <3>3, <1>0, <1>1 DEF Holds
  <2> QED BY <2>1, <2>3 DEF SettledInv
<1>10. ASSUME NEW c \in Caller PROVE CallInv(c)'
  <2>0. CallInv(c) /\ call'[c].pc = call[c].pc /\ call'[c].k = call[c].k /\ call'[c].key = call[c].key
        /\ call'[c].size = call[c].size /\ call'[c].read = call[c].read
        /\ ~call'[c].undisturbed /\ ~call'[c].scanned
    BY <1>1
  <2>1. KnownInv(c)'
    BY <2>0, <1>1 DEF CallInv, KnownInv, Running, Moving, Rebuilding, Checked, Ahead, Alone, Stale
  <2>2. NewsInv(c)'
    <3> SUFFICES ASSUME ~crossed, call[c].pc = "fold"
                 PROVE  Folded(cache.snap \o call[c].read, call[c].size)' /\ Once(cache.snap \o call[c].read)
      BY <2>0, <1>1 DEF NewsInv, Once
    <3> DEFINE s == cache.snap \o call[c].read
    <3>1. s \in Snapshots /\ Upto(s, created)
      BY <1>3, <1>7, JoinedValues, JoinedUpto
    <3>2. Once(s) /\ Folded(s, call[c].size)
      BY <2>0 DEF CallInv, NewsInv
    <3>3. (cache.snap \o call[c].read)' = s /\ call'[c].size = call[c].size
      BY <2>0, <1>1
    <3> HIDE DEF s
    <3>4. \A i \in DOMAIN s, j \in DOMAIN cells' : s[i][1] = cells'[j] => j <= call[c].size
      BY <3>1, <3>2, <1>3, FoldedLater
    <3>5. Folded(cache.snap \o call[c].read, call[c].size)'
      BY <3>3, <3>4 DEF Folded
    <3> QED BY <3>2, <3>5 DEF s
  <2>3. SeenInv(c)'
    <3> SUFFICES ASSUME Moving(c), ~crossed, ~rotated'
                 PROVE  call[c].key = inode' /\ call[c].size <= Len(cells')
      BY <2>0, <1>1 DEF SeenInv, Moving
    <3>1. call[c].key = inode /\ call[c].size <= Len(cells)
      BY <2>0, <1>0 DEF CallInv, SeenInv
    <3> QED BY <3>1, <1>0, <1>3, GrownHolds
  <2>4. TailInv(c)'
    <3> SUFFICES ASSUME Sound
                 PROVE  /\ call[c].pc = "tail" /\ ~rotated' => cache.prefix # <<>>
                        /\ call[c].pc = "fold" => cache.prefix # <<>>
                        /\ call[c].pc = "fold" /\ ~rotated' =>
                              /\ call[c].read = Folds(FirstCells(cells', call[c].size), cache.offset, call[c].k)
                              /\ ~SplitsLine(FirstCells(cells', call[c].size), cache.offset)
      BY <2>0, <1>1 DEF TailInv, Sound
    <3>1. (call[c].pc = "tail" /\ ~rotated' => cache.prefix # <<>>) /\ (call[c].pc = "fold" => cache.prefix # <<>>)
      BY <2>0, <1>0 DEF CallInv, TailInv
    <3>2. ASSUME call[c].pc = "fold", ~rotated'
          PROVE  /\ call[c].read = Folds(FirstCells(cells', call[c].size), cache.offset, call[c].k)
                 /\ ~SplitsLine(FirstCells(cells', call[c].size), cache.offset)
      <4>1. /\ call[c].read = Folds(FirstCells(cells, call[c].size), cache.offset, call[c].k)
            /\ ~SplitsLine(FirstCells(cells, call[c].size), cache.offset)
        BY <2>0, <1>0, <3>2 DEF CallInv, TailInv
      <4>2. call[c].size <= Len(cells)
        BY <2>0, <1>0, <3>2 DEF CallInv, SeenInv, Moving, Sound
      <4>3. FirstCells(cells', call[c].size) = FirstCells(cells, call[c].size)
        BY <4>2, <1>0, <1>3, <3>2, GrownHolds
      <4> QED BY <4>1, <4>3
    <3> QED BY <3>1, <3>2
  <2>5. RebuildInv(c)'
    <3> SUFFICES ASSUME Sound, call[c].pc = "head", ~rotated', cache.key # NoFile
                 PROVE  Holds(call[c].k)'
      BY <2>0, <1>1 DEF RebuildInv, Sound
    <3>1. Holds(call[c].k)
      BY <2>0, <1>0 DEF CallInv, RebuildInv
    <3>2. cache.offset <= Len(cells) /\ cache.key = inode /\ cache.snap = Folds(FirstCells(cells, cache.offset), 0, call[c].k)
      BY <3>1 DEF Holds
    <3>3. FirstCells(cells', cache.offset) = FirstCells(cells, cache.offset) /\ cache.offset <= Len(cells')
      BY <3>2, <1>0, <1>3, GrownHolds
    <3> QED BY <3>2, <3>3, <1>0, <1>1, <2>0 DEF Holds
  <2>6. DoneInv(c)'
    BY <2>0 DEF DoneInv
  <2> QED BY <2>1, <2>2, <2>3, <2>4, <2>5, <2>6 DEF CallInv
<1> QED BY <1>2, <1>5, <1>6, <1>8, <1>9, <1>10

\* What is appended is new.
News(more, from, to) ==
    /\ more \in Seq(Cell) /\ OnceIn(more) /\ from <= to
    /\ \A i \in DOMAIN more : more[i] \in Event => from < more[i] /\ more[i] <= to

LEMMA GrowWritten ==
    ASSUME CacheInv, NEW more, News(more, created, created'), Write(cells \o more),
           created' \in 0 .. MaxCreated, rewrites' \in 0 .. MaxRewrites, faults' \in 0 .. MaxFaults,
           inode' = inode, rotated' = rotated
    PROVE  Written
<1>1. /\ more \in Seq(Cell) /\ OnceIn(more) /\ created <= created'
      /\ \A i \in DOMAIN more : more[i] \in Event => created < more[i] /\ more[i] <= created'
  BY DEF News
<1>2. /\ cells \in Seq(Cell) /\ Len(cells) \in Nat /\ DOMAIN cells = 1 .. Len(cells) /\ inode \in Inode
      /\ created \in Nat /\ created' \in Nat /\ rotated \in BOOLEAN
      /\ OnceIn(cells) /\ \A i \in DOMAIN cells : cells[i] \in Event => cells[i] <= created
  <2>1. CacheTypeOK
    BY DEF CacheInv
  <2> QED BY <2>1, Fields, Typed DEF CacheInv, FileInv
<1>3. cells' = cells \o more
  BY DEF Write
<1> DEFINE w == cells \o more
<1>4. /\ w \in Seq(Cell) /\ DOMAIN w = 1 .. Len(w) /\ Len(w) = Len(cells) + Len(more) /\ Len(more) \in Nat
      /\ \A i \in 1 .. Len(cells) : w[i] = cells[i]
      /\ \A i \in DOMAIN w : \/ i \in DOMAIN cells /\ w[i] = cells[i]
                             \/ i > Len(cells) /\ i - Len(cells) \in DOMAIN more /\ w[i] = more[i - Len(cells)]
  BY <1>1, <1>2, GrownText
<1> HIDE DEF w
<1>5. ASSUME NEW i \in DOMAIN w, w[i] \in Event
      PROVE  w[i] <= created' /\ ((i \in DOMAIN cells /\ w[i] = cells[i]) \/ created < w[i])
  <2>0. w[i] \in Nat
    BY <1>5, Bounds
  <2>1. CASE i \in DOMAIN cells /\ w[i] = cells[i]
    <3>1. w[i] <= created
      BY <2>1, <1>2, <1>5
    <3> QED BY <2>0, <2>1, <3>1, <1>1, <1>2
  <2>2. CASE i - Len(cells) \in DOMAIN more /\ w[i] = more[i - Len(cells)]
    BY <2>2, <1>1, <1>5
  <2> QED BY <2>1, <2>2, <1>4
<1>6. ASSUME NEW i \in DOMAIN w, NEW j \in DOMAIN w, w[i] \in Event, w[i] = w[j]
      PROVE  i = j
  <2>0. w[i] \in Nat /\ i \in Int /\ j \in Int
    <3>1. w[i] \in Nat
      BY <1>6, Bounds
    <3>2. i \in 1 .. Len(w) /\ j \in 1 .. Len(w)
      BY <1>4
    <3> QED BY <3>1, <3>2
  <2>1. CASE i \in DOMAIN cells /\ w[i] = cells[i] /\ j \in DOMAIN cells /\ w[j] = cells[j]
    BY <2>1, <1>2, <1>6 DEF OnceIn
  <2>2. CASE /\ i - Len(cells) \in DOMAIN more /\ w[i] = more[i - Len(cells)]
             /\ j - Len(cells) \in DOMAIN more /\ w[j] = more[j - Len(cells)]
    <3>1. i - Len(cells) = j - Len(cells)
      BY <2>2, <1>1, <1>6 DEF OnceIn
    <3> QED BY <3>1, <2>0, <1>2
  <2>3. \A x \in DOMAIN cells, y \in DOMAIN more : cells[x] \in Event => cells[x] # more[y]
    <3> SUFFICES ASSUME NEW x \in DOMAIN cells, NEW y \in DOMAIN more, cells[x] \in Event, cells[x] = more[y]
                 PROVE  FALSE
      OBVIOUS
    <3>1. cells[x] <= created /\ created < more[y] /\ cells[x] \in Nat
      BY <1>1, <1>2, Bounds
    <3> QED BY <3>1, <1>2
  <2> QED BY <2>1, <2>2, <2>3, <1>4, <1>6
<1>7. OnceIn(w) /\ \A i \in DOMAIN w : w[i] \in Event => w[i] <= created'
  BY <1>5, <1>6 DEF OnceIn
<1>8. cells' = w
  BY <1>3 DEF w
<1>9. Later
  <2> SUFFICES ASSUME NEW j \in DOMAIN w, w[j] \in Event
               PROVE  created < w[j] \/ \E i \in DOMAIN cells : i >= j /\ cells[i] = w[j]
    BY <1>8 DEF Later
  <2>1. j >= j
    BY <1>4
  <2> QED BY <1>5, <2>1
<1>10. ~rotated' => Grows
  <2>1. Len(cells) <= Len(w) /\ \A i \in 1 .. Len(cells) : w[i] = cells[i]
    BY <1>4, <1>2
  <2> QED BY <2>1, <1>8 DEF Grows
<1> QED BY <1>1, <1>2, <1>4, <1>7, <1>8, <1>9, <1>10 DEF Written

LEMMA AppendEventWrites ==
    ASSUME CacheInv, AppendEvent
    PROVE  Written
<1> DEFINE e == created + 1
<1>1. /\ created < MaxCreated /\ created' = e /\ inode' = inode /\ rewrites' = rewrites /\ rotated' = rotated
      /\ \/ Write(cells \o <<e, NL>>) /\ faults' = faults
         \/ faults < MaxFaults /\ faults' = faults + 1 /\ Write(Append(cells, Torn))
         \/ faults < MaxFaults /\ faults' = faults + 1 /\ Write(Append(cells, e))
  BY DEF AppendEvent
<1>2. /\ created \in 0 .. MaxCreated /\ rewrites \in 0 .. MaxRewrites /\ faults \in 0 .. MaxFaults
      /\ cells \in Seq(Cell)
  BY Typed DEF CacheInv
<1>3. e \in Event /\ e \in Cell /\ e \in 0 .. MaxCreated /\ created < e /\ created <= e
  BY <1>1, <1>2, Bounds DEF Event, Cell
<1> HIDE DEF e
<1>4. faults' \in 0 .. MaxFaults /\ rewrites' \in 0 .. MaxRewrites /\ created' \in 0 .. MaxCreated
  BY <1>1, <1>2, <1>3, Bounds
<1>5. News(<<e, NL>>, created, e) /\ News(<<Torn>>, created, e) /\ News(<<e>>, created, e)
  <2>1. /\ <<e, NL>> \in Seq(Cell) /\ DOMAIN <<e, NL>> = 1 .. 2 /\ <<e, NL>>[1] = e /\ <<e, NL>>[2] = NL
        /\ <<e>> \in Seq(Cell) /\ DOMAIN <<e>> = 1 .. 1 /\ <<e>>[1] = e
        /\ <<Torn>> \in Seq(Cell) /\ DOMAIN <<Torn>> = 1 .. 1 /\ <<Torn>>[1] = Torn
    BY <1>3, Bounds
  <2>2. e <= e /\ NL \notin Event /\ Torn \notin Event
    BY <1>3, Bounds
  <2> DEFINE a == <<e, NL>>
             b == <<Torn>>
             d == <<e>>
  <2> HIDE DEF a, b, d
  <2>3. \A i \in 1 .. 2 : i = 1 \/ i = 2
    OBVIOUS
  <2>4. \A i \in 1 .. 1 : i = 1
    OBVIOUS
  <2>5. News(a, created, e)
    BY <2>1, <2>2, <2>3, <1>3 DEF News, OnceIn, a
  <2>6. News(b, created, e)
    BY <2>1, <2>2, <2>4, <1>3 DEF News, OnceIn, b
  <2>7. News(d, created, e)
    BY <2>1, <2>2, <2>4, <1>3 DEF News, OnceIn, d
  <2> QED BY <2>5, <2>6, <2>7 DEF a, b, d
<1>6. Append(cells, Torn) = cells \o <<Torn>> /\ Append(cells, e) = cells \o <<e>>
  BY <1>2, <1>3, Bounds, AppendedText
<1> QED BY <1>1, <1>4, <1>5, <1>6, GrowWritten

LEMMA RepairTailWrites ==
    ASSUME CacheInv, RepairTail
    PROVE  Written
<1>1. /\ Write(Append(cells, NL)) /\ inode' = inode /\ created' = created /\ rewrites' = rewrites
      /\ faults' = faults /\ rotated' = rotated
  BY DEF RepairTail
<1>2. /\ created \in 0 .. MaxCreated /\ rewrites \in 0 .. MaxRewrites /\ faults \in 0 .. MaxFaults
      /\ cells \in Seq(Cell)
  BY Typed DEF CacheInv
<1>3. Append(cells, NL) = cells \o <<NL>>
  BY <1>2, Bounds, AppendedText
<1>4. News(<<NL>>, created, created)
  <2>1. <<NL>> \in Seq(Cell) /\ DOMAIN <<NL>> = {1} /\ <<NL>>[1] = NL /\ NL \notin Event
    BY Bounds
  <2> QED BY <2>1, <1>2, Bounds DEF News, OnceIn
<1> QED BY <1>1, <1>2, <1>3, <1>4, GrowWritten

\* A file that was rewritten: nothing in it is new or has moved back.
LEMMA RewriteWritten ==
    ASSUME CacheInv, NEW text \in Seq(Cell), Write(text), OnceIn(text),
           \A j \in DOMAIN text : text[j] \in Event => \E i \in DOMAIN cells : i >= j /\ cells[i] = text[j],
           inode' \in Inode, created' = created, faults' = faults,
           rewrites < MaxRewrites, rewrites' = rewrites + 1, rotated' = TRUE
    PROVE  Written
<1>1. /\ created \in 0 .. MaxCreated /\ rewrites \in 0 .. MaxRewrites /\ faults \in 0 .. MaxFaults
      /\ \A i \in DOMAIN cells : cells[i] \in Event => cells[i] <= created
  BY Typed DEF CacheInv, FileInv
<1>2. cells' = text
  BY DEF Write
<1>3. \A j \in DOMAIN text : text[j] \in Event => text[j] <= created
  BY <1>1
<1>4. Later
  BY <1>2 DEF Later
<1>5. created <= created' /\ rewrites' \in 0 .. MaxRewrites
  BY <1>1, Bounds
<1> QED BY <1>1, <1>2, <1>3, <1>4, <1>5 DEF Written

LEMMA RotateWrites ==
    ASSUME CacheInv, Rotate
    PROVE  Written
<1>1. /\ rewrites < MaxRewrites /\ rewrites' = rewrites + 1 /\ rotated' = TRUE /\ inode' \in Inode
      /\ created' = created /\ faults' = faults
      /\ \E before \in 1 .. created + 1 :
            Write(IF Terminated(Without(cells, before)) THEN Without(cells, before)
                                                        ELSE Append(Without(cells, before), NL))
  BY DEF Rotate
<1>2. PICK before \in 1 .. created + 1 :
         Write(IF Terminated(Without(cells, before)) THEN Without(cells, before)
                                                     ELSE Append(Without(cells, before), NL))
  BY <1>1
<1> DEFINE kept == Without(cells, before)
<1>3. cells \in Seq(Cell) /\ OnceIn(cells)
  BY Typed DEF CacheInv, FileInv
<1>4. /\ kept \in Seq(Cell) /\ OnceIn(kept)
      /\ \A n \in DOMAIN kept : \E i \in DOMAIN cells : i >= n /\ cells[i] = kept[n]
  BY <1>3, WithoutKeeps
<1>5. Write(kept) \/ Write(Append(kept, NL))
  BY <1>2
<1> HIDE DEF kept
<1>6. CASE Write(kept)
  BY <1>1, <1>4, <1>6, RewriteWritten
<1>7. CASE Write(Append(kept, NL))
  <2> DEFINE w == kept \o <<NL>>
  <2>1. Append(kept, NL) = w
    BY <1>4, Bounds, AppendedText
  <2>2. <<NL>> \in Seq(Cell) /\ DOMAIN <<NL>> = {1} /\ <<NL>>[1] = NL /\ NL \notin Event
    BY Bounds
  <2>3. /\ w \in Seq(Cell)
        /\ \A i \in DOMAIN w : \/ i \in DOMAIN kept /\ w[i] = kept[i]
                               \/ i > Len(kept) /\ i - Len(kept) \in DOMAIN <<NL>> /\ w[i] = <<NL>>[i - Len(kept)]
    BY <1>4, <2>2, GrownText
  <2> HIDE DEF w
  <2>4. \A i \in DOMAIN w : w[i] \in Event => i \in DOMAIN kept /\ w[i] = kept[i]
    BY <2>2, <2>3
  <2>5. OnceIn(w)
    BY <2>4, <1>4 DEF OnceIn
  <2>6. \A j \in DOMAIN w : w[j] \in Event => \E i \in DOMAIN cells : i >= j /\ cells[i] = w[j]
    BY <2>4, <1>4
  <2> QED BY <2>1, <2>3, <2>5, <2>6, <1>1, <1>7, RewriteWritten
<1> QED BY <1>5, <1>6, <1>7

LEMMA ClearWrites ==
    ASSUME CacheInv, Clear
    PROVE  Written
<1>1. /\ rewrites < MaxRewrites /\ rewrites' = rewrites + 1 /\ rotated' = TRUE /\ Write(<<>>)
      /\ inode' = inode /\ created' = created /\ faults' = faults
  BY DEF Clear
<1>2. inode \in Inode
  BY Typed DEF CacheInv
<1> DEFINE w == <<>>
<1>3. w \in Seq(Cell) /\ DOMAIN w = {}
  OBVIOUS
<1> HIDE DEF w
<1>4. /\ OnceIn(w)
      /\ \A j \in DOMAIN w : w[j] \in Event => \E i \in DOMAIN cells : i >= j /\ cells[i] = w[j]
  BY <1>3 DEF OnceIn
<1>5. Write(w)
  BY <1>1 DEF w
<1> QED BY <1>1, <1>2, <1>3, <1>4, <1>5, RewriteWritten

-----------------------------------------------------------------------------
(***************************************************************************)
(* A step of one call.  If calls have not crossed, another call that is    *)
(* under way is not rebuilding, and the step leaves the cache alone.       *)
(***************************************************************************)
Leaves(c) ==
    /\ cells' = cells /\ inode' = inode /\ created' = created
    /\ Others(c)
    /\ \A d \in Caller \ {c} : ~crossed' =>
          /\ ~Rebuilding(d)
          /\ Running(d) => ~crossed /\ cache' = cache /\ rotated' = rotated /\ (missed => missed')

LEMMA OthersKeep ==
    ASSUME CacheInv, NEW c \in Caller, Leaves(c), NEW d \in Caller, d # c
    PROVE  CallInv(d)'
<1>1. /\ cells' = cells /\ inode' = inode /\ created' = created /\ call'[d] = call[d]
      /\ ~crossed' => ~Rebuilding(d)
      /\ ~crossed' /\ Running(d) => ~crossed /\ cache' = cache /\ rotated' = rotated /\ (missed => missed')
  BY DEF Leaves, Others
<1>2. KnownInv(d) /\ NewsInv(d) /\ SeenInv(d) /\ TailInv(d) /\ RebuildInv(d) /\ DoneInv(d)
  BY DEF CacheInv, CallInv
<1>3. KnownInv(d)'
  BY <1>1, <1>2 DEF KnownInv, Running, Moving, Rebuilding, Checked, Ahead, Alone, Stale
<1>4. NewsInv(d)'
  BY <1>1, <1>2 DEF NewsInv, Running, Once, Folded
<1>5. SeenInv(d)'
  BY <1>1, <1>2 DEF SeenInv, Moving, Running
<1>6. TailInv(d)'
  BY <1>1, <1>2 DEF TailInv, Sound, Running, Replay
<1>7. RebuildInv(d)'
  BY <1>1 DEF RebuildInv, Sound, Rebuilding
<1>8. DoneInv(d)'
  BY <1>1, <1>2 DEF DoneInv, Replay
<1> QED BY <1>3, <1>4, <1>5, <1>6, <1>7, <1>8 DEF CallInv

\* A call that rebuilds is alone, so no other one is rebuilding while it runs.
LEMMA RunningAlone ==
    ASSUME CacheInv, NEW c \in Caller, Running(c), ~crossed, NEW d \in Caller, d # c
    PROVE  ~Rebuilding(d)
<1>1. KnownInv(d)
  BY DEF CacheInv, CallInv
<1> QED BY <1>1 DEF KnownInv, Alone, Running

\* What a call that reads the cache leaves of it.
Reads(c) ==
    /\ cells' = cells /\ inode' = inode /\ created' = created /\ rotated' = rotated
    /\ Others(c) /\ ~Rebuilding(c)
    /\ cache'.offset = cache.offset /\ cache'.key = cache.key /\ cache'.snap = cache.snap
    /\ cache'.quorum = cache.quorum
    /\ cache'.prefix = <<>> => cache.prefix = <<>>
    /\ crossed => crossed'
    /\ missed => missed'

LEMMA ReadsKeep ==
    ASSUME CacheInv, NEW c \in Caller, Reads(c), Upto(call'[c].read, created)
    PROVE  FileInv' /\ QuorumInv' /\ OnceInv' /\ SettledInv'
<1>1. /\ cells' = cells /\ inode' = inode /\ created' = created /\ rotated' = rotated
      /\ \A d \in Caller : d # c => call'[d] = call[d]
      /\ call[c].pc # "stat" /\ call[c].pc # "head"
      /\ cache'.offset = cache.offset /\ cache'.key = cache.key /\ cache'.snap = cache.snap
      /\ cache'.quorum = cache.quorum
      /\ cache'.prefix = <<>> => cache.prefix = <<>>
      /\ crossed => crossed'
      /\ missed => missed'
  BY DEF Reads, Others, Rebuilding
<1>2. FileInv /\ QuorumInv /\ OnceInv /\ SettledInv
  BY DEF CacheInv
<1>3. FileInv'
  BY <1>1, <1>2 DEF FileInv, Upto
<1>4. QuorumInv'
  BY <1>1, <1>2 DEF QuorumInv
<1>5. OnceInv'
  <2> SUFFICES ASSUME ~crossed'
               PROVE  /\ Once(cache.snap)'
                      /\ (cache.key # NoFile /\ (\A d \in Caller : call[d].pc # "stat"))' => Folded(cache.snap, cache.offset)'
    BY DEF OnceInv
  <2>1. Once(cache.snap)'
    BY <1>1, <1>2 DEF OnceInv, Once
  <2>2. ASSUME cache'.key # NoFile, \A d \in Caller : call'[d].pc # "stat"
        PROVE  Folded(cache.snap, cache.offset)'
    <3>1. \A d \in Caller : call[d].pc # "stat"
      BY <1>1, <2>2
    <3>2. Folded(cache.snap, cache.offset)
      BY <1>1, <1>2, <2>2, <3>1 DEF OnceInv
    <3> QED BY <3>2, <1>1 DEF Folded
  <2> QED BY <2>1, <2>2
<1>6. SettledInv'
  <2> SUFFICES ASSUME Sound', Settled'
               PROVE  /\ ~rotated' => Holds(cache.quorum)'
                      /\ cache'.prefix = <<>> => cache'.offset = 0
                      /\ cache'.offset = 0 => cache'.snap = <<>>
    BY DEF SettledInv
  <2>1. Sound
    BY <1>1 DEF Sound
  <2>2. Settled
    BY <1>1 DEF Settled, Rebuilding
  <2>3. ~rotated' => Holds(cache.quorum)'
    BY <1>1, <1>2, <2>1, <2>2 DEF SettledInv, Holds
  <2> QED BY <1>1, <1>2, <2>1, <2>2, <2>3 DEF SettledInv
<1> QED BY <1>3, <1>4, <1>5, <1>6

\* A call that passed the checks: the cache belongs to the file and quorum it saw.
LEMMA CheckedFacts ==
    ASSUME CacheInv, NEW c \in Caller, Checked(c), ~crossed
    PROVE  /\ Settled /\ call[c].k \in QuorumChoice /\ cache.quorum = call[c].k
           /\ call[c].key \in Inode /\ cache.key = call[c].key /\ cache.offset <= call[c].size
           /\ Once(cache.snap) /\ Folded(cache.snap, cache.offset)
<1>1. KnownInv(c) /\ QuorumInv /\ OnceInv /\ CacheTypeOK
  BY DEF CacheInv, CallInv
<1>2. Running(c) /\ Moving(c) /\ ~Rebuilding(c)
  BY DEF Checked, Running, Moving, Rebuilding
<1>3. call[c].k \in QuorumChoice /\ call[c].key \in Inode /\ ~Stale(c)
  BY <1>1, <1>2 DEF KnownInv
<1>4. cache.key = call[c].key /\ ~(call[c].size < cache.offset) /\ (cache.quorum = 0 \/ cache.quorum = call[c].k)
  BY <1>3 DEF Stale
<1>5. cache.key # NoFile
  BY <1>3, <1>4, Bounds
<1>6. \A d \in Caller : ~Rebuilding(d)
  BY <1>2, RunningAlone
<1>7. cache.quorum # 0
  BY <1>1, <1>5, <1>6 DEF QuorumInv, Rebuilding
<1>8. call[c].size \in Nat /\ cache.offset \in Nat
  BY <1>1, Fields
<1>9. Once(cache.snap) /\ Folded(cache.snap, cache.offset)
  BY <1>1, <1>5, <1>6 DEF OnceInv, Rebuilding
<1> QED BY <1>3, <1>4, <1>5, <1>6, <1>7, <1>8, <1>9 DEF Settled

LEMMA CrossingLeaves ==
    ASSUME CacheInv, NEW c \in Caller, Running(c), Others(c), Crossing(c), (missed => missed') \/ Rebuilding(c),
           cells' = cells, inode' = inode, created' = created, rotated' = rotated
    PROVE  Leaves(c) /\ (crossed => crossed')
<1>1. crossed' = (crossed \/ (cache' # cache /\ ~Alone(c)))
  BY DEF Crossing
<1>2. ASSUME NEW d \in Caller \ {c}, ~crossed'
      PROVE  /\ ~Rebuilding(d)
             /\ Running(d) => ~crossed /\ cache' = cache /\ rotated' = rotated /\ (missed => missed')
  <2>1. ~crossed /\ (cache' = cache \/ Alone(c))
    BY <1>1, <1>2
  <2>2. ~Rebuilding(d)
    BY <2>1, RunningAlone
  <2>3. Running(d) => ~Alone(c)
    BY DEF Running, Alone
  <2>4. Rebuilding(c) => Alone(c)
    BY <2>1 DEF CacheInv, CallInv, KnownInv
  <2> QED BY <2>1, <2>2, <2>3, <2>4
<1> QED BY <1>1, <1>2 DEF Leaves

LEMMA StatEffect ==
    ASSUME CacheInv, NEW c \in Caller, Stat(c)
    PROVE  /\ cells' = cells /\ inode' = inode /\ cache' = cache /\ created' = created /\ rewrites' = rewrites
           /\ rotated' = rotated /\ missed' = missed
           /\ faults' \in 0 .. MaxFaults /\ calls' \in 0 .. MaxCalls
           /\ crossed' \in BOOLEAN /\ (crossed => crossed')
           /\ ~Running(c) /\ \A d \in Caller : ~crossed' => ~Rebuilding(d)
           /\ call' \in [Caller -> CallRec] /\ Others(c)
           /\ call'[c].k \in QuorumChoice /\ call'[c].read = <<>>
           /\ \/ call'[c].pc = "scan"
              \/ call'[c].pc = "compare" /\ call'[c].key = inode /\ call'[c].size = Len(cells)
<1>1. CacheTypeOK
  BY DEF CacheInv
<1>2. /\ cells' = cells /\ inode' = inode /\ cache' = cache /\ created' = created /\ rewrites' = rewrites
      /\ rotated' = rotated /\ missed' = missed
      /\ call[c].pc \in {"idle", "done"} /\ calls < MaxCalls /\ calls' = calls + 1
      /\ crossed' = (crossed \/ \E d \in Caller : Rebuilding(d))
  BY DEF Stat, file
<1>3. PICK k \in QuorumChoice :
          \/ /\ call' = [call EXCEPT ![c] = [pc |-> "compare", k |-> k, key |-> inode, size |-> Len(cells),
                                             undisturbed |-> TRUE, scanned |-> FALSE, read |-> <<>>, answer |-> <<>>]]
             /\ UNCHANGED faults
          \/ /\ faults < MaxFaults /\ faults' = faults + 1
             /\ call' = [call EXCEPT ![c] = [pc |-> "scan", k |-> k, key |-> NoFile, size |-> 0,
                                             undisturbed |-> TRUE, scanned |-> FALSE, read |-> <<>>, answer |-> <<>>]]
  BY DEF Stat
<1>4. /\ call \in [Caller -> CallRec] /\ Len(cells) \in Nat /\ inode \in Inode /\ crossed \in BOOLEAN
      /\ faults \in 0 .. MaxFaults /\ calls \in 0 .. MaxCalls
  BY <1>1, Fields, Typed
<1>5. faults' \in 0 .. MaxFaults /\ calls' \in 0 .. MaxCalls
  BY <1>2, <1>3, <1>4, Bounds
<1> DEFINE a == [pc |-> "compare", k |-> k, key |-> inode, size |-> Len(cells),
                 undisturbed |-> TRUE, scanned |-> FALSE, read |-> <<>>, answer |-> <<>>]
           b == [pc |-> "scan", k |-> k, key |-> NoFile, size |-> 0,
                 undisturbed |-> TRUE, scanned |-> FALSE, read |-> <<>>, answer |-> <<>>]
<1>6. a \in CallRec /\ b \in CallRec
  <2>1. <<>> \in Snapshots /\ "compare" \in Label /\ "scan" \in Label /\ 0 \in Nat
    BY DEF Snapshots, Label
  <2> QED BY <2>1, <1>4 DEF CallRec
<1>7. /\ a.pc = "compare" /\ a.k = k /\ a.key = inode /\ a.size = Len(cells) /\ a.read = <<>>
      /\ b.pc = "scan" /\ b.k = k /\ b.read = <<>>
  OBVIOUS
<1>8. call' = [call EXCEPT ![c] = a] \/ call' = [call EXCEPT ![c] = b]
  BY <1>3
<1> HIDE DEF a, b
<1>9. call' \in [Caller -> CallRec] /\ Others(c) /\ (call'[c] = a \/ call'[c] = b)
  BY <1>4, <1>6, <1>8 DEF Others
<1>10. ~Running(c) /\ crossed' \in BOOLEAN /\ (crossed => crossed') /\ \A d \in Caller : ~crossed' => ~Rebuilding(d)
  BY <1>2, <1>4 DEF Running
<1> QED BY <1>2, <1>5, <1>7, <1>9, <1>10

LEMMA StatStep ==
    ASSUME CacheInv, NEW c \in Caller, Stat(c)
    PROVE  CacheInv'
<1>1. /\ cells' = cells /\ inode' = inode /\ cache' = cache /\ created' = created /\ rewrites' = rewrites
      /\ rotated' = rotated /\ missed' = missed
      /\ faults' \in 0 .. MaxFaults /\ calls' \in 0 .. MaxCalls
      /\ crossed' \in BOOLEAN /\ (crossed => crossed')
      /\ ~Running(c) /\ \A d \in Caller : ~crossed' => ~Rebuilding(d)
      /\ call' \in [Caller -> CallRec] /\ Others(c)
      /\ call'[c].k \in QuorumChoice /\ call'[c].read = <<>>
      /\ \/ call'[c].pc = "scan"
         \/ call'[c].pc = "compare" /\ call'[c].key = inode /\ call'[c].size = Len(cells)
  BY StatEffect
<1>2. CacheTypeOK
  BY DEF CacheInv
<1>3. CacheTypeOK'
  <2>1. /\ cells \in Seq(Cell) /\ inode \in Inode /\ cache \in CacheRec /\ created \in 0 .. MaxCreated
        /\ rewrites \in 0 .. MaxRewrites /\ {rotated, missed, crossed} \subseteq BOOLEAN
        /\ cache.key = NoFile => cache.offset = 0
    BY <1>2, Typed
  <2> QED BY <2>1, <1>1, TypedNext
<1>4. Leaves(c)
  BY <1>1 DEF Leaves
<1>5. Reads(c) /\ Upto(call'[c].read, created)
  BY <1>1 DEF Reads, Rebuilding, Running, Upto
<1>6. FileInv' /\ QuorumInv' /\ OnceInv' /\ SettledInv'
  BY <1>5, ReadsKeep
<1>7. CallInv(c)'
  <2>1. inode \in Inode /\ Len(cells) \in Nat
    BY <1>2, Fields
  <2>2. KnownInv(c)'
    BY <1>1, <2>1 DEF KnownInv, Running, Moving, Rebuilding, Checked, Ahead
  <2>3. NewsInv(c)' /\ TailInv(c)' /\ RebuildInv(c)' /\ DoneInv(c)'
    BY <1>1 DEF NewsInv, TailInv, RebuildInv, DoneInv
  <2>4. SeenInv(c)'
    BY <1>1, <2>1 DEF SeenInv, Moving
  <2> QED BY <2>2, <2>3, <2>4 DEF CallInv
<1> QED BY <1>3, <1>4, <1>6, <1>7, OthersKeep DEF CacheInv

LEMMA CompareStep ==
    ASSUME CacheInv, NEW c \in Caller, Compare(c)
    PROVE  CacheInv'
<1>1. /\ cells' = cells /\ inode' = inode /\ cache' = cache /\ created' = created /\ rewrites' = rewrites
      /\ faults' = faults /\ calls' = calls /\ rotated' = rotated /\ missed' = missed /\ crossed' = crossed
      /\ call[c].pc = "compare" /\ Goto(c, IF Stale(c) THEN "scan" ELSE "probe")
  BY DEF Compare, file, bounds, history
<1>2. CacheTypeOK /\ CallInv(c) /\ FileInv
  BY DEF CacheInv
<1>3. /\ call' \in [Caller -> CallRec] /\ Others(c)
      /\ call'[c].pc = (IF Stale(c) THEN "scan" ELSE "probe")
      /\ call'[c].k = call[c].k /\ call'[c].key = call[c].key /\ call'[c].size = call[c].size
      /\ call'[c].undisturbed = call[c].undisturbed /\ call'[c].read = call[c].read
  <2>1. (IF Stale(c) THEN "scan" ELSE "probe") \in Label
    BY DEF Label
  <2> QED BY <2>1, <1>1, <1>2, GotoEffect
<1>4. CacheTypeOK'
  BY <1>1, <1>2, <1>3, Typed, TypedNext
<1>5. Crossing(c) /\ Running(c) /\ ~Rebuilding(c)
  <2>1. crossed \in BOOLEAN
    BY <1>2, Typed
  <2> QED BY <2>1, <1>1 DEF Crossing, Running, Rebuilding
<1>6. Leaves(c)
  BY <1>1, <1>3, <1>5, CrossingLeaves
<1>7. Reads(c)
  BY <1>1, <1>3, <1>5 DEF Reads
<1>8. FileInv' /\ QuorumInv' /\ OnceInv' /\ SettledInv'
  <2>1. Upto(call'[c].read, created)
    BY <1>2, <1>3 DEF FileInv
  <2> QED BY <2>1, <1>7, ReadsKeep
<1>9. CallInv(c)'
  <2>1. Stale(c)' <=> Stale(c)
    BY <1>1, <1>3 DEF Stale
  <2>2. KnownInv(c)'
    BY <1>1, <1>2, <1>3, <2>1 DEF CallInv, KnownInv, Running, Moving, Rebuilding, Checked, Ahead
  <2>3. NewsInv(c)' /\ TailInv(c)' /\ RebuildInv(c)' /\ DoneInv(c)'
    BY <1>3 DEF NewsInv, TailInv, RebuildInv, DoneInv
  <2>4. SeenInv(c)'
    BY <1>1, <1>2, <1>3 DEF CallInv, SeenInv, Moving
  <2> QED BY <2>2, <2>3, <2>4 DEF CallInv
<1> QED BY <1>4, <1>6, <1>8, <1>9, OthersKeep DEF CacheInv

LEMMA PrefixOf ==
    ASSUME CacheTypeOK
    PROVE  Prefix(cells) \in Seq(Cell) /\ (Prefix(cells) = <<>> => Len(cells) = 0)
<1>1. cells \in Seq(Cell) /\ Len(cells) \in Nat /\ 1 \in Nat
  BY Fields
<1> DEFINE u == FirstCells(cells, 1)
<1>2. u \in Seq(Cell) /\ Len(u) = (IF 1 < Len(cells) THEN 1 ELSE Len(cells))
  BY <1>1, FirstCellsOf
<1>3. Prefix(cells) = u
  BY DEF Prefix
<1> HIDE DEF u
<1>4. u = <<>> => Len(u) = 0
  OBVIOUS
<1> QED BY <1>1, <1>2, <1>3, <1>4

\* What Probe finds out.
Differs(c) == cache.prefix # <<>> /\ call[c].size > 0 /\ Prefix(cells) # cache.prefix

LEMMA ProbeEffect ==
    ASSUME CacheInv, NEW c \in Caller, Probe(c)
    PROVE  /\ cells' = cells /\ inode' = inode /\ created' = created /\ rewrites' = rewrites
           /\ faults' = faults /\ calls' = calls /\ rotated' = rotated
           /\ call[c].pc = "probe" /\ Crossing(c) /\ crossed' \in BOOLEAN
           /\ missed' \in BOOLEAN /\ (missed => missed')
           /\ ~missed' /\ rotated /\ inode = cache.key => Prefix(cells) # cache.prefix
           /\ cache' \in CacheRec
           /\ cache'.offset = cache.offset /\ cache'.key = cache.key /\ cache'.snap = cache.snap
           /\ cache'.quorum = cache.quorum
           /\ cache'.prefix = (IF cache.prefix = <<>> /\ call[c].size > 0 THEN Prefix(cells) ELSE cache.prefix)
           /\ \/ Differs(c) /\ Goto(c, "scan")
              \/ ~Differs(c) /\ call[c].size = cache.offset /\ Answer(c, cache.snap)
              \/ ~Differs(c) /\ call[c].size # cache.offset /\ Goto(c, "tail")
<1>1. CacheTypeOK
  BY DEF CacheInv
<1>2. /\ cells' = cells /\ inode' = inode /\ created' = created /\ rewrites' = rewrites
      /\ faults' = faults /\ calls' = calls /\ rotated' = rotated
      /\ call[c].pc = "probe" /\ Crossing(c)
      /\ missed' = (missed \/ (rotated /\ inode = cache.key /\ Prefix(cells) = cache.prefix))
      /\ cache' = IF cache.prefix = <<>> /\ call[c].size > 0
                  THEN [cache EXCEPT !.prefix = Prefix(cells)] ELSE cache
  BY DEF Probe, file, bounds
<1>3. /\ \/ Differs(c) /\ Goto(c, "scan")
         \/ ~Differs(c) /\ call[c].size = cache.offset /\ Answer(c, cache.snap)
         \/ ~Differs(c) /\ call[c].size # cache.offset /\ Goto(c, "tail")
  BY DEF Probe, Differs
<1>4. cache \in CacheRec /\ Prefix(cells) \in Seq(Cell) /\ missed \in BOOLEAN /\ crossed \in BOOLEAN
  BY <1>1, Typed, PrefixOf
<1>5. crossed' \in BOOLEAN /\ missed' \in BOOLEAN
  BY <1>2, <1>4 DEF Crossing
<1> DEFINE p == Prefix(cells)
<1> HIDE DEF p
<1>6. /\ cache' \in CacheRec
      /\ cache'.offset = cache.offset /\ cache'.key = cache.key /\ cache'.snap = cache.snap
      /\ cache'.quorum = cache.quorum
      /\ cache'.prefix = (IF cache.prefix = <<>> /\ call[c].size > 0 THEN p ELSE cache.prefix)
  <2>1. p \in Seq(Cell) /\ cache' = IF cache.prefix = <<>> /\ call[c].size > 0 THEN [cache EXCEPT !.prefix = p] ELSE cache
    BY <1>2, <1>4 DEF p
  <2> QED BY <2>1, <1>4 DEF CacheRec
<1> QED BY <1>2, <1>3, <1>5, <1>6 DEF p

\* A call that passed the checks on a sound cache.
LEMMA SoundFacts ==
    ASSUME CacheInv, NEW c \in Caller, Checked(c), Sound
    PROVE  /\ ~rotated => /\ inode = cache.key /\ cache.offset <= call[c].size /\ call[c].size <= Len(cells)
                          /\ cache.snap = Folds(FirstCells(cells, cache.offset), 0, call[c].k)
           /\ call[c].undisturbed => inode = cache.key /\ call[c].size = Len(cells)
           /\ cache.prefix = <<>> => cache.offset = 0
           /\ cache.offset = 0 => cache.snap = <<>>
<1>1. /\ Settled /\ cache.quorum = call[c].k /\ cache.key = call[c].key /\ cache.offset <= call[c].size
  BY CheckedFacts DEF Sound
<1>2. SettledInv /\ SeenInv(c)
  BY DEF CacheInv, CallInv
<1>3. Moving(c) /\ ~crossed
  BY DEF Moving, Checked, Sound
<1> QED BY <1>1, <1>2, <1>3 DEF SettledInv, SeenInv, Holds

LEMMA ProbeAnswers ==
    ASSUME CacheInv, NEW c \in Caller, Probe(c), ~Differs(c), call[c].size = cache.offset,
           call[c].undisturbed, ~missed', ~crossed'
    PROVE  cache.snap = Replay(call[c].k)
<1>1. /\ call[c].pc = "probe" /\ (missed => missed') /\ Crossing(c)
      /\ rotated /\ inode = cache.key => Prefix(cells) # cache.prefix
  BY ProbeEffect
<1>2. Checked(c) /\ Sound
  BY <1>1 DEF Checked, Sound, Crossing
<1>3. /\ cells \in Seq(Cell) /\ Len(cells) \in Nat /\ call[c].size \in Nat
  BY Fields DEF CacheInv
<1>4. /\ inode = cache.key /\ cache.offset = Len(cells)
      /\ ~rotated => cache.snap = Folds(FirstCells(cells, Len(cells)), 0, call[c].k)
      /\ cache.prefix = <<>> => cache.offset = 0
      /\ cache.offset = 0 => cache.snap = <<>>
  BY <1>2, SoundFacts
<1>5. call[c].k \in QuorumChoice
  BY <1>2, CheckedFacts DEF Sound
<1>6. CASE ~rotated
  <2>1. FirstCells(cells, Len(cells)) = cells
    BY <1>3, FirstCellsOf
  <2> QED BY <2>1, <1>4, <1>6 DEF Replay
<1>7. CASE rotated
  <2>1. cache.prefix = <<>> \/ call[c].size = 0
    BY <1>1, <1>3, <1>4, <1>7 DEF Differs
  <2>2. cache.snap = <<>> /\ Len(cells) <= 0
    BY <2>1, <1>3, <1>4
  <2>3. Folds(cells, 0, call[c].k) = <<>>
    BY <2>2, <1>3, <1>5, FoldsNothing
  <2> QED BY <2>2, <2>3 DEF Replay
<1> QED BY <1>6, <1>7

LEMMA ProbeGoesOn ==
    ASSUME CacheInv, NEW c \in Caller, Probe(c), ~Differs(c), call[c].size # cache.offset,
           ~missed', ~crossed'
    PROVE  /\ ~rotated \/ call[c].undisturbed => cache'.prefix # <<>>
           /\ call[c].undisturbed /\ rotated => cache.snap = <<>> /\ cache.offset = 0
<1>1. /\ call[c].pc = "probe" /\ (missed => missed') /\ Crossing(c)
      /\ rotated /\ inode = cache.key => Prefix(cells) # cache.prefix
      /\ cache'.prefix = (IF cache.prefix = <<>> /\ call[c].size > 0 THEN Prefix(cells) ELSE cache.prefix)
  BY ProbeEffect
<1>2. Checked(c) /\ Sound
  BY <1>1 DEF Checked, Sound, Crossing
<1>3. /\ cells \in Seq(Cell) /\ Len(cells) \in Nat /\ call[c].size \in Nat /\ cache.offset \in Nat
      /\ Prefix(cells) = <<>> => Len(cells) = 0
  BY Fields, PrefixOf DEF CacheInv
<1>4. /\ ~rotated => call[c].size <= Len(cells)
      /\ call[c].undisturbed => inode = cache.key /\ call[c].size = Len(cells)
      /\ cache.prefix = <<>> => cache.offset = 0
      /\ cache.offset = 0 => cache.snap = <<>>
  BY <1>2, SoundFacts
<1>5. call[c].size > 0
  <2>1. cache.offset <= call[c].size
    BY <1>2, CheckedFacts DEF Sound
  <2> QED BY <2>1, <1>3
<1>6. ~rotated \/ call[c].undisturbed => cache'.prefix # <<>>
  BY <1>1, <1>3, <1>4, <1>5
<1>7. call[c].undisturbed /\ rotated => cache.prefix = <<>>
  BY <1>1, <1>4, <1>5 DEF Differs
<1> QED BY <1>4, <1>6, <1>7

LEMMA ProbeStep ==
    ASSUME CacheInv, NEW c \in Caller, Probe(c)
    PROVE  CacheInv'
<1>1. /\ cells' = cells /\ inode' = inode /\ created' = created /\ rewrites' = rewrites
      /\ faults' = faults /\ calls' = calls /\ rotated' = rotated
      /\ call[c].pc = "probe" /\ Crossing(c) /\ crossed' \in BOOLEAN
      /\ missed' \in BOOLEAN /\ (missed => missed')
      /\ cache' \in CacheRec
      /\ cache'.offset = cache.offset /\ cache'.key = cache.key /\ cache'.snap = cache.snap
      /\ cache'.quorum = cache.quorum
      /\ cache'.prefix = (IF cache.prefix = <<>> /\ call[c].size > 0 THEN Prefix(cells) ELSE cache.prefix)
      /\ \/ Differs(c) /\ Goto(c, "scan")
         \/ ~Differs(c) /\ call[c].size = cache.offset /\ Answer(c, cache.snap)
         \/ ~Differs(c) /\ call[c].size # cache.offset /\ Goto(c, "tail")
  BY ProbeEffect
<1>2. CacheTypeOK /\ CallInv(c) /\ FileInv /\ cache.snap \in Snapshots
  BY Fields DEF CacheInv
<1>3. Running(c) /\ Moving(c) /\ Checked(c) /\ ~Rebuilding(c)
  BY <1>1 DEF Running, Moving, Checked, Rebuilding
<1>4. /\ call' \in [Caller -> CallRec] /\ Others(c)
      /\ call'[c].k = call[c].k /\ call'[c].read = call[c].read
      /\ \/ call'[c].pc = "scan"
         \/ /\ call'[c].pc = "done" /\ call'[c].answer = cache.snap
            /\ ~Differs(c) /\ call[c].size = cache.offset
            /\ call'[c].undisturbed => call[c].undisturbed /\ ~missed' /\ ~crossed'
         \/ /\ call'[c].pc = "tail" /\ call'[c].key = call[c].key /\ call'[c].size = call[c].size
            /\ call'[c].undisturbed = call[c].undisturbed
            /\ ~Differs(c) /\ call[c].size # cache.offset
  <2>1. "scan" \in Label /\ "tail" \in Label
    BY DEF Label
  <2>2. CASE Differs(c) /\ Goto(c, "scan")
    BY <2>1, <2>2, <1>2, GotoEffect
  <2>3. CASE ~Differs(c) /\ call[c].size = cache.offset /\ Answer(c, cache.snap)
    BY <2>3, <1>1, <1>2, AnswerEffect
  <2>4. CASE ~Differs(c) /\ call[c].size # cache.offset /\ Goto(c, "tail")
    BY <2>1, <2>4, <1>2, GotoEffect
  <2> QED BY <1>1, <2>2, <2>3, <2>4
<1>5. CacheTypeOK'
  <2>1. /\ cells \in Seq(Cell) /\ inode \in Inode /\ created \in 0 .. MaxCreated /\ calls \in 0 .. MaxCalls
        /\ faults \in 0 .. MaxFaults /\ rewrites \in 0 .. MaxRewrites /\ rotated \in BOOLEAN
        /\ cache.key = NoFile => cache.offset = 0
    BY <1>2, Typed
  <2> QED BY <2>1, <1>1, <1>4, TypedNext
<1>6. Leaves(c) /\ (crossed => crossed')
  BY <1>1, <1>3, <1>4, CrossingLeaves
<1>7. Reads(c)
  BY <1>1, <1>3, <1>4, <1>6 DEF Reads
<1>8. FileInv' /\ QuorumInv' /\ OnceInv' /\ SettledInv'
  <2>1. Upto(call'[c].read, created)
    BY <1>2, <1>4 DEF FileInv
  <2> QED BY <2>1, <1>7, ReadsKeep
<1>9. KnownInv(c)'
  <2>1. /\ call[c].k \in QuorumChoice /\ call[c].key \in Inode /\ (~crossed => ~Stale(c))
    BY <1>2, <1>3 DEF CallInv, KnownInv
  <2>2. call'[c].pc = "tail" => (Stale(c)' <=> Stale(c))
    BY <1>1, <1>4 DEF Stale
  <2> QED BY <2>1, <2>2, <1>1, <1>4, <1>6 DEF KnownInv, Running, Moving, Rebuilding, Checked, Ahead
<1>10. NewsInv(c)' /\ RebuildInv(c)'
  BY <1>4 DEF NewsInv, RebuildInv
<1>11. SeenInv(c)'
  <2>1. SeenInv(c)
    BY <1>2 DEF CallInv
  <2> QED BY <2>1, <1>1, <1>3, <1>4, <1>6 DEF SeenInv, Moving
<1>12. TailInv(c)'
  BY <1>1, <1>4, ProbeGoesOn DEF TailInv, Sound
<1>13. DoneInv(c)'
  <2> SUFFICES ASSUME call'[c].pc = "done", call'[c].undisturbed PROVE (call[c].answer = Replay(call[c].k))'
    BY DEF DoneInv
  <2>1. cache.snap = Replay(call[c].k) /\ call'[c].answer = cache.snap
    BY <1>4, ProbeAnswers
  <2> QED BY <2>1, <1>1, <1>4 DEF Replay
<1> QED BY <1>5, <1>6, <1>8, <1>9, <1>10, <1>11, <1>12, <1>13, OthersKeep DEF CacheInv, CallInv

LEMMA ReadTailEffect ==
    ASSUME CacheInv, NEW c \in Caller, ReadTail(c)
    PROVE  /\ cells' = cells /\ inode' = inode /\ cache' = cache /\ created' = created /\ rewrites' = rewrites
           /\ calls' = calls /\ rotated' = rotated /\ crossed' = crossed
           /\ call[c].pc = "tail" /\ faults' \in 0 .. MaxFaults
           /\ missed' \in BOOLEAN /\ (missed => missed')
           /\ call' \in [Caller -> CallRec] /\ Others(c)
           /\ call'[c].k = call[c].k /\ call'[c].key = call[c].key /\ call'[c].size = call[c].size
           /\ call'[c].undisturbed = call[c].undisturbed
           /\ Upto(call'[c].read, created)
           /\ \/ call'[c].pc = "scan"
              \/ /\ call'[c].pc = "fold"
                 /\ cache.offset <= call[c].size =>
                       LET text == FirstCells(cells, call[c].size) IN
                       /\ call'[c].read = Folds(text, cache.offset, call[c].k)
                       /\ ~missed' => ~SplitsLine(text, cache.offset) /\ (rotated => call[c].undisturbed)
<1>1. /\ CacheTypeOK /\ FileInv
  BY DEF CacheInv
<1>2. /\ cells' = cells /\ inode' = inode /\ cache' = cache /\ created' = created /\ rewrites' = rewrites
      /\ calls' = calls /\ rotated' = rotated /\ crossed' = crossed /\ call[c].pc = "tail"
  BY DEF ReadTail, file
<1> DEFINE text == IF call[c].size < cache.offset THEN cells ELSE FirstCells(cells, call[c].size)
           r == Folds(text, cache.offset, call[c].k)
           m == SplitsLine(text, cache.offset) \/ (rotated /\ ~call[c].undisturbed)
<1>3. \/ /\ call' = [call EXCEPT ![c].pc = "fold", ![c].read = r]
         /\ missed' = (missed \/ m) /\ faults' = faults
      \/ faults < MaxFaults /\ faults' = faults + 1 /\ Goto(c, "scan") /\ missed' = missed
  BY DEF ReadTail
<1>4. /\ cells \in Seq(Cell) /\ cache.offset \in Nat /\ call[c].size \in Nat /\ call[c].k \in QuorumChoice
      /\ call \in [Caller -> CallRec] /\ call[c] \in CallRec
      /\ missed \in BOOLEAN /\ faults \in 0 .. MaxFaults
      /\ DOMAIN cells = 1 .. Len(cells) /\ Len(cells) \in Nat
  <2>1. KnownInv(c) /\ Running(c)
    BY <1>2 DEF CacheInv, CallInv, Running
  <2>2. call[c].k \in QuorumChoice
    BY <2>1 DEF KnownInv
  <2> QED BY <2>2, <1>1, Fields, Typed
<1>5. text \in Seq(Cell) /\ \A i \in DOMAIN text : text[i] \in Event => text[i] <= created
  <2>1. \A i \in DOMAIN cells : cells[i] \in Event => cells[i] <= created
    BY <1>1 DEF FileInv
  <2> DEFINE u == FirstCells(cells, call[c].size)
             n == call[c].size
  <2>2. /\ u \in Seq(Cell) /\ Len(u) = (IF n < Len(cells) THEN n ELSE Len(cells))
        /\ \A i \in 1 .. Len(cells) : i <= n => u[i] = cells[i]
    BY <1>4, FirstCellsOf
  <2>3. n \in Nat
    BY <1>4
  <2> HIDE DEF u, n
  <2>4. DOMAIN u = 1 .. Len(u)
    BY <2>2
  <2>5. \A i \in DOMAIN u : i \in DOMAIN cells /\ u[i] = cells[i]
    BY <2>2, <2>3, <2>4, <1>4
  <2>6. \A i \in DOMAIN u : u[i] \in Event => u[i] <= created
    BY <2>1, <2>5
  <2> QED BY <2>1, <2>2, <2>6, <1>4 DEF u
<1>6. r \in Snapshots /\ Upto(r, created)
  <2> HIDE DEF text
  <2> QED BY <1>4, <1>5, FoldsAre, FoldsUpto DEF Snapshots
<1>7. missed \/ m \in BOOLEAN
  OBVIOUS
<1>8. cache.offset <= call[c].size => text = FirstCells(cells, call[c].size)
  BY <1>4
<1>9. ~(missed \/ m) => ~SplitsLine(text, cache.offset) /\ (rotated => call[c].undisturbed)
  OBVIOUS
<1>10. Upto(call[c].read, created)
  BY <1>1 DEF FileInv
<1>11. CASE call' = [call EXCEPT ![c].pc = "fold", ![c].read = r] /\ missed' = (missed \/ m) /\ faults' = faults
  <2> HIDE DEF r, m
  <2>1. "fold" \in Label
    BY DEF Label
  <2>2. /\ call' \in [Caller -> CallRec] /\ Others(c)
        /\ call'[c].pc = "fold" /\ call'[c].read = r
        /\ call'[c].k = call[c].k /\ call'[c].key = call[c].key /\ call'[c].size = call[c].size
        /\ call'[c].undisturbed = call[c].undisturbed
    BY <2>1, <1>4, <1>6, <1>11 DEF CallRec, Others
  <2>3. missed' \in BOOLEAN /\ (missed => missed') /\ (~missed' => ~(missed \/ m))
    BY <1>11, <1>4
  <2>4. cache.offset <= call[c].size =>
            /\ r = Folds(FirstCells(cells, call[c].size), cache.offset, call[c].k)
            /\ ~missed' => /\ ~SplitsLine(FirstCells(cells, call[c].size), cache.offset)
                           /\ rotated => call[c].undisturbed
    BY <2>3, <1>8, <1>9 DEF r
  <2> HIDE DEF text
  <2> QED BY <2>2, <2>3, <2>4, <1>2, <1>4, <1>6, <1>11
<1>12. CASE faults < MaxFaults /\ faults' = faults + 1 /\ Goto(c, "scan") /\ missed' = missed
  <2>1. "scan" \in Label
    BY DEF Label
  <2>2. /\ call' \in [Caller -> CallRec] /\ Others(c)
        /\ call'[c].pc = "scan" /\ call'[c].read = call[c].read
        /\ call'[c].k = call[c].k /\ call'[c].key = call[c].key /\ call'[c].size = call[c].size
        /\ call'[c].undisturbed = call[c].undisturbed
    BY <2>1, <1>1, <1>12, GotoEffect
  <2>3. faults' \in 0 .. MaxFaults /\ missed' \in BOOLEAN /\ (missed => missed')
    BY <1>4, <1>12, Bounds
  <2> HIDE DEF text, r, m
  <2> QED BY <2>2, <2>3, <1>2, <1>10
<1> HIDE DEF r, m, text
<1> QED BY <1>3, <1>11, <1>12

LEMMA ReadTailStep ==
    ASSUME CacheInv, NEW c \in Caller, ReadTail(c)
    PROVE  CacheInv'
<1> DEFINE text == FirstCells(cells, call[c].size)
<1>1. /\ cells' = cells /\ inode' = inode /\ cache' = cache /\ created' = created /\ rewrites' = rewrites
      /\ calls' = calls /\ rotated' = rotated /\ crossed' = crossed
      /\ call[c].pc = "tail" /\ faults' \in 0 .. MaxFaults
      /\ missed' \in BOOLEAN /\ (missed => missed')
      /\ call' \in [Caller -> CallRec] /\ Others(c)
      /\ call'[c].k = call[c].k /\ call'[c].key = call[c].key /\ call'[c].size = call[c].size
      /\ call'[c].undisturbed = call[c].undisturbed
      /\ Upto(call'[c].read, created)
      /\ \/ call'[c].pc = "scan"
         \/ /\ call'[c].pc = "fold"
            /\ cache.offset <= call[c].size =>
                  /\ call'[c].read = Folds(text, cache.offset, call[c].k)
                  /\ ~missed' => ~SplitsLine(text, cache.offset) /\ (rotated => call[c].undisturbed)
  BY ReadTailEffect
<1> HIDE DEF text
<1>2. CacheTypeOK /\ CallInv(c) /\ FileInv
  BY DEF CacheInv
<1>3. Running(c) /\ Moving(c) /\ Checked(c) /\ Ahead(c) /\ ~Rebuilding(c)
  BY <1>1 DEF Running, Moving, Checked, Ahead, Rebuilding
<1>4. /\ cells \in Seq(Cell) /\ Len(cells) \in Nat /\ call[c].size \in Nat /\ cache.offset \in Nat
      /\ cache.snap \in Snapshots
  BY <1>2, Fields
<1>5. CacheTypeOK'
  <2>1. /\ cells \in Seq(Cell) /\ inode \in Inode /\ created \in 0 .. MaxCreated /\ calls \in 0 .. MaxCalls
        /\ rewrites \in 0 .. MaxRewrites /\ rotated \in BOOLEAN /\ crossed \in BOOLEAN
        /\ cache \in CacheRec /\ (cache.key = NoFile => cache.offset = 0)
    BY <1>2, Typed
  <2> QED BY <2>1, <1>1, TypedNext
<1>6. Leaves(c)
  <2>1. crossed \in BOOLEAN
    BY <1>2, Typed
  <2>2. Crossing(c)
    BY <2>1, <1>1 DEF Crossing
  <2> QED BY <2>2, <1>1, <1>3, CrossingLeaves
<1>7. Reads(c)
  BY <1>1, <1>3 DEF Reads
<1>8. FileInv' /\ QuorumInv' /\ OnceInv' /\ SettledInv'
  BY <1>1, <1>7, ReadsKeep
<1>9. KnownInv(c)'
  <2>1. /\ call[c].k \in QuorumChoice /\ call[c].key \in Inode
        /\ ~crossed => ~Stale(c) /\ call[c].size # cache.offset
    BY <1>2, <1>3 DEF CallInv, KnownInv
  <2>2. Stale(c)' <=> Stale(c)
    BY <1>1 DEF Stale
  <2> QED BY <2>1, <2>2, <1>1 DEF KnownInv, Running, Moving, Rebuilding, Checked, Ahead
<1>10. NewsInv(c)'
  <2> SUFFICES ASSUME ~crossed, call'[c].pc = "fold"
               PROVE  (Once(cache.snap \o call[c].read) /\ Folded(cache.snap \o call[c].read, call[c].size))'
    BY <1>1 DEF NewsInv
  <2>1. /\ call[c].k \in QuorumChoice /\ cache.offset <= call[c].size
        /\ Once(cache.snap) /\ Folded(cache.snap, cache.offset)
    BY <1>3, CheckedFacts
  <2>2. OnceIn(cells)
    BY <1>2 DEF FileInv
  <2>3. /\ Once(cache.snap \o Folds(text, cache.offset, call[c].k))
        /\ Folded(cache.snap \o Folds(text, cache.offset, call[c].k), call[c].size)
    BY <2>1, <2>2, <1>4, FoldsOnTop DEF text
  <2>4. call'[c].read = Folds(text, cache.offset, call[c].k)
    BY <2>1, <1>1
  <2> DEFINE w == cache.snap \o Folds(text, cache.offset, call[c].k)
  <2>5. (cache.snap \o call[c].read)' = w /\ Once(w) /\ Folded(w, call[c].size) /\ call'[c].size = call[c].size
    BY <2>3, <2>4, <1>1
  <2> HIDE DEF w
  <2>6. Once(cache.snap \o call[c].read)'
    BY <2>5 DEF Once
  <2>7. Folded(cache.snap \o call[c].read, call[c].size)'
    BY <2>5, <1>1 DEF Folded
  <2> QED BY <2>6, <2>7
<1>11. SeenInv(c)'
  <2>1. SeenInv(c)
    BY <1>2 DEF CallInv
  <2> QED BY <2>1, <1>1, <1>3 DEF SeenInv, Moving
<1>12. TailInv(c)'
  <2> SUFFICES ASSUME ~missed', ~crossed, call'[c].pc = "fold"
               PROVE  /\ cache.prefix # <<>>
                      /\ call[c].undisturbed /\ rotated => cache.snap = <<>> /\ call'[c].read = Replay(call[c].k)
                      /\ ~rotated => call'[c].read = Folds(text, cache.offset, call[c].k) /\ ~SplitsLine(text, cache.offset)
    BY <1>1 DEF TailInv, Sound, text, Replay
  <2>1. Sound /\ TailInv(c)
    BY <1>1, <1>2 DEF Sound, CallInv
  <2>2. cache.offset <= call[c].size /\ (call[c].undisturbed => call[c].size = Len(cells))
    BY <2>1, <1>3, CheckedFacts, SoundFacts DEF Sound
  <2>3. /\ call'[c].read = Folds(text, cache.offset, call[c].k)
        /\ ~SplitsLine(text, cache.offset) /\ (rotated => call[c].undisturbed)
    BY <2>2, <1>1
  <2>4. /\ cache.prefix # <<>>
        /\ call[c].undisturbed /\ rotated => cache.snap = <<>> /\ cache.offset = 0
    BY <2>1, <2>3, <1>1 DEF TailInv
  <2>5. call[c].undisturbed => text = cells
    BY <2>2, <1>4, FirstCellsOf DEF text
  <2> QED BY <2>3, <2>4, <2>5 DEF Replay
<1>13. RebuildInv(c)' /\ DoneInv(c)'
  BY <1>1 DEF RebuildInv, DoneInv
<1> QED BY <1>5, <1>6, <1>8, <1>9, <1>10, <1>11, <1>12, <1>13, OthersKeep DEF CacheInv, CallInv

LEMMA FoldTailEffect ==
    ASSUME CacheInv, NEW c \in Caller, FoldTail(c)
    PROVE  /\ cells' = cells /\ inode' = inode /\ created' = created /\ rewrites' = rewrites
           /\ faults' = faults /\ calls' = calls /\ rotated' = rotated /\ missed' = missed
           /\ call[c].pc = "fold" /\ Crossing(c) /\ crossed' \in BOOLEAN
           /\ cache' \in CacheRec /\ cache.snap \o call[c].read \in Snapshots
           /\ cache'.snap = cache.snap \o call[c].read /\ cache'.offset = call[c].size
           /\ cache'.key = call[c].key /\ cache'.quorum = call[c].k /\ cache'.prefix = cache.prefix
           /\ call[c].k \in QuorumChoice /\ call[c].key \in Inode
           /\ call' \in [Caller -> CallRec] /\ Others(c)
           /\ call'[c].pc = "done" /\ call'[c].k = call[c].k /\ call'[c].read = call[c].read
           /\ call'[c].answer = cache.snap \o call[c].read
           /\ call'[c].undisturbed => call[c].undisturbed /\ ~missed' /\ ~crossed'
<1>1. /\ cells' = cells /\ inode' = inode /\ created' = created /\ rewrites' = rewrites
      /\ faults' = faults /\ calls' = calls /\ rotated' = rotated /\ missed' = missed
      /\ call[c].pc = "fold" /\ Crossing(c)
      /\ cache' = [cache EXCEPT !.snap = @ \o call[c].read, !.offset = call[c].size,
                                !.key = call[c].key, !.quorum = call[c].k]
      /\ Answer(c, cache.snap \o call[c].read)
  BY DEF FoldTail, file, bounds
<1>2. CacheTypeOK /\ KnownInv(c) /\ Running(c) /\ Moving(c)
  BY <1>1 DEF CacheInv, CallInv, Running, Moving
<1>3. call[c].k \in QuorumChoice /\ call[c].key \in Inode
  BY <1>2 DEF KnownInv
<1>4. /\ cache \in CacheRec /\ cache.snap \in Snapshots /\ call[c].read \in Snapshots /\ call[c].size \in Nat
      /\ missed \in BOOLEAN /\ crossed \in BOOLEAN
  BY <1>2, Fields, Typed
<1> DEFINE w == cache.snap \o call[c].read
<1>5. w \in Snapshots
  BY <1>4, JoinedValues
<1> HIDE DEF w
<1>6. cache' = [cache EXCEPT !.snap = w, !.offset = call[c].size, !.key = call[c].key, !.quorum = call[c].k]
  BY <1>1 DEF w
<1>7. /\ cache' \in CacheRec
      /\ cache'.snap = w /\ cache'.offset = call[c].size
      /\ cache'.key = call[c].key /\ cache'.quorum = call[c].k /\ cache'.prefix = cache.prefix
  BY <1>3, <1>4, <1>5, <1>6 DEF CacheRec
<1>8. missed' \in BOOLEAN /\ crossed' \in BOOLEAN
  BY <1>1, <1>4 DEF Crossing
<1>9. /\ call' \in [Caller -> CallRec] /\ Others(c)
      /\ call'[c].pc = "done" /\ call'[c].k = call[c].k /\ call'[c].read = call[c].read
      /\ call'[c].answer = w
      /\ call'[c].undisturbed => call[c].undisturbed /\ ~missed' /\ ~crossed'
  <2>1. Answer(c, w)
    BY <1>1 DEF w
  <2> QED BY <2>1, <1>2, <1>5, <1>8, AnswerEffect
<1> QED BY <1>1, <1>3, <1>5, <1>7, <1>8, <1>9 DEF w

\* On a sound cache the tail continues the fold of the file.
LEMMA TailContinues ==
    ASSUME CacheInv, NEW c \in Caller, call[c].pc = "fold", Sound
    PROVE  /\ ~rotated => cache.snap \o call[c].read = Folds(FirstCells(cells, call[c].size), 0, call[c].k)
           /\ call[c].undisturbed => cache.snap \o call[c].read = Replay(call[c].k)
<1> DEFINE text == FirstCells(cells, call[c].size)
<1>1. Checked(c) /\ TailInv(c) /\ CacheTypeOK
  BY DEF Checked, CacheInv, CallInv
<1>2. /\ ~rotated => /\ cache.offset <= call[c].size /\ call[c].size <= Len(cells)
                     /\ cache.snap = Folds(FirstCells(cells, cache.offset), 0, call[c].k)
      /\ call[c].undisturbed => call[c].size = Len(cells)
  BY <1>1, SoundFacts
<1>3. call[c].k \in QuorumChoice
  BY <1>1, CheckedFacts DEF Sound
<1>4. /\ cells \in Seq(Cell) /\ Len(cells) \in Nat /\ call[c].size \in Nat /\ cache.offset \in Nat
      /\ call[c].read \in Snapshots
  BY <1>1, Fields
<1>5. ASSUME ~rotated PROVE cache.snap \o call[c].read = Folds(text, 0, call[c].k)
  <2>1. call[c].read = Folds(text, cache.offset, call[c].k) /\ ~SplitsLine(text, cache.offset)
    BY <1>1, <1>5 DEF TailInv
  <2>2. FirstCells(text, cache.offset) = FirstCells(cells, cache.offset)
    BY <1>2, <1>4, <1>5, FirstCellsFirst
  <2>3. text \in Seq(Cell) /\ Len(text) = call[c].size
    <3>1. text \in Seq(Cell) /\ Len(text) = IF call[c].size < Len(cells) THEN call[c].size ELSE Len(cells)
      BY <1>4, FirstCellsOf
    <3> HIDE DEF text
    <3> QED BY <3>1, <1>2, <1>4, <1>5
  <2> HIDE DEF text
  <2>4. Folds(text, 0, call[c].k) = Folds(FirstCells(text, cache.offset), 0, call[c].k) \o Folds(text, cache.offset, call[c].k)
    BY <2>1, <2>3, <1>2, <1>3, <1>4, <1>5, FoldsSplit
  <2> QED BY <2>1, <2>2, <2>4, <1>2, <1>5
<1>6. ASSUME call[c].undisturbed PROVE cache.snap \o call[c].read = Replay(call[c].k)
  <2>1. CASE ~rotated
    <3>1. text = cells
      BY <1>2, <1>4, <1>6, FirstCellsOf
    <3> QED BY <3>1, <2>1, <1>5 DEF Replay
  <2>2. CASE rotated
    <3>1. cache.snap = <<>> /\ call[c].read = Replay(call[c].k)
      BY <2>2, <1>1, <1>6 DEF TailInv
    <3>2. <<>> \o call[c].read = call[c].read
      BY <1>4, ConcatEmptySeq DEF Snapshots
    <3> QED BY <3>1, <3>2
  <2> QED BY <2>1, <2>2
<1> QED BY <1>5, <1>6

LEMMA FoldTailStep ==
    ASSUME CacheInv, NEW c \in Caller, FoldTail(c)
    PROVE  CacheInv'
<1> DEFINE w == cache.snap \o call[c].read
<1>1. /\ cells' = cells /\ inode' = inode /\ created' = created /\ rewrites' = rewrites
      /\ faults' = faults /\ calls' = calls /\ rotated' = rotated /\ missed' = missed
      /\ call[c].pc = "fold" /\ Crossing(c) /\ crossed' \in BOOLEAN
      /\ cache' \in CacheRec /\ w \in Snapshots
      /\ cache'.snap = w /\ cache'.offset = call[c].size
      /\ cache'.key = call[c].key /\ cache'.quorum = call[c].k /\ cache'.prefix = cache.prefix
      /\ call[c].k \in QuorumChoice /\ call[c].key \in Inode
      /\ call' \in [Caller -> CallRec] /\ Others(c)
      /\ call'[c].pc = "done" /\ call'[c].k = call[c].k /\ call'[c].read = call[c].read
      /\ call'[c].answer = w
      /\ call'[c].undisturbed => call[c].undisturbed /\ ~missed' /\ ~crossed'
  BY FoldTailEffect
<1>2. CacheTypeOK /\ CallInv(c) /\ FileInv
  BY DEF CacheInv
<1>3. Running(c) /\ Moving(c) /\ Checked(c) /\ Ahead(c) /\ ~Rebuilding(c)
  BY <1>1 DEF Running, Moving, Checked, Ahead, Rebuilding
<1>4. /\ call[c].size \in Nat /\ cache.offset \in Nat /\ cache.snap \in Snapshots /\ call[c].read \in Snapshots
  BY <1>2, Fields
<1>5. Upto(w, created)
  BY <1>2, <1>4, JoinedUpto DEF FileInv
<1>6. ~crossed => Once(w) /\ Folded(w, call[c].size)
  BY <1>1, <1>2 DEF CallInv, NewsInv
<1>7. /\ Sound /\ ~rotated => w = Folds(FirstCells(cells, call[c].size), 0, call[c].k)
      /\ Sound /\ call[c].undisturbed => w = Replay(call[c].k)
  BY <1>1, TailContinues
<1> HIDE DEF w
<1>8. CacheTypeOK'
  <2>1. /\ cells \in Seq(Cell) /\ inode \in Inode /\ created \in 0 .. MaxCreated /\ calls \in 0 .. MaxCalls
        /\ faults \in 0 .. MaxFaults /\ rewrites \in 0 .. MaxRewrites /\ rotated \in BOOLEAN /\ missed \in BOOLEAN
    BY <1>2, Typed
  <2>2. cache'.key # NoFile
    BY <1>1, Bounds
  <2> QED BY <2>1, <2>2, <1>1, TypedNext
<1>9. Leaves(c) /\ (crossed => crossed')
  BY <1>1, <1>3, CrossingLeaves
<1>10. FileInv'
  BY <1>1, <1>2, <1>5 DEF FileInv, Upto, Others
<1>11. QuorumInv'
  <2>1. cache'.quorum # 0
    BY <1>1, Bounds
  <2> QED BY <2>1 DEF QuorumInv
<1>12. OnceInv'
  <2> SUFFICES ASSUME ~crossed' PROVE Once(cache.snap)' /\ Folded(cache.snap, cache.offset)'
    BY DEF OnceInv
  <2>1. Once(w) /\ Folded(w, call[c].size)
    BY <1>6, <1>9
  <2> QED BY <2>1, <1>1 DEF Once, Folded
<1>13. SettledInv'
  <2> SUFFICES ASSUME Sound'
               PROVE  /\ ~rotated' => Holds(cache.quorum)'
                      /\ cache'.prefix # <<>> /\ cache'.offset # 0
    BY DEF SettledInv
  <2>1. Sound
    BY <1>1, <1>9 DEF Sound
  <2>2. cache'.prefix # <<>>
    BY <2>1, <1>1, <1>2 DEF CallInv, TailInv
  <2>3. cache'.offset # 0
    <3>1. cache.offset <= call[c].size /\ call[c].size # cache.offset
      BY <2>1, <1>2, <1>3, CheckedFacts DEF CallInv, KnownInv, Sound
    <3> QED BY <3>1, <1>1, <1>4
  <2>4. ASSUME ~rotated' PROVE Holds(cache.quorum)'
    <3>1. inode = cache.key /\ call[c].size <= Len(cells) /\ cache.key = call[c].key
      BY <2>1, <2>4, <1>1, <1>3, SoundFacts, CheckedFacts DEF Sound
    <3>2. w = Folds(FirstCells(cells, call[c].size), 0, call[c].k)
      BY <2>1, <2>4, <1>1, <1>7
    <3> QED BY <3>1, <3>2, <1>1 DEF Holds
  <2> QED BY <2>2, <2>3, <2>4
<1>14. CallInv(c)'
  <2>1. KnownInv(c)' /\ NewsInv(c)' /\ SeenInv(c)' /\ TailInv(c)' /\ RebuildInv(c)'
    BY <1>1 DEF KnownInv, NewsInv, SeenInv, TailInv, RebuildInv, Running, Moving, Rebuilding, Checked, Ahead
  <2>2. DoneInv(c)'
    <3> SUFFICES ASSUME call'[c].undisturbed PROVE (call[c].answer = Replay(call[c].k))'
      BY DEF DoneInv
    <3>1. Sound /\ call[c].undisturbed
      BY <1>1, <1>9 DEF Sound
    <3> QED BY <3>1, <1>1, <1>7 DEF Replay
  <2> QED BY <2>1, <2>2 DEF CallInv
<1> QED BY <1>8, <1>9, <1>10, <1>11, <1>12, <1>13, <1>14, OthersKeep DEF CacheInv

LEMMA RebuildScanStep ==
    ASSUME CacheInv, NEW c \in Caller, RebuildScan(c)
    PROVE  CacheInv'
<1> DEFINE r == Replay(call[c].k)
<1>1. /\ cells' = cells /\ inode' = inode /\ created' = created /\ rewrites' = rewrites
      /\ faults' = faults /\ calls' = calls /\ missed' = missed
      /\ rotated' = FALSE /\ crossed' = ~Alone(c) /\ call[c].pc = "scan"
      /\ cache' = [cache EXCEPT !.snap = r]
      /\ call' = [call EXCEPT ![c].pc = "stat", ![c].scanned = TRUE]
  BY DEF RebuildScan, Rebuilt, file, bounds
<1>2. CacheTypeOK /\ CallInv(c) /\ FileInv /\ QuorumInv
  BY DEF CacheInv
<1>3. /\ cells \in Seq(Cell) /\ cache \in CacheRec /\ call \in [Caller -> CallRec] /\ call[c] \in CallRec
      /\ call[c].k \in QuorumChoice
      /\ OnceIn(cells) /\ \A i \in DOMAIN cells : cells[i] \in Event => cells[i] <= created
  BY <1>1, <1>2, Fields DEF CallInv, KnownInv, Running, FileInv
<1>4. r \in Snapshots /\ Once(r) /\ Upto(r, created)
  <2>1. 0 \in Nat
    OBVIOUS
  <2> QED BY <2>1, <1>3, FoldsAre, FoldsUpto DEF Replay, Snapshots
<1> HIDE DEF r
<1>5. /\ cache' \in CacheRec /\ cache'.snap = r /\ cache'.offset = cache.offset /\ cache'.key = cache.key
      /\ cache'.quorum = cache.quorum /\ cache'.prefix = cache.prefix
  BY <1>1, <1>3, <1>4 DEF CacheRec
<1>6. /\ call' \in [Caller -> CallRec] /\ Others(c) /\ call'[c].pc = "stat"
      /\ call'[c].k = call[c].k /\ call'[c].read = call[c].read
  <2>1. "stat" \in Label
    BY DEF Label
  <2> QED BY <2>1, <1>1, <1>3 DEF CallRec, Others
<1>7. CacheTypeOK'
  <2>1. /\ inode \in Inode /\ created \in 0 .. MaxCreated /\ calls \in 0 .. MaxCalls
        /\ faults \in 0 .. MaxFaults /\ rewrites \in 0 .. MaxRewrites /\ missed \in BOOLEAN
        /\ cache.key = NoFile => cache.offset = 0
    BY <1>2, Typed
  <2>2. crossed' \in BOOLEAN /\ rotated' \in BOOLEAN
    BY <1>1 DEF Alone
  <2> QED BY <2>1, <2>2, <1>1, <1>3, <1>5, <1>6, TypedNext
<1>8. Leaves(c)
  BY <1>1, <1>6 DEF Leaves, Alone, Rebuilding, Running
<1>9. FileInv'
  BY <1>1, <1>2, <1>4, <1>5, <1>6 DEF FileInv, Upto, Others
<1>10. QuorumInv'
  <2>1. \A d \in Caller : call[d].pc = "head" => call'[d].pc = "head"
    BY <1>1, <1>6 DEF Others
  <2> QED BY <2>1, <1>2, <1>5 DEF QuorumInv
<1>11. OnceInv'
  BY <1>4, <1>5, <1>6 DEF OnceInv, Once
<1>12. SettledInv'
  BY <1>6 DEF SettledInv, Settled, Rebuilding
<1>13. CallInv(c)'
  <2>1. KnownInv(c)'
    <3>1. ~crossed' => Alone(c)'
      BY <1>1, <1>6 DEF Alone, Others
    <3> QED BY <3>1, <1>3, <1>6 DEF KnownInv, Moving, Checked, Ahead
  <2>2. RebuildInv(c)'
    <3>1. (cache.snap = Replay(call[c].k))'
      BY <1>1, <1>5, <1>6 DEF Replay, r
    <3> QED BY <3>1, <1>6 DEF RebuildInv
  <2>3. NewsInv(c)' /\ SeenInv(c)' /\ TailInv(c)' /\ DoneInv(c)'
    BY <1>6 DEF NewsInv, SeenInv, TailInv, DoneInv, Moving
  <2> QED BY <2>1, <2>2, <2>3 DEF CallInv
<1> QED BY <1>7, <1>8, <1>9, <1>10, <1>11, <1>12, <1>13, OthersKeep DEF CacheInv

LEMMA RebuildStatEffect ==
    ASSUME CacheInv, NEW c \in Caller, RebuildStat(c)
    PROVE  /\ cells' = cells /\ inode' = inode /\ created' = created /\ rewrites' = rewrites
           /\ calls' = calls /\ rotated' = rotated
           /\ call[c].pc = "stat" /\ missed' = ~call[c].scanned /\ Crossing(c)
           /\ missed' \in BOOLEAN /\ crossed' \in BOOLEAN /\ faults' \in 0 .. MaxFaults
           /\ cache' \in CacheRec /\ cache'.snap = cache.snap
           /\ cache'.quorum = cache.quorum /\ cache'.prefix = cache.prefix
           /\ \/ cache'.offset = Len(cells) /\ cache'.key = inode
              \/ cache'.offset = 0 /\ cache'.key = NoFile
           /\ call' \in [Caller -> CallRec] /\ Others(c)
           /\ call'[c].pc = "head" /\ call'[c].k = call[c].k /\ call'[c].read = call[c].read
<1>1. /\ cells' = cells /\ inode' = inode /\ created' = created /\ rewrites' = rewrites
      /\ calls' = calls /\ rotated' = rotated
      /\ call[c].pc = "stat" /\ missed' = ~call[c].scanned /\ Crossing(c) /\ Goto(c, "head")
      /\ \/ cache' = [cache EXCEPT !.offset = Len(cells), !.key = inode] /\ faults' = faults
         \/ /\ faults < MaxFaults /\ faults' = faults + 1
            /\ cache' = [cache EXCEPT !.offset = 0, !.key = NoFile]
  BY DEF RebuildStat, file
<1>2. CacheTypeOK
  BY DEF CacheInv
<1>3. /\ cache \in CacheRec /\ Len(cells) \in Nat /\ inode \in Inode /\ call[c].scanned \in BOOLEAN
      /\ crossed \in BOOLEAN /\ faults \in 0 .. MaxFaults
  BY <1>2, Fields, Typed
<1>4. /\ cache' \in CacheRec /\ cache'.snap = cache.snap
      /\ cache'.quorum = cache.quorum /\ cache'.prefix = cache.prefix
      /\ \/ cache'.offset = Len(cells) /\ cache'.key = inode
         \/ cache'.offset = 0 /\ cache'.key = NoFile
  <2>1. CASE cache' = [cache EXCEPT !.offset = Len(cells), !.key = inode]
    BY <2>1, <1>3 DEF CacheRec
  <2>2. CASE cache' = [cache EXCEPT !.offset = 0, !.key = NoFile]
    BY <2>2, <1>3 DEF CacheRec
  <2> QED BY <2>1, <2>2, <1>1
<1>5. missed' \in BOOLEAN /\ crossed' \in BOOLEAN
  BY <1>1, <1>3 DEF Crossing
<1>6. faults' \in 0 .. MaxFaults
  BY <1>1, <1>3, Bounds
<1>7. /\ call' \in [Caller -> CallRec] /\ Others(c)
      /\ call'[c].pc = "head" /\ call'[c].k = call[c].k /\ call'[c].read = call[c].read
  <2>1. "head" \in Label
    BY DEF Label
  <2> QED BY <2>1, <1>1, <1>2, GotoEffect
<1> QED BY <1>1, <1>4, <1>5, <1>6, <1>7

LEMMA RebuildStatStep ==
    ASSUME CacheInv, NEW c \in Caller, RebuildStat(c)
    PROVE  CacheInv'
<1>1. /\ cells' = cells /\ inode' = inode /\ created' = created /\ rewrites' = rewrites
      /\ calls' = calls /\ rotated' = rotated
      /\ call[c].pc = "stat" /\ missed' = ~call[c].scanned /\ Crossing(c)
      /\ missed' \in BOOLEAN /\ crossed' \in BOOLEAN /\ faults' \in 0 .. MaxFaults
      /\ cache' \in CacheRec /\ cache'.snap = cache.snap
      /\ cache'.quorum = cache.quorum /\ cache'.prefix = cache.prefix
      /\ \/ cache'.offset = Len(cells) /\ cache'.key = inode
         \/ cache'.offset = 0 /\ cache'.key = NoFile
      /\ call' \in [Caller -> CallRec] /\ Others(c)
      /\ call'[c].pc = "head" /\ call'[c].k = call[c].k /\ call'[c].read = call[c].read
  BY RebuildStatEffect
<1>2. CacheTypeOK /\ CallInv(c) /\ FileInv /\ OnceInv
  BY DEF CacheInv
<1>3. Running(c) /\ Rebuilding(c)
  BY <1>1 DEF Running, Rebuilding
<1>4. /\ cells \in Seq(Cell) /\ Len(cells) \in Nat /\ DOMAIN cells = 1 .. Len(cells) /\ inode \in Inode
      /\ inode # NoFile /\ call[c].k \in QuorumChoice
  BY <1>2, <1>3, Fields, Bounds DEF CallInv, KnownInv
<1>5. CacheTypeOK'
  <2>1. /\ created \in 0 .. MaxCreated /\ calls \in 0 .. MaxCalls
        /\ rewrites \in 0 .. MaxRewrites /\ rotated \in BOOLEAN
    BY <1>2, Typed
  <2> QED BY <2>1, <1>1, <1>4, TypedNext
<1>6. Leaves(c) /\ (crossed => crossed')
  BY <1>1, <1>3, CrossingLeaves
<1>7. FileInv'
  BY <1>1, <1>2 DEF FileInv, Upto, Others
<1>8. QuorumInv'
  BY <1>1 DEF QuorumInv
<1>9. OnceInv'
  <2> SUFFICES ASSUME ~crossed'
               PROVE  Once(cache.snap)' /\ ((cache.key # NoFile)' => Folded(cache.snap, cache.offset)')
    BY DEF OnceInv
  <2>1. Once(cache.snap)'
    BY <1>1, <1>2, <1>6 DEF OnceInv, Once
  <2>2. ASSUME cache'.key # NoFile PROVE Folded(cache.snap, cache.offset)'
    <3>1. cache'.offset = Len(cells) /\ \A j \in DOMAIN cells : j <= Len(cells)
      BY <2>2, <1>1, <1>4
    <3> QED BY <3>1, <1>1 DEF Folded
  <2> QED BY <2>1, <2>2
<1>10. SettledInv'
  BY <1>1 DEF SettledInv, Settled, Rebuilding
<1>11. CallInv(c)'
  <2>1. ~crossed' => Alone(c)'
    <3>1. ~crossed => Alone(c)
      BY <1>2, <1>3 DEF CallInv, KnownInv
    <3> QED BY <3>1, <1>1, <1>6 DEF Alone, Others
  <2>2. KnownInv(c)'
    BY <2>1, <1>1, <1>4 DEF KnownInv, Moving, Checked, Ahead
  <2>3. RebuildInv(c)'
    <3> SUFFICES ASSUME ~missed', ~crossed'
                 PROVE  (cache'.key # NoFile => Holds(call[c].k)') /\ (cache.snap = Replay(call[c].k))'
      BY <1>1 DEF RebuildInv, Sound
    <3>1. cache.snap = Replay(call[c].k)
      BY <1>1, <1>2, <1>6 DEF CallInv, RebuildInv
    <3>2. (cache.snap = Replay(call[c].k))'
      BY <3>1, <1>1 DEF Replay
    <3>3. ASSUME cache'.key # NoFile PROVE Holds(call[c].k)'
      <4>1. cache'.offset = Len(cells) /\ cache'.key = inode
        BY <3>3, <1>1
      <4>2. FirstCells(cells, Len(cells)) = cells
        BY <1>4, FirstCellsOf
      <4>3. cache'.snap = Folds(FirstCells(cells, Len(cells)), 0, call[c].k) /\ Len(cells) <= Len(cells)
        BY <3>1, <4>2, <1>1, <1>4 DEF Replay
      <4> QED BY <4>1, <4>3, <1>1 DEF Holds
    <3> QED BY <3>2, <3>3
  <2>4. NewsInv(c)' /\ SeenInv(c)' /\ TailInv(c)' /\ DoneInv(c)'
    BY <1>1 DEF NewsInv, SeenInv, TailInv, DoneInv, Moving
  <2> QED BY <2>2, <2>3, <2>4 DEF CallInv
<1> QED BY <1>5, <1>6, <1>7, <1>8, <1>9, <1>10, <1>11, OthersKeep DEF CacheInv

LEMMA RebuildHeadEffect ==
    ASSUME CacheInv, NEW c \in Caller, RebuildHead(c)
    PROVE  /\ cells' = cells /\ inode' = inode /\ created' = created /\ rewrites' = rewrites
           /\ faults' = faults /\ calls' = calls /\ rotated' = rotated
           /\ call[c].pc = "head" /\ missed' = (missed \/ rotated) /\ Crossing(c)
           /\ missed' \in BOOLEAN /\ crossed' \in BOOLEAN
           /\ call[c].k \in QuorumChoice
           /\ cache' \in CacheRec /\ cache'.snap = cache.snap /\ cache'.offset = cache.offset
           /\ cache'.key = cache.key /\ cache'.quorum = call[c].k /\ cache'.prefix = Prefix(cells)
           /\ call' \in [Caller -> CallRec] /\ Others(c)
           /\ call'[c].pc = "done" /\ call'[c].k = call[c].k /\ call'[c].read = call[c].read
           /\ call'[c].answer = cache.snap
           /\ call'[c].undisturbed => call[c].undisturbed /\ ~missed' /\ ~crossed'
<1>1. /\ cells' = cells /\ inode' = inode /\ created' = created /\ rewrites' = rewrites
      /\ faults' = faults /\ calls' = calls /\ rotated' = rotated
      /\ call[c].pc = "head" /\ missed' = (missed \/ rotated) /\ Crossing(c) /\ Answer(c, cache.snap)
      /\ cache' = [cache EXCEPT !.prefix = Prefix(cells), !.quorum = call[c].k]
  BY DEF RebuildHead, file, bounds
<1>2. CacheTypeOK
  BY DEF CacheInv
<1>3. call[c].k \in QuorumChoice
  BY <1>1 DEF CacheInv, CallInv, KnownInv, Running
<1> DEFINE p == Prefix(cells)
<1>4. /\ cache \in CacheRec /\ cache.snap \in Snapshots /\ p \in Seq(Cell)
      /\ missed \in BOOLEAN /\ rotated \in BOOLEAN /\ crossed \in BOOLEAN
  BY <1>2, Fields, Typed, PrefixOf
<1> HIDE DEF p
<1>5. /\ cache' \in CacheRec /\ cache'.snap = cache.snap /\ cache'.offset = cache.offset
      /\ cache'.key = cache.key /\ cache'.quorum = call[c].k /\ cache'.prefix = p
  <2>1. cache' = [cache EXCEPT !.prefix = p, !.quorum = call[c].k]
    BY <1>1 DEF p
  <2> QED BY <2>1, <1>3, <1>4 DEF CacheRec
<1>6. missed' \in BOOLEAN /\ crossed' \in BOOLEAN
  BY <1>1, <1>4 DEF Crossing
<1>7. /\ call' \in [Caller -> CallRec] /\ Others(c)
      /\ call'[c].pc = "done" /\ call'[c].k = call[c].k /\ call'[c].read = call[c].read
      /\ call'[c].answer = cache.snap
      /\ call'[c].undisturbed => call[c].undisturbed /\ ~missed' /\ ~crossed'
  BY <1>1, <1>2, <1>4, <1>6, AnswerEffect
<1> QED BY <1>1, <1>3, <1>5, <1>6, <1>7 DEF p

LEMMA RebuildHeadStep ==
    ASSUME CacheInv, NEW c \in Caller, RebuildHead(c)
    PROVE  CacheInv'
<1>1. /\ cells' = cells /\ inode' = inode /\ created' = created /\ rewrites' = rewrites
      /\ faults' = faults /\ calls' = calls /\ rotated' = rotated
      /\ call[c].pc = "head" /\ missed' = (missed \/ rotated) /\ Crossing(c)
      /\ missed' \in BOOLEAN /\ crossed' \in BOOLEAN
      /\ call[c].k \in QuorumChoice
      /\ cache' \in CacheRec /\ cache'.snap = cache.snap /\ cache'.offset = cache.offset
      /\ cache'.key = cache.key /\ cache'.quorum = call[c].k /\ cache'.prefix = Prefix(cells)
      /\ call' \in [Caller -> CallRec] /\ Others(c)
      /\ call'[c].pc = "done" /\ call'[c].k = call[c].k /\ call'[c].read = call[c].read
      /\ call'[c].answer = cache.snap
      /\ call'[c].undisturbed => call[c].undisturbed /\ ~missed' /\ ~crossed'
  BY RebuildHeadEffect
<1>2. CacheTypeOK /\ CallInv(c) /\ FileInv /\ OnceInv
  BY DEF CacheInv
<1>3. Running(c) /\ Rebuilding(c)
  BY <1>1 DEF Running, Rebuilding
<1>4. /\ cells \in Seq(Cell) /\ Len(cells) \in Nat /\ cache.offset \in Nat
      /\ Prefix(cells) = <<>> => Len(cells) = 0
  BY <1>2, Fields, PrefixOf
<1>5. CacheTypeOK'
  <2>1. /\ inode \in Inode /\ created \in 0 .. MaxCreated /\ calls \in 0 .. MaxCalls /\ faults \in 0 .. MaxFaults
        /\ rewrites \in 0 .. MaxRewrites /\ rotated \in BOOLEAN /\ (cache.key = NoFile => cache.offset = 0)
    BY <1>2, Typed
  <2> QED BY <2>1, <1>1, <1>4, TypedNext
<1>6. Leaves(c) /\ (crossed => crossed')
  BY <1>1, <1>3, CrossingLeaves
<1>7. FileInv'
  BY <1>1, <1>2 DEF FileInv, Upto, Others
<1>8. QuorumInv'
  <2>1. cache'.quorum # 0
    BY <1>1, Bounds
  <2> QED BY <2>1 DEF QuorumInv
<1>9. OnceInv'
  <2> SUFFICES ASSUME ~crossed'
               PROVE  /\ Once(cache.snap)'
                      /\ (cache.key # NoFile /\ \A d \in Caller : call[d].pc # "stat")' => Folded(cache.snap, cache.offset)'
    BY DEF OnceInv
  <2>1. Once(cache.snap)'
    BY <1>1, <1>2, <1>6 DEF OnceInv, Once
  <2>2. ASSUME cache'.key # NoFile, \A d \in Caller : call'[d].pc # "stat"
        PROVE  Folded(cache.snap, cache.offset)'
    <3>1. \A d \in Caller : call[d].pc # "stat"
      BY <2>2, <1>1 DEF Others
    <3>2. Folded(cache.snap, cache.offset)
      BY <3>1, <2>2, <1>1, <1>2, <1>6 DEF OnceInv
    <3> QED BY <3>2, <1>1 DEF Folded
  <2> QED BY <2>1, <2>2
<1>10. SettledInv'
  <2> SUFFICES ASSUME Sound', cache'.key # NoFile
               PROVE  /\ Holds(cache.quorum)'
                      /\ cache'.prefix = <<>> => cache'.offset = 0
                      /\ cache'.offset = 0 => cache'.snap = <<>>
    BY DEF SettledInv, Settled
  <2>1. Sound /\ ~rotated
    BY <1>1, <1>6 DEF Sound
  <2>2. Holds(call[c].k)
    BY <2>1, <1>1, <1>2 DEF CallInv, RebuildInv
  <2>3. cache.offset <= Len(cells) /\ cache.snap = Folds(FirstCells(cells, cache.offset), 0, call[c].k)
    BY <2>2 DEF Holds
  <2>4. Holds(cache.quorum)'
    BY <2>2, <1>1 DEF Holds
  <2>5. cache'.prefix = <<>> => cache'.offset = 0
    BY <2>3, <1>1, <1>4
  <2>6. ASSUME cache'.offset = 0 PROVE cache'.snap = <<>>
    <3> DEFINE u == FirstCells(cells, 0)
    <3>1. 0 \in Nat
      OBVIOUS
    <3>2. u \in Seq(Cell) /\ Len(u) = IF 0 < Len(cells) THEN 0 ELSE Len(cells)
      BY <3>1, <1>4, FirstCellsOf
    <3>3. cache.snap = Folds(u, 0, call[c].k)
      BY <2>3, <2>6, <1>1
    <3> HIDE DEF u
    <3>4. Len(u) <= 0
      BY <3>2, <1>4
    <3> QED BY <3>1, <3>2, <3>3, <3>4, <1>1, FoldsNothing
  <2> QED BY <2>4, <2>5, <2>6
<1>11. CallInv(c)'
  <2>1. KnownInv(c)' /\ NewsInv(c)' /\ SeenInv(c)' /\ TailInv(c)' /\ RebuildInv(c)'
    BY <1>1 DEF KnownInv, NewsInv, SeenInv, TailInv, RebuildInv, Running, Moving, Rebuilding, Checked, Ahead
  <2>2. DoneInv(c)'
    <3> SUFFICES ASSUME call'[c].undisturbed PROVE (call[c].answer = Replay(call[c].k))'
      BY DEF DoneInv
    <3>1. Sound /\ call[c].undisturbed
      BY <1>1, <1>6 DEF Sound
    <3>2. cache.snap = Replay(call[c].k)
      BY <3>1, <1>1, <1>2 DEF CallInv, RebuildInv
    <3> QED BY <3>2, <1>1 DEF Replay
  <2> QED BY <2>1, <2>2 DEF CallInv
<1> QED BY <1>5, <1>6, <1>7, <1>8, <1>9, <1>10, <1>11, OthersKeep DEF CacheInv

LEMMA InvalidateStep ==
    ASSUME CacheInv, Invalidate
    PROVE  CacheInv'
<1>1. /\ cells' = cells /\ inode' = inode /\ call' = call /\ created' = created /\ faults' = faults
      /\ calls' = calls /\ rotated' = rotated /\ missed' = missed /\ crossed' = crossed
      /\ rewrites < MaxRewrites /\ rewrites' = rewrites + 1
      /\ \A c \in Caller : call[c].pc \in {"idle", "done"}
      /\ cache' = [cache EXCEPT !.offset = 0, !.key = NoFile, !.snap = <<>>, !.quorum = 0]
  BY DEF Invalidate, Invalidated, file, history
<1>2. CacheTypeOK /\ FileInv
  BY DEF CacheInv
<1>3. cache \in CacheRec /\ <<>> \in Snapshots
  BY <1>2, Fields DEF Snapshots
<1>4. cache' \in CacheRec /\ cache'.offset = 0 /\ cache'.key = NoFile /\ cache'.snap = <<>> /\ cache'.quorum = 0
  BY <1>1, <1>3 DEF CacheRec
<1>5. CacheTypeOK'
  <2>1. /\ cells \in Seq(Cell) /\ inode \in Inode /\ call \in [Caller -> CallRec]
        /\ created \in 0 .. MaxCreated /\ calls \in 0 .. MaxCalls
        /\ faults \in 0 .. MaxFaults /\ rewrites \in 0 .. MaxRewrites
        /\ {rotated, missed, crossed} \subseteq BOOLEAN
    BY <1>2, Typed
  <2>2. rewrites' \in 0 .. MaxRewrites
    BY <2>1, <1>1, Bounds
  <2> QED BY <2>1, <2>2, <1>1, <1>4, TypedNext
<1> DEFINE s == <<>>
<1>6. DOMAIN s = {} /\ cache'.snap = s
  BY <1>4
<1> HIDE DEF s
<1>7. FileInv'
  BY <1>1, <1>2, <1>6 DEF FileInv, Upto
<1>8. QuorumInv' /\ SettledInv'
  BY <1>4 DEF QuorumInv, SettledInv, Settled
<1>9. OnceInv'
  BY <1>4, <1>6 DEF OnceInv, Once
<1>10. ASSUME NEW c \in Caller PROVE CallInv(c)'
  <2>1. CallInv(c) /\ call[c].pc \in {"idle", "done"} /\ call'[c] = call[c]
    BY <1>1 DEF CacheInv
  <2>2. KnownInv(c)' /\ NewsInv(c)' /\ SeenInv(c)' /\ TailInv(c)' /\ RebuildInv(c)'
    BY <2>1 DEF KnownInv, NewsInv, SeenInv, TailInv, RebuildInv, Running, Moving, Rebuilding, Checked, Ahead
  <2>3. DoneInv(c)'
    BY <2>1, <1>1 DEF CallInv, DoneInv, Replay
  <2> QED BY <2>2, <2>3 DEF CallInv
<1> QED BY <1>5, <1>7, <1>8, <1>9, <1>10 DEF CacheInv

-----------------------------------------------------------------------------
LEMMA CacheInitInv ==
    CacheInit => CacheInv
<1> SUFFICES ASSUME CacheInit PROVE CacheInv
  OBVIOUS
<1> DEFINE s == <<>>
           a == [offset |-> 0, key |-> NoFile, prefix |-> s, snap |-> s, quorum |-> 0]
           b == [pc |-> "idle", k |-> 0, key |-> NoFile, size |-> 0, undisturbed |-> TRUE,
                 scanned |-> FALSE, read |-> s, answer |-> s]
<1>1. /\ cells = s /\ inode \in Inode /\ cache = a /\ call = [c \in Caller |-> b]
      /\ created = 0 /\ rewrites = 0 /\ faults = 0 /\ calls = 0
      /\ rotated = FALSE /\ missed = FALSE /\ crossed = FALSE
  BY DEF CacheInit
<1>2. s \in Seq(Cell) /\ s \in Snapshots /\ DOMAIN s = {}
  BY DEF Snapshots
<1> HIDE DEF s
<1>3. a \in CacheRec /\ a.offset = 0 /\ a.key = NoFile /\ a.snap = s
  BY <1>2 DEF CacheRec
<1>4. b \in CallRec /\ b.pc = "idle" /\ b.read = s
  <2>1. "idle" \in Label
    BY DEF Label
  <2> QED BY <2>1, <1>2 DEF CallRec
<1> HIDE DEF a, b
<1>5. call \in [Caller -> CallRec] /\ \A c \in Caller : call[c].pc = "idle" /\ call[c].read = s
  BY <1>1, <1>4
<1>6. CacheTypeOK
  <2>1. 0 \in 0 .. MaxCreated /\ 0 \in 0 .. MaxRewrites /\ 0 \in 0 .. MaxFaults /\ 0 \in 0 .. MaxCalls
    BY Bounds
  <2> QED BY <2>1, <1>1, <1>2, <1>3, <1>5, Typed
<1>7. FileInv
  BY <1>1, <1>2, <1>3, <1>5 DEF FileInv, OnceIn, Upto
<1>8. QuorumInv /\ SettledInv
  BY <1>1, <1>3 DEF QuorumInv, SettledInv, Settled
<1>9. OnceInv
  BY <1>1, <1>2, <1>3 DEF OnceInv, Once
<1>10. ASSUME NEW c \in Caller PROVE CallInv(c)
  BY <1>5 DEF CallInv, KnownInv, NewsInv, SeenInv, TailInv, RebuildInv, DoneInv,
              Running, Moving, Rebuilding, Checked, Ahead
<1> QED BY <1>6, <1>7, <1>8, <1>9, <1>10 DEF CacheInv

LEMMA CacheNextInv ==
    ASSUME CacheInv, [CacheNext]_cacheVars
    PROVE  CacheInv'
<1>1. CASE AppendEvent
  BY <1>1, AppendEventWrites, WrittenStep
<1>2. CASE RepairTail
  BY <1>2, RepairTailWrites, WrittenStep
<1>3. CASE Rotate
  BY <1>3, RotateWrites, WrittenStep
<1>4. CASE Clear
  BY <1>4, ClearWrites, WrittenStep
<1>5. CASE Invalidate
  BY <1>5, InvalidateStep
<1>6. ASSUME NEW c \in Caller, Get(c) PROVE CacheInv'
  BY <1>6, StatStep, CompareStep, ProbeStep, ReadTailStep, FoldTailStep,
     RebuildScanStep, RebuildStatStep, RebuildHeadStep DEF Get
<1>7. CASE UNCHANGED cacheVars
  <2>1. /\ cells' = cells /\ inode' = inode /\ cache' = cache /\ call' = call
        /\ created' = created /\ rewrites' = rewrites /\ faults' = faults /\ calls' = calls
        /\ rotated' = rotated /\ missed' = missed /\ crossed' = crossed
    BY <1>7 DEF cacheVars, file, bounds, history
  <2>2. CacheTypeOK' /\ FileInv' /\ QuorumInv' /\ OnceInv'
    <3>1. CacheTypeOK'
      BY <2>1, Typed, TypedNext DEF CacheInv
    <3>2. FileInv'
      BY <2>1 DEF CacheInv, FileInv, Upto
    <3> QED BY <3>1, <3>2, <2>1 DEF CacheInv, QuorumInv, OnceInv, Once, Folded
  <2>3. SettledInv'
    BY <2>1 DEF CacheInv, SettledInv, Sound, Settled, Rebuilding, Holds
  <2>4. ASSUME NEW c \in Caller PROVE CallInv(c)'
    <3>1. CallInv(c)
      BY DEF CacheInv
    <3>2. KnownInv(c)' /\ NewsInv(c)' /\ SeenInv(c)'
      BY <2>1, <3>1 DEF CallInv, KnownInv, NewsInv, SeenInv, Running, Moving, Rebuilding, Checked, Ahead,
                        Alone, Stale, Once, Folded
    <3>3. TailInv(c)' /\ RebuildInv(c)' /\ DoneInv(c)'
      BY <2>1, <3>1 DEF CallInv, TailInv, RebuildInv, DoneInv, Sound, Holds, Replay
    <3> QED BY <3>2, <3>3 DEF CallInv
  <2> QED BY <2>2, <2>3, <2>4 DEF CacheInv
<1> QED BY <1>1, <1>2, <1>3, <1>4, <1>5, <1>6, <1>7 DEF CacheNext

\* What ties the cache, the calls under way and the file together holds in every state.
THEOREM CacheInvariant == CacheSpec => []CacheInv
<1>1. CacheInv /\ [CacheNext]_cacheVars => CacheInv'
  BY CacheNextInv
<1> QED BY <1>1, CacheInitInv, PTL DEF CacheSpec

\* Every variable keeps its type.
THEOREM CacheTypeCorrect == CacheSpec => []CacheTypeOK
<1>1. CacheInv => CacheTypeOK
  BY DEF CacheInv
<1> QED BY <1>1, CacheInvariant, PTL

\* However many threads read the cache and whatever is written, torn, truncated or
\* replaced between their system calls, no event is in the snapshot twice, unless
\* two calls changed the cache at once since the last rebuild.
THEOREM NothingFoldedTwice == CacheSpec => []NoRepeat
<1>1. CacheInv => NoRepeat
  BY DEF CacheInv, OnceInv, Once, NoRepeat
<1> QED BY <1>1, CacheInvariant, PTL

\* A call during which the file did not change answers with the fold of the whole
\* log, after any history in which no bytes were missed and no calls crossed.
THEOREM AnswersAreFresh == CacheSpec => []FreshAnswer
<1>1. CacheInv => FreshAnswer
  BY DEF CacheInv, CallInv, DoneInv, FreshAnswer
<1> QED BY <1>1, CacheInvariant, PTL
=============================================================================
