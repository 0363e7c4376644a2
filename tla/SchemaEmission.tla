---------------------------- MODULE SchemaEmission ----------------------------
(***************************************************************************)
(* Who writes the schema-lifecycle events: the stages interference,        *)
(* schema_update and persistence of consolidation runs (pipeline.py), each *)
(* with an index of the schemas it knows and a snapshot folded under       *)
(* quorum 1, while recall (retrieval/engine.py) hides what a fold under    *)
(* ReadQuorum calls deprecated.  Runs of several processes overlap, an     *)
(* append or a statement may fail, a process may be killed, retention cuts *)
(* the log, other tools may append deprecations of their own, and schemas  *)
(* leave the live states and come back to them.                            *)
(*                                                                         *)
(* Data.  A schema is a number.  Its pattern is a summary (its first 80    *)
(* characters) and a text.  A run's window id is its number.  A conflict   *)
(* is the new fact it names; every conflict overlaps every pattern's       *)
(* facts.  Evidence is not shared between schemas (schema_family_share is  *)
(* 0), and no pattern is too short.                                        *)
(***************************************************************************)
EXTENDS Naturals, FiniteSets, Sequences, Thresholds

CONSTANTS
    Emitter,        \* consolidator identities
    ConsolidatorId, \* the consolidator_id of each run; None for "", which names no emitter
    None,           \* Python's None
    Blank,          \* the window id ""; no run has it
    ReadQuorum,     \* retrieval.deprecate_quorum_k
    Summary,        \* what a pattern begins with
    Text,           \* what the whole pattern may say
    Supports,       \* how many facts may support a pattern in one window
    Disagreeing,    \* the runs whose new facts disagree with stored ones
    IndexLimit,     \* how many schemas a run reads
    MaxRuns,        \* bound: calls of run()
    MaxSchemas,     \* bound: schemas created
    MaxItems,       \* bound: patterns reported
    OutsideVotes,   \* bound: the emitters and windows of the deprecations that no run emits
    MaxFaults       \* bound: failed appends and statements, kills and cuts of the log

Run      == 1 .. MaxRuns
SchemaId == 1 .. MaxSchemas
Outside  == 0
WindowId == Run \cup {Outside}
Fact     == Run \X (1 .. DeprecateAt)

ASSUME BoundsAssumption ==
    {IndexLimit, MaxRuns, MaxSchemas, MaxItems, MaxFaults} \subseteq Nat /\ Supports \subseteq Nat
ASSUME OutsideAssumption ==
    OutsideVotes \subseteq [window : {Outside, None}, emitter : Emitter \cup {None}]
ASSUME ReadQuorumAssumption == ReadQuorum \in Nat \ {0}
ASSUME ConsolidatorAssumption == ConsolidatorId \in [Run -> Emitter \cup {None}]
ASSUME SentinelAssumption == None \notin WindowId \cup Emitter

\* The reducer under a quorum: that of the pipeline is 1, that of recall ReadQuorum.
Reducer(quorum) == INSTANCE SchemaReducer WITH
    Schema <- SchemaId, Window <- WindowId, Quorum <- quorum

VARIABLES
    log,        \* the lifecycle events of the event log
    known,      \* known[s]: the pattern, maker and evidence of schema s
    rows,       \* the schemas whose memory is active or fading in SQLite
    facts,      \* the new facts that have been stored
    run,        \* run[r]: where run r stands, and its variables
    reported, outside, faults,  \* counters against the bounds
    overlap, missed, unborn, undecided, stored      \* history: see "History" below

bounds  == <<reported, outside, faults>>
history == <<overlap, missed, unborn, undecided, stored>>
vars    == <<log, known, rows, facts, run, bounds, history>>

-----------------------------------------------------------------------------
Folded(quorum, s, st, ev) == IF ev.schema = s THEN Reducer(quorum)!Apply(st, ev) ELSE st

\* reduce_events: the state of schema s after each event.
States(quorum, s, events) ==
    LET after[n \in 0 .. Len(events)] ==
            IF n = 0 THEN Reducer(quorum)!Unknown ELSE Folded(quorum, s, after[n - 1], events[n])
    IN  after

\* Mutant: a projection that skips the events without a window.
WriterStateOfWindows(s) ==
    LET seen == SelectSeq(log, LAMBDA ev : ev.window # None) IN States(1, s, seen)[Len(seen)]

\* snapshot_from_buffer, and the same for the quorum of recall.
WriterState(s) == States(1, s, log)[Len(log)]
ReaderState(s) == States(ReadQuorum, s, log)[Len(log)]

\* recall drops a schema that is deprecated in its snapshot.
HiddenFromRecall(s) == ReaderState(s).status = "deprecated"

Created   == DOMAIN known
Active(r) == run[r].pc \notin {"new", "ended", "dead"}

Update(r, context) == run' = [run EXCEPT ![r] = context]

Fault == faults < MaxFaults /\ faults' = faults + 1

Pattern == [summary : Summary, text : Text, supports : Supports]

NoItem == [summary |-> None, text |-> None, supports |-> 0]

NewRun == [pc |-> "new", index |-> {}, snap |-> <<>>, item |-> NoItem,
           queue |-> <<>>, made |-> <<>>, conflicts |-> {}]

\* make_lifecycle_event
Emitted(r, s, kind) == [schema |-> s, kind |-> kind, window |-> r, emitter |-> ConsolidatorId[r]]

\* A run starts, and its interference stage finds the conflicts of its new facts.
StartRun(r) ==
    /\ run[r].pc = "new" /\ \A q \in Run : q < r => run[q].pc # "new"
    /\ Update(r, [NewRun EXCEPT !.pc = "index",
                                !.conflicts = IF r \in Disagreeing THEN {r} \X (1 .. DeprecateAt) ELSE {}])
    /\ overlap' = overlap \cup UNION {{<<r, q>>, <<q, r>>} : q \in {q \in Run : Active(q)}}
    /\ UNCHANGED <<log, known, rows, facts, bounds, missed, unborn, undecided, stored>>

\* schema_update reads the schemas once, those of the highest salience; one per summary
\* goes into its index.
Found == {F \in SUBSET rows : Cardinality(F) <= IndexLimit /\ (F # rows => Cardinality(F) = IndexLimit)}

Indexes(found) == {S \in SUBSET found :
                      \A s \in found : Cardinality({t \in S : known[t].summary = known[s].summary}) = 1}

ReadIndex(r) ==
    /\ run[r].pc = "index"
    /\ \E found \in Found :
          /\ \E S \in Indexes(found) : Update(r, [run[r] EXCEPT !.pc = "emit", !.index = S])
          /\ missed' = missed \cup ({r} \X (stored \ found))
    /\ UNCHANGED <<log, known, rows, facts, bounds, overlap, unborn, undecided, stored>>

(***************************************************************************)
(* One reported pattern                                                    *)
(***************************************************************************)
\* _count_schema_contradictions: a conflict counts if its new fact is in the store
\* and overlaps a supporting fact.
Contradictions(r, item) == IF item.supports = 0 THEN 0 ELSE Cardinality(run[r].conflicts \cap facts)

Evidence(r, item) ==
    [window |-> r, supports |-> item.supports, contradictions |-> Contradictions(r, item)]

\* A pattern that is known: RECOVER if the snapshot calls it deprecated and the
\* policy agrees, then BUMP_VERSION if its text is another one than the stored.
Reemission(r, s, item, snap) ==
    (IF snap[s].status = "deprecated" /\ Reducer(1)!Decide(snap[s], Evidence(r, item)) = "recover"
     THEN <<Emitted(r, s, "recover")>> ELSE <<>>)
    \o (IF item.text # known[s].text THEN <<Emitted(r, s, "bump_version")>> ELSE <<>>)

\* Mutants: the decision before the CREATE; an event also for no decision.
FirstEmissionDecided(r, s, item) ==
    LET inferred == Reducer(1)!Created(Reducer(1)!Unknown, Emitted(r, s, "create"))
        kind == Reducer(1)!Decide(inferred, Evidence(r, item))
    IN  (IF kind = Reducer(1)!NoDecision THEN <<>> ELSE <<Emitted(r, s, kind)>>)
        \o <<Emitted(r, s, "create")>>
FirstEmissionUndecided(r, s, item) ==
    LET inferred == Reducer(1)!Created(Reducer(1)!Unknown, Emitted(r, s, "create"))
    IN  <<Emitted(r, s, "create"), Emitted(r, s, Reducer(1)!Decide(inferred, Evidence(r, item)))>>

\* A new pattern: CREATE, then what the policy makes of a fresh schema.
FirstEmission(r, s, item) ==
    LET inferred == Reducer(1)!Created(Reducer(1)!Unknown, Emitted(r, s, "create"))
        kind == Reducer(1)!Decide(inferred, Evidence(r, item))
    IN  <<Emitted(r, s, "create")>>
        \o (IF kind = Reducer(1)!NoDecision THEN <<>> ELSE <<Emitted(r, s, kind)>>)

\* Mutant: patterns are recognised by their whole text.
IndexedByText(r, item) == {s \in run[r].index : known[s].summary = item.summary /\ known[s].text = item.text}

Indexed(r, item) == {s \in run[r].index : known[s].summary = item.summary}

\* The snapshot is loaded when the first known pattern needs it.
Reemit(r, item) ==
    \E s \in Indexed(r, item) :
        /\ IF run[r].snap = <<>>
           THEN Update(r, [run[r] EXCEPT !.item = item, !.pc = "scan"])
           ELSE Update(r, [run[r] EXCEPT !.queue = Reemission(r, s, item, run[r].snap)])
        /\ UNCHANGED <<known, undecided>>

FirstEmit(r, item) ==
    LET s == Cardinality(Created) + 1 IN
    /\ Indexed(r, item) = {}
    /\ s \in SchemaId
    /\ known' = Append(known, [summary |-> item.summary, text |-> item.text, maker |-> r,
                               supports |-> item.supports, conflicts |-> Cardinality(run[r].conflicts)])
    /\ Update(r, [run[r] EXCEPT !.index = @ \cup {s}, !.made = Append(@, s),
                                !.queue = FirstEmission(r, s, item)])
    /\ undecided' = undecided \cup {s}

TakePattern(r) ==
    /\ run[r].pc = "emit" /\ run[r].queue = <<>>
    /\ reported < MaxItems /\ reported' = reported + 1
    /\ \E item \in Pattern :
          Reemit(r, item) \/ FirstEmit(r, item)
    /\ UNCHANGED <<log, rows, facts, outside, faults, overlap, missed, unborn, stored>>

LoadSnapshot(r) ==
    /\ run[r].pc = "scan"
    /\ LET snap == [s \in SchemaId |-> WriterState(s)] IN
       \E s \in Indexed(r, run[r].item) :
          Update(r, [run[r] EXCEPT !.pc = "emit", !.snap = snap, !.item = NoItem,
                                   !.queue = Reemission(r, s, run[r].item, snap)])
    /\ UNCHANGED <<log, known, rows, facts, bounds, history>>

Emit(r) ==
    LET ev == Head(run[r].queue) IN
    /\ run[r].pc = "emit" /\ run[r].queue # <<>>
    /\ log' = Append(log, ev)
    /\ undecided' = IF Len(run[r].queue) = 1 /\ known[ev.schema].maker = r THEN undecided \ {ev.schema} ELSE undecided
    /\ Update(r, [run[r] EXCEPT !.queue = Tail(@)])
    /\ UNCHANGED <<known, rows, facts, bounds, overlap, missed, unborn, stored>>

\* Mutant: a stage that raises leaves nothing behind.
AfterFailureEmpty(r) == [NewRun EXCEPT !.pc = "facts"]

\* What a run goes on with when its stage has raised: all that it made is persisted.
AfterFailure(r) == [NewRun EXCEPT !.pc = "facts", !.made = run[r].made, !.conflicts = run[r].conflicts]

\* The append or the scan raises, and with it the stage.
EmitFails(r) ==
    LET queue == run[r].queue IN
    /\ (run[r].pc = "scan" \/ (run[r].pc = "emit" /\ queue # <<>>))
    /\ Fault
    /\ unborn' = IF queue # <<>> /\ Head(queue).kind = "create" THEN unborn \cup {Head(queue).schema} ELSE unborn
    /\ Update(r, AfterFailure(r))
    /\ UNCHANGED <<log, known, rows, facts, reported, outside, overlap, missed, undecided, stored>>

(***************************************************************************)
(* persistence, also of a stage that raised: the facts of the run first,   *)
(* then its schemas one by one                                             *)
(***************************************************************************)
PersistFacts(r) ==
    /\ run[r].pc = "facts" \/ (run[r].pc = "emit" /\ run[r].queue = <<>>)
    /\ facts' = facts \cup run[r].conflicts
    /\ Update(r, [NewRun EXCEPT !.pc = "schemas", !.made = run[r].made])
    /\ UNCHANGED <<log, known, rows, bounds, history>>

PersistSchema(r) ==
    /\ run[r].pc = "schemas" /\ run[r].made # <<>>
    /\ rows' = rows \cup {Head(run[r].made)}
    /\ stored' = stored \cup {Head(run[r].made)}
    /\ Update(r, [run[r] EXCEPT !.made = Tail(@)])
    /\ UNCHANGED <<log, known, facts, bounds, overlap, missed, unborn, undecided>>

\* The stage ends, or a statement raises and the rest is not stored.
EndRun(r) ==
    /\ run[r].pc \in {"facts", "schemas"}
    /\ \/ run[r].pc = "schemas" /\ run[r].made = <<>> /\ UNCHANGED faults
       \/ Fault
    /\ Update(r, [NewRun EXCEPT !.pc = "ended", !.made = run[r].made])
    /\ UNCHANGED <<log, known, rows, facts, reported, outside, history>>

Kill(r) ==
    /\ Active(r) /\ Fault
    /\ Update(r, [NewRun EXCEPT !.pc = "dead"])
    /\ UNCHANGED <<log, known, rows, facts, reported, outside, history>>

-----------------------------------------------------------------------------
(***************************************************************************)
(* Everybody else                                                          *)
(***************************************************************************)
\* Decay, suppression, forget or retention takes a schema out of the live states.
Demote(s) ==
    /\ rows' = rows \ {s}
    /\ UNCHANGED <<log, known, facts, run, bounds, history>>

\* A recall that had found it revives a faded schema, and a call that had read its
\* row writes it back, whatever became of it meanwhile.
Revive(s) ==
    /\ rows' = rows \cup {s}
    /\ UNCHANGED <<log, known, facts, run, bounds, history>>

\* Another tool deprecates a schema through make_lifecycle_event.
OutsideDeprecate(s) ==
    /\ \E vote \in OutsideVotes \ outside :
          /\ outside' = outside \cup {vote}
          /\ log' = Append(log, [schema |-> s, kind |-> "deprecate", window |-> vote.window, emitter |-> vote.emitter])
    /\ UNCHANGED <<known, rows, facts, run, reported, faults, history>>

\* Retention of the event log removes its oldest lines, whatever their type.
CutLog ==
    /\ Fault
    /\ \E n \in DOMAIN log :
          /\ log' = SubSeq(log, n + 1, Len(log))
          /\ unborn' = unborn \cup {log[i].schema : i \in {j \in 1 .. n : log[j].kind = "create"}}
    /\ UNCHANGED <<known, rows, facts, run, reported, outside, overlap, missed, undecided, stored>>

-----------------------------------------------------------------------------
Init ==
    /\ log = <<>> /\ known = <<>> /\ rows = {} /\ facts = {}
    /\ run = [r \in Run |-> NewRun]
    /\ reported = 0 /\ outside = {} /\ faults = 0
    /\ overlap = {} /\ missed = {} /\ unborn = {} /\ undecided = {} /\ stored = {}

RunStep(r) == \/ ReadIndex(r) \/ TakePattern(r) \/ LoadSnapshot(r) \/ Emit(r) \/ EmitFails(r)
              \/ PersistFacts(r) \/ PersistSchema(r) \/ EndRun(r)

Next == \/ \E r \in Run : StartRun(r) \/ RunStep(r) \/ Kill(r)
        \/ \E s \in rows : Demote(s)
        \/ \E s \in stored \ rows : Revive(s)
        \/ \E s \in Created : OutsideDeprecate(s)
        \/ CutLog

Spec == Init /\ [][Next]_vars

-----------------------------------------------------------------------------
(***************************************************************************)
(* History: overlap holds the pairs of runs that were under way at the     *)
(* same time, missed the pairs of a run and a stored schema that it did    *)
(* not find, unborn the schemas whose CREATE is not in the log (its append *)
(* failed, or retention removed it), undecided those whose first events    *)
(* were not all appended, stored those whose row was written.              *)
(***************************************************************************)
Label == {"new", "index", "emit", "scan", "facts", "schemas", "ended", "dead"}

RunState ==
    [pc : Label, index : SUBSET Created, snap : {<<>>} \cup [SchemaId -> Reducer(1)!State],
     item : Pattern \cup {NoItem}, queue : Seq(Reducer(1)!LifecycleEvent), made : Seq(Created),
     conflicts : SUBSET Fact]

TypeOK ==
    /\ log \in Seq(Reducer(1)!LifecycleEvent)
    /\ known \in Seq([summary : Summary, text : Text, maker : Run, supports : Nat, conflicts : Nat])
    /\ Created \subseteq SchemaId /\ rows \subseteq stored /\ stored \subseteq Created
    /\ facts \subseteq Fact
    /\ run \in [Run -> RunState]
    /\ reported \in 0 .. MaxItems /\ outside \subseteq OutsideVotes /\ faults \in 0 .. MaxFaults
    /\ overlap \subseteq Run \X Run /\ missed \subseteq Run \X Created /\ unborn \cup undecided \subseteq Created

\* A pattern that comes up again is recognised as the schema it is
\* (pipeline.py:832-837, "recognise a re-emitted pattern as the same schema"): two live
\* schemas of one summary were made by runs that overlapped, or the run that made one
\* had not found the other, which was out of the live states then and came back, or
\* was beyond the limit of what a run reads.
NoTwin ==
    \A s, t \in rows : s # t /\ known[s].summary = known[t].summary =>
        \/ <<known[s].maker, known[t].maker>> \in overlap
        \/ <<known[s].maker, t>> \in missed
        \/ <<known[t].maker, s>> \in missed

\* The log and the rows agree on which schemas there are: each stored schema is
\* known to the reducer unless its CREATE is missing from the log, and each schema
\* of the log was stored unless its run is under way, died or failed to store it.
RowsMatchLog ==
    \A s \in Created : LET r == known[s].maker IN
        /\ s \in stored \ unborn => WriterState(s).status # "unknown"
        /\ WriterState(s).status # "unknown" =>
              s \in stored \/ run[r].pc # "ended" \/ \E i \in DOMAIN run[r].made : run[r].made[i] = s

\* What the first window said of a schema stands for recall and for the pipeline
\* alike, whoever deprecates it meanwhile and wherever its run stops: it was
\* promoted exactly if its supports were enough, unless it was deprecated first.
DecidedAtBirth ==
    \A s \in Created \ (undecided \cup unborn) : \A st \in {WriterState(s), ReaderState(s)} :
        IF known[s].supports >= PromoteAt THEN st.promotes = 1 \/ st.deprecates >= 1 ELSE st.promotes = 0

\* The pipeline folds under quorum 1 and recall under ReadQuorum, so they see the
\* schemas differently; but what recall hides the pipeline can still recover,
\* because it calls it deprecated as well.  The exception is a run that wrote to
\* the schema both before its deprecation and to recover it: recall may find the
\* window of that RECOVER stale and hide the schema for good.
SecondThoughts(s) ==
    \E i, j \in DOMAIN log : /\ i < j /\ log[j].kind = "recover"
                             /\ log[i].schema = s /\ log[j].schema = s /\ log[i].window = log[j].window

HiddenIsRecoverable ==
    \A s \in Created : HiddenFromRecall(s) =>
        WriterState(s).status = "deprecated" \/ SecondThoughts(s)

\* The claim of tests/unit/test_schema_contradiction_counting.py:3-8: with enough
\* contradictions of its supporting facts in its window a new schema ends in DEPRECATED.
ContradictedIsDeprecated ==
    \A s \in Created \ (undecided \cup unborn) :
        known[s].supports > 0 /\ known[s].conflicts >= DeprecateAt => WriterState(s).deprecates >= 1
=============================================================================
