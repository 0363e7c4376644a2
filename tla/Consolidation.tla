--------------------------- MODULE Consolidation ---------------------------
(***************************************************************************)
(* The consolidation pipeline (consolidation/pipeline.py): captured events *)
(* of the log become memories in SQLite, exactly those after a cursor kept *)
(* in the metadata table.  Captures go on while a run is under way, runs   *)
(* of two processes overlap, a stage may raise (the pipeline goes on with  *)
(* the next one) and a process may be killed at any step.                  *)
(*                                                                         *)
(* Data.  An event is its id, a number: the ids of one millisecond are in  *)
(* random order, later milliseconds have larger ids.  The log only grows   *)
(* here, so an event is kept in a run and in a memory as its place in it:  *)
(* a list of events in file order is a set of places.  A memory is named   *)
(* by its kind, the place of its source event and the run that made it.    *)
(* Two facts overlap if their contents are equal, and conflict if          *)
(* Contradicts says so.  Scores, affect, schemas and the decay of older    *)
(* memories are left out.                                                  *)
(***************************************************************************)
EXTENDS Naturals, Sequences, FiniteSets

CONSTANTS
    Content,        \* what events say, up to case and outer blanks
    Factual,        \* the contents from which the LLM extracts a fact
    Contradicts,    \* the pairs of contents that interference calls a conflict
    IdsPerTick,     \* bound: event ids of one millisecond
    Window,         \* window_hours, in ticks of the clock; 0 for none
    MaxTick,        \* bound: ticks of the clock
    MaxEvents,      \* bound: captures
    MaxRuns,        \* bound: calls of run()
    MaxOverlap,     \* bound: runs under way at once
    MaxFaults       \* bound: failed stages and kills

Run   == 1 .. MaxRuns
Id    == 1 .. IdsPerTick * (MaxTick + 1)
NoId  == 0
Tick(e) == (e - 1) \div IdsPerTick

Memory == [kind : {"episode", "fact"}, place : Nat \ {0}, run : Run]

ASSUME BoundsAssumption ==
    /\ {Window, MaxTick, MaxEvents, MaxRuns, MaxOverlap, MaxFaults} \subseteq Nat
    /\ IdsPerTick \in Nat \ {0}
ASSUME ContentAssumption == Factual \subseteq Content /\ Contradicts \subseteq Content \X Content

VARIABLES
    clock,
    says,       \* says[e]: the content of event e, once it has been created
    log,        \* the captured events in the order of the file
    cursor,     \* metadata "last_consolidated_event_id"
    rows,       \* rows[m]: the state of memory m in SQLite, once it is stored
    run,        \* run[r]: where run r stands, and its StageContext
    extractions, faults,            \* counters
    failed, overlooked              \* history: see "History" below

env  == <<clock, says, log>>
vars == <<env, cursor, rows, run, extractions, faults, failed, overlooked>>

Created  == DOMAIN says
InLog(e) == \E i \in DOMAIN log : log[i] = e
Active(r) == run[r].pc \notin {"new", "ended", "dead"}

-----------------------------------------------------------------------------
(***************************************************************************)
(* capture: the event gets its id, and is appended later                   *)
(***************************************************************************)
CreateEvent ==
    /\ Cardinality(Created) < MaxEvents
    /\ \E e \in Id \ Created, x \in Content :
          /\ Tick(e) = clock
          /\ says' = [f \in Created \cup {e} |-> IF f = e THEN x ELSE says[f]]
    /\ UNCHANGED <<clock, log, cursor, rows, run, extractions, faults, failed, overlooked>>

AppendEvent ==
    /\ \E e \in Created : ~InLog(e) /\ log' = Append(log, e)
    /\ UNCHANGED <<clock, says, cursor, rows, run, extractions, faults, failed, overlooked>>

ClockTicks ==
    /\ clock < MaxTick
    /\ clock' = clock + 1
    /\ UNCHANGED <<says, log, cursor, rows, run, extractions, faults, failed, overlooked>>

(***************************************************************************)
(* A run                                                                   *)
(***************************************************************************)
Update(r, context) == run' = [run EXCEPT ![r] = context]

Fault == faults < MaxFaults /\ faults' = faults + 1

NewRun == [pc |-> "new", cursor |-> NoId, visible |-> {}, events |-> {}, born |-> 0,
           made |-> {}, todo |-> {}, found |-> {}, alone |-> TRUE, raised |-> FALSE]

StartRun(r) ==
    LET others == {s \in Run : Active(s)} IN
    /\ run[r].pc = "new"
    /\ \A s \in Run : s < r => run[s].pc # "new"
    /\ Cardinality(others) < MaxOverlap
    /\ run' = [s \in Run |->
                 IF s = r THEN [NewRun EXCEPT !.pc = "replay", !.alone = others = {}]
                 ELSE IF s \in others THEN [run[s] EXCEPT !.alone = FALSE] ELSE run[s]]
    /\ UNCHANGED <<env, cursor, rows, extractions, faults, failed, overlooked>>

\* EventIngestion asks for the cursor first.
ReadCursor(r) ==
    /\ run[r].pc = "replay"
    /\ Update(r, [run[r] EXCEPT !.pc = "scan", !.cursor = cursor])
    /\ UNCHANGED <<env, cursor, rows, extractions, faults, failed, overlooked>>

UnconsolidatedFrom(e, last) == e >= last
Unconsolidated(e, last)     == e > last

InWindow(e) == Window = 0 \/ Tick(e) + Window >= clock

\* Deduplication keeps the first event of each content.
FirstOfContent(places) ==
    {i \in places : \A j \in places : j < i => says[log[j]] # says[log[i]]}

\* Then it scans the log; Deduplication runs on the result.
ScanLog(r) ==
    LET inWindow == {i \in DOMAIN log : InWindow(log[i])} IN
    /\ run[r].pc = "scan"
    /\ Update(r, [run[r] EXCEPT !.pc = "extract", !.visible = {log[i] : i \in inWindow},
                     !.events = FirstOfContent({i \in inWindow :
                                                   Unconsolidated(log[i], run[r].cursor)})])
    /\ UNCHANGED <<env, cursor, rows, extractions, faults, failed, overlooked>>

\* A failed replay leaves ctx.events empty.
ReplayFails(r) ==
    /\ run[r].pc \in {"replay", "scan"}
    /\ Fault
    /\ Update(r, [run[r] EXCEPT !.pc = "extract"])
    /\ UNCHANGED <<env, cursor, rows, extractions, failed, overlooked>>

Made(kind, r, i) == [kind |-> kind, place |-> i, run |-> r]
Episodes(r, places) == {Made("episode", r, i) : i \in places}
Facts(r, places)    == {Made("fact", r, i) : i \in {j \in places : says[log[j]] \in Factual}}

UpTo(places, n) == {i \in places : i <= n}

\* EpisodeExtraction makes an episode of each event, FactExtraction a fact of
\* each factual episode.  If either raises, what it made so far stays.
Extract(r) ==
    LET events == run[r].events IN
    /\ run[r].pc = "extract"
    /\ extractions' = extractions + 1
    /\ \E n \in 0 .. Len(log) : \E k \in 0 .. n :
          LET facts == Facts(r, UpTo(events, k))
              whole == UpTo(events, k) = events IN
          /\ Update(r, [run[r] EXCEPT !.pc = "interfere", !.born = extractions + 1,
                           !.made = Episodes(r, UpTo(events, n)) \cup facts, !.todo = facts,
                           !.raised = ~whole])
          /\ IF whole THEN UNCHANGED faults ELSE Fault
    /\ UNCHANGED <<env, cursor, rows, failed, overlooked>>

-----------------------------------------------------------------------------
(***************************************************************************)
(* InterferenceDetection: for each new fact, a search of the active facts  *)
(* and then one write for each fact it found.                              *)
(***************************************************************************)
ContentOf(m) == says[log[m.place]]

SupersedesUndated(new, old) == ContentOf(new) = ContentOf(old)
Supersedes(new, old) ==
    ContentOf(new) = ContentOf(old) /\ run[new.run].born > run[old.run].born
Conflicts(new, old) == <<ContentOf(new), ContentOf(old)>> \in Contradicts

\* Only a memory of the same type, a fact, interferes with a fact.
ActiveFacts    == {m \in DOMAIN rows : rows[m] = "active" /\ m.kind = "fact"}

Finding(action, old) == [old |-> old, action |-> action]

SearchSimilar(r) ==
    /\ run[r].pc = "interfere" /\ run[r].found = {}
    /\ \E new \in run[r].todo :
          /\ \A other \in run[r].todo : new.place <= other.place
          /\ Update(r, [run[r] EXCEPT !.todo = @ \ {new},
                 !.found = {Finding("supersede", m) : m \in {n \in ActiveFacts : Supersedes(new, n)}}
                           \cup {Finding("conflict", m) : m \in {n \in ActiveFacts : Conflicts(new, n)}}])
    /\ UNCHANGED <<env, cursor, rows, extractions, faults, failed, overlooked>>

\* supersede updates the state only; conflict writes back the whole row as the
\* search read it, which was active.
Interfere(r) ==
    /\ run[r].pc = "interfere"
    /\ \E f \in run[r].found :
          /\ rows' = [rows EXCEPT ![f.old] = IF f.action = "supersede" THEN "faded" ELSE "active"]
          /\ Update(r, [run[r] EXCEPT !.found = @ \ {f}])
    /\ UNCHANGED <<env, cursor, extractions, faults, failed, overlooked>>

InterferenceEnds(r) ==
    /\ run[r].pc = "interfere"
    /\ \/ run[r].found = {} /\ run[r].todo = {} /\ UNCHANGED faults
       \/ Fault
    /\ Update(r, [run[r] EXCEPT !.pc = "persist", !.todo = {}, !.found = {}])
    /\ UNCHANGED <<env, cursor, rows, extractions, failed, overlooked>>

-----------------------------------------------------------------------------
(***************************************************************************)
(* MemoryPersistence: one commit per memory.  The cursor is set whatever   *)
(* the stages did.                                                         *)
(***************************************************************************)
Stored(m) == [n \in DOMAIN rows \cup {m} |-> IF n = m THEN "active" ELSE rows[n]]

\* memories_created holds the episodes in the order of the log, then the facts.
MadeBefore(m, n) ==
    \/ m.kind = "episode" /\ n.kind = "fact"
    \/ m.kind = n.kind /\ m.place < n.place

Persist(r) ==
    /\ run[r].pc = "persist"
    /\ \E m \in run[r].made :
          /\ \A n \in run[r].made \ {m} : MadeBefore(m, n)
          /\ rows' = Stored(m)
          /\ Update(r, [run[r] EXCEPT !.made = @ \ {m}])
    /\ UNCHANGED <<env, cursor, extractions, faults, failed, overlooked>>

PersistenceEnds(r) ==
    /\ run[r].pc = "persist"
    /\ \/ run[r].made = {} /\ Update(r, [run[r] EXCEPT !.pc = "finish"]) /\ UNCHANGED faults
       \/ run[r].made # {} /\ Fault
          /\ Update(r, [run[r] EXCEPT !.pc = "finish", !.made = {}, !.raised = TRUE])
    /\ UNCHANGED <<env, cursor, rows, extractions, failed, overlooked>>

IsLast(i, places) == i \in places /\ \A j \in places : j <= i

CursorAtEndOfLog(i) == log[Len(log)]
CursorAfter(i)      == log[i]

Finish(r) ==
    LET events == run[r].events IN
    /\ run[r].pc = "finish"
    /\ Update(r, [run[r] EXCEPT !.pc = "ended"])
    /\ \/ events = {} /\ UNCHANGED <<cursor, failed, overlooked>>
       \/ /\ events # {}
          /\ failed' = IF run[r].raised THEN failed \cup run[r].visible ELSE failed
          /\ \E i \in DOMAIN log :
                /\ IsLast(i, events)
                /\ cursor' = CursorAfter(i)
                /\ overlooked' = overlooked \cup {e \in 1 .. log[i] : e \notin run[r].visible}
    /\ UNCHANGED <<env, rows, extractions, faults>>

\* The process is killed, or a call outside the stages raises.
Kill(r) ==
    /\ Active(r)
    /\ Fault
    /\ Update(r, [run[r] EXCEPT !.pc = "dead", !.made = {}, !.todo = {}, !.found = {}])
    /\ UNCHANGED <<env, cursor, rows, extractions, failed, overlooked>>

-----------------------------------------------------------------------------
Init ==
    /\ clock = 0 /\ says = <<>> /\ log = <<>>
    /\ cursor = NoId /\ rows = <<>>
    /\ run = [r \in Run |-> NewRun]
    /\ extractions = 0 /\ faults = 0
    /\ failed = {} /\ overlooked = {}

RunStep(r) == \/ ReadCursor(r) \/ ScanLog(r) \/ ReplayFails(r) \/ Extract(r)
              \/ SearchSimilar(r) \/ Interfere(r) \/ InterferenceEnds(r)
              \/ Persist(r) \/ PersistenceEnds(r) \/ Finish(r)

Next == \/ CreateEvent \/ AppendEvent \/ ClockTicks
        \/ \E r \in Run : StartRun(r) \/ RunStep(r) \/ Kill(r)

Spec == Init /\ [][Next]_vars

-----------------------------------------------------------------------------
(***************************************************************************)
(* History: failed holds the events that a run saw although one of its     *)
(* stages raised, overlooked the ids that a cursor passed although its run *)
(* could not see them: appended later than the scan, or out of the window. *)
(***************************************************************************)
Remembered(x) == \E m \in DOMAIN rows : m.kind = "episode" /\ ContentOf(m) = x

\* The cursor passes no event whose content is not stored, however captures, runs
\* and kills interleave; the only exceptions are the events of a run whose stage
\* raised and the ids its scan could not see.
LossExplained ==
    \A e \in Created : InLog(e) /\ e <= cursor => Remembered(says[e]) \/ e \in failed \cup overlooked

\* No event becomes two episodes, also when a run was killed half way and another
\* takes over, unless the two runs overlapped in time, one died before it moved
\* the cursor, or the event's id is larger than that of its run's last event.
\* (pipeline.py:103, "Skip events already consolidated (Q12)".)
OneEpisode ==
    \A m, n \in DOMAIN rows :
        (m.kind = "episode" /\ n.kind = "episode" /\ m.place = n.place /\ m # n)
        => \E r \in {m.run, n.run} :
              \/ run[r].pc # "ended" \/ ~run[r].alone
              \/ \A i \in DOMAIN log : IsLast(i, run[r].events) => log[m.place] > log[i]

\* A fact fades only for a newer fact of the same content that is stored, or that
\* its run has yet to store; a run that died or raised may break the chain.
NewerFactStays ==
    \A old \in DOMAIN rows : rows[old] = "faded" =>
        \E r \in Run :
            /\ run[r].born > run[old.run].born
            /\ \/ run[r].pc = "dead" \/ run[r].raised
               \/ \E new \in run[r].made \cup DOMAIN rows :
                     new.kind = "fact" /\ new.run = r /\ ContentOf(new) = ContentOf(old)
=============================================================================
