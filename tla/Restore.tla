------------------------------ MODULE Restore ------------------------------
(***************************************************************************)
(* Pins, temperament and mood: what is kept in memory, in SQLite and in    *)
(* the event log, and what a restart and a rebuild make of it (engine.py:  *)
(* AffectAPI, pin, unpin, __init__, rebuild; pipeline.py: TemperamentDrift *)
(* and MoodUpdate; affect/engine.py).                                      *)
(*                                                                         *)
(* Data.  A dimension's level is on the scale 0 .. Top with the default in *)
(* the middle; one step stands for the drift rate.  The mood is reduced to *)
(* its valence, on the scale of its baseline.  Of the affect log only the  *)
(* newest row of a type is ever read; emotions and locks, which nothing    *)
(* reads back, are left out.  The memories of the same rebuild are in      *)
(* Rebuild, and with them the cuts of drop_all and the file that retention *)
(* replaces below an open scan.                                            *)
(***************************************************************************)
EXTENDS Naturals, Sequences, FiniteSets, SequencesExt

CONSTANTS
    Caller,
    Maintainer,     \* those of Caller that consolidate and rebuild
    Dim,            \* the dimensions of a temperament
    Reward,         \* reward_dependence: the one that sets the mood's baseline
    Top,            \* the highest level
    Presets,        \* the temperaments that a configuration may have
    PinId,          \* bound: the ids that pin() draws
    MaxEvents,      \* bound: events
    MaxFaults       \* bound: statements and appends that fail, crashes in a call

ASSUME DimAssumption    == Reward \in Dim
ASSUME TopAssumption    == Top \in Nat
ASSUME CallerAssumption == Maintainer \subseteq Caller
ASSUME PresetsAssumption == Presets \subseteq [Dim -> 0 .. Top]
ASSUME BoundsAssumption == {MaxEvents, MaxFaults} \subseteq Nat

Level       == 0 .. Top
Half        == Top \div 2
Temperament == [Dim -> Level]
Kind        == {"temperament", "mood"}
Stage       == {"temperament_drift", "mood_update"}
NoRow       == {}
Absent      == Top + 1      \* a dimension that a persisted dict does not have
None        == "none"

ASSUME PinAssumption == None \notin PinId

VARIABLES
    base,       \* configuration: affect.temperament
    stages,     \* configuration: those of Stage that the pipeline keeps
    live,       \* what AffectEngine holds: its temperament and its mood
    saved,      \* {the newest row} of each type in affect_log, or NoRow
    pins,       \* the table of pins
    events,     \* every event appended so far
    first,      \* how many of them truncate_before has removed
    marker,     \* metadata: snapshot_event_id, or 0
    call,       \* call[p]: the call p is in and its local variables
    faults,
    \* history:
    used,       \* the pin ids drawn
    blurred,    \* pins whose row and events need not agree
    adrift,     \* kinds whose newest row need not be what is live
    unlogged    \* kinds whose newest row need not be the newest event

tables  == <<saved, pins>>
logged  == <<events, first>>
history == <<used, blurred, adrift, unlogged>>
vars    == <<base, stages, live, tables, logged, marker, call, faults, history>>

-----------------------------------------------------------------------------
Idle == [op |-> "idle", step |-> "idle", kind |-> None, saw |-> None, alone |-> TRUE, pin |-> None,
         full |-> FALSE, next |-> 1]

Ready(p)        == call[p].op = "idle"
At(p, step)     == call[p].step = step
Local(p, c)     == call' = [call EXCEPT ![p] = c]
Goto(p, step)   == call' = [call EXCEPT ![p].step = step]
Return(p)       == Local(p, Idle)
Quiet           == \A p \in Caller : Ready(p)
Rebuilding      == \E p \in Caller : call[p].op = "rebuild"
Pinning         == {call[p].pin : p \in Caller} \ {None}
Fault           == faults < MaxFaults /\ faults' = faults + 1
\* bound: the events that calls in flight may still append, and n more, so that an
\* append always finds room
Owes(p)         == IF call[p].op \in {"idle", "reset_mood", "rebuild"} THEN 0
                   ELSE IF call[p].op = "consolidate" /\ call[p].kind # "mood" THEN 2 ELSE 1
Room(n)         == Len(events) + n + FoldFunction(+, 0, [p \in Caller |-> Owes(p)]) <= MaxEvents

Log == first + 1 .. Len(events)

-----------------------------------------------------------------------------
(***************************************************************************)
(* Temperament and mood.  A call changes what is live, builds a row from   *)
(* it, inserts the row, builds an event from what is live by then and      *)
(* appends it: five steps, between which other threads run.                *)
(***************************************************************************)
Baseline(t) == t[Reward]

\* Temperament.from_dict: a dimension that the dict lacks gets the default.
FromDict(d) == [x \in Dim |-> IF d[x] = Absent THEN Half ELSE d[x]]

\* The metadata of an override nest the dimensions below "old", "new", "changes".
Nested == [x \in Dim |-> Absent]

Raised(l) == IF l < Top THEN l + 1 ELSE Top

\* decay_toward_baseline: any part of the way.
Between(l, b) == {x \in Level : (l <= x /\ x <= b) \/ (b <= x /\ x <= l)}

Persisting(k) == {p \in Caller : call[p].kind = k}

\* History: a change of k meets no other call that persists k, and no rebuild.
Alone(p, k) == Persisting(k) \ {p} = {} /\ ~Rebuilding

\* p goes on to persist the kinds of K that it changed, k first.
Changing(p, op, k, K) ==
    call' = [q \in Caller |->
        IF q = p THEN [Idle EXCEPT !.op = op, !.step = "read", !.kind = k, !.alone = Alone(p, k)]
        ELSE [call[q] EXCEPT !.alone = @ /\ call[q].kind \notin K]]

Trigger(p) ==
    /\ Ready(p) /\ Room(1)
    /\ \E m \in Level : live' = [live EXCEPT !.mood = m]
    /\ Changing(p, "trigger", "mood", {"mood"})
    /\ UNCHANGED <<base, stages, tables, logged, marker, faults, history>>

SetTemperament(p) ==
    /\ Ready(p) /\ Room(1)
    /\ \E d \in Dim, l \in Level : live' = [live EXCEPT !.temperament[d] = l]
    /\ Changing(p, "set_temperament", "temperament", {"temperament"})
    /\ adrift' = IF saved.mood = NoRow THEN adrift \cup {"mood"} ELSE adrift
    /\ UNCHANGED <<base, stages, tables, logged, marker, faults, used, blurred, unlogged>>

ResetMood(p) ==
    /\ Ready(p)
    /\ live' = [live EXCEPT !.mood = Baseline(live.temperament)]
    /\ Changing(p, "reset_mood", "mood", {"mood"})
    /\ UNCHANGED <<base, stages, tables, logged, marker, faults, history>>

\* Consolidation: a stage that raises is passed over.
Consolidate(p) ==
    /\ p \in Maintainer /\ Ready(p) /\ Room(2) /\ stages # {}
    /\ Local(p, [Idle EXCEPT !.op = "consolidate",
                             !.step = IF "temperament_drift" \in stages THEN "drift" ELSE "update"])
    /\ UNCHANGED <<base, stages, live, tables, logged, marker, faults, history>>

\* consolidation_feedback: some dimensions drift, and the mood decays with them.
Drift(p) ==
    /\ At(p, "drift")
    /\ \E D \in SUBSET Dim :
       LET t == [d \in Dim |-> IF d \in D THEN Raised(live.temperament[d]) ELSE live.temperament[d]] IN
       \E m \in Between(live.mood, Baseline(t)) : live' = [temperament |-> t, mood |-> m]
    /\ Changing(p, "consolidate", "temperament", Kind)
    /\ adrift' = adrift \cup {"mood"}
    /\ UNCHANGED <<base, stages, tables, logged, marker, faults, used, blurred, unlogged>>

MoodUpdate(p) ==
    /\ At(p, "update")
    /\ \E m \in Between(live.mood, Baseline(live.temperament)) : live' = [live EXCEPT !.mood = m]
    /\ Changing(p, "consolidate", "mood", {"mood"})
    /\ UNCHANGED <<base, stages, tables, logged, marker, faults, history>>

ReadState(p) ==
    /\ At(p, "read")
    /\ Local(p, [call[p] EXCEPT !.saw = live[call[p].kind], !.step = "save"])
    /\ UNCHANGED <<base, stages, live, tables, logged, marker, faults, history>>

\* reset_mood writes no event; the temperament stage is followed by the mood stage.
LoggedOp == {"trigger", "set_temperament", "consolidate"}
Done(p)  == IF call[p].op = "consolidate" /\ call[p].kind = "temperament" /\ "mood_update" \in stages
            THEN Local(p, [Idle EXCEPT !.op = "consolidate", !.step = "update"]) ELSE Return(p)

SaveRow(p) ==
    LET k == call[p].kind IN
    /\ At(p, "save")
    /\ saved' = [saved EXCEPT ![k] = {call[p].saw}]
    /\ adrift' = IF call[p].alone THEN adrift \ {k} ELSE adrift \cup {k}
    /\ unlogged' = unlogged \cup {k}
    /\ IF call[p].op \in LoggedOp THEN Goto(p, "reread") ELSE Return(p)
    /\ UNCHANGED <<base, stages, live, pins, logged, marker, faults, used, blurred>>

ReadAgain(p) ==
    /\ At(p, "reread")
    /\ Local(p, [call[p] EXCEPT !.saw = live[call[p].kind], !.step = "log"])
    /\ UNCHANGED <<base, stages, live, tables, logged, marker, faults, history>>

Metadata(p) == IF call[p].op = "set_temperament" THEN Nested ELSE call[p].saw

LogState(p) ==
    LET k == call[p].kind IN
    /\ At(p, "log") /\ Len(events) < MaxEvents
    /\ events' = Append(events, [kind |-> k, data |-> Metadata(p)])
    /\ unlogged' = IF call[p].alone /\ call[p].op # "set_temperament" THEN unlogged \ {k} ELSE unlogged
    /\ Done(p)
    /\ UNCHANGED <<base, stages, live, tables, first, marker, faults, used, blurred, adrift>>

\* A statement or an append raises, and so does the call, or its stage.
PersistFails(p) ==
    /\ At(p, "save") \/ At(p, "log")
    /\ Fault
    /\ adrift' = IF At(p, "save") THEN adrift \cup {call[p].kind} ELSE adrift
    /\ Done(p)
    /\ UNCHANGED <<base, stages, live, tables, logged, marker, used, blurred, unlogged>>

-----------------------------------------------------------------------------
(***************************************************************************)
(* Pins: the table first, then the event.                                  *)
(***************************************************************************)
PinCall(p, op, x) == Local(p, [Idle EXCEPT !.op = op, !.step = "log pin", !.pin = x])

Pin(p) ==
    /\ Ready(p) /\ Room(1)
    /\ \E x \in PinId \ used :
          /\ pins' = pins \cup {x} /\ used' = used \cup {x}
          /\ blurred' = IF Rebuilding THEN blurred \cup {x} ELSE blurred
          /\ PinCall(p, "pin", x)
    /\ UNCHANGED <<base, stages, live, saved, logged, marker, faults, adrift, unlogged>>

\* An id that is not in the table is refused, and no event is written.
Unpin(p) ==
    /\ Ready(p) /\ Room(1)
    /\ \E x \in pins :
          /\ pins' = pins \ {x}
          /\ blurred' = IF Rebuilding \/ x \in Pinning THEN blurred \cup {x} ELSE blurred
          /\ PinCall(p, "unpin", x)
    /\ UNCHANGED <<base, stages, live, saved, logged, marker, faults, used, adrift, unlogged>>

LogPin(p) ==
    /\ At(p, "log pin") /\ Len(events) < MaxEvents
    /\ events' = Append(events, [kind |-> call[p].op, data |-> call[p].pin])
    /\ Return(p)
    /\ UNCHANGED <<base, stages, live, tables, first, marker, faults, history>>

LogPinFails(p) ==
    /\ At(p, "log pin") /\ Fault
    /\ blurred' = blurred \cup {call[p].pin}
    /\ Return(p)
    /\ UNCHANGED <<base, stages, live, tables, logged, marker, used, adrift, unlogged>>

-----------------------------------------------------------------------------
(***************************************************************************)
(* rebuild and restart                                                     *)
(***************************************************************************)
\* History: the calls in flight are not alone any more; a full rebuild begins anew.
Rebuild(p) ==
    /\ p \in Maintainer /\ Ready(p)
    /\ \E full \in BOOLEAN :
          /\ full \/ marker # 0
          /\ call' = [q \in Caller |->
                IF q = p THEN [Idle EXCEPT !.op = "rebuild", !.full = full, !.step = IF full THEN "drop pins" ELSE "open"]
                ELSE [call[q] EXCEPT !.alone = (call[q].kind = None)]]
          /\ blurred' = IF full THEN Pinning ELSE blurred \cup Pinning
    /\ UNCHANGED <<base, stages, live, tables, logged, marker, faults, used, adrift, unlogged>>

DropPins(p) ==
    /\ At(p, "drop pins")
    /\ pins' = {} /\ Goto(p, "drop affect")
    /\ UNCHANGED <<base, stages, live, saved, logged, marker, faults, history>>

\* and the metadata after it
DropAffect(p) ==
    /\ At(p, "drop affect")
    /\ saved' = [k \in Kind |-> NoRow] /\ marker' = 0 /\ Goto(p, "open")
    /\ UNCHANGED <<base, stages, live, pins, logged, faults, history>>

\* An incremental scan whose marker was truncated finds nothing to replay.
OpenScan(p) ==
    /\ At(p, "open")
    /\ Local(p, [call[p] EXCEPT !.step = "replay",
                                !.next = IF call[p].full THEN first + 1
                                         ELSE IF marker \in Log THEN marker + 1 ELSE MaxEvents + 1])
    /\ UNCHANGED <<base, stages, live, tables, logged, marker, faults, history>>

PinsWithout(e) == IF e.kind = "pin" THEN pins \cup {e.data} ELSE pins
PinsAfter(e)   == IF e.kind = "pin" THEN pins \cup {e.data}
                  ELSE IF e.kind = "unpin" THEN pins \ {e.data} ELSE pins
SavedUnlessMood(e) == IF e.kind = "temperament" THEN [saved EXCEPT ![e.kind] = {e.data}] ELSE saved
SavedUnlessDrift(e) == IF e.kind = "mood" THEN [saved EXCEPT ![e.kind] = {e.data}] ELSE saved
SavedAfter(e)  == IF e.kind \in Kind THEN [saved EXCEPT ![e.kind] = {e.data}] ELSE saved

Replay(p) ==
    /\ At(p, "replay") /\ call[p].next <= Len(events)
    /\ pins' = PinsAfter(events[call[p].next])
    /\ saved' = SavedAfter(events[call[p].next])
    /\ Local(p, [call[p] EXCEPT !.next = @ + 1])
    /\ UNCHANGED <<base, stages, live, logged, marker, faults, history>>

\* It ends with a snapshot.  History: a row is now the newest event of its kind.
EndRebuild(p) ==
    /\ At(p, "replay") /\ call[p].next > Len(events)
    /\ marker' = IF Log = {} THEN marker ELSE Len(events)
    /\ adrift' = adrift \cup unlogged \cup
                 {k \in Kind : call[p].full /\ \A i \in Log : events[i].kind # k}
    /\ Return(p)
    /\ UNCHANGED <<base, stages, live, tables, logged, faults, used, blurred, unlogged>>

Truncate(p) ==
    /\ Ready(p) /\ ~Rebuilding
    /\ \E n \in Log :
          /\ first' = n
          /\ blurred' = blurred \cup {events[i].data : i \in {j \in 1 .. n : events[j].kind \in {"pin", "unpin"}}}
    /\ UNCHANGED <<base, stages, live, tables, events, marker, call, faults, used, adrift, unlogged>>

Newest(rows) == CHOOSE d \in rows : TRUE

\* __init__: the newest rows, else the configuration and its baseline.
Restored(s) ==
    LET t == IF s.temperament = NoRow THEN base ELSE FromDict(Newest(s.temperament)) IN
    [temperament |-> t, mood |-> IF s.mood = NoRow THEN Baseline(t) ELSE Newest(s.mood)]

\* With a call in flight it is a crash.  A rebuild cut short leaves the tables half full.
Restart ==
    /\ IF Quiet THEN UNCHANGED faults ELSE Fault
    /\ live' = Restored(saved)
    /\ call' = [p \in Caller |-> Idle]
    /\ adrift' = {}
    /\ blurred' = IF Rebuilding THEN used ELSE blurred \cup Pinning
    /\ unlogged' = IF Rebuilding THEN Kind ELSE unlogged
    /\ UNCHANGED <<base, stages, tables, logged, marker, used>>

-----------------------------------------------------------------------------
Init ==
    /\ base \in Presets /\ stages \in SUBSET Stage
    /\ live = [temperament |-> base, mood |-> Baseline(base)]
    /\ saved = [k \in Kind |-> NoRow] /\ pins = {}
    /\ events = <<>> /\ first = 0 /\ marker = 0
    /\ call = [p \in Caller |-> Idle] /\ faults = 0
    /\ used = {} /\ blurred = {} /\ adrift = {} /\ unlogged = {}

Begin(p) == \/ Trigger(p) \/ SetTemperament(p) \/ ResetMood(p) \/ Consolidate(p)
            \/ Pin(p) \/ Unpin(p) \/ Rebuild(p) \/ Truncate(p)

Continue(p) ==
    \/ Drift(p) \/ MoodUpdate(p) \/ ReadState(p) \/ SaveRow(p) \/ ReadAgain(p) \/ LogState(p) \/ PersistFails(p)
    \/ LogPin(p) \/ LogPinFails(p)
    \/ DropPins(p) \/ DropAffect(p) \/ OpenScan(p) \/ Replay(p) \/ EndRebuild(p)

Next == (\E p \in Caller : Begin(p) \/ Continue(p)) \/ Restart

Spec == Init /\ [][Next]_vars

-----------------------------------------------------------------------------
Op   == {"idle", "trigger", "set_temperament", "reset_mood", "consolidate", "pin", "unpin", "rebuild"}
Step == {"idle", "drift", "update", "read", "save", "reread", "log", "log pin",
         "drop pins", "drop affect", "open", "replay"}

Dict == [Dim -> Level \cup {Absent}]

EventOK(e) ==
    /\ e.kind \in Kind \cup {"pin", "unpin"}
    /\ e.kind = "temperament" => e.data \in Dict
    /\ e.kind = "mood" => e.data \in Level
    /\ e.kind \in {"pin", "unpin"} => e.data \in used

CallOK(c) ==
    /\ DOMAIN c = DOMAIN Idle
    /\ c.op \in Op /\ c.step \in Step /\ c.kind \in Kind \cup {None} /\ c.alone \in BOOLEAN
    /\ c.pin \in used \cup {None} /\ c.full \in BOOLEAN /\ c.next \in 1 .. MaxEvents + 1
    /\ c.step \in {"save", "log"} => c.saw \in IF c.kind = "temperament" THEN Temperament ELSE Level

\* A row, an event and a value read hold what their kind says.
TypeOK ==
    /\ base \in Temperament /\ stages \subseteq Stage
    /\ live \in [temperament : Temperament, mood : Level]
    /\ DOMAIN saved = Kind /\ saved.temperament \subseteq Dict /\ saved.mood \subseteq Level
    /\ \A k \in Kind : \A c, d \in saved[k] : c = d
    /\ pins \cup blurred \subseteq used /\ used \subseteq PinId
    /\ \A i \in DOMAIN events : EventOK(events[i])
    /\ Len(events) <= MaxEvents /\ first \in 0 .. Len(events) /\ marker \in 0 .. Len(events)
    /\ \A p \in Caller : CallOK(call[p])
    /\ faults \in 0 .. MaxFaults /\ adrift \subseteq Kind /\ unlogged \subseteq Kind

\* What the log says of pin x: its newest event is that it was made.
Says(i, kind, x) == events[i].kind = kind /\ events[i].data = x
LoggedPin(x) == \E i \in Log : Says(i, "pin", x) /\ \A j \in Log : j > i => ~Says(j, "unpin", x)

\* Whenever no call is in progress, the pins in the table are those of the log
\* (DESIGN.md:21: everything else is rebuildable): for the pins made and removed
\* since the last rebuild and for those it replayed, fully or from the marker on.
\* Two calls about one pin, one during a rebuild, one that failed before its event
\* and events that retention removed are excused, and a full rebuild ends that.
PinsLogged == Quiet => \A x \in used \ blurred : x \in pins <=> LoggedPin(x)

\* Whenever no call is in progress, reopening the engine would give it the
\* temperament it has: after overrides, drifts, failures and rebuilds. Excused are
\* calls that overlapped, a row that failed, and a rebuild whose newest event of
\* the temperament is an override or was lost or removed, until the next row.
TemperamentRestored ==
    Quiet /\ "temperament" \notin adrift => Restored(saved).temperament = live.temperament

\* The same of the mood. Excused are also a rebuild after reset_mood, which appends
\* no event; the decay of the temperament stage in a pipeline without the mood stage;
\* and an override before the mood has a row, as the restored baseline follows it.
MoodRestored ==
    Quiet /\ "mood" \notin adrift /\ (saved.mood = NoRow => "temperament" \notin adrift) =>
        Restored(saved).mood = live.mood
=============================================================================
