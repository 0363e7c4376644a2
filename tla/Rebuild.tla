------------------------------ MODULE Rebuild ------------------------------
(***************************************************************************)
(* Engram.rebuild and Engram.snapshot (engine.py): the projection replayed *)
(* from the event log, while remember, hard forgets, retention and calls   *)
(* that write whole rows back go on.                                       *)
(*                                                                         *)
(* Data.  An event is its position among all events ever appended, a row   *)
(* its number among all rows ever made: replay gives each memory a new id. *)
(* Only events that make or delete rows are kept; those that change a      *)
(* column (soft forget, state transition), a pin or the affect log are     *)
(* not, nor are the memories of consolidation and import, which no event   *)
(* remembers.  Which rows retention finds expired and which owners a       *)
(* writer may read is left open.  Embeddings are available.                *)
(***************************************************************************)
EXTENDS Naturals, Sequences, FiniteSets

CONSTANTS
    Caller,
    Rebuilder,      \* those of Caller that rebuild
    Content,
    MaxEvents,      \* bound: events
    MaxRebuilds,    \* bound: rebuilds
    MaxCalls,       \* bound: snapshots, retentions, and calls that write a row back
    MaxFaults       \* bound: failed statements, failed embeddings, crashes

NoCaller == "none"
None     == 0       \* no event, no row

ASSUME BoundsAssumption == {MaxEvents, MaxRebuilds, MaxCalls, MaxFaults} \subseteq Nat
ASSUME CallerAssumption == Rebuilder \subseteq Caller /\ NoCaller \notin Caller

VARIABLES
    dedup,      \* configuration: write_dedup_threshold > 0
    acl,        \* configuration: access control (with write dedup, where it matters)
    events,     \* every event appended so far
    first,      \* how many of them truncate_before has removed
    made,       \* made[r]: the event that row r was made from
    rows,       \* the rows in SQLite
    vectors,    \* the rows that have a vector
    marker,     \* metadata: snapshot_event_id
    lock,       \* the holder of _dedup_lock
    call,       \* call[p]: the call p is in and its local variables
    rebuilds, calls, faults,        \* counters
    \* history:
    gone,       \* events whose row was hard-deleted
    purged,     \* events whose row retention deleted
    failed,     \* events whose remember died or failed after the append
    overlooked, \* events that a marker passed while they had no row
    exposed,    \* events whose upsert the dedup check may miss
    unseen,     \* events written although there was a vector their check did not count
    revived,    \* events whose row was written back after it was gone
    crossed     \* the rebuilds in progress have overlapped

logged   == <<events, first>>
stores   == <<made, rows, vectors>>
counters == <<rebuilds, calls, faults>>
history  == <<gone, purged, failed, overlooked, exposed, unseen, revived, crossed>>
vars     == <<dedup, acl, logged, stores, marker, lock, call, counters, history>>

Fault == faults < MaxFaults /\ faults' = faults + 1

Log        == first + 1 .. Len(events)
Remembered == {e \in Log : events[e].kind = "remember"}

\* One row stands for both events: the near-duplicate is not written.
Alike(e, f)     == IF dedup THEN events[e].what = events[f].what ELSE e = f
Represents(r, e) == Alike(made[r], e)
HasRow(e)       == \E r \in rows : Represents(r, e)

-----------------------------------------------------------------------------
(***************************************************************************)
(* Calls                                                                   *)
(***************************************************************************)
Idle == [op |-> "idle", step |-> "idle", event |-> None, row |-> None, byId |-> FALSE,
         since |-> None, past |-> FALSE, from |-> None, next |-> 1, end |-> None]

Local(p, c)     == call' = [call EXCEPT ![p] = c]
Goto(p, step)   == call' = [call EXCEPT ![p].step = step]
Return(p)       == Local(p, Idle)
Ready(p)        == call[p].op = "idle"
At(p, op, step) == call[p].op = op /\ call[p].step = step
Unlock(p)       == lock' = IF lock = p THEN NoCaller ELSE lock

UnderWay   == {call[p].event : p \in {q \in Caller : call[q].step \in {"lock", "check", "insert", "embed"}}}
InFlight   == {call[p].event : p \in {q \in Caller : call[q].op = "remember"}}
Rebuilding == \E p \in Caller : call[p].op = "rebuild"
Room       == Len(events) + Cardinality({p \in Caller : call[p].op = "forget"}) < MaxEvents

\* The event log first, then the projection.
Remember(p) ==
    LET e == Len(events) + 1 IN
    /\ Ready(p) /\ Room
    /\ \E x \in Content : events' = Append(events, [kind |-> "remember", what |-> x])
    /\ Local(p, [Idle EXCEPT !.op = "remember", !.event = e, !.step = IF dedup THEN "lock" ELSE "insert"])
    /\ exposed' = IF Rebuilding THEN exposed \cup {e} ELSE exposed
    /\ UNCHANGED <<dedup, acl, first, stores, marker, lock, counters, gone, purged, failed, overlooked, unseen, revived, crossed>>

LockDedup(p) ==
    /\ At(p, "remember", "lock")
    /\ lock = NoCaller /\ lock' = p
    /\ Goto(p, "check")
    /\ UNCHANGED <<dedup, acl, logged, stores, marker, counters, history>>

-----------------------------------------------------------------------------
(***************************************************************************)
(* The upsert that remember and the replay share; remember holds the lock, *)
(* the replay does not.                                                    *)
(***************************************************************************)
Upserted(p) == IF call[p].op = "remember" THEN Return(p) /\ Unlock(p) ELSE Goto(p, "replay") /\ UNCHANGED lock

Twins(e) == {r \in vectors : Represents(r, e)}

\* The check of remember, with access control, counts only neighbours whose row is
\* there and in the writer's view; the replay runs as the system and counts all.
Scoped(p) == acl /\ call[p].op = "remember"

CheckNeighbours(p) ==
    LET e == call[p].event IN
    /\ call[p].step = "check"
    /\ \/ /\ \E r \in Twins(e) : Scoped(p) => r \in rows
          /\ Upserted(p) /\ UNCHANGED <<faults, exposed, unseen>>
       \/ /\ Twins(e) = {} \/ Scoped(p)
          /\ unseen' = IF Twins(e) = {} THEN unseen ELSE unseen \cup {e}
          /\ Goto(p, "insert") /\ UNCHANGED <<lock, faults, exposed>>
       \/ Fault /\ Goto(p, "insert") /\ exposed' = exposed \cup {e} /\ UNCHANGED <<lock, unseen>>
    /\ UNCHANGED <<dedup, acl, logged, stores, marker, rebuilds, calls, gone, purged, failed, overlooked, revived, crossed>>

\* The replay writes vectors only with dedup on.
InsertRow(p) ==
    LET r == Len(made) + 1 IN
    /\ call[p].step = "insert"
    /\ made' = Append(made, call[p].event) /\ rows' = rows \cup {r}
    /\ IF call[p].op = "rebuild" /\ ~dedup
       THEN Goto(p, "replay")
       ELSE Local(p, [call[p] EXCEPT !.row = r, !.step = "embed"])
    /\ UNCHANGED <<dedup, acl, logged, vectors, marker, lock, counters, history>>

\* The statement raises, and so does the call: a rebuild ends there.
InsertFails(p) ==
    /\ call[p].step = "insert" /\ Fault
    /\ Return(p) /\ Unlock(p)
    /\ failed' = IF call[p].op = "remember" THEN failed \cup {call[p].event} ELSE failed
    /\ UNCHANGED <<dedup, acl, logged, stores, marker, rebuilds, calls, gone, purged, overlooked, exposed, unseen, revived, crossed>>

InsertVector(p) ==
    /\ call[p].step = "embed"
    /\ \/ vectors' = vectors \cup {call[p].row} /\ UNCHANGED <<faults, exposed>>
       \/ Fault /\ exposed' = exposed \cup {call[p].event} /\ UNCHANGED vectors
    /\ Upserted(p)
    /\ UNCHANGED <<dedup, acl, logged, made, rows, marker, rebuilds, calls, gone, purged, failed, overlooked, unseen, revived, crossed>>

-----------------------------------------------------------------------------
(***************************************************************************)
(* A hard forget: the stores first, then the event log.  The event names   *)
(* the row only when the caller did; redact_memory finds no event of it.   *)
(***************************************************************************)
Forget(p) ==
    /\ Ready(p) /\ Room
    /\ \E r \in rows, byId \in BOOLEAN :
          /\ rows' = rows \ {r}
          /\ gone' = gone \cup {made[r]}
          /\ Local(p, [Idle EXCEPT !.op = "forget", !.step = "vector", !.row = r, !.byId = byId])
    /\ UNCHANGED <<dedup, acl, logged, made, vectors, marker, lock, counters, purged, failed, overlooked, exposed, unseen, revived, crossed>>

ForgetVector(p) ==
    /\ At(p, "forget", "vector")
    /\ vectors' = vectors \ {call[p].row}
    /\ Goto(p, "log")
    /\ UNCHANGED <<dedup, acl, logged, made, rows, marker, lock, counters, history>>

LogForget(p) ==
    /\ At(p, "forget", "log")
    /\ events' = Append(events, [kind |-> "forget", what |-> IF call[p].byId THEN call[p].row ELSE None])
    /\ Return(p)
    /\ UNCHANGED <<dedup, acl, first, stores, marker, lock, counters, history>>

-----------------------------------------------------------------------------
(***************************************************************************)
(* rebuild                                                                 *)
(***************************************************************************)
ReadMarker(p) ==
    /\ p \in Rebuilder /\ Ready(p)
    /\ rebuilds < MaxRebuilds /\ rebuilds' = rebuilds + 1
    /\ \E incremental \in BOOLEAN :
       LET since == IF incremental THEN marker ELSE None IN
          Local(p, [Idle EXCEPT !.op = "rebuild", !.since = since, !.past = (since = None),
                                !.step = IF since = None THEN "rows" ELSE "open"])
    /\ exposed' = exposed \cup UnderWay /\ crossed' = Rebuilding
    /\ UNCHANGED <<dedup, acl, logged, stores, marker, lock, calls, faults, gone, purged, failed, overlooked, unseen, revived>>

\* History: what replay from event m on would not bring back, because it is not
\* replayed, or because the vector of a row that is gone absorbs it.  Also events
\* that the log has lost: their vectors go on absorbing what is remembered later.
Passed(m) ==
    {e \in 1 .. Len(events) : /\ events[e].kind = "remember" /\ ~HasRow(e)
                              /\ e <= m \/ (dedup /\ \E r \in vectors : Represents(r, e))}

\* drop_all is a script: each DELETE commits on its own, that of the metadata last.
RowsKept      == rows
RowsAfterDrop == {}

DropRows(p) ==
    /\ At(p, "rebuild", "rows")
    /\ rows' = RowsAfterDrop
    /\ exposed' = UnderWay /\ unseen' = {} /\ revived' = {}
    /\ Goto(p, "metadata")
    /\ UNCHANGED <<dedup, acl, logged, made, vectors, marker, lock, counters, gone, purged, failed, overlooked, crossed>>

MarkerKept      == marker
MarkerAfterDrop == None

DropMetadata(p) ==
    /\ At(p, "rebuild", "metadata")
    /\ marker' = MarkerAfterDrop
    /\ overlooked' = {}
    /\ Goto(p, "vectors")
    /\ UNCHANGED <<dedup, acl, logged, stores, lock, counters, gone, purged, failed, exposed, unseen, revived, crossed>>

VectorsKept      == vectors
VectorsAfterDrop == {}

\* A failure here is logged, and the vectors stay.
DropVectors(p) ==
    /\ At(p, "rebuild", "vectors")
    /\ \/ vectors' = VectorsAfterDrop /\ UNCHANGED <<faults, overlooked>>
       \/ Fault /\ overlooked' = overlooked \cup Passed(None) /\ UNCHANGED vectors
    /\ Goto(p, "open")
    /\ UNCHANGED <<dedup, acl, logged, made, rows, marker, lock, rebuilds, calls, gone, purged, failed, exposed, unseen, revived, crossed>>

\* The scan opens the file when its first event is asked for, after the drop.
OpenScan(p) ==
    /\ At(p, "rebuild", "open")
    /\ Local(p, [call[p] EXCEPT !.from = first, !.next = first + 1, !.step = "replay"])
    /\ UNCHANGED <<dedup, acl, logged, stores, marker, lock, counters, history>>

AtEOF(p) == call[p].next > Len(events) \/ (call[p].end # None /\ call[p].next > call[p].end)

\* The event after the one read, past the marker once that one is read.
Skipped(p)    == [call[p] EXCEPT !.next = @ + 1, !.past = (call[p].next = call[p].since)]

Replay(p) ==
    LET c == call[p]
        e == events[c.next] IN
    /\ At(p, "rebuild", "replay") /\ ~AtEOF(p)
    /\ \/ /\ ~c.past
          /\ Local(p, Skipped(p)) /\ UNCHANGED <<rows, exposed>>
       \/ /\ c.past /\ e.kind = "remember"
          /\ Local(p, [c EXCEPT !.next = @ + 1, !.event = c.next, !.step = IF dedup THEN "check" ELSE "insert"])
          /\ exposed' = IF crossed THEN exposed \cup {c.next} ELSE exposed
          /\ UNCHANGED rows
       \/ /\ c.past /\ e.kind = "forget"
          /\ rows' = rows \ {e.what}
          /\ Local(p, [c EXCEPT !.next = @ + 1])
          /\ UNCHANGED exposed
    /\ UNCHANGED <<dedup, acl, logged, made, vectors, marker, lock, counters, gone, purged, failed, overlooked, unseen, revived, crossed>>

EndScan(p) ==
    /\ At(p, "rebuild", "replay") /\ AtEOF(p)
    /\ Goto(p, "last")
    /\ UNCHANGED <<dedup, acl, logged, stores, marker, lock, counters, history>>

-----------------------------------------------------------------------------
(***************************************************************************)
(* snapshot, on its own or at the end of a rebuild: it calls the last      *)
(* event of the log, whether or not its row was written.                   *)
(***************************************************************************)
Snapshot(p) ==
    /\ Ready(p) /\ calls < MaxCalls /\ calls' = calls + 1
    /\ Local(p, [Idle EXCEPT !.op = "snapshot", !.step = "last"])
    /\ UNCHANGED <<dedup, acl, logged, stores, marker, lock, rebuilds, faults, history>>

ReadLast(p) ==
    /\ call[p].step = "last"
    /\ IF Log = {} THEN Return(p)
       ELSE Local(p, [call[p] EXCEPT !.event = Len(events), !.step = "mark"])
    /\ UNCHANGED <<dedup, acl, logged, stores, marker, lock, counters, history>>

SetMarker(p) ==
    /\ call[p].step = "mark"
    /\ marker' = call[p].event
    /\ overlooked' = overlooked \cup Passed(call[p].event)
    /\ Return(p)
    /\ UNCHANGED <<dedup, acl, logged, stores, lock, counters, gone, purged, failed, exposed, unseen, revived, crossed>>

-----------------------------------------------------------------------------
(***************************************************************************)
(* Retention, at the end of a consolidation: purge_by_ttl deletes rows and *)
(* leaves their vectors, then the log is cut, if it is configured to be.   *)
(***************************************************************************)
Purge(p) ==
    /\ Ready(p) /\ calls < MaxCalls /\ calls' = calls + 1
    /\ \E expired \in SUBSET rows :
          rows' = rows \ expired /\ purged' = purged \cup {made[r] : r \in expired}
    /\ Local(p, [Idle EXCEPT !.op = "retain", !.step = "truncate"])
    /\ UNCHANGED <<dedup, acl, logged, made, vectors, marker, lock, rebuilds, faults, gone, failed, overlooked, exposed, unseen, revived, crossed>>

\* A new file is published; a scan that is open reads the old one to its end.
ScanOpen(q) == call[q].op = "rebuild" /\ call[q].step \notin {"rows", "metadata", "vectors", "open"}
CutOff(q)   == IF ScanOpen(q) /\ call[q].end = None THEN [call[q] EXCEPT !.end = Len(events)] ELSE call[q]

Truncate(p) ==
    /\ At(p, "retain", "truncate")
    /\ \/ Return(p) /\ UNCHANGED first
       \/ /\ first' \in first .. Len(events)
          /\ call' = [q \in Caller |-> IF q = p THEN Idle ELSE CutOff(q)]
    /\ UNCHANGED <<dedup, acl, events, stores, marker, lock, counters, history>>

-----------------------------------------------------------------------------
(***************************************************************************)
(* A call that holds a copy of a row (_reconsolidate at the end of recall, *)
(* DecayAndPrune, a conflict of InterferenceDetection) upserts it, without *)
(* a check and without its vector: it inserts a row that is gone again.    *)
(***************************************************************************)
ReadRow(p) ==
    /\ Ready(p) /\ calls < MaxCalls /\ calls' = calls + 1
    /\ \E r \in rows : Local(p, [Idle EXCEPT !.op = "revise", !.step = "write", !.row = r])
    /\ UNCHANGED <<dedup, acl, logged, stores, marker, lock, rebuilds, faults, history>>

WriteRow(p) ==
    LET r == call[p].row IN
    /\ At(p, "revise", "write")
    /\ rows' = rows \cup {r}
    /\ revived' = IF r \in rows THEN revived ELSE revived \cup {made[r]}
    /\ Return(p)
    /\ UNCHANGED <<dedup, acl, logged, made, vectors, marker, lock, counters, gone, purged, failed, overlooked, exposed, unseen, crossed>>

\* What was committed stays.  A drop cut before the metadata leaves the marker on
\* an empty projection, and the vectors of its rows.
Crash ==
    /\ Fault
    /\ call' = [p \in Caller |-> Idle]
    /\ lock' = NoCaller
    /\ failed' = failed \cup InFlight
    /\ exposed' = exposed \cup {call[p].event : p \in {q \in Caller : call[q].step = "embed"}}
    /\ overlooked' = IF \E p \in Caller : At(p, "rebuild", "metadata")
                     THEN overlooked \cup Passed(marker) ELSE overlooked
    /\ UNCHANGED <<dedup, acl, logged, stores, marker, rebuilds, calls, gone, purged, unseen, revived, crossed>>

-----------------------------------------------------------------------------
Init ==
    /\ dedup \in BOOLEAN /\ acl \in {FALSE, dedup}
    /\ events = <<>> /\ first = 0
    /\ made = <<>> /\ rows = {} /\ vectors = {}
    /\ marker = None /\ lock = NoCaller /\ call = [p \in Caller |-> Idle]
    /\ rebuilds = 0 /\ calls = 0 /\ faults = 0
    /\ gone = {} /\ purged = {} /\ failed = {} /\ overlooked = {}
    /\ exposed = {} /\ unseen = {} /\ revived = {} /\ crossed = FALSE

CallStep(p) ==
    \/ LockDedup(p) \/ CheckNeighbours(p) \/ InsertRow(p) \/ InsertFails(p) \/ InsertVector(p)
    \/ ForgetVector(p) \/ LogForget(p)
    \/ DropRows(p) \/ DropMetadata(p) \/ DropVectors(p) \/ OpenScan(p) \/ Replay(p) \/ EndScan(p)
    \/ ReadLast(p) \/ SetMarker(p) \/ Truncate(p) \/ WriteRow(p)

Next ==
    \/ \E p \in Caller :
          CallStep(p) \/ Remember(p) \/ Forget(p) \/ ReadMarker(p) \/ Snapshot(p) \/ Purge(p) \/ ReadRow(p)
    \/ Crash

Spec == Init /\ [][Next]_vars

-----------------------------------------------------------------------------
Excused(e) ==
    \/ \E f \in gone \cup purged \cup overlooked : Alike(e, f)
    \/ dedup /\ \E f \in exposed : Alike(e, f)

\* Retention had removed the marker's event before the scan opened the log: it
\* skips all it reads (engine.py:995-999).
MarkerLost(p) == call[p].since \in 1 .. call[p].from

\* A rebuild that reaches its end leaves no memory behind: each event of the log
\* that remembers one has a row again (with dedup on, one of the same content, of
\* whatever owner: replay compares with all), also if its remember had died between
\* the log and the projection, and if an earlier rebuild was cut short.  The
\* exceptions: its row was hard-deleted or purged, a marker had passed it while it
\* had none, with dedup on it raced with a remember of the same content, or it came
\* after the marker of an incremental rebuild and retention has removed that marker
\* from the log.  What is remembered during the rebuild may be under way still, or
\* have died.  Nothing locks a rebuild: one that another has crossed may lose what
\* the other dropped, and a later full one that runs alone brings it back.
RebuildComplete ==
    \A p \in Caller : At(p, "rebuild", "last") /\ ~crossed =>
        \A e \in Remembered : \/ HasRow(e) \/ Excused(e)
                              \/ MarkerLost(p) /\ e > call[p].since
                              \/ e >= call[p].next /\ (e \in InFlight \/ e \in failed)

\* A full rebuild, and with dedup on an incremental one too, makes no second row
\* of a memory, whatever an earlier one left; unless an upsert of somebody else,
\* of a remember or of another rebuild, ran meanwhile, an embedding failed, a call
\* wrote back the copy of a row that was gone by then, or, before an incremental
\* one, access control hid from a remember what it would have been compared with.
RebuiltOnce ==
    \A p \in Caller : At(p, "rebuild", "last") /\ (call[p].since = None \/ dedup) =>
        \A r, s \in rows : r # s /\ Alike(made[r], made[s]) =>
            {made[r], made[s]} \cap (exposed \cup unseen \cup revived) # {}

\* The claim of DESIGN.md:205 (Deleted: gone, not recallable, no recovery) and
\* DESIGN.md:434 (hard delete removes from all stores): once no call is in progress,
\* what a request in the log has deleted by its id is not back.
DeletedStaysGone ==
    (\A p \in Caller : Ready(p)) =>
        \A i \in Log : events[i].kind = "forget" /\ events[i].what # None =>
            \A r \in rows : made[r] # made[events[i].what]
=============================================================================
