---------------------------- MODULE RebuildProofs ----------------------------
(***************************************************************************)
(* Proofs about Rebuild for any number of callers, rebuilders, contents,   *)
(* events, rebuilds, calls and faults.                                     *)
(***************************************************************************)
EXTENDS Rebuild, Integers, TLAPS

Rebuilds(p)  == call[p].op = "rebuild"
Remembers(p) == call[p].op = "remember"
Dropping     == {"rows", "metadata", "vectors"}
BetweenDrops == \E p \in Caller : At(p, "rebuild", "metadata")

Born        == {e \in 1 .. Len(events) : events[e].kind = "remember"}
Lost        == gone \cup purged
Raced       == exposed \cup unseen \cup revived
Kept(e)     == HasRow(e) \/ (\E f \in Lost : Alike(e, f)) \/ (dedup /\ \E f \in exposed : Alike(e, f))
Covered(e)  == HasRow(e) \/ Excused(e)
Settled(e)  == \/ Covered(e) \/ e \in failed
               \/ \E q \in Caller : Remembers(q) /\ call[q].event = e /\ call[q].step # "embed"

-----------------------------------------------------------------------------
(***************************************************************************)
(* Types, and what a call holds where it stands.                           *)
(***************************************************************************)
OpName   == {"idle", "remember", "forget", "rebuild", "snapshot", "retain", "revise"}
StepName == {"idle", "lock", "check", "insert", "embed", "vector", "log", "rows", "metadata",
             "vectors", "open", "replay", "last", "mark", "truncate", "write"}
CallType == [op : OpName, step : StepName, event : Nat, row : Nat, byId : BOOLEAN,
             since : Nat, past : BOOLEAN, from : Nat, next : Nat, end : Nat]

TypeInv ==
    /\ dedup \in BOOLEAN /\ acl \in BOOLEAN
    /\ events \in Seq([kind : {"remember"}, what : Content] \cup [kind : {"forget"}, what : Nat])
    /\ first \in 0 .. Len(events)
    /\ made \in Seq(Nat) /\ \A r \in 1 .. Len(made) : made[r] \in Born
    /\ rows \subseteq 1 .. Len(made) /\ vectors \subseteq 1 .. Len(made)
    /\ marker \in 0 .. Len(events)
    /\ lock \in Caller \cup {NoCaller}
    /\ call \in [Caller -> CallType]
    /\ gone \subseteq Born /\ purged \subseteq Born /\ failed \subseteq Born /\ overlooked \subseteq Born
    /\ exposed \subseteq Born /\ unseen \subseteq Born /\ revived \subseteq Born
    /\ crossed \in BOOLEAN

Stands(p) ==
    LET c == call[p] IN
    /\ c.next >= 1
    /\ c.op = "idle" => c.step = "idle"
    /\ c.op = "remember" => c.step \in {"lock", "check", "insert", "embed"} /\ c.event \in Born
    /\ c.op = "remember" /\ c.step = "lock" => dedup
    /\ c.op = "forget" => /\ c.step \in {"vector", "log"} /\ c.row \in 1 .. Len(made)
                          /\ made[c.row] \in gone
                          /\ c.row \in rows => made[c.row] \in revived
    /\ c.op = "retain" => c.step = "truncate"
    /\ c.op = "revise" => c.step = "write" /\ c.row \in 1 .. Len(made)
    /\ c.op = "snapshot" => c.step \in {"last", "mark"}
    /\ c.op = "rebuild" => /\ p \in Rebuilder
                           /\ c.step \in Dropping \cup {"open", "replay", "check", "insert", "embed", "last", "mark"}
                           /\ c.step \in Dropping => c.since = None
                           /\ c.step \in Dropping \cup {"open"} => c.end = None
                           /\ c.since = None => c.past
                           /\ c.past /\ c.since # None => c.next > c.since
                           /\ c.step = "open" /\ c.since # None => ~c.past
                           /\ c.end # None => c.since <= c.end
                           /\ c.step \notin Dropping \cup {"open"} /\ ~c.past => c.since \in 1 .. c.from \/ c.next <= c.since
                           /\ c.step \in {"last", "mark"} /\ ~c.past => c.since \in 1 .. c.from
                           /\ c.step = "embed" => dedup
    /\ c.op = "rebuild" /\ c.step \in {"check", "insert", "embed"} => c.event \in Born /\ c.next = c.event + 1 /\ c.past
    /\ c.step = "check" => dedup
    /\ c.step = "embed" => c.row \in 1 .. Len(made) /\ made[c.row] = c.event
    /\ c.step = "mark" => c.event \in 1 .. Len(events)

\* A scan is at most at the end of the log.
BoundInv == \A p \in Caller : call[p].next <= Len(events) + 1 /\ call[p].since <= Len(events)

LockInv == \A p \in Caller : dedup /\ Remembers(p) /\ call[p].step # "lock" => lock = p

\* A forget that is replayed names a row that was hard-deleted, or none.
ForgetInv ==
    \A i \in 1 .. Len(events) : events[i].kind = "forget" =>
        events[i].what \in 0 .. Len(made) /\ (events[i].what # None => made[events[i].what] \in gone)

\* Rebuilds that have not overlapped are one.
LoneInv == ~crossed => \A p, q \in Caller : Rebuilds(p) /\ Rebuilds(q) => p = q

Control == TypeInv /\ (\A p \in Caller : Stands(p)) /\ BoundInv /\ LockInv /\ ForgetInv /\ LoneInv

-----------------------------------------------------------------------------
(***************************************************************************)
(* Nothing is left behind.                                                 *)
(***************************************************************************)
\* An upsert under way while somebody else rebuilds may race with it.
Upserts(q) == call[q].step \in {"lock", "check", "insert", "embed"}
ExposedInv == \A p, q \in Caller : Rebuilds(p) /\ Upserts(q) /\ p # q => call[q].event \in exposed

\* What the marker stands for need not be replayed.
MarkInv  == marker # None /\ ~BetweenDrops => \A e \in Born : e <= marker => Covered(e)
SinceInv == \A p \in Caller : ~crossed /\ Rebuilds(p) /\ call[p].since # None =>
                \A e \in Born : e <= call[p].since => Covered(e)

\* What a vector may absorb is not lost by that.
VectorInv ==
    dedup /\ ~BetweenDrops /\ (marker # None \/ (~crossed /\ \E p \in Caller : Rebuilds(p) /\ call[p].step \notin Dropping)) =>
        \A v \in vectors : Covered(made[v])
EmbedInv == dedup => \A p \in Caller : call[p].step = "embed" => Kept(call[p].event)

\* A scan past the marker has brought back all it has passed, but for the one in hand.
ScanInv ==
    \A p \in Caller : ~crossed /\ Rebuilds(p) /\ call[p].past /\ call[p].step \in {"replay", "check", "insert", "embed", "last"} =>
        \A e \in Remembered : e < call[p].next =>
            Covered(e) \/ (call[p].step \in {"check", "insert"} /\ e = call[p].event)

\* What a scan will not see has been remembered since it began.
LateInv ==
    \A p \in Caller : ~crossed /\ Rebuilds(p) =>
        \A e \in Born : \/ call[p].end # None /\ e > call[p].end
                        \/ call[p].step = "last" /\ e >= call[p].next
                        => Settled(e)

CompleteInv == ExposedInv /\ MarkInv /\ SinceInv /\ VectorInv /\ EmbedInv /\ ScanInv /\ LateInv

-----------------------------------------------------------------------------
(***************************************************************************)
(* Nothing is made twice.                                                  *)
(***************************************************************************)
Twice(r, s) == r # s /\ Alike(made[r], made[s])

\* A row without a vector is not seen by the dedup check: somebody is about to give it
\* one, or it raced.
SeenInv == dedup => \A r \in rows : \/ r \in vectors \/ made[r] \in Raced
                                    \/ \E p \in Caller : call[p].step = "embed" /\ call[p].row = r
CheckedInv == dedup => \A p \in Caller : call[p].step = "insert" =>
                  \A r \in rows : Alike(made[r], call[p].event) => {made[r], call[p].event} \cap Raced # {}
DedupInv == dedup => \A r, s \in rows : Twice(r, s) => {made[r], made[s]} \cap Raced # {}

\* After the drop of a full rebuild a row was replayed, or made by a remember meanwhile.
Replayed(p, e) == /\ call[p].step \notin Dropping \cup {"open"} /\ e < call[p].next
                  /\ call[p].step \in {"check", "insert"} => e # call[p].event
FullInv ==
    \A p \in Caller : Rebuilds(p) /\ call[p].since = None /\ call[p].step # "rows" =>
        /\ \A r \in rows : made[r] \in Raced \/ Replayed(p, made[r])
        /\ \A r, s \in rows : r # s /\ made[r] = made[s] => made[r] \in Raced

OnceInv == SeenInv /\ CheckedInv /\ DedupInv /\ FullInv

IInv == Control /\ CompleteInv /\ OnceInv

-----------------------------------------------------------------------------
(***************************************************************************)
(* What the actions do to the calls: to p's own, and to no other.          *)
(***************************************************************************)
Others(p)    == call' \in [Caller -> CallType] /\ \A q \in Caller : q # p => call'[q] = call[q]
Becomes(p, c) == Others(p) /\ call'[p] = c

\* The fields of a caller's record.
LEMMA Fields ==
  ASSUME TypeInv, NEW p \in Caller
  PROVE  /\ call[p] \in CallType
         /\ call[p].op \in OpName /\ call[p].step \in StepName
         /\ call[p].event \in Nat /\ call[p].row \in Nat /\ call[p].byId \in BOOLEAN
         /\ call[p].since \in Nat /\ call[p].past \in BOOLEAN
         /\ call[p].from \in Nat /\ call[p].next \in Nat /\ call[p].end \in Nat
BY DEF TypeInv, CallType

\* A caller between two calls.
LEMMA IdleFields ==
  /\ Idle \in CallType /\ Idle.op = "idle" /\ Idle.step = "idle" /\ Idle.event = None /\ Idle.row = None
  /\ Idle.since = None /\ Idle.past = FALSE /\ Idle.from = None /\ Idle.next = 1 /\ Idle.end = None
BY DEF Idle, CallType, OpName, StepName, None

\* Writing a caller's record touches no other.
LEMMA LocalBecomes ==
  ASSUME TypeInv, NEW p \in Caller, NEW c \in CallType, Local(p, c)
  PROVE  Becomes(p, c)
BY DEF TypeInv, Local, Becomes, Others

\* A call that returns leaves its caller idle.
LEMMA ReturnBecomes ==
  ASSUME TypeInv, NEW p \in Caller, Return(p)
  PROVE  Becomes(p, Idle)
BY IdleFields, LocalBecomes DEF Return

\* A jump inside a call keeps its local variables.
LEMMA GotoBecomes ==
  ASSUME TypeInv, NEW p \in Caller, NEW s \in StepName, Goto(p, s)
  PROVE  /\ Becomes(p, [call[p] EXCEPT !.step = s]) /\ [call[p] EXCEPT !.step = s] \in CallType
BY Fields DEF Goto, TypeInv, Becomes, Others, CallType

\* The record a remember starts with.
Starting(e) == [Idle EXCEPT !.op = "remember", !.event = e, !.step = IF dedup THEN "lock" ELSE "insert"]

\* A remember appends its event and takes it along.
LEMMA RememberBecomes ==
  ASSUME TypeInv, NEW p \in Caller, Remember(p)
  PROVE  /\ Becomes(p, Starting(Len(events) + 1))
         /\ Len(events') = Len(events) + 1 /\ \A i \in 1 .. Len(events) : events'[i] = events[i]
         /\ events'[Len(events) + 1].kind = "remember"
         /\ Born' = Born \cup {Len(events) + 1}
<1>0. Len(events) + 1 \in Nat
  BY DEF TypeInv
<1>1. Starting(Len(events) + 1) \in CallType
  BY <1>0 DEF Starting, Idle, CallType, OpName, StepName, None
<1>2. Becomes(p, Starting(Len(events) + 1))
  BY <1>1, LocalBecomes DEF Remember, Starting
<1>3. PICK x \in Content : events' = Append(events, [kind |-> "remember", what |-> x])
  BY DEF Remember
<1>4. /\ Len(events') = Len(events) + 1 /\ \A i \in 1 .. Len(events) : events'[i] = events[i]
      /\ events'[Len(events) + 1] = [kind |-> "remember", what |-> x]
  BY <1>3 DEF TypeInv
<1>5. Born' = Born \cup {Len(events) + 1}
  BY <1>4 DEF Born, TypeInv
<1> QED
  BY <1>2, <1>4, <1>5

\* A caller's record with another program counter.
StepTo(p, s) == [call[p] EXCEPT !.step = s]

\* Where an upsert leaves its caller.
Upsert(p) == IF Remembers(p) THEN Idle ELSE StepTo(p, "replay")

\* After the upsert a remember returns and a replay goes on; the lock is given back by its holder only.
LEMMA UpsertBecomes ==
  ASSUME TypeInv, NEW p \in Caller, Upserted(p)
  PROVE  Becomes(p, Upsert(p)) /\ lock' \in {lock, NoCaller} /\ (lock' # lock => lock = p)
<1>1. "replay" \in StepName
  BY DEF StepName
<1> QED
  BY <1>1, ReturnBecomes, GotoBecomes DEF Upserted, Upsert, Remembers, StepTo, Unlock

\* What the upsert that remember and the replay share does to the caller.
LEMMA UpsertEffects ==
  ASSUME TypeInv, NEW p \in Caller
  PROVE  /\ LockDedup(p) => Becomes(p, StepTo(p, "check"))
         /\ CheckNeighbours(p) => Becomes(p, Upsert(p)) \/ Becomes(p, StepTo(p, "insert"))
         /\ InsertRow(p) => IF Rebuilds(p) /\ ~dedup THEN Becomes(p, StepTo(p, "replay"))
                            ELSE Becomes(p, [call[p] EXCEPT !.row = Len(made) + 1, !.step = "embed"])
         /\ InsertFails(p) => Becomes(p, Idle)
         /\ InsertVector(p) => Becomes(p, Upsert(p))
<1>1. {"check", "insert", "replay", "embed"} \subseteq StepName
  BY DEF StepName
<1>2. ASSUME InsertRow(p)
      PROVE  IF Rebuilds(p) /\ ~dedup THEN Becomes(p, StepTo(p, "replay"))
             ELSE Becomes(p, [call[p] EXCEPT !.row = Len(made) + 1, !.step = "embed"])
  <2>1. CASE Rebuilds(p) /\ ~dedup
    BY <1>1, <1>2, <2>1, GotoBecomes DEF InsertRow, Rebuilds, StepTo
  <2>2. CASE ~(Rebuilds(p) /\ ~dedup)
    <3>1. Len(made) + 1 \in Nat
      BY DEF TypeInv
    <3>2. [call[p] EXCEPT !.row = Len(made) + 1, !.step = "embed"] \in CallType
      BY <1>1, <3>1, Fields DEF CallType
    <3> QED
      BY <1>2, <2>2, <3>2, LocalBecomes DEF InsertRow, Rebuilds
  <2> QED
    BY <2>1, <2>2
<1>3. LockDedup(p) => Becomes(p, StepTo(p, "check"))
  BY <1>1, GotoBecomes DEF LockDedup, StepTo
<1>4. CheckNeighbours(p) => Becomes(p, Upsert(p)) \/ Becomes(p, StepTo(p, "insert"))
  BY <1>1, GotoBecomes, UpsertBecomes DEF CheckNeighbours, StepTo
<1>5. InsertFails(p) => Becomes(p, Idle)
  BY ReturnBecomes DEF InsertFails
<1>6. InsertVector(p) => Becomes(p, Upsert(p))
  BY UpsertBecomes DEF InsertVector
<1> QED
  BY <1>2, <1>3, <1>4, <1>5, <1>6

\* A forget has removed the row it starts with.
LEMMA ForgetEffects ==
  ASSUME TypeInv, NEW p \in Caller
  PROVE  /\ Forget(p) => \E r \in rows, byId \in BOOLEAN :
                            /\ Becomes(p, [Idle EXCEPT !.op = "forget", !.step = "vector", !.row = r, !.byId = byId])
                            /\ rows' = rows \ {r} /\ gone' = gone \cup {made[r]}
         /\ ForgetVector(p) => Becomes(p, StepTo(p, "log"))
         /\ LogForget(p) => Becomes(p, Idle)
<1>1. "log" \in StepName
  BY DEF StepName
<1>2. ASSUME NEW r \in rows, NEW byId \in BOOLEAN
      PROVE  [Idle EXCEPT !.op = "forget", !.step = "vector", !.row = r, !.byId = byId] \in CallType
  <2>1. r \in Nat
    BY DEF TypeInv
  <2> QED
    BY <2>1 DEF Idle, CallType, OpName, StepName, None
<1>3. ASSUME Forget(p)
      PROVE  \E r \in rows, byId \in BOOLEAN :
               /\ Becomes(p, [Idle EXCEPT !.op = "forget", !.step = "vector", !.row = r, !.byId = byId])
               /\ rows' = rows \ {r} /\ gone' = gone \cup {made[r]}
  BY <1>2, <1>3, LocalBecomes DEF Forget
<1>4. ForgetVector(p) => Becomes(p, StepTo(p, "log"))
  BY <1>1, GotoBecomes DEF ForgetVector, StepTo
<1>5. LogForget(p) => Becomes(p, Idle)
  BY ReturnBecomes DEF LogForget
<1> QED
  BY <1>3, <1>4, <1>5

\* The record a rebuild starts with.
Beginning(since) == [Idle EXCEPT !.op = "rebuild", !.since = since, !.past = (since = None),
                                 !.step = IF since = None THEN "rows" ELSE "open"]

\* A rebuild begins by dropping, or at the marker; each part of the drop moves it one step on.
LEMMA DropEffects ==
  ASSUME TypeInv, NEW p \in Caller
  PROVE  /\ ReadMarker(p) => Becomes(p, Beginning(None)) \/ (marker # None /\ Becomes(p, Beginning(marker)))
         /\ DropRows(p) => Becomes(p, StepTo(p, "metadata"))
         /\ DropMetadata(p) => Becomes(p, StepTo(p, "vectors"))
         /\ DropVectors(p) => Becomes(p, StepTo(p, "open"))
<1>1. {"metadata", "vectors", "open"} \subseteq StepName
  BY DEF StepName
<1>2. ASSUME NEW since \in {None, marker} PROVE Beginning(since) \in CallType
  <2>1. since \in Nat
    BY DEF TypeInv, None
  <2> QED
    BY <2>1 DEF Beginning, Idle, CallType, OpName, StepName, None
<1>3. ASSUME ReadMarker(p) PROVE Becomes(p, Beginning(None)) \/ (marker # None /\ Becomes(p, Beginning(marker)))
  <2>1. PICK incremental \in BOOLEAN : Local(p, Beginning(IF incremental THEN marker ELSE None))
    BY <1>3 DEF ReadMarker, Beginning
  <2> QED
    BY <1>2, <2>1, LocalBecomes
<1>4. DropRows(p) => Becomes(p, StepTo(p, "metadata"))
  BY <1>1, GotoBecomes DEF DropRows, StepTo
<1>5. DropMetadata(p) => Becomes(p, StepTo(p, "vectors"))
  BY <1>1, GotoBecomes DEF DropMetadata, StepTo
<1>6. DropVectors(p) => Becomes(p, StepTo(p, "open"))
  BY <1>1, GotoBecomes DEF DropVectors, StepTo
<1> QED
  BY <1>3, <1>4, <1>5, <1>6

\* A scan opens; then for each event it skips it, upserts it, or deletes the row it names.
Scanning(p)  == [call[p] EXCEPT !.from = first, !.next = first + 1, !.step = "replay"]
Upserting(p) == [call[p] EXCEPT !.next = @ + 1, !.event = call[p].next, !.step = IF dedup THEN "check" ELSE "insert"]
Deleting(p)  == [call[p] EXCEPT !.next = @ + 1]

\* The scan opens, takes one event at a time, and ends.
LEMMA ReplayEffects ==
  ASSUME TypeInv, NEW p \in Caller
  PROVE  /\ OpenScan(p) => Becomes(p, Scanning(p))
         /\ Replay(p) => \/ ~call[p].past /\ Becomes(p, Skipped(p)) /\ rows' = rows
                         \/ /\ call[p].past /\ events[call[p].next].kind = "remember"
                            /\ Becomes(p, Upserting(p)) /\ rows' = rows
                            /\ crossed => call[p].next \in exposed'
                         \/ /\ call[p].past /\ events[call[p].next].kind = "forget"
                            /\ Becomes(p, Deleting(p)) /\ rows' = rows \ {events[call[p].next].what}
         /\ EndScan(p) => Becomes(p, StepTo(p, "last"))
<1>1. {"replay", "last", "check", "insert"} \subseteq StepName
  BY DEF StepName
<1>2. first \in Nat /\ first + 1 \in Nat /\ call[p].next + 1 \in Nat
  BY Fields DEF TypeInv
<1>3. /\ Scanning(p) \in CallType
      /\ Skipped(p) \in CallType /\ Upserting(p) \in CallType /\ Deleting(p) \in CallType
  BY <1>1, <1>2, Fields DEF CallType, Scanning, Skipped, Upserting, Deleting
<1>4. OpenScan(p) => Becomes(p, Scanning(p))
  BY <1>3, LocalBecomes DEF OpenScan, Scanning
<1>5. EndScan(p) => Becomes(p, StepTo(p, "last"))
  BY <1>1, GotoBecomes DEF EndScan, StepTo
<1>6. ASSUME Replay(p)
      PROVE  \/ ~call[p].past /\ Becomes(p, Skipped(p)) /\ rows' = rows
             \/ /\ call[p].past /\ events[call[p].next].kind = "remember"
                /\ Becomes(p, Upserting(p)) /\ rows' = rows
                /\ crossed => call[p].next \in exposed'
             \/ /\ call[p].past /\ events[call[p].next].kind = "forget"
                /\ Becomes(p, Deleting(p)) /\ rows' = rows \ {events[call[p].next].what}
  BY <1>3, <1>6, LocalBecomes DEF Replay, Upserting, Deleting
<1> QED
  BY <1>4, <1>5, <1>6

\* A snapshot reads where the log ends, then sets the marker.
LEMMA MarkEffects ==
  ASSUME TypeInv, NEW p \in Caller
  PROVE  /\ Snapshot(p) => Becomes(p, [Idle EXCEPT !.op = "snapshot", !.step = "last"])
         /\ ReadLast(p) => \/ Becomes(p, Idle)
                           \/ Log # {} /\ Becomes(p, [call[p] EXCEPT !.event = Len(events), !.step = "mark"])
         /\ SetMarker(p) => Becomes(p, Idle)
<1>1. /\ [Idle EXCEPT !.op = "snapshot", !.step = "last"] \in CallType
      /\ [call[p] EXCEPT !.event = Len(events), !.step = "mark"] \in CallType
  <2>1. Len(events) \in Nat
    BY DEF TypeInv
  <2>2. [Idle EXCEPT !.op = "snapshot", !.step = "last"] \in CallType
    BY DEF Idle, CallType, OpName, StepName, None
  <2>3. [call[p] EXCEPT !.event = Len(events), !.step = "mark"] \in CallType
    BY <2>1, Fields DEF CallType, StepName
  <2> QED
    BY <2>2, <2>3
<1> QED
  BY <1>1, LocalBecomes, ReturnBecomes DEF Snapshot, ReadLast, SetMarker

\* A truncation ends its own call, and only tells open scans where their file ends.
LEMMA TruncateEffects ==
  ASSUME TypeInv, NEW p \in Caller, Truncate(p)
  PROVE  /\ first' \in first .. Len(events) /\ call' \in [Caller -> CallType]
         /\ call[p].op = "retain" /\ call'[p] = Idle
         /\ \A q \in Caller : q # p =>
              \/ call'[q] = call[q]
              \/ /\ Rebuilds(q) /\ call[q].step \notin Dropping \cup {"open"} /\ call[q].end = None
                 /\ call'[q] = [call[q] EXCEPT !.end = Len(events)]
<1>1. Len(events) \in Nat /\ first \in 0 .. Len(events)
  BY DEF TypeInv
<1>2. \A q \in Caller : [call[q] EXCEPT !.end = Len(events)] \in CallType
  BY <1>1, Fields DEF CallType
<1>3. CASE Return(p) /\ UNCHANGED first
  BY <1>1, <1>3, ReturnBecomes DEF Truncate, At, Becomes, Others
<1>4. CASE /\ first' \in first .. Len(events)
           /\ call' = [q \in Caller |-> IF q = p THEN Idle ELSE CutOff(q)]
  <2>1. \A q \in Caller : CutOff(q) \in CallType
    BY <1>2, Fields DEF CutOff
  <2> QED
    BY <1>4, <2>1, IdleFields DEF Truncate, At, CutOff, ScanOpen, Rebuilds, Dropping
<1> QED
  BY <1>3, <1>4 DEF Truncate

\* The calls that retention and a write-back are in.
Retaining   == [Idle EXCEPT !.op = "retain", !.step = "truncate"]
Revising(r) == [Idle EXCEPT !.op = "revise", !.step = "write", !.row = r]

\* Retention goes on to the log; a write-back keeps the row it has read.
LEMMA RowEffects ==
  ASSUME TypeInv, NEW p \in Caller
  PROVE  /\ Purge(p) => Becomes(p, Retaining)
         /\ ReadRow(p) => \E r \in rows : Becomes(p, Revising(r))
         /\ WriteRow(p) => Becomes(p, Idle)
<1>1. Retaining \in CallType
  BY DEF Retaining, Idle, CallType, OpName, StepName, None
<1>2. ASSUME NEW r \in rows PROVE Revising(r) \in CallType
  <2>1. r \in Nat
    BY DEF TypeInv
  <2> QED
    BY <2>1 DEF Revising, Idle, CallType, OpName, StepName, None
<1>3. Purge(p) => Becomes(p, Retaining)
  BY <1>1, LocalBecomes DEF Purge, Retaining
<1>4. ReadRow(p) => \E r \in rows : Becomes(p, Revising(r))
  BY <1>2, LocalBecomes DEF ReadRow, Revising
<1> QED
  BY <1>3, <1>4, ReturnBecomes DEF WriteRow

-----------------------------------------------------------------------------
(***************************************************************************)
(* Types and control.                                                      *)
(***************************************************************************)
\* Events and rows are only added at the end; what was deleted is known, and so is an
\* old row that comes back.
Extends ==
    /\ dedup' = dedup /\ acl' = acl
    /\ Len(events) <= Len(events') /\ \A i \in 1 .. Len(events) : events'[i] = events[i]
    /\ Len(made) <= Len(made') /\ \A r \in 1 .. Len(made) : made'[r] = made[r]
    /\ gone \subseteq gone' /\ (revived \subseteq revived' \/ rows' = {})
    /\ \A r \in 1 .. Len(made) : r \in rows' => r \in rows \/ made[r] \in revived'

\* The actions that append no event and add no row.
Unchanging(p) ==
    \/ LockDedup(p) \/ CheckNeighbours(p) \/ InsertFails(p) \/ InsertVector(p) \/ Forget(p) \/ ForgetVector(p)
    \/ ReadMarker(p) \/ DropRows(p) \/ DropMetadata(p) \/ DropVectors(p) \/ OpenScan(p) \/ Replay(p) \/ EndScan(p)
    \/ Snapshot(p) \/ ReadLast(p) \/ SetMarker(p) \/ Truncate(p) \/ Purge(p) \/ ReadRow(p)

\* A step appends, makes a row or writes one back, does none of these, or is a crash.
LEMMA NextActions ==
  ASSUME [Next]_vars
  PROVE  \/ \E p \in Caller : Remember(p) \/ InsertRow(p) \/ LogForget(p) \/ WriteRow(p) \/ Unchanging(p)
         \/ Crash \/ UNCHANGED vars
BY DEF Next, CallStep, Unchanging

\* A forget appends its event last, naming the row or none.
LEMMA LogForgetAppends ==
  ASSUME TypeInv, NEW p \in Caller, LogForget(p)
  PROVE  /\ Len(events') = Len(events) + 1 /\ \A i \in 1 .. Len(events) : events'[i] = events[i]
         /\ events'[Len(events) + 1].kind = "forget"
         /\ events'[Len(events) + 1].what = IF call[p].byId THEN call[p].row ELSE None
         /\ events' \in Seq([kind : {"remember"}, what : Content] \cup [kind : {"forget"}, what : Nat])
<1> DEFINE w == IF call[p].byId THEN call[p].row ELSE None
<1>1. w \in Nat
  BY Fields DEF None
<1>2. events' = Append(events, [kind |-> "forget", what |-> w])
  BY DEF LogForget
<1>3. [kind |-> "forget", what |-> w] \in [kind : {"forget"}, what : Nat]
  BY <1>1
<1> HIDE DEF w
<1>4. /\ Len(events') = Len(events) + 1 /\ \A i \in 1 .. Len(events) : events'[i] = events[i]
      /\ events'[Len(events) + 1] = [kind |-> "forget", what |-> w]
      /\ events' \in Seq([kind : {"remember"}, what : Content] \cup [kind : {"forget"}, what : Nat])
  BY <1>2, <1>3 DEF TypeInv
<1> QED
  BY <1>4 DEF w

\* An insert makes a new row of the event in hand.
LEMMA InsertRowMakes ==
  ASSUME TypeInv, NEW p \in Caller, InsertRow(p)
  PROVE  /\ Len(made') = Len(made) + 1 /\ \A r \in 1 .. Len(made) : made'[r] = made[r]
         /\ made'[Len(made) + 1] = call[p].event /\ made' \in Seq(Nat)
         /\ rows' = rows \cup {Len(made) + 1}
<1>1. call[p].event \in Nat
  BY Fields
<1> QED
  BY <1>1 DEF TypeInv, InsertRow

\* Every step extends events and rows.
LEMMA Extending ==
  ASSUME TypeInv, [Next]_vars
  PROVE  Extends
<1>0. Len(events) \in Nat /\ Len(made) \in Nat
  BY DEF TypeInv
<1>1. ASSUME NEW p \in Caller, Remember(p) PROVE Extends
  BY <1>0, <1>1, RememberBecomes DEF Extends, Remember, stores, TypeInv
<1>2. ASSUME NEW p \in Caller, InsertRow(p) PROVE Extends
  <2>1. UNCHANGED <<dedup, acl>> /\ events' = events /\ gone' = gone /\ revived' = revived
    BY <1>2 DEF InsertRow, logged, history
  <2>2. \A r \in 1 .. Len(made) : r \in rows' => r \in rows
    BY <1>0, <1>2, InsertRowMakes
  <2> QED
    BY <1>0, <1>2, <2>1, <2>2, InsertRowMakes DEF Extends
<1>3. ASSUME NEW p \in Caller, LogForget(p) PROVE Extends
  BY <1>0, <1>3, LogForgetAppends DEF Extends, LogForget, stores, history, TypeInv
<1>4. ASSUME NEW p \in Caller, Unchanging(p) PROVE Extends
  <2>1. UNCHANGED <<dedup, acl>> /\ events' = events /\ made' = made
    BY <1>4 DEF Unchanging, LockDedup, CheckNeighbours, InsertFails, InsertVector, Forget, ForgetVector,
                ReadMarker, DropRows, DropMetadata, DropVectors, OpenScan, Replay, EndScan,
                Snapshot, ReadLast, SetMarker, Truncate, Purge, ReadRow, logged, stores
  <2>2. rows' \subseteq rows
    BY <1>4 DEF Unchanging, LockDedup, CheckNeighbours, InsertFails, InsertVector, Forget, ForgetVector,
                ReadMarker, DropRows, DropMetadata, DropVectors, OpenScan, Replay, EndScan,
                Snapshot, ReadLast, SetMarker, Truncate, Purge, ReadRow, logged, stores, RowsAfterDrop
  <2>3. gone \subseteq gone'
    BY <1>4 DEF Unchanging, LockDedup, CheckNeighbours, InsertFails, InsertVector, Forget, ForgetVector,
                ReadMarker, DropRows, DropMetadata, DropVectors, OpenScan, Replay, EndScan,
                Snapshot, ReadLast, SetMarker, Truncate, Purge, ReadRow, history
  <2>4. revived' = revived \/ rows' = {}
    BY <1>4 DEF Unchanging, LockDedup, CheckNeighbours, InsertFails, InsertVector, Forget, ForgetVector,
                ReadMarker, DropRows, DropMetadata, DropVectors, OpenScan, Replay, EndScan,
                Snapshot, ReadLast, SetMarker, Truncate, Purge, ReadRow, history, RowsAfterDrop
  <2> QED
    BY <1>0, <2>1, <2>2, <2>3, <2>4 DEF Extends
<1>5. ASSUME NEW p \in Caller, WriteRow(p) PROVE Extends
  <2>1. UNCHANGED <<dedup, acl>> /\ events' = events /\ made' = made /\ gone' = gone
    BY <1>5 DEF WriteRow, logged
  <2>2. /\ revived \subseteq revived'
        /\ \A r \in rows' : r \in rows \/ made[r] \in revived'
    BY <1>5 DEF WriteRow
  <2> QED
    BY <1>0, <2>1, <2>2 DEF Extends
<1>6. ASSUME Crash \/ UNCHANGED vars PROVE Extends
  <2>1. UNCHANGED <<dedup, acl>> /\ events' = events /\ made' = made /\ rows' = rows /\ gone' = gone /\ revived' = revived
    BY <1>6 DEF Crash, vars, logged, stores, history
  <2> QED
    BY <1>0, <2>1 DEF Extends
<1> QED
  BY <1>1, <1>2, <1>3, <1>4, <1>5, <1>6, NextActions

\* Events and what they remember stay.
LEMMA BornStays ==
  ASSUME TypeInv, Extends
  PROVE  Born \subseteq Born' /\ \A e, f \in Born : Alike(e, f)' = Alike(e, f)
<1>1. Len(events) \in Nat
  BY DEF TypeInv
<1>2. ASSUME NEW e \in Born PROVE e \in Born' /\ events'[e] = events[e]
  BY <1>1, <1>2 DEF Extends, Born
<1> QED
  BY <1>2 DEF Alike, Extends

\* Alike is an equivalence.
LEMMA AlikeEquivalence ==
  /\ \A e : Alike(e, e)
  /\ \A e, f : Alike(e, f) <=> Alike(f, e)
  /\ \A e, f, g : Alike(e, f) /\ Alike(f, g) => Alike(e, g)
BY DEF Alike

\* Whose step it is.
LEMMA StepOwner ==
  ASSUME TypeInv, NEW p \in Caller, Stands(p)
  PROVE  /\ call[p].step \in {"check", "insert", "embed"} => (Remembers(p) \/ Rebuilds(p)) /\ call[p].event \in Born
         /\ call[p].step \in {"last", "mark"} => call[p].op = "snapshot" \/ Rebuilds(p)
         /\ call[p].step = "lock" => Remembers(p)
BY Fields DEF Stands, OpName, Dropping, Remembers, Rebuilds

\* Events being remembered are in the log.
LEMMA InFlightBorn ==
  ASSUME TypeInv, \A p \in Caller : Stands(p)
  PROVE  InFlight \subseteq Born
BY DEF InFlight, Stands

\* So are those being upserted.
LEMMA UnderWayBorn ==
  ASSUME TypeInv, \A p \in Caller : Stands(p)
  PROVE  UnderWay \subseteq Born
<1>1. ASSUME NEW p \in Caller, call[p].step = "lock" PROVE call[p].event \in Born
  BY <1>1, StepOwner DEF Stands, Remembers
<1> QED
  BY <1>1, StepOwner DEF UnderWay

\* Calls stay well typed.
LEMMA CallTyped ==
  ASSUME TypeInv, [Next]_vars
  PROVE  call' \in [Caller -> CallType]
<1>1. ASSUME NEW p \in Caller, Remember(p) \/ InsertRow(p) \/ LogForget(p) \/ WriteRow(p) \/ Unchanging(p)
      PROVE  call' \in [Caller -> CallType]
  BY <1>1, RememberBecomes, UpsertEffects, ForgetEffects, DropEffects, ReplayEffects, MarkEffects, TruncateEffects,
     RowEffects DEF Unchanging, Becomes, Others
<1>2. CASE Crash
  BY <1>2, IdleFields DEF Crash
<1>3. CASE UNCHANGED vars
  BY <1>3 DEF vars, TypeInv
<1> QED
  BY <1>1, <1>2, <1>3, NextActions

\* The other variables that the actions leave alone.
LEMMA StoresTyped ==
  ASSUME TypeInv, \A p \in Caller : Stands(p), [Next]_vars
  PROVE  /\ events' \in Seq([kind : {"remember"}, what : Content] \cup [kind : {"forget"}, what : Nat])
         /\ first' \in 0 .. Len(events') /\ made' \in Seq(Nat)
         /\ rows' \subseteq 1 .. Len(made') /\ vectors' \subseteq 1 .. Len(made')
         /\ \A r \in 1 .. Len(made') : made'[r] \in Born'
<1>0. /\ Extends /\ Born \subseteq Born'
      /\ Len(events) \in Nat /\ Len(made) \in Nat
      /\ \A r \in 1 .. Len(made) : made[r] \in Born
  BY Extending, BornStays DEF TypeInv
<1>1. ASSUME NEW p \in Caller, Remember(p)
      PROVE  /\ events' \in Seq([kind : {"remember"}, what : Content] \cup [kind : {"forget"}, what : Nat])
             /\ Len(events') = Len(events) + 1 /\ UNCHANGED <<first, stores>>
  <2>1. PICK x \in Content : events' = Append(events, [kind |-> "remember", what |-> x])
    BY <1>1 DEF Remember
  <2> QED
    BY <1>1, <2>1 DEF TypeInv, Remember
<1>2. ASSUME NEW p \in Caller, LogForget(p)
      PROVE  /\ events' \in Seq([kind : {"remember"}, what : Content] \cup [kind : {"forget"}, what : Nat])
             /\ Len(events') = Len(events) + 1 /\ UNCHANGED <<first, stores>>
  BY <1>2, LogForgetAppends DEF LogForget
<1>3. ASSUME NEW p \in Caller, InsertRow(p)
      PROVE  /\ events' = events /\ first' = first /\ vectors' = vectors /\ made' \in Seq(Nat) /\ Len(made') = Len(made) + 1
             /\ rows' = rows \cup {Len(made) + 1}
             /\ \A r \in 1 .. Len(made') : made'[r] \in Born
  <2>1. call[p].event \in Born
    BY <1>3, StepOwner DEF InsertRow
  <2>2. events' = events /\ first' = first /\ vectors' = vectors
    BY <1>3 DEF InsertRow, logged
  <2> QED
    BY <1>0, <1>3, <2>1, <2>2, InsertRowMakes
<1>4. ASSUME NEW p \in Caller, Unchanging(p)
      PROVE  /\ UNCHANGED <<events, made>> /\ rows' \subseteq rows /\ first' \in 0 .. Len(events)
             /\ vectors' \subseteq 1 .. Len(made)
  <2>1. UNCHANGED <<events, made>> /\ rows' \subseteq rows
    BY <1>4 DEF Unchanging, LockDedup, CheckNeighbours, InsertFails, InsertVector, Forget, ForgetVector,
                ReadMarker, DropRows, DropMetadata, DropVectors, OpenScan, Replay, EndScan,
                Snapshot, ReadLast, SetMarker, Truncate, Purge, ReadRow, logged, stores, RowsAfterDrop
  <2>2. first' \in 0 .. Len(events)
    <3>1. CASE Truncate(p)
      BY <1>0, <3>1, TruncateEffects DEF TypeInv
    <3>2. CASE ~Truncate(p)
      BY <1>4, <3>2 DEF Unchanging, LockDedup, CheckNeighbours, InsertFails, InsertVector, Forget, ForgetVector,
                ReadMarker, DropRows, DropMetadata, DropVectors, OpenScan, Replay, EndScan,
                Snapshot, ReadLast, SetMarker, Purge, ReadRow, logged, TypeInv
    <3> QED
      BY <3>1, <3>2
  <2>3. vectors' \subseteq 1 .. Len(made)
    <3>1. CASE InsertVector(p)
      <4>1. call[p].row \in 1 .. Len(made)
        BY <3>1 DEF InsertVector, Stands
      <4>2. vectors \subseteq 1 .. Len(made)
        BY DEF TypeInv
      <4> QED
        BY <3>1, <4>1, <4>2 DEF InsertVector
    <3>2. CASE ~InsertVector(p)
      BY <1>4, <3>2 DEF Unchanging, LockDedup, CheckNeighbours, InsertFails, Forget, ForgetVector,
                ReadMarker, DropRows, DropMetadata, DropVectors, OpenScan, Replay, EndScan,
                Snapshot, ReadLast, SetMarker, Truncate, Purge, ReadRow, stores, TypeInv, VectorsAfterDrop
    <3> QED
      BY <3>1, <3>2
  <2> QED
    BY <2>1, <2>2, <2>3
<1>5. ASSUME Crash \/ UNCHANGED vars PROVE UNCHANGED <<logged, stores>>
  BY <1>5 DEF Crash, vars
<1>12. ASSUME NEW p \in Caller, WriteRow(p)
       PROVE  /\ events' \in Seq([kind : {"remember"}, what : Content] \cup [kind : {"forget"}, what : Nat])
              /\ first' \in 0 .. Len(events') /\ made' \in Seq(Nat)
              /\ rows' \subseteq 1 .. Len(made') /\ vectors' \subseteq 1 .. Len(made')
              /\ \A r \in 1 .. Len(made') : made'[r] \in Born'
  <2>1. call[p].row \in 1 .. Len(made)
    BY <1>12 DEF WriteRow, At, Stands
  <2>2. events' = events /\ first' = first /\ made' = made /\ vectors' = vectors /\ rows' = rows \cup {call[p].row}
    BY <1>12 DEF WriteRow, logged
  <2> QED
    BY <1>0, <2>1, <2>2 DEF TypeInv
<1>6. ASSUME NEW p \in Caller, Remember(p) \/ LogForget(p)
      PROVE  /\ events' \in Seq([kind : {"remember"}, what : Content] \cup [kind : {"forget"}, what : Nat])
             /\ first' \in 0 .. Len(events') /\ UNCHANGED stores
  <2>1. first \in 0 .. Len(events)
    BY DEF TypeInv
  <2> QED
    BY <1>0, <1>1, <1>2, <1>6, <2>1
<1>7. ASSUME NEW p \in Caller, Remember(p) \/ LogForget(p)
      PROVE  /\ rows' \subseteq 1 .. Len(made') /\ vectors' \subseteq 1 .. Len(made') /\ made' \in Seq(Nat)
             /\ \A r \in 1 .. Len(made') : made'[r] \in Born'
  <2>1. made' = made /\ rows' = rows /\ vectors' = vectors
    BY <1>6, <1>7 DEF stores
  <2>2. made \in Seq(Nat) /\ rows \subseteq 1 .. Len(made) /\ vectors \subseteq 1 .. Len(made)
    BY DEF TypeInv
  <2>3. \A r \in 1 .. Len(made) : made[r] \in Born'
    BY <1>0
  <2> QED
    BY <2>1, <2>2, <2>3
<1>8. ASSUME NEW p \in Caller, InsertRow(p)
      PROVE  rows' \subseteq 1 .. Len(made') /\ vectors' \subseteq 1 .. Len(made')
  <2>1. vectors' = vectors /\ rows' = rows \cup {Len(made) + 1} /\ Len(made') = Len(made) + 1
    BY <1>0, <1>3, <1>8
  <2>2. rows \subseteq 1 .. Len(made) /\ vectors \subseteq 1 .. Len(made) /\ Len(made) \in Nat
    BY <1>0 DEF TypeInv
  <2>3. rows \cup {Len(made) + 1} \subseteq 1 .. Len(made) + 1 /\ vectors \subseteq 1 .. Len(made) + 1
    <3> DEFINE n == Len(made)
    <3> HIDE DEF n
    <3>1. \A i \in 1 .. n : i \in 1 .. n + 1
      BY <2>2 DEF n
    <3>2. n + 1 \in 1 .. n + 1
      BY <2>2 DEF n
    <3> QED
      BY <2>2, <3>1, <3>2 DEF n
  <2> QED
    BY <2>1, <2>3
<1>9. ASSUME NEW p \in Caller, InsertRow(p)
      PROVE  /\ events' \in Seq([kind : {"remember"}, what : Content] \cup [kind : {"forget"}, what : Nat])
             /\ first' \in 0 .. Len(events')
  BY <1>3, <1>9 DEF TypeInv
<1>10. ASSUME NEW p \in Caller, Unchanging(p)
       PROVE  /\ events' \in Seq([kind : {"remember"}, what : Content] \cup [kind : {"forget"}, what : Nat])
              /\ first' \in 0 .. Len(events') /\ made' \in Seq(Nat)
              /\ rows' \subseteq 1 .. Len(made') /\ vectors' \subseteq 1 .. Len(made')
              /\ \A r \in 1 .. Len(made') : made'[r] \in Born'
  <2>1. rows \subseteq 1 .. Len(made) /\ made \in Seq(Nat)
        /\ events \in Seq([kind : {"remember"}, what : Content] \cup [kind : {"forget"}, what : Nat])
    BY DEF TypeInv
  <2> QED
    BY <1>0, <1>4, <1>10, <2>1
<1>11. ASSUME Crash \/ UNCHANGED vars
       PROVE  /\ events' \in Seq([kind : {"remember"}, what : Content] \cup [kind : {"forget"}, what : Nat])
              /\ first' \in 0 .. Len(events') /\ made' \in Seq(Nat)
              /\ rows' \subseteq 1 .. Len(made') /\ vectors' \subseteq 1 .. Len(made')
              /\ \A r \in 1 .. Len(made') : made'[r] \in Born'
  BY <1>0, <1>5, <1>11 DEF logged, stores, TypeInv
<1> QED
  BY <1>0, <1>3, <1>6, <1>7, <1>8, <1>9, <1>10, <1>11, <1>12, NextActions

\* The history speaks of events that remember something.
LEMMA HistoryTyped ==
  ASSUME TypeInv, \A p \in Caller : Stands(p), [Next]_vars
  PROVE  /\ gone' \subseteq Born' /\ purged' \subseteq Born' /\ failed' \subseteq Born' /\ overlooked' \subseteq Born'
         /\ exposed' \subseteq Born' /\ unseen' \subseteq Born' /\ revived' \subseteq Born'
<1> DEFINE Goal == /\ gone' \subseteq Born' /\ purged' \subseteq Born' /\ failed' \subseteq Born'
                   /\ overlooked' \subseteq Born' /\ exposed' \subseteq Born'
                   /\ unseen' \subseteq Born' /\ revived' \subseteq Born'
<1>0. /\ Extends /\ Born \subseteq Born' /\ InFlight \subseteq Born
      /\ gone \subseteq Born /\ purged \subseteq Born /\ failed \subseteq Born /\ overlooked \subseteq Born
      /\ exposed \subseteq Born /\ unseen \subseteq Born /\ revived \subseteq Born
      /\ \A m : Passed(m) \subseteq Born
      /\ UnderWay \subseteq Born /\ \A r \in 1 .. Len(made) : made[r] \in Born
  BY Extending, BornStays, InFlightBorn, UnderWayBorn DEF TypeInv, Passed, Born
<1>1. ASSUME NEW p \in Caller, Remember(p) PROVE Goal
  <2>1. Len(events) + 1 \in Born'
    BY <1>1, RememberBecomes
  <2> QED
    BY <1>0, <1>1, <2>1 DEF Remember
<1>2. ASSUME NEW p \in Caller, Forget(p) \/ Purge(p) PROVE Goal
  <2>1. \A r \in rows : made[r] \in Born
    BY <1>0 DEF TypeInv
  <2> QED
    BY <1>0, <1>2, <2>1 DEF Forget, Purge
<1>3. ASSUME NEW p \in Caller, CheckNeighbours(p) \/ InsertFails(p) \/ InsertVector(p) PROVE Goal
  <2>1. call[p].event \in Born
    BY <1>3, StepOwner DEF CheckNeighbours, InsertFails, InsertVector
  <2> QED
    BY <1>0, <1>3, <2>1 DEF CheckNeighbours, InsertFails, InsertVector
<1>4. ASSUME NEW p \in Caller, ReadMarker(p) \/ DropRows(p) PROVE Goal
  BY <1>0, <1>4 DEF ReadMarker, DropRows
<1>5. ASSUME NEW p \in Caller, DropMetadata(p) \/ DropVectors(p) \/ SetMarker(p) PROVE Goal
  BY <1>0, <1>5 DEF DropMetadata, DropVectors, SetMarker
<1>6. ASSUME NEW p \in Caller, \/ LockDedup(p) \/ InsertRow(p) \/ ForgetVector(p) \/ LogForget(p) \/ OpenScan(p)
                               \/ EndScan(p) \/ Snapshot(p) \/ ReadLast(p) \/ Truncate(p) \/ ReadRow(p)
      PROVE  Goal
  BY <1>0, <1>6 DEF LockDedup, InsertRow, ForgetVector, LogForget, OpenScan, EndScan, Snapshot, ReadLast, Truncate,
                    ReadRow, history
<1>7. ASSUME Crash PROVE Goal
  <2>1. {call[p].event : p \in {q \in Caller : call[q].step = "embed"}} \subseteq Born
    BY StepOwner
  <2> QED
    BY <1>0, <1>7, <2>1 DEF Crash
<1>8. ASSUME UNCHANGED vars PROVE Goal
  BY <1>0, <1>8 DEF vars, history
<1>9. ASSUME NEW p \in Caller, Replay(p) PROVE Goal
  <2>1. call[p].next \in 1 .. Len(events)
    BY <1>9, Fields DEF Replay, AtEOF, TypeInv, Stands
  <2>2. events[call[p].next].kind = "remember" => call[p].next \in Born
    BY <2>1 DEF Born
  <2> QED
    BY <1>0, <1>9, <2>2 DEF Replay
<1>10. ASSUME NEW p \in Caller, WriteRow(p) PROVE Goal
  <2>1. made[call[p].row] \in Born
    BY <1>0, <1>10 DEF WriteRow, At, Stands
  <2> QED
    BY <1>0, <1>10, <2>1 DEF WriteRow
<1> QED
  BY <1>1, <1>2, <1>3, <1>4, <1>5, <1>6, <1>7, <1>8, <1>9, <1>10, NextActions DEF Unchanging

\* Whether rebuilds overlap is settled when one begins.
LEMMA CrossedMoves ==
  ASSUME [Next]_vars
  PROVE  crossed' = crossed \/ \E p \in Caller : ReadMarker(p) /\ crossed' = Rebuilding
<1>1. ASSUME NEW p \in Caller, ReadMarker(p) PROVE crossed' = Rebuilding
  BY <1>1 DEF ReadMarker
<1>2. ASSUME NEW p \in Caller, Remember(p) \/ InsertRow(p) \/ LogForget(p) \/ WriteRow(p) \/ Unchanging(p), ~ReadMarker(p)
      PROVE  crossed' = crossed
  BY <1>2 DEF Remember, InsertRow, LogForget, WriteRow, Unchanging, LockDedup, CheckNeighbours, InsertFails, InsertVector,
              Forget, ForgetVector, DropRows, DropMetadata, DropVectors, OpenScan, Replay, EndScan,
              Snapshot, ReadLast, SetMarker, Truncate, Purge, ReadRow, history
<1>3. ASSUME Crash \/ UNCHANGED vars PROVE crossed' = crossed
  BY <1>3 DEF Crash, vars, history
<1> QED
  BY <1>1, <1>2, <1>3, NextActions

\* Every step keeps the types.
LEMMA TypeStep ==
  ASSUME TypeInv, \A p \in Caller : Stands(p), [Next]_vars
  PROVE  TypeInv'
<1>1. dedup' \in BOOLEAN /\ acl' \in BOOLEAN
  BY Extending DEF Extends, TypeInv
<1>2. marker' \in 0 .. Len(events')
  <2>0. marker \in 0 .. Len(events) /\ Len(events) \in Nat /\ Len(events) <= Len(events') /\ Len(events') \in Nat
    BY Extending, StoresTyped DEF Extends, TypeInv
  <2>1. ASSUME NEW p \in Caller, SetMarker(p) PROVE marker' \in 0 .. Len(events)
    BY <2>1 DEF SetMarker, Stands
  <2>2. ASSUME NEW p \in Caller, DropMetadata(p) PROVE marker' = 0
    BY <2>2 DEF DropMetadata, MarkerAfterDrop, None
  <2>3. ASSUME NEW p \in Caller, ~SetMarker(p), ~DropMetadata(p), Remember(p) \/ InsertRow(p) \/ LogForget(p) \/ WriteRow(p) \/ Unchanging(p)
        PROVE  marker' = marker
    BY <2>3 DEF Remember, InsertRow, LogForget, WriteRow, Unchanging, LockDedup, CheckNeighbours, InsertFails, InsertVector,
                Forget, ForgetVector, ReadMarker, DropRows, DropVectors, OpenScan, Replay, EndScan,
                Snapshot, ReadLast, Truncate, Purge, ReadRow
  <2>4. ASSUME Crash \/ UNCHANGED vars PROVE marker' = marker
    BY <2>4 DEF Crash, vars
  <2>5. marker' = marker \/ marker' \in 0 .. Len(events)
    BY <2>0, <2>1, <2>2, <2>3, <2>4, NextActions
  <2> QED
    BY <2>0, <2>5
<1>3. lock' \in Caller \cup {NoCaller}
  <2>0. lock \in Caller \cup {NoCaller}
    BY DEF TypeInv
  <2>1. ASSUME NEW p \in Caller, LockDedup(p) \/ CheckNeighbours(p) \/ InsertFails(p) \/ InsertVector(p)
        PROVE  lock' \in Caller \cup {NoCaller}
    BY <2>0, <2>1 DEF LockDedup, CheckNeighbours, InsertFails, InsertVector, Upserted, Unlock
  <2>2. ASSUME NEW p \in Caller, Remember(p) \/ InsertRow(p) \/ LogForget(p) \/ WriteRow(p) \/ Unchanging(p),
               ~(LockDedup(p) \/ CheckNeighbours(p) \/ InsertFails(p) \/ InsertVector(p))
        PROVE  lock' = lock
    BY <2>2 DEF Remember, InsertRow, LogForget, WriteRow, Unchanging, Forget, ForgetVector, ReadMarker, DropRows, DropMetadata,
                DropVectors, OpenScan, Replay, EndScan, Snapshot, ReadLast, SetMarker, Truncate, Purge, ReadRow
  <2>3. ASSUME Crash \/ UNCHANGED vars PROVE lock' \in {lock, NoCaller}
    BY <2>3 DEF Crash, vars
  <2> QED
    BY <2>0, <2>1, <2>2, <2>3, NextActions
<1>4. crossed' \in BOOLEAN
  <2>1. crossed \in BOOLEAN /\ Rebuilding \in BOOLEAN
    BY DEF TypeInv, Rebuilding
  <2> QED
    BY <2>1, CrossedMoves
<1> QED
  BY <1>1, <1>2, <1>3, <1>4, CallTyped, StoresTyped, HistoryTyped DEF TypeInv

\* What the others hold stays so.
LEMMA StandsStays ==
  ASSUME TypeInv, Extends, NEW q \in Caller, Stands(q), call'[q] = call[q]
  PROVE  Stands(q)'
<1>1. Born \subseteq Born' /\ Len(events) \in Nat /\ Len(made) \in Nat
  BY BornStays DEF TypeInv
<1>2. Len(events) <= Len(events') /\ Len(made) <= Len(made') /\ dedup' = dedup
  BY DEF Extends
<1>3. \A i \in 1 .. Len(events) : i \in 1 .. Len(events')
  BY <1>1, <1>2 DEF Extends
<1>4. \A r \in 1 .. Len(made) : r \in 1 .. Len(made') /\ made'[r] = made[r]
  BY <1>1, <1>2 DEF Extends
<1>9. /\ gone \subseteq gone'
      /\ \A r \in 1 .. Len(made) : (r \in rows => made[r] \in revived) => (r \in rows' => made[r] \in revived')
  BY DEF Extends
<1>5. PICK c : c = call[q] /\ c = call'[q]
  OBVIOUS
<1>6. /\ c.op = "forget" => /\ c.step \in {"vector", "log"} /\ c.row \in 1 .. Len(made')
                           /\ made'[c.row] \in gone' /\ (c.row \in rows' => made'[c.row] \in revived')
      /\ c.op = "revise" => c.step = "write" /\ c.row \in 1 .. Len(made')
  <2>1. c.op = "forget" => /\ c.step \in {"vector", "log"} /\ c.row \in 1 .. Len(made)
                           /\ made[c.row] \in gone /\ (c.row \in rows => made[c.row] \in revived)
    BY <1>5 DEF Stands
  <2>2. c.op = "revise" => c.step = "write" /\ c.row \in 1 .. Len(made)
    BY <1>5 DEF Stands
  <2> QED
    BY <1>4, <1>9, <2>1, <2>2
<1>8. c.step = "embed" => c.row \in 1 .. Len(made') /\ made'[c.row] = c.event
  <2>1. c.step = "embed" => c.row \in 1 .. Len(made) /\ made[c.row] = c.event
    BY <1>5 DEF Stands
  <2> QED
    BY <1>4, <2>1
<1>7. /\ c.op = "remember" => c.step \in {"lock", "check", "insert", "embed"} /\ c.event \in Born'
      /\ c.op = "rebuild" /\ c.step \in {"check", "insert", "embed"} => c.event \in Born' /\ c.next = c.event + 1 /\ c.past
      /\ c.step = "mark" => c.event \in 1 .. Len(events')
  BY <1>1, <1>3, <1>5 DEF Stands
<1> QED
  BY <1>2, <1>5, <1>6, <1>7, <1>8 DEF Stands

\* Every step leaves each call with what it holds where it stands.
LEMMA StandsStep ==
  ASSUME TypeInv, \A p \in Caller : Stands(p), BoundInv, [Next]_vars
  PROVE  \A p \in Caller : Stands(p)'
<1>0. Extends /\ Born \subseteq Born'
  BY Extending, BornStays
<1>1. ASSUME NEW p \in Caller, Becomes(p, call'[p]), Stands(p)' PROVE \A q \in Caller : Stands(q)'
  BY <1>0, <1>1, StandsStays DEF Becomes, Others
<1>2. ASSUME NEW p \in Caller, call'[p] = Idle PROVE Stands(p)'
  BY <1>2, IdleFields DEF Stands, None
<1>3. ASSUME NEW p \in Caller, Remember(p) PROVE \A q \in Caller : Stands(q)'
  <2>1. Becomes(p, Starting(Len(events) + 1)) /\ Len(events) + 1 \in Born'
    BY <1>3, RememberBecomes
  <2>2. Stands(p)'
    BY <1>0, <2>1 DEF Stands, Becomes, Starting, Idle, Extends, None
  <2> QED
    BY <1>1, <2>1, <2>2 DEF Becomes
<1>4. ASSUME NEW p \in Caller, LockDedup(p) PROVE \A q \in Caller : Stands(q)'
  <2>1. Becomes(p, StepTo(p, "check")) /\ call[p].op = "remember" /\ call[p].step = "lock"
    BY <1>4, UpsertEffects DEF LockDedup, At
  <2>2. Stands(p)'
    BY <1>0, <2>1, Fields DEF Stands, Becomes, StepTo, CallType, Extends
  <2> QED
    BY <1>1, <2>1, <2>2 DEF Becomes
<1>5. ASSUME NEW p \in Caller, Becomes(p, Upsert(p)), call[p].step \in {"check", "embed"}
      PROVE  \A q \in Caller : Stands(q)'
  <2>1. CASE Remembers(p)
    BY <1>1, <1>2, <1>5, <2>1 DEF Becomes, Upsert
  <2>2. CASE ~Remembers(p)
    <3>1. Rebuilds(p) /\ Becomes(p, StepTo(p, "replay"))
      BY <1>5, <2>2, StepOwner DEF Upsert
    <3>2. Stands(p)'
      BY <1>0, <1>5, <3>1, Fields DEF Stands, Becomes, StepTo, CallType, Extends, Rebuilds, Dropping
    <3> QED
      BY <1>1, <3>1, <3>2 DEF Becomes
  <2> QED
    BY <2>1, <2>2
<1>6. ASSUME NEW p \in Caller, CheckNeighbours(p) PROVE \A q \in Caller : Stands(q)'
  <2>1. call[p].step = "check" /\ (Remembers(p) \/ Rebuilds(p)) /\ call[p].event \in Born
    BY <1>6, StepOwner DEF CheckNeighbours
  <2>2. CASE Becomes(p, Upsert(p))
    BY <1>5, <2>1, <2>2
  <2>3. CASE Becomes(p, StepTo(p, "insert"))
    <3>1. Stands(p)'
      BY <1>0, <2>1, <2>3, Fields DEF Stands, Becomes, StepTo, CallType, Extends, Rebuilds, Remembers, Dropping
    <3> QED
      BY <1>1, <2>3, <3>1 DEF Becomes
  <2> QED
    BY <1>6, <2>2, <2>3, UpsertEffects
<1>7. ASSUME NEW p \in Caller, InsertRow(p) PROVE \A q \in Caller : Stands(q)'
  <2>1. call[p].step = "insert" /\ (Remembers(p) \/ Rebuilds(p)) /\ call[p].event \in Born
    BY <1>7, StepOwner DEF InsertRow
  <2>2. CASE Rebuilds(p) /\ ~dedup
    <3>1. Becomes(p, StepTo(p, "replay"))
      BY <1>7, <2>2, UpsertEffects
    <3>2. Stands(p)'
      BY <1>0, <2>1, <2>2, <3>1, Fields DEF Stands, Becomes, StepTo, CallType, Extends, Rebuilds, Dropping
    <3> QED
      BY <1>1, <3>1, <3>2 DEF Becomes
  <2>3. CASE ~(Rebuilds(p) /\ ~dedup)
    <3>1. Becomes(p, [call[p] EXCEPT !.row = Len(made) + 1, !.step = "embed"])
      BY <1>7, <2>3, UpsertEffects
    <3>2. /\ call'[p].op = call[p].op /\ call'[p].step = "embed" /\ call'[p].event = call[p].event
          /\ call'[p].row = Len(made) + 1 /\ call'[p].since = call[p].since /\ call'[p].past = call[p].past
          /\ call'[p].from = call[p].from /\ call'[p].next = call[p].next /\ call'[p].end = call[p].end
      BY <3>1, Fields DEF Becomes, CallType
    <3>3. Len(made) + 1 \in 1 .. Len(made') /\ made'[Len(made) + 1] = call[p].event
      <4>1. Len(made) \in Nat /\ Len(made') = Len(made) + 1
        BY <1>7, InsertRowMakes DEF TypeInv
      <4> QED
        BY <1>7, <4>1, InsertRowMakes
    <3>4. Stands(p)'
      BY <1>0, <2>1, <2>3, <3>2, <3>3 DEF Stands, Extends, Rebuilds, Remembers, Dropping
    <3> QED
      BY <1>1, <3>1, <3>4 DEF Becomes
  <2> QED
    BY <2>2, <2>3
<1>8. ASSUME NEW p \in Caller, Becomes(p, Idle) PROVE \A q \in Caller : Stands(q)'
  BY <1>1, <1>2, <1>8 DEF Becomes
<1>9. ASSUME NEW p \in Caller, Forget(p) PROVE \A q \in Caller : Stands(q)'
  <2>1. PICK r \in rows, byId \in BOOLEAN :
           /\ Becomes(p, [Idle EXCEPT !.op = "forget", !.step = "vector", !.row = r, !.byId = byId])
           /\ rows' = rows \ {r} /\ gone' = gone \cup {made[r]}
    BY <1>9, ForgetEffects
  <2>2. made' = made /\ r \in 1 .. Len(made)
    BY <1>9 DEF Forget, TypeInv
  <2>3. Stands(p)'
    BY <2>1, <2>2 DEF Stands, Becomes, Idle, None
  <2> QED
    BY <1>1, <2>1, <2>3 DEF Becomes
<1>10. ASSUME NEW p \in Caller, ForgetVector(p) PROVE \A q \in Caller : Stands(q)'
  <2>1. Becomes(p, StepTo(p, "log")) /\ call[p].op = "forget"
    BY <1>10, ForgetEffects DEF ForgetVector, At
  <2>2. made' = made /\ rows' = rows /\ gone' = gone /\ revived' = revived
    BY <1>10 DEF ForgetVector, history
  <2>3. Stands(p)'
    BY <2>1, <2>2, Fields DEF Stands, Becomes, StepTo, CallType
  <2> QED
    BY <1>1, <2>1, <2>3 DEF Becomes
<1>11. ASSUME NEW p \in Caller, ReadMarker(p) PROVE \A q \in Caller : Stands(q)'
  <2>1. p \in Rebuilder
    BY <1>11 DEF ReadMarker
  <2>2. PICK since \in {None, marker} : Becomes(p, Beginning(since))
    BY <1>11, DropEffects
  <2>3. /\ call'[p].op = "rebuild" /\ call'[p].since = since /\ call'[p].next = 1 /\ call'[p].past = (since = None)
        /\ call'[p].end = None /\ call'[p].step = IF since = None THEN "rows" ELSE "open"
    BY <2>2 DEF Becomes, Beginning, Idle
  <2>4. Stands(p)'
    <3>1. CASE since = None
      <4>1. call'[p].past = TRUE /\ call'[p].step = "rows"
        BY <2>3, <3>1
      <4> QED
        BY <2>1, <2>3, <3>1, <4>1 DEF Stands, Dropping
    <3>2. CASE since # None
      <4>1. call'[p].past = FALSE /\ call'[p].step = "open"
        BY <2>3, <3>2
      <4> QED
        BY <2>1, <2>3, <3>2, <4>1 DEF Stands, Dropping
    <3> QED
      BY <3>1, <3>2
  <2> QED
    BY <1>1, <2>2, <2>4 DEF Becomes
<1>12. ASSUME NEW p \in Caller, NEW s \in {"metadata", "vectors", "open"}, Rebuilds(p), call[p].step \in Dropping,
              Becomes(p, StepTo(p, s))
       PROVE  \A q \in Caller : Stands(q)'
  <2>1. Stands(p)'
    BY <1>12, Fields DEF Stands, Becomes, StepTo, CallType, Rebuilds, Dropping
  <2> QED
    BY <1>1, <1>12, <2>1 DEF Becomes
<1>13. ASSUME NEW p \in Caller, DropRows(p) \/ DropMetadata(p) \/ DropVectors(p) PROVE \A q \in Caller : Stands(q)'
  BY <1>12, <1>13, DropEffects DEF DropRows, DropMetadata, DropVectors, At, Rebuilds, Dropping
<1>14. ASSUME NEW p \in Caller, OpenScan(p) PROVE \A q \in Caller : Stands(q)'
  <2>1. /\ Becomes(p, Scanning(p))
        /\ call[p].op = "rebuild" /\ call[p].step = "open"
    BY <1>14, ReplayEffects DEF OpenScan, At
  <2>2. first \in Nat
    BY DEF TypeInv
  <2>3. /\ call'[p].op = "rebuild" /\ call'[p].step = "replay" /\ call'[p].since = call[p].since
        /\ call'[p].past = call[p].past /\ call'[p].from = first /\ call'[p].next = first + 1
        /\ call'[p].end = call[p].end
    BY <2>1, Fields DEF Becomes, Scanning, CallType
  <2>4. /\ p \in Rebuilder /\ call[p].end = None /\ call[p].since \in Nat
        /\ call[p].since = None => call[p].past
        /\ call[p].since # None => ~call[p].past
    BY <2>1, Fields DEF Stands, Dropping
  <2>5. ~call[p].past => call[p].since \in 1 .. first \/ first + 1 <= call[p].since
    BY <2>2, <2>4 DEF None
  <2>6. Stands(p)'
    BY <2>2, <2>3, <2>4, <2>5 DEF Stands, Dropping
  <2> QED
    BY <1>1, <2>1, <2>6 DEF Becomes
<1>15. ASSUME NEW p \in Caller, Replay(p) PROVE \A q \in Caller : Stands(q)'
  <2>1. /\ call[p].op = "rebuild" /\ call[p].step = "replay"
        /\ call[p].next \in 1 .. Len(events)
    <3>1. Len(events) \in Nat /\ call[p].next \in Nat /\ call[p].next >= 1
      BY Fields DEF TypeInv, Stands
    <3> QED
      BY <1>15, <3>1 DEF Replay, At, AtEOF
  <2>2. ASSUME ~call[p].past, Becomes(p, Skipped(p)) PROVE Stands(p)'
    <3>1. /\ call'[p].op = "rebuild" /\ call'[p].step = "replay" /\ call'[p].since = call[p].since
          /\ call'[p].from = call[p].from /\ call'[p].next = call[p].next + 1 /\ call'[p].end = call[p].end
          /\ call'[p].past <=> call[p].next = call[p].since
      BY <2>1, <2>2, Fields DEF Becomes, Skipped, CallType
    <3>2. /\ p \in Rebuilder /\ call[p].since \in Nat /\ call[p].next \in Nat /\ call[p].next >= 1
          /\ call[p].since # None
          /\ call[p].end # None => call[p].since <= call[p].end
          /\ call[p].since \in 1 .. call[p].from \/ call[p].next <= call[p].since
      BY <2>1, <2>2, Fields DEF Stands, Dropping
    <3>3. call[p].next = call[p].since \/ call[p].since \in 1 .. call[p].from \/ call[p].next + 1 <= call[p].since
      BY <3>2
    <3>4. CASE call[p].next = call[p].since
      <4>1. call'[p].past /\ call'[p].next > call'[p].since
        BY <3>1, <3>2, <3>4
      <4> QED
        BY <3>1, <3>2, <4>1 DEF Stands, Dropping
    <3>5. CASE call[p].next # call[p].since
      <4>1. ~call'[p].past /\ call'[p].next >= 1
        BY <3>1, <3>2, <3>5
      <4> QED
        BY <3>1, <3>2, <3>3, <3>5, <4>1 DEF Stands, Dropping
    <3> QED
      BY <3>4, <3>5
  <2>3. ASSUME call[p].past, events[call[p].next].kind = "remember", Becomes(p, Upserting(p)) PROVE Stands(p)'
    <3>1. call[p].next \in Born'
      BY <1>0, <2>1, <2>3 DEF Born
    <3> QED
      BY <1>0, <2>1, <2>3, <3>1, Fields DEF Stands, Becomes, CallType, Upserting, Dropping, Extends
  <2>4. ASSUME call[p].past, Becomes(p, Deleting(p)) PROVE Stands(p)'
    BY <2>1, <2>4, Fields DEF Stands, Becomes, CallType, Deleting, Dropping
  <2>5. Becomes(p, call'[p])
    BY <1>15, ReplayEffects DEF Becomes
  <2> QED
    BY <1>1, <1>15, <2>2, <2>3, <2>4, <2>5, ReplayEffects
<1>16. ASSUME NEW p \in Caller, EndScan(p) PROVE \A q \in Caller : Stands(q)'
  <2>1. Becomes(p, StepTo(p, "last")) /\ call[p].op = "rebuild" /\ call[p].step = "replay"
    BY <1>16, ReplayEffects DEF EndScan, At
  <2>2. ~call[p].past => call[p].since \in 1 .. call[p].from
    <3>1. /\ call[p].next > Len(events) \/ (call[p].end # None /\ call[p].next > call[p].end)
          /\ call[p].since <= Len(events) /\ Len(events) \in Nat
      BY <1>16 DEF EndScan, AtEOF, BoundInv, TypeInv
    <3>2. call[p].end # None => call[p].since <= call[p].end
      BY <2>1 DEF Stands
    <3>3. ~call[p].past => call[p].since \in 1 .. call[p].from \/ call[p].next <= call[p].since
      BY <2>1 DEF Stands, Dropping
    <3> QED
      BY <3>1, <3>2, <3>3, Fields
  <2>3. Stands(p)'
    BY <2>1, <2>2, Fields DEF Stands, Becomes, StepTo, CallType, Dropping
  <2> QED
    BY <1>1, <2>1, <2>3 DEF Becomes
<1>17. ASSUME NEW p \in Caller, Snapshot(p) PROVE \A q \in Caller : Stands(q)'
  <2>1. Becomes(p, [Idle EXCEPT !.op = "snapshot", !.step = "last"])
    BY <1>17, MarkEffects
  <2>2. Stands(p)'
    BY <2>1 DEF Stands, Becomes, Idle, None
  <2> QED
    BY <1>1, <2>1, <2>2 DEF Becomes
<1>18. ASSUME NEW p \in Caller, ReadLast(p) PROVE \A q \in Caller : Stands(q)'
  <2>1. CASE Becomes(p, Idle)
    BY <1>8, <2>1
  <2>2. CASE Log # {} /\ Becomes(p, [call[p] EXCEPT !.event = Len(events), !.step = "mark"])
    <3>1. call[p].step = "last" /\ (call[p].op = "snapshot" \/ Rebuilds(p))
      BY <1>18, StepOwner DEF ReadLast
    <3>2. Len(events) \in 1 .. Len(events) /\ events' = events
      BY <1>18, <2>2 DEF Log, TypeInv, ReadLast, logged
    <3>3. Stands(p)'
      BY <2>2, <3>1, <3>2, Fields DEF Stands, Becomes, CallType, Dropping, Rebuilds
    <3> QED
      BY <1>1, <2>2, <3>3 DEF Becomes
  <2> QED
    BY <1>18, <2>1, <2>2, MarkEffects
<1>19. ASSUME NEW p \in Caller, Truncate(p) PROVE \A q \in Caller : Stands(q)'
  <2> SUFFICES ASSUME NEW q \in Caller, q # p, call'[q] = [call[q] EXCEPT !.end = Len(events)], Rebuilds(q),
                      call[q].step \notin Dropping \cup {"open"}
               PROVE  Stands(q)'
    BY <1>0, <1>2, <1>19, StandsStays, TruncateEffects
  <2>1. events' = events /\ made' = made /\ rows' = rows /\ dedup' = dedup
    BY <1>19 DEF Truncate, stores
  <2>2. /\ call'[q].op = call[q].op /\ call'[q].step = call[q].step /\ call'[q].event = call[q].event
        /\ call'[q].row = call[q].row /\ call'[q].since = call[q].since /\ call'[q].past = call[q].past
        /\ call'[q].from = call[q].from /\ call'[q].next = call[q].next /\ call'[q].end = Len(events)
    BY Fields DEF CallType
  <2>3. call[q].since <= Len(events)
    BY DEF BoundInv
  <2> QED
    BY <1>0, <2>1, <2>2, <2>3 DEF Stands, Rebuilds
<1>20. ASSUME Crash PROVE \A q \in Caller : Stands(q)'
  BY <1>2, <1>20 DEF Crash
<1>21. ASSUME UNCHANGED vars PROVE \A q \in Caller : Stands(q)'
  BY <1>0, <1>21, StandsStays DEF vars
<1>22. ASSUME NEW p \in Caller, InsertVector(p) PROVE \A q \in Caller : Stands(q)'
  BY <1>5, <1>22, UpsertEffects DEF InsertVector
<1>23. ASSUME NEW p \in Caller, InsertFails(p) \/ LogForget(p) \/ SetMarker(p) \/ WriteRow(p)
       PROVE  \A q \in Caller : Stands(q)'
  BY <1>8, <1>23, UpsertEffects, ForgetEffects, MarkEffects, RowEffects
<1>24. ASSUME NEW p \in Caller, Purge(p) PROVE \A q \in Caller : Stands(q)'
  <2>1. Becomes(p, Retaining)
    BY <1>24, RowEffects
  <2>2. Stands(p)'
    BY <2>1 DEF Stands, Becomes, Retaining, Idle, None
  <2> QED
    BY <1>1, <2>1, <2>2 DEF Becomes
<1>25. ASSUME NEW p \in Caller, ReadRow(p) PROVE \A q \in Caller : Stands(q)'
  <2>1. PICK r \in rows : Becomes(p, Revising(r))
    BY <1>25, RowEffects
  <2>2. r \in 1 .. Len(made') 
    BY <1>25 DEF ReadRow, stores, TypeInv
  <2>3. Stands(p)'
    BY <2>1, <2>2 DEF Stands, Becomes, Revising, Idle, None
  <2> QED
    BY <1>1, <2>1, <2>3 DEF Becomes
<1> QED
  BY <1>3, <1>4, <1>6, <1>7, <1>9, <1>10, <1>11, <1>13, <1>14, <1>15, <1>16, <1>17, <1>18, <1>19,
     <1>20, <1>21, <1>22, <1>23, <1>24, <1>25, NextActions DEF Unchanging

\* Only a truncation reaches into the calls of others.
LEMMA OthersStay ==
  ASSUME TypeInv, NEW p \in Caller, Remember(p) \/ InsertRow(p) \/ LogForget(p) \/ WriteRow(p) \/ Unchanging(p), ~Truncate(p)
  PROVE  Others(p)
<1>1. ASSUME Remember(p) PROVE Others(p)
  BY <1>1, RememberBecomes DEF Becomes
<1>2. ASSUME LockDedup(p) \/ CheckNeighbours(p) \/ InsertRow(p) \/ InsertFails(p) \/ InsertVector(p) PROVE Others(p)
  BY <1>2, UpsertEffects DEF Becomes
<1>3. ASSUME Forget(p) \/ ForgetVector(p) \/ LogForget(p) PROVE Others(p)
  BY <1>3, ForgetEffects DEF Becomes
<1>4. ASSUME ReadMarker(p) \/ DropRows(p) \/ DropMetadata(p) \/ DropVectors(p) PROVE Others(p)
  BY <1>4, DropEffects DEF Becomes
<1>5. ASSUME OpenScan(p) \/ Replay(p) \/ EndScan(p) PROVE Others(p)
  BY <1>5, ReplayEffects DEF Becomes
<1>6. ASSUME Snapshot(p) \/ ReadLast(p) \/ SetMarker(p) PROVE Others(p)
  BY <1>6, MarkEffects DEF Becomes
<1>7. ASSUME Purge(p) \/ ReadRow(p) \/ WriteRow(p) PROVE Others(p)
  BY <1>7, RowEffects DEF Becomes
<1> QED
  BY <1>1, <1>2, <1>3, <1>4, <1>5, <1>6, <1>7 DEF Unchanging

\* How a remember got where it is.
LEMMA RememberFlow ==
  ASSUME TypeInv, \A p \in Caller : Stands(p), [Next]_vars, NEW q \in Caller, Remembers(q)'
  PROVE  \/ Remember(q) /\ call'[q] = Starting(Len(events) + 1)
         \/ Remembers(q) /\ call'[q] = call[q]
         \/ Remembers(q) /\ LockDedup(q) /\ call'[q] = StepTo(q, "check")
         \/ Remembers(q) /\ CheckNeighbours(q) /\ call'[q] = StepTo(q, "insert")
         \/ Remembers(q) /\ InsertRow(q) /\ call'[q] = [call[q] EXCEPT !.row = Len(made) + 1, !.step = "embed"]
<1> DEFINE Goal == \/ Remember(q) /\ call'[q] = Starting(Len(events) + 1)
                   \/ Remembers(q) /\ call'[q] = call[q]
                   \/ Remembers(q) /\ LockDedup(q) /\ call'[q] = StepTo(q, "check")
                   \/ Remembers(q) /\ CheckNeighbours(q) /\ call'[q] = StepTo(q, "insert")
                   \/ Remembers(q) /\ InsertRow(q) /\ call'[q] = [call[q] EXCEPT !.row = Len(made) + 1, !.step = "embed"]
<1>0. call'[q].op = "remember" /\ call'[q].op # "idle"
  BY DEF Remembers
<1>1. ASSUME call'[q] = call[q] PROVE Goal
  BY <1>0, <1>1 DEF Remembers
<1>2. ASSUME NEW p \in Caller, p # q, Remember(p) \/ InsertRow(p) \/ LogForget(p) \/ WriteRow(p) \/ Unchanging(p), ~Truncate(p) PROVE Goal
  BY <1>1, <1>2, OthersStay DEF Others
<1>3. ASSUME NEW p \in Caller, Truncate(p) PROVE Goal
  <2>1. q # p
    BY <1>0, <1>3, TruncateEffects, IdleFields
  <2> QED
    BY <1>0, <1>1, <1>3, <2>1, TruncateEffects, Fields DEF CallType, Rebuilds
<1>4. ASSUME Remember(q) PROVE Goal
  BY <1>4, RememberBecomes DEF Becomes
<1>5. ASSUME LockDedup(q) PROVE Goal
  BY <1>5, UpsertEffects DEF LockDedup, At, Remembers, Becomes
<1>6. ASSUME Becomes(q, Idle) PROVE Goal
  BY <1>0, <1>6, IdleFields DEF Becomes
<1>7. ASSUME Becomes(q, Upsert(q)), Remembers(q) \/ Rebuilds(q) PROVE Goal
  BY <1>0, <1>6, <1>7, Fields DEF Upsert, Becomes, StepTo, CallType, Rebuilds
<1>8. ASSUME CheckNeighbours(q) PROVE Goal
  <2>1. Remembers(q) \/ Rebuilds(q)
    BY <1>8, StepOwner DEF CheckNeighbours
  <2>2. Becomes(q, StepTo(q, "insert")) => Remembers(q)
    BY <1>0, Fields DEF Becomes, StepTo, CallType, Remembers
  <2> QED
    BY <1>7, <1>8, <2>1, <2>2, UpsertEffects DEF Becomes
<1>9. ASSUME InsertRow(q) PROVE Goal
  <2>1. Remembers(q) \/ Rebuilds(q)
    BY <1>9, StepOwner DEF InsertRow
  <2>2. Becomes(q, StepTo(q, "replay")) => Remembers(q)
    BY <1>0, Fields DEF Becomes, StepTo, CallType, Remembers
  <2>3. Becomes(q, [call[q] EXCEPT !.row = Len(made) + 1, !.step = "embed"]) => Remembers(q)
    BY <1>0, Fields DEF Becomes, CallType, Remembers
  <2> QED
    BY <1>9, <2>1, <2>2, <2>3, UpsertEffects DEF Becomes, Remembers, Rebuilds
<1>10. ASSUME InsertVector(q) PROVE Goal
  BY <1>7, <1>10, UpsertEffects, StepOwner DEF InsertVector
<1>11. ASSUME InsertFails(q) \/ LogForget(q) \/ SetMarker(q) \/ WriteRow(q) PROVE Goal
  BY <1>6, <1>11, UpsertEffects, ForgetEffects, MarkEffects, RowEffects
<1>12. ASSUME Forget(q) \/ ReadMarker(q) \/ Snapshot(q) \/ Purge(q) \/ ReadRow(q) PROVE Goal
  <2>1. ASSUME Forget(q) PROVE call'[q].op = "forget"
    BY <2>1, ForgetEffects DEF Becomes, Idle
  <2>2. ASSUME ReadMarker(q) PROVE call'[q].op = "rebuild"
    BY <2>2, DropEffects DEF Becomes, Beginning, Idle
  <2>3. ASSUME Snapshot(q) PROVE call'[q].op = "snapshot"
    BY <2>3, MarkEffects DEF Becomes, Idle
  <2>4. ASSUME Purge(q) PROVE call'[q].op = "retain"
    BY <2>4, RowEffects DEF Becomes, Retaining, Idle
  <2>5. ASSUME ReadRow(q) PROVE call'[q].op = "revise"
    BY <2>5, RowEffects DEF Becomes, Revising, Idle
  <2> QED
    BY <1>0, <1>12, <2>1, <2>2, <2>3, <2>4, <2>5
<1>13. ASSUME ForgetVector(q) PROVE Goal
  BY <1>0, <1>13, ForgetEffects, Fields DEF Becomes, StepTo, CallType, ForgetVector, At
<1>14. ASSUME DropRows(q) \/ DropMetadata(q) \/ DropVectors(q) PROVE Goal
  BY <1>0, <1>14, DropEffects, Fields DEF Becomes, StepTo, CallType, DropRows, DropMetadata, DropVectors, At
<1>15. ASSUME OpenScan(q) \/ EndScan(q) PROVE Goal
  BY <1>0, <1>15, ReplayEffects, Fields DEF Becomes, Scanning, StepTo, CallType, OpenScan, EndScan, At
<1>16. ASSUME Replay(q) PROVE Goal
  <2>1. call[q].op = "rebuild"
    BY <1>16 DEF Replay, At
  <2>2. /\ Becomes(q, Skipped(q)) => call'[q].op = call[q].op
        /\ Becomes(q, Upserting(q)) => call'[q].op = call[q].op
        /\ Becomes(q, Deleting(q)) => call'[q].op = call[q].op
    BY Fields DEF Becomes, Skipped, Upserting, Deleting, CallType
  <2> QED
    BY <1>0, <1>16, <2>1, <2>2, ReplayEffects
<1>17. ASSUME ReadLast(q) PROVE Goal
  <2>1. call[q].op = "snapshot" \/ call[q].op = "rebuild"
    BY <1>17, StepOwner DEF ReadLast, Rebuilds
  <2> QED
    BY <1>0, <1>6, <1>17, <2>1, MarkEffects, Fields DEF Becomes, CallType
<1>18. ASSUME Crash PROVE Goal
  BY <1>0, <1>18, IdleFields DEF Crash
<1>19. ASSUME UNCHANGED vars PROVE Goal
  BY <1>1, <1>19 DEF vars
<1> QED
  BY <1>2, <1>3, <1>4, <1>5, <1>8, <1>9, <1>10, <1>11, <1>12, <1>13, <1>14, <1>15, <1>16, <1>17, <1>18, <1>19,
     NextActions DEF Unchanging

\* The records of a call that goes on.
Embedding(p)     == [call[p] EXCEPT !.row = Len(made) + 1, !.step = "embed"]
Truncated(p)     == [call[p] EXCEPT !.end = Len(events)]
Marking(p)       == [call[p] EXCEPT !.event = Len(events), !.step = "mark"]
Same(c, d)       == c.op = d.op /\ c.since = d.since /\ c.byId = d.byId
SamePast(c, d)   == Same(c, d) /\ c.past = d.past
SameScan(c, d)   == SamePast(c, d) /\ c.end = d.end

\* The fields of those records.
LEMMA MoveFields ==
  ASSUME TypeInv, NEW p \in Caller
  PROVE  /\ \A s : /\ SameScan(StepTo(p, s), call[p]) /\ StepTo(p, s).step = s /\ StepTo(p, s).next = call[p].next
                   /\ StepTo(p, s).event = call[p].event /\ StepTo(p, s).row = call[p].row
         /\ /\ SameScan(Embedding(p), call[p]) /\ Embedding(p).step = "embed" /\ Embedding(p).next = call[p].next
            /\ Embedding(p).event = call[p].event /\ Embedding(p).row = Len(made) + 1
         /\ /\ SameScan(Scanning(p), call[p]) /\ Scanning(p).step = "replay" /\ Scanning(p).next = first + 1
            /\ Scanning(p).event = call[p].event /\ Scanning(p).row = call[p].row
         /\ /\ SamePast(Truncated(p), call[p]) /\ Truncated(p).step = call[p].step /\ Truncated(p).next = call[p].next
            /\ Truncated(p).event = call[p].event /\ Truncated(p).row = call[p].row /\ Truncated(p).end = Len(events)
         /\ /\ SameScan(Marking(p), call[p]) /\ Marking(p).step = "mark" /\ Marking(p).next = call[p].next
            /\ Marking(p).event = Len(events) /\ Marking(p).row = call[p].row
         /\ /\ Same(Skipped(p), call[p]) /\ Skipped(p).step = call[p].step /\ Skipped(p).next = call[p].next + 1
            /\ Skipped(p).event = call[p].event /\ Skipped(p).row = call[p].row /\ Skipped(p).end = call[p].end
            /\ Skipped(p).past = (call[p].next = call[p].since)
         /\ /\ SameScan(Upserting(p), call[p]) /\ Upserting(p).step = IF dedup THEN "check" ELSE "insert"
            /\ Upserting(p).next = call[p].next + 1
            /\ Upserting(p).event = call[p].next /\ Upserting(p).row = call[p].row
         /\ /\ SameScan(Deleting(p), call[p]) /\ Deleting(p).step = call[p].step /\ Deleting(p).next = call[p].next + 1
            /\ Deleting(p).event = call[p].event /\ Deleting(p).row = call[p].row
<1>1. call[p] \in CallType
  BY Fields
<1> DEFINE c == call[p]  lr == Len(made) + 1  le == Len(events)  nx == first + 1
<1> HIDE DEF lr, le, nx
<1>2. \A s : /\ SameScan(StepTo(p, s), call[p]) /\ StepTo(p, s).step = s /\ StepTo(p, s).next = call[p].next
             /\ StepTo(p, s).event = call[p].event /\ StepTo(p, s).row = call[p].row
  BY <1>1 DEF StepTo, CallType, SameScan, SamePast, Same
<1>3. /\ SameScan(Embedding(p), call[p]) /\ Embedding(p).step = "embed" /\ Embedding(p).next = call[p].next
      /\ Embedding(p).event = call[p].event /\ Embedding(p).row = Len(made) + 1
  <2>1. Embedding(p) = [call[p] EXCEPT !.row = lr, !.step = "embed"]
    BY DEF Embedding, lr
  <2>2. LET d == [call[p] EXCEPT !.row = lr, !.step = "embed"] IN
        SameScan(d, call[p]) /\ d.step = "embed" /\ d.next = call[p].next /\ d.event = call[p].event /\ d.row = lr
    BY <1>1 DEF CallType, SameScan, SamePast, Same
  <2> QED
    BY <2>1, <2>2 DEF lr
<1>4. /\ SameScan(Scanning(p), call[p]) /\ Scanning(p).step = "replay" /\ Scanning(p).next = first + 1
      /\ Scanning(p).event = call[p].event /\ Scanning(p).row = call[p].row
  BY <1>1 DEF Scanning, CallType, SameScan, SamePast, Same
<1>5. /\ SamePast(Truncated(p), call[p]) /\ Truncated(p).step = call[p].step /\ Truncated(p).next = call[p].next
      /\ Truncated(p).event = call[p].event /\ Truncated(p).row = call[p].row /\ Truncated(p).end = Len(events)
  <2>1. Truncated(p) = [call[p] EXCEPT !.end = le]
    BY DEF Truncated, le
  <2>2. LET d == [call[p] EXCEPT !.end = le] IN
        /\ SamePast(d, call[p]) /\ d.step = call[p].step /\ d.next = call[p].next /\ d.event = call[p].event
        /\ d.row = call[p].row /\ d.end = le
    BY <1>1 DEF CallType, SamePast, Same
  <2> QED
    BY <2>1, <2>2 DEF le
<1>6. /\ SameScan(Marking(p), call[p]) /\ Marking(p).step = "mark" /\ Marking(p).next = call[p].next
      /\ Marking(p).event = Len(events) /\ Marking(p).row = call[p].row
  <2>1. Marking(p) = [call[p] EXCEPT !.event = le, !.step = "mark"]
    BY DEF Marking, le
  <2>2. LET d == [call[p] EXCEPT !.event = le, !.step = "mark"] IN
        SameScan(d, call[p]) /\ d.step = "mark" /\ d.next = call[p].next /\ d.event = le /\ d.row = call[p].row
    BY <1>1 DEF CallType, SameScan, SamePast, Same
  <2> QED
    BY <2>1, <2>2 DEF le
<1>7. /\ Same(Skipped(p), call[p]) /\ Skipped(p).step = call[p].step /\ Skipped(p).next = call[p].next + 1
      /\ Skipped(p).event = call[p].event /\ Skipped(p).row = call[p].row /\ Skipped(p).end = call[p].end
      /\ Skipped(p).past = (call[p].next = call[p].since)
  BY <1>1 DEF Skipped, CallType, Same
<1>8. /\ SameScan(Upserting(p), call[p]) /\ Upserting(p).step = IF dedup THEN "check" ELSE "insert"
      /\ Upserting(p).next = call[p].next + 1
      /\ Upserting(p).event = call[p].next /\ Upserting(p).row = call[p].row
  BY <1>1 DEF Upserting, CallType, SameScan, SamePast, Same
<1>9. /\ SameScan(Deleting(p), call[p]) /\ Deleting(p).step = call[p].step /\ Deleting(p).next = call[p].next + 1
      /\ Deleting(p).event = call[p].event /\ Deleting(p).row = call[p].row
  BY <1>1 DEF Deleting, CallType, SameScan, SamePast, Same
<1> QED
  BY <1>2, <1>3, <1>4, <1>5, <1>6, <1>7, <1>8, <1>9

\* What records that agree agree on.
LEMMA SameFields ==
  ASSUME NEW c, NEW d
  PROVE  /\ SameScan(c, d) => SamePast(c, d) /\ c.end = d.end
         /\ SamePast(c, d) => Same(c, d) /\ (c.past <=> d.past)
         /\ Same(c, d) => c.op = d.op /\ c.since = d.since
BY DEF SameScan, SamePast, Same

\* How a rebuild got where it is.
RebuildMoves(q) ==
    \/ call'[q] = call[q]
    \/ /\ \E p \in Caller : Truncate(p)
       /\ call[q].step \notin Dropping \cup {"open"} /\ call[q].end = None
       /\ call'[q] = Truncated(q)
    \/ CheckNeighbours(q) /\ (call'[q] = StepTo(q, "replay") \/ call'[q] = StepTo(q, "insert"))
    \/ InsertRow(q) /\ IF dedup THEN call'[q] = Embedding(q) ELSE call'[q] = StepTo(q, "replay")
    \/ InsertVector(q) /\ call'[q] = StepTo(q, "replay")
    \/ DropRows(q) /\ call'[q] = StepTo(q, "metadata")
    \/ DropMetadata(q) /\ call'[q] = StepTo(q, "vectors")
    \/ DropVectors(q) /\ call'[q] = StepTo(q, "open")
    \/ OpenScan(q) /\ call'[q] = Scanning(q)
    \/ Replay(q) /\ \/ ~call[q].past /\ call'[q] = Skipped(q)
                    \/ call[q].past /\ events[call[q].next].kind = "remember" /\ call'[q] = Upserting(q)
                    \/ call[q].past /\ events[call[q].next].kind = "forget" /\ call'[q] = Deleting(q)
    \/ EndScan(q) /\ call'[q] = StepTo(q, "last")
    \/ ReadLast(q) /\ call'[q] = Marking(q)

\* A rebuild has just begun, or gone on from where it was.
LEMMA RebuildFlow ==
  ASSUME TypeInv, \A p \in Caller : Stands(p), [Next]_vars, NEW q \in Caller, Rebuilds(q)'
  PROVE  \/ ReadMarker(q) /\ (call'[q] = Beginning(None) \/ (marker # None /\ call'[q] = Beginning(marker)))
         \/ Rebuilds(q) /\ RebuildMoves(q)
<1> DEFINE Goal == \/ ReadMarker(q) /\ (call'[q] = Beginning(None) \/ (marker # None /\ call'[q] = Beginning(marker)))
                   \/ Rebuilds(q) /\ RebuildMoves(q)
<1>0. call'[q].op = "rebuild" /\ call'[q].op # "idle"
  BY DEF Rebuilds
<1>1. ASSUME call'[q] = call[q] PROVE Goal
  BY <1>0, <1>1 DEF Rebuilds, RebuildMoves
<1>2. ASSUME NEW p \in Caller, p # q, Remember(p) \/ InsertRow(p) \/ LogForget(p) \/ WriteRow(p) \/ Unchanging(p), ~Truncate(p) PROVE Goal
  BY <1>1, <1>2, OthersStay DEF Others
<1>3. ASSUME NEW p \in Caller, Truncate(p) PROVE Goal
  <2>1. q # p
    BY <1>0, <1>3, TruncateEffects, IdleFields
  <2> QED
    BY <1>0, <1>1, <1>3, <2>1, TruncateEffects DEF RebuildMoves, Truncated
<1>4. ASSUME Becomes(q, Idle) PROVE Goal
  BY <1>0, <1>4, IdleFields DEF Becomes
<1>5. ASSUME NEW s \in StepName, Becomes(q, StepTo(q, s)) PROVE Rebuilds(q)
  BY <1>0, <1>5, Fields DEF Becomes, StepTo, CallType, Rebuilds
<1>6. {"check", "insert", "embed", "replay", "metadata", "vectors", "open", "last", "log"} \subseteq StepName
  BY DEF StepName
<1>7. ASSUME Becomes(q, Upsert(q)) PROVE Rebuilds(q) /\ call'[q] = StepTo(q, "replay")
  BY <1>0, <1>5, <1>6, <1>7, IdleFields DEF Upsert, Becomes
<1>8. ASSUME Remember(q) PROVE Goal
  BY <1>0, <1>8, RememberBecomes DEF Becomes, Starting, Idle
<1>9. ASSUME LockDedup(q) PROVE Goal
  BY <1>5, <1>6, <1>9, UpsertEffects DEF LockDedup, At, Rebuilds
<1>10. ASSUME CheckNeighbours(q) PROVE Goal
  BY <1>5, <1>6, <1>7, <1>10, UpsertEffects DEF Becomes, RebuildMoves
<1>11. ASSUME InsertRow(q) PROVE Goal
  <2>1. dedup \in BOOLEAN
    BY DEF TypeInv
  <2>2. Becomes(q, Embedding(q)) => Rebuilds(q)
    BY <1>0, MoveFields DEF Becomes, Rebuilds, SameScan, SamePast, Same
  <2>3. CASE Rebuilds(q) /\ ~dedup
    BY <1>11, <2>1, <2>3, UpsertEffects DEF Becomes, RebuildMoves
  <2>4. CASE ~(Rebuilds(q) /\ ~dedup)
    BY <1>11, <2>1, <2>2, <2>4, UpsertEffects DEF Becomes, RebuildMoves, Embedding
  <2> QED
    BY <2>3, <2>4
<1>12. ASSUME InsertVector(q) PROVE Goal
  BY <1>7, <1>12, UpsertEffects DEF RebuildMoves
<1>13. ASSUME InsertFails(q) \/ LogForget(q) \/ SetMarker(q) \/ WriteRow(q) PROVE Goal
  BY <1>4, <1>13, UpsertEffects, ForgetEffects, MarkEffects, RowEffects
<1>14. ASSUME Forget(q) \/ Snapshot(q) \/ Purge(q) \/ ReadRow(q) PROVE Goal
  <2>1. ASSUME Forget(q) PROVE call'[q].op = "forget"
    BY <2>1, ForgetEffects DEF Becomes, Idle
  <2>2. ASSUME Snapshot(q) PROVE call'[q].op = "snapshot"
    BY <2>2, MarkEffects DEF Becomes, Idle
  <2>3. ASSUME Purge(q) PROVE call'[q].op = "retain"
    BY <2>3, RowEffects DEF Becomes, Retaining, Idle
  <2>4. ASSUME ReadRow(q) PROVE call'[q].op = "revise"
    BY <2>4, RowEffects DEF Becomes, Revising, Idle
  <2> QED
    BY <1>0, <1>14, <2>1, <2>2, <2>3, <2>4
<1>15. ASSUME ForgetVector(q) PROVE Goal
  BY <1>5, <1>6, <1>15, ForgetEffects DEF ForgetVector, At, Rebuilds
<1>16. ASSUME ReadMarker(q) PROVE Goal
  BY <1>16, DropEffects DEF Becomes
<1>17. ASSUME DropRows(q) \/ DropMetadata(q) \/ DropVectors(q) PROVE Goal
  BY <1>5, <1>6, <1>17, DropEffects DEF Becomes, RebuildMoves
<1>18. ASSUME OpenScan(q) \/ EndScan(q) PROVE Goal
  BY <1>18, ReplayEffects DEF Becomes, RebuildMoves, OpenScan, EndScan, At, Rebuilds
<1>19. ASSUME Replay(q) PROVE Goal
  BY <1>19, ReplayEffects DEF Becomes, RebuildMoves, Replay, At, Rebuilds
<1>20. ASSUME ReadLast(q) PROVE Goal
  <2>1. Becomes(q, Marking(q)) => Rebuilds(q)
    BY <1>0, MoveFields DEF Becomes, Rebuilds, SameScan, SamePast, Same
  <2> QED
    BY <1>4, <1>20, <2>1, MarkEffects DEF Becomes, RebuildMoves, Marking
<1>21. ASSUME Crash PROVE Goal
  BY <1>0, <1>21, IdleFields DEF Crash
<1>22. ASSUME UNCHANGED vars PROVE Goal
  BY <1>1, <1>22 DEF vars
<1> QED
  BY <1>2, <1>3, <1>8, <1>9, <1>10, <1>11, <1>12, <1>13, <1>14, <1>15, <1>16, <1>17, <1>18, <1>19, <1>20, <1>21, <1>22,
     NextActions DEF Unchanging

\* The dedup lock is free before it is taken, and its holder idle after it is given back.
LEMMA LockMoves ==
  ASSUME TypeInv, [Next]_vars
  PROVE  \/ lock' = lock
         \/ \E p \in Caller : LockDedup(p)
         \/ lock \in Caller /\ call'[lock].op = "idle"
         \/ Crash
<1>1. ASSUME NEW p \in Caller, Return(p), Unlock(p) PROVE lock' = lock \/ (lock \in Caller /\ call'[lock].op = "idle")
  BY <1>1, ReturnBecomes, IdleFields DEF Unlock, Becomes
<1>2. ASSUME NEW p \in Caller, Upserted(p) PROVE lock' = lock \/ (lock \in Caller /\ call'[lock].op = "idle")
  BY <1>1, <1>2 DEF Upserted
<1>3. ASSUME NEW p \in Caller, CheckNeighbours(p) \/ InsertFails(p) \/ InsertVector(p)
      PROVE  lock' = lock \/ (lock \in Caller /\ call'[lock].op = "idle")
  BY <1>1, <1>2, <1>3 DEF CheckNeighbours, InsertFails, InsertVector
<1>4. ASSUME NEW p \in Caller, Remember(p) \/ InsertRow(p) \/ LogForget(p) \/ WriteRow(p) \/ Unchanging(p),
             ~(LockDedup(p) \/ CheckNeighbours(p) \/ InsertFails(p) \/ InsertVector(p))
      PROVE  lock' = lock
  BY <1>4 DEF Remember, InsertRow, LogForget, WriteRow, Unchanging, Forget, ForgetVector, ReadMarker, DropRows, DropMetadata,
              DropVectors, OpenScan, Replay, EndScan, Snapshot, ReadLast, SetMarker, Truncate, Purge, ReadRow
<1>5. UNCHANGED vars => lock' = lock
  BY DEF vars
<1> QED
  BY <1>3, <1>4, <1>5, NextActions

\* The dedup lock has one holder, who is the one past the lock step.
LEMMA LockStep ==
  ASSUME TypeInv, \A p \in Caller : Stands(p), LockInv, [Next]_vars
  PROVE  LockInv'
<1> SUFFICES ASSUME NEW q \in Caller, dedup', Remembers(q)', call'[q].step # "lock" PROVE lock' = q
  BY DEF LockInv
<1>0. dedup /\ call'[q].op # "idle" /\ q # NoCaller
  BY Extending, CallerAssumption DEF Extends, Remembers
<1>1. LockDedup(q) \/ lock = q
  <2>1. CASE Remember(q) /\ call'[q] = Starting(Len(events) + 1)
    BY <1>0, <2>1 DEF Starting, Idle
  <2>2. CASE Remembers(q) /\ call'[q] = call[q]
    BY <1>0, <2>2 DEF LockInv
  <2>3. CASE Remembers(q) /\ (CheckNeighbours(q) \/ InsertRow(q))
    BY <1>0, <2>3 DEF LockInv, CheckNeighbours, InsertRow
  <2> QED
    BY <2>1, <2>2, <2>3, RememberFlow
<1>2. ASSUME LockDedup(q) PROVE lock' = q
  BY <1>2 DEF LockDedup
<1>3. ASSUME lock = q, NEW p \in Caller, LockDedup(p) PROVE FALSE
  BY <1>0, <1>3 DEF LockDedup
<1>4. ASSUME Crash PROVE FALSE
  BY <1>0, <1>4, IdleFields DEF Crash
<1> QED
  BY <1>0, <1>1, <1>2, <1>3, <1>4, LockMoves

\* What a forget that is replayed names stays deleted in the history.
LEMMA ForgetStep ==
  ASSUME TypeInv, \A p \in Caller : Stands(p), ForgetInv, [Next]_vars
  PROVE  ForgetInv'
<1>0. /\ Len(events) \in Nat /\ Len(made) \in Nat /\ Len(made') \in Nat /\ Extends
  BY Extending, StoresTyped DEF TypeInv
<1>1. \A w \in 0 .. Len(made) : w # None => w \in 1 .. Len(made) /\ made'[w] = made[w] /\ w \in 0 .. Len(made')
  BY <1>0 DEF Extends, None
<1>2. \A i \in 1 .. Len(events) : events'[i].kind = "forget" =>
         /\ events'[i].what \in 0 .. Len(made')
         /\ events'[i].what # None => made'[events'[i].what] \in gone'
  <2> SUFFICES ASSUME NEW i \in 1 .. Len(events), events'[i].kind = "forget"
               PROVE  /\ events'[i].what \in 0 .. Len(made')
                      /\ events'[i].what # None => made'[events'[i].what] \in gone'
    OBVIOUS
  <2>1. events'[i] = events[i] /\ gone \subseteq gone'
    BY <1>0 DEF Extends
  <2>2. events[i].what \in 0 .. Len(made) /\ (events[i].what # None => made[events[i].what] \in gone)
    BY <2>1 DEF ForgetInv
  <2> QED
    BY <1>0, <1>1, <2>1, <2>2 DEF None
<1>3. ASSUME NEW p \in Caller, LogForget(p) PROVE ForgetInv'
  <2>1. /\ Len(events') = Len(events) + 1
        /\ events'[Len(events) + 1].what = IF call[p].byId THEN call[p].row ELSE None
    BY <1>3, LogForgetAppends
  <2>2. call[p].row \in 1 .. Len(made) /\ made[call[p].row] \in gone /\ gone' = gone
    BY <1>3 DEF LogForget, At, Stands, history
  <2>3. /\ events'[Len(events) + 1].what \in 0 .. Len(made')
        /\ events'[Len(events) + 1].what # None => made'[events'[Len(events) + 1].what] \in gone'
    BY <1>0, <1>1, <2>1, <2>2 DEF None
  <2> QED
    BY <1>0, <1>2, <2>1, <2>3 DEF ForgetInv
<1>4. ASSUME NEW p \in Caller, Remember(p) PROVE ForgetInv'
  BY <1>0, <1>2, <1>4, RememberBecomes DEF ForgetInv
<1>5. ASSUME events' = events PROVE ForgetInv'
  BY <1>0, <1>2, <1>5 DEF ForgetInv
<1>6. ASSUME NEW p \in Caller, InsertRow(p) \/ WriteRow(p) \/ Unchanging(p) PROVE events' = events
  BY <1>6 DEF InsertRow, WriteRow, Unchanging, LockDedup, CheckNeighbours, InsertFails, InsertVector, Forget, ForgetVector,
              ReadMarker, DropRows, DropMetadata, DropVectors, OpenScan, Replay, EndScan,
              Snapshot, ReadLast, SetMarker, Truncate, Purge, ReadRow, logged
<1>7. ASSUME Crash \/ UNCHANGED vars PROVE events' = events
  BY <1>7 DEF Crash, vars, logged
<1> QED
  BY <1>3, <1>4, <1>5, <1>6, <1>7, NextActions

\* No scan, and no marker a rebuild starts from, runs ahead of the log.
LEMMA BoundStep ==
  ASSUME TypeInv, BoundInv, [Next]_vars
  PROVE  BoundInv'
<1>0. /\ Len(events) \in Nat /\ Len(events') \in Nat /\ Len(events) <= Len(events') /\ first <= Len(events) /\ first \in Nat
      /\ marker \in Nat /\ marker <= Len(events)
  <2>1. Len(events) <= Len(events')
    BY Extending DEF Extends
  <2>2. Len(events') = Len(events) \/ Len(events') = Len(events) + 1
    <3>1. ASSUME NEW p \in Caller, Remember(p) \/ LogForget(p) PROVE Len(events') = Len(events) + 1
      BY <3>1, RememberBecomes, LogForgetAppends
    <3>2. ASSUME NEW p \in Caller, InsertRow(p) \/ WriteRow(p) \/ Unchanging(p) PROVE events' = events
      BY <3>2 DEF InsertRow, WriteRow, Unchanging, LockDedup, CheckNeighbours, InsertFails, InsertVector, Forget, ForgetVector,
              ReadMarker, DropRows, DropMetadata, DropVectors, OpenScan, Replay, EndScan,
              Snapshot, ReadLast, SetMarker, Truncate, Purge, ReadRow, logged
    <3>3. ASSUME Crash \/ UNCHANGED vars PROVE events' = events
      BY <3>3 DEF Crash, vars, logged
    <3> QED
      BY <3>1, <3>2, <3>3, NextActions
  <2>3. Len(events) \in Nat
    BY DEF TypeInv
  <2> QED
    BY <2>1, <2>2, <2>3 DEF TypeInv
<1> SUFFICES ASSUME NEW q \in Caller PROVE call'[q].next <= Len(events') + 1 /\ call'[q].since <= Len(events')
  BY DEF BoundInv
<1> DEFINE Goal == call'[q].next <= Len(events') + 1 /\ call'[q].since <= Len(events')
<1>1. ASSUME call'[q].next = call[q].next \/ call'[q].next = 1 \/ call'[q].next = first + 1
                \/ (call'[q].next = call[q].next + 1 /\ call[q].next <= Len(events)),
             call'[q].since = call[q].since \/ call'[q].since = 0 \/ call'[q].since = marker
      PROVE  Goal
  BY <1>0, <1>1, Fields DEF BoundInv
<1>2. ASSUME call'[q] = call[q] PROVE Goal
  BY <1>1, <1>2
<1>3. ASSUME call'[q] = Idle PROVE Goal
  BY <1>1, <1>3, IdleFields DEF None
<1>4. ASSUME NEW s, call'[q] = StepTo(q, s) PROVE Goal
  BY <1>1, <1>4, Fields DEF StepTo, CallType
<1>5. ASSUME Remember(q) PROVE Goal
  BY <1>1, <1>5, RememberBecomes DEF Becomes, Starting, Idle, None
<1>6. ASSUME LockDedup(q) \/ CheckNeighbours(q) \/ InsertFails(q) \/ InsertVector(q) PROVE Goal
  BY <1>3, <1>4, <1>6, UpsertEffects DEF Becomes, Upsert
<1>7. ASSUME InsertRow(q) PROVE Goal
  <2>1. ASSUME Becomes(q, [call[q] EXCEPT !.row = Len(made) + 1, !.step = "embed"]) PROVE Goal
    BY <1>1, <2>1, Fields DEF Becomes, CallType
  <2>2. Becomes(q, StepTo(q, "replay")) => Goal
    BY <1>4 DEF Becomes
  <2> QED
    BY <1>7, <2>1, <2>2, UpsertEffects
<1>8. ASSUME Forget(q) PROVE Goal
  BY <1>1, <1>8, ForgetEffects DEF Becomes, Idle, None
<1>9. ASSUME ForgetVector(q) \/ LogForget(q) PROVE Goal
  BY <1>3, <1>4, <1>9, ForgetEffects DEF Becomes
<1>10. ASSUME ReadMarker(q) PROVE Goal
  BY <1>1, <1>10, DropEffects DEF Becomes, Beginning, Idle, None
<1>11. ASSUME DropRows(q) \/ DropMetadata(q) \/ DropVectors(q) PROVE Goal
  BY <1>4, <1>11, DropEffects DEF Becomes
<1>12. ASSUME OpenScan(q) PROVE Goal
  BY <1>1, <1>12, ReplayEffects, Fields DEF Becomes, Scanning, CallType
<1>13. ASSUME Replay(q) PROVE Goal
  <2>1. call[q].next <= Len(events)
    BY <1>0, <1>13, Fields DEF Replay, AtEOF
  <2>2. ASSUME call'[q] = Skipped(q) \/ call'[q] = Upserting(q) \/ call'[q] = Deleting(q) PROVE Goal
    <3>1. call'[q].next = call[q].next + 1 /\ call'[q].since = call[q].since
      BY <2>2, Fields DEF Skipped, Upserting, Deleting, CallType
    <3> QED
      BY <1>1, <2>1, <3>1
  <2> QED
    BY <1>13, <2>2, ReplayEffects DEF Becomes
<1>14. ASSUME EndScan(q) PROVE Goal
  BY <1>4, <1>14, ReplayEffects DEF Becomes
<1>15. ASSUME Snapshot(q) PROVE Goal
  BY <1>1, <1>15, MarkEffects DEF Becomes, Idle, None
<1>16. ASSUME ReadLast(q) \/ SetMarker(q) PROVE Goal
  <2>1. ASSUME Becomes(q, [call[q] EXCEPT !.event = Len(events), !.step = "mark"]) PROVE Goal
    BY <1>1, <2>1, Fields DEF Becomes, CallType
  <2> QED
    BY <1>3, <1>16, <2>1, MarkEffects DEF Becomes
<1>17. ASSUME NEW p \in Caller, Truncate(p) PROVE Goal
  <2>1. ASSUME call'[q] = [call[q] EXCEPT !.end = Len(events)] PROVE Goal
    BY <1>1, <2>1, Fields DEF CallType
  <2> QED
    BY <1>2, <1>3, <1>17, <2>1, TruncateEffects
<1>18. ASSUME NEW p \in Caller, p # q, Remember(p) \/ InsertRow(p) \/ LogForget(p) \/ WriteRow(p) \/ Unchanging(p), ~Truncate(p) PROVE Goal
  BY <1>2, <1>18, OthersStay DEF Others
<1>19. ASSUME Crash PROVE Goal
  BY <1>3, <1>19 DEF Crash
<1>20. ASSUME UNCHANGED vars PROVE Goal
  BY <1>2, <1>20 DEF vars
<1>21. ASSUME Purge(q) \/ ReadRow(q) PROVE Goal
  <2>1. Purge(q) => call'[q].next = 1 /\ call'[q].since = 0
    BY RowEffects DEF Becomes, Retaining, Idle, None
  <2>2. ReadRow(q) => call'[q].next = 1 /\ call'[q].since = 0
    BY RowEffects DEF Becomes, Revising, Idle, None
  <2> QED
    BY <1>1, <1>21, <2>1, <2>2
<1>22. ASSUME WriteRow(q) PROVE Goal
  BY <1>3, <1>22, RowEffects DEF Becomes
<1> QED
  BY <1>5, <1>6, <1>7, <1>8, <1>9, <1>10, <1>11, <1>12, <1>13, <1>14, <1>15, <1>16, <1>17, <1>18, <1>19, <1>20,
     <1>21, <1>22, NextActions DEF Unchanging

\* A rebuild that no other has crossed began alone, or goes on alone.
LEMMA LoneFlow ==
  ASSUME TypeInv, \A p \in Caller : Stands(p), [Next]_vars, ~crossed', NEW q \in Caller, Rebuilds(q)'
  PROVE  \/ /\ ReadMarker(q) /\ (call'[q] = Beginning(None) \/ (marker # None /\ call'[q] = Beginning(marker)))
            /\ ~Rebuilding
         \/ Rebuilds(q) /\ RebuildMoves(q) /\ ~crossed
<1>1. CASE ReadMarker(q) /\ (call'[q] = Beginning(None) \/ (marker # None /\ call'[q] = Beginning(marker)))
  BY <1>1 DEF ReadMarker
<1>2. CASE Rebuilds(q) /\ RebuildMoves(q)
  <2>1. Rebuilding
    BY <1>2 DEF Rebuilds, Rebuilding
  <2> QED
    BY <1>2, <2>1, CrossedMoves
<1> QED
  BY <1>1, <1>2, RebuildFlow

\* The rebuilds in progress are one as long as none has crossed another.
LEMMA LoneStep ==
  ASSUME TypeInv, \A p \in Caller : Stands(p), LoneInv, [Next]_vars
  PROVE  LoneInv'
<1> SUFFICES ASSUME ~crossed', NEW p \in Caller, NEW q \in Caller, Rebuilds(p)', Rebuilds(q)' PROVE p = q
  BY DEF LoneInv
<1>1. ASSUME NEW c \in Caller, NEW d \in Caller, ReadMarker(c), ~Rebuilding, Rebuilds(d)' PROVE d = c
  <2>1. ~Rebuilds(d)
    BY <1>1 DEF Rebuilds, Rebuilding
  <2>2. d # c => call'[d] = call[d]
    BY <1>1, DropEffects DEF Becomes, Others
  <2> QED
    BY <1>1, <2>1, <2>2 DEF Rebuilds
<1>2. CASE Rebuilds(p) /\ Rebuilds(q) /\ ~crossed
  BY <1>2 DEF LoneInv
<1> QED
  BY <1>1, <1>2, LoneFlow

\* Control is inductive on its own.
LEMMA ControlStep ==
  ASSUME Control, [Next]_vars
  PROVE  Control'
BY TypeStep, StandsStep, BoundStep, LockStep, ForgetStep, LoneStep DEF Control

-----------------------------------------------------------------------------
(***************************************************************************)
(* What is covered stays covered, but for the drop.                        *)
(***************************************************************************)
Keeps ==
    /\ Lost \subseteq Lost' /\ exposed \subseteq exposed'
    /\ \A r \in rows : r \in rows' \/ made[r] \in Lost'

Grows == Keeps /\ overlooked \subseteq overlooked' /\ failed \subseteq failed'

\* Only the drop of rows and metadata takes cover away.
LEMMA Growing ==
  ASSUME Control, [Next]_vars
  PROVE  Grows \/ \E p \in Caller : DropRows(p) \/ DropMetadata(p)
<1>1. ASSUME NEW p \in Caller, Remember(p) \/ CheckNeighbours(p) \/ InsertFails(p) \/ InsertVector(p) PROVE Grows
  BY <1>1 DEF Remember, CheckNeighbours, InsertFails, InsertVector, Grows, Keeps, Lost, stores
<1>2. ASSUME NEW p \in Caller, InsertRow(p) PROVE Grows
  BY <1>2 DEF InsertRow, Grows, Keeps, Lost, history
<1>3. ASSUME NEW p \in Caller, Forget(p) \/ Purge(p) \/ WriteRow(p) PROVE Grows
  BY <1>3 DEF Forget, Purge, WriteRow, Grows, Keeps, Lost
<1>4. ASSUME NEW p \in Caller, Replay(p) PROVE Grows
  <2>1. call[p].next \in 1 .. Len(events)
    BY <1>4, Fields DEF Replay, AtEOF, Control, TypeInv, Stands
  <2>2. \A r \in rows : r \in rows' \/ made[r] \in gone
    <3>1. \A w \in rows : w # None
      BY DEF Control, TypeInv, None
    <3> QED
      BY <1>4, <2>1, <3>1, ReplayEffects DEF Control, ForgetInv
  <2>3. gone' = gone /\ purged' = purged /\ exposed \subseteq exposed' /\ overlooked' = overlooked /\ failed' = failed
    BY <1>4 DEF Replay
  <2> QED
    BY <2>2, <2>3 DEF Grows, Keeps, Lost
<1>5. ASSUME NEW p \in Caller, ReadMarker(p) \/ DropVectors(p) \/ SetMarker(p) PROVE Grows
  BY <1>5 DEF ReadMarker, DropVectors, SetMarker, Grows, Keeps, Lost, stores
<1>6. ASSUME NEW p \in Caller, \/ LockDedup(p) \/ ForgetVector(p) \/ LogForget(p) \/ OpenScan(p) \/ EndScan(p)
                               \/ Snapshot(p) \/ ReadLast(p) \/ Truncate(p) \/ ReadRow(p)
      PROVE  Grows
  BY <1>6 DEF LockDedup, ForgetVector, LogForget, OpenScan, EndScan, Snapshot, ReadLast, Truncate, ReadRow, Grows, Keeps,
              Lost, history, stores
<1>7. ASSUME Crash \/ UNCHANGED vars PROVE Grows
  BY <1>7 DEF Crash, vars, Grows, Keeps, Lost, history, stores
<1> QED
  BY <1>1, <1>2, <1>3, <1>4, <1>5, <1>6, <1>7, NextActions DEF Unchanging

\* What stands for an event goes on doing so.
LEMMA RepresentsStays ==
  ASSUME TypeInv, Extends
  PROVE  \A r \in 1 .. Len(made), e \in Born : Represents(r, e)' = Represents(r, e) /\ made[r] \in Born /\ made'[r] = made[r]
<1> SUFFICES ASSUME NEW r \in 1 .. Len(made), NEW e \in Born
             PROVE  Represents(r, e)' = Represents(r, e) /\ made[r] \in Born /\ made'[r] = made[r]
  OBVIOUS
<1>1. made[r] \in Born /\ made'[r] = made[r]
  BY DEF TypeInv, Extends
<1>2. dedup' = dedup /\ events'[e] = events[e] /\ events'[made[r]] = events[made[r]]
  BY <1>1 DEF Extends, Born
<1> QED
  BY <1>1, <1>2 DEF Represents, Alike

\* A kept event stays kept while rows go only by forgets.
LEMMA KeptStays ==
  ASSUME TypeInv, Extends, Keeps, NEW e \in Born, Kept(e)
  PROVE  Kept(e)'
<1>0. /\ rows \subseteq 1 .. Len(made) /\ Lost \subseteq Born /\ exposed \subseteq Born
      /\ \A f \in Born : Alike(e, f)' = Alike(e, f)
  BY BornStays DEF TypeInv, Lost
<1>1. ASSUME NEW f \in Lost, Alike(e, f) PROVE Kept(e)'
  BY <1>0, <1>1 DEF Kept, Keeps
<1>2. ASSUME NEW f \in exposed, dedup, Alike(e, f) PROVE Kept(e)'
  BY <1>0, <1>2 DEF Kept, Keeps, Extends
<1>3. ASSUME NEW r \in rows, Represents(r, e) PROVE Kept(e)'
  <2>1. Represents(r, e)' /\ made[r] \in Born
    BY <1>0, <1>3, RepresentsStays
  <2>2. CASE r \in rows'
    BY <2>1, <2>2 DEF Kept, HasRow
  <2>3. CASE made[r] \in Lost'
    <3>1. Alike(e, made[r])
      BY <1>3, AlikeEquivalence DEF Represents
    <3> QED
      BY <1>0, <2>1, <2>3, <3>1 DEF Kept
  <2> QED
    BY <2>2, <2>3 DEF Keeps
<1> QED
  BY <1>1, <1>2, <1>3 DEF Kept, HasRow

\* Covered is kept, or passed by a marker.
LEMMA CoveredKept ==
  ASSUME NEW e
  PROVE  Covered(e) <=> Kept(e) \/ \E f \in overlooked : Alike(e, f)
BY DEF Covered, Kept, Excused, Lost

\* A covered event stays covered but for the drop.
LEMMA CoveredStays ==
  ASSUME TypeInv, Extends, Grows, NEW e \in Born, Covered(e)
  PROVE  Covered(e)'
<1>1. ASSUME NEW f \in overlooked, Alike(e, f) PROVE Covered(e)'
  <2>1. Alike(e, f)' /\ f \in overlooked'
    BY <1>1, BornStays DEF TypeInv, Grows
  <2> QED
    BY <2>1 DEF Covered, Excused
<1>2. Kept(e) => Covered(e)'
  BY KeptStays DEF Grows, Covered, Kept, Excused, Lost
<1> QED
  BY <1>1, <1>2, CoveredKept

\* With dedup on, what covers one event covers all that are like it.
LEMMA CoveredAlike ==
  ASSUME dedup, NEW e, NEW f, Alike(e, f)
  PROVE  /\ Covered(e) => Covered(f)
         /\ Kept(e) => Kept(f)
BY AlikeEquivalence DEF Covered, Kept, HasRow, Represents, Excused, Lost

-----------------------------------------------------------------------------
(***************************************************************************)
(* Each part of CompleteInv.                                               *)
(***************************************************************************)
\* Rebuilds that have not crossed are one.
LEMMA SameRebuilder ==
  ASSUME Control, ~crossed, NEW p \in Caller, NEW q \in Caller, Rebuilds(p), Rebuilds(q)
  PROVE  p = q
BY DEF Control, LoneInv

\* Between the drops nothing else happens to a rebuild.
LEMMA MetadataStays ==
  ASSUME TypeInv, [Next]_vars, NEW p \in Caller, At(p, "rebuild", "metadata"), ~At(p, "rebuild", "metadata")'
  PROVE  DropMetadata(p) \/ Crash
<1>0. call[p].op = "rebuild" /\ call[p].step = "metadata"
  BY DEF At
<1>1. call'[p] # call[p]
  BY DEF At
<1>2. ASSUME NEW q \in Caller, Truncate(q) PROVE FALSE
  <2>1. q # p
    BY <1>0, <1>2 DEF Truncate, At
  <2> QED
    BY <1>0, <1>1, <1>2, <2>1, TruncateEffects DEF Dropping
<1>3. ASSUME NEW q \in Caller, q # p, Remember(q) \/ InsertRow(q) \/ LogForget(q) \/ WriteRow(q) \/ Unchanging(q)
      PROVE  FALSE
  BY <1>1, <1>2, <1>3, OthersStay DEF Others
<1>4. ASSUME Remember(p) \/ InsertRow(p) \/ LogForget(p) \/ WriteRow(p) \/ Unchanging(p) PROVE DropMetadata(p)
  BY <1>0, <1>2, <1>4 DEF Remember, InsertRow, LogForget, WriteRow, Unchanging, LockDedup, CheckNeighbours, InsertFails, InsertVector,
     Forget, ForgetVector, ReadMarker, DropRows, DropVectors, OpenScan, Replay, EndScan,
     Snapshot, ReadLast, SetMarker, Purge, ReadRow, WriteRow, At, Ready
<1>5. ~UNCHANGED vars
  BY <1>1 DEF vars
<1> QED
  BY <1>3, <1>4, <1>5, NextActions

\* The event of a remember never changes.
LEMMA RememberedEvent ==
  ASSUME TypeInv, \A p \in Caller : Stands(p), [Next]_vars, NEW q \in Caller, Remembers(q)'
  PROVE  \/ Remember(q) /\ call'[q].event = Len(events) + 1
         \/ Remembers(q) /\ call'[q].event = call[q].event
BY RememberFlow, Fields DEF Starting, Idle, StepTo, CallType

\* An event that was not there is being remembered.
LEMMA NewEvent ==
  ASSUME TypeInv, [Next]_vars, NEW e \in Born', e \notin Born
  PROVE  e = Len(events) + 1 /\ \E q \in Caller : Remember(q)
<1>1. ASSUME NEW p \in Caller, Remember(p) PROVE e = Len(events) + 1
  BY <1>1, RememberBecomes
<1>2. ASSUME NEW p \in Caller, LogForget(p) PROVE FALSE
  <2>1. e \in 1 .. Len(events) + 1
    BY <1>2, LogForgetAppends DEF Born
  <2>2. e = Len(events) + 1 => events'[e].kind # "remember"
    BY <1>2, LogForgetAppends
  <2>3. e \in 1 .. Len(events) => e \in Born
    BY <1>2, LogForgetAppends DEF Born
  <2> QED
    BY <2>1, <2>2, <2>3 DEF Born, TypeInv
<1>3. ASSUME NEW p \in Caller, InsertRow(p) \/ WriteRow(p) \/ Unchanging(p) PROVE Born' = Born
  BY <1>3 DEF InsertRow, WriteRow, Unchanging, LockDedup, CheckNeighbours, InsertFails, InsertVector, Forget, ForgetVector,
              ReadMarker, DropRows, DropMetadata, DropVectors, OpenScan, Replay, EndScan,
              Snapshot, ReadLast, SetMarker, Truncate, Purge, ReadRow, logged, Born
<1>4. ASSUME Crash \/ UNCHANGED vars PROVE Born' = Born
  BY <1>4 DEF Crash, vars, logged, Born
<1> QED
  BY <1>1, <1>2, <1>3, <1>4, NextActions

\* Old events by their position.
LEMMA OldEvent ==
  ASSUME TypeInv, [Next]_vars, NEW e \in Born', NEW n \in Nat, n <= Len(events), e <= n
  PROVE  e \in Born
<1>1. e # Len(events) + 1
  BY DEF TypeInv, Born
<1> QED
  BY <1>1, NewEvent

\* An upsert begins with an event, and keeps it.
LEMMA UpsertedEvent ==
  ASSUME TypeInv, TypeInv', \A p \in Caller : Stands(p), \A p \in Caller : Stands(p)', [Next]_vars,
         NEW q \in Caller, Upserts(q)'
  PROVE  \/ Remember(q) /\ call'[q].event = Len(events) + 1
         \/ /\ Replay(q) /\ Rebuilds(q) /\ call'[q].event = call[q].next
            /\ crossed => call[q].next \in exposed'
         \/ Upserts(q) /\ call'[q].event = call[q].event
<1>1. Remembers(q)' \/ Rebuilds(q)'
  BY DEF TypeInv, CallType, OpName, Stands, Dropping, Remembers, Rebuilds, Upserts
<1>2. CASE Remembers(q)'
  BY <1>2, RememberedEvent DEF Stands, Remembers, Upserts
<1>3. CASE Rebuilds(q)'
  <2>1. ASSUME call'[q] = Beginning(None) \/ (marker # None /\ call'[q] = Beginning(marker)) PROVE FALSE
    BY <2>1 DEF Beginning, Idle, Upserts
  <2>2. Rebuilds(q) /\ RebuildMoves(q)
    BY <1>3, <2>1, RebuildFlow
  <2>3. CASE Replay(q)
    <3>1. call[q].step = "replay"
      BY <2>3 DEF Replay, At
    <3>2. call'[q] # Skipped(q) /\ call'[q] # Deleting(q)
      BY <3>1, MoveFields DEF Upserts
    <3>3. call'[q] = Upserting(q) /\ (crossed => call[q].next \in exposed')
      BY <2>3, <3>2, ReplayEffects DEF Becomes
    <3>4. Upserting(q).event = call[q].next
      BY MoveFields
    <3> QED
      BY <2>2, <2>3, <3>3, <3>4
  <2>4. CASE CheckNeighbours(q) \/ InsertRow(q) \/ InsertVector(q)
    <3>1. Upserts(q) /\ ~DropRows(q) /\ ~DropMetadata(q) /\ ~DropVectors(q) /\ ~OpenScan(q) /\ ~Replay(q) /\ ~EndScan(q) /\ ~ReadLast(q)
      BY <2>4 DEF Upserts, CheckNeighbours, InsertRow, InsertVector, DropRows, DropMetadata, DropVectors, OpenScan, Replay,
                  EndScan, ReadLast, At
    <3> QED
      BY <2>2, <3>1, MoveFields DEF RebuildMoves
  <2>5. CASE call'[q] = call[q] \/ call'[q] = Truncated(q)
    BY <2>5, MoveFields DEF Upserts
  <2>6. ASSUME call'[q] = Scanning(q) \/ call'[q] = Marking(q)
               \/ \E t \in {"metadata", "vectors", "open", "last"} : call'[q] = StepTo(q, t)
        PROVE  FALSE
    BY <2>6, MoveFields DEF Upserts
  <2> QED
    BY <2>2, <2>3, <2>4, <2>5, <2>6 DEF RebuildMoves
<1> QED
  BY <1>1, <1>2, <1>3

\* An upsert that begins beside a rebuild, or finds one beginning, is exposed.
LEMMA ExposedStep ==
  ASSUME Control, ExposedInv, [Next]_vars
  PROVE  ExposedInv'
<1> SUFFICES ASSUME NEW p \in Caller, NEW q \in Caller, Rebuilds(p)', Upserts(q)', p # q PROVE call'[q].event \in exposed'
  BY DEF ExposedInv
<1>0. /\ TypeInv /\ \A r \in Caller : Stands(r)
      /\ TypeInv' /\ \A r \in Caller : Stands(r)'
  BY ControlStep DEF Control
<1>1. ReadMarker(p) \/ Rebuilds(p)
  BY <1>0, RebuildFlow
<1>2. ASSUME Remember(q), call'[q].event = Len(events) + 1 PROVE call'[q].event \in exposed'
  <2>1. ~ReadMarker(p)
    <3>1. Len(events') # Len(events)
      BY <1>0, <1>2, RememberBecomes DEF TypeInv
    <3> QED
      BY <3>1 DEF ReadMarker, logged
  <2>2. Rebuilding
    BY <1>1, <2>1 DEF Rebuilding, Rebuilds
  <2> QED
    BY <1>2, <2>2 DEF Remember
<1>3. ASSUME Replay(q), Rebuilds(q), call'[q].event = call[q].next, crossed => call[q].next \in exposed'
      PROVE  call'[q].event \in exposed'
  <2>1. call'[p] = call[p]
    <3>1. ~Truncate(q)
      BY <1>3 DEF Truncate, At, Rebuilds
    <3> QED
      BY <1>0, <1>3, <3>1, OthersStay DEF Unchanging, Others
  <2>2. Rebuilds(p)
    BY <2>1 DEF Rebuilds
  <2>3. crossed
    BY <1>3, <2>2 DEF Control, LoneInv
  <2> QED
    BY <1>3, <2>3
<1>4. ASSUME Upserts(q), call'[q].event = call[q].event PROVE call'[q].event \in exposed'
  <2>1. call[q].event \in UnderWay
    BY <1>4 DEF UnderWay, Upserts
  <2>2. CASE ReadMarker(p)
    BY <1>4, <2>1, <2>2 DEF ReadMarker
  <2>3. CASE Rebuilds(p)
    <3>1. call[q].event \in exposed
      BY <1>4, <2>3 DEF ExposedInv
    <3>2. CASE \E r \in Caller : DropRows(r)
      BY <1>4, <2>1, <3>2 DEF DropRows
    <3>3. CASE \E r \in Caller : DropMetadata(r)
      BY <1>4, <3>1, <3>3 DEF DropMetadata
    <3>4. CASE Grows
      BY <1>4, <3>1, <3>4 DEF Grows, Keeps
    <3> QED
      BY <3>2, <3>3, <3>4, Growing
  <2> QED
    BY <1>1, <2>2, <2>3
<1> QED
  BY <1>0, <1>2, <1>3, <1>4, UpsertedEvent

\* A marker that is set names what it passes.
LEMMA PassedCovered ==
  ASSUME Control, [Next]_vars, Grows, NEW m \in Nat, Passed(m) \subseteq overlooked'
  PROVE  /\ \A e \in Born : e <= m => Covered(e)'
         /\ dedup => \A v \in vectors : Covered(made[v])'
<1>0. TypeInv /\ Extends /\ Born \subseteq Born'
  BY Extending, BornStays DEF Control
<1>1. ASSUME NEW e \in Born, HasRow(e) PROVE Covered(e)'
  BY <1>0, <1>1, CoveredStays DEF Covered
<1>2. ASSUME NEW e \in Passed(m) PROVE Covered(e)'
  BY <1>2, AlikeEquivalence DEF Covered, Excused, Alike
<1>3. ASSUME NEW e \in Born, e <= m PROVE Covered(e)'
  <2>1. HasRow(e) \/ e \in Passed(m)
    BY <1>3 DEF Passed, Born
  <2> QED
    BY <1>1, <1>2, <1>3, <2>1
<1>4. ASSUME dedup, NEW v \in vectors PROVE Covered(made[v])'
  <2>1. PICK x \in Born : x = made[v] /\ x = made'[v]
    BY <1>0 DEF TypeInv, Extends
  <2>2. HasRow(x) \/ x \in Passed(m)
    BY <1>4, <2>1, AlikeEquivalence DEF Passed, Born, Represents
  <2>3. Covered(x)'
    BY <1>1, <1>2, <2>2
  <2> QED
    BY <2>1, <2>3
<1> QED
  BY <1>3, <1>4

\* Only a snapshot and the drop move the marker.
LEMMA MarkerMoves ==
  ASSUME [Next]_vars
  PROVE  marker' = marker \/ \E p \in Caller : SetMarker(p) \/ DropMetadata(p)
<1>1. ASSUME NEW p \in Caller, Remember(p) \/ InsertRow(p) \/ LogForget(p) \/ WriteRow(p) \/ Unchanging(p), ~SetMarker(p), ~DropMetadata(p)
      PROVE  marker' = marker
  BY <1>1 DEF Remember, InsertRow, LogForget, WriteRow, Unchanging, LockDedup, CheckNeighbours, InsertFails, InsertVector,
              Forget, ForgetVector, ReadMarker, DropRows, DropVectors, OpenScan, Replay, EndScan,
              Snapshot, ReadLast, Truncate, Purge, ReadRow
<1>2. ASSUME Crash \/ UNCHANGED vars PROVE marker' = marker
  BY <1>2 DEF Crash, vars
<1> QED
  BY <1>1, <1>2, NextActions

\* The marker passes nothing that is not covered.
LEMMA MarkStep ==
  ASSUME Control, MarkInv, [Next]_vars
  PROVE  MarkInv'
<1> SUFFICES ASSUME marker' # None, ~BetweenDrops', NEW e \in Born', e <= marker' PROVE Covered(e)'
  BY DEF MarkInv
<1>0. /\ TypeInv /\ Extends /\ marker \in 0 .. Len(events)
      /\ \A p \in Caller : Stands(p)
  BY Extending DEF Control, TypeInv
<1>1. ASSUME NEW p \in Caller, SetMarker(p) PROVE Covered(e)'
  <2>1. Grows /\ Passed(marker') \subseteq overlooked' /\ marker' \in 1 .. Len(events)
    BY <1>0, <1>1 DEF SetMarker, Grows, Keeps, Lost, stores, Stands
  <2>2. e \in Born
    BY <1>0, <2>1, OldEvent DEF TypeInv
  <2> QED
    BY <2>1, <2>2, PassedCovered
<1>2. ASSUME NEW p \in Caller, DropMetadata(p) PROVE FALSE
  BY <1>2 DEF DropMetadata, MarkerAfterDrop
<1>3. ASSUME NEW p \in Caller, DropRows(p) PROVE FALSE
  <2>1. call'[p] = StepTo(p, "metadata") /\ call[p].op = "rebuild"
    BY <1>0, <1>3, DropEffects DEF Becomes, DropRows, At
  <2>2. At(p, "rebuild", "metadata")'
    BY <1>0, <2>1, Fields DEF At, StepTo, CallType
  <2> QED
    BY <2>2 DEF BetweenDrops
<1>4. ASSUME Crash, BetweenDrops PROVE Covered(e)'
  <2>1. Grows /\ Passed(marker) \subseteq overlooked' /\ marker' = marker
    BY <1>4 DEF Crash, Grows, Keeps, Lost, stores, BetweenDrops
  <2>2. e \in Born
    BY <1>0, <2>1, OldEvent DEF TypeInv
  <2> QED
    BY <1>0, <2>1, <2>2, PassedCovered
<1>5. ASSUME marker' = marker, ~BetweenDrops, Grows PROVE Covered(e)'
  <2>1. e \in Born
    BY <1>0, <1>5, OldEvent DEF TypeInv
  <2> QED
    BY <1>0, <1>5, <2>1, CoveredStays DEF MarkInv
<1>6. ASSUME BetweenDrops PROVE Crash \/ \E p \in Caller : DropMetadata(p)
  BY <1>0, <1>6, MetadataStays DEF BetweenDrops
<1> QED
  BY <1>1, <1>2, <1>3, <1>4, <1>5, <1>6, MarkerMoves, Growing

\* What a rebuild knows of its marker.
LEMMA SinceMoves ==
  ASSUME TypeInv, NEW q \in Caller, RebuildMoves(q)
  PROVE  call'[q].since = call[q].since
BY MoveFields DEF RebuildMoves, SameScan, SamePast, Same

\* An incremental rebuild starts from a marker that passes only what is covered.
LEMMA SinceStep ==
  ASSUME Control, MarkInv, SinceInv, [Next]_vars
  PROVE  SinceInv'
<1> SUFFICES ASSUME ~crossed', NEW q \in Caller, Rebuilds(q)', call'[q].since # None, NEW e \in Born', e <= call'[q].since PROVE Covered(e)'
  BY DEF SinceInv
<1>0. /\ TypeInv /\ Extends /\ marker \in 0 .. Len(events)
      /\ \A p \in Caller : Stands(p)
  BY Extending DEF Control, TypeInv
<1>1. ASSUME ReadMarker(q), ~Rebuilding, marker # None, call'[q] = Beginning(marker) PROVE Covered(e)'
  <2>1. e \in Born /\ e <= marker
    <3>1. call'[q].since = marker
      BY <1>1 DEF Beginning, Idle
    <3> QED
      BY <1>0, <3>1, OldEvent DEF TypeInv
  <2>2. ~BetweenDrops
    BY <1>1 DEF BetweenDrops, At, Rebuilding
  <2>3. Grows
    BY <1>1 DEF ReadMarker, Grows, Keeps, Lost, stores
  <2> QED
    BY <1>0, <1>1, <2>1, <2>2, <2>3, CoveredStays DEF MarkInv
<1>2. ASSUME ReadMarker(q), call'[q] = Beginning(None) PROVE FALSE
  BY <1>2 DEF Beginning, Idle
<1>3. ASSUME Rebuilds(q), RebuildMoves(q), ~crossed PROVE Covered(e)'
  <2>1. call'[q].since = call[q].since
    BY <1>0, <1>3, SinceMoves
  <2>2. e \in Born
    BY <1>0, <2>1, OldEvent, Fields DEF Control, BoundInv
  <2>3. ASSUME NEW p \in Caller, DropRows(p) \/ DropMetadata(p) PROVE FALSE
    <3>1. Rebuilds(p) /\ call[p].step \in Dropping
      BY <2>3 DEF DropRows, DropMetadata, At, Rebuilds, Dropping
    <3>2. p = q
      BY <1>3, <3>1, SameRebuilder
    <3> QED
      BY <1>0, <2>1, <3>1, <3>2 DEF Stands, Rebuilds
  <2> QED
    BY <1>0, <1>3, <2>1, <2>2, <2>3, Growing, CoveredStays DEF SinceInv
<1> QED
  BY <1>0, <1>1, <1>2, <1>3, LoneFlow

\* A lone rebuild that is past its drop has no drop beside it.
LEMMA NoDropBeside ==
  ASSUME Control, ~crossed, [Next]_vars, NEW p \in Caller, Rebuilds(p), call[p].step \notin {"rows", "metadata"}
  PROVE  Grows
<1>1. ASSUME NEW q \in Caller, DropRows(q) \/ DropMetadata(q) PROVE FALSE
  <2>1. Rebuilds(q) /\ call[q].step \in {"rows", "metadata"}
    BY <1>1 DEF DropRows, DropMetadata, At, Rebuilds
  <2> QED
    BY <2>1, SameRebuilder
<1> QED
  BY <1>1, Growing

\* Only an upsert writes a vector.
LEMMA VectorMoves ==
  ASSUME [Next]_vars
  PROVE  vectors' \subseteq vectors \/ \E p \in Caller : InsertVector(p) /\ vectors' = vectors \cup {call[p].row}
<1>1. ASSUME NEW p \in Caller, InsertVector(p) PROVE vectors' = vectors \/ vectors' = vectors \cup {call[p].row}
  BY <1>1 DEF InsertVector
<1>2. ASSUME NEW p \in Caller, Remember(p) \/ InsertRow(p) \/ LogForget(p) \/ WriteRow(p) \/ Unchanging(p), ~InsertVector(p)
      PROVE  vectors' \subseteq vectors
  BY <1>2 DEF Remember, InsertRow, LogForget, WriteRow, Unchanging, LockDedup, CheckNeighbours, InsertFails,
              Forget, ForgetVector, ReadMarker, DropRows, DropMetadata, DropVectors, VectorsAfterDrop, OpenScan, Replay, EndScan,
              Snapshot, ReadLast, SetMarker, Truncate, Purge, ReadRow, stores
<1>3. ASSUME Crash \/ UNCHANGED vars PROVE vectors' = vectors
  BY <1>3 DEF Crash, vars, stores
<1> QED
  BY <1>1, <1>2, <1>3, NextActions

\* A rebuild leaves its drop by the last of the three steps.
LEMMA DropMoves ==
  ASSUME TypeInv, NEW q \in Caller, RebuildMoves(q), call'[q].step \notin Dropping, call[q].step \in Dropping
  PROVE  DropVectors(q)
<1>1. ASSUME call'[q] = call[q] \/ call'[q] = Truncated(q) PROVE FALSE
  BY <1>1, MoveFields
<1>2. ASSUME DropRows(q) /\ call'[q] = StepTo(q, "metadata") PROVE FALSE
  BY <1>2, MoveFields DEF Dropping
<1>3. ASSUME DropMetadata(q) /\ call'[q] = StepTo(q, "vectors") PROVE FALSE
  BY <1>3, MoveFields DEF Dropping
<1>4. ~CheckNeighbours(q) /\ ~InsertRow(q) /\ ~InsertVector(q) /\ ~OpenScan(q) /\ ~Replay(q) /\ ~EndScan(q) /\ ~ReadLast(q)
  BY DEF Dropping, CheckNeighbours, InsertRow, InsertVector, OpenScan, Replay, EndScan, ReadLast, At
<1> QED
  BY <1>1, <1>2, <1>3, <1>4 DEF RebuildMoves

\* Vectors left behind stand for what is covered, once the drop is over.
LEMMA VectorStep ==
  ASSUME Control, VectorInv, EmbedInv, [Next]_vars
  PROVE  VectorInv'
<1> DEFINE Scanned == marker # None \/ (~crossed /\ \E p \in Caller : Rebuilds(p) /\ call[p].step \notin Dropping)
<1> SUFFICES ASSUME dedup', ~BetweenDrops', Scanned', NEW v \in vectors' PROVE Covered(made[v])'
  BY DEF VectorInv
<1>0. /\ TypeInv /\ Extends /\ dedup /\ \A p \in Caller : Stands(p)
  BY Extending DEF Control, Extends
<1>1. ASSUME NEW p \in Caller, SetMarker(p) PROVE Covered(made[v])'
  <2>1. Grows /\ Passed(marker') \subseteq overlooked' /\ marker' \in Nat /\ vectors' = vectors
    BY <1>0, <1>1, Fields DEF SetMarker, Grows, Keeps, Lost, stores
  <2> QED
    BY <1>0, <2>1, PassedCovered
<1>2. ASSUME NEW p \in Caller, DropVectors(p) PROVE Covered(made[v])'
  <2>1. Grows /\ Passed(None) \subseteq overlooked' /\ None \in Nat /\ vectors' = vectors
    BY <1>2 DEF DropVectors, VectorsAfterDrop, Grows, Keeps, Lost, None
  <2> QED
    BY <1>0, <2>1, PassedCovered
<1>3. ASSUME NEW p \in Caller, DropRows(p) PROVE FALSE
  <2>1. call'[p] = StepTo(p, "metadata") /\ call[p].op = "rebuild"
    BY <1>0, <1>3, DropEffects DEF Becomes, DropRows, At
  <2>2. At(p, "rebuild", "metadata")'
    BY <1>0, <2>1, MoveFields DEF At, SameScan, SamePast, Same
  <2> QED
    BY <2>2 DEF BetweenDrops
<1>4. ASSUME NEW p \in Caller, DropMetadata(p) PROVE FALSE
  <2>1. call'[p] = StepTo(p, "vectors") /\ Rebuilds(p) /\ call[p].step = "metadata"
    BY <1>0, <1>4, DropEffects DEF Becomes, DropMetadata, At, Rebuilds
  <2>0. ~crossed
    BY <1>4 DEF DropMetadata, MarkerAfterDrop
  <2>2. PICK q \in Caller : Rebuilds(q)' /\ call'[q].step \notin Dropping
    BY <1>4 DEF DropMetadata, MarkerAfterDrop
  <2>3. Rebuilds(q)
    BY <1>0, <1>4, <2>1, <2>2, DropEffects DEF Becomes, Others, Rebuilds
  <2>4. p = q
    BY <2>0, <2>1, <2>3, SameRebuilder
  <2> QED
    BY <1>0, <2>1, <2>2, <2>4, MoveFields DEF Dropping
<1>5. ASSUME Crash, BetweenDrops PROVE Covered(made[v])'
  <2>1. Grows /\ Passed(marker) \subseteq overlooked' /\ marker \in Nat /\ vectors' = vectors
    BY <1>0, <1>5 DEF Crash, Grows, Keeps, Lost, stores, BetweenDrops, TypeInv
  <2> QED
    BY <1>0, <2>1, PassedCovered
<1>6. ASSUME ~BetweenDrops, Scanned, v \in vectors, Grows PROVE Covered(made[v])'
  <2>1. PICK x \in Born : x = made[v] /\ x = made'[v]
    BY <1>0, <1>6 DEF TypeInv, Extends
  <2>2. Covered(x)'
    BY <1>0, <1>6, <2>1, CoveredStays DEF VectorInv
  <2> QED
    BY <2>1, <2>2
<1>7. ASSUME NEW p \in Caller, InsertVector(p), v = call[p].row, Grows PROVE Covered(made[v])'
  <2>1. call[p].step = "embed" /\ call[p].event \in Born /\ v \in 1 .. Len(made) /\ made[v] = call[p].event
    BY <1>0, <1>7, StepOwner DEF InsertVector, Stands
  <2>2. PICK x \in Born : x = made[v] /\ x = made'[v]
    BY <1>0, <2>1 DEF Extends
  <2>3. Covered(x)
    BY <1>0, <2>1, <2>2, CoveredKept DEF EmbedInv
  <2>4. Covered(x)'
    BY <1>0, <1>7, <2>3, CoveredStays
  <2> QED
    BY <2>2, <2>4
<1>8. BetweenDrops => Crash \/ \E p \in Caller : DropMetadata(p)
  BY <1>0, MetadataStays DEF BetweenDrops
<1>9. Scanned \/ \E p \in Caller : SetMarker(p) \/ DropMetadata(p) \/ DropVectors(p)
  <2>1. ASSUME marker' = marker, ~crossed', NEW q \in Caller, Rebuilds(q)', call'[q].step \notin Dropping
        PROVE  Scanned \/ DropVectors(q)
    <3>1. ASSUME call'[q] = Beginning(None) PROVE FALSE
      BY <2>1, <3>1 DEF Beginning, Idle, Dropping
    <3> QED
      BY <1>0, <2>1, <3>1, LoneFlow, DropMoves
  <2> QED
    BY <2>1, MarkerMoves
<1> QED
  BY <1>1, <1>2, <1>3, <1>4, <1>5, <1>6, <1>7, <1>8, <1>9, Growing, VectorMoves

-----------------------------------------------------------------------------
\* Whoever is about to write a vector has made its row, just now or before.
LEMMA EmbedFlow ==
  ASSUME Control, [Next]_vars, NEW p \in Caller, call'[p].step = "embed"
  PROVE  \/ InsertRow(p) /\ call'[p].event = call[p].event /\ call'[p].row = Len(made) + 1
         \/ call[p].step = "embed" /\ call'[p].event = call[p].event /\ call'[p].row = call[p].row /\ call'[p].op = call[p].op
<1>0. /\ TypeInv /\ \A q \in Caller : Stands(q)
      /\ TypeInv' /\ \A q \in Caller : Stands(q)'
  BY ControlStep DEF Control
<1>1. Remembers(p)' \/ Rebuilds(p)'
  BY <1>0 DEF TypeInv, CallType, OpName, Stands, Dropping, Remembers, Rebuilds
<1>2. CASE Remembers(p)'
  <2>1. ASSUME Remember(p), call'[p] = Starting(Len(events) + 1) PROVE FALSE
    BY <2>1 DEF Starting, Idle
  <2>2. call'[p] = StepTo(p, "check") => FALSE
    BY <1>0, MoveFields
  <2>3. call'[p] = StepTo(p, "insert") => FALSE
    BY <1>0, MoveFields
  <2>4. call'[p] = Embedding(p) => call'[p].event = call[p].event /\ call'[p].row = Len(made) + 1
    BY <1>0, MoveFields
  <2> QED
    BY <1>0, <1>2, <2>1, <2>2, <2>3, <2>4, RememberFlow DEF Embedding
<1>3. CASE Rebuilds(p)'
  <2>1. ASSUME call'[p] = Beginning(None) \/ (marker # None /\ call'[p] = Beginning(marker)) PROVE FALSE
    BY <2>1 DEF Beginning, Idle
  <2>2. RebuildMoves(p)
    BY <1>0, <1>3, <2>1, RebuildFlow
  <2>3. ~Replay(p)
    <3>1. ASSUME Replay(p) PROVE call'[p].step \in {"replay", "check", "insert"}
      <4>1. call[p].step = "replay" /\ (dedup \/ ~dedup)
        BY <3>1 DEF Replay, At
      <4>2. Upserting(p).step \in {"check", "insert"}
        BY <1>0, <4>1, MoveFields
      <4>3. call'[p] \in {Skipped(p), Upserting(p), Deleting(p)}
        BY <1>0, <3>1, ReplayEffects DEF Becomes
      <4> QED
        BY <1>0, <4>1, <4>2, <4>3, MoveFields
    <3> QED
      BY <3>1
  <2>4. ASSUME InsertRow(p) PROVE call'[p] = Embedding(p)
    BY <1>0, <2>2, <2>4, MoveFields DEF RebuildMoves, InsertRow, CheckNeighbours, InsertVector, DropRows, DropMetadata,
       DropVectors, OpenScan, EndScan, ReadLast, At
  <2> QED
    BY <1>0, <2>2, <2>3, <2>4, MoveFields DEF RebuildMoves, SameScan, SamePast, Same
<1> QED
  BY <1>1, <1>2, <1>3

\* A row that was just made stands for its event.
LEMMA RowMade ==
  ASSUME Control, [Next]_vars, NEW p \in Caller, InsertRow(p)
  PROVE  call[p].event \in Born /\ \A e : e = call[p].event => HasRow(e)'
<1>0. TypeInv /\ Stands(p) /\ Len(made) \in Nat
  BY DEF Control, TypeInv
<1>1. PICK e \in Born : e = call[p].event
  BY <1>0, StepOwner DEF InsertRow
<1>2. made'[Len(made) + 1] = e /\ Len(made) + 1 \in rows'
  BY <1>0, <1>1, InsertRowMakes
<1>3. HasRow(e)'
  BY <1>2, AlikeEquivalence DEF HasRow, Represents, Alike
<1> QED
  BY <1>1, <1>3

\* What is about to get a vector has its row, or was forgotten.
LEMMA EmbedStep ==
  ASSUME Control, EmbedInv, [Next]_vars
  PROVE  EmbedInv'
<1> SUFFICES ASSUME dedup', NEW p \in Caller, call'[p].step = "embed" PROVE Kept(call[p].event)'
  BY DEF EmbedInv
<1>0. /\ TypeInv /\ Extends /\ dedup /\ \A q \in Caller : Stands(q)
  BY Extending DEF Control, Extends
<1>1. CASE InsertRow(p) /\ call'[p].event = call[p].event
  <2>1. PICK e \in Born : e = call[p].event /\ e = call'[p].event
    BY <1>1, RowMade
  <2>2. HasRow(e)'
    BY <1>1, <2>1, RowMade
  <2> QED
    BY <2>1, <2>2 DEF Kept
<1>2. CASE call[p].step = "embed" /\ call'[p].event = call[p].event
  <2>1. PICK e \in Born : e = call[p].event /\ e = call'[p].event
    BY <1>0, <1>2, StepOwner
  <2>2. Kept(e)
    BY <1>0, <1>2, <2>1 DEF EmbedInv
  <2>3. ASSUME NEW q \in Caller, DropRows(q) PROVE Kept(e)'
    <3>1. e \in exposed'
      BY <1>2, <2>1, <2>3 DEF DropRows, UnderWay
    <3> QED
      BY <1>0, <3>1, AlikeEquivalence DEF Kept, Alike, Extends
  <2>4. ASSUME NEW q \in Caller, DropMetadata(q) PROVE Keeps
    BY <2>4 DEF DropMetadata, Keeps, Lost, stores
  <2>5. Keeps => Kept(e)'
    BY <1>0, <2>2, KeptStays
  <2>6. Kept(e)'
    BY <2>3, <2>4, <2>5, Growing DEF Grows
  <2> QED
    BY <2>1, <2>6
<1> QED
  BY <1>1, <1>2, EmbedFlow

-----------------------------------------------------------------------------
\* Positions of a log that is shortened at its front and grows at its end.
LEMMA Within ==
  ASSUME NEW len \in Nat, NEW new \in Nat, NEW f \in Nat, NEW g \in Nat, f <= g,
         NEW n \in Nat, n <= len + 1, NEW e \in g + 1 .. new, e < n
  PROVE  e \in 1 .. len /\ e \in f + 1 .. len
OBVIOUS

\* The log is only shortened at its front.
LEMMA OldRemembered ==
  ASSUME Control, [Next]_vars, NEW e \in Remembered', NEW n \in Nat, n <= Len(events) + 1, e < n
  PROVE  e \in Remembered /\ e \in Born
<1>0. TypeInv /\ Extends
  BY Extending DEF Control
<1>1. first \in Nat /\ first' \in Nat /\ first <= first' /\ Len(events) \in Nat
  <2>1. ASSUME NEW p \in Caller, Truncate(p) PROVE first <= first' /\ first' \in Nat
    BY <1>0, <2>1, TruncateEffects DEF TypeInv
  <2>2. ASSUME NEW p \in Caller, Remember(p) \/ InsertRow(p) \/ LogForget(p) \/ WriteRow(p) \/ Unchanging(p), ~Truncate(p) PROVE first' = first
    BY <2>2 DEF Remember, InsertRow, LogForget, WriteRow, Unchanging, LockDedup, CheckNeighbours, InsertFails, InsertVector,
                Forget, ForgetVector, ReadMarker, DropRows, DropMetadata, DropVectors, OpenScan, Replay, EndScan,
                Snapshot, ReadLast, SetMarker, Purge, ReadRow, logged
  <2>3. ASSUME Crash \/ UNCHANGED vars PROVE first' = first
    BY <2>3 DEF Crash, vars, logged
  <2> QED
    BY <1>0, <2>1, <2>2, <2>3, NextActions DEF TypeInv
<1>2. e \in 1 .. Len(events) /\ e \in first + 1 .. Len(events) /\ events'[e].kind = "remember"
  <2>1. e \in first' + 1 .. Len(events') /\ events'[e].kind = "remember"
    BY DEF Remembered, Log
  <2>2. Len(events') \in Nat
    BY <1>0, StoresTyped DEF Control
  <2> QED
    BY <1>1, <2>1, <2>2, Within
<1> QED
  BY <1>0, <1>2 DEF Remembered, Log, Born, Extends

\* The scan covers what it passes.
LEMMA ScanStep ==
  ASSUME Control, VectorInv, SinceInv, ScanInv, [Next]_vars
  PROVE  ScanInv'
<1> DEFINE Passing == {"replay", "check", "insert", "embed", "last"}
           InHand(p, e) == call[p].step \in {"check", "insert"} /\ e = call[p].event
<1> SUFFICES ASSUME ~crossed', NEW p \in Caller, Rebuilds(p)', call'[p].past, call'[p].step \in Passing,
                    NEW e \in Remembered', e < call'[p].next
             PROVE  Covered(e)' \/ InHand(p, e)'
  BY DEF ScanInv
<1>0. /\ TypeInv /\ Extends /\ \A q \in Caller : Stands(q)
      /\ call[p].next \in Nat /\ call[p].next <= Len(events) + 1
      /\ dedup \in BOOLEAN /\ call[p].past \in BOOLEAN
  BY Extending, Fields DEF Control, BoundInv, TypeInv
<1>1. ASSUME call'[p] = Beginning(None) \/ (marker # None /\ call'[p] = Beginning(marker)) PROVE FALSE
  BY <1>1 DEF Beginning, Idle
<1>2. Rebuilds(p) /\ RebuildMoves(p) /\ ~crossed
  BY <1>0, <1>1, LoneFlow
<1>3. ~DropRows(p) /\ ~DropMetadata(p) /\ ~DropVectors(p)
  <2>1. DropRows(p) \/ DropMetadata(p) \/ DropVectors(p) => call'[p].step \in {"metadata", "vectors", "open"}
    BY <1>0, DropEffects, MoveFields DEF Becomes
  <2> QED
    BY <2>1
<1>4. ~ReadLast(p) /\ ~InsertFails(p)
  <2>1. ReadLast(p) => call'[p].step \in {"mark", "idle"}
    BY <1>0, MarkEffects, MoveFields, IdleFields DEF Becomes, Marking
  <2>2. InsertFails(p) => call'[p].step = "idle"
    BY <1>0, UpsertEffects, IdleFields DEF Becomes
  <2> QED
    BY <2>1, <2>2
<1>5. ASSUME call[p].past, call[p].step \in Passing, e < call[p].next PROVE (e \in Born /\ Covered(e)) \/ InHand(p, e)
  BY <1>0, <1>2, <1>5, OldRemembered DEF ScanInv
<1>6. call[p].step \in Passing \cup {"open", "mark"} => Grows
  BY <1>2, NoDropBeside
<1>7. ASSUME e \in Born, Covered(e), call[p].step \in Passing PROVE Covered(e)'
  BY <1>0, <1>6, <1>7, CoveredStays
<1>8. CASE call'[p] = call[p] \/ call'[p] = Truncated(p)
  <2>1. /\ (call'[p].past <=> call[p].past) /\ call'[p].step = call[p].step
        /\ call'[p].event = call[p].event /\ call'[p].next = call[p].next
    BY <1>0, <1>8, MoveFields, SameFields
  <2> QED
    BY <1>5, <1>7, <2>1
<1>9. CASE CheckNeighbours(p) /\ (call'[p] = StepTo(p, "replay") \/ call'[p] = StepTo(p, "insert"))
  <2>1. /\ (call'[p].past <=> call[p].past) /\ call[p].step = "check" /\ call'[p].step \in {"replay", "insert"}
        /\ call'[p].event = call[p].event /\ call'[p].next = call[p].next
    BY <1>0, <1>9, MoveFields, SameFields DEF CheckNeighbours
  <2>2. ASSUME e = call[p].event, call'[p].step = "replay" PROVE Covered(e)'
    <3>1. dedup /\ e \in Born
      BY <1>0, <2>1, <2>2, StepOwner DEF Stands
    <3>2. PICK r \in vectors : Represents(r, e)
      <4>1. call'[p].step # "insert"
        BY <2>2
      <4>2. Goto(p, "insert") => call'[p].step = "insert"
        <5>1. "insert" \in StepName
          BY DEF StepName
        <5>2. Goto(p, "insert") => call'[p] = StepTo(p, "insert")
          BY <1>0, <5>1, GotoBecomes DEF Becomes, StepTo
        <5> QED
          BY <1>0, <5>2, MoveFields
      <4> QED
        BY <1>9, <2>2, <4>1, <4>2 DEF CheckNeighbours, Twins
    <3>3. ~BetweenDrops
      <4>1. ASSUME NEW q \in Caller, At(q, "rebuild", "metadata") PROVE FALSE
        <5>1. p = q
          BY <1>2, <4>1, SameRebuilder DEF At, Rebuilds
        <5> QED
          BY <2>1, <4>1, <5>1 DEF At
      <4> QED
        BY <4>1 DEF BetweenDrops
    <3>4. Covered(made[r])
      BY <1>2, <2>1, <3>1, <3>2, <3>3 DEF VectorInv, Dropping
    <3>5. Covered(e)
      BY <3>1, <3>2, <3>4, CoveredAlike DEF Represents
    <3> QED
      BY <1>7, <2>1, <3>1, <3>5
  <2> QED
    BY <1>5, <1>7, <2>1, <2>2
<1>10. CASE InsertRow(p)
  <2>1. call'[p] = Embedding(p) \/ call'[p] = StepTo(p, "replay")
    BY <1>0, <1>10, UpsertEffects DEF Becomes, Embedding
  <2>2. /\ (call'[p].past <=> call[p].past) /\ call[p].step = "insert" /\ call'[p].next = call[p].next
    BY <1>0, <1>10, <2>1, MoveFields, SameFields DEF InsertRow
  <2>3. e = call[p].event => HasRow(e)'
    BY <1>10, RowMade
  <2> QED
    BY <1>5, <1>7, <2>2, <2>3 DEF Covered
<1>11. CASE InsertVector(p) /\ call'[p] = StepTo(p, "replay")
  <2>1. /\ (call'[p].past <=> call[p].past) /\ call[p].step = "embed" /\ call'[p].next = call[p].next
    BY <1>0, <1>11, MoveFields, SameFields DEF InsertVector
  <2> QED
    BY <1>5, <1>7, <2>1
<1>12. CASE OpenScan(p) /\ call'[p] = Scanning(p)
  <2>1. call'[p].next = first + 1 /\ first' = first /\ first \in Nat
    BY <1>0, <1>12, MoveFields DEF OpenScan, logged, TypeInv
  <2>2. e >= first' + 1
    BY <1>0, <2>1 DEF Remembered, Log, Extends, TypeInv
  <2>3. e \in Int
    BY <1>0, <2>1 DEF Remembered, Log
  <2> QED
    BY <2>1, <2>2, <2>3
<1>13. CASE Replay(p)
  <2>1. call[p].step = "replay" /\ call[p].next <= Len(events) /\ events' = events
    BY <1>0, <1>13 DEF Replay, At, AtEOF, logged, TypeInv
  <2>2. e \in Int /\ events[e].kind = "remember"
    BY <2>1 DEF Remembered, Log
  <2>3. CASE call'[p] = Skipped(p)
    <3>1. call'[p].next = call[p].next + 1 /\ call'[p].past = (call[p].next = call[p].since)
      BY <1>0, <2>3, MoveFields
    <3>2. call[p].next = call[p].since
      BY <3>1
    <3>3. call[p].next >= 1
      BY <1>0 DEF Stands
    <3>4. e <= call[p].since /\ call[p].since # None
      BY <1>0, <2>2, <3>1, <3>2, <3>3 DEF None
    <3>5. e \in Born
      BY <1>0, <2>1, <3>1, OldRemembered DEF TypeInv
    <3>6. Covered(e)
      BY <1>2, <3>4, <3>5 DEF SinceInv
    <3> QED
      BY <1>7, <2>1, <3>5, <3>6
  <2>4. CASE call[p].past /\ call'[p] = Upserting(p)
    <3>1. call'[p].next = call[p].next + 1 /\ call'[p].event = call[p].next /\ call'[p].step \in {"check", "insert"}
      BY <1>0, <2>4, MoveFields
    <3>2. CASE e = call[p].next
      BY <3>1, <3>2
    <3>3. CASE e < call[p].next
      BY <1>5, <1>7, <2>1, <2>4, <3>3
    <3> QED
      BY <1>0, <2>2, <3>1, <3>2, <3>3
  <2>5. CASE call[p].past /\ events[call[p].next].kind = "forget" /\ call'[p] = Deleting(p)
    <3>1. call'[p].next = call[p].next + 1 /\ e # call[p].next
      BY <1>0, <2>2, <2>5, MoveFields
    <3>2. e < call[p].next
      BY <1>0, <2>2, <3>1
    <3> QED
      BY <1>5, <1>7, <2>1, <2>5, <3>2
  <2> QED
    BY <1>0, <1>13, <2>3, <2>4, <2>5, ReplayEffects DEF Becomes
<1>14. CASE EndScan(p) /\ call'[p] = StepTo(p, "last")
  <2>1. /\ (call'[p].past <=> call[p].past) /\ call[p].step = "replay" /\ call'[p].next = call[p].next
    BY <1>0, <1>14, MoveFields, SameFields DEF EndScan, At
  <2> QED
    BY <1>5, <1>7, <2>1
<1> QED
  BY <1>2, <1>3, <1>4, <1>8, <1>9, <1>10, <1>11, <1>12, <1>13, <1>14 DEF RebuildMoves

-----------------------------------------------------------------------------
\* Without dedup there is no check before the insert, nor a lock.
LEMMA InsertMoves ==
  ASSUME Control, [Next]_vars, NEW q \in Caller, Remembers(q), call[q].step = "insert"
  PROVE  call'[q] = call[q] \/ InsertRow(q) \/ InsertFails(q) \/ Crash
<1>0. TypeInv /\ call[q].op = "remember"
  BY DEF Control, Remembers
<1>1. ASSUME NEW p \in Caller, Truncate(p) PROVE call'[q] = call[q]
  <2>1. q # p
    BY <1>0, <1>1 DEF Truncate, At
  <2> QED
    BY <1>0, <1>1, <2>1, TruncateEffects DEF Rebuilds
<1>2. ASSUME NEW p \in Caller, p # q, Remember(p) \/ InsertRow(p) \/ LogForget(p) \/ WriteRow(p) \/ Unchanging(p) PROVE call'[q] = call[q]
  BY <1>0, <1>1, <1>2, OthersStay DEF Others
<1>3. ASSUME Remember(q) \/ InsertRow(q) \/ LogForget(q) \/ WriteRow(q) \/ Unchanging(q), ~Truncate(q)
      PROVE  InsertRow(q) \/ InsertFails(q)
  BY <1>0, <1>3 DEF Remember, LogForget, Unchanging, LockDedup, CheckNeighbours, InsertVector,
     Forget, ForgetVector, ReadMarker, DropRows, DropMetadata, DropVectors, OpenScan, Replay, EndScan,
     Snapshot, ReadLast, SetMarker, Purge, ReadRow, WriteRow, At, Ready
<1>4. UNCHANGED vars => call'[q] = call[q]
  BY DEF vars
<1> QED
  BY <1>1, <1>2, <1>3, <1>4, NextActions

\* A remember that a rebuild does not see comes to an end: a row, a failure, or exposed to the race.
LEMMA SettledStays ==
  ASSUME Control, ExposedInv, Grows, [Next]_vars, NEW p \in Caller, Rebuilds(p), NEW e \in Born, Settled(e)
  PROVE  Settled(e)'
<1>0. /\ TypeInv /\ Extends /\ dedup \in BOOLEAN /\ \A q \in Caller : Stands(q)
  BY Extending DEF Control, TypeInv
<1>1. Covered(e) => Settled(e)'
  BY <1>0, CoveredStays DEF Settled
<1>2. e \in failed => Settled(e)'
  BY DEF Settled, Grows
<1>3. ASSUME NEW q \in Caller, Remembers(q), call[q].event = e, call[q].step # "embed" PROVE Settled(e)'
  <2>1. CASE dedup
    <3>1. e \in exposed
      BY <1>0, <1>3 DEF ExposedInv, Stands, Remembers, Rebuilds, Upserts
    <3> QED
      BY <1>1, <2>1, <3>1, AlikeEquivalence DEF Covered, Excused
  <2>2. CASE ~dedup
    <3>1. call[q].step = "insert"
      BY <1>0, <1>3, <2>2 DEF Stands, Remembers
    <3>2. InsertRow(q) => HasRow(e)'
      BY <1>3, RowMade
    <3>3. InsertFails(q) => e \in failed'
      BY <1>3 DEF InsertFails, Remembers
    <3>4. Crash => e \in failed'
      BY <1>3 DEF Crash, InFlight, Remembers
    <3>5. call'[q] = call[q] => Remembers(q)' /\ call'[q].event = e /\ call'[q].step # "embed"
      BY <1>3 DEF Remembers
    <3> QED
      BY <1>3, <3>1, <3>2, <3>3, <3>4, <3>5, InsertMoves DEF Settled, Covered
  <2> QED
    BY <1>0, <2>1, <2>2
<1> QED
  BY <1>1, <1>2, <1>3 DEF Settled

\* What the scan will not see settles by itself.
LEMMA LateStep ==
  ASSUME Control, ExposedInv, LateInv, [Next]_vars
  PROVE  LateInv'
<1> DEFINE Late(p, e) == (call[p].end # None /\ e > call[p].end) \/ (call[p].step = "last" /\ e >= call[p].next)
<1> SUFFICES ASSUME ~crossed', NEW p \in Caller, Rebuilds(p)', NEW e \in Born', Late(p, e)' PROVE Settled(e)'
  BY DEF LateInv
<1>0. /\ TypeInv /\ Extends /\ \A q \in Caller : Stands(q)
      /\ call[p].next \in Nat /\ call[p].end \in Nat /\ Len(events) \in Nat
  <2>1. TypeInv /\ \A q \in Caller : Stands(q)
    BY DEF Control
  <2>2. Len(events) \in Nat
    BY <2>1 DEF TypeInv
  <2> QED
    BY <2>1, <2>2, Extending, Fields
<1>1. ASSUME call'[p] = Beginning(None) \/ (marker # None /\ call'[p] = Beginning(marker)) PROVE FALSE
  BY <1>1 DEF Beginning, Idle
<1>2. Rebuilds(p) /\ RebuildMoves(p) /\ ~crossed
  BY <1>0, <1>1, LoneFlow
<1>3. ASSUME e \notin Born PROVE Settled(e)'
  <2>1. PICK q \in Caller : Remember(q) /\ e = Len(events) + 1
    BY <1>0, <1>3, NewEvent
  <2>2. call'[q] = Starting(e)
    BY <1>0, <2>1, RememberBecomes DEF Becomes
  <2>3. Starting(e).op = "remember" /\ Starting(e).event = e /\ Starting(e).step # "embed"
    BY DEF Starting, Idle
  <2> QED
    BY <2>2, <2>3 DEF Settled, Remembers
<1>4. ASSUME e \in Born PROVE Late(p, e)
  <2>0. e \in 1 .. Len(events)
    BY <1>4 DEF Born
  <2>1. CASE call'[p] = call[p]
    BY <2>1
  <2>2. CASE call'[p] = Truncated(p)
    <3>1. call'[p].end = Len(events) /\ call'[p].step = call[p].step /\ call'[p].next = call[p].next
      BY <1>0, <2>2, MoveFields
    <3> QED
      BY <2>0, <3>1
  <2>3. CASE EndScan(p) /\ call'[p] = StepTo(p, "last")
    <3>1. call'[p].end = call[p].end /\ call'[p].next = call[p].next
      BY <1>0, <2>3, MoveFields, SameFields
    <3>2. call[p].next > Len(events) \/ (call[p].end # None /\ call[p].next > call[p].end)
      BY <2>3 DEF EndScan, AtEOF
    <3> QED
      BY <1>0, <2>0, <3>1, <3>2
  <2>4. CASE \E s \in {"replay", "insert", "metadata", "vectors", "open"} : call'[p] = StepTo(p, s)
    <3>1. call'[p].end = call[p].end /\ call'[p].step # "last"
      BY <1>0, <2>4, MoveFields, SameFields
    <3> QED
      BY <3>1
  <2>5. CASE call'[p] = Embedding(p) \/ call'[p] = Scanning(p) \/ call'[p] = Marking(p)
    <3>1. call'[p].end = call[p].end /\ call'[p].step # "last"
      BY <1>0, <2>5, MoveFields, SameFields
    <3> QED
      BY <3>1
  <2>6. CASE Replay(p)
    <3>1. call[p].step = "replay" /\ (dedup \/ ~dedup)
      BY <2>6 DEF Replay, At
    <3>2. Upserting(p).step \in {"check", "insert"}
      BY <1>0, <3>1, MoveFields
    <3>3. call'[p] \in {Skipped(p), Upserting(p), Deleting(p)}
      BY <1>0, <2>6, ReplayEffects DEF Becomes
    <3>4. call'[p].end = call[p].end /\ call'[p].step # "last"
      BY <1>0, <3>1, <3>2, <3>3, MoveFields, SameFields
    <3> QED
      BY <3>4
  <2> QED
    BY <1>2, <2>1, <2>2, <2>3, <2>4, <2>5, <2>6 DEF RebuildMoves
<1>5. ASSUME e \in Born PROVE Settled(e)'
  <2>1. Settled(e)
    BY <1>2, <1>4, <1>5 DEF LateInv
  <2>2. call[p].step \notin {"rows", "metadata"}
    <3>1. call[p].step \in Dropping \cup {"open"} => call[p].end = None
      BY <1>0, <1>2 DEF Stands, Rebuilds
    <3> QED
      BY <1>4, <1>5, <3>1 DEF Dropping
  <2> QED
    BY <1>2, <1>5, <2>1, <2>2, NoDropBeside, SettledStays
<1> QED
  BY <1>3, <1>5

-----------------------------------------------------------------------------
(***************************************************************************)
(* Each part of OnceInv.                                                   *)
(***************************************************************************)
\* A row is old, or made by this step, or it comes back and is known to.
LEMMA RowMoves ==
  ASSUME Control, [Next]_vars, NEW r \in rows'
  PROVE  \/ r \in rows /\ r \in 1 .. Len(made) /\ made'[r] = made[r] /\ made[r] \in Born
         \/ \E p \in Caller : InsertRow(p) /\ r = Len(made) + 1 /\ made'[r] = call[p].event
         \/ made'[r] \in Raced'
<1>0. TypeInv /\ Extends
  BY Extending DEF Control
<1>1. \/ r \in rows
      \/ \E p \in Caller : InsertRow(p) /\ r = Len(made) + 1
      \/ \E p \in Caller : WriteRow(p) /\ r = call[p].row
  <2>1. ASSUME NEW p \in Caller, InsertRow(p) PROVE r \in rows \/ r = Len(made) + 1
    BY <1>0, <2>1, InsertRowMakes
  <2>2. ASSUME NEW p \in Caller, Remember(p) \/ LogForget(p) \/ Unchanging(p) PROVE rows' \subseteq rows
    BY <2>2 DEF Remember, LogForget, Unchanging, LockDedup, CheckNeighbours, InsertFails, InsertVector, Forget, ForgetVector,
                ReadMarker, DropRows, DropMetadata, DropVectors, OpenScan, Replay, EndScan,
                Snapshot, ReadLast, SetMarker, Truncate, Purge, ReadRow, stores, RowsAfterDrop
  <2>3. ASSUME NEW p \in Caller, WriteRow(p) PROVE r \in rows \/ r = call[p].row
    BY <2>3 DEF WriteRow
  <2>4. ASSUME Crash \/ UNCHANGED vars PROVE rows' = rows
    BY <2>4 DEF Crash, vars, stores
  <2> QED
    BY <2>1, <2>2, <2>3, <2>4, NextActions
<1>2. ASSUME r \in rows PROVE r \in 1 .. Len(made) /\ made'[r] = made[r] /\ made[r] \in Born
  BY <1>0, <1>2 DEF TypeInv, Extends
<1>3. ASSUME NEW p \in Caller, InsertRow(p), r = Len(made) + 1 PROVE made'[r] = call[p].event
  BY <1>0, <1>3, InsertRowMakes
<1>4. ASSUME NEW p \in Caller, WriteRow(p), r = call[p].row, r \notin rows PROVE made'[r] \in Raced'
  BY <1>4 DEF WriteRow, Raced
<1> QED
  BY <1>1, <1>2, <1>3, <1>4

\* What has raced is known to as long as there are rows.
LEMMA RacedStays ==
  ASSUME Control, [Next]_vars, rows' # {}
  PROVE  Raced \subseteq Raced' /\ exposed \subseteq exposed'
<1>0. revived \subseteq revived'
  BY Extending DEF Control, Extends
<1>1. ASSUME NEW p \in Caller, DropRows(p) PROVE FALSE
  BY <1>1 DEF DropRows, RowsAfterDrop
<1>2. ASSUME NEW p \in Caller, DropMetadata(p) PROVE exposed' = exposed
  BY <1>2 DEF DropMetadata
<1>3. exposed \subseteq exposed'
  BY <1>1, <1>2, Growing DEF Grows, Keeps
<1>4. ASSUME NEW p \in Caller, Remember(p) \/ InsertRow(p) \/ LogForget(p) \/ WriteRow(p) \/ Unchanging(p), ~DropRows(p)
      PROVE  unseen \subseteq unseen'
  BY <1>4 DEF Remember, InsertRow, LogForget, WriteRow, Unchanging, LockDedup, CheckNeighbours, InsertFails, InsertVector,
              Forget, ForgetVector, ReadMarker, DropMetadata, DropVectors, OpenScan, Replay, EndScan,
              Snapshot, ReadLast, SetMarker, Truncate, Purge, ReadRow, history
<1>5. ASSUME Crash \/ UNCHANGED vars PROVE unseen' = unseen
  BY <1>5 DEF Crash, vars, history
<1> QED
  BY <1>0, <1>1, <1>3, <1>4, <1>5, NextActions DEF Raced

\* Two upserts at once: two remembers exclude each other, and one beside a rebuild is exposed.
LEMMA TwoUpserts ==
  ASSUME Control, ExposedInv, dedup, NEW p \in Caller, NEW q \in Caller, p # q,
         call[p].step \in {"check", "insert", "embed"}, call[q].step \in {"check", "insert", "embed"}
  PROVE  call[p].event \in exposed \/ call[q].event \in exposed
<1>0. TypeInv /\ (\A c \in Caller : Stands(c)) /\ LockInv
  BY DEF Control
<1>1. (Remembers(p) \/ Rebuilds(p)) /\ (Remembers(q) \/ Rebuilds(q))
  BY <1>0, StepOwner
<1>2. ~(Remembers(p) /\ Remembers(q))
  BY <1>0 DEF LockInv
<1> QED
  BY <1>1, <1>2 DEF ExposedInv, Upserts

\* A caller about to write a vector writes it, fails to, or is still about to.
LEMMA EmbedMoves ==
  ASSUME Control, [Next]_vars, NEW p \in Caller, call[p].step = "embed"
  PROVE  InsertVector(p) \/ Crash \/ (call'[p].step = "embed" /\ call'[p].row = call[p].row)
<1>0. TypeInv /\ Stands(p)
  BY DEF Control
<1>1. ASSUME NEW q \in Caller, Truncate(q) PROVE call'[p].step = "embed" /\ call'[p].row = call[p].row
  <2>0. p # q
    BY <1>1 DEF Truncate, At
  <2>1. call'[p] = call[p] \/ call'[p] = Truncated(p)
    BY <1>0, <1>1, <2>0, TruncateEffects DEF Truncated
  <2> QED
    BY <1>0, <2>1, MoveFields
<1>2. ASSUME NEW q \in Caller, p # q, Remember(q) \/ InsertRow(q) \/ LogForget(q) \/ WriteRow(q) \/ Unchanging(q), ~Truncate(q)
      PROVE  call'[p] = call[p]
  BY <1>0, <1>2, OthersStay DEF Others
<1>3. ASSUME Remember(p) \/ InsertRow(p) \/ LogForget(p) \/ WriteRow(p) \/ Unchanging(p), ~Truncate(p) PROVE InsertVector(p)
  <2>1. call[p].op # "idle"
    BY <1>0 DEF Stands
  <2> QED
    BY <1>3, <2>1 DEF Remember, InsertRow, LogForget, WriteRow, Unchanging, LockDedup, CheckNeighbours, InsertFails,
       Forget, ForgetVector, ReadMarker, DropRows, DropMetadata, DropVectors, OpenScan, Replay, EndScan,
       Snapshot, ReadLast, SetMarker, Purge, ReadRow, WriteRow, At, Ready
<1>4. UNCHANGED vars => call'[p] = call[p]
  BY DEF vars
<1> QED
  BY <1>1, <1>2, <1>3, <1>4, NextActions

\* Vectors of rows go with the drop of all vectors only, or with a forget whose row has come back.
LEMMA VectorsStay ==
  ASSUME Control, [Next]_vars, NEW r \in rows, r \in vectors, r \notin vectors'
  PROVE  made[r] \in Raced \/ \E p \in Caller : DropVectors(p)
<1>1. ASSUME NEW p \in Caller, ForgetVector(p) PROVE made[r] \in Raced
  <2>1. r = call[p].row /\ call[p].op = "forget"
    BY <1>1 DEF ForgetVector, At
  <2> QED
    BY <2>1 DEF Control, Stands, Raced
<1>2. ASSUME NEW p \in Caller, Remember(p) \/ InsertRow(p) \/ LogForget(p) \/ WriteRow(p) \/ Unchanging(p), ~ForgetVector(p), ~DropVectors(p)
      PROVE  vectors \subseteq vectors'
  BY <1>2 DEF Remember, InsertRow, LogForget, WriteRow, Unchanging, LockDedup, CheckNeighbours, InsertFails, InsertVector,
              Forget, ReadMarker, DropRows, DropMetadata, OpenScan, Replay, EndScan,
              Snapshot, ReadLast, SetMarker, Truncate, Purge, ReadRow, stores
<1>3. ASSUME Crash \/ UNCHANGED vars PROVE vectors' = vectors
  BY <1>3 DEF Crash, vars, stores
<1> QED
  BY <1>1, <1>2, <1>3, NextActions

\* Each row has its vector, or is about to, or raced.
LEMMA SeenStep ==
  ASSUME Control, SeenInv, FullInv, [Next]_vars
  PROVE  SeenInv'
<1> SUFFICES ASSUME dedup', NEW r \in rows'
             PROVE  \/ r \in vectors' \/ made'[r] \in Raced'
                    \/ \E p \in Caller : call'[p].step = "embed" /\ call'[p].row = r
  BY DEF SeenInv
<1>0. TypeInv /\ Extends /\ dedup /\ \A p \in Caller : Stands(p)
  BY Extending DEF Control, Extends
<1>1. Raced \subseteq Raced'
  BY RacedStays
<1>2. ASSUME NEW p \in Caller, InsertRow(p), r = Len(made) + 1 PROVE call'[p].step = "embed" /\ call'[p].row = r
  <2>1. call'[p] = Embedding(p)
    BY <1>0, <1>2, UpsertEffects DEF Becomes, Embedding
  <2> QED
    BY <1>0, <1>2, <2>1, MoveFields
<1>3. ASSUME r \in rows, made'[r] = made[r], r \in vectors, r \notin vectors' PROVE made'[r] \in Raced'
  <2>0. CASE made[r] \in Raced
    BY <1>1, <1>3, <2>0
  <2> SUFFICES ASSUME made[r] \notin Raced PROVE FALSE
    BY <2>0
  <2>1. PICK p \in Caller : DropVectors(p)
    BY <1>3, VectorsStay
  <2>2. Rebuilds(p) /\ call[p].step = "vectors" /\ call[p].since = None
    BY <1>0, <2>1 DEF DropVectors, At, Rebuilds, Stands, Dropping
  <2>3. made[r] \in Raced
    BY <1>3, <2>2 DEF FullInv, Replayed, Dropping
  <2> QED
    BY <1>1, <1>3, <2>3
<1>4. ASSUME NEW p \in Caller, call[p].step = "embed", call[p].row = r, made'[r] = made[r], made[r] \in Born
      PROVE  \/ r \in vectors' \/ made'[r] \in Raced'
             \/ call'[p].step = "embed" /\ call'[p].row = r
  <2>1. made[r] = call[p].event
    BY <1>0, <1>4 DEF Stands
  <2>2. InsertVector(p) => r \in vectors' \/ made'[r] \in Raced'
    BY <1>4, <2>1 DEF InsertVector, Raced
  <2>3. Crash => made'[r] \in Raced'
    BY <1>4, <2>1 DEF Crash, Raced
  <2> QED
    BY <1>4, <2>2, <2>3, EmbedMoves
<1> QED
  BY <1>0, <1>1, <1>2, <1>3, <1>4, RowMoves DEF SeenInv

\* With dedup on, whoever is about to insert has just checked, or is still there.
LEMMA InsertFlow ==
  ASSUME Control, [Next]_vars, dedup, NEW p \in Caller, call'[p].step = "insert"
  PROVE  /\ call'[p].event = call[p].event /\ call[p].event \in Born
         /\ ~InsertRow(p)
         /\ call[p].step = "insert" \/ CheckNeighbours(p)
<1>0. /\ TypeInv /\ \A q \in Caller : Stands(q)
      /\ TypeInv' /\ \A q \in Caller : Stands(q)'
  BY ControlStep DEF Control
<1>1. Remembers(p)' \/ Rebuilds(p)'
  BY <1>0 DEF TypeInv, CallType, OpName, Stands, Dropping, Remembers, Rebuilds
<1>2. ~InsertRow(p)
  <2>1. InsertRow(p) => call'[p] = Embedding(p)
    BY <1>0, UpsertEffects DEF Becomes, Embedding
  <2> QED
    BY <1>0, <2>1, MoveFields
<1>3. CASE Remembers(p)'
  <2>1. ASSUME Remember(p), call'[p] = Starting(Len(events) + 1) PROVE FALSE
    BY <2>1 DEF Starting, Idle
  <2>2. call'[p] = StepTo(p, "check") => FALSE
    BY <1>0, MoveFields
  <2>3. call'[p] = StepTo(p, "insert") => call'[p].event = call[p].event
    BY <1>0, MoveFields
  <2>4. call'[p].event = call[p].event /\ (call[p].step = "insert" \/ CheckNeighbours(p))
    BY <1>0, <1>2, <1>3, <2>1, <2>2, <2>3, RememberFlow
  <2> QED
    BY <1>0, <1>2, <2>4, StepOwner DEF CheckNeighbours
<1>4. CASE Rebuilds(p)'
  <2>1. ASSUME call'[p] = Beginning(None) \/ (marker # None /\ call'[p] = Beginning(marker)) PROVE FALSE
    BY <2>1 DEF Beginning, Idle
  <2>2. RebuildMoves(p)
    BY <1>0, <1>4, <2>1, RebuildFlow
  <2>3. ~Replay(p)
    <3>1. ASSUME Replay(p) PROVE call'[p].step \in {"replay", "check"}
      <4>1. call[p].step = "replay"
        BY <3>1 DEF Replay, At
      <4>2. call'[p] \in {Skipped(p), Upserting(p), Deleting(p)}
        BY <1>0, <3>1, ReplayEffects DEF Becomes
      <4> QED
        BY <1>0, <4>1, <4>2, MoveFields
    <3> QED
      BY <3>1
  <2>4. call'[p].event = call[p].event /\ (call[p].step = "insert" \/ CheckNeighbours(p))
    BY <1>0, <1>2, <2>2, <2>3, MoveFields DEF RebuildMoves
  <2> QED
    BY <1>0, <1>2, <2>4, StepOwner DEF CheckNeighbours
<1> QED
  BY <1>1, <1>3, <1>4

\* A check that passes has missed only what raced.
LEMMA CheckMisses ==
  ASSUME Control, ExposedInv, SeenInv, [Next]_vars, dedup, NEW p \in Caller, CheckNeighbours(p),
         call'[p].step = "insert", NEW r \in rows, Alike(made[r], call[p].event)
  PROVE  {made[r], call[p].event} \cap Raced' # {}
<1>0. TypeInv /\ (\A q \in Caller : Stands(q)) /\ call[p].step = "check"
  BY DEF Control, CheckNeighbours
<1>1. Raced \subseteq Raced' /\ exposed \subseteq Raced'
  BY DEF CheckNeighbours, Raced
<1>2. ~Upserted(p)
  <2>1. Upserted(p) => call'[p] = Idle \/ call'[p] = StepTo(p, "replay")
    BY <1>0, UpsertBecomes DEF Becomes, Upsert
  <2> QED
    BY <1>0, <2>1, MoveFields, IdleFields
<1>3. ASSUME r \in vectors PROVE call[p].event \in Raced'
  <2>1. r \in Twins(call[p].event)
    BY <1>3 DEF Twins, Represents
  <2> QED
    BY <1>2, <2>1 DEF CheckNeighbours, Raced
<1>4. ASSUME NEW q \in Caller, call[q].step = "embed", call[q].row = r PROVE {made[r], call[p].event} \cap Raced' # {}
  <2>1. made[r] = call[q].event /\ p # q
    BY <1>0, <1>4 DEF Stands
  <2> QED
    BY <1>0, <1>1, <1>4, <2>1, TwoUpserts
<1> QED
  BY <1>1, <1>3, <1>4 DEF SeenInv

\* Between the check and the insert no other row of the same content appears unnoticed.
LEMMA CheckedStep ==
  ASSUME Control, ExposedInv, SeenInv, CheckedInv, [Next]_vars
  PROVE  CheckedInv'
<1> SUFFICES ASSUME dedup', NEW p \in Caller, call'[p].step = "insert", NEW r \in rows', Alike(made[r], call[p].event)'
             PROVE  {made'[r], call'[p].event} \cap Raced' # {}
  BY DEF CheckedInv
<1>0. TypeInv /\ Extends /\ dedup /\ Raced \subseteq Raced' /\ \A q \in Caller : Stands(q)
  BY Extending, RacedStays DEF Control, Extends
<1>1. PICK e \in Born : e = call[p].event /\ e = call'[p].event
  BY <1>0, InsertFlow
<1>2. call[p].step = "insert" \/ CheckNeighbours(p)
  BY <1>0, InsertFlow
<1>3. CASE r \in rows
  <2>1. PICK f \in Born : f = made[r] /\ f = made'[r]
    BY <1>0, <1>3 DEF TypeInv, Extends
  <2>2. Alike(f, e)' /\ (Alike(f, e)' = Alike(f, e))
    BY <1>0, <1>1, <2>1, BornStays
  <2>3. Alike(f, e)
    BY <2>2
  <2>4. CASE call[p].step = "insert"
    BY <1>0, <1>1, <1>3, <2>1, <2>3, <2>4 DEF CheckedInv
  <2>5. CASE CheckNeighbours(p)
    BY <1>0, <1>1, <1>3, <2>1, <2>3, <2>5, CheckMisses
  <2> QED
    BY <1>2, <2>4, <2>5
<1>4. ASSUME NEW q \in Caller, InsertRow(q), made'[r] = call[q].event PROVE {made'[r], call'[p].event} \cap Raced' # {}
  <2>1. call[q].step = "insert" /\ p # q /\ call[p].step \in {"check", "insert"}
    BY <1>0, <1>2, <1>4, InsertFlow DEF InsertRow, CheckNeighbours
  <2>2. call[p].event \in Raced \/ call[q].event \in Raced
    BY <1>0, <2>1, TwoUpserts DEF Raced
  <2> QED
    BY <1>0, <1>1, <1>4, <2>2
<1>5. made'[r] \in Raced' => {made'[r], call'[p].event} \cap Raced' # {}
  OBVIOUS
<1> QED
  BY <1>3, <1>4, <1>5, RowMoves

\* With dedup on two rows of one content have raced.
LEMMA DedupStep ==
  ASSUME Control, CheckedInv, DedupInv, [Next]_vars
  PROVE  DedupInv'
<1> SUFFICES ASSUME dedup', NEW r \in rows', NEW s \in rows', Twice(r, s)' PROVE {made'[r], made'[s]} \cap Raced' # {}
  BY DEF DedupInv
<1>0. TypeInv /\ Extends /\ dedup /\ Raced \subseteq Raced' /\ \A q \in Caller : Stands(q)
  BY Extending, RacedStays DEF Control, Extends
<1>1. r # s /\ Alike(made[r], made[s])'
  BY DEF Twice
<1>2. ASSUME NEW x \in Born, NEW y \in Born, x = made'[r], y = made'[s] PROVE Alike(x, y) /\ Alike(y, x)
  <2>1. Alike(x, y)' /\ Alike(x, y)' = Alike(x, y)
    BY <1>0, <1>1, <1>2, BornStays
  <2> QED
    BY <2>1, AlikeEquivalence
<1>3. CASE r \in rows /\ s \in rows
  <2>1. made'[r] = made[r] /\ made'[s] = made[s] /\ made[r] \in Born /\ made[s] \in Born
    BY <1>0, <1>3 DEF TypeInv, Extends
  <2> QED
    BY <1>0, <1>1, <1>2, <1>3, <2>1 DEF DedupInv, Twice
<1>4. ASSUME NEW p \in Caller, InsertRow(p), NEW t \in rows, NEW u \in rows', {t, u} = {r, s}, made'[u] = call[p].event
      PROVE  {made'[r], made'[s]} \cap Raced' # {}
  <2>1. made'[t] = made[t] /\ made[t] \in Born
    BY <1>0, <1>4 DEF TypeInv, Extends
  <2>2. call[p].step = "insert" /\ call[p].event \in Born
    BY <1>0, <1>4, StepOwner DEF InsertRow
  <2>3. Alike(made[t], call[p].event)
    BY <1>2, <1>4, <2>1, <2>2
  <2> QED
    BY <1>0, <1>4, <2>1, <2>2, <2>3 DEF CheckedInv
<1>5. made'[r] \in Raced' \/ made'[s] \in Raced' => {made'[r], made'[s]} \cap Raced' # {}
  OBVIOUS
<1> QED
  BY <1>1, <1>3, <1>4, <1>5, RowMoves

\* What a rebuild has replayed stays behind it.
LEMMA ReplayedStays ==
  ASSUME Control, NEW p \in Caller, Rebuilds(p), RebuildMoves(p), NEW e \in Born, Replayed(p, e)
  PROVE  Replayed(p, e)'
<1> DEFINE Open == Dropping \cup {"open"}
<1>0. /\ TypeInv /\ call[p].next \in Nat /\ e \in Nat
      /\ call[p].step \notin Open /\ e < call[p].next
  <2>1. TypeInv
    BY DEF Control
  <2>2. e \in Nat
    BY <2>1 DEF TypeInv, Born
  <2> QED
    BY <2>1, <2>2, Fields DEF Replayed
<1>1. ~DropRows(p) /\ ~DropMetadata(p) /\ ~DropVectors(p) /\ ~OpenScan(p)
  BY <1>0 DEF DropRows, DropMetadata, DropVectors, OpenScan, At, Dropping
<1>2. CASE call'[p] = call[p] \/ call'[p] = Truncated(p)
  <2>1. call'[p].step = call[p].step /\ call'[p].next = call[p].next /\ call'[p].event = call[p].event
    BY <1>0, <1>2, MoveFields
  <2> QED
    BY <2>1 DEF Replayed
<1>3. ASSUME call'[p].step \in {"replay", "embed", "last", "mark"}, call'[p].next \in {call[p].next, call[p].next + 1}
      PROVE  Replayed(p, e)'
  BY <1>0, <1>3 DEF Replayed, Dropping
<1>4. CASE CheckNeighbours(p) /\ (call'[p] = StepTo(p, "replay") \/ call'[p] = StepTo(p, "insert"))
  <2>1. /\ call[p].step = "check" /\ call'[p].step \in {"replay", "insert"}
        /\ call'[p].next = call[p].next /\ call'[p].event = call[p].event
    BY <1>0, <1>4, MoveFields DEF CheckNeighbours
  <2> QED
    BY <1>0, <2>1 DEF Replayed, Dropping
<1>5. CASE InsertRow(p) \/ InsertVector(p) \/ EndScan(p) \/ ReadLast(p)
  <2>1. CASE call'[p] = Embedding(p) \/ call'[p] = Marking(p) \/ \E s \in {"replay", "last"} : call'[p] = StepTo(p, s)
    <3>1. call'[p].step \in {"replay", "embed", "last", "mark"} /\ call'[p].next = call[p].next
      BY <1>0, <2>1, MoveFields
    <3> QED
      BY <1>3, <3>1
  <2>2. ~Replay(p) /\ ~CheckNeighbours(p)
    BY <1>5 DEF InsertRow, InsertVector, EndScan, ReadLast, Replay, CheckNeighbours, At
  <2> QED
    BY <1>1, <1>2, <2>1, <2>2 DEF RebuildMoves
<1>6. CASE Replay(p)
  <2>1. call[p].step = "replay" /\ (dedup \/ ~dedup)
    BY <1>6 DEF Replay, At
  <2>2. CASE call'[p] = Skipped(p) \/ call'[p] = Deleting(p)
    <3>1. call'[p].step = "replay" /\ call'[p].next = call[p].next + 1
      BY <1>0, <2>1, <2>2, MoveFields
    <3> QED
      BY <1>3, <3>1
  <2>3. CASE call'[p] = Upserting(p)
    <3>1. call'[p].step \in {"check", "insert"} /\ call'[p].next = call[p].next + 1 /\ call'[p].event = call[p].next
      BY <1>0, <2>1, <2>3, MoveFields
    <3> QED
      BY <1>0, <3>1 DEF Replayed, Dropping
  <2> QED
    BY <1>0, <1>6, <2>2, <2>3, ReplayEffects DEF Becomes
<1> QED
  BY <1>1, <1>2, <1>4, <1>5, <1>6 DEF RebuildMoves

\* After its drop a full rebuild meets only rows it replayed and rows that raced with it.
LEMMA FullStep ==
  ASSUME Control, ExposedInv, FullInv, [Next]_vars
  PROVE  FullInv'
<1> SUFFICES ASSUME NEW p \in Caller, Rebuilds(p)', call'[p].since = None, call'[p].step # "rows"
             PROVE  /\ \A r \in rows' : made'[r] \in Raced' \/ Replayed(p, made[r])'
                    /\ \A r, s \in rows' : r # s /\ made'[r] = made'[s] => made'[r] \in Raced'
  BY DEF FullInv
<1>0. /\ TypeInv /\ Extends /\ \A q \in Caller : Stands(q)
      /\ rows' # {} => Raced \subseteq Raced'
  BY Extending, RacedStays DEF Control
<1>1. ASSUME call'[p] = Beginning(None) \/ (marker # None /\ call'[p] = Beginning(marker)) PROVE FALSE
  BY <1>1 DEF Beginning, Idle
<1>2. Rebuilds(p) /\ RebuildMoves(p) /\ call[p].since = None
  BY <1>0, <1>1, RebuildFlow, SinceMoves
<1>3. CASE DropRows(p)
  BY <1>3 DEF DropRows, RowsAfterDrop
<1>4. CASE ~DropRows(p)
  <2>1. call[p].step # "rows"
    <3>1. ASSUME call[p].step = "rows" PROVE call'[p] = call[p]
      BY <1>2, <1>4, <3>1 DEF RebuildMoves, CheckNeighbours, InsertRow, InsertVector, DropMetadata, DropVectors,
         OpenScan, Replay, EndScan, ReadLast, At, Dropping
    <3> QED
      BY <3>1
  <2>2. ASSUME NEW q \in Caller, InsertRow(q), q # p PROVE call[q].event \in Raced
    BY <1>2, <2>2 DEF ExposedInv, Upserts, InsertRow, Raced
  <2>3. ASSUME InsertRow(p), NEW e, e = call[p].event PROVE Replayed(p, e)'
    <3>1. call[p].next = e + 1 /\ e \in Nat
      BY <1>0, <1>2, <2>3, Fields DEF Stands, InsertRow, Rebuilds
    <3>2. call'[p] = Embedding(p) \/ call'[p] = StepTo(p, "replay")
      BY <1>0, <2>3, UpsertEffects DEF Becomes, Embedding
    <3>3. call'[p].next = e + 1 /\ call'[p].step \in {"embed", "replay"}
      BY <1>0, <3>1, <3>2, MoveFields
    <3> QED
      BY <3>1, <3>3 DEF Replayed, Dropping
  <2>4. ASSUME NEW r \in rows' PROVE made'[r] \in Raced' \/ Replayed(p, made[r])'
    <3>1. CASE r \in rows /\ made'[r] = made[r] /\ made[r] \in Born
      <4>1. PICK e \in Born : e = made[r] /\ e = made'[r]
        BY <3>1
      <4>2. e \in Raced \/ Replayed(p, e)
        BY <1>2, <2>1, <3>1, <4>1 DEF FullInv
      <4>3. Replayed(p, e) => Replayed(p, e)'
        BY <1>2, ReplayedStays
      <4> QED
        BY <1>0, <4>1, <4>2, <4>3
    <3>2. ASSUME NEW q \in Caller, InsertRow(q), made'[r] = call[q].event PROVE made'[r] \in Raced' \/ Replayed(p, made[r])'
      <4>1. CASE q = p
        <5>1. PICK e : e = call[p].event /\ e = made'[r]
          BY <3>2, <4>1
        <5>2. Replayed(p, e)'
          BY <2>3, <3>2, <4>1, <5>1
        <5> QED
          BY <5>1, <5>2
      <4>2. CASE q # p
        BY <1>0, <2>2, <3>2, <4>2
      <4> QED
        BY <4>1, <4>2
    <3> QED
      BY <3>1, <3>2, RowMoves
  <2>5. ASSUME NEW r \in rows', NEW s \in rows', r # s, made'[r] = made'[s] PROVE made'[r] \in Raced'
    <3>1. CASE r \in rows /\ s \in rows
      <4>1. made'[r] = made[r] /\ made'[s] = made[s]
        BY <1>0, <3>1 DEF TypeInv, Extends
      <4> QED
        BY <1>0, <1>2, <2>1, <2>5, <3>1, <4>1 DEF FullInv
    <3>2. ASSUME NEW q \in Caller, InsertRow(q), NEW t \in rows, NEW u \in rows', {t, u} = {r, s}, made'[u] = call[q].event
          PROVE  made'[r] \in Raced'
      <4>1. made'[t] = made[t] /\ made[t] = call[q].event
        BY <1>0, <2>5, <3>2 DEF TypeInv, Extends
      <4>2. CASE q = p
        <5>1. call[p].step = "insert"
          BY <3>2, <4>2 DEF InsertRow
        <5>2. made[t] \in Raced
          BY <1>2, <2>1, <3>2, <4>1, <4>2, <5>1 DEF FullInv, Replayed
        <5> QED
          BY <1>0, <2>5, <3>2, <4>1, <5>2
      <4>3. CASE q # p
        BY <1>0, <2>2, <2>5, <3>2, <4>1, <4>3
      <4> QED
        BY <4>2, <4>3
    <3> QED
      BY <2>5, <3>1, <3>2, RowMoves
  <2> QED
    BY <2>4, <2>5
<1> QED
  BY <1>3, <1>4

-----------------------------------------------------------------------------
\* The invariant holds of an empty engine.
LEMMA Initial ==
  Init => IInv
<1> SUFFICES ASSUME Init PROVE IInv
  OBVIOUS
<1>1. /\ Len(events) = 0 /\ events \in Seq([kind : {"remember"}, what : Content] \cup [kind : {"forget"}, what : Nat])
      /\ Len(made) = 0 /\ made \in Seq(Nat) /\ rows = {} /\ vectors = {} /\ marker = None /\ first = 0
      /\ \A p \in Caller : call[p] = Idle
  BY DEF Init
<1>2. TypeInv
  <2>1. crossed \in BOOLEAN /\ dedup \in BOOLEAN /\ acl \in BOOLEAN
    BY DEF Init
  <2>2. call \in [Caller -> CallType]
    BY IdleFields DEF Init
  <2> QED
    BY <1>1, <2>1, <2>2 DEF Init, TypeInv, None
<1>3. Control
  BY <1>1, <1>2, IdleFields DEF Control, Stands, BoundInv, LockInv, ForgetInv, LoneInv, Remembers, Rebuilds, None
<1>4. CompleteInv
  BY <1>1, IdleFields DEF CompleteInv, ExposedInv, MarkInv, SinceInv, VectorInv, EmbedInv, ScanInv, LateInv, Upserts, Remembers, Rebuilds
<1>5. OnceInv
  BY <1>1, IdleFields DEF OnceInv, SeenInv, CheckedInv, DedupInv, FullInv, Remembers, Rebuilds
<1> QED
  BY <1>3, <1>4, <1>5 DEF IInv

\* Every step keeps the invariant.
LEMMA Inductive ==
  ASSUME IInv, [Next]_vars
  PROVE  IInv'
<1>1. Control'
  BY ControlStep DEF IInv
<1>2. CompleteInv'
  BY ExposedStep, MarkStep, SinceStep, VectorStep, EmbedStep, ScanStep, LateStep DEF IInv, CompleteInv
<1>3. OnceInv'
  BY SeenStep, CheckedStep, DedupStep, FullStep DEF IInv, CompleteInv, OnceInv
<1> QED
  BY <1>1, <1>2, <1>3 DEF IInv

\* At the end of the scan what it passed is covered, and the rest settled.
LEMMA Complete ==
  IInv => RebuildComplete
<1> SUFFICES ASSUME IInv, NEW p \in Caller, At(p, "rebuild", "last"), ~crossed, NEW e \in Remembered
             PROVE  \/ HasRow(e) \/ Excused(e)
                    \/ MarkerLost(p) /\ e > call[p].since
                    \/ e >= call[p].next /\ (e \in InFlight \/ e \in failed)
  BY DEF RebuildComplete
<1>1. Rebuilds(p) /\ call[p].step = "last" /\ TypeInv /\ call[p].next \in Nat
  BY Fields DEF At, Rebuilds, IInv, Control
<1>2. e \in Born /\ e \in Nat
  BY <1>1 DEF Remembered, Log, Born, TypeInv
<1>3. CASE call[p].past /\ e < call[p].next
  BY <1>1, <1>3 DEF IInv, CompleteInv, ScanInv, Covered
<1>4. CASE e >= call[p].next
  <2>1. Settled(e)
    BY <1>1, <1>2, <1>4 DEF IInv, CompleteInv, LateInv
  <2> QED
    BY <1>4, <2>1 DEF Settled, Covered, InFlight, Remembers
<1>5. CASE ~call[p].past
  <2>1. MarkerLost(p) /\ call[p].since # None /\ call[p].since \in Nat
    BY <1>1, <1>5, Fields DEF IInv, Control, Stands, Rebuilds, MarkerLost, None
  <2>2. e <= call[p].since => Covered(e)
    BY <1>1, <1>2, <2>1 DEF IInv, CompleteInv, SinceInv
  <2> QED
    BY <1>2, <2>1, <2>2 DEF Covered
<1> QED
  BY <1>1, <1>2, <1>3, <1>4, <1>5

\* At the end of the scan rows that stand for one memory have raced.
LEMMA Once ==
  IInv => RebuiltOnce
<1> SUFFICES ASSUME IInv, NEW p \in Caller, At(p, "rebuild", "last"), call[p].since = None \/ dedup,
                    NEW r \in rows, NEW s \in rows, r # s, Alike(made[r], made[s])
             PROVE  {made[r], made[s]} \cap Raced # {}
  BY DEF RebuiltOnce, Raced
<1>1. dedup \in BOOLEAN /\ Rebuilds(p) /\ call[p].step = "last"
  BY DEF IInv, Control, TypeInv, At, Rebuilds
<1>2. CASE dedup
  BY <1>2 DEF IInv, OnceInv, DedupInv, Twice
<1>3. CASE ~dedup
  BY <1>1, <1>3 DEF IInv, OnceInv, FullInv, Alike
<1> QED
  BY <1>1, <1>2, <1>3

\* The inductive invariant of Rebuild, for any number of rebuilders.
THEOREM Invariant ==
  Spec => []IInv
BY Initial, Inductive, PTL DEF Spec

\* A rebuild that reaches its end, and that no other has crossed, leaves no memory of
\* the log behind, however many calls write, delete, purge and truncate beside it; but
\* for rows that were deleted or purged, memories that a marker had passed or that
\* raced in the dedup check, and those behind a marker that retention had removed
\* (Engram.rebuild).
THEOREM RebuildsLoseNothing ==
  Spec => []RebuildComplete
BY Invariant, Complete, PTL

\* A rebuild makes one row of a memory, whatever an earlier one left, also when others
\* cross it; but for an upsert that raced with it, a failed embedding, a row written
\* back after it was gone, and what access control hid from the check of a remember
\* (Engram.rebuild).
THEOREM RebuildsMakeOne ==
  Spec => []RebuiltOnce
BY Invariant, Once, PTL
=============================================================================
