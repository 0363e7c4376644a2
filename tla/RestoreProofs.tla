---------------------------- MODULE RestoreProofs ----------------------------
(***************************************************************************)
(* Proofs about Restore for any number of callers, dimensions, pins,       *)
(* events and faults, overlapping rebuilds included.                       *)
(***************************************************************************)
EXTENDS Restore, TLAPS

-----------------------------------------------------------------------------
(***************************************************************************)
(* The invariants                                                          *)
(***************************************************************************)
\* Whatever the calls and the events hold, they are functions and a sequence.
Shape == (\E R : call \in [Caller -> R]) /\ (\E S : events \in Seq(S))

RebuildStep == {"drop pins", "drop affect", "open", "replay"}
Persistence == {"read", "save", "reread", "log"}

\* What a call holds in its local variables where it stands.
Placed(c) ==
    /\ c.op = "idle" <=> c.step = "idle"
    /\ c.op \in {"pin", "unpin"} <=> c.step = "log pin"
    /\ c.op \in {"pin", "unpin"} <=> c.pin # None
    /\ c.op = "rebuild" <=> c.step \in RebuildStep
    /\ c.full => c.op = "rebuild"
    /\ c.step \in {"drop pins", "drop affect"} => c.full
    /\ c.step = "replay" => c.next > first /\ (c.full => c.next <= Len(events) + 1)
    /\ c.kind # None <=> c.step \in Persistence
    /\ c.step \in {"reread", "log"} => c.op \in LoggedOp /\ c.kind \in unlogged
    /\ c.op = "set_temperament" => c.kind = "temperament"

Control == \A p \in Caller : Placed(call[p])

\* A rebuild that has yet to replay event i.
Awaits(p, i) ==
    \/ call[p].full /\ call[p].step \in {"drop pins", "drop affect", "open"}
    \/ At(p, "replay") /\ call[p].next <= i

\* A pin is as the log has it, or a call or a rebuild under way will see to that.
Touches(x, i) == i \in Log /\ (Says(i, "pin", x) \/ Says(i, "unpin", x))
PinRight(x)   == x \in pins <=> LoggedPin(x)
PinAwaited(x) == \E p \in Caller : \E i \in Log : Touches(x, i) /\ Awaits(p, i)

PinInv ==
    \A x \in used \ blurred :
       x \in Pinning \/ PinRight(x) \/ PinAwaited(x) \/ \E p \in Caller : At(p, "drop pins")

PinCallInv ==
    \A p \in Caller : call[p].pin # None /\ call[p].pin \notin blurred =>
       /\ ~Rebuilding
       /\ call[p].pin \in pins <=> call[p].op = "pin"
       /\ \A q \in Caller : call[q].pin = call[p].pin => q = p

\* A row fits what is live.  Without a row, what is live is what Init makes of it.
Fits(k, d) == IF k = "temperament" THEN FromDict(d) = live.temperament ELSE d = live.mood
Correct(k) ==
    IF saved[k] = NoRow
    THEN IF k = "temperament" THEN live.temperament = base ELSE live.mood = Baseline(live.temperament)
    ELSE \A d \in saved[k] : Fits(k, d)

Busy(k)         == \E p \in Caller : call[p].kind = k /\ call[p].step \in {"read", "save"}
OfKind(k, i)    == i \in Log /\ events[i].kind = k
NewestOf(k, i)  == OfKind(k, i) /\ \A j \in Log : j > i => events[j].kind # k
RowAwaited(k)   == \E p \in Caller : \E i \in Log : OfKind(k, i) /\ Awaits(p, i)
Emptied(k)      == (\E p \in Caller : call[p].full /\ call[p].step \in {"open", "replay"}) /\ \A i \in Log : ~OfKind(k, i)

\* The newest row is right, unless named otherwise or while somebody sees to it.
RowAt(k) ==
    \/ k \in adrift \/ Busy(k) \/ Correct(k)
    \/ RowAwaited(k) \/ Emptied(k) \/ (Rebuilding /\ k \in unlogged)

RowInv == \A k \in Kind : RowAt(k)

\* The newest event is the newest row, and fits what is live.
EventAt(k) ==
    k \in unlogged \/ \A i \in Log : NewestOf(k, i) =>
       /\ saved[k] = {events[i].data} \/ RowAwaited(k)
       /\ k \in adrift \/ Busy(k) \/ Fits(k, events[i].data)

EventInv == \A k \in Kind : EventAt(k)

\* A call that is alone persists what is live.
AloneAt(p) ==
    call[p].alone /\ call[p].kind # None =>
       LET k == call[p].kind IN
       /\ ~Rebuilding
       /\ \A q \in Caller : call[q].kind = k => q = p
       /\ call[p].step \in {"save", "log"} => call[p].saw = live[k]
       /\ call[p].step \in {"reread", "log"} => k \notin adrift /\ saved[k] = {live[k]}

AloneInv == \A p \in Caller : AloneAt(p)
-----------------------------------------------------------------------------
(***************************************************************************)
(* What the actions do to the calls                                        *)
(***************************************************************************)
IsCalls(c) == \E R : c \in [Caller -> R]

\* p's record becomes c, the others keep theirs.
Becomes(p, c) == IsCalls(call') /\ call'[p] = c /\ \A q \in Caller : q # p => call'[q] = call[q]

\* Another's record, which may have lost its claim to be alone.
Untouched(q) ==
    /\ DOMAIN call'[q] = DOMAIN call[q] /\ call'[q].op = call[q].op /\ call'[q].step = call[q].step
    /\ call'[q].kind = call[q].kind /\ call'[q].saw = call[q].saw /\ call'[q].pin = call[q].pin
    /\ call'[q].full = call[q].full /\ call'[q].next = call[q].next
    /\ call'[q].alone \in BOOLEAN /\ (call'[q].alone /\ call[q].kind # None => call[q].alone)

Elsewhere(p) == IsCalls(call') /\ \A q \in Caller : q # p => Untouched(q)

\* A caller between two calls.
LEMMA IdleFields ==
  /\ DOMAIN Idle = {"op", "step", "kind", "saw", "alone", "pin", "full", "next"}
  /\ Idle.op = "idle" /\ Idle.step = "idle" /\ Idle.kind = None /\ Idle.alone = TRUE /\ Idle.pin = None
  /\ Idle.full = FALSE /\ Idle.next = 1
BY DEF Idle

\* A record of a call, changed or not.
LEMMA LocalBecomes ==
  ASSUME Shape, NEW p \in Caller, NEW c, Local(p, c)
  PROVE  Becomes(p, c)
<1>1. PICK R : call \in [Caller -> R]
  BY DEF Shape
<1>2. call' \in [Caller -> R \cup {c}] /\ call'[p] = c /\ \A q \in Caller : q # p => call'[q] = call[q]
  BY <1>1 DEF Local
<1> QED
  BY <1>2 DEF Becomes, IsCalls

\* A jump inside a call.
LEMMA GotoBecomes ==
  ASSUME Shape, NEW p \in Caller, NEW s, Goto(p, s)
  PROVE  Becomes(p, [call[p] EXCEPT !.step = s])
<1>1. PICK R : call \in [Caller -> R]
  BY DEF Shape
<1>2. Local(p, [call[p] EXCEPT !.step = s])
  BY <1>1 DEF Goto, Local
<1> QED
  BY <1>2, LocalBecomes

\* A step of p leaves the others alone.
LEMMA BecomesElsewhere ==
  ASSUME TypeOK, NEW p \in Caller, NEW c, Becomes(p, c)
  PROVE  Elsewhere(p)
<1>1. ASSUME NEW q \in Caller, q # p PROVE Untouched(q)
  BY <1>1 DEF Becomes, Untouched, TypeOK, CallOK
<1> QED
  BY <1>1 DEF Becomes, Elsewhere

\* A change of what is live: the record of the call that makes it.
Changer(p, op, k) ==
    /\ DOMAIN call'[p] = DOMAIN Idle /\ call'[p].op = op /\ call'[p].step = "read" /\ call'[p].kind = k
    /\ call'[p].alone = Alone(p, k) /\ call'[p].pin = None /\ call'[p].full = FALSE /\ call'[p].next = 1

\* Whoever was persisting the same kinds is no longer alone.
LEMMA ChangingMoves ==
  ASSUME TypeOK, NEW p \in Caller, NEW op, NEW k, NEW K, Changing(p, op, k, K)
  PROVE  /\ Elsewhere(p) /\ Changer(p, op, k)
         /\ \A q \in Caller : q # p /\ call[q].kind \in K => ~call'[q].alone
<1>1. IsCalls(call')
  <2>1. call' \in [Caller -> {call'[q] : q \in Caller}]
    BY DEF Changing
  <2> QED
    BY <2>1 DEF IsCalls
<1>2. Changer(p, op, k)
  <2> DEFINE c == [Idle EXCEPT !.op = op, !.step = "read", !.kind = k, !.alone = Alone(p, k)]
  <2>1. call'[p] = c
    BY DEF Changing
  <2>2. /\ DOMAIN c = DOMAIN Idle /\ c.op = op /\ c.step = "read" /\ c.kind = k /\ c.alone = Alone(p, k)
        /\ c.pin = None /\ c.full = FALSE /\ c.next = 1
    BY IdleFields
  <2> HIDE DEF c
  <2> QED
    BY <2>1, <2>2 DEF Changer
<1>3. ASSUME NEW q \in Caller, q # p PROVE Untouched(q) /\ (call[q].kind \in K => ~call'[q].alone)
  <2> DEFINE a == call[q].alone /\ call[q].kind \notin K
             c == [call[q] EXCEPT !.alone = a]
  <2>1. call'[q] = c
    BY <1>3 DEF Changing
  <2>2. DOMAIN call[q] = {"op", "step", "kind", "saw", "alone", "pin", "full", "next"} /\ call[q].alone \in BOOLEAN
    BY IdleFields DEF TypeOK, CallOK
  <2>3. /\ DOMAIN c = DOMAIN call[q] /\ c.op = call[q].op /\ c.step = call[q].step /\ c.kind = call[q].kind
        /\ c.saw = call[q].saw /\ c.pin = call[q].pin /\ c.full = call[q].full /\ c.next = call[q].next
        /\ c.alone = a
    BY <2>2
  <2>4. a \in BOOLEAN /\ (a => call[q].alone) /\ (call[q].kind \in K => ~a)
    BY <2>2
  <2> HIDE DEF c, a
  <2> QED
    BY <2>1, <2>3, <2>4 DEF Untouched
<1> QED
  BY <1>1, <1>2, <1>3 DEF Elsewhere

\* A call that returned, or a consolidation before its next stage.
Resting(p) ==
    /\ DOMAIN call'[p] = DOMAIN Idle /\ call'[p].kind = None /\ call'[p].pin = None /\ call'[p].full = FALSE
    /\ call'[p].next = 1 /\ call'[p].alone = TRUE
    /\ \/ call'[p].op = "idle" /\ call'[p].step = "idle"
       \/ call'[p].op = "consolidate" /\ call'[p].step \in {"drift", "update"}

\* A call that went on.
Advances(p) ==
    /\ Elsewhere(p)
    /\ DOMAIN call'[p] = DOMAIN Idle /\ call'[p].op = call[p].op /\ call'[p].kind = call[p].kind
    /\ call'[p].alone = call[p].alone /\ call'[p].pin = call[p].pin /\ call'[p].full = call[p].full

Returns(p) == Elsewhere(p) /\ Resting(p)

\* A call that ends leaves nothing behind.
LEMMA RestingMoves ==
  ASSUME Shape, TypeOK, NEW p \in Caller, Return(p) \/ Done(p) \/ Consolidate(p)
  PROVE  Returns(p)
<1> DEFINE next(s) == [Idle EXCEPT !.op = "consolidate", !.step = s]
<1>1. PICK c \in {Idle, next("drift"), next("update")} : Local(p, c)
  <2>1. CASE Consolidate(p)
    BY <2>1 DEF Consolidate
  <2>2. CASE Return(p) \/ Done(p)
    BY <2>2 DEF Return, Done
  <2> QED
    BY <2>1, <2>2
<1>2. Becomes(p, c) /\ Elsewhere(p)
  BY <1>1, LocalBecomes, BecomesElsewhere
<1>3. /\ DOMAIN c = DOMAIN Idle /\ c.kind = None /\ c.pin = None /\ c.full = FALSE /\ c.next = 1 /\ c.alone = TRUE
      /\ \/ c.op = "idle" /\ c.step = "idle"
         \/ c.op = "consolidate" /\ c.step \in {"drift", "update"}
  <2>1. CASE c = Idle
    <3> HIDE DEF next
    <3> QED
      BY <2>1, IdleFields
  <2>2. ASSUME NEW s \in {"drift", "update"}, c = next(s)
        PROVE  /\ DOMAIN c = DOMAIN Idle /\ c.kind = None /\ c.pin = None /\ c.full = FALSE /\ c.next = 1
               /\ c.alone = TRUE /\ c.op = "consolidate" /\ c.step \in {"drift", "update"}
    BY <2>2, IdleFields
  <2> HIDE DEF next
  <2> QED
    BY <2>1, <2>2
<1> QED
  BY <1>2, <1>3 DEF Becomes, Returns, Resting

\* The steps of a call that persists.
LEMMA PersistMoves ==
  ASSUME Shape, TypeOK, NEW p \in Caller
  PROVE  /\ ReadState(p) => /\ Advances(p) /\ call'[p].step = "save" /\ call'[p].saw = live[call[p].kind]
                            /\ call'[p].next = call[p].next
         /\ SaveRow(p) => Returns(p) \/ (Advances(p) /\ call'[p].step = "reread" /\ call'[p].next = call[p].next
                                         /\ call[p].op \in LoggedOp)
         /\ ReadAgain(p) => /\ Advances(p) /\ call'[p].step = "log" /\ call'[p].saw = live[call[p].kind]
                            /\ call'[p].next = call[p].next
<1>0. DOMAIN call[p] = {"op", "step", "kind", "saw", "alone", "pin", "full", "next"} /\ DOMAIN Idle = DOMAIN call[p]
  BY IdleFields DEF TypeOK, CallOK
<1>1. ASSUME NEW s, NEW v, Local(p, [call[p] EXCEPT !.saw = v, !.step = s])
      PROVE  Advances(p) /\ call'[p].step = s /\ call'[p].saw = v /\ call'[p].next = call[p].next
  <2>1. Becomes(p, [call[p] EXCEPT !.saw = v, !.step = s]) /\ Elsewhere(p)
    BY <1>1, LocalBecomes, BecomesElsewhere
  <2> QED
    BY <1>0, <2>1 DEF Becomes, Advances
<1>2. ASSUME ReadState(p)
      PROVE  /\ Advances(p) /\ call'[p].step = "save" /\ call'[p].saw = live[call[p].kind]
             /\ call'[p].next = call[p].next
  BY <1>1, <1>2 DEF ReadState
<1>3. ASSUME ReadAgain(p)
      PROVE  /\ Advances(p) /\ call'[p].step = "log" /\ call'[p].saw = live[call[p].kind]
             /\ call'[p].next = call[p].next
  BY <1>1, <1>3 DEF ReadAgain
<1>4. ASSUME SaveRow(p), Goto(p, "reread")
      PROVE  Advances(p) /\ call'[p].step = "reread" /\ call'[p].next = call[p].next
  <2>1. Becomes(p, [call[p] EXCEPT !.step = "reread"]) /\ Elsewhere(p)
    BY <1>4, GotoBecomes, BecomesElsewhere
  <2> QED
    BY <1>0, <2>1 DEF Becomes, Advances
<1>5. ASSUME SaveRow(p), Return(p) PROVE Returns(p)
  BY <1>5, RestingMoves
<1> QED
  BY <1>2, <1>3, <1>4, <1>5 DEF SaveRow

\* pin and unpin have one step left.
LEMMA PinMoves ==
  ASSUME Shape, TypeOK, NEW p \in Caller, NEW op, NEW x, PinCall(p, op, x)
  PROVE  /\ Elsewhere(p)
         /\ DOMAIN call'[p] = DOMAIN Idle /\ call'[p].op = op /\ call'[p].step = "log pin" /\ call'[p].kind = None
         /\ call'[p].alone = TRUE /\ call'[p].pin = x /\ call'[p].full = FALSE /\ call'[p].next = 1
<1> DEFINE c == [Idle EXCEPT !.op = op, !.step = "log pin", !.pin = x]
<1>1. Becomes(p, c) /\ Elsewhere(p)
  BY LocalBecomes, BecomesElsewhere DEF PinCall
<1>2. /\ DOMAIN c = DOMAIN Idle /\ c.op = op /\ c.step = "log pin" /\ c.kind = None
      /\ c.alone = TRUE /\ c.pin = x /\ c.full = FALSE /\ c.next = 1
  BY IdleFields
<1> HIDE DEF c
<1> QED
  BY <1>1, <1>2 DEF Becomes

\* rebuild begins: whoever persists is no longer alone.
LEMMA RebuildMoves ==
  ASSUME Shape, TypeOK, NEW p \in Caller, Rebuild(p)
  PROVE  /\ Elsewhere(p)
         /\ DOMAIN call'[p] = DOMAIN Idle /\ call'[p].op = "rebuild" /\ call'[p].kind = None /\ call'[p].alone = TRUE
         /\ call'[p].pin = None /\ call'[p].next = 1
         /\ \/ call'[p].full = TRUE /\ call'[p].step = "drop pins" /\ blurred' = Pinning
            \/ call'[p].full = FALSE /\ call'[p].step = "open" /\ blurred' = blurred \cup Pinning
         /\ \A q \in Caller : q # p /\ call[q].kind # None => ~call'[q].alone
<1>1. PICK full \in BOOLEAN :
         /\ call' = [q \in Caller |->
               IF q = p THEN [Idle EXCEPT !.op = "rebuild", !.full = full, !.step = IF full THEN "drop pins" ELSE "open"]
               ELSE [call[q] EXCEPT !.alone = (call[q].kind = None)]]
         /\ blurred' = IF full THEN Pinning ELSE blurred \cup Pinning
  BY DEF Rebuild
<1>2. IsCalls(call')
  <2>1. call' \in [Caller -> {call'[q] : q \in Caller}]
    BY <1>1
  <2> QED
    BY <2>1 DEF IsCalls
<1>3. /\ DOMAIN call'[p] = DOMAIN Idle /\ call'[p].op = "rebuild" /\ call'[p].kind = None /\ call'[p].alone = TRUE
      /\ call'[p].pin = None /\ call'[p].next = 1 /\ call'[p].full = full
      /\ call'[p].step = IF full THEN "drop pins" ELSE "open"
  <2> DEFINE s == IF full THEN "drop pins" ELSE "open"
             c == [Idle EXCEPT !.op = "rebuild", !.full = full, !.step = s]
  <2>1. call'[p] = c
    BY <1>1
  <2>2. /\ DOMAIN c = DOMAIN Idle /\ c.op = "rebuild" /\ c.kind = None /\ c.alone = TRUE
        /\ c.pin = None /\ c.next = 1 /\ c.full = full /\ c.step = s
    BY IdleFields
  <2> HIDE DEF c
  <2> QED
    BY <2>1, <2>2
<1>4. ASSUME NEW q \in Caller, q # p PROVE Untouched(q) /\ (call[q].kind # None => ~call'[q].alone)
  <2> DEFINE a == (call[q].kind = None)
             c == [call[q] EXCEPT !.alone = a]
  <2>1. call'[q] = c
    BY <1>1, <1>4
  <2>2. DOMAIN call[q] = {"op", "step", "kind", "saw", "alone", "pin", "full", "next"} /\ call[q].alone \in BOOLEAN
    BY IdleFields DEF TypeOK, CallOK
  <2>3. /\ DOMAIN c = DOMAIN call[q] /\ c.op = call[q].op /\ c.step = call[q].step /\ c.kind = call[q].kind
        /\ c.saw = call[q].saw /\ c.pin = call[q].pin /\ c.full = call[q].full /\ c.next = call[q].next
        /\ c.alone = a
    BY <2>2
  <2>4. a \in BOOLEAN /\ (call[q].kind # None => ~a)
    OBVIOUS
  <2> HIDE DEF c, a
  <2> QED
    BY <2>1, <2>2, <2>3, <2>4 DEF Untouched
<1> QED
  BY <1>1, <1>2, <1>3, <1>4 DEF Elsewhere

\* The steps of rebuild.
LEMMA ReplayMoves ==
  ASSUME Shape, TypeOK, NEW p \in Caller
  PROVE  /\ DropPins(p) => Advances(p) /\ call'[p].step = "drop affect" /\ call'[p].next = call[p].next
         /\ DropAffect(p) => Advances(p) /\ call'[p].step = "open" /\ call'[p].next = call[p].next
         /\ OpenScan(p) => /\ Advances(p) /\ call'[p].step = "replay"
                           /\ call'[p].next \in 1 .. MaxEvents + 1 /\ call'[p].next > first
                           /\ call[p].full => call'[p].next = first + 1
         /\ Replay(p) => Advances(p) /\ call'[p].step = "replay" /\ call'[p].next = call[p].next + 1
<1>0. /\ DOMAIN call[p] = {"op", "step", "kind", "saw", "alone", "pin", "full", "next"} /\ DOMAIN Idle = DOMAIN call[p]
      /\ first \in Nat /\ marker \in Nat /\ first <= Len(events) /\ marker <= Len(events) /\ Len(events) <= MaxEvents
      /\ Len(events) \in Nat /\ MaxEvents \in Nat
  BY IdleFields, BoundsAssumption DEF TypeOK, CallOK, Shape
<1>1. ASSUME NEW s, Goto(p, s)
      PROVE  Advances(p) /\ call'[p].step = s /\ call'[p].next = call[p].next
  <2>1. Becomes(p, [call[p] EXCEPT !.step = s]) /\ Elsewhere(p)
    BY <1>1, GotoBecomes, BecomesElsewhere
  <2> QED
    BY <1>0, <2>1 DEF Becomes, Advances
<1>2. ASSUME NEW s, NEW n, Local(p, [call[p] EXCEPT !.step = s, !.next = n])
      PROVE  Advances(p) /\ call'[p].step = s /\ call'[p].next = n
  <2>1. Becomes(p, [call[p] EXCEPT !.step = s, !.next = n]) /\ Elsewhere(p)
    BY <1>2, LocalBecomes, BecomesElsewhere
  <2> QED
    BY <1>0, <2>1 DEF Becomes, Advances
<1>3. ASSUME OpenScan(p)
      PROVE  /\ Advances(p) /\ call'[p].step = "replay"
             /\ call'[p].next \in 1 .. MaxEvents + 1 /\ call'[p].next > first
             /\ call[p].full => call'[p].next = first + 1
  <2> DEFINE n == IF call[p].full THEN first + 1 ELSE IF marker \in Log THEN marker + 1 ELSE MaxEvents + 1
  <2>1. Local(p, [call[p] EXCEPT !.step = "replay", !.next = n])
    BY <1>3 DEF OpenScan
  <2>2. n \in 1 .. MaxEvents + 1 /\ n > first /\ (call[p].full => n = first + 1)
    BY <1>0 DEF Log
  <2> HIDE DEF n
  <2> QED
    BY <1>2, <2>1, <2>2
<1>4. ASSUME Replay(p)
      PROVE  Advances(p) /\ call'[p].step = "replay" /\ call'[p].next = call[p].next + 1
  <2>1. Becomes(p, [call[p] EXCEPT !.next = @ + 1]) /\ Elsewhere(p) /\ call[p].step = "replay"
    BY <1>4, LocalBecomes, BecomesElsewhere DEF Replay, At
  <2> QED
    BY <1>0, <2>1 DEF Becomes, Advances
<1> QED
  BY <1>1, <1>3, <1>4 DEF DropPins, DropAffect

\* A restart ends every call.
LEMMA RestartMoves ==
  ASSUME Restart
  PROVE  IsCalls(call') /\ \A p \in Caller : call'[p] = Idle
<1>1. call' \in [Caller -> {Idle}] /\ \A p \in Caller : call'[p] = Idle
  BY DEF Restart
<1> QED
  BY <1>1 DEF IsCalls

-----------------------------------------------------------------------------
(***************************************************************************)
(* Types                                                                   *)
(***************************************************************************)
\* Calls stay typed when p's does.
LEMMA CallsTyped ==
  ASSUME TypeOK, NEW p \in Caller, Elsewhere(p), used \subseteq used', CallOK(call[p])'
  PROVE  \A q \in Caller : CallOK(call[q])'
<1>1. ASSUME NEW q \in Caller, q # p PROVE CallOK(call[q])'
  <2>1. CallOK(call[q]) /\ Untouched(q)
    BY <1>1 DEF TypeOK, Elsewhere
  <2> QED
    BY <2>1 DEF CallOK, Untouched
<1> QED
  BY <1>1

\* Events stay typed when a typed one is appended.
LEMMA EventsTyped ==
  ASSUME TypeOK, Shape, used \subseteq used', NEW e, events' = Append(events, e), EventOK(e)', Len(events) < MaxEvents
  PROVE  /\ \A i \in DOMAIN events' : EventOK(events[i])'
         /\ Len(events') = Len(events) + 1 /\ Len(events') <= MaxEvents
         /\ \A i \in 1 .. Len(events) : events'[i] = events[i]
         /\ events'[Len(events) + 1] = e
<1>1. PICK S : events \in Seq(S)
  BY DEF Shape
<1>2. /\ Len(events') = Len(events) + 1 /\ DOMAIN events' = 1 .. Len(events) + 1 /\ Len(events) \in Nat
      /\ \A i \in 1 .. Len(events) : events'[i] = events[i]
      /\ events'[Len(events) + 1] = e /\ DOMAIN events = 1 .. Len(events)
  BY <1>1
<1>3. Len(events') <= MaxEvents
  BY <1>2, BoundsAssumption
<1>4. ASSUME NEW i \in 1 .. Len(events) PROVE EventOK(events[i])'
  <2>1. EventOK(events[i]) /\ events'[i] = events[i]
    BY <1>2, <1>4 DEF TypeOK
  <2> QED
    BY <2>1 DEF EventOK
<1>5. \A i \in DOMAIN events' : i \in 1 .. Len(events) \/ i = Len(events) + 1
  BY <1>2
<1> QED
  BY <1>2, <1>3, <1>4, <1>5

\* The three forms of p's new record.
LEMMA RecordTyped ==
  ASSUME TypeOK, NEW p \in Caller
  PROVE  /\ \A op, k : Changer(p, op, k) /\ op \in Op /\ k \in Kind => CallOK(call[p])'
         /\ Resting(p) => CallOK(call[p])'
         /\ Advances(p) /\ used \subseteq used' /\ call'[p].step \in Step /\ call'[p].next \in 1 .. MaxEvents + 1
            /\ (call'[p].step \in {"save", "log"} =>
                   call'[p].saw \in IF call'[p].kind = "temperament" THEN Temperament ELSE Level)
              => CallOK(call[p])'
<1>0. 1 \in 1 .. MaxEvents + 1
  BY BoundsAssumption
<1>1. ASSUME NEW op \in Op, NEW k \in Kind, Changer(p, op, k) PROVE CallOK(call[p])'
  BY <1>0, <1>1 DEF Changer, CallOK, Alone, Step, Idle
<1>2. ASSUME Resting(p) PROVE CallOK(call[p])'
  BY <1>0, <1>2 DEF Resting, CallOK, Step, Op, Idle
<1>3. ASSUME Advances(p), used \subseteq used', call'[p].step \in Step, call'[p].next \in 1 .. MaxEvents + 1,
             call'[p].step \in {"save", "log"} =>
                 call'[p].saw \in IF call'[p].kind = "temperament" THEN Temperament ELSE Level
      PROVE  CallOK(call[p])'
  <2>1. CallOK(call[p])
    BY DEF TypeOK
  <2> QED
    BY <1>3, <2>1 DEF Advances, CallOK, Idle
<1> QED
  BY <1>1, <1>2, <1>3

LiveStep(p) == Trigger(p) \/ SetTemperament(p) \/ ResetMood(p) \/ Drift(p) \/ MoodUpdate(p)

\* What a step of p that changes what is live does to the call, and to which kind.
LEMMA LiveMoves ==
  ASSUME Shape, TypeOK, Control, NEW p \in Caller, LiveStep(p)
  PROVE  /\ call[p].kind = None /\ call[p].pin = None /\ call[p].step \notin RebuildStep /\ ~call[p].full
         /\ Elsewhere(p)
         /\ \E op \in {"trigger", "set_temperament", "reset_mood", "consolidate"}, k \in Kind, K \in SUBSET Kind :
               /\ Changer(p, op, k) /\ k \in K /\ \A q \in Caller : q # p /\ call[q].kind \in K => ~call'[q].alone
               /\ op = "set_temperament" => k = "temperament"
<1>1. call[p].step \in {"idle", "drift", "update"}
  <2>1. Ready(p) => call[p].step = "idle"
    BY DEF Control, Placed, Ready
  <2> QED
    BY <2>1 DEF LiveStep, Trigger, SetTemperament, ResetMood, Drift, MoodUpdate, At
<1>2. call[p].kind = None /\ call[p].pin = None /\ call[p].step \notin RebuildStep /\ ~call[p].full
  BY <1>1 DEF Control, Placed, RebuildStep, Persistence, TypeOK, CallOK
<1>3. \E op \in {"trigger", "set_temperament", "reset_mood", "consolidate"}, k \in Kind, K \in SUBSET Kind :
         Changing(p, op, k, K) /\ k \in K /\ (op = "set_temperament" => k = "temperament")
  <2>1. Trigger(p) => Changing(p, "trigger", "mood", {"mood"})
    BY DEF Trigger
  <2>2. SetTemperament(p) => Changing(p, "set_temperament", "temperament", {"temperament"})
    BY DEF SetTemperament
  <2>3. ResetMood(p) => Changing(p, "reset_mood", "mood", {"mood"})
    BY DEF ResetMood
  <2>4. Drift(p) => Changing(p, "consolidate", "temperament", Kind)
    BY DEF Drift
  <2>5. MoodUpdate(p) => Changing(p, "consolidate", "mood", {"mood"})
    BY DEF MoodUpdate
  <2> QED
    BY <2>1, <2>2, <2>3, <2>4, <2>5 DEF LiveStep, Kind
<1> QED
  BY <1>2, <1>3, ChangingMoves

\* Levels stay on the scale.
LEMMA LiveTyped ==
  ASSUME TypeOK, NEW p \in Caller, LiveStep(p)
  PROVE  live' \in [temperament : Temperament, mood : Level]
<1> USE DEF TypeOK, Temperament
<1>1. live.temperament \in [Dim -> Level] /\ live.mood \in Level
  OBVIOUS
<1>2. CASE Trigger(p)
  BY <1>2 DEF Trigger
<1>3. CASE SetTemperament(p)
  BY <1>3 DEF SetTemperament
<1>4. CASE ResetMood(p)
  BY <1>1, <1>4, DimAssumption DEF ResetMood, Baseline
<1>5. CASE Drift(p)
  <2>1. PICK D \in SUBSET Dim :
          LET t == [d \in Dim |-> IF d \in D THEN Raised(live.temperament[d]) ELSE live.temperament[d]] IN
          \E m \in Between(live.mood, Baseline(t)) : live' = [temperament |-> t, mood |-> m]
    BY <1>5 DEF Drift
  <2>2. \A d \in Dim : live.temperament[d] \in Level /\ Raised(live.temperament[d]) \in Level
    BY <1>1, TopAssumption DEF Raised, Level
  <2> QED
    BY <2>1, <2>2 DEF Between
<1>6. CASE MoodUpdate(p)
  BY <1>6 DEF MoodUpdate, Between
<1> QED
  BY <1>2, <1>3, <1>4, <1>5, <1>6 DEF LiveStep

\* Types and shapes under the steps that change what is live.
LEMMA LiveStepTyped ==
  ASSUME Shape, TypeOK, Control, NEW p \in Caller, LiveStep(p)
  PROVE  TypeOK' /\ Shape'
<1>1. UNCHANGED <<base, stages, saved, pins, events, first, marker, faults, used, blurred, unlogged>> /\ adrift' \subseteq Kind
  BY DEF LiveStep, Trigger, SetTemperament, ResetMood, Drift, MoodUpdate, tables, logged, history, TypeOK, Kind
<1>2. PICK op \in {"trigger", "set_temperament", "reset_mood", "consolidate"}, k \in Kind : Changer(p, op, k)
  BY LiveMoves
<1>3. CallOK(call[p])'
  BY <1>2, RecordTyped DEF Op
<1>4. \A q \in Caller : CallOK(call[q])'
  BY <1>1, <1>3, LiveMoves, CallsTyped
<1>5. \A i \in DOMAIN events : EventOK(events[i])'
  BY <1>1 DEF TypeOK, EventOK
<1>6. TypeOK'
  BY <1>1, <1>4, <1>5, LiveTyped DEF TypeOK
<1>7. Shape'
  BY <1>1, LiveMoves DEF Shape, Elsewhere, IsCalls
<1> QED
  BY <1>6, <1>7

PersistStep(p) == ReadState(p) \/ SaveRow(p) \/ ReadAgain(p) \/ LogState(p) \/ PersistFails(p)

\* Where a call that persists stands.
LEMMA PersistWhere ==
  ASSUME TypeOK, Control, NEW p \in Caller, PersistStep(p)
  PROVE  /\ call[p].kind \in Kind /\ call[p].pin = None /\ call[p].step \in Persistence
         /\ call[p].step \notin RebuildStep /\ ~call[p].full
         /\ call[p].step \in {"save", "log"} => call[p].saw \in IF call[p].kind = "temperament" THEN Temperament ELSE Level
         /\ live[call[p].kind] \in IF call[p].kind = "temperament" THEN Temperament ELSE Level
<1>1. call[p].step \in Persistence /\ call[p].step \notin RebuildStep
  BY DEF PersistStep, ReadState, SaveRow, ReadAgain, LogState, PersistFails, At, Persistence, RebuildStep
<1>2. call[p].kind \in Kind /\ call[p].pin = None /\ ~call[p].full
  BY <1>1 DEF Control, Placed, TypeOK, CallOK, RebuildStep, Persistence
<1>3. call[p].step \in {"save", "log"} => call[p].saw \in IF call[p].kind = "temperament" THEN Temperament ELSE Level
  BY DEF TypeOK, CallOK
<1>4. live[call[p].kind] \in IF call[p].kind = "temperament" THEN Temperament ELSE Level
  BY <1>2 DEF TypeOK, Kind
<1> QED
  BY <1>1, <1>2, <1>3, <1>4

\* How it goes on, and which of its actions ends it.
LEMMA PersistGoes ==
  ASSUME Shape, TypeOK, Control, NEW p \in Caller, PersistStep(p)
  PROVE  /\ Elsewhere(p)
         /\ \/ /\ Advances(p) /\ call'[p].next = call[p].next /\ call'[p].step \in {"save", "reread", "log"}
               /\ call'[p].step \in {"save", "log"} => call'[p].saw = live[call[p].kind]
            \/ Resting(p)
         /\ LogState(p) \/ PersistFails(p) => Resting(p)
<1>1. CASE ReadState(p)
  BY <1>1, PersistMoves DEF Advances, LogState, PersistFails, ReadState, At
<1>2. CASE SaveRow(p)
  <2>1. CASE Returns(p)
    BY <2>1 DEF Returns
  <2>2. CASE Advances(p) /\ call'[p].step = "reread" /\ call'[p].next = call[p].next
    <3>1. UNCHANGED events /\ UNCHANGED faults /\ saved' = [saved EXCEPT ![call[p].kind] = {call[p].saw}] /\ call[p].step = "save"
      BY <1>2 DEF SaveRow, logged, At
    <3>2. ~LogState(p)
      BY <3>1 DEF LogState, At
    <3>3. ~PersistFails(p)
      <4>1. faults \in Nat
        BY DEF TypeOK
      <4> QED
        BY <3>1, <4>1 DEF PersistFails, Fault
    <3> QED
      BY <2>2, <3>2, <3>3 DEF Advances
  <2> QED
    BY <1>2, <2>1, <2>2, PersistMoves
<1>3. CASE ReadAgain(p)
  BY <1>3, PersistMoves DEF Advances, LogState, PersistFails, ReadAgain, At
<1>4. CASE LogState(p) \/ PersistFails(p)
  BY <1>4, RestingMoves DEF LogState, PersistFails, Returns
<1> QED
  BY <1>1, <1>2, <1>3, <1>4 DEF PersistStep

\* Types and shapes under the steps of a call that persists.
LEMMA PersistStepTyped ==
  ASSUME Shape, TypeOK, Control, NEW p \in Caller, PersistStep(p)
  PROVE  TypeOK' /\ Shape'
<1>1. UNCHANGED <<base, stages, live, pins, first, marker, used, blurred>>
  BY DEF PersistStep, ReadState, SaveRow, ReadAgain, LogState, PersistFails, tables, logged, history
<1>2. CallOK(call[p])'
  <2>1. CASE Resting(p)
    BY <2>1, RecordTyped
  <2>2. CASE /\ Advances(p) /\ call'[p].next = call[p].next /\ call'[p].step \in {"save", "reread", "log"}
             /\ call'[p].step \in {"save", "log"} => call'[p].saw = live[call[p].kind]
    <3>1. call'[p].step \in Step /\ call'[p].next \in 1 .. MaxEvents + 1 /\ call'[p].kind = call[p].kind
      BY <2>2 DEF TypeOK, CallOK, Step, Advances
    <3> QED
      BY <1>1, <2>2, <3>1, PersistWhere, RecordTyped
  <2> QED
    BY <2>1, <2>2, PersistGoes
<1>3. \A q \in Caller : CallOK(call[q])'
  BY <1>1, <1>2, PersistGoes, CallsTyped
<1>4. DOMAIN saved' = Kind /\ saved'.temperament \subseteq Dict /\ saved'.mood \subseteq Level /\ \A k \in Kind : \A c, d \in saved'[k] : c = d
  <2>1. CASE SaveRow(p)
    <3>1. saved' = [saved EXCEPT ![call[p].kind] = {call[p].saw}] /\ call[p].step = "save"
      BY <2>1 DEF SaveRow, At
    <3>2. DOMAIN saved = Kind /\ saved.temperament \subseteq Dict /\ saved.mood \subseteq Level /\ \A k \in Kind : \A c, d \in saved[k] : c = d
      BY DEF TypeOK
    <3>3. Temperament \subseteq Dict
      BY DEF Temperament, Dict, Level
    <3>4. CASE call[p].kind = "temperament"
      BY <3>1, <3>2, <3>3, <3>4, PersistWhere DEF Kind
    <3>5. CASE call[p].kind = "mood"
      BY <3>1, <3>2, <3>5, PersistWhere DEF Kind
    <3> QED
      BY <3>4, <3>5, PersistWhere DEF Kind
  <2>2. CASE ~SaveRow(p)
    <3>1. UNCHANGED saved
      BY <2>2 DEF PersistStep, ReadState, ReadAgain, LogState, PersistFails, tables
    <3> QED
      BY <3>1 DEF TypeOK
  <2> QED
    BY <2>1, <2>2
<1>5. /\ \A i \in DOMAIN events' : EventOK(events[i])'
      /\ Len(events') <= MaxEvents /\ first' \in 0 .. Len(events') /\ marker' \in 0 .. Len(events')
      /\ \E S : events' \in Seq(S)
  <2>1. CASE LogState(p)
    <3>0. PICK e : e = [kind |-> call[p].kind, data |-> Metadata(p)]
      OBVIOUS
    <3>1. events' = Append(events, e) /\ Len(events) < MaxEvents /\ call[p].step = "log"
      BY <2>1, <3>0 DEF LogState, At
    <3>2. EventOK(e)'
      <4>0. e.kind = call[p].kind /\ e.data = Metadata(p) /\ call[p].kind \in Kind
        BY <3>0, PersistWhere
      <4>1. CASE call[p].kind = "temperament"
        <5>1. Nested \in Dict
          BY DEF Nested, Dict
        <5>2. call[p].saw \in Temperament
          BY <3>1, <4>1, PersistWhere
        <5>3. Temperament \subseteq Dict
          BY DEF Temperament, Dict
        <5>4. Metadata(p) \in Dict
          BY <5>1, <5>2, <5>3 DEF Metadata
        <5> QED
          BY <4>0, <4>1, <5>4 DEF EventOK, Kind
      <4>2. CASE call[p].kind = "mood"
        <5>1. call[p].op # "set_temperament" /\ call[p].saw \in Level
          BY <3>1, <4>2, PersistWhere DEF Control, Placed
        <5>2. Metadata(p) \in Level
          BY <5>1 DEF Metadata
        <5> QED
          BY <4>0, <4>2, <5>2 DEF EventOK, Kind
      <4> QED
        BY <4>1, <4>2, PersistWhere DEF Kind
    <3>3. PICK S : events \in Seq(S)
      BY DEF Shape
    <3>4. Append(events, e) \in Seq(S \cup {e}) /\ Len(events) \in Nat
      <4>1. events \in Seq(S \cup {e}) /\ e \in S \cup {e}
        BY <3>3
      <4> QED
        BY <3>3, <4>1
    <3> QED
      BY <1>1, <3>1, <3>2, <3>4, EventsTyped DEF TypeOK
  <2>2. CASE ~LogState(p)
    <3>1. UNCHANGED events
      BY <2>2 DEF PersistStep, ReadState, SaveRow, ReadAgain, PersistFails, logged
    <3> QED
      BY <1>1, <3>1 DEF TypeOK, EventOK, Shape
  <2> QED
    BY <2>1, <2>2
<1>6. faults' \in 0 .. MaxFaults /\ adrift' \subseteq Kind /\ unlogged' \subseteq Kind
  <2>1. adrift \subseteq Kind /\ unlogged \subseteq Kind /\ faults \in 0 .. MaxFaults /\ MaxFaults \in Nat /\ call[p].kind \in Kind
    BY PersistWhere, BoundsAssumption DEF TypeOK
  <2> QED
    BY <2>1 DEF PersistStep, ReadState, SaveRow, ReadAgain, LogState, PersistFails, Fault, history
<1> QED
  BY <1>1, <1>3, <1>4, <1>5, <1>6, PersistGoes DEF TypeOK, Shape, Elsewhere, IsCalls

PinStep(p) == Pin(p) \/ Unpin(p) \/ LogPin(p) \/ LogPinFails(p)

\* A call about a pin begins or ends.
LEMMA PinGoes ==
  ASSUME Shape, TypeOK, Control, NEW p \in Caller, PinStep(p)
  PROVE  /\ Elsewhere(p) /\ call[p].kind = None /\ call'[p].kind = None /\ call[p].op # "rebuild"
         /\ call[p].step \notin RebuildStep /\ ~call[p].full /\ call'[p].full = FALSE /\ call'[p].op # "rebuild"
         /\ call'[p].step \notin RebuildStep
         /\ Pin(p) \/ Unpin(p) => call[p].pin = None
         /\ \A x : Pin(p) /\ PinCall(p, "pin", x) => call'[p].pin = x /\ call'[p].op = "pin" /\ call'[p].step = "log pin"
         /\ \A x : Unpin(p) /\ PinCall(p, "unpin", x) => call'[p].pin = x /\ call'[p].op = "unpin" /\ call'[p].step = "log pin"
         /\ LogPin(p) \/ LogPinFails(p) => /\ call[p].op \in {"pin", "unpin"} /\ call[p].pin \in used /\ call[p].pin # None
                                           /\ Resting(p)
         /\ Pin(p) \/ Unpin(p) => /\ DOMAIN call'[p] = DOMAIN Idle /\ call'[p].alone = TRUE /\ call'[p].next = 1
<1>1. call[p].step \in {"idle", "log pin"} /\ (Pin(p) \/ Unpin(p) => call[p].op = "idle" /\ call[p].step = "idle")
      /\ (LogPin(p) \/ LogPinFails(p) => call[p].step = "log pin")
  <2>1. Ready(p) => call[p].step = "idle" /\ call[p].op = "idle"
    BY DEF Control, Placed, Ready
  <2> QED
    BY <2>1 DEF PinStep, Pin, Unpin, LogPin, LogPinFails, At
<1>2. /\ call[p].kind = None /\ call[p].op # "rebuild" /\ call[p].step \notin RebuildStep /\ ~call[p].full
      /\ Pin(p) \/ Unpin(p) => call[p].pin = None
      /\ LogPin(p) \/ LogPinFails(p) => call[p].op \in {"pin", "unpin"} /\ call[p].pin \in used /\ call[p].pin # None
  BY <1>1 DEF Control, Placed, TypeOK, CallOK, RebuildStep, Persistence
<1>3. CASE Pin(p) \/ Unpin(p)
  <2>1. PICK op \in {"pin", "unpin"} : \E x : PinCall(p, op, x)
    BY <1>3 DEF Pin, Unpin
  <2>2. ~LogPin(p) /\ ~LogPinFails(p)
    BY <1>1, <1>3
  <2>3. \A o, y : PinCall(p, o, y) => /\ Elsewhere(p) /\ DOMAIN call'[p] = DOMAIN Idle /\ call'[p].op = o
                                      /\ call'[p].step = "log pin" /\ call'[p].kind = None /\ call'[p].alone = TRUE
                                      /\ call'[p].pin = y /\ call'[p].full = FALSE /\ call'[p].next = 1
    BY PinMoves
  <2> QED
    BY <1>2, <2>1, <2>2, <2>3 DEF RebuildStep
<1>4. CASE LogPin(p) \/ LogPinFails(p)
  <2>1. Returns(p)
    BY <1>4, RestingMoves DEF LogPin, LogPinFails
  <2>2. ~Pin(p) /\ ~Unpin(p)
    BY <1>1, <1>2, <1>4
  <2>3. call'[p].op \in {"idle", "consolidate"} /\ call'[p].step \in {"idle", "drift", "update"} /\ call'[p].kind = None /\ call'[p].full = FALSE
    BY <2>1 DEF Returns, Resting
  <2> QED
    BY <1>2, <1>4, <2>1, <2>2, <2>3 DEF RebuildStep, Returns
<1> QED
  BY <1>3, <1>4 DEF PinStep

\* Types and shapes under the steps about pins.
LEMMA PinStepTyped ==
  ASSUME Shape, TypeOK, Control, NEW p \in Caller, PinStep(p)
  PROVE  TypeOK' /\ Shape'
<1>1. UNCHANGED <<base, stages, live, saved, first, marker, adrift, unlogged>>
  BY DEF PinStep, Pin, Unpin, LogPin, LogPinFails, tables, logged, history
<1>2. used \subseteq used' /\ used' \subseteq PinId /\ pins' \cup blurred' \subseteq used'
  <2>1. used \subseteq PinId /\ pins \cup blurred \subseteq used
    BY DEF TypeOK
  <2>2. CASE Pin(p)
    BY <2>1, <2>2 DEF Pin
  <2>3. CASE Unpin(p)
    BY <2>1, <2>3 DEF Unpin
  <2>4. CASE LogPin(p) \/ LogPinFails(p)
    BY <2>1, <2>4, PinGoes DEF LogPin, LogPinFails, tables, history
  <2> QED
    BY <2>2, <2>3, <2>4 DEF PinStep
<1>3. CallOK(call[p])'
  <2>0. 1 \in 1 .. MaxEvents + 1
    BY BoundsAssumption
  <2>1. CASE Pin(p)
    <3>1. PICK x \in PinId \ used : used' = used \cup {x} /\ PinCall(p, "pin", x)
      BY <2>1 DEF Pin
    <3> QED
      BY <2>0, <2>1, <3>1, PinGoes DEF CallOK, Op, Step
  <2>2. CASE Unpin(p)
    <3>1. PICK x \in pins : PinCall(p, "unpin", x)
      BY <2>2 DEF Unpin
    <3> QED
      BY <1>2, <2>0, <2>2, <3>1, PinGoes DEF CallOK, Op, Step, TypeOK
  <2>3. CASE LogPin(p) \/ LogPinFails(p)
    BY <2>3, PinGoes, RecordTyped
  <2> QED
    BY <2>1, <2>2, <2>3 DEF PinStep
<1>4. \A q \in Caller : CallOK(call[q])'
  BY <1>2, <1>3, PinGoes, CallsTyped
<1>5. /\ \A i \in DOMAIN events' : EventOK(events[i])'
      /\ Len(events') <= MaxEvents /\ first' \in 0 .. Len(events') /\ marker' \in 0 .. Len(events')
      /\ \E S : events' \in Seq(S)
  <2>1. CASE LogPin(p)
    <3>0. PICK e : e = [kind |-> call[p].op, data |-> call[p].pin]
      OBVIOUS
    <3>1. events' = Append(events, e) /\ Len(events) < MaxEvents
      BY <2>1, <3>0 DEF LogPin
    <3>2. EventOK(e)'
      <4>1. e.kind \in {"pin", "unpin"} /\ e.data \in used'
        BY <1>2, <2>1, <3>0, PinGoes
      <4> QED
        BY <4>1 DEF EventOK
    <3>3. PICK S : events \in Seq(S)
      BY DEF Shape
    <3>4. Append(events, e) \in Seq(S \cup {e}) /\ Len(events) \in Nat
      <4>1. events \in Seq(S \cup {e}) /\ e \in S \cup {e}
        BY <3>3
      <4> QED
        BY <3>3, <4>1
    <3> QED
      BY <1>1, <1>2, <3>1, <3>2, <3>4, EventsTyped DEF TypeOK
  <2>2. CASE ~LogPin(p)
    <3>1. UNCHANGED events
      BY <2>2 DEF PinStep, Pin, Unpin, LogPinFails, logged
    <3> QED
      BY <1>1, <1>2, <3>1 DEF TypeOK, EventOK, Shape
  <2> QED
    BY <2>1, <2>2
<1>6. faults' \in 0 .. MaxFaults
  <2>1. faults \in 0 .. MaxFaults /\ MaxFaults \in Nat
    BY BoundsAssumption DEF TypeOK
  <2>2. CASE LogPinFails(p)
    <3>1. faults' = faults + 1 /\ faults < MaxFaults
      BY <2>2 DEF LogPinFails, Fault
    <3> QED
      BY <2>1, <3>1
  <2>3. CASE ~LogPinFails(p)
    <3>1. UNCHANGED faults
      BY <2>3 DEF PinStep, Pin, Unpin, LogPin
    <3> QED
      BY <2>1, <3>1
  <2> QED
    BY <2>2, <2>3
<1> QED
  BY <1>1, <1>2, <1>4, <1>5, <1>6, PinGoes DEF TypeOK, Shape, Elsewhere, IsCalls

RebuildStepOf(p) == Rebuild(p) \/ DropPins(p) \/ DropAffect(p) \/ OpenScan(p) \/ Replay(p) \/ EndRebuild(p)

\* Types and shapes under the steps of rebuild.
LEMMA RebuildStepTyped ==
  ASSUME Shape, TypeOK, Control, NEW p \in Caller, RebuildStepOf(p)
  PROVE  TypeOK' /\ Shape' /\ Elsewhere(p)
<1>1. UNCHANGED <<base, stages, live, events, first, faults, used, unlogged>>
  BY DEF RebuildStepOf, Rebuild, DropPins, DropAffect, OpenScan, Replay, EndRebuild, tables, logged, history
<1>2. CallOK(call[p])' /\ Elsewhere(p)
  <2>1. CASE Rebuild(p)
    <3> HIDE DEF RebuildStepOf
    <3>1. 1 \in 1 .. MaxEvents + 1
      BY BoundsAssumption
    <3> QED
      BY <2>1, <3>1, RebuildMoves DEF CallOK, Op, Step
  <2>2. CASE DropPins(p) \/ DropAffect(p) \/ OpenScan(p) \/ Replay(p)
    <3>1. /\ Advances(p) /\ call'[p].next \in 1 .. MaxEvents + 1 /\ call'[p].step \in {"drop affect", "open", "replay"}
      <4>1. call[p].next \in 1 .. MaxEvents + 1 /\ Len(events) \in Nat /\ Len(events) <= MaxEvents /\ MaxEvents \in Nat
        BY BoundsAssumption DEF TypeOK, CallOK, Shape
      <4>2. Replay(p) => call[p].next <= Len(events)
        BY DEF Replay
      <4>3. CASE Replay(p)
        <5>1. Advances(p) /\ call'[p].step = "replay" /\ call'[p].next = call[p].next + 1
          BY <4>3, ReplayMoves
        <5>2. call[p].next + 1 \in 1 .. MaxEvents + 1
          BY <4>1, <4>2, <4>3
        <5> QED
          BY <5>1, <5>2
      <4>4. CASE OpenScan(p)
        BY <4>4, ReplayMoves
      <4>5. CASE DropPins(p) \/ DropAffect(p)
        BY <4>1, <4>5, ReplayMoves
      <4> QED
        BY <2>2, <4>3, <4>4, <4>5
    <3>2. Elsewhere(p)
      BY <3>1 DEF Advances
    <3> QED
      BY <1>1, <3>1, <3>2, RecordTyped DEF Step
  <2>3. CASE EndRebuild(p)
    <3>1. Returns(p)
      BY <2>3, RestingMoves DEF EndRebuild
    <3> QED
      BY <3>1, RecordTyped DEF Returns
  <2> QED
    BY <2>1, <2>2, <2>3 DEF RebuildStepOf
<1>3. \A q \in Caller : CallOK(call[q])'
  BY <1>1, <1>2, CallsTyped
<1>4. \A i \in DOMAIN events : EventOK(events[i])'
  BY <1>1 DEF TypeOK, EventOK
<1>5. Replay(p) => call[p].next \in DOMAIN events /\ EventOK(events[call[p].next])
  <2>1. call[p].next \in Nat \ {0} /\ Len(events) \in Nat /\ DOMAIN events = 1 .. Len(events)
    BY DEF TypeOK, CallOK, Shape
  <2> QED
    BY <2>1 DEF Replay, TypeOK
<1>6. pins' \cup blurred' \subseteq used'
  <2>1. Pinning \subseteq used /\ pins \cup blurred \subseteq used
    BY DEF Pinning, TypeOK, CallOK
  <2>2. Replay(p) => PinsAfter(events[call[p].next]) \subseteq used
    BY <1>5, <2>1 DEF PinsAfter, EventOK
  <2> QED
    BY <1>1, <2>1, <2>2 DEF RebuildStepOf, Rebuild, DropPins, DropAffect, OpenScan, Replay, EndRebuild, tables, history
<1>7. DOMAIN saved' = Kind /\ saved'.temperament \subseteq Dict /\ saved'.mood \subseteq Level /\ \A k \in Kind : \A c, d \in saved'[k] : c = d
  <2>0. DOMAIN saved = Kind /\ saved.temperament \subseteq Dict /\ saved.mood \subseteq Level /\ \A k \in Kind : \A c, d \in saved[k] : c = d
    BY DEF TypeOK
  <2>1. CASE DropAffect(p)
    BY <2>1 DEF DropAffect, NoRow, Kind
  <2>2. CASE Replay(p)
    <3> DEFINE e == events[call[p].next]
    <3>1. saved' = SavedAfter(e) /\ EventOK(e)
      BY <1>5, <2>2 DEF Replay
    <3> HIDE DEF e
    <3>2. CASE e.kind = "temperament"
      BY <2>0, <3>1, <3>2 DEF SavedAfter, EventOK, Kind
    <3>3. CASE e.kind = "mood"
      BY <2>0, <3>1, <3>3 DEF SavedAfter, EventOK, Kind
    <3>4. CASE e.kind \notin Kind
      BY <2>0, <3>1, <3>4 DEF SavedAfter
    <3> QED
      BY <3>2, <3>3, <3>4 DEF Kind
  <2>3. CASE ~DropAffect(p) /\ ~Replay(p)
    <3>1. UNCHANGED saved
      BY <2>3 DEF RebuildStepOf, Rebuild, DropPins, OpenScan, EndRebuild, tables
    <3> QED
      BY <2>0, <3>1
  <2> QED
    BY <2>1, <2>2, <2>3
<1>8. marker' \in 0 .. Len(events) /\ adrift' \subseteq Kind
  <2>1. Len(events) \in Nat /\ marker \in 0 .. Len(events) /\ adrift \subseteq Kind /\ unlogged \subseteq Kind
    BY DEF TypeOK, Shape
  <2>2. CASE EndRebuild(p)
    BY <2>1, <2>2 DEF EndRebuild
  <2>3. CASE DropAffect(p)
    <3>1. marker' = 0 /\ UNCHANGED adrift
      BY <2>3 DEF DropAffect, history
    <3> QED
      BY <2>1, <3>1
  <2>4. CASE ~EndRebuild(p) /\ ~DropAffect(p)
    <3>1. UNCHANGED marker /\ UNCHANGED adrift
      BY <2>4 DEF RebuildStepOf, Rebuild, DropPins, OpenScan, Replay, history
    <3> QED
      BY <2>1, <3>1
  <2> QED
    BY <2>2, <2>3, <2>4
<1> QED
  BY <1>1, <1>2, <1>3, <1>4, <1>6, <1>7, <1>8 DEF TypeOK, Shape, Elsewhere, IsCalls

\* Types and shapes when a consolidation begins, and when retention truncates the log.
LEMMA OtherStepTyped ==
  ASSUME Shape, TypeOK, NEW p \in Caller, Consolidate(p) \/ Truncate(p)
  PROVE  TypeOK' /\ Shape'
<1>1. CASE Consolidate(p)
  <2>1. Returns(p)
    BY <1>1, RestingMoves
  <2>2. UNCHANGED <<base, stages, live, saved, pins, events, first, marker, faults, used, blurred, adrift, unlogged>>
    BY <1>1 DEF Consolidate, tables, logged, history
  <2>3. \A q \in Caller : CallOK(call[q])'
    BY <2>1, <2>2, RecordTyped, CallsTyped DEF Returns
  <2>4. \A i \in DOMAIN events : EventOK(events[i])'
    BY <2>2 DEF TypeOK, EventOK
  <2> QED
    BY <2>1, <2>2, <2>3, <2>4 DEF TypeOK, Shape, Returns, Elsewhere, IsCalls
<1>2. CASE Truncate(p)
  <2>1. /\ UNCHANGED <<base, stages, live, saved, pins, events, marker, call, faults, used, adrift, unlogged>>
        /\ first' \in 1 .. Len(events)
        /\ \A x \in blurred' : x \in blurred \/ \E i \in 1 .. Len(events) : events[i].kind \in {"pin", "unpin"} /\ events[i].data = x
    <3>1. first \in Nat /\ Len(events) \in Nat
      BY DEF TypeOK, Shape
    <3> QED
      BY <1>2, <3>1 DEF Truncate, tables, Log
  <2>2. DOMAIN events = 1 .. Len(events)
    BY DEF Shape
  <2>3. pins \cup blurred' \subseteq used
    BY <2>1, <2>2 DEF TypeOK, EventOK
  <2>4. (\A i \in DOMAIN events : EventOK(events[i])') /\ \A q \in Caller : CallOK(call[q])'
    BY <2>1 DEF TypeOK, EventOK, CallOK
  <2>5. first' \in 0 .. Len(events)
    BY <2>1
  <2> QED
    BY <2>1, <2>3, <2>4, <2>5 DEF TypeOK, Shape
<1> QED
  BY <1>1, <1>2

\* A level for each dimension, whatever a persisted dict lacks.
LEMMA FromDictTyped ==
  /\ \A d \in Dict : FromDict(d) \in Temperament
  /\ \A t \in Temperament : FromDict(t) = t
<1>1. Half \in Level
  BY TopAssumption DEF Half, Level
<1>2. \A d \in Dict : FromDict(d) \in Temperament
  BY <1>1 DEF FromDict, Dict, Temperament
<1>3. ASSUME NEW t \in Temperament PROVE FromDict(t) = t
  <2>1. \A x \in Dim : t[x] # Absent
    BY TopAssumption DEF Temperament, Level, Absent
  <2> QED
    BY <2>1 DEF FromDict, Temperament
<1> QED
  BY <1>2, <1>3

\* What __init__ restores.
LEMMA RestoredIs ==
  ASSUME TypeOK
  PROVE  /\ Restored(saved).temperament = IF saved.temperament = {} THEN base ELSE FromDict(Newest(saved.temperament))
         /\ Restored(saved).mood = IF saved.mood = {} THEN Baseline(Restored(saved).temperament) ELSE Newest(saved.mood)
         /\ \A k \in Kind : saved[k] # {} => saved[k] = {Newest(saved[k])}
         /\ Restored(saved) \in [temperament : Temperament, mood : Level]
<1>1. \A k \in Kind : saved[k] # {} => saved[k] = {Newest(saved[k])}
  BY DEF TypeOK, Newest
<1>2. /\ Restored(saved).temperament = IF saved.temperament = {} THEN base ELSE FromDict(Newest(saved.temperament))
      /\ Restored(saved).mood = IF saved.mood = {} THEN Baseline(Restored(saved).temperament) ELSE Newest(saved.mood)
      /\ Restored(saved) = [temperament |-> Restored(saved).temperament, mood |-> Restored(saved).mood]
  BY DEF Restored, NoRow
<1>3. Restored(saved).temperament \in Temperament
  BY <1>1, <1>2, FromDictTyped DEF TypeOK, Kind
<1>4. Restored(saved).mood \in Level
  BY <1>1, <1>2, <1>3, DimAssumption DEF TypeOK, Kind, Baseline, Temperament
<1> QED
  BY <1>1, <1>2, <1>3, <1>4

\* A caller between two calls is typed.
LEMMA IdleTyped == CallOK(Idle)
<1>1. 1 \in 1 .. MaxEvents + 1
  BY BoundsAssumption
<1> QED
  BY <1>1, IdleFields DEF CallOK, Op, Step

\* Types and shapes under a restart.
LEMMA RestartTyped ==
  ASSUME Shape, TypeOK, Restart
  PROVE  TypeOK' /\ Shape'
<1>1. /\ UNCHANGED <<base, stages, saved, pins, events, first, marker, used>> /\ live' = Restored(saved)
      /\ blurred' \in {used, blurred \cup Pinning} /\ adrift' = {} /\ unlogged' \in {Kind, unlogged}
  BY DEF Restart, tables, logged
<1>2. faults' \in 0 .. MaxFaults
  <2>1. faults \in 0 .. MaxFaults /\ MaxFaults \in Nat
    BY BoundsAssumption DEF TypeOK
  <2>2. faults' = faults \/ (faults' = faults + 1 /\ faults < MaxFaults)
    BY DEF Restart, Fault
  <2> QED
    BY <2>1, <2>2
<1>3. blurred' \subseteq used
  <2>1. Pinning \subseteq used
    BY DEF Pinning, TypeOK, CallOK
  <2> QED
    BY <1>1, <2>1 DEF TypeOK
<1>4. \A p \in Caller : CallOK(call[p])'
  <2>1. \A p \in Caller : call'[p] = Idle
    BY RestartMoves
  <2>2. CallOK(Idle)
    BY IdleTyped
  <2> QED
    BY <1>1, <2>1, <2>2 DEF CallOK
<1>5. \A i \in DOMAIN events : EventOK(events[i])'
  BY <1>1 DEF TypeOK, EventOK
<1>6. live' \in [temperament : Temperament, mood : Level]
  BY <1>1, RestoredIs
<1> QED
  BY <1>1, <1>2, <1>3, <1>4, <1>5, <1>6, RestartMoves DEF TypeOK, Shape, IsCalls

-----------------------------------------------------------------------------
(***************************************************************************)
(* Control                                                                 *)
(***************************************************************************)
\* The log only grows.
LEMMA LogGrows ==
  ASSUME Shape, TypeOK, NEW p \in Caller, LiveStep(p) \/ PersistStep(p) \/ PinStep(p) \/ RebuildStepOf(p) \/ Consolidate(p)
  PROVE  /\ first' = first
         /\ Len(events) \in Nat /\ Len(events') \in Nat /\ Len(events') >= Len(events) /\ first <= Len(events)
         /\ \A i \in Log : i \in Log' /\ events'[i] = events[i]
         /\ \A i \in Log' : i \in Log \/ (i = Len(events) + 1 /\ Len(events') = Len(events) + 1)
         /\ ~LogState(p) /\ ~LogPin(p) => UNCHANGED events
         /\ LogState(p) => /\ Len(events) + 1 \in Log' /\ events'[Len(events) + 1].kind = call[p].kind
                           /\ events'[Len(events) + 1].data = Metadata(p)
         /\ LogPin(p) => /\ Len(events) + 1 \in Log' /\ events'[Len(events) + 1].kind = call[p].op
                         /\ events'[Len(events) + 1].data = call[p].pin
<1>1. first' = first
  BY DEF LiveStep, Trigger, SetTemperament, ResetMood, Drift, MoodUpdate, PersistStep, ReadState, SaveRow, ReadAgain,
         LogState, PersistFails, PinStep, Pin, Unpin, LogPin, LogPinFails, RebuildStepOf, Rebuild, DropPins, DropAffect,
         OpenScan, Replay, EndRebuild, Consolidate, logged
<1>2. ~LogState(p) /\ ~LogPin(p) => UNCHANGED events
  BY DEF LiveStep, Trigger, SetTemperament, ResetMood, Drift, MoodUpdate, PersistStep, ReadState, SaveRow, ReadAgain,
         PersistFails, PinStep, Pin, Unpin, LogPinFails, RebuildStepOf, Rebuild, DropPins, DropAffect,
         OpenScan, Replay, EndRebuild, Consolidate, logged
<1>3. PICK S : events \in Seq(S)
  BY DEF Shape
<1>4. Len(events) \in Nat /\ first \in Nat /\ first <= Len(events)
  BY <1>3 DEF TypeOK
<1>5. ASSUME NEW e, events' = Append(events, e)
      PROVE  /\ Len(events') = Len(events) + 1 /\ events'[Len(events) + 1] = e
             /\ \A i \in Log : i \in Log' /\ events'[i] = events[i]
             /\ \A i \in Log' : i \in Log \/ i = Len(events) + 1
             /\ Len(events) + 1 \in Log'
  <2>1. /\ Len(events') = Len(events) + 1 /\ events'[Len(events) + 1] = e
        /\ \A i \in 1 .. Len(events) : events'[i] = events[i]
    BY <1>3, <1>5
  <2> QED
    BY <1>1, <1>4, <2>1 DEF Log
<1>6. CASE UNCHANGED events
  <2>1. ~LogState(p) /\ ~LogPin(p)
    <3>1. ASSUME NEW e, events' = Append(events, e) PROVE FALSE
      BY <1>4, <1>5, <1>6, <3>1
    <3> QED
      BY <3>1 DEF LogState, LogPin
  <2> QED
    BY <1>1, <1>4, <1>6, <2>1 DEF Log
<1>7. CASE LogState(p)
  <2>1. PICK e : e = [kind |-> call[p].kind, data |-> Metadata(p)]
    OBVIOUS
  <2>2. events' = Append(events, e) /\ call[p].step = "log"
    BY <1>7, <2>1 DEF LogState, At
  <2>3. ~LogPin(p)
    BY <2>2 DEF LogPin, At
  <2>4. e.kind = call[p].kind /\ e.data = Metadata(p)
    BY <2>1
  <2>5. /\ Len(events') = Len(events) + 1 /\ events'[Len(events) + 1] = e
        /\ \A i \in Log : i \in Log' /\ events'[i] = events[i]
        /\ \A i \in Log' : i \in Log \/ i = Len(events) + 1
        /\ Len(events) + 1 \in Log'
    BY <1>5, <2>2
  <2>6. Len(events') \in Nat /\ Len(events') >= Len(events)
    BY <1>4, <2>5
  <2> QED
    BY <1>1, <1>4, <1>7, <2>3, <2>4, <2>5, <2>6
<1>8. CASE LogPin(p)
  <2>1. PICK e : e = [kind |-> call[p].op, data |-> call[p].pin]
    OBVIOUS
  <2>2. events' = Append(events, e) /\ call[p].step = "log pin"
    BY <1>8, <2>1 DEF LogPin, At
  <2>3. ~LogState(p)
    BY <2>2 DEF LogState, At
  <2>4. e.kind = call[p].op /\ e.data = call[p].pin
    BY <2>1
  <2>5. /\ Len(events') = Len(events) + 1 /\ events'[Len(events) + 1] = e
        /\ \A i \in Log : i \in Log' /\ events'[i] = events[i]
        /\ \A i \in Log' : i \in Log \/ i = Len(events) + 1
        /\ Len(events) + 1 \in Log'
    BY <1>5, <2>2
  <2>6. Len(events') \in Nat /\ Len(events') >= Len(events)
    BY <1>4, <2>5
  <2> QED
    BY <1>1, <1>4, <1>8, <2>3, <2>4, <2>5, <2>6
<1> QED
  BY <1>2, <1>6, <1>7, <1>8

\* Calls stay where they fit when p's does.
LEMMA PlacedElsewhere ==
  ASSUME TypeOK, Control, NEW p \in Caller, Elsewhere(p), first' = first, Placed(call[p])',
         Len(events) \in Nat, Len(events') \in Nat, Len(events') >= Len(events),
         \A q \in Caller : q # p /\ call[q].step \in {"reread", "log"} => call[q].kind \in unlogged'
  PROVE  Control'
<1>1. ASSUME NEW q \in Caller, q # p PROVE Placed(call[q])'
  <2>1. Placed(call[q]) /\ Untouched(q) /\ call[q].next \in Nat
    BY <1>1 DEF Control, Elsewhere, TypeOK, CallOK
  <2>2. Placed(call'[q])
    BY <2>1 DEF Placed, Untouched
  <2>3. call'[q].step \in {"reread", "log"} => call'[q].kind \in unlogged'
    BY <1>1, <2>1 DEF Untouched
  <2>4. call'[q].step = "replay" => call'[q].next > first' /\ (call'[q].full => call'[q].next <= Len(events') + 1)
    <3>1. call'[q].next \in Nat
      BY <2>1 DEF Untouched
    <3>2. \A n, a, b \in Nat : n <= a + 1 /\ b >= a => n <= b + 1
      OBVIOUS
    <3>3. call'[q].step = "replay" => call'[q].next > first /\ (call'[q].full => call'[q].next <= Len(events) + 1)
      BY <2>2 DEF Placed
    <3> QED
      BY <3>1, <3>2, <3>3
  <2> QED
    BY <2>2, <2>3, <2>4 DEF Placed
<1> QED
  BY <1>1 DEF Control

\* A call at rest fits.
LEMMA RestingPlaced ==
  ASSUME NEW p \in Caller, Resting(p)
  PROVE  Placed(call[p])'
BY DEF Resting, Placed, RebuildStep, Persistence

\* Every call stays where it fits.
LEMMA ControlStep ==
  ASSUME Shape, TypeOK, Control, AloneInv, NEW p \in Caller,
         LiveStep(p) \/ PersistStep(p) \/ PinStep(p) \/ RebuildStepOf(p) \/ Consolidate(p)
  PROVE  Control'
<1>0. /\ first' = first /\ Len(events) \in Nat /\ Len(events') \in Nat /\ Len(events') >= Len(events)
      /\ \A q \in Caller : call[q].step \in {"reread", "log"} => call[q].kind \in unlogged
  BY LogGrows DEF Control, Placed
<1>1. CASE LiveStep(p)
  <2>1. PICK op \in {"trigger", "set_temperament", "reset_mood", "consolidate"}, k \in Kind :
          Changer(p, op, k) /\ (op = "set_temperament" => k = "temperament")
    BY <1>1, LiveMoves
  <2>2. Placed(call[p])'
    BY <2>1 DEF Changer, Placed, RebuildStep, Persistence, Kind, None
  <2>3. UNCHANGED unlogged
    BY <1>1 DEF LiveStep, Trigger, SetTemperament, ResetMood, Drift, MoodUpdate, history
  <2> QED
    BY <1>0, <1>1, <2>2, <2>3, LiveMoves, PlacedElsewhere
<1>2. CASE PersistStep(p)
  <2>1. Placed(call[p])'
    <3>1. Placed(call[p]) /\ call[p].kind \in Kind /\ call[p].pin = None /\ ~call[p].full
      BY <1>2, PersistWhere DEF Control
    <3>2. CASE Resting(p)
      BY <3>2, RestingPlaced
    <3>3. CASE ReadState(p)
      <4>1. Advances(p) /\ call'[p].step = "save" /\ call[p].step = "read"
        BY <3>3, PersistMoves DEF ReadState, At
      <4> QED
        BY <3>1, <4>1 DEF Advances, Placed, RebuildStep, Persistence
    <3>4. CASE SaveRow(p) /\ ~Resting(p)
      <4>1. Advances(p) /\ call'[p].step = "reread" /\ call[p].op \in LoggedOp /\ call[p].step = "save"
        BY <3>4, PersistMoves DEF SaveRow, At, Returns
      <4>2. call[p].kind \in unlogged'
        BY <3>4 DEF SaveRow
      <4> QED
        BY <3>1, <4>1, <4>2 DEF Advances, Placed, RebuildStep, Persistence
    <3>5. CASE ReadAgain(p)
      <4>1. Advances(p) /\ call'[p].step = "log" /\ call[p].step = "reread"
        BY <3>5, PersistMoves DEF ReadAgain, At
      <4>2. UNCHANGED unlogged
        BY <3>5 DEF ReadAgain, history
      <4> QED
        BY <3>1, <4>1, <4>2 DEF Advances, Placed, RebuildStep, Persistence
    <3> QED
      BY <1>2, <3>2, <3>3, <3>4, <3>5, PersistGoes DEF PersistStep
  <2>2. \A q \in Caller : q # p /\ call[q].step \in {"reread", "log"} => call[q].kind \in unlogged'
    <3>1. CASE LogState(p)
      <4>1. unlogged' = IF call[p].alone /\ call[p].op # "set_temperament" THEN unlogged \ {call[p].kind} ELSE unlogged
        BY <3>1 DEF LogState
      <4>2. call[p].kind # None
        BY <1>2, PersistWhere DEF Kind, None
      <4>3. call[p].alone => \A q \in Caller : call[q].kind = call[p].kind => q = p
        BY <4>2 DEF AloneInv, AloneAt
      <4> QED
        BY <1>0, <4>1, <4>3
    <3>2. CASE ~LogState(p)
      <4>1. unlogged \subseteq unlogged'
        BY <1>2, <3>2 DEF PersistStep, ReadState, SaveRow, ReadAgain, PersistFails, history
      <4> QED
        BY <1>0, <4>1
    <3> QED
      BY <3>1, <3>2
  <2> QED
    BY <1>0, <1>2, <2>1, <2>2, PersistGoes, PlacedElsewhere
<1>3. CASE PinStep(p)
  <2>1. Placed(call[p])'
    <3>1. CASE Pin(p)
      <4>1. PICK x \in PinId \ used : PinCall(p, "pin", x)
        BY <3>1 DEF Pin
      <4>2. /\ call'[p].pin = x /\ call'[p].op = "pin" /\ call'[p].step = "log pin" /\ call'[p].kind = None
            /\ call'[p].full = FALSE /\ x # None
        BY <1>3, <3>1, <4>1, PinGoes, PinAssumption
      <4> QED
        BY <4>2 DEF Placed, RebuildStep, Persistence
    <3>2. CASE Unpin(p)
      <4>1. PICK x \in pins : PinCall(p, "unpin", x)
        BY <3>2 DEF Unpin
      <4>2. /\ call'[p].pin = x /\ call'[p].op = "unpin" /\ call'[p].step = "log pin" /\ call'[p].kind = None
            /\ call'[p].full = FALSE /\ x # None
        BY <1>3, <3>2, <4>1, PinGoes, PinAssumption DEF TypeOK
      <4> QED
        BY <4>2 DEF Placed, RebuildStep, Persistence
    <3>3. CASE LogPin(p) \/ LogPinFails(p)
      BY <1>3, <3>3, PinGoes, RestingPlaced
    <3> QED
      BY <1>3, <3>1, <3>2, <3>3 DEF PinStep
  <2>2. UNCHANGED unlogged
    BY <1>3 DEF PinStep, Pin, Unpin, LogPin, LogPinFails, history
  <2> QED
    BY <1>0, <1>3, <2>1, <2>2, PinGoes, PlacedElsewhere
<1>4. CASE RebuildStepOf(p)
  <2>1. Placed(call[p])'
    <3>0. Placed(call[p]) /\ UNCHANGED events
      BY <1>4 DEF Control, RebuildStepOf, Rebuild, DropPins, DropAffect, OpenScan, Replay, EndRebuild, logged
    <3>1. CASE Rebuild(p)
      <4>1. /\ call'[p].op = "rebuild" /\ call'[p].kind = None /\ call'[p].pin = None
            /\ \/ call'[p].full = TRUE /\ call'[p].step = "drop pins"
               \/ call'[p].full = FALSE /\ call'[p].step = "open"
        BY <3>1, RebuildMoves
      <4> QED
        BY <4>1 DEF Placed, RebuildStep, Persistence
    <3>2. CASE DropPins(p) \/ DropAffect(p)
      <4>1. Advances(p) /\ call'[p].step \in {"drop affect", "open"} /\ call[p].step \in {"drop pins", "drop affect"}
        BY <3>2, ReplayMoves DEF DropPins, DropAffect, At
      <4> QED
        BY <3>0, <4>1 DEF Advances, Placed, RebuildStep, Persistence
    <3>3. CASE OpenScan(p)
      <4>1. /\ Advances(p) /\ call'[p].step = "replay" /\ call[p].step = "open" /\ call'[p].next > first
            /\ call[p].full => call'[p].next <= Len(events) + 1
        <5>1. Advances(p) /\ call'[p].step = "replay" /\ call[p].step = "open" /\ call'[p].next > first
              /\ (call[p].full => call'[p].next = first + 1)
          BY <3>3, ReplayMoves DEF OpenScan, At
        <5>2. first + 1 <= Len(events) + 1
          BY DEF TypeOK, Shape
        <5> QED
          BY <5>1, <5>2
      <4> QED
        BY <1>0, <3>0, <4>1 DEF Advances, Placed, RebuildStep, Persistence
    <3>4. CASE Replay(p)
      <4>1. /\ Advances(p) /\ call'[p].step = "replay" /\ call[p].step = "replay" /\ call'[p].next > first
            /\ call'[p].next <= Len(events) + 1
        <5>1. Advances(p) /\ call'[p].step = "replay" /\ call[p].step = "replay" /\ call'[p].next = call[p].next + 1
              /\ call[p].next <= Len(events)
          BY <3>4, ReplayMoves DEF Replay, At
        <5>2. call[p].next > first /\ call[p].next \in Nat /\ first \in Nat /\ Len(events) \in Nat
          BY <1>0, <3>0, <5>1 DEF Placed, TypeOK, CallOK
        <5> QED
          BY <5>1, <5>2
      <4> QED
        BY <1>0, <3>0, <4>1 DEF Advances, Placed, RebuildStep, Persistence
    <3>5. CASE EndRebuild(p)
      BY <3>5, RestingMoves, RestingPlaced DEF EndRebuild, Returns
    <3> QED
      BY <1>4, <3>1, <3>2, <3>3, <3>4, <3>5 DEF RebuildStepOf
  <2>2. UNCHANGED unlogged
    BY <1>4 DEF RebuildStepOf, Rebuild, DropPins, DropAffect, OpenScan, Replay, EndRebuild, history
  <2> QED
    BY <1>0, <1>4, <2>1, <2>2, RebuildStepTyped, PlacedElsewhere
<1>5. CASE Consolidate(p)
  <2>1. Returns(p) /\ UNCHANGED unlogged
    BY <1>5, RestingMoves DEF Consolidate, history
  <2> QED
    BY <1>0, <2>1, RestingPlaced, PlacedElsewhere DEF Returns
<1> QED
  BY <1>1, <1>2, <1>3, <1>4, <1>5

\* A truncation meets no rebuild, and a restart no call.
LEMMA ControlOtherStep ==
  ASSUME TypeOK, Control, (\E p \in Caller : Truncate(p)) \/ Restart
  PROVE  Control'
<1>1. CASE \E p \in Caller : Truncate(p)
  <2>1. ~Rebuilding /\ UNCHANGED <<call, events, unlogged>>
    BY <1>1 DEF Truncate
  <2>2. \A q \in Caller : call[q].step # "replay"
    BY <2>1 DEF Control, Placed, Rebuilding, RebuildStep
  <2> QED
    BY <2>1, <2>2 DEF Control, Placed
<1>2. CASE Restart
  BY <1>2, RestartMoves, IdleFields DEF Control, Placed, RebuildStep, Persistence
<1> QED
  BY <1>1, <1>2

-----------------------------------------------------------------------------
(***************************************************************************)
(* Pins                                                                    *)
(***************************************************************************)
\* Who awaits events does so at a step of rebuild, and another's step changes nothing.
LEMMA AwaitsElsewhere ==
  ASSUME NEW p \in Caller, Elsewhere(p)
  PROVE  /\ \A q \in Caller : \A i : q # p => (Awaits(q, i)' <=> Awaits(q, i))
         /\ \A q \in Caller : q # p => (At(q, "drop pins")' <=> At(q, "drop pins"))
         /\ \A i : call[p].step \notin RebuildStep => ~Awaits(p, i) /\ ~At(p, "drop pins")
         /\ \A i : call'[p].step \notin RebuildStep => ~Awaits(p, i)' /\ ~At(p, "drop pins")'
BY DEF Elsewhere, Untouched, Awaits, At, RebuildStep

\* A rebuild is under way when somebody stands at one of its steps.
LEMMA RebuildingElsewhere ==
  ASSUME Control, Control', NEW p \in Caller, Elsewhere(p)
  PROVE  /\ Rebuilding <=> \E q \in Caller : call[q].step \in RebuildStep
         /\ call[p].step \in RebuildStep => Rebuilding
         /\ call'[p].step \in RebuildStep => Rebuilding'
         /\ (call[p].step \in RebuildStep <=> call'[p].step \in RebuildStep) => (Rebuilding' <=> Rebuilding)
<1>1. \A q \in Caller : call[q].op = "rebuild" <=> call[q].step \in RebuildStep
  BY DEF Control, Placed
<1>2. \A q \in Caller : call'[q].op = "rebuild" <=> call'[q].step \in RebuildStep
  BY DEF Control, Placed, RebuildStep
<1>3. \A q \in Caller : q # p => call'[q].op = call[q].op
  BY DEF Elsewhere, Untouched
<1> QED
  BY <1>1, <1>2, <1>3 DEF Rebuilding

\* An event that is not about x leaves what the log says of x.
LEMMA SameTouches ==
  ASSUME NEW x, \A i \in Log : i \in Log' /\ events'[i] = events[i],
         \A i \in Log' : i \in Log \/ ~(Says(i, "pin", x)' \/ Says(i, "unpin", x)')
  PROVE  /\ \A i : Touches(x, i)' <=> Touches(x, i)
         /\ LoggedPin(x)' <=> LoggedPin(x)
<1>1. \A i : Touches(x, i)' <=> Touches(x, i)
  BY DEF Touches, Says
<1>2. LoggedPin(x)' <=> LoggedPin(x)
  BY DEF LoggedPin, Says
<1> QED
  BY <1>1, <1>2

\* The pins of the calls other than p's.
LEMMA PinningElsewhere ==
  ASSUME NEW p \in Caller, Elsewhere(p)
  PROVE  /\ \A x \in Pinning : x = call[p].pin \/ x \in Pinning'
         /\ \A q \in Caller : q # p => call'[q].pin = call[q].pin
         /\ \A q \in Caller : call[q].pin # None => call[q].pin \in Pinning
         /\ call'[p].pin # None => call'[p].pin \in Pinning'
<1>1. \A q \in Caller : q # p => call'[q].pin = call[q].pin
  BY DEF Elsewhere, Untouched
<1> QED
  BY <1>1 DEF Pinning

\* The affect calls do not touch pins.
LEMMA AffectKeepsPins ==
  ASSUME Shape, TypeOK, Control, Control', PinInv, PinCallInv, NEW p \in Caller,
         LiveStep(p) \/ PersistStep(p) \/ Consolidate(p)
  PROVE  PinInv' /\ PinCallInv'
<1>1. UNCHANGED <<pins, used, blurred>>
  BY DEF LiveStep, Trigger, SetTemperament, ResetMood, Drift, MoodUpdate, PersistStep, ReadState, SaveRow, ReadAgain,
         LogState, PersistFails, Consolidate, tables, history
<1>2. /\ Elsewhere(p) /\ call[p].pin = None /\ call'[p].pin = None
      /\ call[p].step \notin RebuildStep /\ call'[p].step \notin RebuildStep
  <2>1. CASE LiveStep(p)
    BY <2>1, LiveMoves DEF Changer, RebuildStep
  <2>2. CASE PersistStep(p)
    BY <2>2, PersistWhere, PersistGoes DEF Resting, Advances, RebuildStep
  <2>3. CASE Consolidate(p)
    <3>1. call[p].step = "idle" /\ call[p].pin = None
      BY <2>3 DEF Consolidate, Ready, Control, Placed
    <3> QED
      BY <2>3, <3>1, RestingMoves DEF Returns, Resting, RebuildStep
  <2> QED
    BY <2>1, <2>2, <2>3
<1>3. ASSUME NEW x PROVE (\A i : Touches(x, i)' <=> Touches(x, i)) /\ (LoggedPin(x)' <=> LoggedPin(x))
  <2>1. \A i \in Log : i \in Log' /\ events'[i] = events[i]
    BY LogGrows
  <2>2. \A i \in Log' : i \in Log \/ events'[i].kind \in Kind
    <3>1. ~LogPin(p)
      BY <1>2 DEF LogPin, At, Control, Placed
    <3>2. LogState(p) => call[p].kind \in Kind
      BY PersistWhere DEF PersistStep
    <3> QED
      BY <3>1, <3>2, LogGrows
  <2>3. \A i \in Log' : i \in Log \/ ~(Says(i, "pin", x)' \/ Says(i, "unpin", x)')
    BY <2>2 DEF Says, Kind
  <2> QED
    BY <2>1, <2>3, SameTouches
<1>4. /\ \A q \in Caller : \A i : Awaits(q, i)' <=> Awaits(q, i)
      /\ \A q \in Caller : At(q, "drop pins")' <=> At(q, "drop pins")
  BY <1>2, AwaitsElsewhere
<1>5. \A q \in Caller : (call'[q].pin = call[q].pin /\ call'[q].op = call[q].op) \/ q = p
  BY <1>2 DEF Elsewhere, Untouched
<1>6. \A x \in Pinning : x \in Pinning'
  BY <1>2, PinningElsewhere DEF Pinning
<1>7. PinInv'
  <2>1. ASSUME NEW x \in used \ blurred, ~(x \in Pinning)
        PROVE  PinRight(x)' \/ PinAwaited(x)' \/ \E q \in Caller : At(q, "drop pins")'
    <3>1. CASE PinRight(x)
      BY <1>1, <1>3, <3>1 DEF PinRight
    <3>2. CASE PinAwaited(x)
      <4>1. PICK q \in Caller, i \in Log : Touches(x, i) /\ Awaits(q, i)
        BY <3>2 DEF PinAwaited
      <4>2. Touches(x, i)' /\ Awaits(q, i)' /\ i \in Log'
        BY <1>3, <1>4, <4>1 DEF Touches
      <4> QED
        BY <4>2 DEF PinAwaited
    <3> QED
      BY <1>4, <2>1, <3>1, <3>2 DEF PinInv
  <2> QED
    BY <1>1, <1>6, <2>1 DEF PinInv
<1>8. PinCallInv'
  <2>1. Rebuilding' <=> Rebuilding
    BY <1>2, RebuildingElsewhere
  <2> QED
    BY <1>1, <1>2, <1>5, <2>1 DEF PinCallInv
<1> QED
  BY <1>7, <1>8

\* What a pin that p's step is not about goes on to be.
PinFine(x) == x \in Pinning \/ PinRight(x) \/ PinAwaited(x) \/ \E q \in Caller : At(q, "drop pins")

\* The steps of pin and unpin keep the pins that they are not about.
LEMMA OtherPins ==
  ASSUME Shape, TypeOK, Control, Control', PinInv, NEW p \in Caller, PinStep(p),
         NEW x \in used \ blurred, x # call[p].pin, x \in pins' <=> x \in pins
  PROVE  PinFine(x)'
<1>1. /\ Elsewhere(p) /\ call[p].step \notin RebuildStep /\ call'[p].step \notin RebuildStep
  BY PinGoes
<1>2. (\A i : Touches(x, i)' <=> Touches(x, i)) /\ (LoggedPin(x)' <=> LoggedPin(x))
  <2>1. \A i \in Log : i \in Log' /\ events'[i] = events[i]
    BY LogGrows
  <2>2. ~LogState(p)
    BY PinGoes DEF LogState, At, Control, Placed, Persistence
  <2>3. \A i \in Log' : i \in Log \/ ~(Says(i, "pin", x)' \/ Says(i, "unpin", x)')
    BY <2>2, LogGrows DEF Says
  <2> QED
    BY <2>1, <2>3, SameTouches
<1>3. /\ \A q \in Caller : \A i : Awaits(q, i)' <=> Awaits(q, i)
      /\ \A q \in Caller : At(q, "drop pins")' <=> At(q, "drop pins")
  BY <1>1, AwaitsElsewhere
<1>4. x \in Pinning => x \in Pinning'
  BY <1>1, PinningElsewhere
<1>5. PinRight(x) => PinRight(x)'
  BY <1>2 DEF PinRight
<1>6. PinAwaited(x) => PinAwaited(x)'
  <2>1. ASSUME NEW q \in Caller, NEW i \in Log, Touches(x, i), Awaits(q, i) PROVE PinAwaited(x)'
    <3>1. Touches(x, i)' /\ Awaits(q, i)' /\ i \in Log'
      BY <1>2, <1>3, <2>1 DEF Touches
    <3> QED
      BY <3>1 DEF PinAwaited
  <2> QED
    BY <2>1 DEF PinAwaited
<1> QED
  BY <1>3, <1>4, <1>5, <1>6 DEF PinFine, PinInv

\* pin and unpin keep table and log together, or await their own event.
LEMMA PinStepKeepsPins ==
  ASSUME Shape, TypeOK, Control, Control', PinInv, PinCallInv, NEW p \in Caller, PinStep(p)
  PROVE  PinInv' /\ PinCallInv'
<1>0. /\ Elsewhere(p) /\ call[p].step \notin RebuildStep /\ call'[p].step \notin RebuildStep
      /\ Rebuilding' <=> Rebuilding
      /\ \A q \in Caller : q # p => call'[q].pin = call[q].pin /\ call'[q].op = call[q].op
      /\ \A q \in Caller : call[q].pin # None => call[q].pin \in Pinning /\ call[q].pin \in used
  <2>1. /\ Elsewhere(p) /\ call[p].step \notin RebuildStep /\ call'[p].step \notin RebuildStep
    BY PinGoes
  <2>2. \A q \in Caller : call[q].pin # None => call[q].pin \in used
    BY DEF TypeOK, CallOK
  <2> QED
    BY <2>1, <2>2, RebuildingElsewhere, PinningElsewhere DEF Elsewhere, Untouched
<1>s. SUFFICES ASSUME TRUE
      PROVE  /\ \A x \in used' \ blurred' : PinFine(x)'
             /\ PinCallInv'
  BY DEF PinFine, PinInv
<1>1. CASE Pin(p)
  <2>1. PICK x \in PinId \ used : /\ pins' = pins \cup {x} /\ used' = used \cup {x}
                                  /\ blurred' = IF Rebuilding THEN blurred \cup {x} ELSE blurred
                                  /\ PinCall(p, "pin", x)
    BY <1>1 DEF Pin
  <2>2. call'[p].pin = x /\ call'[p].op = "pin" /\ call[p].pin = None /\ x # None
    BY <1>1, <2>1, PinGoes, PinAssumption
  <2>3. ASSUME NEW y \in used' \ blurred' PROVE PinFine(y)'
    <3>1. CASE y = x
      BY <1>0, <2>2, <3>1, PinningElsewhere DEF PinFine
    <3>2. CASE y # x
      <4>1. y \in used \ blurred /\ y # call[p].pin /\ (y \in pins' <=> y \in pins)
        BY <2>1, <2>2, <3>2, PinAssumption DEF TypeOK
      <4> QED
        BY <4>1, OtherPins
    <3> QED
      BY <3>1, <3>2
  <2>4. ASSUME NEW q \in Caller, call'[q].pin # None, call'[q].pin \notin blurred'
        PROVE  /\ ~Rebuilding' /\ (call'[q].pin \in pins' <=> call'[q].op = "pin")
               /\ \A r \in Caller : call'[r].pin = call'[q].pin => r = q
    <3>1. CASE q = p
      BY <1>0, <2>1, <2>2, <2>4, <3>1
    <3>2. CASE q # p
      BY <1>0, <2>1, <2>2, <2>4, <3>2 DEF PinCallInv
    <3> QED
      BY <3>1, <3>2
  <2> QED
    BY <2>3, <2>4 DEF PinCallInv
<1>2. CASE Unpin(p)
  <2>1. PICK x \in pins : /\ pins' = pins \ {x} /\ used' = used
                          /\ blurred' = IF Rebuilding \/ x \in Pinning THEN blurred \cup {x} ELSE blurred
                          /\ PinCall(p, "unpin", x)
    BY <1>2 DEF Unpin
  <2>2. call'[p].pin = x /\ call'[p].op = "unpin" /\ call[p].pin = None /\ x # None
    BY <1>2, <2>1, PinGoes, PinAssumption DEF TypeOK
  <2>3. ASSUME NEW y \in used' \ blurred' PROVE PinFine(y)'
    <3>1. CASE y = x
      BY <1>0, <2>2, <3>1, PinningElsewhere DEF PinFine
    <3>2. CASE y # x
      <4>1. y \in used \ blurred /\ y # call[p].pin /\ (y \in pins' <=> y \in pins)
        BY <2>1, <2>2, <3>2, PinAssumption DEF TypeOK
      <4> QED
        BY <4>1, OtherPins
    <3> QED
      BY <3>1, <3>2
  <2>4. ASSUME NEW q \in Caller, call'[q].pin # None, call'[q].pin \notin blurred'
        PROVE  /\ ~Rebuilding' /\ (call'[q].pin \in pins' <=> call'[q].op = "pin")
               /\ \A r \in Caller : call'[r].pin = call'[q].pin => r = q
    <3>1. CASE q = p
      BY <1>0, <2>1, <2>2, <2>4, <3>1
    <3>2. CASE q # p
      <4>1. call[q].pin # x
        BY <1>0, <2>1, <2>2, <2>4, <3>2
      <4> QED
        BY <1>0, <2>1, <2>2, <2>4, <3>2, <4>1 DEF PinCallInv
    <3> QED
      BY <3>1, <3>2
  <2> QED
    BY <2>3, <2>4 DEF PinCallInv
<1>3. CASE LogPin(p) \/ LogPinFails(p)
  <2>0. /\ UNCHANGED <<pins, used>> /\ call[p].op \in {"pin", "unpin"} /\ call[p].pin # None /\ call[p].pin \in used
        /\ call'[p].pin = None /\ blurred \subseteq blurred'
    BY <1>3, PinGoes DEF LogPin, LogPinFails, tables, history, Resting
  <2>1. PinCallInv'
    BY <1>0, <2>0 DEF PinCallInv
  <2>2. ASSUME NEW y \in used' \ blurred', y # call[p].pin PROVE PinFine(y)'
    BY <2>0, <2>2, OtherPins
  <2>3. ASSUME NEW x \in used' \ blurred', x = call[p].pin PROVE PinFine(x)'
    <3>1. LogPin(p) /\ UNCHANGED blurred
      BY <1>3, <2>3 DEF LogPinFails, LogPin, history
    <3>2. x \in pins <=> call[p].op = "pin"
      BY <2>0, <2>3, <3>1 DEF PinCallInv
    <3>3. PICK n \in Log' : /\ events'[n].kind = call[p].op /\ events'[n].data = x
                            /\ \A i \in Log' : i <= n
      <4>1. Len(events) + 1 \in Log' /\ events'[Len(events) + 1].kind = call[p].op /\ events'[Len(events) + 1].data = x
        BY <2>3, <3>1, LogGrows
      <4>2. \A i \in Log' : i <= Len(events) + 1
        BY LogGrows DEF Log
      <4> QED
        BY <4>1, <4>2
    <3>4. \A i \in Log' : i \in Nat
      BY LogGrows DEF Log, TypeOK
    <3>5. CASE call[p].op = "pin"
      <4>1. LoggedPin(x)'
        BY <3>3, <3>4, <3>5 DEF LoggedPin, Says
      <4> QED
        BY <2>0, <3>2, <3>5, <4>1 DEF PinFine, PinRight
    <3>6. CASE call[p].op = "unpin"
      <4>1. Says(n, "unpin", x)' /\ \A i \in Log' : Says(i, "pin", x)' => i # n
        BY <3>3, <3>6 DEF Says
      <4>2. \A i \in Log' : i # n => n > i
        BY <3>3, <3>4
      <4>3. ~LoggedPin(x)'
        BY <4>1, <4>2 DEF LoggedPin
      <4> QED
        BY <2>0, <3>2, <3>6, <4>3 DEF PinFine, PinRight
    <3> QED
      BY <2>0, <3>5, <3>6
  <2> QED
    BY <2>0, <2>1, <2>2, <2>3
<1> QED
  BY <1>1, <1>2, <1>3 DEF PinStep

\* During a rebuild the pins of the calls in progress are excused.
LEMMA PinsDuringRebuild ==
  ASSUME Shape, TypeOK, Control, Control', PinCallInv, NEW p \in Caller, RebuildStepOf(p), ~Rebuild(p)
  PROVE  /\ PinCallInv' /\ Elsewhere(p) /\ Rebuilding
         /\ UNCHANGED <<blurred, used, events, first>> /\ Log' = Log
         /\ \A x \in Pinning : x \in Pinning'
         /\ \A x : (\A i : Touches(x, i)' <=> Touches(x, i)) /\ (LoggedPin(x)' <=> LoggedPin(x))
<1>1. UNCHANGED <<blurred, used, events, first>> /\ call[p].step \in RebuildStep
  BY DEF RebuildStepOf, DropPins, DropAffect, OpenScan, Replay, EndRebuild, history, logged, At, RebuildStep
<1>2. Elsewhere(p)
  BY RebuildStepTyped
<1>3. Rebuilding /\ call[p].pin = None
  BY <1>1, <1>2, RebuildingElsewhere DEF Control, Placed, RebuildStep
<1>4. call'[p].pin = None
  <2>1. EndRebuild(p) => Resting(p)
    BY RestingMoves DEF EndRebuild, Returns
  <2>2. ~EndRebuild(p) => Advances(p)
    BY ReplayMoves DEF RebuildStepOf
  <2> QED
    BY <1>3, <2>1, <2>2 DEF Resting, Advances
<1>5. \A q \in Caller : call'[q].pin = call[q].pin
  BY <1>2, <1>3, <1>4 DEF Elsewhere, Untouched
<1>6. PinCallInv'
  BY <1>1, <1>3, <1>5 DEF PinCallInv
<1>7. \A x : (\A i : Touches(x, i)' <=> Touches(x, i)) /\ (LoggedPin(x)' <=> LoggedPin(x))
  BY <1>1 DEF Touches, LoggedPin, Says, Log
<1> QED
  BY <1>1, <1>2, <1>3, <1>5, <1>6, <1>7 DEF Pinning, Log

\* One event replayed: what comes after it is still awaited.
LEMMA ReplayAt ==
  ASSUME Shape, TypeOK, Control, NEW p \in Caller, Replay(p)
  PROVE  \E n \in Log : /\ pins' = PinsAfter(events[n]) /\ saved' = SavedAfter(events[n])
                        /\ call[p].step = "replay" /\ call'[p].step = "replay" /\ call'[p].full = call[p].full
                        /\ \A i \in Log : i > n => Awaits(p, i)'
                        /\ \A i \in Log : i # n /\ Awaits(p, i) => Awaits(p, i)'
<1> DEFINE n == call[p].next
<1>1. call[p].step = "replay" /\ n <= Len(events) /\ pins' = PinsAfter(events[n]) /\ saved' = SavedAfter(events[n])
  BY DEF Replay, At
<1>2. n \in Nat /\ n > first
  <2>1. Placed(call[p]) /\ call[p].next \in 1 .. MaxEvents + 1
    BY DEF Control, TypeOK, CallOK
  <2> QED
    BY <1>1, <2>1 DEF Placed
<1>3. first \in Nat /\ Len(events) \in Nat
  BY DEF TypeOK, Shape
<1>4. call'[p].step = "replay" /\ call'[p].next = n + 1 /\ call'[p].full = call[p].full
  BY ReplayMoves DEF Advances
<1>5. Awaits(p, n) /\ \A i : Awaits(p, i) => n <= i
  BY <1>1, <1>2 DEF Awaits, At
<1> HIDE DEF n
<1>6. n \in Log /\ \A i \in Log : i \in Nat
  BY <1>1, <1>2, <1>3 DEF Log
<1>7. \A i \in Log : i > n => Awaits(p, i)'
  BY <1>2, <1>4, <1>6 DEF Awaits, At
<1>8. \A i \in Log : i # n /\ Awaits(p, i) => Awaits(p, i)'
  BY <1>2, <1>5, <1>6, <1>7
<1> QED
  BY <1>1, <1>4, <1>6, <1>7, <1>8

\* A full rebuild empties the table and refills it from the log.
LEMMA RebuildKeepsPins ==
  ASSUME Shape, TypeOK, Control, Control', PinInv, PinCallInv, NEW p \in Caller, RebuildStepOf(p)
  PROVE  PinInv' /\ PinCallInv'
<1>s. SUFFICES ASSUME TRUE
      PROVE  /\ \A x \in used' \ blurred' : PinFine(x)'
             /\ PinCallInv'
  BY DEF PinFine, PinInv
<1>1. CASE Rebuild(p)
  <2>1. /\ Elsewhere(p) /\ UNCHANGED <<pins, used, events, first>> /\ call[p].step = "idle" /\ call[p].pin = None
        /\ call'[p].pin = None
        /\ \/ call'[p].step = "drop pins" /\ blurred' = Pinning
           \/ call'[p].step = "open" /\ call'[p].full = FALSE /\ blurred' = blurred \cup Pinning
    BY <1>1, RebuildMoves DEF Rebuild, Ready, Control, Placed, tables, logged
  <2>2. \A q \in Caller : call'[q].pin = call[q].pin
    BY <2>1, PinningElsewhere
  <2>3. PinCallInv'
    <3>1. \A q \in Caller : call'[q].pin # None => call'[q].pin \in blurred'
      BY <2>1, <2>2 DEF Pinning
    <3> QED
      BY <3>1 DEF PinCallInv
  <2>4. CASE call'[p].step = "drop pins"
    <3>1. At(p, "drop pins")'
      BY <2>4 DEF At
    <3> QED
      BY <2>3, <3>1 DEF PinFine
  <2>5. CASE blurred' = blurred \cup Pinning
    <3>1. ASSUME NEW x \in used' \ blurred' PROVE PinFine(x)'
      <4>1. PinRight(x) \/ PinAwaited(x) \/ \E q \in Caller : At(q, "drop pins")
        BY <2>1, <2>5, <3>1 DEF PinInv
      <4>2. (\A i : Touches(x, i)' <=> Touches(x, i)) /\ (LoggedPin(x)' <=> LoggedPin(x)) /\ Log' = Log
        BY <2>1 DEF Touches, LoggedPin, Says, Log
      <4>3. PinRight(x) => PinRight(x)'
        BY <2>1, <4>2 DEF PinRight
      <4>4. /\ \A q \in Caller : \A i : Awaits(q, i) => Awaits(q, i)'
            /\ \A q \in Caller : At(q, "drop pins") => At(q, "drop pins")'
        BY <2>1, AwaitsElsewhere DEF RebuildStep
      <4>5. PinAwaited(x) => PinAwaited(x)'
        BY <4>2, <4>4 DEF PinAwaited
      <4> QED
        BY <4>1, <4>3, <4>4, <4>5 DEF PinFine
    <3> QED
      BY <2>3, <3>1
  <2> QED
    BY <2>1, <2>4, <2>5
<1>2. CASE ~Rebuild(p)
  <2>0. /\ PinCallInv' /\ Elsewhere(p) /\ Rebuilding /\ UNCHANGED <<blurred, used, events, first>> /\ Log' = Log
        /\ \A x \in Pinning : x \in Pinning'
        /\ \A x : (\A i : Touches(x, i)' <=> Touches(x, i)) /\ (LoggedPin(x)' <=> LoggedPin(x))
    BY <1>2, PinsDuringRebuild
  <2>1. /\ \A q \in Caller : \A i : q # p => (Awaits(q, i)' <=> Awaits(q, i))
        /\ \A q \in Caller : q # p => (At(q, "drop pins")' <=> At(q, "drop pins"))
    BY <2>0, AwaitsElsewhere
  <2>2. ASSUME NEW x \in used \ blurred PROVE PinFine(x)'
    <3>1. \A q \in Caller, i \in Log : Touches(x, i) /\ Awaits(q, i)' => PinAwaited(x)'
      BY <2>0 DEF PinAwaited
    <3>2. CASE DropPins(p)
      <4>1. pins' = {} /\ \A i : Awaits(p, i)'
        <5>1. call[p].full /\ call[p].step = "drop pins"
          BY <3>2 DEF DropPins, At, Control, Placed
        <5>2. call'[p].full /\ call'[p].step = "drop affect"
          BY <3>2, <5>1, ReplayMoves DEF Advances
        <5> QED
          BY <3>2, <5>2 DEF DropPins, Awaits
      <4>2. CASE \E i \in Log : Touches(x, i)
        BY <3>1, <4>1, <4>2 DEF PinFine
      <4>3. CASE ~\E i \in Log : Touches(x, i)
        <5>1. ~LoggedPin(x)
          BY <4>3 DEF LoggedPin, Touches
        <5> QED
          BY <2>0, <4>1, <5>1 DEF PinFine, PinRight
      <4> QED
        BY <4>2, <4>3
    <3>3. CASE DropAffect(p) \/ OpenScan(p) \/ EndRebuild(p)
      <4>1. UNCHANGED pins
        BY <3>3 DEF DropAffect, OpenScan, EndRebuild, tables
      <4>2. ~At(p, "drop pins")
        BY <3>3 DEF DropAffect, OpenScan, EndRebuild, At
      <4>3. \A i \in Log : Awaits(p, i) => Awaits(p, i)'
        <5>1. CASE DropAffect(p)
          <6>1. call[p].full /\ call'[p].full = call[p].full /\ call'[p].step = "open"
            BY <5>1, ReplayMoves DEF DropAffect, At, Control, Placed, Advances
          <6> QED
            BY <6>1 DEF Awaits
        <5>2. CASE OpenScan(p)
          <6>1. call[p].step = "open" /\ call'[p].step = "replay" /\ (call[p].full => call'[p].next = first + 1)
            BY <5>2, ReplayMoves DEF OpenScan, At
          <6>2. \A i \in Log : first + 1 <= i
            BY DEF Log, TypeOK
          <6> QED
            BY <6>1, <6>2 DEF Awaits, At
        <5>3. CASE EndRebuild(p)
          <6>1. call[p].step = "replay" /\ call[p].next > Len(events) /\ call[p].next \in Nat /\ Len(events) \in Nat
            BY <5>3 DEF EndRebuild, At, TypeOK, CallOK, Shape
          <6>2. \A i \in Log : i \in Nat /\ i <= Len(events)
            BY <6>1 DEF Log, TypeOK
          <6>3. \A i \in Log : ~Awaits(p, i)
            BY <6>1, <6>2 DEF Awaits, At
          <6> QED
            BY <6>3
        <5> QED
          BY <3>3, <5>1, <5>2, <5>3
      <4>4. PinRight(x) => PinRight(x)'
        BY <2>0, <4>1 DEF PinRight
      <4>5. PinAwaited(x) => PinAwaited(x)'
        BY <2>1, <3>1, <4>3 DEF PinAwaited
      <4> QED
        BY <2>0, <2>1, <4>2, <4>4, <4>5 DEF PinFine, PinInv
    <3>4. CASE Replay(p)
      <4>1. PICK n \in Log : /\ pins' = PinsAfter(events[n]) /\ ~At(p, "drop pins")
                             /\ \A i \in Log : i > n => Awaits(p, i)'
                             /\ \A i \in Log : i # n /\ Awaits(p, i) => Awaits(p, i)'
        BY <3>4, ReplayAt DEF At
      <4>2. CASE Touches(x, n) /\ \A i \in Log : i > n => ~Touches(x, i)
        <5>0. \A i \in Log : i \in Nat
          BY DEF Log, TypeOK, Shape
        <5>1. CASE Says(n, "pin", x)
          <6>1. LoggedPin(x)
            BY <4>1, <4>2, <5>1 DEF LoggedPin, Touches
          <6>2. x \in pins'
            BY <4>1, <5>1 DEF PinsAfter, Says
          <6> QED
            BY <2>0, <6>1, <6>2 DEF PinFine, PinRight
        <5>2. CASE Says(n, "unpin", x)
          <6>0. \A i \in Log : Says(i, "pin", x) => i # n /\ ~(i > n)
            BY <4>2, <5>2 DEF Touches, Says
          <6>1. \A i \in Log : Says(i, "pin", x) => n > i
            BY <5>0, <6>0
          <6>2. ~LoggedPin(x)
            BY <5>2, <6>1 DEF LoggedPin
          <6>3. x \notin pins'
            BY <4>1, <5>2 DEF PinsAfter, Says
          <6> QED
            BY <2>0, <6>2, <6>3 DEF PinFine, PinRight
        <5> QED
          BY <4>2, <5>1, <5>2 DEF Touches
      <4>3. CASE \E i \in Log : i > n /\ Touches(x, i)
        BY <3>1, <4>1, <4>3 DEF PinFine
      <4>4. CASE ~Touches(x, n)
        <5>1. x \in pins' <=> x \in pins
          BY <4>1, <4>4 DEF PinsAfter, Touches, Says
        <5>2. PinRight(x) => PinRight(x)'
          BY <2>0, <5>1 DEF PinRight
        <5>3. PinAwaited(x) => PinAwaited(x)'
          BY <2>1, <3>1, <4>1, <4>4 DEF PinAwaited
        <5> QED
          BY <2>0, <2>1, <4>1, <5>2, <5>3 DEF PinFine, PinInv
      <4> QED
        BY <4>2, <4>3, <4>4
    <3> QED
      BY <1>2, <3>2, <3>3, <3>4 DEF RebuildStepOf
  <2> QED
    BY <2>0, <2>2
<1> QED
  BY <1>1, <1>2

\* What retention removes excuses the pins it was about; a restart, those in progress.
LEMMA OtherStepKeepsPins ==
  ASSUME Shape, TypeOK, Control, PinInv, PinCallInv, (\E p \in Caller : Truncate(p)) \/ Restart
  PROVE  PinInv' /\ PinCallInv'
<1>0. ~Rebuilding => /\ \A x : ~PinAwaited(x)
                     /\ \A q \in Caller : ~At(q, "drop pins")
  BY DEF Rebuilding, PinAwaited, Awaits, At, Control, Placed, RebuildStep
<1>1. CASE \E p \in Caller : Truncate(p)
  <2>1. PICK n \in Log : /\ first' = n
                         /\ blurred' = blurred \cup {events[i].data : i \in {j \in 1 .. n : events[j].kind \in {"pin", "unpin"}}}
    BY <1>1 DEF Truncate
  <2>2. UNCHANGED <<pins, used, call, events>> /\ ~Rebuilding
    BY <1>1 DEF Truncate, tables
  <2>3. PinCallInv'
    <3>1. blurred \subseteq blurred' /\ (Rebuilding' <=> Rebuilding)
      BY <2>1, <2>2 DEF Rebuilding
    <3> QED
      BY <2>2, <3>1 DEF PinCallInv
  <2>4. ASSUME NEW x \in used \ blurred', x \notin Pinning PROVE PinRight(x)'
    <3>1. PinRight(x)
      BY <1>0, <2>1, <2>2, <2>4 DEF PinInv
    <3>2. \A i \in Log : i \in Nat /\ i >= 1 /\ i <= Len(events) /\ n \in Nat /\ Len(events) \in Nat
      BY DEF Log, TypeOK, Shape
    <3>3. \A i \in Log : i <= n => ~Says(i, "pin", x) /\ ~Says(i, "unpin", x)
      BY <2>1, <2>4, <3>2 DEF Says
    <3>4. \A i \in Log : i > n => i \in Log'
      BY <2>1, <2>2, <3>2 DEF Log
    <3>5. \A i \in Log' : i \in Log /\ i > n
      BY <2>1, <2>2, <3>2 DEF Log, TypeOK
    <3>6. LoggedPin(x)' <=> LoggedPin(x)
      BY <2>2, <3>2, <3>3, <3>4, <3>5 DEF LoggedPin, Says
    <3> QED
      BY <2>2, <3>1, <3>6 DEF PinRight
  <2> QED
    BY <2>2, <2>3, <2>4 DEF PinInv, Pinning
<1>2. CASE Restart
  <2>1. /\ UNCHANGED <<pins, used, events, first>> /\ blurred' = IF Rebuilding THEN used ELSE blurred \cup Pinning
    BY <1>2 DEF Restart, tables, logged
  <2>2. PinCallInv'
    BY <1>2, RestartMoves, IdleFields DEF PinCallInv
  <2>3. ASSUME NEW x \in used \ blurred' PROVE PinRight(x)'
    <3>1. PinRight(x)
      BY <1>0, <2>1, <2>3 DEF PinInv
    <3>2. LoggedPin(x)' <=> LoggedPin(x)
      BY <2>1 DEF LoggedPin, Says, Log
    <3> QED
      BY <2>1, <3>1, <3>2 DEF PinRight
  <2> QED
    BY <2>1, <2>2, <2>3 DEF PinInv
<1> QED
  BY <1>1, <1>2

-----------------------------------------------------------------------------
(***************************************************************************)
(* Rows                                                                    *)
(***************************************************************************)
\* Another's record, where rows are concerned.
LEMMA BusyElsewhere ==
  ASSUME NEW p \in Caller, Elsewhere(p), NEW k
  PROVE  /\ Busy(k) /\ ~(call[p].kind = k /\ call[p].step \in {"read", "save"}) => Busy(k)'
         /\ call'[p].kind = k /\ call'[p].step \in {"read", "save"} => Busy(k)'
BY DEF Elsewhere, Untouched, Busy

\* An event of another kind leaves what the log says of k.
LEMMA SameKinds ==
  ASSUME NEW k, \A i \in Log : i \in Log' /\ events'[i] = events[i],
         \A i \in Log' : i \in Log \/ events'[i].kind # k
  PROVE  \A i : (OfKind(k, i)' <=> OfKind(k, i)) /\ (NewestOf(k, i)' <=> NewestOf(k, i))
                /\ (OfKind(k, i) => events'[i] = events[i])
<1>1. \A i : (OfKind(k, i)' <=> OfKind(k, i)) /\ (OfKind(k, i) => events'[i] = events[i])
  BY DEF OfKind
<1>2. \A i : NewestOf(k, i)' <=> NewestOf(k, i)
  BY <1>1 DEF NewestOf, OfKind
<1> QED
  BY <1>1, <1>2

\* Events of k that a rebuild had yet to replay are still to be replayed.
LEMMA StillAwaited ==
  ASSUME NEW k, \A i : OfKind(k, i) => OfKind(k, i)',
         \A q \in Caller, i \in Log : OfKind(k, i) /\ Awaits(q, i) => Awaits(q, i)'
  PROVE  RowAwaited(k) => RowAwaited(k)'
BY DEF RowAwaited, OfKind

\* Another call that is alone stays so when the step of p is about another kind.
LEMMA AloneElsewhere ==
  ASSUME Control, AloneInv, NEW p \in Caller, Elsewhere(p), Rebuilding' => Rebuilding,
         NEW q \in Caller, q # p,
         call'[q].alone /\ call[q].kind # None /\ call[p].kind # call[q].kind =>
            /\ call'[p].kind # call[q].kind
            /\ live'[call[q].kind] = live[call[q].kind] /\ saved'[call[q].kind] = saved[call[q].kind]
            /\ call[q].kind \in adrift' => call[q].kind \in adrift \/ saved[call[q].kind] = {}
  PROVE  AloneAt(q)'
<1> SUFFICES ASSUME call'[q].alone, call'[q].kind # None
             PROVE  /\ ~Rebuilding'
                    /\ \A r \in Caller : call'[r].kind = call'[q].kind => r = q
                    /\ call'[q].step \in {"save", "log"} => call'[q].saw = live'[call'[q].kind]
                    /\ call'[q].step \in {"reread", "log"} =>
                          call'[q].kind \notin adrift' /\ saved'[call'[q].kind] = {live'[call'[q].kind]}
  BY DEF AloneAt
<1>1. /\ call'[q].kind = call[q].kind /\ call'[q].step = call[q].step /\ call'[q].saw = call[q].saw /\ call[q].alone
      /\ \A r \in Caller : r # p => call'[r].kind = call[r].kind
  BY DEF Elsewhere, Untouched
<1>2. /\ ~Rebuilding /\ \A r \in Caller : call[r].kind = call[q].kind => r = q
      /\ call[q].step \in {"save", "log"} => call[q].saw = live[call[q].kind]
      /\ call[q].step \in {"reread", "log"} => call[q].kind \notin adrift /\ saved[call[q].kind] = {live[call[q].kind]}
  BY <1>1 DEF AloneInv, AloneAt
<1>3. call[p].kind # call[q].kind
  BY <1>2
<1> QED
  BY <1>1, <1>2, <1>3

\* p changes what is live of k, and perhaps of the other kinds of K, and goes on to persist k.
Changes(p, k, K) ==
    /\ \E op : Changer(p, op, k)
    /\ k \in K /\ \A q \in Caller : q # p /\ call[q].kind \in K => ~call'[q].alone
    /\ \A j \in Kind : j \notin K => live'[j] = live[j] /\ (j \in adrift' => j \in adrift \/ saved[j] = {})
    /\ \A j \in Kind : j # k /\ j \notin adrift' => live'[j] = live[j] /\ (j = "mood" => saved[j] # {})

\* What the steps that change what is live do, kind by kind.
LEMMA LiveEffect ==
  ASSUME Shape, TypeOK, Control, NEW p \in Caller, LiveStep(p)
  PROVE  /\ UNCHANGED <<base, saved, events, first, unlogged>> /\ adrift \subseteq adrift'
         /\ \E k \in Kind, K \in SUBSET Kind : Changes(p, k, K)
<1>1. UNCHANGED <<base, saved, events, first, unlogged>> /\ adrift \subseteq adrift'
  BY DEF LiveStep, Trigger, SetTemperament, ResetMood, Drift, MoodUpdate, tables, logged, history
<1>2. DOMAIN live = Kind
  BY DEF TypeOK, Kind
<1>3. ASSUME NEW op, NEW k \in Kind, NEW K \in SUBSET Kind, Changing(p, op, k, K), k \in K,
             \A j \in Kind : j \notin K => live'[j] = live[j] /\ (j \in adrift' => j \in adrift \/ saved[j] = {}),
             \A j \in Kind : j # k /\ j \notin adrift' => live'[j] = live[j] /\ (j = "mood" => saved[j] # {})
      PROVE  Changes(p, k, K)
  BY <1>3, ChangingMoves DEF Changes
<1>4. CASE Trigger(p) \/ ResetMood(p) \/ MoodUpdate(p)
  <2>1. PICK op \in {"trigger", "reset_mood", "consolidate"} : Changing(p, op, "mood", {"mood"})
    BY <1>4 DEF Trigger, ResetMood, MoodUpdate
  <2>2. \E m : live' = [live EXCEPT !.mood = m]
    BY <1>4 DEF Trigger, ResetMood, MoodUpdate
  <2>3. live'.temperament = live.temperament /\ UNCHANGED adrift
    BY <1>2, <1>4, <2>2 DEF Trigger, ResetMood, MoodUpdate, history
  <2>4. Changes(p, "mood", {"mood"})
    BY <1>3, <2>1, <2>3 DEF Kind
  <2> QED
    BY <1>1, <2>4 DEF Kind
<1>5. CASE SetTemperament(p)
  <2>1. /\ Changing(p, "set_temperament", "temperament", {"temperament"}) /\ live'.mood = live.mood
        /\ adrift' = IF saved.mood = NoRow THEN adrift \cup {"mood"} ELSE adrift
    BY <1>2, <1>5 DEF SetTemperament
  <2>2. Changes(p, "temperament", {"temperament"})
    BY <1>3, <2>1 DEF Kind, NoRow
  <2> QED
    BY <1>1, <2>2 DEF Kind
<1>6. CASE Drift(p)
  <2>1. Changing(p, "consolidate", "temperament", Kind) /\ adrift' = adrift \cup {"mood"}
    BY <1>6 DEF Drift
  <2>2. Changes(p, "temperament", Kind)
    BY <1>3, <2>1 DEF Kind
  <2> QED
    BY <1>1, <2>2 DEF Kind
<1> QED
  BY <1>4, <1>5, <1>6 DEF LiveStep

\* A change of what is live leaves somebody busy to persist it.
LEMMA LiveKeepsRows ==
  ASSUME Shape, TypeOK, Control, Control', RowInv, EventInv, AloneInv, NEW p \in Caller, LiveStep(p)
  PROVE  RowInv' /\ EventInv' /\ AloneInv'
<1>1. UNCHANGED <<base, saved, events, first, unlogged>> /\ adrift \subseteq adrift'
  BY LiveEffect
<1>2. PICK k \in Kind, K \in SUBSET Kind :
         /\ Changes(p, k, K)
         /\ \E op : Changer(p, op, k)
         /\ k \in K /\ \A q \in Caller : q # p /\ call[q].kind \in K => ~call'[q].alone
         /\ \A j \in Kind : j \notin K => live'[j] = live[j] /\ (j \in adrift' => j \in adrift \/ saved[j] = {})
         /\ \A j \in Kind : j # k /\ j \notin adrift' => live'[j] = live[j] /\ (j = "mood" => saved[j] # {})
  BY LiveEffect DEF Changes
<1>3. /\ Elsewhere(p) /\ call[p].kind = None /\ call[p].step \notin RebuildStep /\ ~call[p].full
      /\ call'[p].kind = k /\ call'[p].step = "read" /\ call'[p].step \notin RebuildStep
  BY <1>2, LiveMoves DEF Changer, RebuildStep
<1>4. Rebuilding' <=> Rebuilding
  BY <1>3, RebuildingElsewhere
<1>5. \A q \in Caller : \A i : Awaits(q, i)' <=> Awaits(q, i)
  BY <1>3, AwaitsElsewhere
<1>6. \A j \in Kind : (Busy(j) => Busy(j)') /\ Busy(k)'
  BY <1>3, BusyElsewhere DEF Kind, None
<1>7. ASSUME NEW j \in Kind
      PROVE  /\ \A i : (OfKind(j, i)' <=> OfKind(j, i)) /\ (NewestOf(j, i)' <=> NewestOf(j, i))
             /\ RowAwaited(j) => RowAwaited(j)'
  <2>1. \A i : (OfKind(j, i)' <=> OfKind(j, i)) /\ (NewestOf(j, i)' <=> NewestOf(j, i))
    BY <1>1 DEF OfKind, NewestOf, Log
  <2> QED
    BY <1>5, <2>1, StillAwaited
<1>8. \A j \in Kind : j # k /\ j \notin adrift' => (Correct(j) => Correct(j)') /\ \A d : Fits(j, d)' <=> Fits(j, d)
  <2> TAKE j \in Kind
  <2>1. CASE j = "temperament"
    BY <1>1, <1>2, <2>1 DEF Correct, Fits, FromDict
  <2>2. CASE j = "mood"
    BY <1>1, <1>2, <2>2 DEF Correct, Fits, NoRow
  <2> QED
    BY <2>1, <2>2 DEF Kind
<1>9. RowInv'
  <2>1. ASSUME NEW j \in Kind, j \notin adrift'
        PROVE  (Busy(j) \/ Correct(j) \/ RowAwaited(j) \/ Emptied(j) \/ (Rebuilding /\ j \in unlogged))'
    <3>1. CASE j = k
      BY <1>6, <3>1
    <3>2. CASE j # k
      <4>1. Busy(j) \/ Correct(j) \/ RowAwaited(j) \/ Emptied(j) \/ (Rebuilding /\ j \in unlogged)
        BY <1>1, <2>1 DEF RowInv, RowAt
      <4>2. Emptied(j) => Emptied(j)'
        <5>1. \A q \in Caller : call[q].full => call'[q].full /\ call'[q].step = call[q].step
          BY <1>3 DEF Elsewhere, Untouched
        <5> QED
          BY <1>1, <1>7, <5>1 DEF Emptied, Log
      <4> QED
        BY <1>1, <1>4, <1>6, <1>7, <1>8, <2>1, <3>2, <4>1, <4>2
    <3> QED
      BY <3>1, <3>2
  <2> QED
    BY <2>1 DEF RowInv, RowAt
<1>10. EventInv'
  <2>1. ASSUME NEW j \in Kind, j \notin unlogged, NEW i \in Log, NewestOf(j, i)
        PROVE  /\ saved'[j] = {events'[i].data} \/ RowAwaited(j)'
               /\ j \in adrift' \/ Busy(j)' \/ Fits(j, events[i].data)'
    <3>1. saved[j] = {events[i].data} \/ RowAwaited(j)
      BY <2>1 DEF EventInv, EventAt
    <3>2. j \in adrift \/ Busy(j) \/ Fits(j, events[i].data)
      BY <2>1 DEF EventInv, EventAt
    <3>3. CASE j = k
      BY <1>1, <1>6, <1>7, <3>1, <3>3
    <3>4. CASE j # k /\ j \notin adrift'
      <4>1. \A d : Fits(j, d) => Fits(j, d)'
        BY <1>8, <3>4
      <4>2. events'[i].data = events[i].data
        BY <1>1
      <4>3. j \in adrift' \/ Busy(j)' \/ Fits(j, events[i].data)'
        BY <1>1, <1>6, <3>2, <4>1, <4>2 DEF Fits
      <4> QED
        BY <1>1, <1>7, <3>1, <4>3
    <3> QED
      BY <1>1, <1>7, <3>1, <3>3, <3>4
  <2>2. \A j \in Kind : \A i : NewestOf(j, i)' => i \in Log
    BY <1>1 DEF NewestOf, OfKind, Log
  <2> QED
    BY <1>1, <1>7, <2>1, <2>2 DEF EventInv, EventAt
<1>11. AloneInv'
  <2>1. AloneAt(p)'
    <3>1. call'[p].alone = Alone(p, k)
      BY <1>2 DEF Changer
    <3>2. call'[p].alone => ~Rebuilding /\ \A q \in Caller : call[q].kind = k => q = p
      BY <3>1 DEF Alone, Persisting
    <3>3. \A q \in Caller : q # p => call'[q].kind = call[q].kind
      BY <1>3 DEF Elsewhere, Untouched
    <3> QED
      BY <1>3, <1>4, <3>2, <3>3 DEF AloneAt
  <2>2. ASSUME NEW q \in Caller, q # p PROVE AloneAt(q)'
    <3>1. call[q].kind \in Kind \cup {None}
      BY DEF TypeOK, CallOK
    <3> QED
      BY <1>1, <1>2, <1>3, <1>4, <2>2, <3>1, AloneElsewhere
  <2> QED
    BY <2>1, <2>2 DEF AloneInv
<1> QED
  BY <1>9, <1>10, <1>11

\* A kind that a step does not touch keeps its row and its events as they were.
LEMMA KindKept ==
  ASSUME NEW k \in Kind, UNCHANGED <<base, live>>, saved'[k] = saved[k],
         k \in adrift' <=> k \in adrift, k \in unlogged' <=> k \in unlogged,
         Busy(k) => Busy(k)', RowAwaited(k) => RowAwaited(k)', Rebuilding => Rebuilding',
         Emptied(k) => Emptied(k)' \/ RowAwaited(k)',
         \A i : (NewestOf(k, i)' <=> NewestOf(k, i)) /\ (NewestOf(k, i) => i \in Log /\ events'[i] = events[i])
  PROVE  (RowAt(k) => RowAt(k)') /\ (EventAt(k) => EventAt(k)')
<1>1. \A d : Fits(k, d)' <=> Fits(k, d)
  BY DEF Fits, FromDict
<1>2. Correct(k)' <=> Correct(k)
  BY <1>1 DEF Correct, Fits, FromDict, Baseline
<1>3. RowAt(k) => RowAt(k)'
  BY <1>2 DEF RowAt
<1>4. ASSUME EventAt(k), k \notin unlogged, NEW i \in Log', NewestOf(k, i)'
      PROVE  /\ saved'[k] = {events'[i].data} \/ RowAwaited(k)'
             /\ k \in adrift' \/ Busy(k)' \/ Fits(k, events[i].data)'
  <2>1. NewestOf(k, i) /\ i \in Log /\ events'[i].data = events[i].data
    BY <1>4
  <2>2. saved[k] = {events[i].data} \/ RowAwaited(k)
    BY <1>4, <2>1 DEF EventAt
  <2>3. k \in adrift \/ Busy(k) \/ Fits(k, events[i].data)
    BY <1>4, <2>1 DEF EventAt
  <2>4. Fits(k, events[i].data) => Fits(k, events[i].data)'
    BY <2>1 DEF Fits, FromDict
  <2> QED
    BY <2>1, <2>2, <2>3, <2>4
<1>5. EventAt(k) => EventAt(k)'
  BY <1>4 DEF EventAt
<1> QED
  BY <1>3, <1>5

\* What a step away from rebuild leaves to those who rebuild.
LEMMA RebuildersKept ==
  ASSUME Shape, TypeOK, Control, Control', NEW p \in Caller,
         LiveStep(p) \/ PersistStep(p) \/ PinStep(p) \/ Consolidate(p),
         Elsewhere(p), call[p].step \notin RebuildStep, call'[p].step \notin RebuildStep,
         NEW k \in Kind, ~LogState(p) \/ call[p].kind # k
  PROVE  /\ Rebuilding' <=> Rebuilding
         /\ RowAwaited(k) => RowAwaited(k)'
         /\ Emptied(k) => Emptied(k)'
         /\ \A i : (NewestOf(k, i)' <=> NewestOf(k, i)) /\ (NewestOf(k, i) => i \in Log /\ events'[i] = events[i])
<1>1. Rebuilding' <=> Rebuilding
  BY RebuildingElsewhere
<1>2. \A q \in Caller : \A i : Awaits(q, i)' <=> Awaits(q, i)
  BY AwaitsElsewhere
<1>3. LogPin(p) => call[p].op \in {"pin", "unpin"}
  BY DEF LogPin, At, Control, Placed
<1>4. /\ \A i \in Log : i \in Log' /\ events'[i] = events[i]
      /\ \A i \in Log' : i \in Log \/ events'[i].kind # k
  BY <1>3, LogGrows DEF Kind
<1>5. \A i : (OfKind(k, i)' <=> OfKind(k, i)) /\ (NewestOf(k, i)' <=> NewestOf(k, i)) /\ (OfKind(k, i) => events'[i] = events[i])
  BY <1>4, SameKinds
<1>6. RowAwaited(k) => RowAwaited(k)'
  BY <1>2, <1>5, StillAwaited
<1>7. ASSUME Emptied(k) PROVE Emptied(k)'
  <2>1. PICK q \in Caller : call[q].full /\ call[q].step \in {"open", "replay"}
    BY <1>7 DEF Emptied
  <2>2. call'[q].full /\ call'[q].step \in {"open", "replay"}
    BY <2>1 DEF Elsewhere, Untouched, RebuildStep
  <2>3. \A i \in Log' : ~OfKind(k, i)'
    BY <1>5, <1>7 DEF Emptied, OfKind
  <2> QED
    BY <2>2, <2>3 DEF Emptied
<1> QED
  BY <1>1, <1>5, <1>6, <1>7 DEF NewestOf, OfKind

\* The calls that are not about affect leave rows and events alone.
LEMMA PinStepKeepsRows ==
  ASSUME Shape, TypeOK, Control, Control', RowInv, EventInv, AloneInv, NEW p \in Caller, PinStep(p) \/ Consolidate(p)
  PROVE  RowInv' /\ EventInv' /\ AloneInv'
<1>1. UNCHANGED <<base, live, saved, adrift, unlogged>>
  BY DEF PinStep, Pin, Unpin, LogPin, LogPinFails, Consolidate, tables, history
<1>2. /\ Elsewhere(p) /\ call[p].kind = None /\ call'[p].kind = None
      /\ call[p].step \notin RebuildStep /\ call'[p].step \notin RebuildStep
  <2>1. CASE PinStep(p)
    BY <2>1, PinGoes
  <2>2. CASE Consolidate(p)
    <3>1. call[p].step = "idle"
      BY <2>2 DEF Consolidate, Ready, Control, Placed
    <3> QED
      BY <2>2, <3>1, RestingMoves DEF Returns, Resting, Control, Placed, RebuildStep, Persistence
  <2> QED
    BY <2>1, <2>2
<1>3. ~LogState(p)
  BY <1>2 DEF LogState, At, Control, Placed, Persistence
<1>4. ASSUME NEW k \in Kind PROVE RowAt(k)' /\ EventAt(k)'
  <2>1. Busy(k) => Busy(k)'
    BY <1>2, BusyElsewhere DEF Kind, None
  <2>2. /\ Rebuilding' <=> Rebuilding
        /\ RowAwaited(k) => RowAwaited(k)'
        /\ Emptied(k) => Emptied(k)'
        /\ \A i : (NewestOf(k, i)' <=> NewestOf(k, i)) /\ (NewestOf(k, i) => i \in Log /\ events'[i] = events[i])
    BY <1>2, <1>3, RebuildersKept
  <2> QED
    BY <1>1, <2>1, <2>2, KindKept DEF RowInv, EventInv
<1>5. AloneInv'
  <2>1. AloneAt(p)'
    BY <1>2 DEF AloneAt
  <2>2. Rebuilding' <=> Rebuilding
    BY <1>2, RebuildingElsewhere
  <2>3. ASSUME NEW q \in Caller, q # p PROVE AloneAt(q)'
    BY <1>1, <1>2, <2>2, <2>3, AloneElsewhere
  <2> QED
    BY <2>1, <2>3 DEF AloneInv
<1> QED
  BY <1>4, <1>5 DEF RowInv, EventInv

\* A row that is written by a call that is alone is right; another is named.
LEMMA PersistKeepsRows ==
  ASSUME Shape, TypeOK, Control, Control', RowInv, EventInv, AloneInv, NEW p \in Caller, PersistStep(p)
  PROVE  RowInv' /\ EventInv' /\ AloneInv'
<1>1. PICK k \in Kind : call[p].kind = k
  BY PersistWhere
<1>2. /\ UNCHANGED <<base, live, first>> /\ Elsewhere(p) /\ call[p].step \notin RebuildStep
      /\ call'[p].step \notin RebuildStep /\ call'[p].kind \in {k, None}
  BY <1>1, PersistWhere, PersistGoes
     DEF Advances, Resting, RebuildStep, PersistStep, ReadState, SaveRow, ReadAgain, LogState, PersistFails, logged
<1>3. live[k] \in IF k = "temperament" THEN Temperament ELSE Level
  BY <1>1, PersistWhere
<1>4. Rebuilding' <=> Rebuilding
  BY <1>2, RebuildingElsewhere
<1>5. ASSUME NEW j \in Kind, j # k
      PROVE  saved'[j] = saved[j] /\ (j \in adrift' <=> j \in adrift) /\ (j \in unlogged' <=> j \in unlogged)
  <2>1. DOMAIN saved = Kind
    BY DEF TypeOK
  <2> QED
    BY <1>1, <1>5, <2>1 DEF PersistStep, ReadState, SaveRow, ReadAgain, LogState, PersistFails, tables, history
<1>6. ASSUME NEW j \in Kind, j # k PROVE RowAt(j)' /\ EventAt(j)'
  <2>1. Busy(j) => Busy(j)'
    BY <1>1, <1>2, <1>6, BusyElsewhere
  <2>2. /\ Rebuilding' <=> Rebuilding
        /\ RowAwaited(j) => RowAwaited(j)'
        /\ Emptied(j) => Emptied(j)'
        /\ \A i : (NewestOf(j, i)' <=> NewestOf(j, i)) /\ (NewestOf(j, i) => i \in Log /\ events'[i] = events[i])
    BY <1>1, <1>2, <1>6, RebuildersKept
  <2> QED
    BY <1>2, <1>5, <1>6, <2>1, <2>2, KindKept DEF RowInv, EventInv
<1>7. ASSUME NEW q \in Caller, q # p PROVE AloneAt(q)'
  <2>1. call[q].kind \in Kind \cup {None}
    BY DEF TypeOK, CallOK
  <2> QED
    BY <1>1, <1>2, <1>4, <1>5, <1>7, <2>1, AloneElsewhere DEF Kind, None
<1>8. call[p].alone => /\ ~Rebuilding /\ \A q \in Caller : call[q].kind = k => q = p
                       /\ call[p].step \in {"save", "log"} => call[p].saw = live[k]
                       /\ call[p].step \in {"reread", "log"} => k \notin adrift /\ saved[k] = {live[k]}
  BY <1>1 DEF AloneInv, AloneAt, Kind, None
<1>9. \A q \in Caller : call'[q].kind = k => q = p \/ call[q].kind = k
  BY <1>2 DEF Elsewhere, Untouched
<1>10. ~LogState(p) =>
         /\ RowAwaited(k) => RowAwaited(k)'
         /\ Emptied(k) => Emptied(k)'
         /\ \A i : (NewestOf(k, i)' <=> NewestOf(k, i)) /\ (NewestOf(k, i) => i \in Log /\ events'[i] = events[i])
  BY <1>1, <1>2, RebuildersKept
<1>11. Fits(k, live[k])' /\ Fits(k, live[k])
  BY <1>2, <1>3, FromDictTyped DEF Fits, FromDict, Kind
<1>s. SUFFICES RowAt(k)' /\ EventAt(k)' /\ AloneAt(p)'
  BY <1>6, <1>7 DEF RowInv, EventInv, AloneInv
<1>12. CASE ReadState(p)
  <2>1. /\ UNCHANGED <<saved, adrift, unlogged, events>> /\ ~LogState(p)
        /\ call'[p].kind = k /\ call'[p].step = "save" /\ call'[p].saw = live[k] /\ call'[p].alone = call[p].alone
    BY <1>1, <1>12, PersistMoves DEF ReadState, LogState, At, tables, logged, history, Advances
  <2>2. Busy(k)'
    BY <1>2, <2>1, BusyElsewhere
  <2>3. EventAt(k)'
    BY <1>10, <2>1, <2>2 DEF EventInv, EventAt
  <2>4. AloneAt(p)'
    BY <1>2, <1>4, <1>8, <1>9, <2>1 DEF AloneAt
  <2> QED
    BY <2>2, <2>3, <2>4 DEF RowAt
<1>13. CASE ReadAgain(p)
  <2>1. /\ UNCHANGED <<saved, adrift, unlogged, events>> /\ ~LogState(p) /\ call[p].step = "reread"
        /\ call'[p].kind = k /\ call'[p].step = "log" /\ call'[p].saw = live[k] /\ call'[p].alone = call[p].alone
    BY <1>1, <1>13, PersistMoves DEF ReadAgain, LogState, At, tables, logged, history, Advances
  <2>2. Busy(k) => Busy(k)'
    BY <1>2, <2>1, BusyElsewhere
  <2>3. RowAt(k)' /\ EventAt(k)'
    BY <1>2, <1>4, <1>10, <2>1, <2>2, KindKept DEF RowInv, EventInv
  <2>4. AloneAt(p)'
    BY <1>2, <1>4, <1>8, <1>9, <2>1 DEF AloneAt
  <2> QED
    BY <2>3, <2>4
<1>14. CASE SaveRow(p)
  <2>1. /\ saved'[k] = {call[p].saw} /\ k \in unlogged' /\ call[p].step = "save"
        /\ adrift' = IF call[p].alone THEN adrift \ {k} ELSE adrift \cup {k}
    BY <1>1, <1>14 DEF SaveRow, At, TypeOK
  <2>2. RowAt(k)'
    <3>1. CASE call[p].alone
      <4>1. saved'[k] = {live[k]}
        BY <1>8, <2>1, <3>1
      <4>2. saved'[k] # NoRow /\ \A d \in saved'[k] : d = live[k]
        BY <4>1 DEF NoRow
      <4>3. Correct(k)'
        BY <1>2, <1>11, <4>2 DEF Correct, Fits
      <4> QED
        BY <4>3 DEF RowAt
    <3> QED
      BY <2>1, <3>1 DEF RowAt
  <2>3. EventAt(k)'
    BY <2>1 DEF EventAt
  <2>4. AloneAt(p)'
    <3>1. CASE Returns(p)
      BY <3>1 DEF Returns, Resting, AloneAt
    <3>2. CASE Advances(p) /\ call'[p].step = "reread"
      <4>1. call'[p].kind = k /\ call'[p].alone = call[p].alone
        BY <1>1, <3>2 DEF Advances
      <4> QED
        BY <1>2, <1>4, <1>8, <1>9, <2>1, <3>2, <4>1 DEF AloneAt
    <3> QED
      BY <1>14, <3>1, <3>2, PersistMoves
  <2> QED
    BY <2>2, <2>3, <2>4
<1>15. CASE LogState(p)
  <2>1. /\ UNCHANGED <<saved, adrift>> /\ call[p].step = "log" /\ Resting(p)
        /\ unlogged' = IF call[p].alone /\ call[p].op # "set_temperament" THEN unlogged \ {k} ELSE unlogged
    BY <1>1, <1>15, PersistGoes DEF LogState, At, tables
  <2>2. AloneAt(p)'
    BY <2>1 DEF AloneAt, Resting
  <2>3. Busy(k) => Busy(k)'
    BY <1>2, <2>1, BusyElsewhere
  <2>0. PICK n : n = Len(events) + 1
    OBVIOUS
  <2>4. /\ \A i \in Log : i \in Log' /\ events'[i] = events[i]
        /\ \A i \in Log' : i \in Log \/ i = n
        /\ n \in Log' /\ OfKind(k, n)' /\ events'[n].data = Metadata(p) /\ n \in Nat
        /\ \A i \in Log : i \in Nat /\ i < n
    <3>1. /\ \A i \in Log : i \in Log' /\ events'[i] = events[i]
          /\ \A i \in Log' : i \in Log \/ i = n
          /\ n \in Log' /\ events'[n].kind = k /\ events'[n].data = Metadata(p) /\ Len(events) \in Nat
      BY <1>1, <1>15, <2>0, LogGrows
    <3>2. \A i \in Log : i \in Nat /\ i < n
      BY <2>0, <3>1 DEF Log, TypeOK
    <3>3. n \in Nat
      BY <2>0, <3>1
    <3> QED
      BY <3>1, <3>2, <3>3 DEF OfKind
  <2>5. \A q \in Caller : \A i : Awaits(q, i)' <=> Awaits(q, i)
    BY <1>2, AwaitsElsewhere
  <2>6. \A i : OfKind(k, i) => OfKind(k, i)'
    BY <2>4 DEF OfKind
  <2>7. RowAwaited(k) => RowAwaited(k)'
    BY <2>5, <2>6, StillAwaited
  <2>8. Emptied(k) => RowAwaited(k)'
    <3>1. ASSUME NEW q \in Caller, call[q].full, call[q].step \in {"open", "replay"}
          PROVE  Awaits(q, n)
      BY <2>0, <3>1 DEF Awaits, At, Control, Placed
    <3> QED
      BY <2>4, <2>5, <3>1 DEF Emptied, RowAwaited
  <2>9. RowAt(k)'
    <3>1. Correct(k) => Correct(k)'
      BY <1>2, <2>1 DEF Correct, Fits, FromDict, Baseline
    <3>2. Rebuilding /\ k \in unlogged => Rebuilding' /\ k \in unlogged'
      BY <1>4, <1>8, <2>1
    <3> QED
      BY <2>1, <2>3, <2>7, <2>8, <3>1, <3>2 DEF RowInv, RowAt
  <2>10. ASSUME k \notin unlogged', NEW i \in Log', NewestOf(k, i)'
         PROVE  saved'[k] = {events'[i].data} /\ Fits(k, events[i].data)'
    <3>1. k \in unlogged
      BY <1>1, <2>1 DEF Control, Placed
    <3>2. call[p].alone /\ call[p].op # "set_temperament"
      BY <2>1, <2>10, <3>1
    <3>3. Metadata(p) = live[k] /\ saved'[k] = {live[k]}
      BY <1>8, <2>1, <3>2 DEF Metadata
    <3>4. i = n
      <4>1. ~(n > i)
        BY <2>4, <2>10 DEF NewestOf, OfKind
      <4> QED
        BY <2>4, <4>1
    <3>5. events'[i].data = live[k]
      BY <2>4, <3>3, <3>4
    <3> QED
      BY <1>11, <1>2, <3>3, <3>5 DEF Fits
  <2>11. EventAt(k)'
    BY <2>10 DEF EventAt
  <2> QED
    BY <2>2, <2>9, <2>11
<1>16. CASE PersistFails(p)
  <2>1. /\ UNCHANGED <<saved, events, unlogged>> /\ Resting(p) /\ ~LogState(p) /\ call[p].step \in {"save", "log"}
        /\ adrift' = IF call[p].step = "save" THEN adrift \cup {k} ELSE adrift
    <3>1. UNCHANGED <<saved, events, unlogged>> /\ Resting(p) /\ call[p].step \in {"save", "log"}
          /\ adrift' = IF call[p].step = "save" THEN adrift \cup {k} ELSE adrift
      BY <1>1, <1>16, PersistGoes DEF PersistFails, At, tables, logged
    <3>2. ~LogState(p)
      <4>1. LogState(p) => Len(events') = Len(events) + 1
        <5>1. PICK S : events \in Seq(S)
          BY DEF Shape
        <5>2. \A e : Len(Append(events, e)) = Len(events) + 1
          BY <5>1
        <5> QED
          BY <5>2 DEF LogState
      <4>2. Len(events) \in Nat
        BY DEF Shape
      <4> QED
        BY <3>1, <4>1, <4>2
    <3> QED
      BY <3>1, <3>2
  <2>2. AloneAt(p)'
    BY <2>1 DEF AloneAt, Resting
  <2>3. CASE call[p].step = "save"
    <3>1. k \in adrift'
      BY <2>1, <2>3
    <3>2. EventAt(k)'
      BY <1>10, <2>1, <3>1 DEF EventInv, EventAt
    <3> QED
      BY <2>2, <3>1, <3>2 DEF RowAt
  <2>4. CASE call[p].step = "log"
    <3>1. Busy(k) => Busy(k)'
      BY <1>2, <2>4, BusyElsewhere
    <3>2. RowAt(k)' /\ EventAt(k)'
      BY <1>2, <1>4, <1>10, <2>1, <2>4, <3>1, KindKept DEF RowInv, EventInv
    <3> QED
      BY <2>2, <3>2
  <2> QED
    BY <2>1, <2>3, <2>4
<1> QED
  BY <1>12, <1>13, <1>14, <1>15, <1>16 DEF PersistStep

\* During a rebuild nobody is alone.
LEMMA RebuildAlone ==
  ASSUME Shape, TypeOK, Control, Control', AloneInv, NEW p \in Caller, RebuildStepOf(p)
  PROVE  /\ AloneInv' /\ Elsewhere(p) /\ call[p].kind = None /\ call'[p].kind = None
         /\ UNCHANGED <<base, live, events, first, unlogged>>
         /\ \A k \in Kind : Busy(k) => Busy(k)'
         /\ \A k, i : (OfKind(k, i)' <=> OfKind(k, i)) /\ (NewestOf(k, i)' <=> NewestOf(k, i))
         /\ \A q \in Caller : \A i : q # p => (Awaits(q, i)' <=> Awaits(q, i))
<1>1. UNCHANGED <<base, live, events, first, unlogged>>
  BY DEF RebuildStepOf, Rebuild, DropPins, DropAffect, OpenScan, Replay, EndRebuild, tables, logged, history
<1>2. Elsewhere(p)
  BY RebuildStepTyped
<1>3. Rebuild(p) \/ Rebuilding
  <2>1. ~Rebuild(p) => call[p].step \in RebuildStep
    BY DEF RebuildStepOf, DropPins, DropAffect, OpenScan, Replay, EndRebuild, At, RebuildStep
  <2> QED
    BY <1>2, <2>1, RebuildingElsewhere
<1>4. call[p].kind = None
  BY DEF RebuildStepOf, Rebuild, DropPins, DropAffect, OpenScan, Replay, EndRebuild, At, Ready, Control, Placed,
         RebuildStep, Persistence
<1>5. call'[p].kind = None
  <2>1. CASE Rebuild(p)
    BY <2>1, RebuildMoves
  <2>2. CASE EndRebuild(p)
    <3>1. Resting(p)
      BY <2>2, RestingMoves DEF EndRebuild, Returns
    <3> QED
      BY <3>1 DEF Resting
  <2>3. CASE DropPins(p) \/ DropAffect(p) \/ OpenScan(p) \/ Replay(p)
    <3>1. Advances(p)
      BY <2>3, ReplayMoves
    <3> QED
      BY <1>4, <3>1 DEF Advances
  <2> QED
    BY <2>1, <2>2, <2>3 DEF RebuildStepOf
<1>6. ASSUME NEW q \in Caller PROVE AloneAt(q)'
  <2>1. CASE q = p
    BY <1>5, <2>1 DEF AloneAt
  <2>2. CASE q # p
    <3>1. call'[q].kind = call[q].kind
      BY <1>2, <2>2 DEF Elsewhere, Untouched
    <3>2. call[q].kind # None => ~call'[q].alone
      <4>1. CASE Rebuild(p)
        BY <2>2, <4>1, RebuildMoves
      <4>2. CASE Rebuilding
        BY <1>2, <2>2, <4>2 DEF Elsewhere, Untouched, AloneInv, AloneAt
      <4> QED
        BY <1>3, <4>1, <4>2
    <3> QED
      BY <3>1, <3>2 DEF AloneAt
  <2> QED
    BY <2>1, <2>2
<1>7. \A k \in Kind : Busy(k) => Busy(k)'
  BY <1>2, <1>4, BusyElsewhere DEF Kind, None
<1>8. \A k, i : (OfKind(k, i)' <=> OfKind(k, i)) /\ (NewestOf(k, i)' <=> NewestOf(k, i))
  BY <1>1 DEF OfKind, NewestOf, Log
<1>9. \A q \in Caller : \A i : q # p => (Awaits(q, i)' <=> Awaits(q, i))
  BY <1>2, AwaitsElsewhere
<1> QED
  BY <1>1, <1>2, <1>4, <1>5, <1>6, <1>7, <1>8, <1>9 DEF AloneInv

\* A rebuild that begins or goes on without writing rows.
LEMMA RebuildGoesOn ==
  ASSUME Shape, TypeOK, Control, Control', AloneInv, NEW p \in Caller, Rebuild(p) \/ DropPins(p) \/ OpenScan(p), NEW k \in Kind
  PROVE  (RowAt(k) => RowAt(k)') /\ (EventAt(k) => EventAt(k)')
<1>1. /\ Elsewhere(p) /\ UNCHANGED <<base, live, events, first, unlogged>>
      /\ Busy(k) => Busy(k)'
      /\ \A i : (OfKind(k, i)' <=> OfKind(k, i)) /\ (NewestOf(k, i)' <=> NewestOf(k, i))
      /\ \A q \in Caller : \A i : q # p => (Awaits(q, i)' <=> Awaits(q, i))
  BY RebuildAlone DEF RebuildStepOf
<1>2. UNCHANGED <<saved, adrift>>
  BY DEF Rebuild, DropPins, OpenScan, tables, history
<1>3. /\ \A i \in Log : Awaits(p, i) => Awaits(p, i)'
      /\ call[p].full /\ call[p].step \in {"open", "replay"} => call'[p].full /\ call'[p].step \in {"open", "replay"}
      /\ call'[p].step \in RebuildStep
  <2>1. CASE Rebuild(p)
    <3>1. call[p].step = "idle"
      BY <2>1 DEF Rebuild, Ready, Control, Placed
    <3> QED
      BY <2>1, <3>1, RebuildMoves DEF Awaits, At, RebuildStep
  <2>2. CASE DropPins(p)
    <3>1. call[p].step = "drop pins" /\ Advances(p) /\ call'[p].step = "drop affect"
      BY <2>2, ReplayMoves DEF DropPins, At
    <3> QED
      BY <3>1 DEF Awaits, At, RebuildStep, Advances
  <2>3. CASE OpenScan(p)
    <3>1. /\ call[p].step = "open" /\ Advances(p) /\ call'[p].step = "replay"
          /\ call[p].full => call'[p].next = first + 1
      BY <2>3, ReplayMoves DEF OpenScan, At
    <3>2. \A i \in Log : first + 1 <= i
      BY DEF Log, TypeOK
    <3> QED
      BY <3>1, <3>2 DEF Awaits, At, RebuildStep, Advances
  <2> QED
    BY <2>1, <2>2, <2>3
<1>4. Rebuilding'
  BY <1>1, <1>3, RebuildingElsewhere
<1>5. RowAwaited(k) => RowAwaited(k)'
  <2>1. \A q \in Caller, i \in Log : OfKind(k, i) /\ Awaits(q, i) => Awaits(q, i)'
    BY <1>1, <1>3
  <2> QED
    BY <1>1, <2>1, StillAwaited
<1>6. Emptied(k) => Emptied(k)'
  <2>1. ASSUME NEW q \in Caller, call[q].full, call[q].step \in {"open", "replay"}
        PROVE  call'[q].full /\ call'[q].step \in {"open", "replay"}
    BY <1>1, <1>3, <2>1 DEF Elsewhere, Untouched
  <2>2. (\A i \in Log : ~OfKind(k, i)) => \A i \in Log' : ~OfKind(k, i)'
    BY <1>1 DEF Log
  <2> QED
    BY <2>1, <2>2 DEF Emptied
<1> QED
  BY <1>1, <1>2, <1>4, <1>5, <1>6, KindKept DEF NewestOf, OfKind

\* A full rebuild empties the table of rows and refills it from the log.
LEMMA RebuildKeepsRows ==
  ASSUME Shape, TypeOK, Control, Control', RowInv, EventInv, AloneInv, NEW p \in Caller, RebuildStepOf(p)
  PROVE  RowInv' /\ EventInv' /\ AloneInv'
<1>1. /\ AloneInv' /\ Elsewhere(p) /\ UNCHANGED <<base, live, events, first, unlogged>>
      /\ \A k \in Kind : Busy(k) => Busy(k)'
      /\ \A k, i : (OfKind(k, i)' <=> OfKind(k, i)) /\ (NewestOf(k, i)' <=> NewestOf(k, i))
      /\ \A q \in Caller : \A i : q # p => (Awaits(q, i)' <=> Awaits(q, i))
      /\ call[p].kind = None /\ call'[p].kind = None
  BY RebuildAlone
<1>2. /\ Log' = Log /\ \A i \in Log : i \in Nat /\ i <= Len(events)
      /\ \A k, i : NewestOf(k, i) => i \in Log
      /\ \A k, d : Fits(k, d)' <=> Fits(k, d)
  BY <1>1 DEF Log, NewestOf, OfKind, Fits, FromDict, TypeOK, Shape
<1>s. SUFFICES ASSUME NEW k \in Kind PROVE RowAt(k)' /\ EventAt(k)'
  BY <1>1 DEF RowInv, EventInv
<1>3. /\ RowAt(k)
      /\ k \in unlogged \/ \A i \in Log : NewestOf(k, i) => /\ saved[k] = {events[i].data} \/ RowAwaited(k)
                                                            /\ k \in adrift \/ Busy(k) \/ Fits(k, events[i].data)
  BY DEF RowInv, EventInv, EventAt
\* What is live did not change.
<1>4. ASSUME adrift \subseteq adrift',
             k \notin unlogged => \A i \in Log : NewestOf(k, i) => saved'[k] = {events[i].data} \/ RowAwaited(k)'
      PROVE  EventAt(k)'
  <2>1. ASSUME NEW i \in Log, NewestOf(k, i), k \notin unlogged
        PROVE  /\ saved'[k] = {events'[i].data} \/ RowAwaited(k)'
               /\ k \in adrift' \/ Busy(k)' \/ Fits(k, events[i].data)'
    <3>1. k \in adrift \/ Busy(k) \/ Fits(k, events[i].data)
      BY <1>3, <2>1
    <3>2. Fits(k, events[i].data) => Fits(k, events[i].data)'
      BY <1>1 DEF Fits, FromDict
    <3>3. saved'[k] = {events'[i].data} \/ RowAwaited(k)'
      BY <1>1, <1>4, <2>1
    <3> QED
      BY <1>1, <1>4, <3>1, <3>2, <3>3
  <2> QED
    BY <1>1, <1>2, <2>1 DEF EventAt
<1>5. CASE Rebuild(p) \/ DropPins(p) \/ OpenScan(p)
  BY <1>3, <1>5, RebuildGoesOn DEF EventInv
<1>6. CASE DropAffect(p)
  <2>1. /\ call[p].step = "drop affect" /\ call[p].full /\ call'[p].full /\ call'[p].step = "open" /\ UNCHANGED adrift
    BY <1>6, ReplayMoves DEF DropAffect, At, Control, Placed, history, Advances
  <2>2. \A i : Awaits(p, i)'
    BY <2>1 DEF Awaits
  <2>3. \A i \in Log : NewestOf(k, i) => RowAwaited(k)'
    BY <1>1, <1>2, <2>2 DEF RowAwaited, NewestOf
  <2>4. RowAt(k)'
    <3>1. CASE \E i \in Log : OfKind(k, i)
      BY <1>1, <1>2, <2>2, <3>1 DEF RowAwaited, RowAt
    <3>2. CASE \A i \in Log : ~OfKind(k, i)
      <4>1. Emptied(k)'
        BY <1>1, <1>2, <2>1, <3>2 DEF Emptied
      <4> QED
        BY <4>1 DEF RowAt
    <3> QED
      BY <3>1, <3>2
  <2> QED
    BY <1>4, <2>1, <2>3, <2>4
<1>7. CASE Replay(p)
  <2>1. PICK n \in Log : /\ saved' = SavedAfter(events[n])
                         /\ call[p].step = "replay" /\ call'[p].step = "replay" /\ call'[p].full = call[p].full
                         /\ \A i \in Log : i > n => Awaits(p, i)'
                         /\ \A i \in Log : i # n /\ Awaits(p, i) => Awaits(p, i)'
    BY <1>7, ReplayAt
  <2>2. UNCHANGED adrift
    BY <1>7 DEF Replay, history
  <2>3. Rebuilding'
    BY <1>1, <2>1, RebuildingElsewhere DEF RebuildStep
  <2>4. DOMAIN saved = Kind
    BY DEF TypeOK
  <2>5. CASE events[n].kind # k
    <3>1. saved'[k] = saved[k]
      BY <2>1, <2>4, <2>5 DEF SavedAfter
    <3>2. RowAwaited(k) => RowAwaited(k)'
      <4>1. \A q \in Caller, i \in Log : OfKind(k, i) /\ Awaits(q, i) => Awaits(q, i)'
        BY <1>1, <2>1, <2>5 DEF OfKind
      <4> QED
        BY <1>1, <4>1, StillAwaited
    <3>3. Emptied(k) => Emptied(k)'
      <4>1. ASSUME NEW q \in Caller, call[q].full, call[q].step \in {"open", "replay"}
            PROVE  call'[q].full /\ call'[q].step \in {"open", "replay"}
        BY <1>1, <2>1, <4>1 DEF Elsewhere, Untouched
      <4> QED
        BY <1>1, <1>2, <4>1 DEF Emptied
    <3> QED
      BY <1>1, <1>2, <1>3, <2>2, <2>3, <3>1, <3>2, <3>3, KindKept DEF EventInv
  <2>6. CASE events[n].kind = k
    <3>1. saved'[k] = {events[n].data}
      BY <2>1, <2>4, <2>6 DEF SavedAfter
    <3>2. CASE \E j \in Log : j > n /\ events[j].kind = k
      <4>1. RowAwaited(k)'
        BY <1>1, <1>2, <2>1, <3>2 DEF RowAwaited, OfKind
      <4> QED
        BY <1>4, <2>2, <4>1 DEF RowAt
    <3>3. CASE \A j \in Log : j > n => events[j].kind # k
      <4>1. NewestOf(k, n)
        BY <2>6, <3>3 DEF NewestOf, OfKind
      <4>2. \A i \in Log : NewestOf(k, i) => i = n
        <5>1. ASSUME NEW i \in Log, NewestOf(k, i) PROVE ~(i > n) /\ ~(n > i)
          BY <2>6, <3>3, <5>1 DEF NewestOf, OfKind
        <5> QED
          BY <1>2, <5>1
      <4>3. EventAt(k)'
        BY <1>4, <2>2, <3>1, <4>2
      <4>4. RowAt(k)'
        <5>1. CASE k \in unlogged
          BY <1>1, <2>3, <5>1 DEF RowAt
        <5>2. CASE k \notin unlogged
          <6>1. k \in adrift \/ Busy(k) \/ Fits(k, events[n].data)
            BY <1>3, <4>1, <5>2
          <6>2. ASSUME Fits(k, events[n].data) PROVE Correct(k)'
            <7>1. saved'[k] # NoRow /\ \A d \in saved'[k] : d = events[n].data
              BY <3>1 DEF NoRow
            <7>2. \A d \in saved'[k] : Fits(k, d)
              BY <6>2, <7>1
            <7> QED
              BY <1>2, <7>1, <7>2 DEF Correct
          <6> QED
            BY <1>1, <2>2, <6>1, <6>2 DEF RowAt
        <5> QED
          BY <5>1, <5>2
      <4> QED
        BY <4>3, <4>4
    <3> QED
      BY <3>2, <3>3
  <2> QED
    BY <2>5, <2>6
<1>8. CASE EndRebuild(p)
  <2>1. /\ call[p].step = "replay" /\ call[p].next > Len(events) /\ saved' = saved
        /\ adrift' = adrift \cup unlogged \cup {j \in Kind : call[p].full /\ \A i \in Log : events[i].kind # j}
    BY <1>8 DEF EndRebuild, At, tables
  <2>2. \A i \in Log : ~Awaits(p, i)
    <3>1. call[p].next \in Nat /\ Len(events) \in Nat
      BY DEF TypeOK, CallOK, Shape
    <3> QED
      BY <1>2, <2>1, <3>1 DEF Awaits, At
  <2>3. RowAwaited(k) => RowAwaited(k)'
    <3>1. \A q \in Caller, i \in Log : OfKind(k, i) /\ Awaits(q, i) => Awaits(q, i)'
      BY <1>1, <2>2
    <3> QED
      BY <1>1, <3>1, StillAwaited
  <2>4. Emptied(k) => Emptied(k)' \/ k \in adrift'
    <3>1. ASSUME NEW q \in Caller, call[q].full, call[q].step \in {"open", "replay"}, \A i \in Log : ~OfKind(k, i)
          PROVE  Emptied(k)' \/ k \in adrift'
      <4>1. CASE q = p
        BY <2>1, <3>1, <4>1 DEF OfKind
      <4>2. CASE q # p
        <5>1. call'[q].full /\ call'[q].step \in {"open", "replay"}
          BY <1>1, <3>1, <4>2 DEF Elsewhere, Untouched
        <5> QED
          BY <1>1, <1>2, <3>1, <5>1 DEF Emptied
      <4> QED
        BY <4>1, <4>2
    <3> QED
      BY <3>1 DEF Emptied
  <2>5. Correct(k) => Correct(k)'
    BY <1>1, <2>1 DEF Correct, Fits, FromDict, Baseline
  <2>6. RowAt(k)'
    BY <1>1, <1>3, <2>1, <2>3, <2>4, <2>5 DEF RowAt
  <2>7. EventAt(k)'
    BY <1>3, <1>4, <2>1, <2>3
  <2> QED
    BY <2>6, <2>7
<1> QED
  BY <1>5, <1>6, <1>7, <1>8 DEF RebuildStepOf

\* Without a rebuild no row is awaited.
LEMMA NoRebuildNoWait ==
  ASSUME Control, ~Rebuilding
  PROVE  \A k : ~RowAwaited(k) /\ ~Emptied(k)
BY DEF Rebuilding, RowAwaited, Emptied, Awaits, At, Control, Placed, RebuildStep

\* Retention does not touch rows; a restart makes them what is live.
LEMMA OtherStepKeepsRows ==
  ASSUME Shape, TypeOK, Control, RowInv, EventInv, AloneInv, (\E p \in Caller : Truncate(p)) \/ Restart
  PROVE  RowInv' /\ EventInv' /\ AloneInv'
<1>1. CASE \E p \in Caller : Truncate(p)
  <2>1. PICK n \in Log : first' = n
    BY <1>1 DEF Truncate
  <2>2. /\ UNCHANGED <<base, live, saved, events, call, adrift, unlogged>> /\ ~Rebuilding
    BY <1>1 DEF Truncate, tables
  <2>3. \A k, d : Fits(k, d)' <=> Fits(k, d)
    BY <2>2 DEF Fits, FromDict
  <2>4. \A k : (Busy(k)' <=> Busy(k)) /\ (Correct(k)' <=> Correct(k))
    BY <2>2, <2>3 DEF Busy, Correct, Fits, FromDict, Baseline
  <2>5. \A k : ~RowAwaited(k) /\ ~Emptied(k)
    BY <2>2, NoRebuildNoWait
  <2>6. ASSUME NEW k, NEW i \in Log', NewestOf(k, i)' PROVE i \in Log /\ NewestOf(k, i)
    <3>1. first \in Nat /\ Len(events) \in Nat
      BY DEF TypeOK, Shape
    <3>2. i \in Log /\ \A j \in Log : j > i => j \in Log'
      BY <2>1, <2>2, <3>1 DEF Log
    <3> QED
      BY <2>2, <2>6, <3>2 DEF NewestOf, OfKind
  <2>7. RowInv'
    BY <2>2, <2>4, <2>5 DEF RowInv, RowAt
  <2>8. ASSUME NEW k \in Kind, k \notin unlogged, NEW i \in Log', NewestOf(k, i)'
        PROVE  /\ saved'[k] = {events'[i].data} \/ RowAwaited(k)'
               /\ k \in adrift' \/ Busy(k)' \/ Fits(k, events[i].data)'
    <3>1. i \in Log /\ NewestOf(k, i)
      BY <2>6, <2>8
    <3>2. saved[k] = {events[i].data} /\ (k \in adrift \/ Busy(k) \/ Fits(k, events[i].data))
      BY <2>5, <2>8, <3>1 DEF EventInv, EventAt
    <3>3. Fits(k, events[i].data) => Fits(k, events[i].data)'
      BY <2>2 DEF Fits, FromDict
    <3> QED
      BY <2>2, <2>4, <3>2, <3>3
  <2>9. EventInv'
    BY <2>2, <2>8 DEF EventInv, EventAt
  <2>10. AloneInv'
    BY <2>2 DEF AloneInv, AloneAt, Rebuilding
  <2> QED
    BY <2>7, <2>9, <2>10
<1>2. CASE Restart
  <2>1. /\ UNCHANGED <<base, saved, events, first>> /\ live' = Restored(saved) /\ adrift' = {}
        /\ unlogged' = IF Rebuilding THEN Kind ELSE unlogged
    BY <1>2 DEF Restart, tables, logged
  <2>2. \A q \in Caller : call'[q].kind = None /\ call'[q].step = "idle" /\ call'[q].full = FALSE
    BY <1>2, RestartMoves, IdleFields
  <2>3. AloneInv'
    BY <2>2 DEF AloneInv, AloneAt
  <2>4. ASSUME NEW k \in Kind PROVE Correct(k)'
    <3>1. CASE saved[k] = {}
      BY <2>1, <3>1, RestoredIs DEF Correct, NoRow, Baseline, Kind
    <3>2. CASE saved[k] # {}
      <4>1. saved[k] = {Newest(saved[k])}
        BY <3>2, RestoredIs
      <4>2. CASE k = "temperament"
        <5>1. live'.temperament = FromDict(Newest(saved[k]))
          BY <2>1, <3>2, <4>2, RestoredIs
        <5> QED
          BY <2>1, <3>2, <4>1, <4>2, <5>1 DEF Correct, Fits, FromDict, NoRow
      <4>3. CASE k = "mood"
        <5>1. live'.mood = Newest(saved[k])
          BY <2>1, <3>2, <4>3, RestoredIs
        <5> QED
          BY <2>1, <3>2, <4>1, <4>3, <5>1 DEF Correct, Fits, NoRow
      <4> QED
        BY <4>2, <4>3 DEF Kind
    <3> QED
      BY <3>1, <3>2
  <2>5. ASSUME NEW k \in Kind, k \notin unlogged', NEW i \in Log', NewestOf(k, i)'
        PROVE  saved'[k] = {events'[i].data} /\ Fits(k, events[i].data)'
    <3>1. ~Rebuilding /\ k \notin unlogged
      BY <2>1, <2>5
    <3>2. i \in Log /\ NewestOf(k, i)
      BY <2>1, <2>5 DEF NewestOf, OfKind, Log
    <3>3. saved[k] = {events[i].data}
      BY <3>1, <3>2, NoRebuildNoWait DEF EventInv, EventAt
    <3>4. saved'[k] # NoRow /\ events[i].data \in saved'[k]
      BY <2>1, <3>3 DEF NoRow
    <3>5. Fits(k, events[i].data)'
      BY <2>1, <2>4, <3>4 DEF Correct, Fits
    <3> QED
      BY <2>1, <3>3, <3>5
  <2> QED
    BY <2>3, <2>4, <2>5 DEF RowInv, RowAt, EventInv, EventAt
<1> QED
  BY <1>1, <1>2

-----------------------------------------------------------------------------
(***************************************************************************)
(* The inductive invariant                                                 *)
(***************************************************************************)
IInv == Shape /\ TypeOK /\ Control /\ PinInv /\ PinCallInv /\ RowInv /\ EventInv /\ AloneInv

\* It holds at the start.
LEMMA InitInv == Init => IInv
<1> SUFFICES ASSUME Init PROVE IInv
  OBVIOUS
<1>1. /\ base \in Presets /\ stages \in SUBSET Stage /\ live = [temperament |-> base, mood |-> Baseline(base)]
      /\ saved = [k \in Kind |-> NoRow] /\ pins = {} /\ events = <<>> /\ first = 0 /\ marker = 0
      /\ call = [q \in Caller |-> Idle] /\ faults = 0
      /\ used = {} /\ blurred = {} /\ adrift = {} /\ unlogged = {}
  BY DEF Init
<1>2. Len(events) = 0 /\ DOMAIN events = {} /\ Log = {}
  BY <1>1 DEF Log
<1>3. Shape
  <2>1. events \in Seq({})
    BY <1>1
  <2>2. call \in [Caller -> {Idle}]
    BY <1>1
  <2> QED
    BY <2>1, <2>2 DEF Shape
<1>4. \A q \in Caller : call[q] = Idle
  BY <1>1
<1>5. TypeOK
  <2>1. base \in Temperament
    BY <1>1, PresetsAssumption DEF Temperament, Level
  <2>2. live \in [temperament : Temperament, mood : Level]
    BY <1>1, <2>1, DimAssumption DEF Baseline, Temperament
  <2>3. MaxEvents \in Nat /\ MaxFaults \in Nat
    BY BoundsAssumption
  <2>4. \A q \in Caller : CallOK(call[q])
    BY <1>4, IdleTyped
  <2>5. DOMAIN saved = Kind /\ saved.temperament = {} /\ saved.mood = {} /\ \A k \in Kind : saved[k] = {}
    BY <1>1 DEF Kind, NoRow
  <2> QED
    BY <1>1, <1>2, <2>1, <2>2, <2>3, <2>4, <2>5 DEF TypeOK
<1>6. Control
  BY <1>4, IdleFields DEF Control, Placed, RebuildStep, Persistence
<1>7. PinInv /\ PinCallInv
  BY <1>1, <1>4, IdleFields DEF PinInv, PinCallInv
<1>8. RowInv
  BY <1>1 DEF RowInv, RowAt, Correct, Kind
<1>9. EventInv
  BY <1>2 DEF EventInv, EventAt
<1>10. AloneInv
  BY <1>4, IdleFields DEF AloneInv, AloneAt
<1> QED
  BY <1>3, <1>5, <1>6, <1>7, <1>8, <1>9, <1>10 DEF IInv

\* A step of a caller keeps it.
LEMMA CallerStep ==
  ASSUME IInv, NEW p \in Caller, LiveStep(p) \/ PersistStep(p) \/ PinStep(p) \/ RebuildStepOf(p) \/ Consolidate(p)
  PROVE  IInv'
<1>1. Shape /\ TypeOK /\ Control /\ PinInv /\ PinCallInv /\ RowInv /\ EventInv /\ AloneInv
  BY DEF IInv
<1>2. TypeOK' /\ Shape'
  BY <1>1, LiveStepTyped, PersistStepTyped, PinStepTyped, RebuildStepTyped, OtherStepTyped
<1>3. Control'
  BY <1>1, ControlStep
<1>4. PinInv' /\ PinCallInv'
  BY <1>1, <1>3, AffectKeepsPins, PinStepKeepsPins, RebuildKeepsPins
<1>5. RowInv' /\ EventInv' /\ AloneInv'
  BY <1>1, <1>3, LiveKeepsRows, PersistKeepsRows, PinStepKeepsRows, RebuildKeepsRows
<1> QED
  BY <1>2, <1>3, <1>4, <1>5 DEF IInv

\* So do retention and a restart.
LEMMA OtherStep ==
  ASSUME IInv, (\E p \in Caller : Truncate(p)) \/ Restart
  PROVE  IInv'
<1>1. Shape /\ TypeOK /\ Control /\ PinInv /\ PinCallInv /\ RowInv /\ EventInv /\ AloneInv
  BY DEF IInv
<1>2. TypeOK' /\ Shape'
  BY <1>1, OtherStepTyped, RestartTyped
<1> QED
  BY <1>1, <1>2, ControlOtherStep, OtherStepKeepsPins, OtherStepKeepsRows DEF IInv

\* A stuttering step keeps it.
LEMMA StutterStep ==
  ASSUME IInv, UNCHANGED vars
  PROVE  IInv'
<1>1. UNCHANGED <<base, stages, live, saved, pins, events, first, marker, call, faults, used, blurred, adrift, unlogged>>
  BY DEF vars, tables, logged, history
<1>2. Shape' /\ TypeOK'
  BY <1>1 DEF IInv, Shape, TypeOK, EventOK, CallOK
<1>3. Control'
  BY <1>1 DEF IInv, Control, Placed
<1>4. \A p \in Caller : \A i : (Awaits(p, i)' <=> Awaits(p, i)) /\ (At(p, "drop pins")' <=> At(p, "drop pins"))
  BY <1>1 DEF Awaits, At
<1>5. PinInv' /\ PinCallInv'
  <2>1. \A x : (\A i : Touches(x, i)' <=> Touches(x, i)) /\ (LoggedPin(x)' <=> LoggedPin(x))
    BY <1>1, SameTouches DEF Log
  <2>2. \A x : (x \in Pinning' <=> x \in Pinning) /\ (PinRight(x)' <=> PinRight(x))
    BY <1>1, <2>1 DEF Pinning, PinRight
  <2>3. \A x : PinAwaited(x)' <=> PinAwaited(x)
    BY <1>1, <1>4, <2>1 DEF PinAwaited, Log
  <2>4. PinInv'
    BY <1>1, <1>4, <2>2, <2>3 DEF IInv, PinInv
  <2>5. PinCallInv'
    BY <1>1 DEF IInv, PinCallInv, Rebuilding
  <2> QED
    BY <2>4, <2>5
<1>6. RowInv' /\ EventInv'
  <2>1. ASSUME NEW k \in Kind
        PROVE  /\ Busy(k) => Busy(k)'
               /\ RowAwaited(k) => RowAwaited(k)'
               /\ Emptied(k) => Emptied(k)'
               /\ \A i : (NewestOf(k, i)' <=> NewestOf(k, i)) /\ (NewestOf(k, i) => i \in Log /\ events'[i] = events[i])
    BY <1>1, <1>4 DEF Busy, RowAwaited, Emptied, NewestOf, OfKind, Log
  <2>2. Rebuilding => Rebuilding'
    BY <1>1 DEF Rebuilding
  <2> QED
    BY <1>1, <2>1, <2>2, KindKept DEF IInv, RowInv, EventInv
<1>7. AloneInv'
  BY <1>1 DEF IInv, AloneInv, AloneAt, Rebuilding
<1> QED
  BY <1>2, <1>3, <1>5, <1>6, <1>7 DEF IInv

\* Every step keeps it.
LEMMA StepInv == IInv /\ [Next]_vars => IInv'
<1> SUFFICES ASSUME IInv, [Next]_vars PROVE IInv'
  OBVIOUS
<1>1. CASE UNCHANGED vars
  BY <1>1, StutterStep
<1>2. ASSUME NEW p \in Caller, Begin(p) \/ Continue(p) PROVE IInv'
  <2>1. \/ LiveStep(p) \/ PersistStep(p) \/ PinStep(p) \/ RebuildStepOf(p) \/ Consolidate(p)
        \/ Truncate(p)
    BY <1>2 DEF Begin, Continue, LiveStep, PersistStep, PinStep, RebuildStepOf
  <2> QED
    BY <2>1, CallerStep, OtherStep
<1>3. CASE Restart
  BY <1>3, OtherStep
<1> QED
  BY <1>1, <1>2, <1>3 DEF Next

\* The inductive invariant: rows, events, pins and what is live, with who sees to
\* the difference while they differ.
THEOREM Invariant == Spec => []IInv
<1>1. Init => IInv
  BY InitInv
<1>2. IInv /\ [Next]_vars => IInv'
  BY StepInv
<1> QED
  BY <1>1, <1>2, PTL DEF Spec

\* Levels stay on their scale, rows and events hold what their kind says, through
\* every overlap of calls, failures, rebuilds and restarts.
THEOREM TypeCorrect == Spec => []TypeOK
<1>1. IInv => TypeOK
  BY DEF IInv
<1> QED
  BY <1>1, Invariant, PTL

\* With no call in progress nobody is left to see to a difference.
LEMMA AtRest ==
  ASSUME IInv, Quiet
  PROVE  /\ ~Rebuilding /\ Pinning = {}
         /\ \A p \in Caller : ~At(p, "drop pins")
         /\ \A x : ~PinAwaited(x)
         /\ \A k \in Kind : ~Busy(k) /\ ~RowAwaited(k) /\ ~Emptied(k)
<1>1. \A p \in Caller : /\ call[p].op = "idle" /\ call[p].step = "idle" /\ call[p].pin = None /\ call[p].kind = None
                        /\ ~call[p].full
  BY DEF Quiet, Ready, IInv, Control, Placed, Persistence
<1>2. ~Rebuilding /\ Pinning = {} /\ \A p \in Caller : ~At(p, "drop pins")
  BY <1>1 DEF Rebuilding, Pinning, At
<1>3. \A p \in Caller : \A i : ~Awaits(p, i)
  BY <1>1 DEF Awaits, At
<1> QED
  BY <1>1, <1>2, <1>3 DEF PinAwaited, Busy, RowAwaited, Emptied

\* With no call in progress the table of pins is what the log says, except for the
\* pins that are named as blurred.
THEOREM PinsAgree == Spec => []PinsLogged
<1>1. IInv => PinsLogged
  <2> SUFFICES ASSUME IInv, Quiet, NEW x \in used \ blurred PROVE x \in pins <=> LoggedPin(x)
    BY DEF PinsLogged
  <2> QED
    BY AtRest DEF IInv, PinInv, PinRight
<1> QED
  BY <1>1, Invariant, PTL

\* What a row or the configuration gives back is what is live.
LEMMA Fitting ==
  ASSUME IInv, Quiet, NEW k \in Kind, k \notin adrift
  PROVE  /\ k = "temperament" => Restored(saved).temperament = live.temperament
         /\ k = "mood" /\ (saved.mood = {} => Restored(saved).temperament = live.temperament)
               => Restored(saved).mood = live.mood
<1>1. Correct(k)
  BY AtRest DEF IInv, RowInv, RowAt
<1>2. TypeOK
  BY DEF IInv
<1>3. CASE saved[k] = {}
  BY <1>1, <1>2, <1>3, RestoredIs DEF Correct, NoRow, Kind
<1>4. CASE saved[k] # {}
  <2>1. saved[k] = {Newest(saved[k])}
    BY <1>2, <1>4, RestoredIs
  <2> QED
    BY <1>1, <1>2, <1>4, <2>1, RestoredIs DEF Correct, Fits, NoRow, Kind
<1> QED
  BY <1>3, <1>4

\* With no call in progress a restart gives back the temperament that is live.
THEOREM TemperamentComesBack == Spec => []TemperamentRestored
<1>1. IInv => TemperamentRestored
  BY Fitting DEF TemperamentRestored, Kind
<1> QED
  BY <1>1, Invariant, PTL

\* With no call in progress a restart gives back the mood that is live.
THEOREM MoodComesBack == Spec => []MoodRestored
<1>1. IInv => MoodRestored
  BY Fitting DEF MoodRestored, Kind, NoRow
<1> QED
  BY <1>1, Invariant, PTL
====
