--------------------------- MODULE MemoryStoreProofs ---------------------------
(***************************************************************************)
(* Proofs about MemoryStore for any number of callers, memories, contents, *)
(* calls and faults.                                                       *)
(***************************************************************************)
EXTENDS MemoryStore, TLAPS

\* A memory is unborn until remember has written its row.
Pending(p) == call[p].op = "remember" /\ call[p].step \in {"lock", "check", "insert"}
Unborn     == {m \in Memory : m > used \/ \E p \in Caller : Pending(p) /\ call[p].mem = m}

\* What a call holds in its local variables where it stands.
ControlInv ==
    /\ \A p \in Caller : call[p].op = "remember" =>
          call[p].step \in {"lock", "check", "insert", "embed"} /\ call[p].mem \in 1 .. used
    /\ \A p \in Caller : At(p, "recall", "get") \/ At(p, "recall", "write") => call[p].mem \in Memory
    /\ \A p \in Caller : At(p, "recall", "write") => call[p].copies[call[p].mem] \in State
    /\ \A p \in Caller : call[p].op = "merge" /\ call[p].step # "next" => call[p].mem \in Memory
    /\ \A p, q \in Caller : call[p].op = "remember" /\ call[q].op = "remember" /\ call[p].mem = call[q].mem => p = q

\* With dedup on, remember holds the lock from the check to its return.
LockInv ==
    /\ dedup => \A p \in Caller : call[p].op = "remember" /\ call[p].step # "lock" => lock = p
    /\ LockIsReleased

\* What the check found stays true until the vector is written.
DedupInv ==
    dedup => \A p \in Caller : call[p].op = "remember" /\ call[p].step \in {"insert", "embed"} =>
                \A n \in vectors : Same(call[p].mem, n) => NotCompared(call[p].mem, n)

\* Nobody has seen a memory that is not born.
BirthInv ==
    \A m \in Unborn : /\ ~Exists(m) /\ m \notin forgotten
                      /\ \A p \in Caller : m \notin call[p].todo /\ call[p].copies[m] = Absent

ForgottenBounds == forgotten \subseteq Memory /\ erased \subseteq forgotten

IInv == /\ TypeOK /\ ControlInv /\ LockInv /\ DedupInv /\ OneVectorPerContent
        /\ BirthInv /\ ForgottenBounds /\ ForgottenStays /\ VectorsHaveRows

-----------------------------------------------------------------------------
(***************************************************************************)
(* What the actions do to the calls: to p's own, and to no other.          *)
(***************************************************************************)
Becomes(p, c) == call' \in [Caller -> CallRecord] /\ call'[p] = c /\ \A q \in Caller : q # p => call'[q] = call[q]
Elsewhere(p)  == call' \in [Caller -> CallRecord] /\ \A q \in Caller : q # p => call'[q] = call[q]
Returns(p)    == Elsewhere(p) /\ call'[p] = Idle
Enters(p, op, step) == Elsewhere(p) /\ call'[p].op = op /\ call'[p].step = step
KeepsLocals(p) ==
    /\ call'[p].mem = call[p].mem /\ call'[p].copies = call[p].copies
    /\ call'[p].todo \subseteq call[p].todo

\* forget and the stages: the rest of the work shrinks.
Works(p) ==
    /\ Elsewhere(p)
    /\ call[p].op \in Stages \cup {"forget"} /\ call'[p].op = call[p].op
    /\ call'[p].copies = call[p].copies /\ call'[p].todo \subseteq call[p].todo

\* The fields of a caller's record.
LEMMA Fields ==
  ASSUME TypeOK, NEW p \in Caller
  PROVE  /\ call \in [Caller -> CallRecord] /\ call[p] \in CallRecord
         /\ call[p].op \in Op /\ call[p].step \in Step /\ call[p].mem \in Memory \cup {NoMemory}
         /\ call[p].todo \subseteq Memory /\ call[p].copies \in [Memory -> State \cup {Absent}]
         /\ call[p].others \subseteq Memory /\ call[p].seen \subseteq Memory
         /\ call[p].loser \in Memory \cup {NoMemory}
BY DEF TypeOK, CallRecord

\* A caller between two calls.
LEMMA IdleFields ==
  /\ Idle \in CallRecord /\ Idle.op = "idle" /\ Idle.step = "idle" /\ Idle.mem = NoMemory
  /\ Idle.todo = {} /\ Idle.copies = [m \in Memory |-> Absent]
BY DEF Idle, CallRecord, Op, Step, State

\* Writing a caller's record touches no other.
LEMMA LocalBecomes ==
  ASSUME TypeOK, NEW p \in Caller, NEW c \in CallRecord, Local(p, c)
  PROVE  Becomes(p, c) /\ Elsewhere(p)
BY DEF TypeOK, Local, Becomes, Elsewhere

\* A call that returns leaves its caller idle.
LEMMA ReturnReturns ==
  ASSUME TypeOK, NEW p \in Caller, Return(p)
  PROVE  Returns(p)
BY IdleFields, LocalBecomes DEF Return, Returns, Becomes

\* A jump inside a call keeps its local variables.
LEMMA GotoEnters ==
  ASSUME TypeOK, NEW p \in Caller, NEW s \in Step, Goto(p, s)
  PROVE  Enters(p, call[p].op, s) /\ KeepsLocals(p)
<1>1. call \in [Caller -> CallRecord]
  BY DEF TypeOK
<1> QED
  BY <1>1 DEF Goto, Enters, KeepsLocals, CallRecord, Elsewhere

\* remember begins with the next number, not yet known to anybody.
LEMMA RememberEnters ==
  ASSUME TypeOK, NEW p \in Caller, Remember(p)
  PROVE  /\ Enters(p, "remember", IF dedup THEN "lock" ELSE "insert")
         /\ call'[p].mem = used + 1 /\ call'[p].todo = {} /\ call'[p].copies = Idle.copies
         /\ used + 1 \in Memory
<1> DEFINE c == [Idle EXCEPT !.op = "remember", !.mem = used + 1, !.step = IF dedup THEN "lock" ELSE "insert"]
<1>1. used + 1 \in Memory
  BY BoundsAssumption DEF TypeOK, Remember, Memory
<1>2. /\ c \in CallRecord /\ c.op = "remember" /\ c.mem = used + 1 /\ c.todo = {} /\ c.copies = Idle.copies
      /\ c.step = IF dedup THEN "lock" ELSE "insert"
  BY <1>1, IdleFields DEF CallRecord, Op, Step
<1>3. Becomes(p, c) /\ Elsewhere(p)
  BY <1>2, LocalBecomes DEF Remember
<1> QED
  BY <1>1, <1>2, <1>3 DEF Becomes, Enters

\* The steps of remember after its first.
LEMMA RememberMoves ==
  ASSUME TypeOK, NEW p \in Caller
  PROVE  /\ LockDedup(p) => Enters(p, "remember", "check") /\ KeepsLocals(p)
         /\ CheckNeighbours(p) => Returns(p) \/ (Enters(p, "remember", "insert") /\ KeepsLocals(p))
         /\ InsertRow(p) => Returns(p) \/ (Enters(p, "remember", "embed") /\ KeepsLocals(p))
         /\ InsertVector(p) => Returns(p)
<1>1. {"check", "insert", "embed"} \subseteq Step
  BY DEF Step
<1>2. ASSUME LockDedup(p) PROVE Enters(p, "remember", "check") /\ KeepsLocals(p)
  BY <1>1, <1>2, GotoEnters DEF LockDedup, At
<1>3. ASSUME CheckNeighbours(p) PROVE Returns(p) \/ (Enters(p, "remember", "insert") /\ KeepsLocals(p))
  BY <1>1, <1>3, GotoEnters, ReturnReturns DEF CheckNeighbours, At
<1>4. ASSUME InsertRow(p) PROVE Returns(p) \/ (Enters(p, "remember", "embed") /\ KeepsLocals(p))
  BY <1>1, <1>4, GotoEnters, ReturnReturns DEF InsertRow, At
<1>5. ASSUME InsertVector(p) PROVE Returns(p)
  BY <1>5, ReturnReturns DEF InsertVector
<1> QED
  BY <1>2, <1>3, <1>4, <1>5

\* A call of forget, of recall or of a stage begins with rows that are there.
LEMMA Starts ==
  ASSUME TypeOK, NEW p \in Caller, Forget(p) \/ Recall(p) \/ BeginStage(p)
  PROVE  /\ \E op \in Stages \cup {"forget", "recall"} : Enters(p, op, "next")
         /\ call'[p].todo \subseteq Stored
         /\ call'[p].copies = Idle.copies \/ call'[p].copies = rows
         /\ call'[p].op \in Stages => \A m \in call'[p].todo : call'[p].copies[m] \in Live
<1>1. CASE Forget(p)
  <2>1. PICK hard \in BOOLEAN, targets \in SUBSET Stored :
           Local(p, [Idle EXCEPT !.op = "forget", !.step = "next", !.todo = targets, !.hard = hard])
    BY <1>1 DEF Forget, Stored, LiveRows, IsLive, Exists, Live, Absent
  <2> DEFINE c == [Idle EXCEPT !.op = "forget", !.step = "next", !.todo = targets, !.hard = hard]
  <2>2. c \in CallRecord /\ c.op = "forget" /\ c.step = "next" /\ c.todo = targets /\ c.copies = Idle.copies
    BY IdleFields DEF CallRecord, Op, Step, Stored
  <2>3. Becomes(p, c) /\ Elsewhere(p)
    BY <2>1, <2>2, LocalBecomes
  <2> QED
    BY <2>2, <2>3 DEF Becomes, Enters, Stages
<1>2. CASE Recall(p)
  <2>1. PICK results \in SUBSET Stored : Local(p, [Idle EXCEPT !.op = "recall", !.step = "next", !.todo = results])
    BY <1>2 DEF Recall
  <2> DEFINE c == [Idle EXCEPT !.op = "recall", !.step = "next", !.todo = results]
  <2>2. c \in CallRecord /\ c.op = "recall" /\ c.step = "next" /\ c.todo = results /\ c.copies = Idle.copies
    BY IdleFields DEF CallRecord, Op, Step, Stored
  <2>3. Becomes(p, c) /\ Elsewhere(p)
    BY <2>1, <2>2, LocalBecomes
  <2> QED
    BY <2>2, <2>3 DEF Becomes, Enters, Stages
<1>3. CASE BeginStage(p)
  <2>1. PICK stage \in Stages : Local(p, [Idle EXCEPT !.op = stage, !.step = "next", !.todo = LiveRows, !.copies = rows])
    BY <1>3 DEF BeginStage
  <2> DEFINE c == [Idle EXCEPT !.op = stage, !.step = "next", !.todo = LiveRows, !.copies = rows]
  <2>2. /\ c \in CallRecord /\ c.op = stage /\ c.step = "next" /\ c.todo = LiveRows /\ c.copies = rows
    BY IdleFields DEF CallRecord, Op, Step, LiveRows, TypeOK
  <2>3. Becomes(p, c) /\ Elsewhere(p)
    BY <2>1, <2>2, LocalBecomes
  <2>4. LiveRows \subseteq Stored /\ \A m \in LiveRows : rows[m] \in Live
    BY DEF LiveRows, Stored, IsLive, Exists, Live, Absent
  <2> QED
    BY <2>2, <2>3, <2>4 DEF Becomes, Enters
<1> QED
  BY <1>1, <1>2, <1>3

\* The steps of recall: what it has read of the row is in copies.
LEMMA RecallMoves ==
  ASSUME TypeOK, NEW p \in Caller
  PROVE  /\ MarkAccessed(p) => /\ Enters(p, "recall", "get")
                               /\ call'[p].mem \in Memory /\ call'[p].copies = call[p].copies
                               /\ call'[p].todo \subseteq call[p].todo
         /\ GetRecalled(p) => \/ Enters(p, "recall", "next") /\ KeepsLocals(p)
                              \/ /\ Enters(p, "recall", "write") /\ Exists(call[p].mem)
                                 /\ call'[p].mem = call[p].mem /\ call'[p].todo = call[p].todo
                                 /\ call'[p].copies = [call[p].copies EXCEPT ![call[p].mem] = rows[call[p].mem]]
         /\ Reconsolidate(p) => Enters(p, "recall", "next") /\ KeepsLocals(p)
<1>1. ASSUME MarkAccessed(p)
      PROVE  /\ Enters(p, "recall", "get")
             /\ call'[p].mem \in Memory /\ call'[p].copies = call[p].copies
             /\ call'[p].todo \subseteq call[p].todo
  <2>1. PICK m \in call[p].todo : Local(p, [call[p] EXCEPT !.todo = @ \ {m}, !.mem = m, !.step = "get"])
    BY <1>1 DEF MarkAccessed
  <2> DEFINE c == [call[p] EXCEPT !.todo = @ \ {m}, !.mem = m, !.step = "get"]
  <2>2. /\ c \in CallRecord /\ c.op = "recall" /\ c.step = "get" /\ c.mem = m
        /\ c.todo = call[p].todo \ {m} /\ c.copies = call[p].copies /\ m \in Memory
    BY <1>1, Fields DEF CallRecord, Step, MarkAccessed, At
  <2>3. Becomes(p, c) /\ Elsewhere(p)
    BY <2>1, <2>2, LocalBecomes
  <2> QED
    BY <2>2, <2>3 DEF Becomes, Enters
<1>2. ASSUME GetRecalled(p)
      PROVE  \/ Enters(p, "recall", "next") /\ KeepsLocals(p)
             \/ /\ Enters(p, "recall", "write") /\ Exists(call[p].mem)
                /\ call'[p].mem = call[p].mem /\ call'[p].todo = call[p].todo
                /\ call'[p].copies = [call[p].copies EXCEPT ![call[p].mem] = rows[call[p].mem]]
  <2> DEFINE c == [call[p] EXCEPT !.copies[call[p].mem] = rows[call[p].mem], !.step = "write"]
             new == [call[p].copies EXCEPT ![call[p].mem] = rows[call[p].mem]]
  <2>1. CASE Goto(p, "next")
    BY <1>2, <2>1, GotoEnters DEF GetRecalled, At, Step
  <2>2. CASE Exists(call[p].mem) /\ Local(p, c)
    <3>1. new \in [Memory -> State \cup {Absent}]
      BY Fields DEF TypeOK
    <3>2. c = [call[p] EXCEPT !.copies = new, !.step = "write"]
      BY Fields DEF CallRecord
    <3>3. /\ c \in CallRecord /\ c.op = "recall" /\ c.step = "write" /\ c.mem = call[p].mem
          /\ c.todo = call[p].todo /\ c.copies = new
      BY <1>2, <3>1, <3>2, Fields DEF CallRecord, Step, GetRecalled, At
    <3>4. Becomes(p, c) /\ Elsewhere(p)
      BY <2>2, <3>3, LocalBecomes
    <3> QED
      BY <2>2, <3>3, <3>4 DEF Becomes, Enters
  <2> QED
    BY <1>2, <2>1, <2>2 DEF GetRecalled
<1>3. ASSUME Reconsolidate(p) PROVE Enters(p, "recall", "next") /\ KeepsLocals(p)
  BY <1>3, GotoEnters DEF Reconsolidate, At, Step
<1> QED
  BY <1>1, <1>2, <1>3

\* forget by forget: what is left to do shrinks, and a row deleted is remembered.
LEMMA ForgetMoves ==
  ASSUME TypeOK, NEW p \in Caller
  PROVE  /\ ForgetSoftly(p) => Works(p)
         /\ ForgetRow(p) => /\ Works(p) /\ call'[p].step = "vector"
                            /\ call'[p].mem \in call[p].todo /\ rows' = [rows EXCEPT ![call'[p].mem] = Absent]
                            /\ forgotten' = forgotten \cup {call'[p].mem} /\ erased' = erased \cup {call'[p].mem}
         /\ ForgetVector(p) => Works(p)
<1>1. ASSUME ForgetSoftly(p) PROVE Works(p)
  <2>1. PICK m \in call[p].todo : Local(p, [call[p] EXCEPT !.todo = @ \ {m}])
    BY <1>1 DEF ForgetSoftly
  <2> DEFINE c == [call[p] EXCEPT !.todo = @ \ {m}]
  <2>2. c \in CallRecord /\ c.op = "forget" /\ c.todo = call[p].todo \ {m} /\ c.copies = call[p].copies
    BY <1>1, Fields DEF CallRecord, ForgetSoftly, At
  <2>3. Becomes(p, c) /\ Elsewhere(p)
    BY <2>1, <2>2, LocalBecomes
  <2> QED
    BY <1>1, <2>2, <2>3 DEF Becomes, Works, ForgetSoftly, At
<1>2. ASSUME ForgetRow(p)
      PROVE  /\ Works(p) /\ call'[p].step = "vector"
             /\ call'[p].mem \in call[p].todo /\ rows' = [rows EXCEPT ![call'[p].mem] = Absent]
             /\ forgotten' = forgotten \cup {call'[p].mem} /\ erased' = erased \cup {call'[p].mem}
  <2>1. PICK m \in call[p].todo : /\ rows' = [rows EXCEPT ![m] = Absent]
                                  /\ forgotten' = forgotten \cup {m} /\ erased' = erased \cup {m}
                                  /\ Local(p, [call[p] EXCEPT !.todo = @ \ {m}, !.mem = m, !.step = "vector"])
    BY <1>2 DEF ForgetRow
  <2> DEFINE c == [call[p] EXCEPT !.todo = @ \ {m}, !.mem = m, !.step = "vector"]
  <2>2. /\ c \in CallRecord /\ c.op = "forget" /\ c.step = "vector" /\ c.mem = m
        /\ c.todo = call[p].todo \ {m} /\ c.copies = call[p].copies
    BY <1>2, Fields DEF CallRecord, Step, ForgetRow, At
  <2>3. Becomes(p, c) /\ Elsewhere(p)
    BY <2>1, <2>2, LocalBecomes
  <2> QED
    BY <1>2, <2>1, <2>2, <2>3 DEF Becomes, Works, ForgetRow, At
<1>3. ASSUME ForgetVector(p) PROVE Works(p)
  BY <1>3, GotoEnters DEF ForgetVector, At, Step, Enters, KeepsLocals, Works
<1> QED
  BY <1>1, <1>2, <1>3

\* The steps of a consolidation stage.
LEMMA StageMoves ==
  ASSUME TypeOK, ControlInv, NEW p \in Caller,
         Decay(p) \/ Demote(p) \/ MergeNext(p) \/ MergeCompare(p) \/ MergeSuppress(p)
  PROVE  /\ Works(p) /\ call[p].op \in Stages
         /\ call'[p].op = "merge" /\ call'[p].step # "next" => call'[p].mem \in Memory
<1>1. CASE Decay(p) \/ Demote(p)
  <2>1. PICK m \in call[p].todo : Local(p, [call[p] EXCEPT !.todo = @ \ {m}])
    BY <1>1 DEF Decay, Demote
  <2> DEFINE c == [call[p] EXCEPT !.todo = @ \ {m}]
  <2>2. c \in CallRecord /\ c.op = call[p].op /\ c.todo = call[p].todo \ {m} /\ c.copies = call[p].copies
    BY Fields DEF CallRecord
  <2>3. Becomes(p, c) /\ Elsewhere(p)
    BY <2>1, <2>2, LocalBecomes
  <2> QED
    BY <1>1, <2>2, <2>3 DEF Becomes, Works, Decay, Demote, At, Stages
<1>2. CASE MergeNext(p)
  <2> DEFINE near(m)   == {n \in vectors \ {m} : Same(m, n)}
             taking(m) == [call[p] EXCEPT !.todo = @ \ {m}, !.mem = m, !.step = "compare", !.others = near(m)]
             ending    == [call[p] EXCEPT !.todo = {}]
  <2>1. PICK c \in {ending} \cup {taking(m) : m \in call[p].todo} : Local(p, c)
    BY <1>2 DEF MergeNext, Unseen
  <2>2. /\ c \in CallRecord /\ c.op = call[p].op /\ c.todo \subseteq call[p].todo /\ c.copies = call[p].copies
        /\ c.step # "next" => c.mem \in Memory
    <3>1. CASE c = ending
      BY <1>2, <3>1, Fields DEF CallRecord, MergeNext, At
    <3>2. CASE \E m \in call[p].todo : c = taking(m)
      <4>1. PICK m \in call[p].todo : c = taking(m)
        BY <3>2
      <4>2. near(m) \subseteq Memory
        BY DEF TypeOK
      <4> HIDE DEF near
      <4> QED
        BY <4>1, <4>2, Fields DEF CallRecord, Step
    <3> QED
      BY <3>1, <3>2
  <2> HIDE DEF taking, ending
  <2>3. Becomes(p, c) /\ Elsewhere(p)
    BY <2>1, <2>2, LocalBecomes
  <2> QED
    BY <1>2, <2>2, <2>3 DEF Becomes, Works, MergeNext, At, Stages
<1>3. CASE MergeCompare(p)
  <2>1. call[p].op = "merge" /\ call[p].mem \in Memory
    BY <1>3 DEF MergeCompare, At, ControlInv
  <2>2. CASE Goto(p, "next")
    BY <2>1, <2>2, GotoEnters DEF Step, Enters, KeepsLocals, Works, Stages
  <2>3. CASE ~Goto(p, "next")
    <3> DEFINE passing(n)   == [call[p] EXCEPT !.others = @ \ {n}]
               losing(n, l) == [call[p] EXCEPT !.others = @ \ {n}, !.seen = @ \cup {l},
                                               !.loser = l, !.step = "suppress"]
    <3>1. PICK n \in call[p].others : \/ Local(p, passing(n))
                                     \/ \E l \in {n, call[p].mem} : Local(p, losing(n, l))
      BY <1>3, <2>3 DEF MergeCompare
    <3>2. PICK l \in {n, call[p].mem} : Local(p, passing(n)) \/ Local(p, losing(n, l))
      BY <3>1
    <3> PICK c \in {passing(n), losing(n, l)} : Local(p, c)
      BY <3>2
    <3>3. l \in Memory
      BY <2>1, Fields
    <3>4. /\ c \in CallRecord /\ c.op = "merge" /\ c.mem = call[p].mem
          /\ c.todo = call[p].todo /\ c.copies = call[p].copies
      <4>1. CASE c = passing(n)
        BY <2>1, <4>1, Fields DEF CallRecord
      <4>2. CASE c = losing(n, l)
        BY <2>1, <3>3, <4>2, Fields DEF CallRecord, Step
      <4> QED
        BY <4>1, <4>2
    <3> HIDE DEF passing, losing
    <3>5. Becomes(p, c) /\ Elsewhere(p)
      BY <3>4, LocalBecomes
    <3> QED
      BY <2>1, <3>4, <3>5 DEF Becomes, Works, Stages
  <2> QED
    BY <2>2, <2>3
<1>4. CASE MergeSuppress(p)
  <2> DEFINE s == IF call[p].loser = call[p].mem THEN "next" ELSE "compare"
             c == [call[p] EXCEPT !.step = s]
  <2>1. Local(p, c) /\ call[p].op = "merge" /\ call[p].mem \in Memory
    BY <1>4 DEF MergeSuppress, At, ControlInv
  <2>2. /\ c \in CallRecord /\ c.op = "merge" /\ c.mem = call[p].mem
        /\ c.todo = call[p].todo /\ c.copies = call[p].copies
    BY <2>1, Fields DEF CallRecord, Step
  <2>3. Becomes(p, c) /\ Elsewhere(p)
    BY <2>1, <2>2, LocalBecomes
  <2> QED
    BY <2>1, <2>2, <2>3 DEF Becomes, Works, Stages
<1> QED
  BY <1>1, <1>2, <1>3, <1>4

\* A crash ends every call.
LEMMA CrashForgets ==
  ASSUME Crash
  PROVE  call' \in [Caller -> CallRecord] /\ \A p \in Caller : call'[p] = Idle
BY IdleFields DEF Crash

\* How a step touches the calls, whichever action it is.
LEMMA CallSteps ==
  ASSUME TypeOK, ControlInv, NEW p \in Caller,
         CallStep(p) \/ Remember(p) \/ Forget(p) \/ Recall(p) \/ BeginStage(p)
  PROVE  Elsewhere(p)
<1>1. CASE Remember(p)
  BY <1>1, RememberEnters DEF Enters
<1>2. CASE Forget(p) \/ Recall(p) \/ BeginStage(p)
  BY <1>2, Starts DEF Enters
<1>3. CASE LockDedup(p) \/ CheckNeighbours(p) \/ InsertRow(p) \/ InsertVector(p)
  BY <1>3, RememberMoves DEF Enters, Returns
<1>4. CASE ForgetSoftly(p) \/ ForgetRow(p) \/ ForgetVector(p)
  BY <1>4, ForgetMoves DEF Works
<1>5. CASE MarkAccessed(p) \/ GetRecalled(p) \/ Reconsolidate(p)
  BY <1>5, RecallMoves DEF Enters
<1>6. CASE Decay(p) \/ Demote(p) \/ MergeNext(p) \/ MergeCompare(p) \/ MergeSuppress(p)
  BY <1>6, StageMoves DEF Works
<1>7. CASE ReturnWhenDone(p)
  BY <1>7, ReturnReturns DEF ReturnWhenDone, Returns
<1> QED
  BY <1>1, <1>2, <1>3, <1>4, <1>5, <1>6, <1>7 DEF CallStep

-----------------------------------------------------------------------------
(***************************************************************************)
(* Types and local variables                                               *)
(***************************************************************************)
StageType == \A q \in Caller : call[q].op \in Stages => \A m \in call[q].todo : call[q].copies[m] \in Live

\* Every step leaves well-typed calls, and stages work on rows that were live.
LEMMA CallTypeStep ==
  ASSUME TypeOK, ControlInv, [Next]_vars
  PROVE  call' \in [Caller -> CallRecord] /\ StageType'
<1>0. call \in [Caller -> CallRecord] /\ StageType
  BY DEF TypeOK, StageType
<1>1. ASSUME NEW p \in Caller, Remember(p) PROVE call' \in [Caller -> CallRecord] /\ StageType'
  BY <1>0, <1>1, RememberEnters DEF Enters, Elsewhere, StageType, Stages
<1>2. ASSUME NEW p \in Caller, Forget(p) \/ Recall(p) \/ BeginStage(p)
      PROVE  call' \in [Caller -> CallRecord] /\ StageType'
  BY <1>0, <1>2, Starts DEF Enters, Elsewhere, StageType
<1>3. ASSUME NEW p \in Caller, LockDedup(p) \/ CheckNeighbours(p) \/ InsertRow(p) \/ InsertVector(p)
      PROVE  call' \in [Caller -> CallRecord] /\ StageType'
  BY <1>0, <1>3, RememberMoves, IdleFields DEF Enters, Returns, Elsewhere, StageType, Stages
<1>4. ASSUME NEW p \in Caller, ForgetSoftly(p) \/ ForgetRow(p) \/ ForgetVector(p)
      PROVE  call' \in [Caller -> CallRecord] /\ StageType'
  BY <1>0, <1>4, ForgetMoves DEF Works, Elsewhere, StageType
<1>5. ASSUME NEW p \in Caller, MarkAccessed(p) \/ GetRecalled(p) \/ Reconsolidate(p)
      PROVE  call' \in [Caller -> CallRecord] /\ StageType'
  BY <1>0, <1>5, RecallMoves DEF Enters, Elsewhere, StageType, Stages
<1>6. ASSUME NEW p \in Caller, Decay(p) \/ Demote(p) \/ MergeNext(p) \/ MergeCompare(p) \/ MergeSuppress(p)
      PROVE  call' \in [Caller -> CallRecord] /\ StageType'
  BY <1>0, <1>6, StageMoves DEF Works, Elsewhere, StageType
<1>7. ASSUME NEW p \in Caller, ReturnWhenDone(p) PROVE call' \in [Caller -> CallRecord] /\ StageType'
  BY <1>0, <1>7, ReturnReturns, IdleFields DEF ReturnWhenDone, Returns, Elsewhere, StageType, Stages
<1>8. CASE Crash
  BY <1>8, CrashForgets, IdleFields DEF StageType, Stages
<1>9. ASSUME UNCHANGED call PROVE call' \in [Caller -> CallRecord] /\ StageType'
  BY <1>0, <1>9 DEF StageType
<1> QED
  BY <1>1, <1>2, <1>3, <1>4, <1>5, <1>6, <1>7, <1>8, <1>9 DEF Next, CallStep, Purge, vars

RowType ==
    /\ dedup \in BOOLEAN /\ acl \in BOOLEAN /\ says \in [Memory -> Content \cup {Unsaid}]
    /\ rows \in [Memory -> State \cup {Absent}] /\ vectors \subseteq Memory
    /\ lock \in Caller \cup {NoCaller}
    /\ used \in 0 .. MaxMemories /\ calls \in 0 .. MaxCalls /\ faults \in 0 .. MaxFaults
    /\ \A m \in Memory : m > used => ~Exists(m) /\ m \notin vectors

\* Every step leaves well-typed rows, vectors, lock and counters.
LEMMA RowTypeStep ==
  ASSUME TypeOK, ControlInv, [Next]_vars, \A m \in Memory : m > used => \A p \in Caller : m \notin call[p].todo /\ call[p].copies[m] = Absent
  PROVE  RowType'
<1> USE DEF RowType, Exists
<1>0. /\ RowType
      /\ \A p \in Caller : call[p].mem \in Memory \cup {NoMemory} /\ call[p].todo \subseteq Memory
                           /\ call[p].copies \in [Memory -> State \cup {Absent}]
      /\ \A p \in Caller : call[p].op = "remember" => call[p].mem \in Memory /\ ~(call[p].mem > used)
      /\ {MaxMemories, MaxCalls, MaxFaults} \subseteq Nat
      /\ {"active", "fading", "faded", "suppressed"} \subseteq State /\ Live \subseteq State
  BY Fields, BoundsAssumption DEF TypeOK, ControlInv, State, Live, Memory
<1>1. ASSUME NEW p \in Caller, Remember(p) PROVE RowType'
  BY <1>0, <1>1, RememberEnters DEF Remember, store, Memory
<1>2. ASSUME NEW p \in Caller, LockDedup(p) PROVE RowType'
  BY <1>0, <1>2 DEF LockDedup, store, bounds
<1>3. ASSUME NEW p \in Caller, CheckNeighbours(p) PROVE RowType'
  BY <1>0, <1>3 DEF CheckNeighbours, store, Unlock, Fault
<1>4. ASSUME NEW p \in Caller, InsertRow(p) PROVE RowType'
  BY <1>0, <1>4 DEF InsertRow, Unlock, Fault, Upserted, At
<1>5. ASSUME NEW p \in Caller, InsertVector(p) PROVE RowType'
  BY <1>0, <1>5 DEF InsertVector, Unlock, Fault, At
<1>6. ASSUME NEW p \in Caller, Forget(p) \/ Recall(p) \/ BeginStage(p) PROVE RowType'
  <2>1. UNCHANGED <<dedup, acl, says, rows, vectors, lock, used, faults>> /\ calls < MaxCalls /\ calls' = calls + 1
    BY <1>6 DEF Forget, Recall, BeginStage, StartCall, store
  <2> QED
    BY <1>0, <2>1
<1>7. ASSUME NEW p \in Caller, ForgetSoftly(p) \/ ForgetRow(p) \/ ForgetVector(p) PROVE RowType'
  <2>1. UNCHANGED <<dedup, acl, says, lock, used, calls, faults>>
    BY <1>7 DEF ForgetSoftly, ForgetRow, ForgetVector, bounds
  <2>2. CASE ForgetSoftly(p)
    BY <1>0, <2>1, <2>2 DEF ForgetSoftly, WithState
  <2>3. CASE ForgetRow(p)
    BY <1>0, <2>1, <2>3 DEF ForgetRow
  <2>4. CASE ForgetVector(p)
    BY <1>0, <2>1, <2>4 DEF ForgetVector, RemainingVectors
  <2> QED
    BY <1>7, <2>2, <2>3, <2>4
<1>8. ASSUME NEW p \in Caller, ReturnWhenDone(p) \/ GetRecalled(p) \/ MergeNext(p) \/ MergeCompare(p) PROVE RowType'
  BY <1>0, <1>8 DEF ReturnWhenDone, GetRecalled, MergeNext, MergeCompare, store, bounds
<1>9. ASSUME NEW p \in Caller, MarkAccessed(p) PROVE RowType'
  BY <1>0, <1>9 DEF MarkAccessed, Revived, bounds
<1>10. ASSUME NEW p \in Caller, Reconsolidate(p) PROVE RowType'
  <2>1. call[p].mem \in Memory /\ call[p].copies[call[p].mem] \in State
    BY <1>10 DEF Reconsolidate, ControlInv
  <2>2. ~(call[p].mem > used)
    BY <2>1 DEF State, Live, Absent
  <2> QED
    BY <1>0, <1>10, <2>1, <2>2 DEF Reconsolidate, Upserted, bounds
<1>11. ASSUME NEW p \in Caller, Decay(p) PROVE RowType'
  BY <1>0, <1>11 DEF Decay, Decayed, Upserted, bounds, At, TypeOK, Stages
<1>12. ASSUME NEW p \in Caller, Demote(p) \/ MergeSuppress(p) PROVE RowType'
  <2>1. UNCHANGED <<dedup, acl, says, vectors, lock, used, calls, faults>>
    BY <1>12 DEF Demote, MergeSuppress, bounds
  <2>2. CASE Demote(p)
    <3>1. PICK m \in call[p].todo, s \in {"suppressed", "faded"} : rows' = rows \/ rows' = WithState(m, s)
      BY <2>2 DEF Demote
    <3> QED
      BY <1>0, <2>1, <3>1 DEF WithState
  <2>3. CASE MergeSuppress(p)
    BY <1>0, <2>1, <2>3 DEF MergeSuppress, WithState
  <2> QED
    BY <1>12, <2>2, <2>3
<1>13. ASSUME NEW p \in Caller, Purge(p) PROVE RowType'
  BY <1>0, <1>13 DEF Purge, StartCall
<1>14. CASE Crash
  BY <1>0, <1>14 DEF Crash, Fault, store
<1>15. CASE UNCHANGED vars
  BY <1>0, <1>15 DEF vars, store, bounds
<1> QED
  BY <1>1, <1>2, <1>3, <1>4, <1>5, <1>6, <1>7, <1>8, <1>9, <1>10, <1>11, <1>12, <1>13, <1>14, <1>15 DEF Next, CallStep

\* Every step keeps what the calls hold in their local variables.
LEMMA ControlStep ==
  ASSUME TypeOK, ControlInv, [Next]_vars
  PROVE  ControlInv'
<1> USE DEF ControlInv, At, Elsewhere
<1>0. used \in Nat /\ Stages \cap {"remember", "recall", "forget", "idle"} = {} /\ {"remember", "recall", "forget", "idle"} \cap {"merge"} = {}
  BY BoundsAssumption DEF TypeOK, Stages
<1>1. ASSUME NEW p \in Caller, Remember(p) PROVE ControlInv'
  <2>1. used' = used + 1 /\ call[p].op = "idle"
    BY <1>1 DEF Remember, Ready
  <2> QED
    BY <1>0, <1>1, <2>1, RememberEnters DEF Enters
<1>2. ASSUME NEW p \in Caller, Forget(p) \/ Recall(p) \/ BeginStage(p) PROVE ControlInv'
  <2>1. UNCHANGED used
    BY <1>2 DEF Forget, Recall, BeginStage
  <2> QED
    BY <1>0, <1>2, <2>1, Starts DEF Enters
<1>3. ASSUME NEW p \in Caller, LockDedup(p) \/ CheckNeighbours(p) \/ InsertRow(p) \/ InsertVector(p) PROVE ControlInv'
  <2>1. UNCHANGED used /\ call[p].op = "remember"
    BY <1>3 DEF LockDedup, CheckNeighbours, InsertRow, InsertVector, bounds
  <2> QED
    BY <1>0, <1>3, <2>1, RememberMoves, IdleFields DEF Enters, Returns, KeepsLocals
<1>4. ASSUME NEW p \in Caller, ForgetSoftly(p) \/ ForgetRow(p) \/ ForgetVector(p) PROVE ControlInv'
  <2>1. UNCHANGED used /\ call[p].op = "forget"
    BY <1>4 DEF ForgetSoftly, ForgetRow, ForgetVector, bounds
  <2> QED
    BY <1>0, <1>4, <2>1, ForgetMoves DEF Works
<1>5. ASSUME NEW p \in Caller, MarkAccessed(p) PROVE ControlInv'
  <2>1. UNCHANGED used
    BY <1>5 DEF MarkAccessed, bounds
  <2>2. /\ Elsewhere(p) /\ call'[p].op = "recall" /\ call'[p].step = "get" /\ call'[p].mem \in Memory
    BY <1>5, RecallMoves DEF Enters
  <2> QED
    BY <1>0, <2>1, <2>2
<1>6. ASSUME NEW p \in Caller, GetRecalled(p) PROVE ControlInv'
  <2>1. /\ UNCHANGED used /\ call[p].mem \in Memory
        /\ call[p].copies \in [Memory -> State \cup {Absent}] /\ rows[call[p].mem] \in State \cup {Absent}
    BY <1>6, Fields DEF GetRecalled, bounds, TypeOK
  <2> QED
    <3>1. CASE Enters(p, "recall", "next")
      BY <1>0, <2>1, <3>1 DEF Enters
    <3>2. CASE /\ Enters(p, "recall", "write") /\ Exists(call[p].mem)
               /\ call'[p].mem = call[p].mem /\ call'[p].todo = call[p].todo
               /\ call'[p].copies = [call[p].copies EXCEPT ![call[p].mem] = rows[call[p].mem]]
      <4>1. call'[p].copies[call'[p].mem] \in State
        BY <2>1, <3>2 DEF Exists
      <4> QED
        BY <1>0, <2>1, <3>2, <4>1 DEF Enters
    <3> QED
      BY <1>6, <3>1, <3>2, RecallMoves
<1>7. ASSUME NEW p \in Caller, Reconsolidate(p) PROVE ControlInv'
  BY <1>0, <1>7, RecallMoves DEF Reconsolidate, bounds, Enters
<1>8. ASSUME NEW p \in Caller, Decay(p) \/ Demote(p) \/ MergeNext(p) \/ MergeCompare(p) \/ MergeSuppress(p) PROVE ControlInv'
  <2>1. UNCHANGED used
    BY <1>8 DEF Decay, Demote, MergeNext, MergeCompare, MergeSuppress, bounds
  <2> QED
    BY <1>0, <1>8, <2>1, StageMoves DEF Works
<1>9. ASSUME NEW p \in Caller, ReturnWhenDone(p) PROVE ControlInv'
  BY <1>0, <1>9, ReturnReturns, IdleFields DEF ReturnWhenDone, bounds, Returns
<1>10. CASE Crash
  BY <1>0, <1>10, CrashForgets, IdleFields
<1>11. ASSUME UNCHANGED <<call, used>> PROVE ControlInv'
  BY <1>11
<1> QED
  BY <1>1, <1>2, <1>3, <1>4, <1>5, <1>6, <1>7, <1>8, <1>9, <1>10, <1>11 DEF Next, CallStep, Purge, vars, bounds

-----------------------------------------------------------------------------
(***************************************************************************)
(* The lock and the duplicates                                             *)
(***************************************************************************)
\* Every step keeps the discipline of _dedup_lock.
LEMMA LockStep ==
  ASSUME TypeOK, ControlInv, LockInv, [Next]_vars
  PROVE  LockInv'
<1> USE DEF LockInv, LockIsReleased, At, Elsewhere
<1>0. /\ NoCaller \notin Caller /\ lock \in Caller \cup {NoCaller} /\ Stages \cap {"remember", "recall", "forget", "idle"} = {}
      /\ \A p \in Caller : call[p].op = "remember" => call[p].step \in {"lock", "check", "insert", "embed"}
  BY CallerAssumption DEF TypeOK, Stages, ControlInv
<1>1. ASSUME NEW p \in Caller, Remember(p) PROVE LockInv'
  <2>1. UNCHANGED <<dedup, lock>> /\ call[p].op = "idle"
    BY <1>1 DEF Remember, Ready
  <2> QED
    BY <1>0, <1>1, <2>1, RememberEnters DEF Enters
<1>2. ASSUME NEW p \in Caller, Forget(p) \/ Recall(p) \/ BeginStage(p) PROVE LockInv'
  <2>1. UNCHANGED <<dedup, lock>> /\ call[p].op = "idle"
    BY <1>2 DEF Forget, Recall, BeginStage, Ready
  <2> QED
    BY <1>0, <1>2, <2>1, Starts DEF Enters
<1>3. ASSUME NEW p \in Caller, LockDedup(p) PROVE LockInv'
  BY <1>0, <1>3, RememberMoves DEF Enters, LockDedup, LockFree
<1>4. ASSUME NEW p \in Caller, CheckNeighbours(p) PROVE LockInv'
  <2>1. call[p].op = "remember" /\ call[p].step = "check" /\ UNCHANGED dedup
    BY <1>4 DEF CheckNeighbours
  <2>2. CASE Return(p) /\ Unlock(p)
    BY <1>0, <2>1, <2>2, ReturnReturns, IdleFields DEF Unlock, Returns
  <2>3. CASE Goto(p, "insert") /\ UNCHANGED lock
    BY <1>0, <2>1, <2>3, GotoEnters DEF Enters, Step
  <2> QED
    BY <1>4, <2>2, <2>3 DEF CheckNeighbours
<1>5. ASSUME NEW p \in Caller, InsertRow(p) PROVE LockInv'
  <2>1. call[p].op = "remember" /\ call[p].step = "insert" /\ UNCHANGED dedup
    BY <1>5 DEF InsertRow
  <2>2. CASE Return(p) /\ Unlock(p)
    BY <1>0, <2>1, <2>2, ReturnReturns, IdleFields DEF Unlock, Returns
  <2>3. CASE Goto(p, "embed") /\ UNCHANGED lock
    BY <1>0, <2>1, <2>3, GotoEnters DEF Enters, Step
  <2> QED
    BY <1>5, <2>2, <2>3 DEF InsertRow
<1>6. ASSUME NEW p \in Caller, InsertVector(p) PROVE LockInv'
  BY <1>0, <1>6, RememberMoves, IdleFields DEF InsertVector, Unlock, Returns
<1>7. ASSUME NEW p \in Caller, ForgetSoftly(p) \/ ForgetRow(p) \/ ForgetVector(p) PROVE LockInv'
  <2>1. UNCHANGED <<dedup, lock>> /\ call[p].op = "forget"
    BY <1>7 DEF ForgetSoftly, ForgetRow, ForgetVector
  <2> QED
    BY <1>0, <1>7, <2>1, ForgetMoves DEF Works
<1>8. ASSUME NEW p \in Caller, MarkAccessed(p) \/ GetRecalled(p) \/ Reconsolidate(p) PROVE LockInv'
  <2>1. UNCHANGED <<dedup, lock>> /\ call[p].op = "recall"
    BY <1>8 DEF MarkAccessed, GetRecalled, Reconsolidate
  <2> QED
    BY <1>0, <1>8, <2>1, RecallMoves DEF Enters
<1>9. ASSUME NEW p \in Caller, Decay(p) \/ Demote(p) \/ MergeNext(p) \/ MergeCompare(p) \/ MergeSuppress(p) PROVE LockInv'
  <2>1. UNCHANGED <<dedup, lock>>
    BY <1>9 DEF Decay, Demote, MergeNext, MergeCompare, MergeSuppress
  <2> QED
    BY <1>0, <1>9, <2>1, StageMoves DEF Works
<1>10. ASSUME NEW p \in Caller, ReturnWhenDone(p) PROVE LockInv'
  BY <1>0, <1>10, ReturnReturns, IdleFields DEF ReturnWhenDone, Returns
<1>11. CASE Crash
  BY <1>0, <1>11, CrashForgets, IdleFields DEF Crash
<1>12. ASSUME UNCHANGED <<dedup, lock, call>> PROVE LockInv'
  BY <1>12
<1> QED
  BY <1>1, <1>2, <1>3, <1>4, <1>5, <1>6, <1>7, <1>8, <1>9, <1>10, <1>11, <1>12 DEF Next, CallStep, Purge, vars

\* Only remember changes what a memory says, of one that no vector and no other call knows.
LEMMA SaysStep ==
  ASSUME TypeOK, [Next]_vars
  PROVE  /\ used' = used \/ used' = used + 1
         /\ \A m \in Memory : ~(m > used) => says'[m] = says[m]
<1>1. ASSUME NEW p \in Caller, Remember(p) PROVE used' = used + 1 /\ \A m \in Memory : ~(m > used) => says'[m] = says[m]
  BY <1>1, BoundsAssumption DEF Remember, TypeOK, Memory
<1>2. ASSUME NEW p \in Caller, CallStep(p) \/ Forget(p) \/ Recall(p) \/ BeginStage(p) \/ Purge(p) PROVE UNCHANGED <<says, used>>
  BY <1>2 DEF CallStep, LockDedup, CheckNeighbours, InsertRow, InsertVector, ForgetSoftly, ForgetRow, ForgetVector,
              ReturnWhenDone, MarkAccessed, GetRecalled, Reconsolidate, Decay, Demote, MergeNext, MergeCompare,
              MergeSuppress, Forget, Recall, BeginStage, Purge, bounds
<1>3. Crash \/ UNCHANGED vars => UNCHANGED <<says, used>>
  BY DEF Crash, vars, bounds
<1> QED
  BY <1>1, <1>2, <1>3 DEF Next

\* Vectors enter one at a time, each by the remember that holds its memory.
LEMMA VectorsStep ==
  ASSUME TypeOK, [Next]_vars
  PROVE  \/ vectors' \subseteq vectors
         \/ \E p \in Caller : InsertVector(p) /\ vectors' = vectors \cup {call[p].mem}
<1>1. ASSUME NEW p \in Caller, InsertVector(p) PROVE vectors' \subseteq vectors \/ vectors' = vectors \cup {call[p].mem}
  BY <1>1 DEF InsertVector
<1>2. ASSUME NEW p \in Caller, ForgetVector(p) PROVE vectors' \subseteq vectors
  BY <1>2 DEF ForgetVector, RemainingVectors
<1>3. ASSUME NEW p \in Caller, Remember(p) \/ Forget(p) \/ Recall(p) \/ BeginStage(p) \/ Purge(p) PROVE UNCHANGED vectors
  BY <1>3 DEF Remember, Forget, Recall, BeginStage, Purge, store
<1>4. ASSUME NEW p \in Caller, CallStep(p), ~InsertVector(p), ~ForgetVector(p) PROVE UNCHANGED vectors
  BY <1>4 DEF CallStep, LockDedup, CheckNeighbours, InsertRow, ForgetSoftly, ForgetRow,
              ReturnWhenDone, MarkAccessed, GetRecalled, Reconsolidate, Decay, Demote, MergeNext, MergeCompare,
              MergeSuppress, store
<1>5. Crash \/ UNCHANGED vars => UNCHANGED vectors
  BY DEF Crash, vars, store
<1> QED
  BY <1>1, <1>2, <1>3, <1>4, <1>5 DEF Next

\* What was not compared stays marked.
LEMMA NotComparedStep ==
  ASSUME [Next]_vars, acl' = acl, NEW m, NEW n, NotCompared(m, n)
  PROVE  NotCompared(m, n)'
<1>1. ASSUME NEW p \in Caller, CheckNeighbours(p) PROVE unchecked \subseteq unchecked' /\ unseen \subseteq unseen'
  BY <1>1 DEF CheckNeighbours
<1>2. ASSUME NEW p \in Caller, Remember(p) \/ Forget(p) \/ Recall(p) \/ BeginStage(p) \/ Purge(p)
      PROVE  UNCHANGED <<unchecked, unseen>>
  BY <1>2 DEF Remember, Forget, Recall, BeginStage, Purge, history
<1>3. ASSUME NEW p \in Caller, CallStep(p), ~CheckNeighbours(p) PROVE UNCHANGED <<unchecked, unseen>>
  BY <1>3 DEF CallStep, LockDedup, InsertRow, InsertVector, ForgetSoftly, ForgetRow, ForgetVector,
              ReturnWhenDone, MarkAccessed, GetRecalled, Reconsolidate, Decay, Demote, MergeNext, MergeCompare,
              MergeSuppress, history
<1>4. Crash \/ UNCHANGED vars => UNCHANGED <<unchecked, unseen>>
  BY DEF Crash, vars, history
<1>5. unchecked \subseteq unchecked' /\ unseen \subseteq unseen'
  BY <1>1, <1>2, <1>3, <1>4 DEF Next
<1> QED
  BY <1>5 DEF NotCompared

\* Where a remember under way comes from.
LEMMA RememberOrigin ==
  ASSUME TypeOK, ControlInv, [Next]_vars, NEW p \in Caller, call'[p].op = "remember"
  PROVE  \/ Remember(p)
         \/ /\ call[p].op = "remember" /\ call'[p].mem = call[p].mem
            /\ \/ LockDedup(p) /\ call'[p].step = "check"
               \/ CheckNeighbours(p) /\ call'[p].step = "insert"
               \/ InsertRow(p) /\ call'[p].step = "embed"
               \/ call'[p] = call[p]
<1>0. Stages \cap {"remember", "recall", "forget", "idle"} = {}
  BY DEF Stages
<1>1. ASSUME NEW q \in Caller, CallStep(q) \/ Remember(q) \/ Forget(q) \/ Recall(q) \/ BeginStage(q), q # p
      PROVE  call'[p] = call[p]
  BY <1>1, CallSteps DEF Elsewhere
<1>2. ASSUME LockDedup(p) \/ CheckNeighbours(p) \/ InsertRow(p) \/ InsertVector(p)
      PROVE  /\ call[p].op = "remember" /\ call'[p].mem = call[p].mem
             /\ \/ LockDedup(p) /\ call'[p].step = "check"
                \/ CheckNeighbours(p) /\ call'[p].step = "insert"
                \/ InsertRow(p) /\ call'[p].step = "embed"
  <2>1. call[p].op = "remember"
    BY <1>2 DEF LockDedup, CheckNeighbours, InsertRow, InsertVector, At
  <2> QED
    BY <1>2, <2>1, RememberMoves, IdleFields DEF Enters, Returns, KeepsLocals
<1>3. ~(Forget(p) \/ Recall(p) \/ BeginStage(p))
  BY <1>0, Starts DEF Enters
<1>4. ~(ForgetSoftly(p) \/ ForgetRow(p) \/ ForgetVector(p))
  BY <1>0, ForgetMoves DEF Works
<1>5. ~(MarkAccessed(p) \/ GetRecalled(p) \/ Reconsolidate(p))
  BY RecallMoves DEF Enters
<1>6. ~(Decay(p) \/ Demote(p) \/ MergeNext(p) \/ MergeCompare(p) \/ MergeSuppress(p))
  BY <1>0, StageMoves DEF Works
<1>7. ~ReturnWhenDone(p) /\ ~Crash
  BY ReturnReturns, CrashForgets, IdleFields DEF ReturnWhenDone, Returns
<1>8. ASSUME (\E q \in Caller : Purge(q)) \/ UNCHANGED vars PROVE call'[p] = call[p]
  BY <1>8 DEF Purge, vars
<1> QED
  BY <1>1, <1>2, <1>3, <1>4, <1>5, <1>6, <1>7, <1>8 DEF Next, CallStep

\* A check that goes on to write has seen all vectors of the content, or marks them.
LEMMA CheckCompares ==
  ASSUME TypeOK, NEW p \in Caller, CheckNeighbours(p), ~Return(p),
         NEW m, m = call[p].mem, NEW n, n \in vectors, Same(m, n)
  PROVE  NotCompared(m, n)'
<1>1. n \in Twins(m)
  BY DEF Twins
<1>2. CASE unchecked' = unchecked \cup {m}
  BY <1>2 DEF NotCompared
<1>3. CASE \E view \in SUBSET Twins(m) :
              Duplicates(view, m) = {} /\ unseen' = unseen \cup {<<m, l>> : l \in Overlooked(view, m)}
  <2>1. PICK view \in SUBSET Twins(m) :
              Duplicates(view, m) = {} /\ unseen' = unseen \cup {<<m, l>> : l \in Overlooked(view, m)}
    BY <1>3
  <2>2. acl /\ n \in Overlooked(view, m)
    BY <1>1, <2>1 DEF Duplicates, Overlooked, TypeOK
  <2>3. acl' = acl
    BY DEF CheckNeighbours
  <2> QED
    BY <2>1, <2>2, <2>3 DEF NotCompared
<1> QED
  BY <1>2, <1>3 DEF CheckNeighbours

\* While p has checked and not returned it holds the lock, and nobody else writes a vector.
LEMMA DedupStep ==
  ASSUME TypeOK, ControlInv, LockInv, DedupInv, [Next]_vars, dedup' = dedup, acl' = acl
  PROVE  DedupInv'
<1> SUFFICES ASSUME dedup, NEW p \in Caller, call'[p].op = "remember", call'[p].step \in {"insert", "embed"},
                    NEW m, m = call'[p].mem, NEW n, n \in vectors', says'[m] = says'[n]
             PROVE  NotCompared(m, n)'
  BY DEF DedupInv, Same, NotCompared
<1>1. ~Remember(p)
  BY RememberEnters DEF Enters
<1>2. /\ call[p].op = "remember" /\ m = call[p].mem
      /\ CheckNeighbours(p) \/ call[p].step \in {"insert", "embed"}
  BY <1>1, RememberOrigin DEF InsertRow, At
<1>3. lock = p
  BY <1>2 DEF LockInv, CheckNeighbours, At
<1>4. ASSUME NEW q \in Caller, InsertVector(q) PROVE FALSE
  <2>1. q = p
    BY <1>3, <1>4 DEF LockInv, InsertVector, At
  <2> QED
    BY <1>4, <2>1, RememberMoves, IdleFields DEF Returns
<1>5. vectors' \subseteq vectors
  BY <1>4, VectorsStep
<1>6. m \in Memory /\ ~(m > used) /\ n \in Memory /\ ~(n > used)
  BY <1>2, <1>5, BoundsAssumption DEF ControlInv, TypeOK, Memory
<1>7. n \in vectors /\ Same(m, n)
  BY <1>5, <1>6, SaysStep DEF Same
<1>8. CASE CheckNeighbours(p)
  <2>1. ~Return(p)
    BY ReturnReturns, IdleFields DEF Returns
  <2> QED
    BY <1>2, <1>7, <1>8, <2>1, CheckCompares
<1>9. CASE call[p].step \in {"insert", "embed"}
  <2>1. NotCompared(m, n)
    BY <1>2, <1>7, <1>9 DEF DedupInv
  <2> QED
    BY <2>1, NotComparedStep
<1> QED
  BY <1>2, <1>8, <1>9

\* A vector enters after the check of its memory.
LEMMA OneVectorStep ==
  ASSUME TypeOK, ControlInv, DedupInv, OneVectorPerContent, [Next]_vars, dedup' = dedup, acl' = acl
  PROVE  OneVectorPerContent'
<1> SUFFICES ASSUME dedup, NEW m, m \in vectors', NEW n, n \in vectors', says'[m] = says'[n], m # n
             PROVE  NotCompared(m, n)'
  BY DEF OneVectorPerContent, Same
<1>1. \A p \in Caller : InsertVector(p) =>
         /\ call[p].mem \in Memory /\ ~(call[p].mem > used)
         /\ \A l \in vectors : Same(call[p].mem, l) => NotCompared(call[p].mem, l)
  BY BoundsAssumption DEF InsertVector, At, ControlInv, DedupInv, TypeOK, Memory
<1>2. \A l \in vectors' : l \in Memory /\ ~(l > used)
  BY <1>1, VectorsStep DEF TypeOK
<1>3. says[m] = says[n]
  BY <1>2, SaysStep
<1>4. NotCompared(m, n)
  <2>1. CASE m \in vectors /\ n \in vectors
    BY <1>3, <2>1 DEF OneVectorPerContent, Same
  <2>2. CASE ~(m \in vectors /\ n \in vectors)
    BY <1>1, <1>3, <2>2, VectorsStep DEF Same, NotCompared
  <2> QED
    BY <2>1, <2>2
<1> QED
  BY <1>4, NotComparedStep

-----------------------------------------------------------------------------
(***************************************************************************)
(* Birth                                                                   *)
(***************************************************************************)
\* No memory becomes unborn.
LEMMA UnbornStep ==
  ASSUME TypeOK, ControlInv, [Next]_vars
  PROVE  Unborn' \subseteq Unborn
<1> SUFFICES ASSUME NEW m \in Unborn', ~(m > used)
             PROVE  m \in Unborn
  BY DEF Unborn
<1>1. m \in Memory /\ used \in Nat /\ ~(m > used')
  BY SaysStep, BoundsAssumption DEF Unborn, Memory, TypeOK
<1>2. PICK p \in Caller : call'[p].op = "remember" /\ call'[p].step \in {"lock", "check", "insert"} /\ call'[p].mem = m
  BY <1>1 DEF Unborn, Pending
<1>3. ~Remember(p)
  BY <1>1, <1>2, RememberEnters
<1>4. call[p].op = "remember" /\ call[p].mem = m /\ call[p].step \in {"lock", "check", "insert"}
  BY <1>2, <1>3, RememberOrigin DEF LockDedup, CheckNeighbours, At
<1> QED
  BY <1>1, <1>4 DEF Unborn, Pending

\* remember gives birth to its memory only.
LEMMA BornStep ==
  ASSUME TypeOK, ControlInv, [Next]_vars, NEW p \in Caller, InsertRow(p), Goto(p, "embed")
  PROVE  call[p].mem \notin Unborn'
<1>1. call[p].op = "remember" /\ call[p].mem \in 1 .. used /\ used' = used /\ used \in Nat
  BY BoundsAssumption DEF InsertRow, At, ControlInv, TypeOK
<1>2. call'[p].step = "embed" /\ Elsewhere(p) /\ call'[p].mem = call[p].mem
  BY GotoEnters DEF Enters, KeepsLocals, Step
<1>3. ASSUME NEW q \in Caller, Pending(q)', call'[q].mem = call[p].mem PROVE FALSE
  <2>1. q # p
    BY <1>2, <1>3 DEF Pending
  <2>2. call[q].op = "remember" /\ call[q].mem = call[p].mem
    BY <1>2, <1>3, <2>1 DEF Elsewhere, Pending
  <2> QED
    BY <1>1, <2>1, <2>2 DEF ControlInv
<1> QED
  BY <1>1, <1>3 DEF Unborn

\* What nobody has seen nobody works on.
LEMMA BirthCalls ==
  ASSUME TypeOK, ControlInv, BirthInv, [Next]_vars, NEW m \in Unborn, NEW p \in Caller
  PROVE  m \notin call'[p].todo /\ call'[p].copies[m] = Absent
<1>0. /\ m \in Memory /\ rows[m] = Absent /\ m \notin call[p].todo /\ call[p].copies[m] = Absent
      /\ Idle.todo = {} /\ Idle.copies[m] = Absent /\ m \notin Stored
  BY IdleFields DEF BirthInv, Exists, Unborn, Stored
<1>1. ASSUME NEW q \in Caller, CallStep(q) \/ Remember(q) \/ Forget(q) \/ Recall(q) \/ BeginStage(q), q # p
      PROVE  call'[p] = call[p]
  BY <1>1, CallSteps DEF Elsewhere
<1>2. ASSUME Remember(p) PROVE m \notin call'[p].todo /\ call'[p].copies[m] = Absent
  BY <1>0, <1>2, RememberEnters
<1>3. ASSUME Forget(p) \/ Recall(p) \/ BeginStage(p) PROVE m \notin call'[p].todo /\ call'[p].copies[m] = Absent
  BY <1>0, <1>3, Starts
<1>4. ASSUME LockDedup(p) \/ CheckNeighbours(p) \/ InsertRow(p) \/ InsertVector(p) \/ ReturnWhenDone(p)
      PROVE  m \notin call'[p].todo /\ call'[p].copies[m] = Absent
  BY <1>0, <1>4, RememberMoves, ReturnReturns DEF Returns, KeepsLocals, ReturnWhenDone
<1>5. ASSUME ForgetSoftly(p) \/ ForgetRow(p) \/ ForgetVector(p) PROVE m \notin call'[p].todo /\ call'[p].copies[m] = Absent
  BY <1>0, <1>5, ForgetMoves DEF Works
<1>6. ASSUME MarkAccessed(p) \/ GetRecalled(p) \/ Reconsolidate(p)
      PROVE  m \notin call'[p].todo /\ call'[p].copies[m] = Absent
  BY <1>0, <1>6, RecallMoves, Fields DEF KeepsLocals, Exists
<1>7. ASSUME Decay(p) \/ Demote(p) \/ MergeNext(p) \/ MergeCompare(p) \/ MergeSuppress(p)
      PROVE  m \notin call'[p].todo /\ call'[p].copies[m] = Absent
  BY <1>0, <1>7, StageMoves DEF Works
<1>8. ASSUME Crash PROVE m \notin call'[p].todo /\ call'[p].copies[m] = Absent
  BY <1>0, <1>8, CrashForgets
<1>9. ASSUME (\E q \in Caller : Purge(q)) \/ UNCHANGED vars PROVE call'[p] = call[p]
  BY <1>9 DEF Purge, vars
<1> QED
  BY <1>0, <1>1, <1>2, <1>3, <1>4, <1>5, <1>6, <1>7, <1>8, <1>9 DEF Next, CallStep

\* Rows come from remember, or from a call that had seen them.
LEMMA BirthStep ==
  ASSUME TypeOK, ControlInv, BirthInv, [Next]_vars
  PROVE  BirthInv'
<1> SUFFICES ASSUME NEW m \in Unborn'
             PROVE  rows'[m] = Absent /\ m \notin forgotten'
  BY UnbornStep, BirthCalls DEF BirthInv, Exists
<1>0. /\ m \in Unborn /\ m \in Memory /\ rows[m] = Absent /\ m \notin forgotten
      /\ \A p \in Caller : m \notin call[p].todo /\ call[p].copies[m] = Absent
      /\ rows \in [Memory -> State \cup {Absent}] /\ Absent \notin State
  BY UnbornStep DEF BirthInv, Exists, Unborn, TypeOK, State, Live, Absent
<1>1. ASSUME NEW p \in Caller, InsertRow(p) PROVE rows'[m] = Absent /\ m \notin forgotten'
  <2>1. UNCHANGED forgotten
    BY <1>1 DEF InsertRow, history
  <2>2. CASE rows' = Upserted(call[p].mem, "active") /\ Goto(p, "embed")
    BY <1>0, <1>1, <2>1, <2>2, BornStep DEF Upserted
  <2>3. CASE UNCHANGED rows
    BY <1>0, <2>1, <2>3
  <2> QED
    BY <1>1, <2>2, <2>3 DEF InsertRow
<1>2. ASSUME NEW p \in Caller, ForgetSoftly(p) PROVE rows'[m] = Absent /\ m \notin forgotten'
  BY <1>0, <1>2 DEF ForgetSoftly, WithState, Exists
<1>3. ASSUME NEW p \in Caller, ForgetRow(p) PROVE rows'[m] = Absent /\ m \notin forgotten'
  BY <1>0, <1>3 DEF ForgetRow
<1>4. ASSUME NEW p \in Caller, MarkAccessed(p) PROVE rows'[m] = Absent /\ m \notin forgotten'
  BY <1>0, <1>4 DEF MarkAccessed, history
<1>5. ASSUME NEW p \in Caller, Reconsolidate(p) PROVE rows'[m] = Absent /\ m \notin forgotten'
  <2>1. call[p].mem # m
    BY <1>0, <1>5 DEF Reconsolidate, ControlInv
  <2> QED
    BY <1>0, <1>5, <2>1 DEF Reconsolidate, Upserted
<1>6. ASSUME NEW p \in Caller, Decay(p) PROVE rows'[m] = Absent /\ m \notin forgotten'
  BY <1>0, <1>6 DEF Decay, Upserted
<1>7. ASSUME NEW p \in Caller, Demote(p) PROVE rows'[m] = Absent /\ m \notin forgotten'
  <2>1. PICK n \in call[p].todo, s \in {"suppressed", "faded"} : rows' = rows \/ rows' = WithState(n, s)
    BY <1>7 DEF Demote
  <2> QED
    BY <1>0, <1>7, <2>1 DEF Demote, WithState
<1>8. ASSUME NEW p \in Caller, MergeSuppress(p) PROVE rows'[m] = Absent /\ m \notin forgotten'
  BY <1>0, <1>8 DEF MergeSuppress, WithState, Exists
<1>9. ASSUME NEW p \in Caller, Purge(p) PROVE rows'[m] = Absent /\ m \notin forgotten'
  BY <1>0, <1>9 DEF Purge
<1>10. ASSUME NEW p \in Caller, Remember(p) \/ Forget(p) \/ Recall(p) \/ BeginStage(p) PROVE UNCHANGED <<rows, forgotten>>
  BY <1>10 DEF Remember, Forget, Recall, BeginStage, store, history
<1>11. ASSUME NEW p \in Caller, \/ LockDedup(p) \/ CheckNeighbours(p) \/ InsertVector(p) \/ ForgetVector(p) \/ ReturnWhenDone(p)
                               \/ GetRecalled(p) \/ MergeNext(p) \/ MergeCompare(p)
       PROVE  UNCHANGED <<rows, forgotten>>
  BY <1>11 DEF LockDedup, CheckNeighbours, InsertVector, ForgetVector, ReturnWhenDone, GetRecalled, MergeNext,
               MergeCompare, store, history
<1>12. Crash \/ UNCHANGED vars => UNCHANGED <<rows, forgotten>>
  BY DEF Crash, vars, store, history
<1> QED
  BY <1>0, <1>1, <1>2, <1>3, <1>4, <1>5, <1>6, <1>7, <1>8, <1>9, <1>10, <1>11, <1>12 DEF Next, CallStep

-----------------------------------------------------------------------------
(***************************************************************************)
(* Forgotten memories                                                      *)
(***************************************************************************)
\* Only forget forgets.
LEMMA ForgottenType ==
  ASSUME TypeOK, ForgottenBounds, [Next]_vars
  PROVE  ForgottenBounds'
<1> USE DEF ForgottenBounds
<1>0. \A p \in Caller : call[p].todo \subseteq Memory
  BY Fields
<1>1. ASSUME NEW p \in Caller, ForgetSoftly(p) \/ ForgetRow(p) PROVE ForgottenBounds'
  <2>1. PICK n \in call[p].todo : forgotten' = forgotten \cup {n} /\ erased' \subseteq erased \cup {n}
    BY <1>1 DEF ForgetSoftly, ForgetRow
  <2> QED
    BY <1>0, <2>1
<1>2. ASSUME NEW p \in Caller, Remember(p) \/ Forget(p) \/ Recall(p) \/ BeginStage(p) \/ Purge(p)
      PROVE  UNCHANGED <<forgotten, erased>>
  BY <1>2 DEF Remember, Forget, Recall, BeginStage, Purge, history
<1>3. ASSUME NEW p \in Caller, CallStep(p), ~ForgetSoftly(p), ~ForgetRow(p) PROVE UNCHANGED <<forgotten, erased>>
  BY <1>3 DEF CallStep, LockDedup, CheckNeighbours, InsertRow, InsertVector, ForgetVector,
              ReturnWhenDone, MarkAccessed, GetRecalled, Reconsolidate, Decay, Demote, MergeNext, MergeCompare,
              MergeSuppress, history
<1>4. Crash \/ UNCHANGED vars => UNCHANGED <<forgotten, erased>>
  BY DEF Crash, vars, history
<1> QED
  BY <1>1, <1>2, <1>3, <1>4 DEF Next

Forgot(m) == rows[m] \in IF m \in erased THEN {Absent} ELSE {Absent, "suppressed"}

\* A write of a row read before either finds the row as it was, or is stale.
LEMMA ForgottenStep ==
  ASSUME TypeOK, ControlInv, BirthInv, ForgottenStays, ForgottenBounds, [Next]_vars
  PROVE  ForgottenStays'
<1> SUFFICES ASSUME NEW m \in forgotten', m \notin stale'
             PROVE  Forgot(m)'
  BY DEF ForgottenStays, Forgot
<1> USE DEF Forgot
<1>0. /\ rows \in [Memory -> State \cup {Absent}] /\ Absent \notin State /\ Absent \notin Live
      /\ "suppressed" \notin Live /\ Live = {"active", "fading"}
      /\ \A p \in Caller : call[p].todo \subseteq Memory
      /\ m \in forgotten /\ m \notin stale => Forgot(m)
      /\ m \in Memory
      /\ erased \subseteq forgotten
  BY Fields, ForgottenType DEF TypeOK, State, Live, Absent, ForgottenStays, ForgottenBounds
<1>1. ASSUME NEW p \in Caller, InsertRow(p) PROVE Forgot(m)'
  <2>1. UNCHANGED <<forgotten, stale, erased>>
    BY <1>1 DEF InsertRow, history
  <2>2. CASE rows' = Upserted(call[p].mem, "active")
    <3>1. call[p].mem \in Unborn
      BY <1>1, BoundsAssumption DEF InsertRow, At, Unborn, Pending, ControlInv, TypeOK, Memory
    <3> QED
      BY <1>0, <2>1, <2>2, <3>1 DEF BirthInv, Upserted
  <2>3. CASE UNCHANGED rows
    BY <1>0, <2>1, <2>3
  <2> QED
    BY <1>1, <2>2, <2>3 DEF InsertRow
<1>2. ASSUME NEW p \in Caller, ForgetSoftly(p) PROVE Forgot(m)'
  <2>1. PICK n \in call[p].todo : rows' = WithState(n, "suppressed") /\ forgotten' = forgotten \cup {n}
    BY <1>2 DEF ForgetSoftly
  <2>2. UNCHANGED <<stale, erased>>
    BY <1>2 DEF ForgetSoftly
  <2> QED
    BY <1>0, <2>1, <2>2 DEF WithState, Exists
<1>3. ASSUME NEW p \in Caller, ForgetRow(p) PROVE Forgot(m)'
  BY <1>0, <1>3 DEF ForgetRow
<1>4. ASSUME NEW p \in Caller, MarkAccessed(p) PROVE Forgot(m)'
  <2>1. UNCHANGED <<forgotten, stale, erased>> /\ \E n \in call[p].todo : rows' = [rows EXCEPT ![n] = Revived(@)]
    BY <1>4 DEF MarkAccessed, history
  <2> QED
    BY <1>0, <2>1 DEF Revived, State, Live, Absent
<1>5. ASSUME NEW p \in Caller, Reconsolidate(p) PROVE Forgot(m)'
  BY <1>0, <1>5 DEF Reconsolidate, Upserted, Overwrites
<1>6. ASSUME NEW p \in Caller, Decay(p) PROVE Forgot(m)'
  <2>1. UNCHANGED <<forgotten, erased>>
    BY <1>6 DEF Decay
  <2>2. CASE UNCHANGED <<rows, stale>>
    BY <1>0, <2>1, <2>2
  <2>3. CASE \E n \in call[p].todo, s \in State : rows' = Upserted(n, s) /\ Overwrites(n, call[p].copies[n])
    <3>1. \A n \in call[p].todo : call[p].copies[n] \in Live
      BY <1>6 DEF Decay, At, TypeOK, Stages
    <3> QED
      BY <1>0, <2>1, <2>3, <3>1 DEF Upserted, Overwrites
  <2>4. \A n \in call[p].todo : Decayed(call[p].copies[n]) \subseteq State
    BY <1>6 DEF Decay, At, TypeOK, Stages, Decayed, State, Live
  <2> QED
    BY <1>6, <2>2, <2>3, <2>4 DEF Decay
<1>7. ASSUME NEW p \in Caller, Demote(p) PROVE Forgot(m)'
  <2>1. UNCHANGED <<forgotten, erased>>
    BY <1>7 DEF Demote
  <2>2. CASE UNCHANGED <<rows, stale>>
    BY <1>0, <2>1, <2>2
  <2>3. CASE \E n \in call[p].todo, s \in {"suppressed", "faded"} :
                rows' = WithState(n, s) /\ (IF Exists(n) THEN Overwrites(n, call[p].copies[n]) ELSE UNCHANGED stale)
    <3>1. \A n \in call[p].todo : call[p].copies[n] \in Live
      BY <1>7 DEF Demote, TypeOK, Stages
    <3> QED
      BY <1>0, <2>1, <2>3, <3>1 DEF WithState, Overwrites, Exists
  <2> QED
    BY <1>7, <2>2, <2>3 DEF Demote
<1>8. ASSUME NEW p \in Caller, MergeSuppress(p) PROVE Forgot(m)'
  BY <1>0, <1>8 DEF MergeSuppress, WithState, Exists
<1>9. ASSUME NEW p \in Caller, Purge(p) PROVE Forgot(m)'
  <2>1. UNCHANGED <<forgotten, stale, erased>> /\ \E old : rows' = [n \in Memory |-> IF n \in old THEN Absent ELSE rows[n]]
    BY <1>9 DEF Purge
  <2> QED
    BY <1>0, <2>1
<1>10. ASSUME NEW p \in Caller, Remember(p) \/ Forget(p) \/ Recall(p) \/ BeginStage(p) PROVE UNCHANGED <<rows, forgotten, stale, erased>>
  BY <1>10 DEF Remember, Forget, Recall, BeginStage, store, history
<1>11. ASSUME NEW p \in Caller, \/ LockDedup(p) \/ CheckNeighbours(p) \/ InsertVector(p) \/ ForgetVector(p) \/ ReturnWhenDone(p)
                               \/ GetRecalled(p) \/ MergeNext(p) \/ MergeCompare(p)
       PROVE  UNCHANGED <<rows, forgotten, stale, erased>>
  BY <1>11 DEF LockDedup, CheckNeighbours, InsertVector, ForgetVector, ReturnWhenDone, GetRecalled, MergeNext,
               MergeCompare, store, history
<1>12. Crash \/ UNCHANGED vars => UNCHANGED <<rows, forgotten, stale, erased>>
  BY DEF Crash, vars, store, history
<1> QED
  BY <1>0, <1>1, <1>2, <1>3, <1>4, <1>5, <1>6, <1>7, <1>8, <1>9, <1>10, <1>11, <1>12 DEF Next, CallStep

-----------------------------------------------------------------------------
(***************************************************************************)
(* Vectors and their rows                                                  *)
(***************************************************************************)
\* Somebody is about to remove the vector of m.
Leaving(m) == \E p \in Caller : At(p, "forget", "vector") /\ call[p].mem = m

\* No step but a forget's or a purge takes a row away, and those answer for the vector.
LEMMA VectorRowStep ==
  ASSUME TypeOK, ControlInv, VectorsHaveRows, vectors' \subseteq Memory, [Next]_vars
  PROVE  VectorsHaveRows'
<1> DEFINE Answered(m) == Exists(m) \/ m \in purged \cup late \/ Leaving(m)
<1> SUFFICES ASSUME NEW m \in vectors'
             PROVE  Answered(m)'
  BY DEF VectorsHaveRows, Leaving
<1>0. /\ m \in vectors => Answered(m)
      /\ rows \in [Memory -> State \cup {Absent}] /\ Absent \notin State
      /\ Live \cup {"active", "suppressed", "faded"} \subseteq State
      /\ m \in Memory /\ \A p \in Caller : call[p].todo \subseteq Memory
  BY Fields DEF VectorsHaveRows, Leaving, TypeOK, State, Live, Absent
<1>1. ASSUME m \in vectors, Exists(m) => Exists(m)', Leaving(m) => Leaving(m)', purged \cup late \subseteq (purged \cup late)'
      PROVE  Answered(m)'
  BY <1>0, <1>1
<1>2. ASSUME NEW p \in Caller, ~At(p, "forget", "vector"), Elsewhere(p)
      PROVE  Leaving(m) => Leaving(m)'
  BY <1>2 DEF Leaving, At, Elsewhere
<1>3. ASSUME NEW p \in Caller, Remember(p) \/ Forget(p) \/ Recall(p) \/ BeginStage(p) PROVE Answered(m)'
  <2>1. ~At(p, "forget", "vector") /\ Elsewhere(p)
    BY <1>3, CallSteps DEF Remember, Forget, Recall, BeginStage, Ready, At
  <2>2. UNCHANGED <<rows, vectors, purged, late>>
    BY <1>3 DEF Remember, Forget, Recall, BeginStage, store, history
  <2> QED
    BY <1>1, <1>2, <2>1, <2>2 DEF Exists
<1>4. ASSUME NEW p \in Caller, LockDedup(p) \/ CheckNeighbours(p) \/ ReturnWhenDone(p) \/ GetRecalled(p) \/ MergeNext(p) \/ MergeCompare(p)
      PROVE  Answered(m)'
  <2>1. ~At(p, "forget", "vector") /\ Elsewhere(p)
    BY <1>4, CallSteps DEF CallStep, LockDedup, CheckNeighbours, ReturnWhenDone, GetRecalled, MergeNext, MergeCompare, At
  <2>2. UNCHANGED <<rows, vectors, purged, late>>
    BY <1>4 DEF LockDedup, CheckNeighbours, ReturnWhenDone, GetRecalled, MergeNext, MergeCompare, store, history
  <2> QED
    BY <1>1, <1>2, <2>1, <2>2 DEF Exists
<1>5. ASSUME NEW p \in Caller, InsertRow(p) PROVE Answered(m)'
  <2>1. ~At(p, "forget", "vector") /\ Elsewhere(p)
    BY <1>5, CallSteps DEF CallStep, InsertRow, At
  <2>2. UNCHANGED <<vectors, purged, late>> /\ (rows' = rows \/ rows' = Upserted(call[p].mem, "active"))
    BY <1>5 DEF InsertRow, history
  <2>3. Exists(m) => Exists(m)'
    BY <1>0, <2>2 DEF Exists, Upserted
  <2> QED
    BY <1>1, <1>2, <2>1, <2>2, <2>3
<1>6. ASSUME NEW p \in Caller, InsertVector(p) PROVE Answered(m)'
  <2>1. ~At(p, "forget", "vector") /\ Elsewhere(p)
    BY <1>6, CallSteps DEF CallStep, InsertVector, At
  <2>2. UNCHANGED <<rows, purged>> /\ late \subseteq late'
    BY <1>6 DEF InsertVector
  <2>3. m \in vectors \/ (m = call[p].mem /\ (Exists(m) \/ m \in late'))
    BY <1>6 DEF InsertVector
  <2> QED
    BY <1>1, <1>2, <2>1, <2>2, <2>3 DEF Exists
<1>7. ASSUME NEW p \in Caller, ForgetSoftly(p) PROVE Answered(m)'
  <2>1. ~At(p, "forget", "vector") /\ Elsewhere(p)
    BY <1>7, CallSteps DEF CallStep, ForgetSoftly, At
  <2>2. UNCHANGED <<vectors, purged, late>> /\ \E n \in call[p].todo : rows' = WithState(n, "suppressed")
    BY <1>7 DEF ForgetSoftly
  <2> QED
    BY <1>0, <1>1, <1>2, <2>1, <2>2 DEF Exists, WithState
<1>8. ASSUME NEW p \in Caller, ForgetRow(p) PROVE Answered(m)'
  <2>1. /\ ~At(p, "forget", "vector") /\ Elsewhere(p) /\ At(p, "forget", "vector")'
        /\ rows' = [rows EXCEPT ![call'[p].mem] = Absent]
    BY <1>8, ForgetMoves DEF ForgetRow, At, Works
  <2>2. UNCHANGED <<vectors, purged, late>>
    BY <1>8 DEF ForgetRow
  <2>3. CASE m = call'[p].mem
    BY <2>1, <2>3 DEF Leaving
  <2>4. CASE m # call'[p].mem
    BY <1>0, <1>1, <1>2, <2>1, <2>2, <2>4 DEF Exists
  <2> QED
    BY <2>3, <2>4
<1>9. ASSUME NEW p \in Caller, ForgetVector(p) PROVE Answered(m)'
  <2>1. Elsewhere(p) /\ m \in vectors /\ m # call[p].mem /\ UNCHANGED <<rows, purged, late>>
    BY <1>9, CallSteps DEF CallStep, ForgetVector, RemainingVectors, history
  <2>2. Leaving(m) => Leaving(m)'
    BY <2>1 DEF Leaving, At, Elsewhere
  <2> QED
    BY <1>1, <2>1, <2>2 DEF Exists
<1>10. ASSUME NEW p \in Caller, MarkAccessed(p) PROVE Answered(m)'
  <2>1. ~At(p, "forget", "vector") /\ Elsewhere(p)
    BY <1>10, CallSteps DEF CallStep, MarkAccessed, At
  <2>2. UNCHANGED <<vectors, purged, late>> /\ \E n \in call[p].todo : rows' = [rows EXCEPT ![n] = Revived(@)]
    BY <1>10 DEF MarkAccessed, history
  <2> QED
    BY <1>0, <1>1, <1>2, <2>1, <2>2 DEF Exists, Revived
<1>11. ASSUME NEW p \in Caller, Reconsolidate(p) PROVE Answered(m)'
  <2>1. ~At(p, "forget", "vector") /\ Elsewhere(p) /\ call[p].copies[call[p].mem] \in State
    BY <1>11, CallSteps DEF CallStep, Reconsolidate, At, ControlInv
  <2>2. UNCHANGED <<vectors, purged, late>> /\ rows' = Upserted(call[p].mem, call[p].copies[call[p].mem])
    BY <1>11 DEF Reconsolidate
  <2> QED
    BY <1>0, <1>1, <1>2, <2>1, <2>2 DEF Exists, Upserted
<1>12. ASSUME NEW p \in Caller, Decay(p) PROVE Answered(m)'
  <2>1. /\ ~At(p, "forget", "vector") /\ Elsewhere(p)
        /\ \A n \in call[p].todo : Decayed(call[p].copies[n]) \subseteq State
    BY <1>12, CallSteps DEF CallStep, Decay, At, TypeOK, Stages, Decayed, State, Live
  <2>2. UNCHANGED <<vectors, purged, late>>
    BY <1>12 DEF Decay
  <2>3. rows' = rows \/ \E n \in call[p].todo, s \in State : rows' = Upserted(n, s)
    BY <1>12, <2>1 DEF Decay
  <2>4. Exists(m) => Exists(m)'
    BY <1>0, <2>3 DEF Exists, Upserted
  <2> QED
    BY <1>1, <1>2, <2>1, <2>2, <2>4
<1>13. ASSUME NEW p \in Caller, Demote(p) PROVE Answered(m)'
  <2>1. ~At(p, "forget", "vector") /\ Elsewhere(p)
    BY <1>13, CallSteps DEF CallStep, Demote, At
  <2>2. /\ UNCHANGED <<vectors, purged, late>>
        /\ rows' = rows \/ \E n \in call[p].todo, s \in {"suppressed", "faded"} : rows' = WithState(n, s)
    BY <1>13 DEF Demote
  <2>3. Exists(m) => Exists(m)'
    BY <1>0, <2>2 DEF Exists, WithState
  <2> QED
    BY <1>1, <1>2, <2>1, <2>2, <2>3
<1>14. ASSUME NEW p \in Caller, MergeSuppress(p) PROVE Answered(m)'
  <2>1. ~At(p, "forget", "vector") /\ Elsewhere(p)
    BY <1>14, CallSteps DEF CallStep, MergeSuppress, At
  <2>2. UNCHANGED <<vectors, purged, late>> /\ rows' = WithState(call[p].loser, "suppressed")
    BY <1>14 DEF MergeSuppress
  <2> QED
    BY <1>0, <1>1, <1>2, <2>1, <2>2 DEF Exists, WithState
<1>15. ASSUME NEW p \in Caller, Purge(p) PROVE Answered(m)'
  <2>1. PICK old : rows' = [n \in Memory |-> IF n \in old THEN Absent ELSE rows[n]] /\ purged' = purged \cup old
    BY <1>15 DEF Purge
  <2>2. UNCHANGED <<vectors, late, call>>
    BY <1>15 DEF Purge
  <2>3. m \in Memory
    BY <2>2 DEF TypeOK
  <2> QED
    BY <1>0, <1>1, <2>1, <2>2, <2>3 DEF Exists, Leaving, At
<1>16. CASE Crash
  <2>1. UNCHANGED <<rows, vectors, purged>> /\ late' = late \cup {call[p].mem : p \in {q \in Caller : At(q, "forget", "vector")}}
    BY <1>16 DEF Crash, store
  <2>2. Leaving(m) => m \in late'
    BY <2>1 DEF Leaving
  <2> QED
    BY <1>0, <2>1, <2>2 DEF Exists
<1>17. CASE UNCHANGED vars
  BY <1>1, <1>17 DEF vars, store, history, Exists, Leaving, At
<1> QED
  BY <1>3, <1>4, <1>5, <1>6, <1>7, <1>8, <1>9, <1>10, <1>11, <1>12, <1>13, <1>14, <1>15, <1>16, <1>17 DEF Next, CallStep

-----------------------------------------------------------------------------
(***************************************************************************)
(* The invariant                                                           *)
(***************************************************************************)
\* The configuration does not change.
LEMMA ConfigFixed ==
  ASSUME [Next]_vars
  PROVE  dedup' = dedup /\ acl' = acl
<1>1. ASSUME NEW p \in Caller, Remember(p) \/ Forget(p) \/ Recall(p) \/ BeginStage(p) \/ Purge(p) PROVE UNCHANGED <<dedup, acl>>
  BY <1>1 DEF Remember, Forget, Recall, BeginStage, Purge
<1>2. ASSUME NEW p \in Caller, CallStep(p) PROVE UNCHANGED <<dedup, acl>>
  BY <1>2 DEF CallStep, LockDedup, CheckNeighbours, InsertRow, InsertVector, ForgetSoftly, ForgetRow, ForgetVector,
              ReturnWhenDone, MarkAccessed, GetRecalled, Reconsolidate, Decay, Demote, MergeNext, MergeCompare, MergeSuppress
<1>3. Crash \/ UNCHANGED vars => UNCHANGED <<dedup, acl>>
  BY DEF Crash, vars
<1> QED
  BY <1>1, <1>2, <1>3 DEF Next

\* At the start there is nothing.
LEMMA InitInv ==
  ASSUME Init
  PROVE  IInv
<1> USE DEF Init
<1>1. call \in [Caller -> CallRecord] /\ \A p \in Caller : call[p] = Idle
  BY IdleFields
<1>2. TypeOK
  <2>1. dedup \in BOOLEAN /\ acl \in BOOLEAN
    OBVIOUS
  <2> QED
    BY <1>1, <2>1, BoundsAssumption, IdleFields DEF TypeOK, Stages, Exists
<1>3. ControlInv /\ LockInv /\ DedupInv
  BY <1>1, IdleFields DEF ControlInv, LockInv, LockIsReleased, DedupInv, At
<1>4. BirthInv
  BY <1>1, IdleFields DEF BirthInv, Unborn, Exists
<1>5. OneVectorPerContent /\ ForgottenBounds /\ ForgottenStays /\ VectorsHaveRows
  BY DEF ForgottenBounds, OneVectorPerContent, ForgottenStays, VectorsHaveRows
<1> QED
  BY <1>2, <1>3, <1>4, <1>5 DEF IInv

\* Every step preserves the invariant.
LEMMA StepInv ==
  ASSUME IInv, [Next]_vars
  PROVE  IInv'
<1> USE DEF IInv
<1>1. \A m \in Memory : m > used => \A p \in Caller : m \notin call[p].todo /\ call[p].copies[m] = Absent
  BY DEF BirthInv, Unborn
<1>2. TypeOK'
  BY <1>1, CallTypeStep, RowTypeStep DEF TypeOK, RowType, StageType
<1>3. vectors' \subseteq Memory
  BY <1>2 DEF TypeOK
<1> QED
  BY <1>2, <1>3, ControlStep, LockStep, ConfigFixed, DedupStep, OneVectorStep, BirthStep, ForgottenType, ForgottenStep, VectorRowStep

\* The inductive invariant holds in every state.
THEOREM Invariant == Spec => []IInv
<1> QED
  BY InitInv, StepInv, PTL DEF Spec

\* Every row, vector, lock and call stays what it is declared to be.
THEOREM TypeCorrect == Spec => []TypeOK
<1>1. IInv => TypeOK
  BY DEF IInv
<1> QED
  BY <1>1, Invariant, PTL

\* With write dedup on, no two vectors of one content are stored, however many threads
\* remember at the same time, whether access control narrows what they see or not;
\* except for what the check of the later did not compare.
THEOREM DedupHolds == Spec => []OneVectorPerContent
<1>1. IInv => OneVectorPerContent
  BY DEF IInv
<1> QED
  BY <1>1, Invariant, PTL

\* Nothing but the write of a row read before brings a forgotten memory back.
THEOREM ForgettingLasts == Spec => []ForgottenStays
<1>1. IInv => ForgottenStays
  BY DEF IInv
<1> QED
  BY <1>1, Invariant, PTL

\* A hard delete reaches the vector too, except in the named races.
THEOREM DeletesReachVectors == Spec => []VectorsHaveRows
<1>1. IInv => VectorsHaveRows
  BY DEF IInv
<1> QED
  BY <1>1, Invariant, PTL

\* No branch of remember, and no failure in it, keeps _dedup_lock.
THEOREM LockReleased == Spec => []LockIsReleased
<1>1. IInv => LockIsReleased
  BY DEF IInv, LockInv
<1> QED
  BY <1>1, Invariant, PTL

-----------------------------------------------------------------------------
(***************************************************************************)
(* Merging: what a merge has not suppressed itself remains, up to the      *)
(* memory it compares with.  What another merge suppressed remains in this *)
(* sense too, as long as the first one counts on it.                       *)
(***************************************************************************)
Known == {m \in Memory : ~(m > used)}

HistoryKnown == mergedAway \cup demoted \cup stale \subseteq Known

Merging(p) ==
    call[p].op = "merge" =>
       /\ \A m \in call[p].todo \ call[p].seen : Remains(m)
       /\ \A n \in call[p].others : {n, call[p].mem} \subseteq Known /\ n # call[p].mem /\ Same(call[p].mem, n)
       /\ call[p].step # "next" => call[p].mem \in Known
       /\ call[p].step = "compare" => call[p].mem \notin call[p].seen /\ Remains(call[p].mem)
       /\ call[p].step = "suppress" =>
             /\ call[p].loser \in Known /\ call[p].loser \in call[p].seen /\ Same(call[p].mem, call[p].loser)
             /\ call[p].loser # call[p].mem => call[p].mem \notin call[p].seen /\ Remains(call[p].mem)
             /\ \E w \in Known : w # call[p].loser /\ Same(call[p].loser, w) /\ Remains(w)

MergeInv == HistoryKnown /\ (\A p \in Caller : Merging(p)) /\ MergeKeepsOne

\* Time only adds memories, and what they say does not change.
LEMMA KnownStep ==
  ASSUME TypeOK, [Next]_vars
  PROVE  /\ Known \subseteq Known'
         /\ \A m, n \in Known : Same(m, n) => Same(m, n)'
<1>1. used \in Nat /\ (used' = used \/ used' = used + 1) /\ Memory \subseteq Nat
  BY SaysStep, BoundsAssumption DEF TypeOK, Memory
<1>2. \A m \in Memory : ~(m > used) => ~(m > used')
  BY <1>1
<1> QED
  BY <1>2, SaysStep DEF Known, Same

\* What a call works on was written before.
LEMMA TodoKnown ==
  ASSUME TypeOK, BirthInv, NEW p \in Caller
  PROVE  /\ call[p].todo \subseteq Known
         /\ \A m \in Memory : Exists(m) => m \in Known
BY Fields DEF BirthInv, Unborn, Known, TypeOK

\* Whoever takes a row out of the live states says so, and it is not forgotten.
LEMMA HistoryGrows ==
  ASSUME [Next]_vars
  PROVE  demoted \subseteq demoted' /\ stale \subseteq stale'
<1>1. ASSUME NEW p \in Caller, ForgetSoftly(p) \/ ForgetRow(p) \/ Purge(p) PROVE demoted \subseteq demoted' /\ stale' = stale
  BY <1>1 DEF ForgetSoftly, ForgetRow, Purge
<1>2. ASSUME NEW p \in Caller, Reconsolidate(p) PROVE demoted' = demoted /\ stale \subseteq stale'
  BY <1>2 DEF Reconsolidate, Overwrites
<1>3. ASSUME NEW p \in Caller, Decay(p) PROVE demoted \subseteq demoted' /\ stale \subseteq stale'
  BY <1>3 DEF Decay, Overwrites
<1>4. ASSUME NEW p \in Caller, Demote(p) PROVE demoted \subseteq demoted' /\ stale \subseteq stale'
  BY <1>4 DEF Demote, Overwrites
<1>5. ASSUME NEW p \in Caller, MergeSuppress(p) PROVE demoted \subseteq demoted' /\ stale' = stale
  BY <1>5 DEF MergeSuppress
<1>6. ASSUME NEW p \in Caller, \/ Remember(p) \/ Forget(p) \/ Recall(p) \/ BeginStage(p) \/ LockDedup(p) \/ CheckNeighbours(p)
                               \/ InsertRow(p) \/ InsertVector(p) \/ ForgetVector(p) \/ ReturnWhenDone(p)
                               \/ MarkAccessed(p) \/ GetRecalled(p) \/ MergeNext(p) \/ MergeCompare(p)
      PROVE  UNCHANGED <<demoted, stale>>
  BY <1>6 DEF Remember, Forget, Recall, BeginStage, LockDedup, CheckNeighbours, InsertRow, InsertVector, ForgetVector,
              ReturnWhenDone, MarkAccessed, GetRecalled, MergeNext, MergeCompare, history
<1>7. Crash \/ UNCHANGED vars => UNCHANGED <<demoted, stale>>
  BY DEF Crash, vars, history
<1> QED
  BY <1>1, <1>2, <1>3, <1>4, <1>6, <1>7, <1>5 DEF Next, CallStep

\* Only the merge that names it the loser takes away a memory that remains.
LEMMA RemainsStep ==
  ASSUME TypeOK, ControlInv, [Next]_vars, NEW m \in Memory, Remains(m),
         \A p \in Caller : MergeSuppress(p) => call[p].loser # m
  PROVE  Remains(m)'
<1>0. /\ rows \in [Memory -> State \cup {Absent}] /\ Live = {"active", "fading"}
      /\ \A p \in Caller : call[p].todo \subseteq Memory
  BY Fields DEF TypeOK, Live
<1> SUFFICES ASSUME rows[m] \in Live
             PROVE  rows'[m] \in Live \/ m \in demoted' \cup stale'
  BY HistoryGrows DEF Remains, IsLive
<1>1. ASSUME NEW p \in Caller, InsertRow(p) PROVE rows'[m] \in Live
  BY <1>0, <1>1 DEF InsertRow, Upserted
<1>2. ASSUME NEW p \in Caller, ForgetSoftly(p) PROVE rows'[m] \in Live \/ m \in demoted'
  <2>1. PICK n \in call[p].todo : rows' = WithState(n, "suppressed") /\ demoted' = demoted \cup {n}
    BY <1>2 DEF ForgetSoftly
  <2> QED
    BY <1>0, <2>1 DEF WithState
<1>3. ASSUME NEW p \in Caller, ForgetRow(p) PROVE rows'[m] \in Live \/ m \in demoted'
  <2>1. PICK n \in call[p].todo : rows' = [rows EXCEPT ![n] = Absent] /\ demoted' = demoted \cup {n}
    BY <1>3 DEF ForgetRow
  <2> QED
    BY <1>0, <2>1
<1>4. ASSUME NEW p \in Caller, MarkAccessed(p) PROVE rows'[m] \in Live
  <2>1. PICK n \in call[p].todo : rows' = [rows EXCEPT ![n] = Revived(@)]
    BY <1>4 DEF MarkAccessed
  <2> QED
    BY <1>0, <2>1 DEF Revived
<1>5. ASSUME NEW p \in Caller, Reconsolidate(p) PROVE rows'[m] \in Live \/ m \in stale'
  BY <1>0, <1>5 DEF Reconsolidate, Upserted, Overwrites
<1>6. ASSUME NEW p \in Caller, Decay(p) PROVE rows'[m] \in Live \/ m \in demoted'
  <2>1. PICK n \in call[p].todo : \/ rows' = rows
                                  \/ demoted' = demoted \cup {n} /\ \E s \in Decayed(call[p].copies[n]) : rows' = Upserted(n, s)
    BY <1>6 DEF Decay
  <2> QED
    BY <1>0, <2>1 DEF Upserted
<1>7. ASSUME NEW p \in Caller, Demote(p) PROVE rows'[m] \in Live \/ m \in demoted'
  <2>1. PICK n \in call[p].todo : \/ rows' = rows
                                  \/ demoted' = demoted \cup {n} /\ \E s \in State : rows' = WithState(n, s)
    BY <1>7 DEF Demote, State
  <2> QED
    BY <1>0, <2>1 DEF WithState
<1>8. ASSUME NEW p \in Caller, MergeSuppress(p) PROVE rows'[m] \in Live
  BY <1>0, <1>8 DEF MergeSuppress, WithState
<1>9. ASSUME NEW p \in Caller, Purge(p) PROVE rows'[m] \in Live \/ m \in demoted'
  <2>1. PICK old : rows' = [n \in Memory |-> IF n \in old THEN Absent ELSE rows[n]] /\ demoted' = demoted \cup old
    BY <1>9 DEF Purge
  <2> QED
    BY <1>0, <2>1
<1>10. ASSUME NEW p \in Caller, \/ Remember(p) \/ Forget(p) \/ Recall(p) \/ BeginStage(p) \/ LockDedup(p) \/ CheckNeighbours(p)
                                \/ InsertVector(p) \/ ForgetVector(p) \/ ReturnWhenDone(p)
                                \/ GetRecalled(p) \/ MergeNext(p) \/ MergeCompare(p)
       PROVE  rows' = rows
  BY <1>10 DEF Remember, Forget, Recall, BeginStage, LockDedup, CheckNeighbours, InsertVector, ForgetVector,
               ReturnWhenDone, GetRecalled, MergeNext, MergeCompare, store
<1>11. Crash \/ UNCHANGED vars => rows' = rows
  BY DEF Crash, vars, store
<1> QED
  BY <1>1, <1>2, <1>3, <1>4, <1>5, <1>6, <1>7, <1>8, <1>9, <1>10, <1>11 DEF Next, CallStep

\* History names only memories that were written.
LEMMA HistoryKnownStep ==
  ASSUME TypeOK, ControlInv, BirthInv, MergeInv, [Next]_vars
  PROVE  HistoryKnown'
<1>0. Known \subseteq Known' /\ mergedAway \cup demoted \cup stale \subseteq Known
  BY KnownStep DEF MergeInv, HistoryKnown
<1> SUFFICES mergedAway' \cup demoted' \cup stale' \subseteq Known
  BY <1>0 DEF HistoryKnown
<1>1. ASSUME NEW p \in Caller, ForgetSoftly(p) \/ ForgetRow(p) PROVE mergedAway' \cup demoted' \cup stale' \subseteq Known
  <2>1. \E n \in call[p].todo : demoted' = demoted \cup {n}
    BY <1>1 DEF ForgetSoftly, ForgetRow
  <2>2. UNCHANGED <<mergedAway, stale>>
    BY <1>1 DEF ForgetSoftly, ForgetRow
  <2> QED
    BY <1>0, <2>1, <2>2, TodoKnown
<1>2. ASSUME NEW p \in Caller, Reconsolidate(p) PROVE mergedAway' \cup demoted' \cup stale' \subseteq Known
  <2>1. call[p].mem \in Known
    BY <1>2 DEF Reconsolidate, ControlInv, BirthInv, Unborn, Known, Absent, State, Live
  <2> QED
    BY <1>0, <1>2, <2>1 DEF Reconsolidate, Overwrites
<1>3. ASSUME NEW p \in Caller, Decay(p) PROVE mergedAway' \cup demoted' \cup stale' \subseteq Known
  <2>1. \E n \in call[p].todo : demoted' \subseteq demoted \cup {n} /\ stale' \subseteq stale \cup {n}
    BY <1>3 DEF Decay, Overwrites
  <2>2. UNCHANGED mergedAway
    BY <1>3 DEF Decay
  <2> QED
    BY <1>0, <2>1, <2>2, TodoKnown
<1>4. ASSUME NEW p \in Caller, Demote(p) PROVE mergedAway' \cup demoted' \cup stale' \subseteq Known
  <2>1. \E n \in call[p].todo : demoted' \subseteq demoted \cup {n} /\ stale' \subseteq stale \cup {n}
    BY <1>4 DEF Demote, Overwrites
  <2>2. UNCHANGED mergedAway
    BY <1>4 DEF Demote
  <2> QED
    BY <1>0, <2>1, <2>2, TodoKnown
<1>5. ASSUME NEW p \in Caller, MergeSuppress(p) PROVE mergedAway' \cup demoted' \cup stale' \subseteq Known
  <2>1. call[p].loser \in Known
    BY <1>5 DEF MergeSuppress, At, MergeInv, Merging
  <2> QED
    BY <1>0, <1>5, <2>1 DEF MergeSuppress
<1>6. ASSUME NEW p \in Caller, Purge(p) PROVE mergedAway' \cup demoted' \cup stale' \subseteq Known
  <2>1. PICK s \in {"faded", "suppressed"} : \E old \in SUBSET {m \in Memory : rows[m] = s} : demoted' = demoted \cup old
    BY <1>6 DEF Purge
  <2>2. {m \in Memory : rows[m] = s} \subseteq Known
    BY TodoKnown, <1>6 DEF Exists, Absent
  <2> QED
    BY <1>0, <1>6, <2>1, <2>2 DEF Purge
<1>7. ASSUME NEW p \in Caller, \/ Remember(p) \/ Forget(p) \/ Recall(p) \/ BeginStage(p) \/ LockDedup(p) \/ CheckNeighbours(p)
                               \/ InsertRow(p) \/ InsertVector(p) \/ ForgetVector(p) \/ ReturnWhenDone(p)
                               \/ MarkAccessed(p) \/ GetRecalled(p) \/ MergeNext(p) \/ MergeCompare(p)
      PROVE  UNCHANGED <<mergedAway, demoted, stale>>
  BY <1>7 DEF Remember, Forget, Recall, BeginStage, LockDedup, CheckNeighbours, InsertRow, InsertVector, ForgetVector,
              ReturnWhenDone, MarkAccessed, GetRecalled, MergeNext, MergeCompare, history
<1>8. Crash \/ UNCHANGED vars => UNCHANGED <<mergedAway, demoted, stale>>
  BY DEF Crash, vars, history
<1> QED
  BY <1>0, <1>1, <1>2, <1>3, <1>4, <1>5, <1>6, <1>7, <1>8 DEF Next, CallStep

\* Where a merge under way comes from.
LEMMA MergeOrigin ==
  ASSUME TypeOK, ControlInv, [Next]_vars, NEW p \in Caller, call'[p].op = "merge"
  PROVE  BeginStage(p) \/ MergeNext(p) \/ MergeCompare(p) \/ MergeSuppress(p) \/ call'[p] = call[p]
<1>1. ASSUME NEW q \in Caller, q # p, CallStep(q) \/ Remember(q) \/ Forget(q) \/ Recall(q) \/ BeginStage(q)
      PROVE  call'[p] = call[p]
  BY <1>1, CallSteps DEF Elsewhere
<1>2. ~Remember(p) /\ ~Forget(p) /\ ~Recall(p)
  <2>1. ~Remember(p)
    BY RememberEnters DEF Enters
  <2>2. Forget(p) => call'[p].op = "forget"
    BY IdleFields DEF Forget, Local, TypeOK, Idle
  <2>3. Recall(p) => call'[p].op = "recall"
    BY IdleFields DEF Recall, Local, TypeOK, Idle
  <2> QED
    BY <2>1, <2>2, <2>3
<1>3. ~(LockDedup(p) \/ CheckNeighbours(p) \/ InsertRow(p) \/ InsertVector(p))
  <2>1. LockDedup(p) => call[p].op = "remember"
    BY DEF LockDedup, At
  <2> QED
    BY RememberMoves, IdleFields DEF Enters, Returns, KeepsLocals
<1>4. ~(ForgetSoftly(p) \/ ForgetRow(p) \/ ForgetVector(p))
  <2>1. ForgetSoftly(p) \/ ForgetRow(p) \/ ForgetVector(p) => call[p].op = "forget"
    BY DEF ForgetSoftly, ForgetRow, ForgetVector, At
  <2> QED
    BY <2>1, ForgetMoves DEF Works
<1>5. ~(MarkAccessed(p) \/ GetRecalled(p) \/ Reconsolidate(p))
  BY RecallMoves DEF Enters
<1>6. ~ReturnWhenDone(p)
  BY ReturnReturns, IdleFields DEF ReturnWhenDone, Returns
<1>7. ~Decay(p) /\ ~Demote(p)
  <2>1. Decay(p) \/ Demote(p) => call[p].op # "merge"
    BY DEF Decay, Demote, At
  <2> QED
    BY <2>1, StageMoves DEF Works
<1>8. ~Crash
  BY CrashForgets, IdleFields
<1>9. \A q \in Caller : Purge(q) => call'[p] = call[p]
  BY DEF Purge
<1>10. UNCHANGED vars => call'[p] = call[p]
  BY DEF vars
<1> QED
  BY <1>1, <1>2, <1>3, <1>4, <1>5, <1>6, <1>7, <1>8, <1>9, <1>10 DEF Next, CallStep

\* A step is of one merge.
LEMMA OneMerge ==
  ASSUME TypeOK, NEW p \in Caller, NEW q \in Caller, MergeSuppress(p), MergeSuppress(q)
  PROVE  p = q
<1>1. call \in [Caller -> CallRecord] /\ call[p] \in CallRecord
  BY Fields DEF TypeOK
<1>2. call'[p].step # "suppress" /\ call[p].step = "suppress"
  BY <1>1 DEF MergeSuppress, At, Local, CallRecord
<1>3. \A r \in Caller : r # q => call'[r] = call[r]
  BY <1>1 DEF MergeSuppress, Local
<1> QED
  BY <1>2, <1>3

\* A merge takes away its loser only.
LEMMA LoserGoes ==
  ASSUME TypeOK, ControlInv, [Next]_vars, NEW p \in Caller, MergeSuppress(p),
         NEW m \in Memory, m # call[p].loser, Remains(m)
  PROVE  Remains(m)'
BY OneMerge, RemainsStep

\* What a merge counts on remains, unless it takes it away itself.
LEMMA CountedRemains ==
  ASSUME TypeOK, ControlInv, [Next]_vars, NEW p \in Caller, ~MergeSuppress(p),
         NEW m \in Memory, CountsOn(p, m), Remains(m)
  PROVE  Remains(m)'
<1>1. CASE \E q \in Caller : MergeSuppress(q) /\ call[q].loser = m
  <2>1. m \in demoted'
    BY <1>1 DEF MergeSuppress
  <2> QED
    BY <2>1 DEF Remains
<1> QED
  BY <1>1, RemainsStep

\* Every step keeps what a merge under way relies on.
LEMMA MergingStep ==
  ASSUME TypeOK, ControlInv, BirthInv, MergeInv, [Next]_vars, NEW p \in Caller
  PROVE  Merging(p)'
<1> SUFFICES ASSUME call'[p].op = "merge"
             PROVE  Merging(p)'
  BY DEF Merging
<1>0. /\ Merging(p) /\ call \in [Caller -> CallRecord] /\ call[p] \in CallRecord
      /\ Known \subseteq Memory /\ Known \subseteq Known' /\ vectors \subseteq Known /\ call[p].todo \subseteq Known
      /\ \A m, n \in Known : Same(m, n) => Same(m, n)'
  BY Fields, KnownStep, TodoKnown DEF MergeInv, TypeOK, Known
<1>1. CASE BeginStage(p)
  <2>1. PICK stage \in Stages : Local(p, [Idle EXCEPT !.op = stage, !.step = "next", !.todo = LiveRows, !.copies = rows])
    BY <1>1 DEF BeginStage
  <2>2. /\ call'[p].todo = LiveRows /\ call'[p].step = "next" /\ call'[p].others = {}
        /\ rows' = rows
    BY <1>0, <1>1, <2>1 DEF Local, Idle, BeginStage, store
  <2>3. \A m \in LiveRows : Remains(m)'
    BY <2>2 DEF LiveRows, Remains, IsLive
  <2> QED
    BY <2>2, <2>3 DEF Merging
<1>2. CASE call'[p] = call[p]
  <2>1. ~MergeSuppress(p)
    <3>1. MergeSuppress(p) => call'[p].step \in {"next", "compare"} /\ call[p].step = "suppress"
      BY <1>0 DEF MergeSuppress, At, Local, CallRecord
    <3> QED
      BY <1>2, <3>1
  <2>2. \A m \in Memory : CountsOn(p, m) /\ Remains(m) => Remains(m)'
    BY <2>1, CountedRemains
  <2>3. call[p].op = "merge"
    BY <1>2
  <2>4. \A m \in Unseen(p) : Remains(m)'
    BY <1>0, <2>2, <2>3 DEF Merging, CountsOn, Unseen
  <2>5. \A m \in Known : call[p].step # "next" /\ Same(call[p].mem, m) /\ Remains(m) => Remains(m)'
    BY <1>0, <2>2, <2>3 DEF CountsOn
  <2>6. \A n \in call[p].others : {n, call[p].mem} \subseteq Known' /\ n # call[p].mem /\ Same(call[p].mem, n)'
    BY <1>0, <1>2 DEF Merging
  <2>7. ASSUME call[p].step = "suppress" PROVE \E w \in Known' : w # call[p].loser /\ Same(call[p].loser, w)' /\ Remains(w)'
    <3>1. PICK w \in Known : w # call[p].loser /\ Same(call[p].loser, w) /\ Remains(w)
      BY <1>0, <2>7, <2>3 DEF Merging
    <3>2. Same(call[p].mem, w) /\ call[p].loser \in Known
      BY <1>0, <2>7, <2>3, <3>1 DEF Merging, Same
    <3>3. says'[call[p].loser] = says'[w]
      BY <1>0, <3>1, <3>2 DEF Same
    <3>4. Remains(w)' /\ w \in Known'
      BY <1>0, <2>7, <2>5, <3>1, <3>2
    <3> QED
      BY <1>2, <3>1, <3>3, <3>4 DEF Same
  <2>8. ASSUME call[p].step \in {"compare", "suppress"}, Remains(call[p].mem) PROVE Remains(call[p].mem)'
    <3>1. call[p].mem \in Known /\ Same(call[p].mem, call[p].mem)
      BY <1>0, <2>3, <2>8 DEF Merging, Same
    <3>2. \A m \in Known : m = call[p].mem => Remains(m)'
      BY <2>5, <2>8, <3>1
    <3> QED
      BY <1>2, <3>1, <3>2 DEF Remains, IsLive
  <2>9. call[p].step = "suppress" => Same(call[p].mem, call[p].loser)'
    <3>1. call[p].step = "suppress" => /\ call[p].mem \in Known /\ call[p].loser \in Known
                                       /\ Same(call[p].mem, call[p].loser)
      BY <1>0, <2>3 DEF Merging
    <3>2. call[p].step = "suppress" => says'[call[p].mem] = says'[call[p].loser]
      BY <1>0, <3>1 DEF Same
    <3> QED
      BY <1>2, <3>2 DEF Same
  <2> QED
    BY <1>0, <1>2, <2>6, <2>7, <2>3, <2>4, <2>8, <2>9 DEF Merging, Same, Remains, IsLive, Unseen
<1>3. CASE MergeNext(p)
  <2>0. call[p].op = "merge" /\ UNCHANGED <<rows, demoted, stale>>
    BY <1>3 DEF MergeNext, At, store, history
  <2>1. \A m \in Memory : Remains(m) => Remains(m)'
    BY <2>0 DEF Remains, IsLive
  <2>2. ASSUME NEW m \in Unseen(p),
               Local(p, [call[p] EXCEPT !.todo = @ \ {m}, !.mem = m, !.step = "compare",
                                        !.others = {n \in vectors \ {m} : Same(m, n)}])
        PROVE  Merging(p)'
    <3>1. /\ call'[p].todo = call[p].todo \ {m} /\ call'[p].mem = m /\ call'[p].step = "compare"
          /\ call'[p].others = {n \in vectors \ {m} : Same(m, n)} /\ call'[p].seen = call[p].seen
      BY <1>0, <2>2 DEF Local, CallRecord
    <3>2. m \in call[p].todo /\ m \notin call[p].seen /\ Remains(m) /\ m \in Known
      BY <1>0, <2>0 DEF Unseen, Merging
    <3> QED
      BY <1>0, <2>0, <2>1, <3>1, <3>2 DEF Merging
  <2>3. ASSUME Local(p, [call[p] EXCEPT !.todo = {}])
        PROVE  Merging(p)'
    <3>1. /\ call'[p].todo = {} /\ call'[p].mem = call[p].mem /\ call'[p].step = "next"
          /\ call'[p].others = call[p].others /\ call'[p].seen = call[p].seen
      BY <1>0, <1>3, <2>3 DEF Local, CallRecord, MergeNext, At
    <3> QED
      BY <1>0, <2>0, <3>1 DEF Merging
  <2> QED
    BY <1>3, <2>2, <2>3 DEF MergeNext
<1>4. CASE MergeCompare(p)
  <2>0. /\ call[p].op = "merge" /\ call[p].step = "compare" /\ UNCHANGED <<rows, demoted, stale>>
        /\ call[p].mem \in Known /\ call[p].mem \notin call[p].seen /\ Remains(call[p].mem)
    BY <1>0, <1>4 DEF MergeCompare, At, store, history, Merging
  <2>1. \A m \in Memory : Remains(m) => Remains(m)'
    BY <2>0 DEF Remains, IsLive
  <2>2. ASSUME NEW n \in call[p].others, Local(p, [call[p] EXCEPT !.others = @ \ {n}])
        PROVE  Merging(p)'
    <3>1. /\ call'[p].todo = call[p].todo /\ call'[p].mem = call[p].mem /\ call'[p].step = "compare"
          /\ call'[p].others = call[p].others \ {n} /\ call'[p].seen = call[p].seen
      BY <1>0, <2>0, <2>2 DEF Local, CallRecord
    <3> QED
      BY <1>0, <2>0, <2>1, <3>1 DEF Merging
  <2>3. ASSUME NEW n \in call[p].others, n \notin call[p].seen, IsLive(n), NEW loser \in {n, call[p].mem},
               Local(p, [call[p] EXCEPT !.others = @ \ {n}, !.seen = @ \cup {loser}, !.loser = loser, !.step = "suppress"])
        PROVE  Merging(p)'
    <3>1. /\ call'[p].todo = call[p].todo /\ call'[p].mem = call[p].mem /\ call'[p].step = "suppress"
          /\ call'[p].others = call[p].others \ {n} /\ call'[p].seen = call[p].seen \cup {loser} /\ call'[p].loser = loser
      BY <1>0, <2>0, <2>3 DEF Local, CallRecord
    <3>2. n \in Known /\ n # call[p].mem /\ Same(call[p].mem, n) /\ Same(n, call[p].mem) /\ Remains(n)
      BY <1>0, <2>0, <2>3 DEF Merging, Same, Remains
    <3>3. says'[call[p].mem] = says'[loser]
      BY <1>0, <2>0, <2>3, <3>2 DEF Same
    <3>4. \E w \in Known' : w # loser /\ Same(loser, w)' /\ Remains(w)'
      BY <1>0, <2>0, <2>1, <2>3, <3>2
    <3> QED
      BY <1>0, <2>0, <2>1, <2>3, <3>1, <3>2, <3>4, <3>3 DEF Merging, Same
  <2>4. ASSUME Goto(p, "next")
        PROVE  Merging(p)'
    <3>1. /\ call'[p].todo = call[p].todo /\ call'[p].mem = call[p].mem /\ call'[p].step = "next"
          /\ call'[p].others = call[p].others /\ call'[p].seen = call[p].seen
      BY <1>0, <2>4 DEF Goto, CallRecord
    <3> QED
      BY <1>0, <2>0, <2>1, <3>1 DEF Merging
  <2> QED
    BY <1>4, <2>2, <2>3, <2>4 DEF MergeCompare
<1>5. CASE MergeSuppress(p)
  <2>1. /\ call[p].op = "merge" /\ call[p].step = "suppress"
        /\ call'[p].todo = call[p].todo /\ call'[p].mem = call[p].mem
        /\ call'[p].step = (IF call[p].loser = call[p].mem THEN "next" ELSE "compare")
        /\ call'[p].others = call[p].others /\ call'[p].seen = call[p].seen
    BY <1>0, <1>5 DEF MergeSuppress, At, Local, CallRecord
  <2>2. \A m \in Memory : m # call[p].loser /\ Remains(m) => Remains(m)'
    BY <1>5, LoserGoes
  <2> QED
    BY <1>0, <2>1, <2>2 DEF Merging
<1> QED
  BY <1>1, <1>2, <1>3, <1>4, <1>5, MergeOrigin

\* Every step leaves a memory to each that merging took.
LEMMA KeepsStep ==
  ASSUME TypeOK, ControlInv, BirthInv, MergeInv, [Next]_vars
  PROVE  MergeKeepsOne'
<1>0. /\ Known \subseteq Memory /\ Known \subseteq Known' /\ mergedAway \subseteq Known
      /\ \A m, n \in Known : Same(m, n) => Same(m, n)'
      /\ \A m \in Memory : Remains(m) => m \in Known
  <2>1. \A m \in Memory : IsLive(m) => Exists(m)
    BY DEF IsLive, Exists, Live, Absent
  <2>2. \A m \in Memory : Exists(m) => m \in Known
    BY DEF TypeOK, Known
  <2> QED
    BY <2>1, <2>2, KnownStep DEF MergeInv, HistoryKnown, Remains, Known
<1>1. CASE \E p \in Caller : MergeSuppress(p)
  <2> PICK p \in Caller : MergeSuppress(p)
    BY <1>1
  <2>1. call[p].op = "merge" /\ Merging(p) /\ call[p].step = "suppress" /\ mergedAway' = mergedAway \cup {call[p].loser}
    BY DEF MergeSuppress, At, MergeInv
  <2>2. \A m \in Memory : m # call[p].loser /\ Remains(m) => Remains(m)'
    BY LoserGoes
  <2>3. PICK w \in Known : w # call[p].loser /\ Same(call[p].loser, w) /\ Remains(w)
    BY <2>1 DEF Merging
  <2>4. call[p].loser \in Known
    BY <2>1 DEF Merging
  <2>5. ASSUME NEW m \in mergedAway'
        PROVE  \E n \in Known : Same(m, n) /\ n # call[p].loser /\ Remains(n)
    <3>1. CASE m = call[p].loser
      BY <2>3, <3>1
    <3>2. CASE m \in mergedAway
      <4>1. PICK n \in Memory : Same(m, n) /\ Remains(n)
        BY <3>2 DEF MergeInv, MergeKeepsOne
      <4> QED
        BY <1>0, <2>3, <4>1 DEF Same
    <3> QED
      BY <2>1, <3>1, <3>2
  <2>6. mergedAway' \subseteq Known
    BY <1>0, <2>1, <2>4
  <2> QED
    BY <1>0, <2>2, <2>5, <2>6 DEF MergeKeepsOne
<1>2. CASE \A p \in Caller : ~MergeSuppress(p)
  <2>1. \A m \in Memory : Remains(m) => Remains(m)'
    BY <1>2, RemainsStep
  <2>2. mergedAway' = mergedAway
    <3>1. ASSUME NEW p \in Caller, CallStep(p), ~MergeSuppress(p) PROVE mergedAway' = mergedAway
      BY <3>1 DEF CallStep, LockDedup, CheckNeighbours, InsertRow, InsertVector, ForgetSoftly, ForgetRow, ForgetVector,
                  ReturnWhenDone, MarkAccessed, GetRecalled, Reconsolidate, Decay, Demote, MergeNext, MergeCompare, history
    <3>2. ASSUME NEW p \in Caller, Remember(p) \/ Forget(p) \/ Recall(p) \/ BeginStage(p) \/ Purge(p)
          PROVE  mergedAway' = mergedAway
      BY <3>2 DEF Remember, Forget, Recall, BeginStage, Purge, history
    <3>3. Crash \/ UNCHANGED vars => mergedAway' = mergedAway
      BY DEF Crash, vars, history
    <3> QED
      BY <1>2, <3>1, <3>2, <3>3 DEF Next
  <2> QED
    BY <1>0, <2>1, <2>2 DEF MergeInv, MergeKeepsOne
<1> QED
  BY <1>1, <1>2

\* Merging leaves one memory of each content, however many threads remember, recall,
\* forget and consolidate meanwhile: but for what another call took out or wrote back.
THEOREM MergingKeepsOne == Spec => []MergeKeepsOne
<1>1. Init => IInv /\ MergeInv
  <2>1. Init => MergeInv
    BY IdleFields DEF Init, MergeInv, HistoryKnown, MergeKeepsOne, Merging
  <2> QED
    BY <2>1, InitInv
<1>2. IInv /\ MergeInv /\ [Next]_vars => IInv' /\ MergeInv'
  <2>1. ASSUME IInv, MergeInv, [Next]_vars
        PROVE  MergeInv'
    BY <2>1, HistoryKnownStep, MergingStep, KeepsStep DEF IInv, MergeInv
  <2> QED
    BY <2>1, StepInv
<1>3. MergeInv => MergeKeepsOne
  BY DEF MergeInv
<1> QED
  BY <1>1, <1>2, <1>3, PTL DEF Spec
=============================================================================
