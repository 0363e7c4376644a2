-------------------------- MODULE BufferStoreProofs --------------------------
(***************************************************************************)
(* Proofs about BufferStore for any number of actors, events, rewrites and *)
(* faults.                                                                 *)
(***************************************************************************)
EXTENDS BufferStore, SequenceTheorems, TLAPS

Appending(p) == pc[p] \in {"append_lock", "append_open", "append_write"}

Present == InFile(Current) \cup dropped \cup redacted \cup acked

\* The lock is what its name says, and a label tells which lock an actor holds.
LockInv ==
    /\ \A p \in Proc : p \in shared <=> pc[p] \in {"append_open", "append_write"}
    /\ \A p \in Proc : p \in exclusive <=> pc[p] \in {"repair", "read", "replace", "clear"}
    /\ \A p, q \in exclusive : p = q
    /\ exclusive # {} => shared = {}

\* What a call under way knows stays true until it acts on it.
CallInv ==
    /\ \A p \in Proc : pc[p] = "append_write" => fd[p] = Len(files)
    /\ \A p \in Proc : pc[p] = "exclusive_lock" => job[p].op \in {"repair", "clear", "truncate", "redact"}
    /\ \A p \in Proc : pc[p] \in {"read", "replace"} => job[p].op \in {"truncate", "redact"}
    /\ \A p \in Proc : pc[p] = "replace" => chunks[p] = Rewritten(job[p], Current)
    /\ \A r \in Reader : scan[r].file \in 1 .. Len(files) /\ scan[r].next >= 1

\* An event being appended is nowhere yet, and no two calls append the same one.
FreshInv ==
    /\ Present \subseteq 1 .. created
    /\ \A p \in Proc : Appending(p) => job[p].arg \in 1 .. created /\ job[p].arg \notin Present
    /\ \A p, q \in Proc : Appending(p) /\ Appending(q) /\ job[p].arg = job[q].arg => p = q

\* Nobody was told that the event in an unterminated tail is there.
TailInv == Range(Current.tail) \cap acked = {}

IInv == TypeOK /\ LockInv /\ CallInv /\ FreshInv /\ TailInv /\ NoLostAppend /\ RewritesStick

-----------------------------------------------------------------------------
(***************************************************************************)
(* Files                                                                   *)
(***************************************************************************)
\* A torn tail holds at most one line, so it is a sequence of lines.
LEMMA TailType ==
  ASSUME NEW t \in Tails
  PROVE  t \in Seq(Line)
<1>1. CASE t = <<>>
  BY <1>1
<1>2. CASE t # <<>>
  <2>1. PICK e \in Line : t = <<e>>
    BY <1>2 DEF Tails
  <2> QED
    BY <2>1
<1> QED
  BY <1>1, <1>2

\* Concatenation neither loses nor invents a line.
LEMMA RangeConcat ==
  ASSUME NEW S, NEW s \in Seq(S), NEW t \in Seq(S)
  PROVE  s \o t \in Seq(S) /\ Range(s \o t) = Range(s) \cup Range(t)
<1>1. /\ s \o t \in Seq(S)
      /\ Len(s \o t) = Len(s) + Len(t)
      /\ \A i \in 1 .. Len(s) + Len(t) :
            (s \o t)[i] = IF i <= Len(s) THEN s[i] ELSE t[i - Len(s)]
  BY ConcatProperties
<1>2. Range(s \o t) \subseteq Range(s) \cup Range(t)
  BY <1>1 DEF Range
<1>3. Range(s) \subseteq Range(s \o t)
  BY <1>1 DEF Range
<1>4. Range(t) \subseteq Range(s \o t)
  <2> SUFFICES ASSUME NEW j \in DOMAIN t
               PROVE  t[j] \in Range(s \o t)
    BY DEF Range
  <2>1. Len(s) + j \in 1 .. Len(s) + Len(t) /\ (s \o t)[Len(s) + j] = t[j]
    BY <1>1
  <2> QED
    BY <1>1, <2>1 DEF Range
<1> QED
  BY <1>1, <1>2, <1>3, <1>4

\* Appending a line adds exactly that line.
LEMMA RangeAppend ==
  ASSUME NEW S, NEW s \in Seq(S), NEW e \in S
  PROVE  Append(s, e) \in Seq(S) /\ Range(Append(s, e)) = Range(s) \cup {e}
<1>1. /\ Append(s, e) \in Seq(S)
      /\ Len(Append(s, e)) = Len(s) + 1
      /\ \A i \in 1 .. Len(s) : Append(s, e)[i] = s[i]
      /\ Append(s, e)[Len(s) + 1] = e
  BY AppendProperties
<1>2. DOMAIN s = 1 .. Len(s) /\ DOMAIN Append(s, e) = 1 .. Len(s) + 1 /\ Len(s) \in Nat
  BY <1>1
<1>3. Range(s) \subseteq Range(Append(s, e)) /\ e \in Range(Append(s, e))
  BY <1>1, <1>2 DEF Range
<1>4. Range(Append(s, e)) \subseteq Range(s) \cup {e}
  BY <1>1, <1>2 DEF Range
<1> QED
  BY <1>1, <1>3, <1>4

\* What lies in a file after a whole line was written to it.
LEMMA WholeWriteFile ==
  ASSUME NEW f \in File, NEW e \in Event
  PROVE  /\ WholeWrite(f, e) \in File
         /\ WholeWrite(f, e).tail = <<>>
         /\ WholeWrite(f, e).deleted = f.deleted
         /\ InFile(WholeWrite(f, e)) \subseteq InFile(f) \cup {e}
         /\ InFile(f) \ Range(f.tail) \subseteq InFile(WholeWrite(f, e))
         /\ f.tail = <<>> => e \in InFile(WholeWrite(f, e))
<1> DEFINE l == IF f.tail = <<>> THEN e ELSE NoEvent
           g == WholeWrite(f, e)
<1>1. l \in Line /\ f.lines \in Seq(Line) /\ f.tail \in Tails /\ f.deleted \in SUBSET Event
  BY DEF File, Line
<1>2. g = [lines |-> Append(f.lines, l), tail |-> <<>>, deleted |-> f.deleted]
  BY DEF WholeWrite, File
<1>3. Append(f.lines, l) \in Seq(Line) /\ Range(Append(f.lines, l)) = Range(f.lines) \cup {l}
  BY <1>1, RangeAppend
<1>4. Range(<<>>) = {}
  BY DEF Range
<1>5. InFile(g) = (Range(f.lines) \cup {l}) \ {NoEvent}
  BY <1>2, <1>3, <1>4 DEF InFile
<1>6. g \in File
  BY <1>1, <1>2, <1>3 DEF File, Tails
<1>7. e # NoEvent
  BY DEF Event, NoEvent
<1> QED
  BY <1>2, <1>5, <1>6, <1>7 DEF InFile

\* What an interrupted write leaves: the file's own content, except that an
\* unterminated tail may be spoilt, and perhaps the event in a new tail.
LEMMA TornWriteFile ==
  ASSUME NEW f \in File, NEW e \in Event, NEW g \in TornWrites(f, e)
  PROVE  /\ g \in File
         /\ g.deleted = f.deleted
         /\ InFile(g) \subseteq InFile(f) \cup {e}
         /\ InFile(f) \ Range(f.tail) \subseteq InFile(g)
         /\ Range(g.tail) \subseteq Range(f.tail) \cup {e, NoEvent}
<1>1. f.lines \in Seq(Line) /\ f.tail \in Tails /\ f.deleted \in SUBSET Event
  BY DEF File
<1>2. PICK t \in {f.tail, <<NoEvent>>, <<e>>} :
         g = [lines |-> f.lines, tail |-> t, deleted |-> f.deleted]
  BY DEF TornWrites, File
<1>3. t \in Tails
  BY <1>1, <1>2 DEF Tails, Line
<1>4. Range(t) \subseteq Range(f.tail) \cup {e, NoEvent}
  BY <1>2 DEF Range
<1>5. g \in File
  BY <1>1, <1>2, <1>3 DEF File
<1> QED
  BY <1>2, <1>4, <1>5 DEF InFile

\* Terminating the tail changes nothing a reader can see.
LEMMA RepairedFile ==
  ASSUME NEW f \in File
  PROVE  /\ Repaired(f) \in File
         /\ Repaired(f).tail = <<>>
         /\ Repaired(f).deleted = f.deleted
         /\ InFile(Repaired(f)) = InFile(f)
<1>1. f.lines \in Seq(Line) /\ f.tail \in Seq(Line) /\ f.deleted \in SUBSET Event
  BY TailType DEF File
<1>2. Content(f) \in Seq(Line) /\ Range(Content(f)) = Range(f.lines) \cup Range(f.tail)
  BY <1>1, RangeConcat DEF Content
<1>3. Repaired(f) = [lines |-> Content(f), tail |-> <<>>, deleted |-> f.deleted]
  BY DEF Repaired, File
<1>4. Range(<<>>) = {}
  BY DEF Range
<1>5. Repaired(f) \in File
  BY <1>1, <1>2, <1>3 DEF File, Tails
<1> QED
  BY <1>2, <1>3, <1>4, <1>5 DEF InFile

\* Retention removes exactly the older events; redaction removes none, and
\* marks the tagged ones.  Neither forgets an earlier redaction.
LEMMA RewrittenFile ==
  ASSUME NEW f \in File, NEW j, j.op \in {"truncate", "redact"}, j.arg \in Nat
  PROVE  LET g == Rewritten(j, f) IN
         /\ g \in File
         /\ g.tail = <<>>
         /\ f.deleted \subseteq g.deleted
         /\ j.op = "truncate" => InFile(g) = {e \in InFile(f) : e >= j.arg}
         /\ j.op = "redact" => InFile(g) = InFile(f) /\ Tagged \cap InFile(f) \subseteq g.deleted
<1> DEFINE g == Rewritten(j, f)
           c == Content(f)
           w == Without(c, j.arg)
<1>1. f.lines \in Seq(Line) /\ f.tail \in Seq(Line) /\ f.deleted \in SUBSET Event
  BY TailType DEF File
<1>2. c \in Seq(Line) /\ Range(c) = Range(f.lines) \cup Range(f.tail)
  BY <1>1, RangeConcat DEF Content
<1>3. Range(<<>>) = {}
  BY DEF Range
<1>4. <<>> \in Tails
  BY DEF Tails
<1>5. CASE j.op = "truncate"
  <2>1. g = [lines |-> w, tail |-> <<>>, deleted |-> f.deleted]
    BY <1>5 DEF Rewritten, File
  <2>2. Len(c) \in Nat /\ DOMAIN c = 1 .. Len(c) /\ \A i \in 1 .. Len(c) : c[i] \in Line
    BY <1>2
  <2>3. w = [i \in 1 .. Len(c) |-> IF c[i] < j.arg THEN NoEvent ELSE c[i]]
    BY DEF Without
  <2>4. w \in Seq(Line) /\ DOMAIN w = 1 .. Len(c)
    BY <2>2, <2>3 DEF Line
  <2>5. \A e \in Event : e \in Range(w) <=> e \in Range(c) /\ e >= j.arg
    BY <2>2, <2>3, <2>4, BoundsAssumption DEF Range, Event, Line, NoEvent
  <2>6. Range(w) \subseteq Line /\ Range(c) \subseteq Line
    BY <2>2, <2>4 DEF Range
  <2>7. InFile(g) = {e \in InFile(f) : e >= j.arg}
    BY <1>2, <1>3, <2>1, <2>5, <2>6 DEF InFile, Line, Event, NoEvent
  <2>8. g \in File
    BY <1>1, <1>4, <2>1, <2>4 DEF File
  <2> QED
    BY <1>5, <2>1, <2>7, <2>8
<1>6. CASE j.op = "redact"
  <2>1. g = [lines |-> c, tail |-> <<>>, deleted |-> f.deleted \cup (Tagged \cap InFile(f))]
    BY <1>6 DEF Rewritten, File
  <2>2. InFile(g) = InFile(f)
    BY <1>2, <1>3, <2>1 DEF InFile
  <2>3. g \in File
    BY <1>1, <1>2, <1>4, <2>1, TaggedAssumption DEF File
  <2> QED
    BY <1>6, <2>1, <2>2, <2>3
<1> QED
  BY <1>5, <1>6

-----------------------------------------------------------------------------
(***************************************************************************)
(* The sequence of inodes                                                  *)
(***************************************************************************)
\* The current file is one of the inodes.
LEMMA CurrentType ==
  ASSUME TypeOK
  PROVE  Len(files) \in Nat \ {0} /\ Current \in File /\ InFile(Current) \subseteq Event
<1>1. files \in Seq(File) /\ files # <<>>
  BY DEF TypeOK
<1>2. Len(files) \in Nat \ {0} /\ Len(files) \in 1 .. Len(files)
  BY <1>1
<1>3. Current \in File
  BY <1>1, <1>2 DEF Current
<1>4. Range(Current.lines) \subseteq Line
  BY <1>3 DEF File, Range
<1>5. Range(Current.tail) \subseteq Line
  <2>1. Current.tail \in Seq(Line)
    BY <1>3, TailType DEF File
  <2> QED
    BY <2>1 DEF Range
<1> QED
  BY <1>2, <1>3, <1>4, <1>5 DEF InFile, Line

\* Writing to the current inode.
LEMMA UpdateCurrent ==
  ASSUME TypeOK, NEW g \in File, files' = [files EXCEPT ![Len(files)] = g]
  PROVE  files' \in Seq(File) /\ files' # <<>> /\ Len(files') = Len(files) /\ Current' = g
<1>1. files \in Seq(File) /\ Len(files) \in Nat \ {0}
  BY CurrentType DEF TypeOK
<1>2. files' \in Seq(File) /\ Len(files') = Len(files) /\ files'[Len(files)] = g
  BY <1>1
<1> QED
  BY <1>1, <1>2 DEF Current

\* Publishing a new inode.
LEMMA PublishCurrent ==
  ASSUME TypeOK, NEW g \in File, files' = Append(files, g)
  PROVE  files' \in Seq(File) /\ files' # <<>> /\ Current' = g
<1>1. files \in Seq(File) /\ Len(files) \in Nat \ {0}
  BY CurrentType DEF TypeOK
<1>2. files' \in Seq(File) /\ Len(files') = Len(files) + 1 /\ files'[Len(files) + 1] = g
  BY <1>1
<1> QED
  BY <1>1, <1>2 DEF Current

\* A new log holds nothing.
LEMMA EmptyFileType == EmptyFile \in File /\ InFile(EmptyFile) = {} /\ EmptyFile.tail = <<>>
BY DEF EmptyFile, File, Tails, InFile, Range

-----------------------------------------------------------------------------
(***************************************************************************)
(* Leaving a call                                                          *)
(***************************************************************************)
\* Leaving a call keeps the types of the control state.
LEMMA LeaveType ==
  ASSUME TypeOK, NEW p \in Proc, NEW label \in {"idle", "down"}, Leave(p, label)
  PROVE  /\ shared' \subseteq Proc /\ exclusive' \subseteq Proc
         /\ pc' \in [Proc -> Label]
         /\ job' \in [Proc -> [op : {"none", "append", "repair", "truncate", "redact", "clear"},
                               arg : 0 .. MaxEvents + 1]]
         /\ fd' \in [Proc -> Nat]
         /\ chunks' \in [Proc -> File]
<1>1. Idle \in [op : {"none", "append", "repair", "truncate", "redact", "clear"},
                arg : 0 .. MaxEvents + 1]
  BY BoundsAssumption DEF Idle, NoEvent
<1> QED
  BY <1>1, EmptyFileType DEF TypeOK, Leave, Goto, Release, Label

\* Leaving a call gives its lock back and disturbs no other.
LEMMA LeaveLock ==
  ASSUME TypeOK, LockInv, NEW p \in Proc, NEW label \in {"idle", "down"}, Leave(p, label)
  PROVE  LockInv'
BY DEF TypeOK, LockInv, Leave, Goto, Release

\* Everyone else's call is where it was, and p appends nothing any more.
LEMMA LeaveOthers ==
  ASSUME TypeOK, NEW p \in Proc, NEW label \in {"idle", "down"}, Leave(p, label)
  PROVE  /\ pc'[p] = label
         /\ \A q \in Proc \ {p} : /\ pc'[q] = pc[q] /\ job'[q] = job[q]
                                  /\ fd'[q] = fd[q] /\ chunks'[q] = chunks[q]
         /\ \A q \in Proc : Appending(q)' => Appending(q) /\ q # p
BY DEF TypeOK, Leave, Goto, Appending

\* An exclusive holder is alone: nobody writes and nobody else rewrites.
LEMMA ExclusiveAlone ==
  ASSUME LockInv, NEW p \in Proc, pc[p] \in {"repair", "read", "replace", "clear"}
  PROVE  \A q \in Proc \ {p} : pc[q] \notin {"append_open", "append_write",
                                             "repair", "read", "replace", "clear"}
BY DEF LockInv

\* While somebody writes, nobody rewrites.
LEMMA WriterExcludesRewriters ==
  ASSUME LockInv, NEW p \in Proc, pc[p] = "append_write"
  PROVE  \A q \in Proc : pc[q] \notin {"repair", "read", "replace", "clear"}
BY DEF LockInv

-----------------------------------------------------------------------------
(***************************************************************************)
(* Steps that leave the file and the history alone                         *)
(***************************************************************************)
Quiet == UNCHANGED <<files, history>>

\* A step that touches neither a file nor a lock keeps the invariant.
LEMMA QuietStep ==
  ASSUME IInv, Quiet
  PROVE  TailInv' /\ NoLostAppend' /\ RewritesStick' /\ Current' = Current
         /\ Present' = Present
<1>1. Current' = Current
  BY DEF Quiet, Current
<1> QED
  BY <1>1 DEF IInv, Quiet, history, TailInv, NoLostAppend, RewritesStick, Present, InFile

\* A step of p that writes no file, and moves p to a label it may be at, keeps what
\* the calls under way know.
LEMMA CallStepQuiet ==
  ASSUME IInv, Quiet, UNCHANGED scan, NEW p \in Proc,
         \A q \in Proc \ {p} : /\ pc'[q] = pc[q] /\ job'[q] = job[q]
                               /\ fd'[q] = fd[q] /\ chunks'[q] = chunks[q],
         pc'[p] \notin {"append_write", "replace"},
         pc'[p] = "exclusive_lock" => job'[p].op \in {"repair", "clear", "truncate", "redact"},
         pc'[p] = "read" => job'[p].op \in {"truncate", "redact"}
  PROVE  CallInv'
<1>1. files' = files /\ Current' = Current /\ scan' = scan
  BY QuietStep DEF Quiet
<1>2. CallInv
  BY DEF IInv
<1>3. \A q \in Proc : (pc[q] = "append_write" => fd[q] = Len(files))'
  BY <1>1, <1>2 DEF CallInv
<1>4. \A q \in Proc : (pc[q] = "exclusive_lock" => job[q].op \in {"repair", "clear", "truncate", "redact"})'
  BY <1>2 DEF CallInv
<1>5. \A q \in Proc : (pc[q] \in {"read", "replace"} => job[q].op \in {"truncate", "redact"})'
  BY <1>2 DEF CallInv
<1>6. \A q \in Proc : (pc[q] = "replace" => chunks[q] = Rewritten(job[q], Current))'
  <2> SUFFICES ASSUME NEW q \in Proc, (pc[q] = "replace")'
               PROVE  (chunks[q] = Rewritten(job[q], Current))'
    OBVIOUS
  <2>1. q # p /\ pc[q] = "replace" /\ job'[q] = job[q] /\ chunks'[q] = chunks[q]
    OBVIOUS
  <2>2. chunks[q] = Rewritten(job[q], Current)
    BY <1>2, <2>1 DEF CallInv
  <2> QED
    BY <1>1, <2>1, <2>2 DEF Rewritten
<1>7. \A r \in Reader : (scan[r].file \in 1 .. Len(files) /\ scan[r].next >= 1)'
  BY <1>1, <1>2 DEF CallInv
<1> QED
  BY <1>3, <1>4, <1>5, <1>6, <1>7 DEF CallInv

\* Leaving a call quietly preserves the invariant.
LEMMA QuietLeave ==
  ASSUME IInv, Quiet, NEW p \in Proc, NEW label \in {"idle", "down"}, Leave(p, label),
         created' = created, rewrites' = rewrites, faults' \in 0 .. MaxFaults, scan' = scan
  PROVE  IInv'
<1>1. TypeOK'
  BY LeaveType DEF IInv, TypeOK, Quiet, history
<1>2. LockInv'
  BY LeaveLock DEF IInv
<1>3. CallInv'
  BY LeaveOthers, CallStepQuiet DEF IInv
<1>4. FreshInv'
  BY QuietStep, LeaveOthers DEF IInv, FreshInv
<1> QED
  BY <1>1, <1>2, <1>3, <1>4, QuietStep DEF IInv

\* append (buffer.py:109) starts: its event is nowhere in the log yet.
LEMMA BeginAppendStep ==
  ASSUME IInv, NEW p \in Proc, BeginAppend(p)
  PROVE  IInv'
<1> DEFINE e == created + 1
<1>1. Quiet /\ created' = e /\ e \in Event /\ pc[p] = "idle"
  BY BoundsAssumption DEF BeginAppend, Quiet, Event, IInv, TypeOK
<1>2. TypeOK'
  BY <1>1, BoundsAssumption
  DEF IInv, TypeOK, BeginAppend, Goto, locks, history, Label, Event
<1>3. LockInv'
  BY DEF IInv, TypeOK, LockInv, BeginAppend, Goto, locks
<1>4. CallInv'
  <2>1. pc'[p] = "append_lock" /\ UNCHANGED <<fd, chunks, scan>>
    BY DEF BeginAppend, Goto, IInv, TypeOK
  <2>2. \A q \in Proc \ {p} : pc'[q] = pc[q] /\ job'[q] = job[q]
    BY DEF BeginAppend, Goto, IInv, TypeOK
  <2> QED
    BY <1>1, <2>1, <2>2, CallStepQuiet
<1>5. FreshInv'
  <2>1. Present' \subseteq 1 .. created'
    <3>1. created \in Nat /\ Present \subseteq 1 .. created
      BY BoundsAssumption DEF IInv, FreshInv, TypeOK
    <3>2. 1 .. created \subseteq 1 .. e
      BY <3>1
    <3> QED
      BY <1>1, <3>1, <3>2, QuietStep
  <2>2. /\ job'[p].arg = e
        /\ \A q \in Proc \ {p} : job'[q] = job[q]
        /\ \A q \in Proc \ {p} : Appending(q)' <=> Appending(q)
    BY DEF BeginAppend, Goto, Appending, IInv, TypeOK
  <2>3. e \notin Present /\ e \notin 1 .. created
    BY <1>1 DEF IInv, FreshInv, TypeOK
  <2>4. ASSUME NEW q \in Proc
        PROVE  Appending(q)' => job'[q].arg \in 1 .. created' /\ job'[q].arg \notin Present'
    <3>1. created \in Nat /\ Present' = Present /\ created' = created + 1
      BY <1>1, BoundsAssumption, QuietStep DEF IInv, TypeOK
    <3>2. CASE q = p
      BY <2>2, <2>3, <3>1, <3>2
    <3>3. CASE q # p
      <4>1. Appending(q)' => job'[q].arg \in 1 .. created /\ job'[q].arg \notin Present
        BY <2>2, <3>3 DEF IInv, FreshInv
      <4>2. 1 .. created \subseteq 1 .. created'
        BY <3>1
      <4> QED
        BY <3>1, <4>1, <4>2
    <3> QED
      BY <3>2, <3>3
  <2>5. \A q, r \in Proc : Appending(q)' /\ Appending(r)' /\ job'[q].arg = job'[r].arg => q = r
    BY <1>1, <2>2, <2>3 DEF IInv, FreshInv
  <2> QED
    BY <2>1, <2>4, <2>5 DEF FreshInv
<1> QED
  BY <1>1, <1>2, <1>3, <1>4, <1>5, QuietStep DEF IInv

\* append takes the shared lock: nobody rewrites then.
LEMMA LockSharedStep ==
  ASSUME IInv, NEW p \in Proc, LockShared(p)
  PROVE  IInv'
<1>1. Quiet /\ UNCHANGED <<job, created>>
  BY DEF LockShared, Quiet
<1>2. TypeOK'
  BY DEF IInv, TypeOK, LockShared, Goto, history, Label
<1>3. LockInv'
  BY DEF IInv, TypeOK, LockInv, LockShared, CanShare, Goto
<1>4. CallInv'
  BY <1>1, QuietStep DEF IInv, TypeOK, CallInv, LockShared, Goto, Quiet, Rewritten, Content, InFile
<1>5. \A q \in Proc : Appending(q)' <=> Appending(q)
  BY DEF LockShared, Goto, Appending, IInv, TypeOK
<1>6. FreshInv'
  BY <1>1, <1>5, QuietStep DEF IInv, FreshInv
<1> QED
  BY <1>1, <1>2, <1>3, <1>4, <1>6, QuietStep DEF IInv

\* append opens the path under the shared lock: it gets the current inode.
LEMMA OpenForAppendStep ==
  ASSUME IInv, NEW p \in Proc, OpenForAppend(p)
  PROVE  IInv'
<1>1. Quiet /\ UNCHANGED <<job, created>>
  BY DEF OpenForAppend, Quiet
<1>2. TypeOK'
  BY CurrentType DEF IInv, TypeOK, OpenForAppend, Goto, history, locks, Label
<1>3. LockInv'
  BY DEF IInv, TypeOK, LockInv, OpenForAppend, Goto, locks
<1>4. CallInv'
  BY <1>1, QuietStep DEF IInv, TypeOK, CallInv, OpenForAppend, Goto, Quiet, Rewritten, Content, InFile
<1>5. \A q \in Proc : Appending(q)' <=> Appending(q)
  BY DEF OpenForAppend, Goto, Appending, IInv, TypeOK
<1>6. FreshInv'
  BY <1>1, <1>5, QuietStep DEF IInv, FreshInv
<1> QED
  BY <1>1, <1>2, <1>3, <1>4, <1>6, QuietStep DEF IInv

\* truncate_before, redact_memory and clear start.
LEMMA BeginRewriteStep ==
  ASSUME IInv, NEW p \in Proc, BeginRewrite(p)
  PROVE  IInv'
<1>1. PICK j \in RewriteJob : job' = [job EXCEPT ![p] = j]
  BY DEF BeginRewrite
<1>2. /\ j \in [op : {"none", "append", "repair", "truncate", "redact", "clear"}, arg : 0 .. MaxEvents + 1]
      /\ j.op \in {"truncate", "redact", "clear"}
  BY BoundsAssumption DEF RewriteJob, NoEvent, IInv, TypeOK
<1>3. Quiet /\ UNCHANGED created
  BY DEF BeginRewrite, Quiet
<1>4. TypeOK'
  BY <1>1, <1>2, BoundsAssumption DEF IInv, TypeOK, BeginRewrite, Goto, history, locks, Label
<1>5. LockInv'
  BY DEF IInv, TypeOK, LockInv, BeginRewrite, Goto, locks
<1>6. CallInv'
  <2>1. pc'[p] = "exclusive_lock" /\ job'[p] = j /\ UNCHANGED <<fd, chunks, scan>>
    BY <1>1 DEF BeginRewrite, Goto, IInv, TypeOK
  <2>2. \A q \in Proc \ {p} : pc'[q] = pc[q] /\ job'[q] = job[q]
    BY <1>1 DEF BeginRewrite, Goto, IInv, TypeOK
  <2> QED
    BY <1>2, <1>3, <2>1, <2>2, CallStepQuiet
<1>7. \A q \in Proc : Appending(q)' => Appending(q) /\ job'[q] = job[q]
  BY <1>1 DEF BeginRewrite, Goto, Appending, IInv, TypeOK
<1>8. FreshInv'
  BY <1>3, <1>7, QuietStep DEF IInv, FreshInv
<1> QED
  BY <1>3, <1>4, <1>5, <1>6, <1>8, QuietStep DEF IInv

\* A rewrite or a repair takes the exclusive lock: it is alone.
LEMMA LockExclusiveStep ==
  ASSUME IInv, NEW p \in Proc, LockExclusive(p)
  PROVE  IInv'
<1> DEFINE target == CASE job[p].op = "repair" -> "repair"
                       [] job[p].op = "clear"  -> "clear"
                       [] OTHER                -> "read"
<1>1. Quiet /\ UNCHANGED <<job, created>> /\ pc' = [pc EXCEPT ![p] = target]
  BY DEF LockExclusive, Quiet, Goto
<1>2. target \in {"repair", "clear", "read"}
  BY Zenon
<1>3. TypeOK'
  BY <1>1, <1>2 DEF IInv, TypeOK, LockExclusive, history, Label
<1>4. LockInv'
  BY <1>1, <1>2 DEF IInv, TypeOK, LockInv, LockExclusive, CanExclude
<1>5. pc'[p] = target /\ \A q \in Proc \ {p} : pc'[q] = pc[q]
  BY <1>1 DEF IInv, TypeOK
<1>6. target = "read" => job[p].op \in {"truncate", "redact"}
  BY DEF LockExclusive, IInv, CallInv
<1>7. CallInv'
  <2>1. UNCHANGED <<fd, chunks, scan>>
    BY DEF LockExclusive
  <2> QED
    BY <1>1, <1>2, <1>5, <1>6, <2>1, CallStepQuiet
<1>8. \A q \in Proc : Appending(q)' => Appending(q)
  BY <1>2, <1>5 DEF Appending
<1>9. FreshInv'
  BY <1>1, <1>8, QuietStep DEF IInv, FreshInv
<1> QED
  BY <1>1, <1>3, <1>4, <1>7, <1>9, QuietStep DEF IInv

\* A store is opened and sets out to repair the tail.
LEMMA ReopenStep ==
  ASSUME IInv, NEW p \in Proc, Reopen(p)
  PROVE  IInv'
<1>1. Quiet /\ UNCHANGED created
  BY DEF Reopen, Quiet
<1>2. TypeOK'
  BY BoundsAssumption DEF IInv, TypeOK, Reopen, Goto, history, locks, Label, NoEvent
<1>3. LockInv'
  BY DEF IInv, TypeOK, LockInv, Reopen, Goto, locks
<1>4. CallInv'
  BY <1>1, QuietStep DEF IInv, TypeOK, CallInv, Reopen, Goto, Quiet, Rewritten, Content, InFile
<1>5. \A q \in Proc : Appending(q)' => Appending(q) /\ job'[q] = job[q]
  BY DEF Reopen, Goto, Appending, IInv, TypeOK
<1>6. FreshInv'
  BY <1>1, <1>5, QuietStep DEF IInv, FreshInv
<1> QED
  BY <1>1, <1>2, <1>3, <1>4, <1>6, QuietStep DEF IInv

\* A rewrite reads the lines: what it will publish is the rewriting of the current file.
LEMMA ReadLinesStep ==
  ASSUME IInv, NEW p \in Proc, ReadLines(p)
  PROVE  IInv'
<1>1. Quiet /\ UNCHANGED <<scan, created, rewrites, faults>> /\ faults \in 0 .. MaxFaults
  BY DEF ReadLines, Quiet, IInv, TypeOK
<1>2. CASE job[p].op = "redact" /\ Tagged \cap InFile(Current) = {}
  <2>1. Leave(p, "idle")
    BY <1>2 DEF ReadLines, Return
  <2> QED
    BY <1>1, <2>1, QuietLeave
<1>3. CASE ~(job[p].op = "redact" /\ Tagged \cap InFile(Current) = {})
  <2>1. /\ chunks' = [chunks EXCEPT ![p] = Rewritten(job[p], Current)]
        /\ pc' = [pc EXCEPT ![p] = "replace"]
        /\ UNCHANGED <<shared, exclusive, job, fd>>
        /\ pc[p] = "read"
    BY <1>3 DEF ReadLines, Goto, locks
  <2>2. job[p].op \in {"truncate", "redact"} /\ job[p].arg \in Nat
    BY <2>1, BoundsAssumption DEF IInv, CallInv, TypeOK
  <2>3. Rewritten(job[p], Current) \in File
    BY <2>2, CurrentType, RewrittenFile DEF IInv
  <2>4. TypeOK'
    BY <1>1, <2>1, <2>3 DEF IInv, TypeOK, Quiet, history, Label
  <2>5. LockInv'
    BY <2>1 DEF IInv, TypeOK, LockInv
  <2>6. CallInv'
    BY <1>1, <2>1, <2>2, QuietStep DEF IInv, TypeOK, CallInv, Quiet, Rewritten, Content, InFile
  <2>7. \A q \in Proc : Appending(q)' => Appending(q)
    BY <2>1 DEF Appending, IInv, TypeOK
  <2>8. FreshInv'
    BY <1>1, <2>1, <2>7, QuietStep DEF IInv, FreshInv
  <2> QED
    BY <1>1, <2>4, <2>5, <2>6, <2>8, QuietStep DEF IInv
<1> QED
  BY <1>2, <1>3

\* A rewrite that raises before os.replace leaves the log as it was.
LEMMA RewriteFailsStep ==
  ASSUME IInv, NEW p \in Proc, RewriteFails(p)
  PROVE  IInv'
<1>1. /\ Quiet /\ UNCHANGED <<scan, created, rewrites, faults>> /\ faults \in 0 .. MaxFaults
      /\ Leave(p, "idle")
  BY DEF RewriteFails, Return, Quiet, IInv, TypeOK
<1> QED
  BY <1>1, QuietLeave

\* Scans touch nothing but their own state.
LEMMA ScanStep ==
  ASSUME IInv, NEW r \in Reader, ScanOpen(r) \/ ScanLine(r) \/ ScanEnd(r)
  PROVE  IInv'
<1>1. UNCHANGED <<files, shared, exclusive, pc, job, fd, chunks, created, rewrites, faults,
                  acked, fused, dropped, redacted>>
  BY DEF ScanOpen, ScanLine, ScanEnd, locks, local, history
<1>2. Quiet
  BY <1>1 DEF Quiet, history
<1> DEFINE ScanType == [pc : {"idle", "reading", "done"}, file : Nat, next : Nat,
                        out : Seq(Event), must : SUBSET Event]
<1>3. scan \in [Reader -> ScanType]
  BY DEF IInv, TypeOK
<1>4. scan' \in [Reader -> ScanType]
  <2>1. CASE ScanOpen(r)
    <3>1. [pc |-> "reading", file |-> Len(files), next |-> 1,
           out |-> <<>>, must |-> acked \cap InFile(Current)] \in ScanType
      BY CurrentType DEF IInv, TypeOK
    <3> QED
      BY <1>3, <2>1, <3>1 DEF ScanOpen
  <2>2. CASE ScanLine(r)
    <3> DEFINE f == files[scan[r].file]
               n == scan[r].next
               new == IF Content(f)[n] = NoEvent THEN scan[r].out ELSE Append(scan[r].out, Content(f)[n])
               next == [pc |-> "reading", file |-> scan[r].file, next |-> n + 1,
                        must |-> scan[r].must, out |-> new]
    <3>1. /\ f \in File /\ n \in Nat /\ scan[r].file \in Nat /\ scan[r].out \in Seq(Event)
          /\ scan[r].must \in SUBSET Event
      BY <1>3 DEF IInv, CallInv, TypeOK
    <3>2. f.lines \in Seq(Line) /\ f.tail \in Seq(Line)
      BY <3>1, TailType DEF File
    <3>3. Content(f) \in Seq(Line)
      BY <3>2, RangeConcat DEF Content
    <3>4. n >= 1 /\ n <= Len(Content(f))
      BY <2>2 DEF ScanLine, IInv, CallInv
    <3>5. Content(f)[n] \in Line
      BY <3>1, <3>3, <3>4
    <3>6. new \in Seq(Event)
      BY <3>1, <3>5 DEF Line
    <3>7. next \in ScanType
      BY <3>1, <3>6
    <3>8. scan' = [scan EXCEPT ![r] = next]
      BY <2>2, Zenon DEF ScanLine
    <3> HIDE DEF next, ScanType
    <3> QED
      BY <1>3, <3>7, <3>8
  <2>3. CASE ScanEnd(r)
    BY <1>3, <2>3 DEF ScanEnd
  <2> QED
    BY <2>1, <2>2, <2>3
<1>5. TypeOK' /\ LockInv' /\ CallInv' /\ FreshInv'
  <2>1. TypeOK'
    BY <1>1, <1>4 DEF IInv, TypeOK
  <2>2. LockInv'
    BY <1>1 DEF IInv, LockInv
  <2>3. CallInv'
    <3>1. \A q \in Reader : scan'[q].file \in 1 .. Len(files) /\ scan'[q].next >= 1
      <4>1. Len(files) \in Nat \ {0}
        BY CurrentType DEF IInv
      <4>2. CASE ScanOpen(r)
        BY <1>3, <4>1, <4>2 DEF ScanOpen, IInv, CallInv
      <4>3. CASE ScanLine(r)
        BY <1>3, <4>1, <4>3 DEF ScanLine, IInv, CallInv
      <4>4. CASE ScanEnd(r)
        BY <1>3, <4>1, <4>4 DEF ScanEnd, IInv, CallInv
      <4> QED
        BY <4>2, <4>3, <4>4
    <3> QED
      BY <1>1, <1>2, <3>1, QuietStep DEF IInv, CallInv, Rewritten, Content, InFile
  <2>4. FreshInv'
    BY <1>1, <1>2, QuietStep DEF IInv, FreshInv, Appending
  <2> QED
    BY <2>1, <2>2, <2>3, <2>4
<1> QED
  BY <1>2, <1>5, QuietStep DEF IInv

-----------------------------------------------------------------------------
(***************************************************************************)
(* Writes                                                                  *)
(***************************************************************************)
\* A write by p to the file it opened, whole or torn, done by the time p is no
\* longer appending: no event comes back, and no acknowledged event is lost.
LEMMA WriteFile ==
  ASSUME IInv, NEW p \in Proc, pc[p] = "append_write",
         NEW g \in File,
         g.deleted = Current.deleted,
         InFile(g) \subseteq InFile(Current) \cup {job[p].arg},
         InFile(Current) \ Range(Current.tail) \subseteq InFile(g),
         files' = [files EXCEPT ![fd[p]] = g],
         acked \subseteq acked', acked' \subseteq acked \cup {job[p].arg}, fused \subseteq fused',
         UNCHANGED <<scan, created, dropped, redacted>>,
         \A q \in Proc \ {p} : pc'[q] = pc[q] /\ job'[q] = job[q] /\ fd'[q] = fd[q],
         pc'[p] \in {"idle", "down", "exclusive_lock"},
         pc'[p] = "exclusive_lock" => job'[p].op = "repair"
  PROVE  /\ files' \in Seq(File) /\ files' # <<>> /\ Current' = g
         /\ CallInv' /\ FreshInv' /\ RewritesStick'
         /\ acked \subseteq InFile(Current') \cup dropped' \cup fused'
<1> DEFINE e == job[p].arg
<1>1. fd[p] = Len(files) /\ TypeOK
  BY DEF IInv, CallInv
<1>2. files' \in Seq(File) /\ files' # <<>> /\ Len(files') = Len(files) /\ Current' = g
  BY <1>1, UpdateCurrent
<1>3. e \in 1 .. created /\ e \notin Present
  BY DEF IInv, FreshInv, Appending
<1>4. \A q \in Proc : pc'[q] \notin {"repair", "read", "replace", "clear"}
  BY WriterExcludesRewriters DEF IInv
<1>5. CallInv'
  BY <1>1, <1>2, <1>4 DEF IInv, CallInv
<1>6. Present' \subseteq Present \cup {e}
  BY <1>2 DEF Present, InFile
<1>7. \A q \in Proc : Appending(q)' => Appending(q) /\ q # p /\ job'[q] = job[q]
  BY DEF Appending
<1>8. Appending(p)
  BY DEF Appending
<1>9. FreshInv'
  BY <1>3, <1>6, <1>7, <1>8 DEF IInv, FreshInv
<1>10. InFile(Current)' = InFile(g)
  BY <1>2 DEF InFile
<1>11. RewritesStick'
  BY <1>2, <1>3, <1>10 DEF IInv, RewritesStick, Present
<1>12. acked \subseteq InFile(Current') \cup dropped' \cup fused'
  BY <1>2 DEF IInv, NoLostAppend, TailInv
<1> QED
  BY <1>2, <1>5, <1>9, <1>11, <1>12

\* append writes a whole line and acknowledges it.
LEMMA WriteLineStep ==
  ASSUME IInv, NEW p \in Proc, WriteLine(p)
  PROVE  IInv'
<1> DEFINE e == job[p].arg
           g == WholeWrite(Current, e)
<1>1. /\ pc[p] = "append_write" /\ Leave(p, "idle") /\ TypeOK /\ LockInv
      /\ UNCHANGED <<scan, created, rewrites, faults, dropped, redacted>>
      /\ acked' = acked \cup {e}
      /\ files' = [files EXCEPT ![fd[p]] = WholeWrite(files[fd[p]], e)]
      /\ fused' = IF files[fd[p]].tail = <<>> THEN fused ELSE fused \cup {e}
  BY DEF WriteLine, Return, IInv
<1>2. files[fd[p]] = Current
  BY <1>1 DEF IInv, CallInv, Current
<1>3. e \in 1 .. created /\ e \in Event /\ e \notin Present
  BY <1>1, BoundsAssumption DEF IInv, FreshInv, Appending, TypeOK, Event
<1>4. Current \in File
  BY <1>1, CurrentType
<1>5. /\ g \in File
      /\ g.tail = <<>>
      /\ g.deleted = Current.deleted
      /\ InFile(g) \subseteq InFile(Current) \cup {e}
      /\ InFile(Current) \ Range(Current.tail) \subseteq InFile(g)
      /\ Current.tail = <<>> => e \in InFile(g)
  BY <1>3, <1>4, WholeWriteFile
<1>6. /\ pc'[p] = "idle"
      /\ \A q \in Proc \ {p} : pc'[q] = pc[q] /\ job'[q] = job[q] /\ fd'[q] = fd[q]
  BY <1>1, LeaveOthers
<1> HIDE DEF g
<1>7. files' = [files EXCEPT ![fd[p]] = g]
  BY <1>1, <1>2 DEF g
<1>8. fused \subseteq fused' /\ fused' \subseteq fused \cup {e} /\ (Current.tail # <<>> => e \in fused')
  BY <1>1, <1>2
<1>9. /\ files' \in Seq(File) /\ files' # <<>> /\ Current' = g
      /\ CallInv' /\ FreshInv' /\ RewritesStick'
      /\ acked \subseteq InFile(Current') \cup dropped' \cup fused'
  BY <1>1, <1>5, <1>6, <1>7, <1>8, WriteFile
<1>10. TypeOK'
  BY <1>1, <1>3, <1>8, <1>9, LeaveType DEF TypeOK
<1>11. LockInv'
  BY <1>1, LeaveLock
<1>12. TailInv'
  BY <1>5, <1>9 DEF TailInv, Range
<1>13. NoLostAppend'
  BY <1>1, <1>5, <1>8, <1>9 DEF NoLostAppend, InFile
<1> QED
  BY <1>9, <1>10, <1>11, <1>12, <1>13 DEF IInv

\* What an interrupted write does to the invariant, common to a short write
\* and to a kill in the middle of a write.
LEMMA TornWrite ==
  ASSUME IInv, NEW p \in Proc, pc[p] = "append_write",
         NEW g \in TornWrites(files[fd[p]], job[p].arg) \cup {WholeWrite(files[fd[p]], job[p].arg)},
         files' = [files EXCEPT ![fd[p]] = g],
         UNCHANGED <<scan, created, history>>,
         \A q \in Proc \ {p} : pc'[q] = pc[q] /\ job'[q] = job[q] /\ fd'[q] = fd[q],
         pc'[p] \in {"idle", "down", "exclusive_lock"},
         pc'[p] = "exclusive_lock" => job'[p].op = "repair"
  PROVE  /\ files' \in Seq(File) /\ files' # <<>>
         /\ CallInv' /\ FreshInv' /\ RewritesStick' /\ TailInv' /\ NoLostAppend'
<1> DEFINE e == job[p].arg
<1>1. files[fd[p]] = Current /\ Current \in File
  BY CurrentType DEF IInv, CallInv, Current
<1>2. e \in 1 .. created /\ e \in Event /\ e \notin Present
  BY BoundsAssumption DEF IInv, FreshInv, Appending, TypeOK, Event
<1>3. /\ g \in File
      /\ g.deleted = Current.deleted
      /\ InFile(g) \subseteq InFile(Current) \cup {e}
      /\ InFile(Current) \ Range(Current.tail) \subseteq InFile(g)
      /\ Range(g.tail) \subseteq Range(Current.tail) \cup {e, NoEvent}
  <2>1. CASE g \in TornWrites(Current, e)
    BY <1>1, <1>2, <2>1, TornWriteFile
  <2>2. CASE g = WholeWrite(Current, e)
    <3>1. Range(<<>>) = {}
      BY DEF Range
    <3> QED
      BY <1>1, <1>2, <2>2, <3>1, WholeWriteFile
  <2> QED
    BY <1>1, <2>1, <2>2
<1>4. acked' = acked /\ fused' = fused /\ dropped' = dropped /\ redacted' = redacted
  BY DEF history
<1>5. /\ files' \in Seq(File) /\ files' # <<>> /\ Current' = g
      /\ CallInv' /\ FreshInv' /\ RewritesStick'
      /\ acked \subseteq InFile(Current') \cup dropped' \cup fused'
  BY <1>3, <1>4, WriteFile
<1>6. NoEvent \notin acked /\ e \notin acked
  <2>1. acked \subseteq Event /\ NoEvent \notin Event
    BY DEF IInv, TypeOK, Event, NoEvent
  <2> QED
    BY <1>2, <2>1 DEF Present
<1>7. TailInv'
  <2>1. Range(Current'.tail) = Range(g.tail)
    BY <1>5
  <2>2. Range(Current'.tail) \cap acked' = {}
    BY <1>3, <1>4, <1>6, <2>1 DEF IInv, TailInv
  <2> QED
    BY <2>2 DEF TailInv, Range
<1>8. NoLostAppend'
  BY <1>4, <1>5 DEF NoLostAppend, InFile
<1> QED
  BY <1>5, <1>7, <1>8

\* append writes part of a line, releases its lock and goes to repair.
LEMMA ShortWriteStep ==
  ASSUME IInv, NEW p \in Proc, ShortWrite(p)
  PROVE  IInv'
<1> DEFINE repair == [op |-> "repair", arg |-> NoEvent]
<1>1. /\ pc[p] = "append_write" /\ faults < MaxFaults /\ faults' = faults + 1 /\ TypeOK
      /\ pc' = [pc EXCEPT ![p] = "exclusive_lock"]
      /\ job' = [job EXCEPT ![p] = repair]
      /\ fd' = [fd EXCEPT ![p] = 0]
      /\ shared' = shared \ {p} /\ exclusive' = exclusive \ {p}
      /\ UNCHANGED <<chunks, scan, created, rewrites, acked, fused, dropped, redacted>>
  BY DEF ShortWrite, Goto, ReleaseOnError, Release, history, IInv
<1>2. PICK g \in TornWrites(files[fd[p]], job[p].arg) : files' = [files EXCEPT ![fd[p]] = g]
  BY DEF ShortWrite
<1>3. /\ pc'[p] = "exclusive_lock" /\ job'[p].op = "repair"
      /\ \A q \in Proc \ {p} : pc'[q] = pc[q] /\ job'[q] = job[q] /\ fd'[q] = fd[q]
  BY <1>1 DEF TypeOK
<1>4. /\ files' \in Seq(File) /\ files' # <<>>
      /\ CallInv' /\ FreshInv' /\ RewritesStick' /\ TailInv' /\ NoLostAppend'
  BY <1>1, <1>2, <1>3, TornWrite DEF history
<1>5. repair \in [op : {"none", "append", "repair", "truncate", "redact", "clear"},
                  arg : 0 .. MaxEvents + 1]
  BY BoundsAssumption DEF NoEvent
<1>6. TypeOK'
  BY <1>1, <1>4, <1>5, BoundsAssumption DEF TypeOK, Label
<1>7. LockInv'
  BY <1>1 DEF IInv, TypeOK, LockInv
<1> QED
  BY <1>4, <1>6, <1>7 DEF IInv

-----------------------------------------------------------------------------
(***************************************************************************)
(* Rewrites                                                                *)
(***************************************************************************)
\* A rewriter that ends its call with a new current content: its lock made it
\* alone, so no open descriptor and no filtered copy of another actor is stale.
LEMMA RewriteFile ==
  ASSUME IInv, NEW p \in Proc, pc[p] \in {"repair", "replace", "clear"}, Leave(p, "idle"),
         NEW g \in File,
         \/ files' = [files EXCEPT ![Len(files)] = g]
         \/ files' = Append(files, g),
         InFile(g) \subseteq InFile(Current), g.tail = <<>>,
         dropped' \subseteq Present, redacted' \subseteq Present,
         UNCHANGED <<created, acked>>,
         \A r \in Reader : scan'[r].file = scan[r].file /\ scan'[r].next = scan[r].next
  PROVE  /\ files' \in Seq(File) /\ files' # <<>> /\ Current' = g
         /\ LockInv' /\ CallInv' /\ FreshInv' /\ TailInv'
<1>1. TypeOK /\ LockInv /\ Len(files) \in Nat \ {0}
  BY CurrentType DEF IInv
<1>2. /\ files' \in Seq(File) /\ files' # <<>> /\ Current' = g
      /\ Len(files') \in {Len(files), Len(files) + 1}
  <2>1. CASE files' = [files EXCEPT ![Len(files)] = g]
    BY <1>1, <2>1, UpdateCurrent
  <2>2. CASE files' = Append(files, g)
    <3>1. files \in Seq(File)
      BY <1>1 DEF TypeOK
    <3> QED
      BY <1>1, <2>2, <3>1, PublishCurrent
  <2> QED
    BY <2>1, <2>2
<1>3. LockInv'
  BY <1>1, LeaveLock
<1>4. /\ pc'[p] = "idle"
      /\ \A q \in Proc \ {p} : pc'[q] = pc[q] /\ job'[q] = job[q] /\ fd'[q] = fd[q]
      /\ \A q \in Proc : Appending(q)' => Appending(q) /\ q # p
  BY <1>1, LeaveOthers
<1>5. \A q \in Proc : pc'[q] \notin {"append_open", "append_write", "repair", "read", "replace", "clear"}
  BY <1>1, <1>4, ExclusiveAlone
<1>6. \A r \in Reader : scan[r].file \in 1 .. Len(files) /\ scan[r].next >= 1
  BY DEF IInv, CallInv
<1>7. CallInv'
  <2>1. \A q \in Proc : pc'[q] = "exclusive_lock" => job'[q].op \in {"repair", "clear", "truncate", "redact"}
    BY <1>4 DEF IInv, CallInv
  <2>2. \A r \in Reader : scan'[r].file \in 1 .. Len(files') /\ scan'[r].next >= 1
    BY <1>1, <1>2, <1>6
  <2> QED
    BY <1>5, <2>1, <2>2 DEF CallInv
<1>8. InFile(Current)' = InFile(g)
  BY <1>2 DEF InFile
<1>9. Present' \subseteq Present
  BY <1>8 DEF Present
<1>10. FreshInv'
  BY <1>4, <1>9 DEF IInv, FreshInv
<1>11. TailInv'
  BY <1>2 DEF TailInv, Range
<1> QED
  BY <1>2, <1>3, <1>7, <1>10, <1>11

\* The repair terminates the tail under the exclusive lock.
LEMMA RepairTailStep ==
  ASSUME IInv, NEW p \in Proc, RepairTail(p)
  PROVE  IInv'
<1>1. /\ pc[p] = "repair" /\ Leave(p, "idle") /\ TypeOK /\ Current \in File
      /\ UNCHANGED <<scan, created, rewrites, history, acked, fused, dropped, redacted>>
  BY CurrentType DEF RepairTail, Return, IInv, history
<1>2. CASE files' = [files EXCEPT ![Len(files)] = Repaired(files[Len(files)])] /\ UNCHANGED faults
  <2> DEFINE g == Repaired(Current)
  <2>1. g \in File /\ g.tail = <<>> /\ g.deleted = Current.deleted /\ InFile(g) = InFile(Current)
    BY <1>1, RepairedFile
  <2> HIDE DEF g
  <2>2. files' = [files EXCEPT ![Len(files)] = g]
    BY <1>2 DEF g, Current
  <2>3. dropped \subseteq Present /\ redacted \subseteq Present
    BY DEF Present
  <2>4. /\ files' \in Seq(File) /\ files' # <<>> /\ Current' = g
        /\ LockInv' /\ CallInv' /\ FreshInv' /\ TailInv'
    BY <1>1, <2>1, <2>2, <2>3, RewriteFile
  <2>5. TypeOK'
    BY <1>1, <1>2, <2>4, LeaveType DEF TypeOK
  <2>6. InFile(Current)' = InFile(Current)
    BY <2>1, <2>4 DEF InFile
  <2>7. NoLostAppend' /\ RewritesStick'
    BY <1>1, <2>1, <2>4, <2>6 DEF IInv, NoLostAppend, RewritesStick
  <2> QED
    BY <2>4, <2>5, <2>7 DEF IInv
<1>3. CASE faults < MaxFaults /\ faults' = faults + 1 /\ UNCHANGED files
  <2>1. Quiet /\ faults' \in 0 .. MaxFaults
    BY <1>1, <1>3, BoundsAssumption DEF Quiet, TypeOK, history
  <2> QED
    BY <1>1, <2>1, QuietLeave
<1> QED
  BY <1>2, <1>3 DEF RepairTail

\* A rewrite publishes its file: no event appended meanwhile is lost.
LEMMA ReplaceStep ==
  ASSUME IInv, NEW p \in Proc, Replace(p)
  PROVE  IInv'
<1> DEFINE j == job[p]
           g == Rewritten(j, Current)
           expired == {e \in InFile(Current) : e < j.arg}
           erased == Tagged \cap InFile(g)
<1>1. /\ pc[p] = "replace" /\ Leave(p, "idle") /\ TypeOK /\ Current \in File
      /\ InFile(Current) \subseteq Event
      /\ UNCHANGED <<scan, created, rewrites, faults, acked, fused>>
  BY CurrentType DEF Replace, Return, IInv
<1>2. j.op \in {"truncate", "redact"} /\ j.arg \in Nat /\ chunks[p] = g
  BY <1>1, BoundsAssumption DEF IInv, CallInv, TypeOK
<1>3. /\ g \in File /\ g.tail = <<>> /\ Current.deleted \subseteq g.deleted
      /\ j.op = "truncate" => InFile(g) = {e \in InFile(Current) : e >= j.arg}
      /\ j.op = "redact" => InFile(g) = InFile(Current) /\ Tagged \cap InFile(Current) \subseteq g.deleted
  BY <1>1, <1>2, RewrittenFile
<1>4. files' = Append(files, g)
  BY <1>2 DEF Replace, Publish
<1>5. \/ j.op = "truncate" /\ dropped' = dropped \cup expired /\ redacted' = redacted
      \/ j.op = "redact" /\ dropped' = dropped /\ redacted' = redacted \cup erased
  BY <1>2 DEF Replace
<1>6. InFile(g) \subseteq InFile(Current)
  BY <1>2, <1>3
<1> HIDE DEF g
<1>7. dropped' \subseteq Present /\ redacted' \subseteq Present
  BY <1>5, <1>6 DEF Present
<1>8. /\ files' \in Seq(File) /\ files' # <<>> /\ Current' = g
      /\ LockInv' /\ CallInv' /\ FreshInv' /\ TailInv'
  BY <1>1, <1>3, <1>4, <1>6, <1>7, RewriteFile
<1>9. TypeOK'
  BY <1>1, <1>5, <1>8, LeaveType DEF TypeOK
<1>10. InFile(Current)' = InFile(g)
  BY <1>8 DEF InFile
<1>11. \A e \in InFile(Current) : e >= j.arg \/ e < j.arg
  BY <1>1, <1>2 DEF Event
<1>12. \A e \in InFile(Current) : ~(e >= j.arg /\ e < j.arg)
  BY <1>1, <1>2 DEF Event
<1>13. NoLostAppend'
  BY <1>1, <1>3, <1>5, <1>10, <1>11 DEF IInv, NoLostAppend
<1>14. InFile(Current)' \cap dropped' = {}
  BY <1>3, <1>5, <1>10, <1>12 DEF IInv, RewritesStick
<1>15. redacted' \cap InFile(Current)' \subseteq Current'.deleted
  BY <1>3, <1>5, <1>6, <1>8, <1>10 DEF IInv, RewritesStick
<1> QED
  BY <1>8, <1>9, <1>13, <1>14, <1>15 DEF IInv, RewritesStick

\* clear empties the file: what it drops is accounted for.
LEMMA ClearStep ==
  ASSUME IInv, NEW p \in Proc, Clear(p)
  PROVE  IInv'
<1>1. /\ pc[p] = "clear" /\ Leave(p, "idle") /\ TypeOK /\ InFile(Current) \subseteq Event
      /\ files' = [files EXCEPT ![Len(files)] = EmptyFile]
      /\ dropped' = dropped \cup InFile(Current)
      /\ UNCHANGED <<created, rewrites, faults, acked, fused, redacted>>
  BY CurrentType DEF Clear, Return, IInv
<1> DEFINE ScanType == [pc : {"idle", "reading", "done"}, file : Nat, next : Nat,
                        out : Seq(Event), must : SUBSET Event]
<1>2. scan' = [r \in Reader |-> [scan[r] EXCEPT !.must = {}]]
  BY DEF Clear
<1>3. scan \in [Reader -> ScanType]
  BY <1>1 DEF TypeOK
<1>4. scan' \in [Reader -> ScanType]
  BY <1>2, <1>3
<1>5. \A r \in Reader : scan'[r].file = scan[r].file /\ scan'[r].next = scan[r].next
  BY <1>2, <1>3
<1>6. dropped' \subseteq Present /\ redacted' \subseteq Present
  BY <1>1 DEF Present
<1>7. /\ files' \in Seq(File) /\ files' # <<>> /\ Current' = EmptyFile
      /\ LockInv' /\ CallInv' /\ FreshInv' /\ TailInv'
  BY <1>1, <1>5, <1>6, EmptyFileType, RewriteFile
<1>8. TypeOK'
  BY <1>1, <1>4, <1>7, LeaveType DEF TypeOK
<1>9. InFile(Current)' = {}
  BY <1>7, EmptyFileType DEF InFile
<1>10. NoLostAppend' /\ RewritesStick'
  BY <1>1, <1>9 DEF IInv, NoLostAppend, RewritesStick
<1> QED
  BY <1>7, <1>8, <1>10 DEF IInv

\* A process is killed, in the middle of a write or elsewhere.
LEMMA KillStep ==
  ASSUME IInv, NEW p \in Proc, Kill(p)
  PROVE  IInv'
<1>1. /\ Leave(p, "down") /\ TypeOK /\ LockInv /\ faults' \in 0 .. MaxFaults
      /\ UNCHANGED <<scan, created, rewrites, history, acked, fused, dropped, redacted>>
  BY BoundsAssumption DEF Kill, IInv, TypeOK, history
<1>2. CASE pc[p] = "append_write"
  <2>1. PICK g \in TornWrites(files[fd[p]], job[p].arg) \cup {WholeWrite(files[fd[p]], job[p].arg)} :
           files' = [files EXCEPT ![fd[p]] = g]
    BY <1>2 DEF Kill
  <2>2. /\ pc'[p] = "down"
        /\ \A q \in Proc \ {p} : pc'[q] = pc[q] /\ job'[q] = job[q] /\ fd'[q] = fd[q]
    BY <1>1, LeaveOthers
  <2>3. /\ files' \in Seq(File) /\ files' # <<>>
        /\ CallInv' /\ FreshInv' /\ RewritesStick' /\ TailInv' /\ NoLostAppend'
    BY <1>1, <1>2, <2>1, <2>2, TornWrite
  <2>4. TypeOK'
    BY <1>1, <2>3, LeaveType DEF TypeOK
  <2>5. LockInv'
    BY <1>1, LeaveLock
  <2> QED
    BY <2>3, <2>4, <2>5 DEF IInv
<1>3. CASE pc[p] # "append_write"
  <2>1. Quiet
    BY <1>1, <1>3 DEF Kill, Quiet
  <2> QED
    BY <1>1, <2>1, QuietLeave
<1> QED
  BY <1>2, <1>3

-----------------------------------------------------------------------------
(***************************************************************************)
(* The theorems                                                            *)
(***************************************************************************)
\* The empty log satisfies the inductive invariant.
LEMMA InitInvariant == Init => IInv
<1> SUFFICES ASSUME Init
             PROVE  IInv
  OBVIOUS
<1>1. files = <<EmptyFile>> /\ Len(files) = 1 /\ Current = EmptyFile /\ files \in Seq(File)
  BY EmptyFileType DEF Init, Current
<1>2. InFile(Current) = {} /\ Range(Current.tail) = {}
  BY <1>1, EmptyFileType DEF Range
<1>3. Idle \in [op : {"none", "append", "repair", "truncate", "redact", "clear"},
                arg : 0 .. MaxEvents + 1]
  BY BoundsAssumption DEF Idle, NoEvent
<1>4. [pc |-> "idle", file |-> 1, next |-> 1, out |-> <<>>, must |-> {}]
         \in [pc : {"idle", "reading", "done"}, file : Nat, next : Nat,
              out : Seq(Event), must : SUBSET Event]
  OBVIOUS
<1>5. TypeOK
  BY <1>1, <1>3, <1>4, EmptyFileType, BoundsAssumption DEF Init, TypeOK, Label
<1>6. LockInv
  BY DEF Init, LockInv
<1>7. CallInv
  BY <1>1 DEF Init, CallInv
<1>8. FreshInv
  BY <1>2 DEF Init, FreshInv, Present, Appending
<1>9. TailInv /\ NoLostAppend /\ RewritesStick
  BY <1>2 DEF Init, TailInv, NoLostAppend, RewritesStick
<1> QED
  BY <1>5, <1>6, <1>7, <1>8, <1>9 DEF IInv

\* Every step of every actor keeps the inductive invariant.
LEMMA NextInvariant == IInv /\ [Next]_vars => IInv'
<1> SUFFICES ASSUME IInv, [Next]_vars
             PROVE  IInv'
  OBVIOUS
<1>1. ASSUME NEW p \in Proc, CallStep(p)
      PROVE  IInv'
  BY <1>1, LockSharedStep, OpenForAppendStep, WriteLineStep, ShortWriteStep, LockExclusiveStep,
     RepairTailStep, ReadLinesStep, ReplaceStep, RewriteFailsStep, ClearStep DEF CallStep
<1>2. ASSUME NEW p \in Proc, BeginAppend(p) \/ BeginRewrite(p) \/ Kill(p) \/ Reopen(p)
      PROVE  IInv'
  BY <1>2, BeginAppendStep, BeginRewriteStep, KillStep, ReopenStep
<1>3. ASSUME NEW r \in Reader, ScanOpen(r) \/ ScanLine(r) \/ ScanEnd(r)
      PROVE  IInv'
  BY <1>3, ScanStep
<1>4. CASE UNCHANGED vars
  BY <1>4 DEF vars, locks, local, history, IInv, TypeOK, LockInv, CallInv, FreshInv, TailInv,
     NoLostAppend, RewritesStick, Present, Appending, Current, InFile, Rewritten, Content
<1> QED
  BY <1>1, <1>2, <1>3, <1>4 DEF Next

\* The inductive invariant holds in every reachable state of the store.
THEOREM Invariant == Spec => []IInv
<1>1. IInv /\ [Next]_vars => IInv'
  BY NextInvariant
<1> QED
  BY <1>1, InitInvariant, PTL DEF Spec

\* Every variable has its type in every reachable state of the store.
THEOREM TypeCorrect == Spec => []TypeOK
BY Invariant, PTL DEF IInv

\* For any number of threads, rewrites, short writes and kills: an append that
\* returned is readable, expired, or was written onto a torn tail.  The rewriters'
\* read-then-replace never clobbers one.
THEOREM AppendsSurviveRewrites == Spec => []NoLostAppend
BY Invariant, PTL DEF IInv

\* Overlapping rewrites compose: none brings back what another one removed or erased.
THEOREM RewritesCompose == Spec => []RewritesStick
BY Invariant, PTL DEF IInv

\* The lock excludes: a thread between opening the file for append and the end of
\* its write is never there together with a thread that repairs or rewrites it,
\* and no two threads repair or rewrite at once, also right after a kill.
THEOREM LockExcludes == Spec => []LockInv
BY Invariant, PTL DEF IInv

-----------------------------------------------------------------------------
(***************************************************************************)
(* scan takes no lock.  It still returns every event acknowledged when it  *)
(* opened the file, and none twice, for any number of readers, appenders,  *)
(* rewriters, short writes and kills.                                      *)
(***************************************************************************)
Lines(i) == Content(files[i])

\* An event that no file has held yet: not created, or still being appended.
Unborn == {e \in Event : e > created \/ \E p \in Proc : Appending(p) /\ job[p].arg = e}

Once(s) == \A a, b \in DOMAIN s : s[a] = s[b] /\ s[a] # NoEvent => a = b

\* What the scan has yet to read.
Ahead(r) == {Lines(scan[r].file)[a] : a \in scan[r].next .. Len(Lines(scan[r].file))}

\* No inode, current or replaced, holds an event twice or one that is unborn.
LinesInv == \A i \in 1 .. Len(files) : Once(Lines(i)) /\ Range(Lines(i)) \cap Unborn = {}

\* Where a scan stands: what it must return is behind it or ahead of it, and
\* nothing it has returned is ahead of it or will ever be written again.
ReadInv(r) ==
    /\ IsInjective(scan[r].out)
    /\ Range(scan[r].out) \cap (Ahead(r) \cup Unborn) = {}
    /\ scan[r].must \subseteq acked
    /\ scan[r].must \subseteq Range(scan[r].out) \cup Ahead(r)
    /\ scan[r].pc = "done" => scan[r].must \subseteq Range(scan[r].out)

ScanInv == LinesInv /\ \A r \in Reader : ReadInv(r)

-----------------------------------------------------------------------------
\* The content of a file is its lines and then at most one more.
LEMMA ContentLines ==
  ASSUME NEW f \in File
  PROVE  /\ Content(f) \in Seq(Line)
         /\ f.lines \in Seq(Line) /\ f.tail \in Seq(Line) /\ Len(f.tail) \in {0, 1}
         /\ Len(Content(f)) = Len(f.lines) + Len(f.tail)
         /\ \A a \in 1 .. Len(Content(f)) :
               Content(f)[a] = IF a <= Len(f.lines) THEN f.lines[a] ELSE f.tail[a - Len(f.lines)]
<1>1. f.lines \in Seq(Line) /\ f.tail \in Tails /\ f.tail \in Seq(Line)
  BY TailType DEF File
<1>2. Len(f.tail) \in {0, 1}
  BY <1>1 DEF Tails
<1>3. /\ f.lines \o f.tail \in Seq(Line)
      /\ Len(f.lines \o f.tail) = Len(f.lines) + Len(f.tail)
      /\ \A a \in 1 .. Len(f.lines) + Len(f.tail) :
            (f.lines \o f.tail)[a] = IF a <= Len(f.lines) THEN f.lines[a] ELSE f.tail[a - Len(f.lines)]
  BY <1>1, ConcatProperties
<1> QED
  BY <1>1, <1>2, <1>3 DEF Content

\* d is c with at most one line spoilt or added; what was acknowledged stays in place.
Grown(c, d, e) ==
    /\ Len(d) \in {Len(c), Len(c) + 1}
    /\ \A a \in 1 .. Len(d) : \/ d[a] = NoEvent
                              \/ a = Len(c) + 1 /\ d[a] = e
                              \/ a <= Len(c) /\ d[a] = c[a]
    /\ \A a \in 1 .. Len(c) : c[a] \in acked => d[a] = c[a]

\* What a write does to the current file: a whole line, or the remains of one.
LEMMA WriteGrows ==
  ASSUME NEW e \in Event, NEW f \in File,
         Range(f.tail) \cap acked = {}, NoEvent \notin acked,
         NEW g \in TornWrites(f, e) \cup {WholeWrite(f, e)}
  PROVE  Grown(Content(f), Content(g), e)
<1> DEFINE c == Content(f)
           d == Content(g)
           s == f.lines
           t == f.tail
           u == g.tail
           n == Len(s)
           Laid(x, l, r) == /\ x \in Seq(Line) /\ l \in Seq(Line) /\ r \in Seq(Line)
                            /\ Len(r) \in {0, 1} /\ Len(x) = Len(l) + Len(r)
                            /\ \A a \in 1 .. Len(x) : x[a] = IF a <= Len(l) THEN l[a] ELSE r[a - Len(l)]
<1>1. g \in File
  BY WholeWriteFile, TornWriteFile
<1>2. Laid(c, s, t) /\ Laid(d, g.lines, u)
  BY <1>1, ContentLines, Zenon
<1>3. \A i \in DOMAIN t : t[i] \notin acked
  BY DEF Range
<1>4. \/ t = <<>> /\ g.lines = Append(s, e) /\ u = <<>>
      \/ t # <<>> /\ g.lines = Append(s, NoEvent) /\ u = <<>>
      \/ g.lines = s /\ (u \in {t, <<NoEvent>>} \/ (t = <<>> /\ u = <<e>>))
  <2>1. CASE g = WholeWrite(f, e)
    BY <2>1 DEF WholeWrite
  <2>2. CASE g \in TornWrites(f, e)
    BY <2>2 DEF TornWrites, File
  <2> QED
    BY <2>1, <2>2
<1> HIDE DEF c, d, s, t, u
<1>5. n \in Nat /\ Len(c) \in {n, n + 1} /\ (Len(c) = n <=> t = <<>>)
  <2>1. s \in Seq(Line) /\ t \in Seq(Line) /\ Len(t) \in {0, 1} /\ Len(c) = n + Len(t)
    BY <1>2
  <2>2. n \in Nat /\ (Len(t) = 0 <=> t = <<>>)
    BY <2>1
  <2>3. (Len(t) = 0 /\ Len(c) = n) \/ (Len(t) = 1 /\ Len(c) = n + 1 /\ Len(c) # n)
    BY <2>1, <2>2
  <2> QED
    BY <2>2, <2>3
<1>6. \A a \in 1 .. Len(c) : a > n => c[a] \notin acked
  <2> SUFFICES ASSUME NEW a \in 1 .. Len(c), a > n
               PROVE  c[a] \notin acked
    OBVIOUS
  <2>1. a = n + 1 /\ Len(t) = 1 /\ c[a] = t[1]
    BY <1>2, <1>5
  <2>2. 1 \in DOMAIN t
    BY <1>2, <2>1
  <2> QED
    BY <1>3, <2>1, <2>2
<1>7. Grown(c, d, e)
  <2>1. ASSUME NEW l \in {e, NoEvent}, g.lines = Append(s, l), u = <<>>, l = e <=> t = <<>>
        PROVE  Grown(c, d, e)
    <3>1. l \in Line
      BY DEF Line
    <3>2. /\ Len(g.lines) = n + 1 /\ g.lines[n + 1] = l
          /\ \A a \in 1 .. n : g.lines[a] = s[a]
      BY <1>2, <1>5, <2>1, <3>1
    <3>3. /\ Len(d) = n + 1 /\ d[n + 1] = l
          /\ \A a \in 1 .. n : d[a] = s[a] /\ c[a] = s[a]
      BY <1>2, <1>5, <2>1, <3>2
    <3> QED
      BY <1>5, <1>6, <2>1, <3>3 DEF Grown
  <2>2. CASE g.lines = s
    <3>1. /\ Len(d) = n + Len(u)
          /\ \A a \in 1 .. n : d[a] = s[a] /\ c[a] = s[a]
      BY <1>2, <1>5, <2>2
    <3>2. CASE u = t
      <4>1. Len(d) = Len(c) /\ \A a \in 1 .. Len(c) : d[a] = c[a]
        BY <1>2, <1>5, <2>2, <3>2
      <4> QED
        BY <1>5, <4>1 DEF Grown
    <3>3. CASE u = <<NoEvent>>
      <4>1. Len(d) = n + 1 /\ d[n + 1] = NoEvent
        BY <1>2, <1>5, <2>2, <3>3
      <4> QED
        BY <1>5, <1>6, <3>1, <4>1 DEF Grown
    <3>4. CASE t = <<>> /\ u = <<e>>
      <4>1. Len(c) = n /\ Len(d) = n + 1 /\ d[n + 1] = e
        BY <1>2, <1>5, <2>2, <3>4
      <4> QED
        BY <1>5, <3>1, <4>1 DEF Grown
    <3> QED
      BY <1>4, <2>2, <3>2, <3>3, <3>4
  <2>3. e # NoEvent
    BY DEF Event, NoEvent
  <2> QED
    BY <1>4, <2>1, <2>2, <2>3
<1> QED
  BY <1>7 DEF c, d

\* What a write leaves of the lines it may have spoilt, for an event e that is new.
LEMMA GrownLines ==
  ASSUME NEW c \in Seq(Line), NEW d \in Seq(Line), NEW e, Grown(c, d, e), Once(c), e \notin Range(c)
  PROVE  /\ Once(d)
         /\ Range(d) \subseteq Range(c) \cup {NoEvent, e}
         /\ \A n \in Nat \ {0} :
               /\ {d[a] : a \in n .. Len(d)} \subseteq {c[a] : a \in n .. Len(c)} \cup {NoEvent, e}
               /\ {c[a] : a \in n .. Len(c)} \cap acked \subseteq {d[a] : a \in n .. Len(d)}
<1> DEFINE k == Len(c)
           l == Len(d)
<1>1. k \in Nat /\ l \in Nat /\ DOMAIN c = 1 .. k /\ DOMAIN d = 1 .. l /\ l \in {k, k + 1}
  BY DEF Grown
<1>2. \A a \in 1 .. l : \/ d[a] = NoEvent
                        \/ a = k + 1 /\ d[a] = e
                        \/ a \in 1 .. k /\ d[a] = c[a]
  <2>1. \A a \in 1 .. l : d[a] = NoEvent \/ (a = k + 1 /\ d[a] = e) \/ (a <= k /\ d[a] = c[a])
    BY DEF Grown
  <2> HIDE DEF k, l
  <2> QED
    BY <1>1, <2>1
<1>3. \A a \in 1 .. k : c[a] \in acked => d[a] = c[a]
  BY DEF Grown
<1> HIDE DEF k, l
<1>4. \A a \in 1 .. k : c[a] # e
  BY <1>1 DEF Range
<1>5. ASSUME NEW a \in 1 .. l, NEW b \in 1 .. l, d[a] = d[b], d[a] # NoEvent
      PROVE  a = b
  <2>1. /\ (a = k + 1 /\ d[a] = e) \/ (a \in 1 .. k /\ d[a] = c[a])
        /\ (b = k + 1 /\ d[b] = e) \/ (b \in 1 .. k /\ d[b] = c[b])
    BY <1>2, <1>5
  <2>2. CASE a \in 1 .. k /\ b \in 1 .. k /\ d[a] = c[a] /\ d[b] = c[b]
    BY <1>1, <1>5, <2>2 DEF Once
  <2> QED
    BY <1>4, <1>5, <2>1, <2>2
<1>6. Once(d)
  BY <1>1, <1>5 DEF Once
<1>7. Range(d) \subseteq Range(c) \cup {NoEvent, e}
  BY <1>1, <1>2 DEF Range
<1>8. ASSUME NEW n \in Nat \ {0}
      PROVE  /\ {d[a] : a \in n .. l} \subseteq {c[a] : a \in n .. k} \cup {NoEvent, e}
             /\ {c[a] : a \in n .. k} \cap acked \subseteq {d[a] : a \in n .. l}
  <2>1. ASSUME NEW a \in n .. l
        PROVE  d[a] \in {c[b] : b \in n .. k} \cup {NoEvent, e}
    <3>1. a \in 1 .. l /\ (a \in 1 .. k => a \in n .. k)
      BY <1>1
    <3> QED
      BY <1>2, <3>1
  <2>2. ASSUME NEW a \in n .. k, c[a] \in acked
        PROVE  c[a] \in {d[b] : b \in n .. l}
    <3>1. a \in 1 .. k /\ a \in n .. l
      BY <1>1
    <3> QED
      BY <1>3, <2>2, <3>1
  <2> QED
    BY <2>1, <2>2
<1> QED
  BY <1>6, <1>7, <1>8 DEF k, l

\* A rewrite keeps every line in its place or blanks it.
LEMMA RewriteKeepsPlaces ==
  ASSUME NEW f \in File, NEW j, j.op \in {"truncate", "redact"}, j.arg \in Nat
  PROVE  LET c == Content(f)  d == Content(Rewritten(j, f)) IN
         DOMAIN d = DOMAIN c /\ \A a \in DOMAIN c : d[a] \in {c[a], NoEvent}
<1> DEFINE c == Content(f)
           g == Rewritten(j, f)
<1>1. c \in Seq(Line) /\ Len(c) \in Nat /\ DOMAIN c = 1 .. Len(c)
  <2>1. c \in Seq(Line)
    BY ContentLines
  <2> HIDE DEF c
  <2> QED
    BY <2>1
<1>2. g \in File /\ g.tail = <<>>
  BY RewrittenFile
<1>3. Content(g) = g.lines
  BY <1>2, ContentLines DEF Content
<1>4. g.lines \in {c, Without(c, j.arg)}
  BY DEF Rewritten
<1>5. DOMAIN Without(c, j.arg) = DOMAIN c /\ \A a \in DOMAIN c : Without(c, j.arg)[a] \in {c[a], NoEvent}
  BY <1>1 DEF Without
<1> HIDE DEF c, g
<1>6. DOMAIN g.lines = DOMAIN c /\ \A a \in DOMAIN c : g.lines[a] \in {c[a], NoEvent}
  BY <1>4, <1>5
<1> QED
  BY <1>3, <1>6 DEF c, g

-----------------------------------------------------------------------------
(***************************************************************************)
(* What a step does to the files decides what it does to the scans         *)
(***************************************************************************)
\* What the lemmas below use of the two invariants.
LEMMA ScanFacts ==
  ASSUME IInv
  PROVE  /\ files \in Seq(File) /\ Len(files) \in Nat \ {0} /\ DOMAIN files = 1 .. Len(files)
         /\ Current = files[Len(files)]
         /\ \A i \in 1 .. Len(files) : files[i] \in File /\ Lines(i) \in Seq(Line)
         /\ \A r \in Reader : /\ scan[r].file \in 1 .. Len(files)
                              /\ scan[r].next \in Nat \ {0}
                              /\ scan[r].out \in Seq(Event)
         /\ NoEvent \notin Event
<1>1. files \in Seq(File) /\ Len(files) \in Nat \ {0} /\ DOMAIN files = 1 .. Len(files)
  BY CurrentType DEF IInv, TypeOK
<1>2. ASSUME NEW i \in 1 .. Len(files)
      PROVE  files[i] \in File /\ Lines(i) \in Seq(Line)
  <2>1. files[i] \in File
    BY <1>1
  <2> QED
    BY <2>1, ContentLines DEF Lines
<1>3. ASSUME NEW r \in Reader
      PROVE  scan[r].file \in 1 .. Len(files) /\ scan[r].next \in Nat \ {0} /\ scan[r].out \in Seq(Event)
  BY <1>1 DEF IInv, TypeOK, CallInv
<1> QED
  BY <1>1, <1>2, <1>3 DEF Current, Event, NoEvent

\* No event becomes unborn again, as nothing is appended twice.
LEMMA UnbornShrinks ==
  ASSUME UNCHANGED created, \A q \in Proc : Appending(q)' => Appending(q) /\ job'[q].arg = job[q].arg
  PROVE  Unborn' \subseteq Unborn
BY DEF Unborn

\* A step that changes no file.
LEMMA FilesUnchanged ==
  ASSUME ScanInv, UNCHANGED <<files, scan>>, acked \subseteq acked', Unborn' \subseteq Unborn
  PROVE  ScanInv'
<1>1. \A i : Lines(i)' = Lines(i)
  BY DEF Lines
<1>2. \A r : Ahead(r)' = Ahead(r)
  BY DEF Ahead, Lines
<1>3. LinesInv'
  BY <1>1 DEF ScanInv, LinesInv
<1>4. \A r \in Reader : ReadInv(r)'
  BY <1>2 DEF ScanInv, ReadInv
<1> QED
  BY <1>3, <1>4 DEF ScanInv

\* A step that leaves the lines of every file as they are: the repair of a tail.
LEMMA LinesUnchanged ==
  ASSUME ScanInv, IInv, Len(files') = Len(files), \A i \in 1 .. Len(files) : Lines(i)' = Lines(i),
         UNCHANGED <<scan, acked>>, Unborn' \subseteq Unborn
  PROVE  ScanInv'
<1>1. \A r \in Reader : Ahead(r)' = Ahead(r)
  <2> SUFFICES ASSUME NEW r \in Reader
               PROVE  Ahead(r)' = Ahead(r)
    OBVIOUS
  <2>1. Lines(scan[r].file)' = Lines(scan[r].file)
    BY ScanFacts
  <2> QED
    BY <2>1 DEF Ahead
<1>2. LinesInv'
  BY DEF ScanInv, LinesInv
<1>3. \A r \in Reader : ReadInv(r)'
  BY <1>1 DEF ScanInv, ReadInv
<1> QED
  BY <1>2, <1>3 DEF ScanInv

\* A write, whole or torn, of an event that no file has held.
LEMMA WriteKeepsScans ==
  ASSUME ScanInv, IInv, NEW e \in Unborn \ Unborn', Unborn' \subseteq Unborn, acked \subseteq acked',
         NEW g \in File, Grown(Content(Current), Content(g), e),
         files' = [files EXCEPT ![Len(files)] = g], UNCHANGED scan
  PROVE  ScanInv'
<1> DEFINE m == Len(files)
           c == Content(Current)
           d == Content(g)
<1>1. /\ m \in Nat \ {0} /\ Len(files') = m
      /\ \A i \in 1 .. m : Lines(i)' = IF i = m THEN d ELSE Lines(i)
      /\ Lines(m) = c /\ m \in 1 .. m
  <2>1. m \in Nat \ {0} /\ Len(files') = m /\ m \in 1 .. m /\ Current = files[m]
    BY ScanFacts
  <2>2. \A i \in 1 .. m : files'[i] = IF i = m THEN g ELSE files[i]
    BY ScanFacts
  <2>3. \A i \in 1 .. m : Lines(i)' = IF i = m THEN d ELSE Lines(i)
    BY <2>2 DEF Lines
  <2> QED
    BY <2>1, <2>3 DEF Lines
<1>2. c \in Seq(Line) /\ d \in Seq(Line)
  <2>1. Lines(m) \in Seq(Line)
    BY <1>1, ScanFacts
  <2>2. Content(g) \in Seq(Line)
    BY ContentLines
  <2> QED
    BY <1>1, <2>1, <2>2
<1>3. Once(c) /\ Range(c) \cap Unborn = {}
  <2>1. Once(Lines(m)) /\ Range(Lines(m)) \cap Unborn = {}
    BY <1>1 DEF ScanInv, LinesInv
  <2> QED
    BY <1>1, <2>1
<1>4. /\ Once(d) /\ Range(d) \subseteq Range(c) \cup {NoEvent, e}
      /\ \A n \in Nat \ {0} :
            /\ {d[a] : a \in n .. Len(d)} \subseteq {c[a] : a \in n .. Len(c)} \cup {NoEvent, e}
            /\ {c[a] : a \in n .. Len(c)} \cap acked \subseteq {d[a] : a \in n .. Len(d)}
  <2>1. e \notin Range(c)
    BY <1>3
  <2>2. Grown(c, d, e)
    OBVIOUS
  <2> HIDE DEF c, d, m
  <2> QED
    BY <1>2, <1>3, <2>1, <2>2, GrownLines
<1> HIDE DEF c, d, m
<1>5. NoEvent \notin Unborn' /\ NoEvent \notin Unborn
  BY ScanFacts DEF Unborn
<1>6. Range(d) \cap Unborn' = {}
  BY <1>3, <1>4, <1>5
<1>7. LinesInv'
  BY <1>1, <1>4, <1>6 DEF ScanInv, LinesInv, m
<1>8. ASSUME NEW r \in Reader
      PROVE  ReadInv(r)'
  <2> DEFINE n == scan[r].next
             out == scan[r].out
  <2>1. n \in Nat \ {0} /\ out \in Seq(Event) /\ scan[r].file \in 1 .. m /\ Range(out) \subseteq Event
    BY ScanFacts DEF m, Range
  <2>2. ReadInv(r)
    BY DEF ScanInv
  <2>3. CASE scan[r].file # m
    <3>1. Ahead(r)' = Ahead(r)
      BY <1>1, <2>1, <2>3 DEF Ahead
    <3> QED
      BY <2>2, <3>1 DEF ReadInv
  <2>4. CASE scan[r].file = m
    <3>1. Ahead(r) = {c[a] : a \in n .. Len(c)}
      BY <1>1, <2>1, <2>4 DEF Ahead
    <3>2. Ahead(r)' = {d[a] : a \in n .. Len(d)}
      BY <1>1, <2>1, <2>4 DEF Ahead
    <3>3. Ahead(r)' \subseteq Ahead(r) \cup {NoEvent, e} /\ Ahead(r) \cap acked \subseteq Ahead(r)'
      BY <1>4, <2>1, <3>1, <3>2
    <3>4. NoEvent \notin Range(out) /\ e \notin Range(out)
      BY <2>1, <2>2, ScanFacts DEF ReadInv
    <3> QED
      BY <2>2, <3>3, <3>4 DEF ReadInv
  <2> QED
    BY <2>3, <2>4
<1> QED
  BY <1>7, <1>8 DEF ScanInv

\* A rewrite publishes another inode: the scans under way stay on theirs.
LEMMA PublishKeepsScans ==
  ASSUME ScanInv, IInv, Unborn' \subseteq Unborn, UNCHANGED <<scan, acked>>,
         NEW g \in File, files' = Append(files, g),
         DOMAIN Content(g) = DOMAIN Content(Current),
         \A a \in DOMAIN Content(Current) : Content(g)[a] \in {Content(Current)[a], NoEvent}
  PROVE  ScanInv'
<1> DEFINE m == Len(files)
           c == Content(Current)
           d == Content(g)
<1>1. /\ m \in Nat \ {0} /\ Len(files') = m + 1
      /\ \A i \in 1 .. m : Lines(i)' = Lines(i)
      /\ \A i : i = m + 1 => Lines(i)' = d
      /\ Lines(m) = c
  <2>1. /\ Len(files') = m + 1 /\ files'[m + 1] = g
        /\ \A i \in 1 .. m : files'[i] = files[i]
    BY ScanFacts, AppendProperties
  <2>2. m \in Nat \ {0} /\ Current = files[m]
    BY ScanFacts
  <2>3. \A i \in 1 .. m : Lines(i)' = Lines(i)
    BY <2>1 DEF Lines
  <2>4. \A i : i = m + 1 => Lines(i)' = d
    BY <2>1 DEF Lines
  <2> QED
    BY <2>1, <2>2, <2>3, <2>4 DEF Lines
<1>2. Once(c) /\ Range(c) \cap Unborn = {}
  BY <1>1 DEF ScanInv, LinesInv
<1> HIDE DEF c, d, m
<1>3. DOMAIN d = DOMAIN c /\ \A a \in DOMAIN c : d[a] \in {c[a], NoEvent}
  BY DEF c, d
<1>4. NoEvent \notin Unborn'
  BY ScanFacts DEF Unborn
<1>5. Once(d)
  BY <1>2, <1>3 DEF Once
<1>6. Range(d) \cap Unborn' = {}
  BY <1>2, <1>3, <1>4 DEF Range
<1>7. LinesInv'
  <2> SUFFICES ASSUME NEW i \in 1 .. m + 1
               PROVE  (Once(Lines(i)) /\ Range(Lines(i)) \cap Unborn = {})'
    BY <1>1 DEF LinesInv
  <2>1. i = m + 1 \/ i \in 1 .. m
    BY <1>1
  <2>2. CASE i = m + 1
    <3>1. Lines(i)' = d
      BY <1>1, <2>2
    <3> QED
      BY <1>5, <1>6, <3>1
  <2>3. CASE i \in 1 .. m
    BY <1>1, <2>3 DEF ScanInv, LinesInv, m
  <2> QED
    BY <2>1, <2>2, <2>3
<1>8. \A r \in Reader : Ahead(r)' = Ahead(r)
  BY <1>1, ScanFacts DEF Ahead, m
<1>9. \A r \in Reader : ReadInv(r)'
  BY <1>8 DEF ScanInv, ReadInv
<1> QED
  BY <1>7, <1>9 DEF ScanInv

\* clear empties the inode under the scans, which then owe nothing.
LEMMA ClearKeepsScans ==
  ASSUME ScanInv, IInv, Unborn' \subseteq Unborn, UNCHANGED acked,
         files' = [files EXCEPT ![Len(files)] = EmptyFile],
         scan' = [r \in Reader |-> [scan[r] EXCEPT !.must = {}]]
  PROVE  ScanInv'
<1> DEFINE m == Len(files)
<1>1. Content(EmptyFile) = <<>>
  BY DEF Content, EmptyFile
<1>2. /\ m \in Nat \ {0} /\ Len(files') = m
      /\ \A i \in 1 .. m : Lines(i)' = IF i = m THEN <<>> ELSE Lines(i)
  BY <1>1, ScanFacts DEF Lines
<1> HIDE DEF m
<1>3. Once(<<>>) /\ Range(<<>>) = {}
  BY DEF Once, Range
<1>4. LinesInv'
  BY <1>2, <1>3 DEF ScanInv, LinesInv, m
<1>5. ASSUME NEW r \in Reader
      PROVE  ReadInv(r)'
  <2>1. /\ scan'[r].file = scan[r].file /\ scan'[r].next = scan[r].next
        /\ scan'[r].out = scan[r].out /\ scan'[r].must = {}
    BY DEF IInv, TypeOK
  <2>2. scan[r].file \in 1 .. m /\ scan[r].next \in Nat \ {0}
    BY ScanFacts DEF m
  <2>3. Ahead(r)' \subseteq Ahead(r)
    <3>1. CASE scan[r].file # m
      BY <1>2, <2>1, <2>2, <3>1 DEF Ahead
    <3>2. CASE scan[r].file = m
      <4>1. Lines(scan[r].file)' = <<>>
        BY <1>2, <2>1, <2>2, <3>2
      <4>2. scan'[r].next .. Len(<<>>) = {}
        BY <2>1, <2>2
      <4> QED
        BY <4>1, <4>2 DEF Ahead
    <3> QED
      BY <3>1, <3>2
  <2> QED
    BY <2>1, <2>3 DEF ScanInv, ReadInv
<1> QED
  BY <1>4, <1>5 DEF ScanInv

-----------------------------------------------------------------------------
(***************************************************************************)
(* The steps of a scan                                                     *)
(***************************************************************************)
\* Steps of a reader change nothing but where that reader stands.
LEMMA ScanFrame ==
  ASSUME NEW r \in Reader, IInv, ScanInv, NEW s, scan' = [scan EXCEPT ![r] = s],
         UNCHANGED <<files, pc, job, created, acked>>, ReadInv(r)'
  PROVE  ScanInv'
<1>1. Unborn' = Unborn
  BY DEF Unborn, Appending
<1>2. \A i : Lines(i)' = Lines(i)
  BY DEF Lines
<1>3. LinesInv'
  BY <1>1, <1>2 DEF ScanInv, LinesInv
<1>4. ASSUME NEW q \in Reader \ {r}
      PROVE  ReadInv(q)'
  <2>1. scan'[q] = scan[q]
    BY DEF IInv, TypeOK
  <2>2. Ahead(q)' = Ahead(q)
    BY <2>1 DEF Ahead, Lines
  <2> QED
    BY <1>1, <2>1, <2>2 DEF ScanInv, ReadInv
<1> QED
  BY <1>3, <1>4 DEF ScanInv

\* scan opens the current file: all it must return lies ahead.
LEMMA ScanOpenStep ==
  ASSUME NEW r \in Reader, IInv, ScanInv, ScanOpen(r)
  PROVE  ScanInv'
<1> DEFINE s == [pc |-> "reading", file |-> Len(files), next |-> 1, out |-> <<>>,
                 must |-> acked \cap InFile(Current)]
<1>1. /\ scan' = [scan EXCEPT ![r] = s] /\ scan'[r] = s
      /\ UNCHANGED <<files, pc, job, created, acked>>
  BY DEF ScanOpen, local, history, IInv, TypeOK
<1>2. /\ scan'[r].pc = "reading" /\ scan'[r].file = Len(files) /\ scan'[r].next = 1
      /\ scan'[r].out = <<>> /\ scan'[r].must = acked \cap InFile(Current)
  BY <1>1
<1>3. Current \in File /\ Current = files[Len(files)]
  BY CurrentType DEF IInv, Current
<1>4. Range(Content(Current)) = Range(Current.lines) \cup Range(Current.tail) /\ Content(Current) \in Seq(Line)
  <2>1. Current.lines \in Seq(Line) /\ Current.tail \in Seq(Line)
    BY <1>3, ContentLines
  <2> QED
    BY <2>1, RangeConcat DEF Content
<1>5. Ahead(r)' = {Content(Current)[a] : a \in 1 .. Len(Content(Current))}
  BY <1>1, <1>2, <1>3 DEF Ahead, Lines
<1>6. InFile(Current) \subseteq Ahead(r)'
  <2>1. InFile(Current) \subseteq Range(Content(Current))
    BY <1>4 DEF InFile
  <2>2. Range(Content(Current)) = {Content(Current)[a] : a \in 1 .. Len(Content(Current))}
    BY <1>4 DEF Range
  <2> QED
    BY <1>5, <2>1, <2>2
<1>7. Range(<<>>) = {} /\ IsInjective(<<>>)
  BY DEF Range, IsInjective
<1>8. ReadInv(r)'
  BY <1>1, <1>2, <1>6, <1>7 DEF ReadInv
<1> HIDE DEF s
<1> QED
  BY <1>1, <1>8, ScanFrame

\* scan reads one line: what it skips is no event, and what it returns is
\* neither among what it has returned nor ahead of it.
LEMMA ScanLineStep ==
  ASSUME NEW r \in Reader, IInv, ScanInv, ScanLine(r)
  PROVE  ScanInv'
<1> DEFINE c == Lines(scan[r].file)
           n == scan[r].next
           out == scan[r].out
           new == IF c[n] = NoEvent THEN out ELSE Append(out, c[n])
           s == [pc |-> "reading", file |-> scan[r].file, next |-> n + 1, must |-> scan[r].must,
                 out |-> new]
<1>1. /\ scan' = [scan EXCEPT ![r] = s]
      /\ UNCHANGED <<files, pc, job, created, acked>> /\ n <= Len(c) /\ scan[r].pc = "reading"
  BY Zenon DEF ScanLine, local, history, Lines
<1>2. /\ scan'[r].pc = "reading" /\ scan'[r].file = scan[r].file /\ scan'[r].next = n + 1
      /\ scan'[r].must = scan[r].must /\ scan'[r].out = new
  <2>1. scan'[r] = s
    BY <1>1 DEF IInv, TypeOK
  <2> QED
    BY <2>1
<1>3. /\ c \in Seq(Line) /\ n \in Nat \ {0} /\ out \in Seq(Event) /\ NoEvent \notin Event
      /\ Once(c) /\ Range(c) \cap Unborn = {}
  BY ScanFacts DEF ScanInv, LinesInv
<1>4. Ahead(r) = {c[a] : a \in n .. Len(c)}
  BY DEF Ahead
<1>5. Ahead(r)' = {c[a] : a \in n + 1 .. Len(c)}
  <2>1. Lines(scan[r].file)' = c
    BY <1>1, <1>2 DEF Lines
  <2> QED
    BY <1>1, <1>2 DEF Ahead, Lines
<1>6. ReadInv(r) /\ Unborn' = Unborn /\ acked' = acked /\ acked \subseteq Event
  BY <1>1 DEF ScanInv, Unborn, Appending, IInv, TypeOK
<1> HIDE DEF c, s
<1>7. Len(c) \in Nat /\ DOMAIN c = 1 .. Len(c) /\ n \in DOMAIN c /\ c[n] \in Line
  BY <1>1, <1>3
<1>8. Ahead(r) = Ahead(r)' \cup {c[n]}
  BY <1>3, <1>4, <1>5, <1>7
<1>9. c[n] # NoEvent => c[n] \notin Ahead(r)' /\ c[n] \notin Range(out) /\ c[n] \in Event /\ c[n] \notin Unborn
  <2>1. c[n] \notin Range(out) /\ c[n] \notin Unborn
    BY <1>3, <1>6, <1>7, <1>8 DEF ReadInv, Range
  <2>2. c[n] # NoEvent => c[n] \in Event
    BY <1>7 DEF Line
  <2>3. c[n] # NoEvent => c[n] \notin Ahead(r)'
    BY <1>3, <1>5, <1>7 DEF Once
  <2> QED
    BY <2>1, <2>2, <2>3
<1>10. ASSUME c[n] = NoEvent
       PROVE  ReadInv(r)'
  <2>1. scan'[r].out = out
    BY <1>2, <1>10
  <2>2. c[n] \notin scan[r].must
    BY <1>3, <1>6, <1>10 DEF ReadInv
  <2> QED
    BY <1>2, <1>6, <1>8, <2>1, <2>2 DEF ReadInv
<1>11. ASSUME c[n] # NoEvent
       PROVE  ReadInv(r)'
  <2>1. Range(new) = Range(out) \cup {c[n]}
    BY <1>3, <1>9, <1>11, RangeAppend
  <2>2. IsInjective(new)
    <3>1. /\ Len(out) \in Nat /\ DOMAIN out = 1 .. Len(out) /\ DOMAIN new = 1 .. Len(out) + 1
          /\ new[Len(out) + 1] = c[n] /\ \A k \in 1 .. Len(out) : new[k] = out[k] /\ out[k] # c[n]
      BY <1>3, <1>9, <1>11 DEF Range
    <3>2. IsInjective(out)
      BY <1>6 DEF ReadInv
    <3> HIDE DEF new
    <3> SUFFICES ASSUME NEW a \in 1 .. Len(out) + 1, NEW b \in 1 .. Len(out) + 1, new[a] = new[b]
                 PROVE  a = b
      BY <3>1 DEF IsInjective
    <3>3. (a \in 1 .. Len(out) \/ a = Len(out) + 1) /\ (b \in 1 .. Len(out) \/ b = Len(out) + 1)
      BY <3>1
    <3> QED
      BY <3>1, <3>2, <3>3 DEF IsInjective
  <2>3. /\ IsInjective(scan'[r].out) /\ Range(scan'[r].out) = Range(out) \cup {c[n]}
        /\ scan'[r].must = scan[r].must /\ scan'[r].pc = "reading"
    BY <1>2, <2>1, <2>2
  <2> HIDE DEF new, n, out
  <2>4. Range(scan'[r].out) \cap (Ahead(r)' \cup Unborn') = {}
    BY <1>6, <1>8, <1>9, <1>11, <2>3 DEF ReadInv, out
  <2>5. scan'[r].must \subseteq acked' /\ scan'[r].must \subseteq Range(scan'[r].out) \cup Ahead(r)'
    BY <1>6, <1>8, <2>3 DEF ReadInv, out
  <2> QED
    BY <2>3, <2>4, <2>5 DEF ReadInv
<1>12. ReadInv(r)'
  BY <1>10, <1>11
<1> QED
  BY <1>1, <1>12, ScanFrame

\* scan ends where nothing lies ahead.
LEMMA ScanEndStep ==
  ASSUME NEW r \in Reader, IInv, ScanInv, ScanEnd(r)
  PROVE  ScanInv'
<1> DEFINE s == [scan[r] EXCEPT !.pc = "done"]
<1>1. /\ scan' = [scan EXCEPT ![r] = s]
      /\ UNCHANGED <<files, pc, job, created, acked>>
      /\ scan[r].next > Len(Lines(scan[r].file))
  BY DEF ScanEnd, local, history, Lines
<1>2. /\ scan'[r].file = scan[r].file /\ scan'[r].next = scan[r].next
      /\ scan'[r].must = scan[r].must /\ scan'[r].out = scan[r].out
  BY <1>1 DEF IInv, TypeOK
<1>3. Ahead(r) = {}
  <2>1. Lines(scan[r].file) \in Seq(Line) /\ scan[r].next \in Nat \ {0}
    BY ScanFacts
  <2>2. scan[r].next .. Len(Lines(scan[r].file)) = {}
    BY <1>1, <2>1
  <2> QED
    BY <2>2 DEF Ahead
<1>4. Ahead(r)' = Ahead(r) /\ Unborn' = Unborn
  BY <1>1, <1>2 DEF Ahead, Lines, Unborn, Appending
<1>5. ReadInv(r)'
  BY <1>1, <1>2, <1>3, <1>4 DEF ScanInv, ReadInv
<1> HIDE DEF s
<1> QED
  BY <1>1, <1>5, ScanFrame

-----------------------------------------------------------------------------
(***************************************************************************)
(* The steps of the calls                                                  *)
(***************************************************************************)
\* Leaving a call makes nothing unborn.
LEMMA LeaveUnborn ==
  ASSUME TypeOK, NEW p \in Proc, NEW label \in {"idle", "down"}, Leave(p, label), UNCHANGED created
  PROVE  Unborn' \subseteq Unborn
BY LeaveOthers, UnbornShrinks DEF Appending

\* A write, whole or torn, by a call that is no longer appending afterwards.
LEMMA WriteStep ==
  ASSUME IInv, ScanInv, NEW p \in Proc, pc[p] = "append_write",
         NEW g \in TornWrites(files[fd[p]], job[p].arg) \cup {WholeWrite(files[fd[p]], job[p].arg)},
         files' = [files EXCEPT ![fd[p]] = g], acked \subseteq acked', UNCHANGED <<scan, created>>,
         \A q \in Proc : Appending(q)' => q # p /\ Appending(q) /\ job'[q] = job[q]
  PROVE  ScanInv'
<1> DEFINE e == job[p].arg
<1>1. fd[p] = Len(files) /\ files[fd[p]] = Current /\ Current \in File
  BY CurrentType DEF IInv, CallInv, Current
<1>2. Appending(p) /\ e \in 1 .. created /\ e \in Event
  BY BoundsAssumption DEF IInv, FreshInv, Appending, TypeOK, Event
<1>3. e \in Unborn
  BY <1>2 DEF Unborn
<1>4. e \notin Unborn'
  <2>1. \A q \in Proc : Appending(q)' => job'[q].arg # e
    BY <1>2 DEF IInv, FreshInv
  <2>2. ~(e > created')
    BY <1>2 DEF IInv, TypeOK
  <2> QED
    BY <2>1, <2>2 DEF Unborn
<1>5. Unborn' \subseteq Unborn
  BY UnbornShrinks
<1>6. Range(Current.tail) \cap acked = {} /\ NoEvent \notin acked
  BY DEF IInv, TailInv, TypeOK, Event, NoEvent
<1>7. g \in TornWrites(Current, e) \cup {WholeWrite(Current, e)}
  BY <1>1
<1>8. Grown(Content(Current), Content(g), e)
  BY <1>1, <1>2, <1>6, <1>7, WriteGrows
<1>9. g \in File
  BY <1>1, <1>2, <1>7, WholeWriteFile, TornWriteFile
<1> QED
  BY <1>1, <1>3, <1>4, <1>5, <1>8, <1>9, WriteKeepsScans

\* append: writing the line, in whole or in part.
LEMMA AppendScans ==
  ASSUME IInv, ScanInv, NEW p \in Proc, WriteLine(p) \/ ShortWrite(p)
  PROVE  ScanInv'
<1>1. CASE WriteLine(p)
  <2>1. /\ pc[p] = "append_write" /\ Leave(p, "idle") /\ acked \subseteq acked' /\ UNCHANGED <<scan, created>>
        /\ files' = [files EXCEPT ![fd[p]] = WholeWrite(files[fd[p]], job[p].arg)]
    BY <1>1 DEF WriteLine, Return
  <2>2. \A q \in Proc : Appending(q)' => q # p /\ Appending(q) /\ job'[q] = job[q]
    BY <2>1, LeaveOthers DEF IInv
  <2> QED
    BY <2>1, <2>2, WriteStep
<1>2. CASE ShortWrite(p)
  <2>1. /\ pc[p] = "append_write" /\ UNCHANGED <<scan, created, acked>>
        /\ pc' = [pc EXCEPT ![p] = "exclusive_lock"]
        /\ job' = [job EXCEPT ![p] = [op |-> "repair", arg |-> NoEvent]]
    BY <1>2 DEF ShortWrite, Goto, history
  <2>2. PICK g \in TornWrites(files[fd[p]], job[p].arg) : files' = [files EXCEPT ![fd[p]] = g]
    BY <1>2 DEF ShortWrite
  <2>3. \A q \in Proc : Appending(q)' => q # p /\ Appending(q) /\ job'[q] = job[q]
    BY <2>1 DEF Appending, IInv, TypeOK
  <2> QED
    BY <2>1, <2>2, <2>3, WriteStep
<1> QED
  BY <1>1, <1>2

\* A kill: the dead actor's write may have reached the file.
LEMMA KillScans ==
  ASSUME IInv, ScanInv, NEW p \in Proc, Kill(p)
  PROVE  ScanInv'
<1>1. Leave(p, "down") /\ UNCHANGED <<scan, created, acked>> /\ TypeOK
  BY DEF Kill, history, IInv
<1>2. CASE pc[p] = "append_write"
  <2>1. PICK g \in TornWrites(files[fd[p]], job[p].arg) \cup {WholeWrite(files[fd[p]], job[p].arg)} :
           files' = [files EXCEPT ![fd[p]] = g]
    BY <1>2 DEF Kill
  <2>2. \A q \in Proc : Appending(q)' => q # p /\ Appending(q) /\ job'[q] = job[q]
    BY <1>1, LeaveOthers
  <2> QED
    BY <1>1, <1>2, <2>1, <2>2, WriteStep
<1>3. CASE pc[p] # "append_write"
  BY <1>1, <1>3, LeaveUnborn, FilesUnchanged DEF Kill
<1> QED
  BY <1>2, <1>3

\* The repair of a tail, retention, redaction and clear.
LEMMA RewriteScans ==
  ASSUME IInv, ScanInv, NEW p \in Proc, RepairTail(p) \/ Replace(p) \/ Clear(p)
  PROVE  ScanInv'
<1>1. Leave(p, "idle") /\ UNCHANGED <<created, acked>> /\ Current \in File
  BY CurrentType DEF RepairTail, Replace, Clear, Return, history, IInv
<1>2. Unborn' \subseteq Unborn
  BY <1>1, LeaveUnborn DEF IInv
<1>3. CASE RepairTail(p)
  <2>1. scan' = scan
    BY <1>3 DEF RepairTail
  <2>2. CASE files' = [files EXCEPT ![Len(files)] = Repaired(files[Len(files)])]
    <3>1. Content(Repaired(Current)) = Content(Current)
      <4>1. Repaired(Current) \in File /\ Repaired(Current).tail = <<>> /\ Repaired(Current).lines = Content(Current)
        BY <1>1, RepairedFile DEF Repaired
      <4>2. Content(Current) \in Seq(Line)
        BY <1>1, ContentLines
      <4> QED
        BY <4>1, <4>2, ConcatEmptySeq DEF Content
    <3>2. /\ Len(files') = Len(files)
          /\ \A i \in 1 .. Len(files) : files'[i] = IF i = Len(files) THEN Repaired(Current) ELSE files[i]
      <4> DEFINE h == Repaired(Current)
      <4>1. files' = [files EXCEPT ![Len(files)] = h] /\ h \in File
        BY <1>1, <2>2, RepairedFile DEF Current
      <4> HIDE DEF h
      <4>2. Len(files') = Len(files) /\ \A i \in 1 .. Len(files) : files'[i] = IF i = Len(files) THEN h ELSE files[i]
        BY <4>1, ScanFacts
      <4> QED
        BY <4>2 DEF h
    <3>3. \A i \in 1 .. Len(files) : Lines(i)' = Lines(i)
      BY <3>1, <3>2, ScanFacts DEF Lines
    <3> QED
      BY <1>1, <1>2, <2>1, <3>2, <3>3, LinesUnchanged
  <2>3. CASE UNCHANGED files
    BY <1>1, <1>2, <2>1, <2>3, FilesUnchanged
  <2> QED
    BY <1>3, <2>2, <2>3 DEF RepairTail
<1>4. CASE Replace(p)
  <2> DEFINE g == Rewritten(job[p], Current)
  <2>1. /\ job[p].op \in {"truncate", "redact"} /\ job[p].arg \in Nat /\ chunks[p] = g
        /\ scan' = scan
    BY <1>4, BoundsAssumption DEF Replace, IInv, CallInv, TypeOK
  <2>2. g \in File
    BY <1>1, <2>1, RewrittenFile
  <2>3. /\ DOMAIN Content(g) = DOMAIN Content(Current)
        /\ \A a \in DOMAIN Content(Current) : Content(g)[a] \in {Content(Current)[a], NoEvent}
    BY <1>1, <2>1, RewriteKeepsPlaces
  <2>4. files' = Append(files, g)
    BY <1>4, <2>1 DEF Replace, Publish
  <2> HIDE DEF g
  <2> QED
    BY <1>1, <1>2, <2>1, <2>2, <2>3, <2>4, PublishKeepsScans
<1>5. CASE Clear(p)
  BY <1>1, <1>2, <1>5, ClearKeepsScans DEF Clear
<1> QED
  BY <1>3, <1>4, <1>5

\* A new event takes its number from those not created: it stays unborn.
LEMMA BeginAppendScans ==
  ASSUME IInv, ScanInv, NEW p \in Proc, BeginAppend(p)
  PROVE  ScanInv'
<1>1. /\ pc[p] = "idle" /\ created' = created + 1 /\ pc' = [pc EXCEPT ![p] = "append_lock"]
      /\ job' = [job EXCEPT ![p] = [op |-> "append", arg |-> created + 1]]
      /\ UNCHANGED <<files, scan, acked>>
  BY DEF BeginAppend, Goto, history
<1>2. /\ \A q \in Proc : Appending(q)' => q = p \/ (Appending(q) /\ job'[q] = job[q])
      /\ job'[p].arg = created + 1 /\ created \in Nat
  BY <1>1 DEF Appending, IInv, TypeOK
<1>3. Unborn' \subseteq Unborn
  <2> SUFFICES ASSUME NEW e \in Unborn'
               PROVE  e \in Unborn
    OBVIOUS
  <2>1. e \in Event /\ e \in Nat
    BY DEF Unborn, Event
  <2>2. CASE e > created'
    BY <1>1, <1>2, <2>1, <2>2 DEF Unborn
  <2>3. CASE \E q \in Proc : Appending(q)' /\ job'[q].arg = e
    BY <1>2, <2>1, <2>3 DEF Unborn
  <2> QED
    BY <2>2, <2>3 DEF Unborn
<1> QED
  BY <1>1, <1>3, FilesUnchanged

\* The remaining steps touch no file and start or end no append.
LEMMA OtherScans ==
  ASSUME IInv, ScanInv, NEW p \in Proc,
         \/ LockShared(p) \/ OpenForAppend(p) \/ BeginRewrite(p) \/ LockExclusive(p)
         \/ ReadLines(p) \/ RewriteFails(p) \/ Reopen(p)
  PROVE  ScanInv'
<1>1. UNCHANGED <<files, scan, created, acked>>
  BY DEF LockShared, OpenForAppend, BeginRewrite, LockExclusive, ReadLines, RewriteFails, Reopen, history
<1>2. Unborn' \subseteq Unborn
  <2>1. CASE LockShared(p) \/ OpenForAppend(p)
    <3>1. \A q \in Proc : Appending(q)' => Appending(q) /\ job'[q].arg = job[q].arg
      BY <2>1 DEF LockShared, OpenForAppend, Goto, Appending, IInv, TypeOK
    <3> QED
      BY <1>1, <3>1, UnbornShrinks
  <2>2. CASE BeginRewrite(p) \/ LockExclusive(p) \/ Reopen(p)
    <3>1. \A q \in Proc : Appending(q)' => Appending(q) /\ job'[q].arg = job[q].arg
      BY <2>2 DEF BeginRewrite, LockExclusive, Reopen, Goto, Appending, IInv, TypeOK
    <3> QED
      BY <1>1, <3>1, UnbornShrinks
  <2>3. CASE ReadLines(p) \/ RewriteFails(p)
    <3>1. CASE Return(p)
      BY <1>1, <3>1, LeaveUnborn DEF Return, IInv
    <3>2. CASE ReadLines(p) /\ UNCHANGED job /\ Goto(p, "replace")
      <4>1. \A q \in Proc : Appending(q)' => Appending(q) /\ job'[q].arg = job[q].arg
        BY <3>2 DEF Goto, Appending, IInv, TypeOK
      <4> QED
        BY <1>1, <4>1, UnbornShrinks
    <3> QED
      BY <2>3, <3>1, <3>2 DEF ReadLines, RewriteFails
  <2> QED
    BY <2>1, <2>2, <2>3
<1> QED
  BY <1>1, <1>2, FilesUnchanged

-----------------------------------------------------------------------------
(***************************************************************************)
(* The theorem                                                             *)
(***************************************************************************)
\* Before the first scan there is nothing to owe.
LEMMA ScanInit == Init => ScanInv
<1> SUFFICES ASSUME Init
             PROVE  ScanInv
  OBVIOUS
<1>1. files = <<EmptyFile>> /\ Len(files) = 1 /\ files[1] = EmptyFile
  BY DEF Init
<1>2. Content(EmptyFile) = <<>>
  BY DEF Content, EmptyFile
<1>3. Lines(1) = <<>> /\ Once(<<>>) /\ Range(<<>>) = {} /\ IsInjective(<<>>)
  BY <1>1, <1>2 DEF Lines, Once, Range, IsInjective
<1>4. LinesInv
  BY <1>1, <1>3 DEF LinesInv
<1>5. \A r \in Reader : ReadInv(r)
  BY <1>3 DEF Init, ReadInv
<1> QED
  BY <1>4, <1>5 DEF ScanInv

\* Every step of every actor keeps what the scans know.
LEMMA ScanNext == IInv /\ ScanInv /\ [Next]_vars => ScanInv'
<1> SUFFICES ASSUME IInv, ScanInv, [Next]_vars
             PROVE  ScanInv'
  OBVIOUS
<1>1. ASSUME NEW p \in Proc, CallStep(p)
      PROVE  ScanInv'
  BY <1>1, AppendScans, RewriteScans, OtherScans DEF CallStep
<1>2. ASSUME NEW p \in Proc, BeginAppend(p) \/ BeginRewrite(p) \/ Kill(p) \/ Reopen(p)
      PROVE  ScanInv'
  BY <1>2, BeginAppendScans, KillScans, OtherScans
<1>3. ASSUME NEW r \in Reader, ScanOpen(r) \/ ScanLine(r) \/ ScanEnd(r)
      PROVE  ScanInv'
  BY <1>3, ScanOpenStep, ScanLineStep, ScanEndStep
<1>4. CASE UNCHANGED vars
  <2>1. UNCHANGED <<files, scan, acked, created, pc, job>>
    BY <1>4 DEF vars, local, history
  <2>2. Unborn' = Unborn
    BY <2>1 DEF Unborn, Appending
  <2> QED
    BY <2>1, <2>2, FilesUnchanged
<1> QED
  BY <1>1, <1>2, <1>3, <1>4 DEF Next

\* A scan, which takes no lock, returns every event that was acknowledged and
\* readable when it opened the file, and none twice, for any number of readers,
\* threads, rewrites, short writes and kills that overlap it.
THEOREM ScansAreComplete == Spec => []ScanComplete
<1>1. IInv /\ ScanInv /\ [Next]_vars => ScanInv'
  BY ScanNext
<1>2. ScanInv => ScanComplete
  BY DEF ScanInv, ReadInv, ScanComplete
<1> QED
  BY <1>1, <1>2, ScanInit, Invariant, PTL DEF Spec

-----------------------------------------------------------------------------
(***************************************************************************)
(* The store implements EventLog: every step is a step of the abstract log *)
(* or changes nothing that a reader can see.  Lines keep their places when *)
(* a file is rewritten, and a place in the content of the current file is  *)
(* a place of the log.                                                     *)
(***************************************************************************)
\* What the readable lines of a content are.
LEMMA ReadableLines ==
  ASSUME NEW c \in Seq(Line)
  PROVE  LET l == Readable(c) IN
         /\ DOMAIN l = {i \in 1 .. Len(c) : c[i] # NoEvent}
         /\ l = [i \in DOMAIN l |-> c[i]]
         /\ \A i \in DOMAIN l : l[i] = c[i]
         /\ Range(l) = Range(c) \ {NoEvent}
<1> DEFINE S == {i \in DOMAIN c : c[i] # NoEvent}
<1>1. DOMAIN c = 1 .. Len(c)
  OBVIOUS
<1>2. Readable(c) = [i \in S |-> c[i]]
  BY DEF Readable, Restrict
<1> HIDE DEF S
<1>3. DOMAIN Readable(c) = S /\ \A i \in S : Readable(c)[i] = c[i]
  BY <1>2
<1>4. Range(Readable(c)) = Range(c) \ {NoEvent}
  BY <1>3 DEF Range, S
<1>5. S = {i \in 1 .. Len(c) : c[i] # NoEvent}
  BY <1>1 DEF S
<1> QED
  BY <1>2, <1>3, <1>4, <1>5, Zenon

\* The last of the lines is blanked, or was blank, or there is none at its place yet.
LEMMA BlankedLast ==
  ASSUME NEW c \in Seq(Line), NEW d \in Seq(Line), NEW n \in Nat,
         Len(c) \in {n, n + 1}, Len(d) = n + 1, d[n + 1] = NoEvent,
         \A a \in 1 .. n : d[a] = c[a],
         Len(c) = n + 1 => c[n + 1] \notin acked
  PROVE  Readable(d) \in Log!Lapsed(Readable(c))
<1> DEFINE l == Readable(c)
           m == Readable(d)
           k == n + 1
<1>1. /\ DOMAIN l = {i \in 1 .. Len(c) : c[i] # NoEvent}
      /\ l = [i \in DOMAIN l |-> c[i]]
      /\ \A i \in DOMAIN l : l[i] = c[i]
  BY ReadableLines
<1>2. DOMAIN m = {i \in 1 .. Len(d) : d[i] # NoEvent} /\ m = [i \in DOMAIN m |-> d[i]]
  BY ReadableLines
<1>3. DOMAIN m = {i \in 1 .. n : c[i] # NoEvent}
  BY <1>2
<1>4. m = [i \in DOMAIN m |-> c[i]]
  BY <1>2, <1>3
<1>5. DOMAIN m = DOMAIN l \ {k}
  BY <1>1, <1>3
<1> HIDE DEF l, m
<1>6. CASE k \notin DOMAIN l
  <2>1. m = l
    BY <1>1, <1>4, <1>5, <1>6
  <2> QED
    BY <2>1 DEF Log!Lapsed, l, m
<1>7. CASE k \in DOMAIN l
  <2>1. Len(c) = k /\ l[k] \notin acked
    BY <1>1, <1>7
  <2>2. Log!IsLast(l, k)
    BY <1>1, <1>7, <2>1 DEF Log!IsLast
  <2>3. m = Restrict(l, DOMAIN l \ {k})
    BY <1>1, <1>4, <1>5 DEF Restrict
  <2> QED
    BY <1>7, <2>1, <2>2, <2>3 DEF Log!Lapsed, Log!Restrict, Restrict, l, m
<1> QED
  BY <1>6, <1>7

\* e stands at place i behind all others.
Added(l, m, i, e) == /\ \A j \in DOMAIN l : j < i
                     /\ m = [j \in DOMAIN l \cup {i} |-> IF j = i THEN e ELSE l[j]]

\* A line behind all others is an entry behind all others.
LEMMA AddedLast ==
  ASSUME NEW c \in Seq(Line), NEW d \in Seq(Line), NEW e \in Event,
         Len(d) = Len(c) + 1, d[Len(d)] = e, \A a \in 1 .. Len(c) : d[a] = c[a]
  PROVE  Added(Readable(c), Readable(d), Len(d), e)
<1> DEFINE l == Readable(c)
           m == Readable(d)
           k == Len(d)
<1>1. /\ DOMAIN l = {i \in 1 .. Len(c) : c[i] # NoEvent}
      /\ \A i \in DOMAIN l : l[i] = c[i]
  BY ReadableLines
<1>2. DOMAIN m = {i \in 1 .. k : d[i] # NoEvent} /\ m = [i \in DOMAIN m |-> d[i]]
  BY ReadableLines
<1>3. e # NoEvent /\ Len(c) \in Nat
  BY DEF Event, NoEvent
<1>4. DOMAIN m = DOMAIN l \cup {k}
  BY <1>1, <1>2, <1>3
<1>5. \A j \in DOMAIN l : j < k
  BY <1>1, <1>3
<1> HIDE DEF l, m
<1>6. \A j \in DOMAIN m : d[j] = IF j = k THEN e ELSE l[j]
  BY <1>1, <1>4, <1>5
<1>7. m = [j \in DOMAIN l \cup {k} |-> IF j = k THEN e ELSE l[j]]
  BY <1>2, <1>4, <1>6
<1> QED
  BY <1>5, <1>7 DEF Added, l, m

\* A write puts the event at the end, or leaves the log as it was but for an
\* unterminated line; on a clean tail a whole write is the former, else the latter.
LEMMA WriteRefines ==
  ASSUME NEW e \in Event, NEW f \in File, Range(f.tail) \cap acked = {},
         NEW g \in TornWrites(f, e) \cup {WholeWrite(f, e)}
  PROVE  LET l == Readable(Content(f))
             m == Readable(Content(g)) IN
         /\ Added(l, m, Len(Content(g)), e) \/ m \in Log!Lapsed(l)
         /\ g = WholeWrite(f, e) => IF f.tail = <<>> THEN Added(l, m, Len(Content(g)), e)
                                                     ELSE m \in Log!Lapsed(l)
<1> DEFINE c == Content(f)
           d == Content(g)
           s == f.lines
           t == f.tail
           u == g.tail
           n == Len(s)
           l == Readable(c)
           m == Readable(d)
<1>1. g \in File
  BY WholeWriteFile, TornWriteFile
<1>2. /\ c \in Seq(Line) /\ s \in Seq(Line) /\ t \in Seq(Line) /\ Len(t) \in {0, 1}
      /\ Len(c) = n + Len(t)
      /\ \A a \in 1 .. Len(c) : c[a] = IF a <= n THEN s[a] ELSE t[a - n]
  BY ContentLines, Zenon
<1>3. /\ d \in Seq(Line) /\ g.lines \in Seq(Line) /\ u \in Seq(Line) /\ Len(u) \in {0, 1}
      /\ Len(d) = Len(g.lines) + Len(u)
      /\ \A a \in 1 .. Len(d) : d[a] = IF a <= Len(g.lines) THEN g.lines[a] ELSE u[a - Len(g.lines)]
  BY <1>1, ContentLines, Zenon
<1>4. \A i \in DOMAIN t : t[i] \notin acked
  BY DEF Range
<1>5. \/ g = WholeWrite(f, e) /\ g.lines = Append(s, IF t = <<>> THEN e ELSE NoEvent) /\ u = <<>>
      \/ g.lines = s /\ u = t
      \/ g.lines = s /\ u = <<NoEvent>>
      \/ g.lines = s /\ t = <<>> /\ u = <<e>>
  <2>1. CASE g = WholeWrite(f, e)
    BY <2>1 DEF WholeWrite
  <2>2. CASE g \in TornWrites(f, e)
    BY <2>2 DEF TornWrites, File
  <2> QED
    BY <2>1, <2>2
<1>6. g = WholeWrite(f, e) => g.lines = Append(s, IF t = <<>> THEN e ELSE NoEvent) /\ u = <<>>
  BY DEF WholeWrite
<1> HIDE DEF c, d, s, t, u, l, m
<1>7. n \in Nat /\ Len(c) \in {n, n + 1} /\ (t = <<>> <=> Len(c) = n) /\ (Len(c) = n + 1 => c[n + 1] \notin acked)
  <2>1. n \in Nat /\ (t = <<>> <=> Len(t) = 0)
    BY <1>2
  <2>2. ASSUME Len(c) = n + 1 PROVE c[n + 1] \notin acked
    <3>1. Len(t) = 1
      BY <1>2, <2>1, <2>2
    <3>2. c[n + 1] = t[1] /\ 1 \in DOMAIN t
      BY <1>2, <2>1, <2>2, <3>1
    <3> QED
      BY <1>4, <3>2
  <2> QED
    BY <1>2, <2>1, <2>2
<1>8. ASSUME NEW x \in {e, NoEvent}, x = e => t = <<>>, Len(d) = n + 1, d[n + 1] = x,
             \A a \in 1 .. n : d[a] = c[a]
      PROVE  IF x = e THEN Added(l, m, Len(d), e) ELSE m \in Log!Lapsed(l)
  <2>1. CASE x = e
    BY <1>2, <1>3, <1>7, <1>8, <2>1, AddedLast DEF l, m
  <2>2. CASE x = NoEvent /\ x # e
    <3>1. Readable(d) \in Log!Lapsed(Readable(c))
      BY <1>2, <1>3, <1>7, <1>8, <2>2, BlankedLast
    <3> QED
      BY <2>2, <3>1 DEF l, m
  <2> QED
    BY <1>8, <2>1, <2>2
<1>9. e # NoEvent
  BY DEF Event, NoEvent
<1>10. ASSUME g.lines = Append(s, IF t = <<>> THEN e ELSE NoEvent), u = <<>>
       PROVE  IF t = <<>> THEN Added(l, m, Len(d), e) ELSE m \in Log!Lapsed(l)
  <2> DEFINE x == IF t = <<>> THEN e ELSE NoEvent
  <2>1. x \in Line
    BY DEF Line
  <2> HIDE DEF x
  <2>2. /\ Len(g.lines) = n + 1 /\ g.lines[n + 1] = x
        /\ \A a \in 1 .. n : g.lines[a] = s[a]
    BY <1>2, <1>7, <1>10, <2>1 DEF x
  <2>3. Len(d) = n + 1 /\ d[n + 1] = x /\ \A a \in 1 .. n : d[a] = s[a]
    BY <1>3, <1>7, <1>10, <2>2
  <2>4. \A a \in 1 .. n : d[a] = c[a]
    BY <1>2, <1>7, <2>3
  <2> QED
    BY <1>8, <1>9, <2>3, <2>4 DEF x
<1>11. ASSUME g.lines = s
       PROVE  Len(d) = n + Len(u) /\ (\A a \in 1 .. n : d[a] = c[a]) /\ (Len(u) = 1 => d[n + 1] = u[1])
  <2>1. Len(d) = n + Len(u) /\ \A a \in 1 .. Len(d) : d[a] = IF a <= n THEN s[a] ELSE u[a - n]
    BY <1>3, <1>11
  <2>2. Len(u) \in {0, 1} /\ n \in Nat
    BY <1>3, <1>7
  <2>3. \A a \in 1 .. n : d[a] = c[a]
    <3> SUFFICES ASSUME NEW a \in 1 .. n PROVE d[a] = c[a]
      OBVIOUS
    <3>1. a \in 1 .. Len(c) /\ a \in 1 .. Len(d) /\ a <= n
      BY <1>7, <2>1, <2>2
    <3> QED
      BY <1>2, <2>1, <3>1
  <2> QED
    BY <2>1, <2>2, <2>3
<1>12. ASSUME g.lines = s, u = t PROVE m \in Log!Lapsed(l)
  <2>1. Len(d) = Len(c) /\ \A a \in 1 .. Len(c) : d[a] = c[a]
    BY <1>2, <1>3, <1>12
  <2>2. d = c
    BY <1>2, <1>3, <2>1
  <2> QED
    BY <2>2 DEF Log!Lapsed, l, m
<1>13. ASSUME g.lines = s, u = <<NoEvent>> PROVE m \in Log!Lapsed(l)
  BY <1>8, <1>9, <1>11, <1>13
<1>14. ASSUME g.lines = s, t = <<>>, u = <<e>> PROVE Added(l, m, Len(d), e)
  BY <1>8, <1>11, <1>14
<1>15. Added(l, m, Len(d), e) \/ m \in Log!Lapsed(l)
  BY <1>5, <1>10, <1>12, <1>13, <1>14
<1>16. g = WholeWrite(f, e) => IF t = <<>> THEN Added(l, m, Len(d), e) ELSE m \in Log!Lapsed(l)
  BY <1>6, <1>10
<1> QED
  BY <1>15, <1>16 DEF c, d, t, l, m

-----------------------------------------------------------------------------
View == Readable(Content(Current))

\* What the log knows of the events of the current file.
LEMMA ViewFacts ==
  ASSUME IInv
  PROVE  /\ Content(Current) \in Seq(Line) /\ Current \in File
         /\ Range(View) = InFile(Current)
<1>1. Current \in File
  BY CurrentType DEF IInv
<1>2. Content(Current) \in Seq(Line)
  BY <1>1, ContentLines
<1>3. Range(Content(Current)) = Range(Current.lines) \cup Range(Current.tail)
  <2>1. Current.lines \in Seq(Line) /\ Current.tail \in Seq(Line)
    BY <1>1, ContentLines
  <2> QED
    BY <2>1, RangeConcat DEF Content
<1>4. Range(View) = Range(Content(Current)) \ {NoEvent}
  BY <1>2, ReadableLines DEF View
<1> QED
  BY <1>1, <1>2, <1>3, <1>4 DEF InFile

\* A step that changes neither the current content nor what was acknowledged.
LEMMA StutterRefines ==
  ASSUME UNCHANGED <<Content(Current), acked>>
  PROVE  [Log!Next]_(Log!vars)
BY DEF Log!vars, Readable

\* The event a thread is appending is new to the log.
LEMMA AppendedIsNew ==
  ASSUME IInv, NEW p \in Proc, pc[p] = "append_write"
  PROVE  /\ job[p].arg \in Event /\ job[p].arg \notin Range(View) \cup acked
         /\ files[fd[p]] = Current /\ fd[p] = Len(files)
<1>1. job[p].arg \in 1 .. created /\ job[p].arg \notin Present
  BY DEF IInv, FreshInv, Appending
<1>2. job[p].arg \in Event
  BY <1>1, BoundsAssumption DEF IInv, TypeOK, Event
<1>3. files[fd[p]] = Current /\ fd[p] = Len(files)
  BY DEF IInv, CallInv, Current
<1> QED
  BY <1>1, <1>2, <1>3, ViewFacts DEF Present

\* An event at the end of the log is one that is recorded.
LEMMA AddedRefines ==
  ASSUME NEW e \in Event, e \notin Range(View) \cup acked, NEW i, Added(View, View', i, e),
         acked' \in {acked, acked \cup {e}}
  PROVE  Log!Next
<1>1. i \in DOMAIN View'
  BY DEF Added
<1>2. Log!Record(e)
  BY <1>1 DEF Log!Record, Log!Range, Range, Added, View
<1> QED
  BY <1>2 DEF Log!Next

\* A write of a thread, whole or torn, returned, failed or killed.
LEMMA WriteStepRefines ==
  ASSUME IInv, NEW p \in Proc, pc[p] = "append_write",
         NEW g \in TornWrites(files[fd[p]], job[p].arg) \cup {WholeWrite(files[fd[p]], job[p].arg)},
         files' = [files EXCEPT ![fd[p]] = g],
         \/ acked' = acked
         \/ acked' = acked \cup {job[p].arg} /\ g = WholeWrite(files[fd[p]], job[p].arg)
  PROVE  Log!Next
<1> DEFINE e == job[p].arg
           f == Current
           k == Len(Content(g))
<1>1. e \in Event /\ e \notin Range(View) \cup acked /\ files[fd[p]] = f /\ fd[p] = Len(files) /\ f \in File
  BY AppendedIsNew, ViewFacts
<1>2. Range(f.tail) \cap acked = {}
  BY DEF IInv, TailInv
<1>3. g \in TornWrites(f, e) \cup {WholeWrite(f, e)} /\ g \in File
  BY <1>1, WholeWriteFile, TornWriteFile
<1>4. Current' = g
  <2>1. files' = [files EXCEPT ![Len(files)] = g]
    BY <1>1
  <2> QED
    BY <1>3, <2>1, UpdateCurrent DEF IInv
<1>5. View' = Readable(Content(g))
  BY <1>4 DEF View, Readable, Content
<1>6. /\ Added(View, View', k, e) \/ View' \in Log!Lapsed(View)
      /\ g = WholeWrite(f, e) => IF f.tail = <<>> THEN Added(View, View', k, e) ELSE View' \in Log!Lapsed(View)
  BY <1>1, <1>2, <1>3, <1>5, WriteRefines DEF View
<1> HIDE DEF k
<1>7. CASE Added(View, View', k, e)
  BY <1>1, <1>7, AddedRefines
<1>8. CASE View' \in Log!Lapsed(View) /\ acked' = acked
  BY <1>8 DEF Log!Next, Log!Lapse, View
<1>9. CASE View' \in Log!Lapsed(View) /\ acked' = acked \cup {e}
  BY <1>1, <1>9 DEF Log!Next, Log!Fuse, Log!Range, Range, View
<1> QED
  BY <1>1, <1>6, <1>7, <1>8, <1>9

\* Retention expires the older events, or resets the log if there are no others.
LEMMA TruncationRefines ==
  ASSUME IInv, NEW before \in 0 .. MaxEvents + 1, acked' = acked,
         Content(Current') = Without(Content(Current), before)
  PROVE  [Log!Next]_(Log!vars)
<1> DEFINE c == Content(Current)
           w == Without(c, before)
<1>1. c \in Seq(Line) /\ DOMAIN View = {i \in 1 .. Len(c) : c[i] # NoEvent} /\ \A i \in DOMAIN View : View[i] = c[i]
  BY ViewFacts, ReadableLines DEF View
<1>2. w \in Seq(Line) /\ Len(w) = Len(c) /\ \A i \in 1 .. Len(c) : w[i] = IF c[i] < before THEN NoEvent ELSE c[i]
  <2> HIDE DEF c
  <2>1. Len(c) \in Nat /\ \A i \in 1 .. Len(c) : c[i] \in Line
    BY <1>1
  <2>2. w = [i \in 1 .. Len(c) |-> IF c[i] < before THEN NoEvent ELSE c[i]]
    BY DEF Without
  <2> QED
    BY <2>1, <2>2 DEF Line
<1>3. View' = Readable(w)
  BY DEF View, Readable, Content
<1>4. DOMAIN View' = {i \in 1 .. Len(w) : w[i] # NoEvent} /\ View' = [i \in DOMAIN View' |-> w[i]]
  BY <1>2, <1>3, ReadableLines
<1> HIDE DEF c, w
<1>5. \A i \in 1 .. Len(c) : c[i] \in Line
  BY <1>1
<1>6. DOMAIN View' = {i \in DOMAIN View : View[i] >= before}
  BY <1>1, <1>2, <1>4, <1>5, BoundsAssumption DEF Line, Event, NoEvent
<1>7. View' = Restrict(View, {i \in DOMAIN View : View[i] >= before})
  <2>1. \A i \in DOMAIN View' : w[i] = View[i]
    BY <1>1, <1>2, <1>4, <1>6
  <2> QED
    BY <1>4, <1>6, <2>1 DEF Restrict
<1>8. CASE before \in Event
  BY <1>7, <1>8 DEF Log!Next, Log!Expire, Log!Restrict, Restrict, View
<1>9. CASE before = 0
  <2>1. {i \in DOMAIN View : View[i] >= before} = DOMAIN View
    BY <1>1, <1>5, <1>9, BoundsAssumption DEF Line, Event, NoEvent
  <2>2. View = [i \in DOMAIN View |-> View[i]]
    BY DEF View, Readable, Restrict
  <2>3. View' = View
    BY <1>7, <2>1, <2>2 DEF Restrict
  <2> QED
    BY <2>3 DEF Log!vars, View
<1>10. CASE before = MaxEvents + 1
  <2>1. before = MaxEvents + 1
    BY <1>10
  <2>2. {i \in DOMAIN View : View[i] >= before} = {}
    BY <1>1, <1>5, <2>1, BoundsAssumption DEF Line, Event, NoEvent
  <2>3. View' = <<>>
    BY <1>7, <2>2 DEF Restrict
  <2> QED
    BY <2>3 DEF Log!Next, Log!Reset, View
<1> QED
  BY <1>8, <1>9, <1>10, BoundsAssumption DEF Event

\* The rename publishes an expired log, or the same log with texts erased.
LEMMA ReplaceRefines ==
  ASSUME IInv, NEW p \in Proc, Replace(p)
  PROVE  [Log!Next]_(Log!vars)
<1> DEFINE j == job[p]
           g == Rewritten(j, Current)
<1>1. /\ pc[p] = "replace" /\ acked' = acked /\ TypeOK
  BY DEF Replace, IInv
<1>2. j.op \in {"truncate", "redact"} /\ j.arg \in 0 .. MaxEvents + 1 /\ chunks[p] = g
  BY <1>1 DEF IInv, CallInv, TypeOK
<1>3. g \in File /\ g.tail = <<>>
  BY <1>2, BoundsAssumption, ViewFacts, RewrittenFile
<1>4. Current' = g
  <2>1. files' = Append(files, g)
    BY <1>2 DEF Replace, Publish
  <2> QED
    BY <1>1, <1>3, <2>1, PublishCurrent
<1>5. Content(Current)' = g.lines
  <2>1. Content(g) = g.lines
    BY <1>3, ContentLines DEF Content
  <2> QED
    BY <1>4, <2>1 DEF Content
<1>6. CASE j.op = "truncate"
  <2>1. Content(Current') = Without(Content(Current), j.arg)
    BY <1>5, <1>6 DEF Rewritten, Content
  <2> QED
    BY <1>1, <1>2, <2>1, TruncationRefines
<1>7. CASE j.op = "redact"
  <2>1. Content(Current)' = Content(Current)
    BY <1>5, <1>7 DEF Rewritten
  <2> QED
    BY <1>1, <2>1, StutterRefines
<1> QED
  BY <1>2, <1>6, <1>7

\* Every step of the store is a step of the log or changes nothing of it.
LEMMA StepRefines ==
  ASSUME IInv, [Next]_vars
  PROVE  [Log!Next]_(Log!vars)
<1>1. ASSUME UNCHANGED <<files, acked>>
      PROVE  [Log!Next]_(Log!vars)
  BY <1>1, StutterRefines DEF Content, Current
<1>2. ASSUME NEW p \in Proc, WriteLine(p)
      PROVE  Log!Next
  <2>1. pc[p] = "append_write" /\ acked' = acked \cup {job[p].arg}
    BY <1>2 DEF WriteLine
  <2>2. files' = [files EXCEPT ![fd[p]] = WholeWrite(files[fd[p]], job[p].arg)]
    BY <1>2 DEF WriteLine
  <2> QED
    BY <2>1, <2>2, WriteStepRefines
<1>3. ASSUME NEW p \in Proc, ShortWrite(p)
      PROVE  Log!Next
  <2>1. pc[p] = "append_write" /\ acked' = acked
    BY <1>3 DEF ShortWrite, history
  <2>2. PICK g \in TornWrites(files[fd[p]], job[p].arg) : files' = [files EXCEPT ![fd[p]] = g]
    BY <1>3 DEF ShortWrite
  <2> QED
    BY <2>1, <2>2, WriteStepRefines
<1>4. ASSUME NEW p \in Proc, Kill(p)
      PROVE  [Log!Next]_(Log!vars)
  <2>1. acked' = acked
    BY <1>4 DEF Kill, history
  <2>2. CASE pc[p] # "append_write"
    BY <1>1, <1>4, <2>1, <2>2 DEF Kill
  <2>3. CASE pc[p] = "append_write"
    <3>1. PICK g \in TornWrites(files[fd[p]], job[p].arg) \cup {WholeWrite(files[fd[p]], job[p].arg)} :
             files' = [files EXCEPT ![fd[p]] = g]
      BY <1>4, <2>3 DEF Kill
    <3> QED
      BY <2>1, <2>3, <3>1, WriteStepRefines
  <2> QED
    BY <2>2, <2>3
<1>5. ASSUME NEW p \in Proc, RepairTail(p)
      PROVE  [Log!Next]_(Log!vars)
  <2>1. acked' = acked
    BY <1>5 DEF RepairTail, history
  <2>2. CASE UNCHANGED files
    BY <1>1, <2>1, <2>2
  <2>3. CASE files' = [files EXCEPT ![Len(files)] = Repaired(files[Len(files)])]
    <3> DEFINE g == Repaired(Current)
    <3>1. g \in File /\ g.tail = <<>>
      BY ViewFacts, RepairedFile
    <3>2. Current' = g
      <4>1. files' = [files EXCEPT ![Len(files)] = g]
        BY <2>3 DEF Current
      <4> QED
        BY <3>1, <4>1, UpdateCurrent DEF IInv
    <3>3. Content(g) = Content(Current)
      <4>1. Content(g) = g.lines
        BY <3>1, ContentLines DEF Content
      <4> QED
        BY <4>1 DEF Repaired
    <3>4. Content(Current)' = Content(Current)
      BY <3>2, <3>3 DEF Content
    <3> QED
      BY <2>1, <3>4, StutterRefines
  <2> QED
    BY <1>5, <2>2, <2>3 DEF RepairTail
<1>6. ASSUME NEW p \in Proc, Clear(p)
      PROVE  Log!Next
  <2>1. acked' = acked /\ files' = [files EXCEPT ![Len(files)] = EmptyFile]
    BY <1>6 DEF Clear
  <2>2. Current' = EmptyFile
    BY <2>1, EmptyFileType, UpdateCurrent DEF IInv
  <2>3. Content(EmptyFile) = <<>>
    BY DEF Content, EmptyFile
  <2>4. View' = Readable(<<>>)
    BY <2>2, <2>3 DEF View, Content
  <2>5. Readable(<<>>) = <<>>
    BY DEF Readable, Restrict
  <2> QED
    BY <2>1, <2>4, <2>5 DEF Log!Next, Log!Reset, View
<1>7. ASSUME NEW p \in Proc, CallStep(p)
      PROVE  [Log!Next]_(Log!vars)
  <2>1. CASE LockShared(p) \/ OpenForAppend(p) \/ LockExclusive(p) \/ ReadLines(p) \/ RewriteFails(p)
    BY <1>1, <2>1 DEF LockShared, OpenForAppend, LockExclusive, ReadLines, RewriteFails, history
  <2> QED
    BY <1>2, <1>3, <1>5, <1>6, <1>7, <2>1, ReplaceRefines DEF CallStep
<1>8. ASSUME NEW p \in Proc, BeginAppend(p) \/ BeginRewrite(p) \/ Reopen(p)
      PROVE  [Log!Next]_(Log!vars)
  BY <1>1, <1>8 DEF BeginAppend, BeginRewrite, Reopen, history
<1>9. ASSUME NEW r \in Reader, ScanOpen(r) \/ ScanLine(r) \/ ScanEnd(r)
      PROVE  [Log!Next]_(Log!vars)
  BY <1>1, <1>9 DEF ScanOpen, ScanLine, ScanEnd, history
<1>10. CASE UNCHANGED vars
  BY <1>1, <1>10 DEF vars, history
<1> QED
  BY <1>4, <1>7, <1>8, <1>9, <1>10 DEF Next

\* JSONLBufferStore keeps the promises of the abstract log, for any number of
\* threads, readers, events, rewrites, short writes and kills: each step enters one
\* whole event at the end, removes exactly the events retention is about, resets,
\* or changes nothing a reader can see; the only things that go wrong are that an
\* unacknowledged last entry lapses, or that one is acknowledged on a torn tail.
THEOREM StoreImplementsLog == Spec => ImplementsLog
<1>1. Init => Log!Init
  <2> SUFFICES ASSUME Init PROVE Log!Init
    OBVIOUS
  <2>1. Current = EmptyFile /\ acked = {}
    BY DEF Init, Current
  <2>2. Readable(Content(EmptyFile)) = <<>>
    BY DEF Readable, Restrict, Content, EmptyFile
  <2> QED
    BY <2>1, <2>2 DEF Log!Init
<1>2. IInv /\ [Next]_vars => [Log!Next]_(Log!vars)
  BY StepRefines
<1> QED
  BY <1>1, <1>2, Invariant, PTL DEF Spec, ImplementsLog, Log!Spec
=============================================================================
