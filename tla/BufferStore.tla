---------------------------- MODULE BufferStore ----------------------------
(***************************************************************************)
(* JSONLBufferStore (store/buffer.py): the JSONL event log that is Engram's *)
(* source of truth, shared by any number of threads and processes through  *)
(* POSIX advisory locks on a sidecar file.                                 *)
(*                                                                         *)
(* Actors of Proc append events and rewrite the file (retention, erasure); *)
(* actors of Reader scan it without any lock.  A write may be cut short    *)
(* (ENOSPC, quota) and an actor may be killed at any step.                 *)
(*                                                                         *)
(* Data.  Events are numbered in the order they are created, which is the  *)
(* order of their timestamps.  A line is the number of the event it holds, *)
(* or NoEvent if every reader skips it (a blank or a corrupt line); a line *)
(* that a rewrite removes becomes such a line in the new file.  tail is    *)
(* what follows the last newline: <<>> for a clean file, <<NoEvent>> for   *)
(* a fragment, <<e>> for event e with only its newline missing.            *)
(***************************************************************************)
EXTENDS Naturals, Sequences, Functions

CONSTANTS
    Proc,           \* threads (of any process) that append and rewrite
    Reader,         \* threads that scan
    MaxEvents,      \* bound: events created
    MaxRewrites,    \* bound: rewrites started
    MaxFaults,      \* bound: short writes, failed repairs and kills
    Tagged          \* the events whose metadata names the memory to redact

NoEvent == 0
Event   == 1 .. MaxEvents
Line    == Event \cup {NoEvent}

ASSUME BoundsAssumption  == MaxEvents \in Nat /\ MaxRewrites \in Nat /\ MaxFaults \in Nat
ASSUME TaggedAssumption  == Tagged \subseteq Event

VARIABLES
    files,      \* the inodes path has named, in order; the last one is current
    shared,     \* holders of the shared lock
    exclusive,  \* holders of the exclusive lock
    pc,         \* pc[p]: where p stands in its call
    job,        \* job[p]: the call p is in and its argument
    fd,         \* fd[p]: the inode p opened for appending
    chunks,     \* chunks[p]: the content a rewriter has read and filtered
    scan,       \* scan[r]: reader r's open file, next line and result
    created, rewrites, faults,          \* counters against the bounds
    acked, fused, dropped, redacted     \* history: see "History" below

locks   == <<shared, exclusive>>
history == <<acked, fused, dropped, redacted>>
local   == <<pc, job, fd, chunks>>
vars    == <<files, locks, local, scan, created, rewrites, faults, history>>

(***************************************************************************)
(* Files                                                                   *)
(***************************************************************************)
Tails == {<<>>} \cup {<<e>> : e \in Line}
File == [lines : Seq(Line), tail : Tails, deleted : SUBSET Event]

EmptyFile == [lines |-> <<>>, tail |-> <<>>, deleted |-> {}]

Current == files[Len(files)]

\* Everything a reader iterates over, the unterminated tail included.
Content(f) == f.lines \o f.tail

InFile(f) == (Range(f.lines) \cup Range(f.tail)) \ {NoEvent}

\* A whole line written with O_APPEND.  On a torn tail it fuses with the
\* fragment into one line that no reader can parse.
WholeWrite(f, e) ==
    [lines |-> Append(f.lines, IF f.tail = <<>> THEN e ELSE NoEvent),
     tail |-> <<>>, deleted |-> f.deleted]

TornWritesStacked(f, e) == {f, [f EXCEPT !.tail = Append(@, NoEvent)]}

\* What an interrupted write may leave: nothing, a fragment, or all but the newline.
TornWrites(f, e) ==
    {f, [f EXCEPT !.tail = <<NoEvent>>], [f EXCEPT !.tail = IF @ = <<>> THEN <<e>> ELSE <<NoEvent>>]}

\* Appending the newline that terminates the tail.
Repaired(f) == [lines |-> Content(f), tail |-> <<>>, deleted |-> f.deleted]

Without(s, before) == [i \in 1 .. Len(s) |-> IF s[i] < before THEN NoEvent ELSE s[i]]

(***************************************************************************)
(* The lock: flock on a descriptor of its own for every acquisition, so    *)
(* that threads of one process exclude each other as processes do.         *)
(***************************************************************************)
CanShareIgnoringRewriter(p)    == TRUE
CanShare(p)                    == exclusive = {}
CanExcludeIgnoringRewriters(p) == shared = {}
CanExcludeIgnoringAppenders(p) == exclusive = {}
CanExclude(p)                  == shared = {} /\ exclusive = {}

Release(p) == /\ shared' = shared \ {p}
              /\ exclusive' = exclusive \ {p}

Goto(p, label) == pc' = [pc EXCEPT ![p] = label]

\* A call's local variables end with it.
Idle == [op |-> "none", arg |-> NoEvent]

Leave(p, label) ==
    /\ Goto(p, label)
    /\ job' = [job EXCEPT ![p] = Idle]
    /\ fd' = [fd EXCEPT ![p] = 0]
    /\ chunks' = [chunks EXCEPT ![p] = EmptyFile]
    /\ Release(p)

Return(p) == Leave(p, "idle")

(***************************************************************************)
(* append                                                                  *)
(***************************************************************************)
\* The caller builds the event, which fixes its timestamp, and calls append.
BeginAppend(p) ==
    /\ pc[p] = "idle"
    /\ created < MaxEvents
    /\ created' = created + 1
    /\ job' = [job EXCEPT ![p] = [op |-> "append", arg |-> created + 1]]
    /\ Goto(p, "append_lock")
    /\ UNCHANGED <<files, locks, fd, chunks, scan, rewrites, faults, history>>

LockShared(p) ==
    /\ pc[p] = "append_lock"
    /\ CanShare(p)
    /\ shared' = shared \cup {p}
    /\ Goto(p, "append_open")
    /\ UNCHANGED <<files, exclusive, job, fd, chunks, scan, created, rewrites, faults, history>>

\* open(self.path, "ab"): only here is path resolved to an inode.
OpenForAppend(p) ==
    /\ pc[p] = "append_open"
    /\ fd' = [fd EXCEPT ![p] = Len(files)]
    /\ Goto(p, "append_write")
    /\ UNCHANGED <<files, locks, job, chunks, scan, created, rewrites, faults, history>>

\* The write reaches the file whole; the lock is released and append returns.
WriteLine(p) ==
    /\ pc[p] = "append_write"
    /\ LET e == job[p].arg IN
       /\ files' = [files EXCEPT ![fd[p]] = WholeWrite(@, e)]
       /\ acked' = acked \cup {e}
       /\ fused' = IF files[fd[p]].tail = <<>> THEN fused ELSE fused \cup {e}
    /\ Return(p)
    /\ UNCHANGED <<scan, created, rewrites, faults, dropped, redacted>>

ReleaseNothing(p) == UNCHANGED locks
ReleaseOnError(p) == Release(p)

\* A short write raises inside the lock's block.  Leaving the block releases
\* the shared lock, and only then does the handler ask for the exclusive one.
ShortWrite(p) ==
    /\ pc[p] = "append_write"
    /\ faults < MaxFaults
    /\ faults' = faults + 1
    /\ \E f \in TornWrites(files[fd[p]], job[p].arg) : files' = [files EXCEPT ![fd[p]] = f]
    /\ Goto(p, "exclusive_lock")
    /\ job' = [job EXCEPT ![p] = [op |-> "repair", arg |-> NoEvent]]
    /\ fd' = [fd EXCEPT ![p] = 0]
    /\ ReleaseOnError(p)
    /\ UNCHANGED <<chunks, scan, created, rewrites, history>>

(***************************************************************************)
(* Tail repair, and the rewriters truncate_before, redact_memory and clear *)
(***************************************************************************)
\* before is now minus the retention time: any timestamp up to the present.
RewriteJob == [op : {"truncate"}, arg : 1 .. created + 1]
              \cup [op : {"redact", "clear"}, arg : {NoEvent}]

BeginRewrite(p) ==
    /\ pc[p] = "idle"
    /\ rewrites < MaxRewrites
    /\ rewrites' = rewrites + 1
    /\ \E j \in RewriteJob : job' = [job EXCEPT ![p] = j]
    /\ Goto(p, "exclusive_lock")
    /\ UNCHANGED <<files, locks, fd, chunks, scan, created, faults, history>>

LockExclusive(p) ==
    /\ pc[p] = "exclusive_lock"
    /\ CanExclude(p)
    /\ exclusive' = exclusive \cup {p}
    /\ Goto(p, CASE job[p].op = "repair" -> "repair"
                 [] job[p].op = "clear"  -> "clear"
                 [] OTHER                -> "read")
    /\ UNCHANGED <<files, shared, job, fd, chunks, scan, created, rewrites, faults, history>>

\* Best effort: an OSError while repairing is swallowed and the tail stays torn.
RepairTail(p) ==
    /\ pc[p] = "repair"
    /\ \/ files' = [files EXCEPT ![Len(files)] = Repaired(@)] /\ UNCHANGED faults
       \/ faults < MaxFaults /\ faults' = faults + 1 /\ UNCHANGED files
    /\ Return(p)
    /\ UNCHANGED <<scan, created, rewrites, history>>

\* The new content: older lines left out, or the tagged events' text deleted.
\* Either way lines that do not parse are kept and the tail gets its newline.
Rewritten(j, f) ==
    IF j.op = "truncate"
    THEN [lines |-> Without(Content(f), j.arg), tail |-> <<>>, deleted |-> f.deleted]
    ELSE [lines |-> Content(f), tail |-> <<>>,
          deleted |-> f.deleted \cup (Tagged \cap InFile(f))]

ReadLines(p) ==
    /\ pc[p] = "read"
    /\ IF job[p].op = "redact" /\ Tagged \cap InFile(Current) = {}
       THEN Return(p)
       ELSE /\ chunks' = [chunks EXCEPT ![p] = Rewritten(job[p], Current)]
            /\ Goto(p, "replace")
            /\ UNCHANGED <<locks, job, fd>>
    /\ UNCHANGED <<files, scan, created, rewrites, faults, history>>

\* os.replace of the temporary file: path names a new inode from now on.
PublishInPlace(f) ==
    files' = [files EXCEPT ![Len(files)] = [f EXCEPT !.lines = SelectSeq(@, LAMBDA e : e # NoEvent)]]
Publish(f) == files' = Append(files, f)

Replace(p) ==
    /\ pc[p] = "replace"
    /\ Publish(chunks[p])
    /\ IF job[p].op = "truncate"
       THEN /\ dropped' = dropped \cup {e \in InFile(Current) : e < job[p].arg}
            /\ UNCHANGED redacted
       ELSE /\ redacted' = redacted \cup (Tagged \cap InFile(chunks[p]))
            /\ UNCHANGED dropped
    /\ Return(p)
    /\ UNCHANGED <<scan, created, rewrites, faults, acked, fused>>

\* Reading, or writing the temporary file, fails before os.replace.
RewriteFails(p) ==
    /\ pc[p] \in {"read", "replace"}
    /\ Return(p)
    /\ UNCHANGED <<files, scan, created, rewrites, faults, history>>

\* open(path, "w") truncates the inode in place, under open scans too.
Clear(p) ==
    /\ pc[p] = "clear"
    /\ files' = [files EXCEPT ![Len(files)] = EmptyFile]
    /\ dropped' = dropped \cup InFile(Current)
    /\ scan' = [r \in Reader |-> [scan[r] EXCEPT !.must = {}]]
    /\ Return(p)
    /\ UNCHANGED <<created, rewrites, faults, acked, fused, redacted>>

(***************************************************************************)
(* Kill and reopen.  The kernel drops a dead actor's locks; a write it was *)
(* in may have reached the file in part or whole.                          *)
(***************************************************************************)
Kill(p) ==
    /\ pc[p] # "down"
    /\ faults < MaxFaults
    /\ faults' = faults + 1
    /\ IF pc[p] = "append_write"
       THEN LET f == files[fd[p]]  e == job[p].arg IN
            \E g \in TornWrites(f, e) \cup {WholeWrite(f, e)} :
               files' = [files EXCEPT ![fd[p]] = g]
       ELSE UNCHANGED files
    /\ Leave(p, "down")
    /\ UNCHANGED <<scan, created, rewrites, history>>

\* __init__ repairs the tail once before the store is used.
Reopen(p) ==
    /\ pc[p] = "down"
    /\ Goto(p, "exclusive_lock")
    /\ job' = [job EXCEPT ![p] = [op |-> "repair", arg |-> NoEvent]]
    /\ UNCHANGED <<files, locks, fd, chunks, scan, created, rewrites, faults, history>>

(***************************************************************************)
(* scan: a generator over the inode it opened, without a lock              *)
(***************************************************************************)
ScanOpen(r) ==
    /\ scan[r].pc = "idle"
    /\ scan' = [scan EXCEPT ![r] = [pc |-> "reading", file |-> Len(files), next |-> 1,
                                    out |-> <<>>, must |-> acked \cap InFile(Current)]]
    /\ UNCHANGED <<files, locks, local, created, rewrites, faults, history>>

ScanLine(r) ==
    LET content == Content(files[scan[r].file])  n == scan[r].next  out == scan[r].out IN
    /\ scan[r].pc = "reading"
    /\ n <= Len(content)
    /\ scan' = [scan EXCEPT ![r] =
                   [pc |-> "reading", file |-> scan[r].file, next |-> n + 1, must |-> scan[r].must,
                    out |-> IF content[n] = NoEvent THEN out ELSE Append(out, content[n])]]
    /\ UNCHANGED <<files, locks, local, created, rewrites, faults, history>>

ScanEnd(r) ==
    /\ scan[r].pc = "reading"
    /\ scan[r].next > Len(Content(files[scan[r].file]))
    /\ scan' = [scan EXCEPT ![r].pc = "done"]
    /\ UNCHANGED <<files, locks, local, created, rewrites, faults, history>>

-----------------------------------------------------------------------------
Init ==
    /\ files = <<EmptyFile>>
    /\ shared = {} /\ exclusive = {}
    /\ pc = [p \in Proc |-> "idle"]
    /\ job = [p \in Proc |-> Idle]
    /\ fd = [p \in Proc |-> 0]
    /\ chunks = [p \in Proc |-> EmptyFile]
    /\ scan = [r \in Reader |-> [pc |-> "idle", file |-> 1, next |-> 1, out |-> <<>>, must |-> {}]]
    /\ created = 0 /\ rewrites = 0 /\ faults = 0
    /\ acked = {} /\ fused = {} /\ dropped = {} /\ redacted = {}

\* The steps of a call under way; starting a call, a kill and a reopen are not among them.
CallStep(p) ==
    \/ LockShared(p) \/ OpenForAppend(p) \/ WriteLine(p) \/ ShortWrite(p)
    \/ LockExclusive(p) \/ RepairTail(p)
    \/ ReadLines(p) \/ Replace(p) \/ RewriteFails(p) \/ Clear(p)

Next ==
    \/ \E p \in Proc : CallStep(p) \/ BeginAppend(p) \/ BeginRewrite(p) \/ Kill(p) \/ Reopen(p)
    \/ \E r \in Reader : ScanOpen(r) \/ ScanLine(r) \/ ScanEnd(r)

Spec == Init /\ [][Next]_vars

\* The operating system runs every thread that can take a step.  flock itself
\* promises no order among waiters, and none is assumed.
FairSpec == Spec /\ \A p \in Proc : WF_vars(CallStep(p))

-----------------------------------------------------------------------------
(***************************************************************************)
(* History: acked holds the events whose append returned, fused those that *)
(* were acknowledged on a torn tail, dropped those that retention or clear *)
(* removed, redacted those a finished redact_memory erased.                *)
(***************************************************************************)
Label == {"idle", "down", "append_lock", "append_open", "append_write",
          "exclusive_lock", "repair", "read", "replace", "clear"}

TypeOK ==
    /\ files \in Seq(File) /\ files # <<>>
    /\ shared \subseteq Proc /\ exclusive \subseteq Proc
    /\ pc \in [Proc -> Label]
    /\ job \in [Proc -> [op : {"none", "append", "repair", "truncate", "redact", "clear"},
                         arg : 0 .. MaxEvents + 1]]
    /\ fd \in [Proc -> Nat]
    /\ chunks \in [Proc -> File]
    /\ scan \in [Reader -> [pc : {"idle", "reading", "done"}, file : Nat, next : Nat,
                             out : Seq(Event), must : SUBSET Event]]
    /\ created \in 0 .. MaxEvents /\ rewrites \in 0 .. MaxRewrites /\ faults \in 0 .. MaxFaults
    /\ acked \subseteq Event /\ fused \subseteq acked
    /\ dropped \subseteq Event /\ redacted \subseteq Tagged

\* No rewrite ever swallows an append: an event whose append has returned is
\* readable, or retention removed it, or it was written onto a torn tail.
\* (buffer.py:47-48, "closes the previously-documented race where an append
\* landing inside a truncate's read-then-rewrite window was clobbered".)
NoLostAppend == acked \subseteq InFile(Current) \cup dropped \cup fused

\* No rewrite undoes another: what retention removed stays removed and what
\* redact_memory erased stays erased, whatever rewrites overlap with it.
RewritesStick == /\ InFile(Current) \cap dropped = {}
                 /\ redacted \cap InFile(Current) \subseteq Current.deleted

\* A scan takes no lock, yet it returns every event acknowledged and readable when
\* it opened the file, none twice, whatever appends and rewrites overlap it.
ScanComplete ==
    \A r \in Reader : scan[r].pc = "done" =>
        LET out == scan[r].out IN
        /\ scan[r].must \subseteq Range(out)
        /\ IsInjective(out)

\* Every call on the store returns or its process dies: in particular the tail
\* repair of a failed append never waits on the lock of that same append.
CallsReturn == \A p \in Proc : pc[p] \notin {"idle", "down"} ~> pc[p] \in {"idle", "down"}

\* The store implements the abstract log: each step appends one whole event,
\* expires exactly the old ones, resets, or changes nothing a reader can see.
\* (buffer.py:31, "Append-only JSONL event store", and the atomicity claims of
\* truncate_before at 235-238 and redact_memory at 285-287.)
Readable(content) == Restrict(content, {i \in DOMAIN content : content[i] # NoEvent})
Log == INSTANCE EventLog WITH log <- Readable(Content(Current))
ImplementsLog == Log!Spec
=============================================================================
