--------------------------- MODULE LifecycleCache ---------------------------
(***************************************************************************)
(* CachedLifecycleSnapshot (consolidation/lifecycle_projection.py): every  *)
(* recall() asks for the fold of all lifecycle events in the JSONL log,    *)
(* and the cache reads only the bytes after its offset.  Other threads and *)
(* processes write, tear, repair, truncate and replace the file between    *)
(* any two of its system calls.                                            *)
(*                                                                         *)
(* Data.  The file is a sequence of cells: an event's text, the fragment   *)
(* of one, or a newline; offsets and sizes count cells.  A snapshot is the *)
(* sequence of events it was folded from, each with the quorum it was      *)
(* folded under: equal sequences give equal snapshots.  The file's first   *)
(* cell stands for the 32 bytes of the rotation tombstone.                 *)
(***************************************************************************)
EXTENDS Naturals, Sequences, FiniteSets

CONSTANTS
    Caller,         \* threads in get() on one cache
    Inode,          \* inode numbers; one that was freed may be used again
    Lifecycle,      \* the events of type CONSOLIDATION_SCHEMA_LIFECYCLE
    QuorumChoice,   \* the values of deprecate_quorum_k the callers pass
    MaxCreated,      \* bound: events created
    MaxRewrites,    \* bound: truncations, replacements and invalidations
    MaxFaults,      \* bound: torn writes and failed system calls
    MaxCalls        \* bound: calls of get()

Event  == 1 .. MaxCreated
NL     == 0
Torn   == MaxCreated + 1
Cell   == 0 .. MaxCreated + 1
NoFile == "none"

ASSUME BoundsAssumption    == {MaxCreated, MaxRewrites, MaxFaults, MaxCalls} \subseteq Nat
ASSUME LifecycleAssumption == Lifecycle \subseteq Event
ASSUME InodeAssumption     == NoFile \notin Inode
ASSUME ChoiceAssumption    == QuorumChoice \subseteq Nat \ {0}

VARIABLES
    cells, inode,       \* the file path names now
    cache,              \* _offset, _inode_key, _prefix, _snap, _quorum_k (0 for None)
    call,               \* call[c]: where c stands in get(), and its local variables
    created, rewrites, faults, calls,   \* counters against the bounds
    rotated, missed, crossed    \* history: see "History" below

file    == <<cells, inode>>
bounds  == <<created, rewrites, faults, calls>>
history == <<rotated, missed, crossed>>
cacheVars == <<file, cache, call, bounds, history>>

-----------------------------------------------------------------------------
\* What f holds at the places P, in their order.
Nth(P, n)    == CHOOSE i \in P : Cardinality({j \in P : j <= i}) = n
Picked(f, P) == [n \in 1 .. Cardinality(P) |-> f[Nth(P, n)]]

\* A line is an event if the event's text is all of it.
IsLine(text, from, i) ==
    /\ text[i] \in Event
    /\ i = from + 1 \/ text[i - 1] = NL
    /\ i = Len(text) \/ text[i + 1] = NL

\* Where a reader decodes events that starts after cell number from.
Decoded(text, from) == {i \in from + 1 .. Len(text) : IsLine(text, from, i)}

\* The lifecycle events among them, folded under quorum k.
Folds(text, from, k) == Picked([i \in DOMAIN text |-> <<text[i], k>>],
                               {i \in Decoded(text, from) : text[i] \in Lifecycle})

Replay(k) == Folds(cells, 0, k)

\* A read stops at the end of the file.
FirstCells(text, n) == SubSeq(text, 1, IF n < Len(text) THEN n ELSE Len(text))

Prefix(text) == FirstCells(text, 1)

Terminated(text) == text = <<>> \/ text[Len(text)] = NL

(***************************************************************************)
(* Writers                                                                 *)
(***************************************************************************)
Write(text) ==
    /\ cells' = text
    /\ call' = [c \in Caller |-> [call[c] EXCEPT !.undisturbed = FALSE, !.scanned = FALSE]]
    /\ UNCHANGED <<cache, calls, missed, crossed>>

AppendEvent ==
    /\ created < MaxCreated
    /\ created' = created + 1
    /\ \/ Write(cells \o <<created + 1, NL>>) /\ UNCHANGED faults
       \/ /\ faults < MaxFaults /\ faults' = faults + 1
          /\ \/ Write(Append(cells, Torn))
             \/ Write(Append(cells, created + 1))
    /\ UNCHANGED <<inode, rewrites, rotated>>

RepairTail ==
    /\ ~Terminated(cells)
    /\ Write(Append(cells, NL))
    /\ UNCHANGED <<inode, created, rewrites, faults, rotated>>

\* truncate_before: the older lines are left out and a new inode is published.
Without(text, before) ==
    LET Old(i)  == text[i] \in Event /\ text[i] < before /\ IsLine(text, 0, i)
        Gone(i) == Old(i) \/ (text[i] = NL /\ i > 1 /\ Old(i - 1))
    IN  Picked(text, {i \in DOMAIN text : ~Gone(i)})

Rotate ==
    /\ rewrites < MaxRewrites
    /\ rewrites' = rewrites + 1
    /\ \E before \in 1 .. created + 1 :
          LET kept == Without(cells, before) IN
          Write(IF Terminated(kept) THEN kept ELSE Append(kept, NL))
    /\ inode' \in Inode \ {inode}
    /\ rotated' = TRUE
    /\ UNCHANGED <<created, faults>>

Clear ==
    /\ rewrites < MaxRewrites
    /\ rewrites' = rewrites + 1
    /\ Write(<<>>)
    /\ rotated' = TRUE
    /\ UNCHANGED <<inode, created, faults>>

(***************************************************************************)
(* get                                                                     *)
(***************************************************************************)
Goto(c, label) == call' = [call EXCEPT ![c].pc = label]

\* No lock: a call may change the cache under another one.
Alone(c)    == \A d \in Caller \ {c} : call[d].pc \in {"idle", "done"}
Crossing(c) == crossed' = (crossed \/ (cache' # cache /\ ~Alone(c)))

Answer(c, s) == call' = [call EXCEPT ![c].pc = "done", ![c].answer = s,
                                        ![c].undisturbed = @ /\ ~missed' /\ ~crossed']

Rebuilding(c) == call[c].pc \in {"stat", "head"}

\* _file_key: stat() names the inode and its size, or fails.
Stat(c) ==
    /\ call[c].pc \in {"idle", "done"}
    /\ calls < MaxCalls
    /\ calls' = calls + 1
    /\ crossed' = (crossed \/ \E d \in Caller : Rebuilding(d))
    /\ \E k \in QuorumChoice :
          \/ /\ call' = [call EXCEPT ![c] = [pc |-> "compare", k |-> k, key |-> inode, size |-> Len(cells),
                                             undisturbed |-> TRUE, scanned |-> FALSE, read |-> <<>>, answer |-> <<>>]]
             /\ UNCHANGED faults
          \/ /\ faults < MaxFaults /\ faults' = faults + 1
             /\ call' = [call EXCEPT ![c] = [pc |-> "scan", k |-> k, key |-> NoFile, size |-> 0,
                                             undisturbed |-> TRUE, scanned |-> FALSE, read |-> <<>>, answer |-> <<>>]]
    /\ UNCHANGED <<file, cache, created, rewrites, rotated, missed>>

StaleIgnoringQuorum(c) == cache.key # call[c].key \/ call[c].size < cache.offset

\* The quorum changed, the file was rotated or it is shorter than what was read.
Stale(c) ==
    \/ cache.quorum # 0 /\ cache.quorum # call[c].k
    \/ cache.key # call[c].key
    \/ call[c].size < cache.offset

Compare(c) ==
    /\ call[c].pc = "compare"
    /\ Goto(c, IF Stale(c) THEN "scan" ELSE "probe")
    /\ UNCHANGED <<file, cache, bounds, history>>

\* The rotation tombstone: the file must still begin as it did.  An empty
\* tombstone is refreshed.
Probe(c) ==
    LET differs == cache.prefix # <<>> /\ call[c].size > 0 /\ Prefix(cells) # cache.prefix IN
    /\ call[c].pc = "probe"
    /\ missed' = (missed \/ (rotated /\ inode = cache.key /\ Prefix(cells) = cache.prefix))
    /\ cache' = IF cache.prefix = <<>> /\ call[c].size > 0
                THEN [cache EXCEPT !.prefix = Prefix(cells)] ELSE cache
    /\ Crossing(c)
    /\ IF differs THEN Goto(c, "scan")
       ELSE IF call[c].size = cache.offset THEN Answer(c, cache.snap) ELSE Goto(c, "tail")
    /\ UNCHANGED <<file, bounds, rotated>>

\* The bytes from the offset on continue a line that was read before.
SplitsLine(text, offset) ==
    /\ 0 < offset /\ offset < Len(text)
    /\ text[offset] # NL /\ text[offset + 1] # NL

\* open, seek to the offset, read up to the size stat() gave; all of the rest when
\* another call has moved the offset past it (read of a negative length).
ReadTail(c) ==
    /\ call[c].pc = "tail"
    /\ \/ LET text == IF call[c].size < cache.offset THEN cells ELSE FirstCells(cells, call[c].size) IN
          /\ call' = [call EXCEPT ![c].pc = "fold",
                                  ![c].read = Folds(text, cache.offset, call[c].k)]
          /\ missed' = \/ missed
                        \/ SplitsLine(text, cache.offset)
                        \/ (rotated /\ ~call[c].undisturbed)
          /\ UNCHANGED faults
       \/ /\ faults < MaxFaults /\ faults' = faults + 1
          /\ Goto(c, "scan")
          /\ UNCHANGED missed
    /\ UNCHANGED <<file, cache, created, rewrites, calls, rotated, crossed>>

\* The offset moves to the size stat() gave, not to what the file has by now.
\* No system call separates the assignments: they are one step.
FoldTail(c) ==
    /\ call[c].pc = "fold"
    /\ cache' = [cache EXCEPT !.snap = @ \o call[c].read, !.offset = call[c].size,
                              !.key = call[c].key, !.quorum = call[c].k]
    /\ Crossing(c)
    /\ UNCHANGED <<file, bounds, rotated, missed>>
    /\ Answer(c, cache.snap \o call[c].read)

\* _full_rebuild scans the file, then asks for its size, then reads its head.
RebuiltOnTop(c) == cache.snap \o Replay(call[c].k)
Rebuilt(c)      == Replay(call[c].k)

RebuildScan(c) ==
    /\ call[c].pc = "scan"
    /\ cache' = [cache EXCEPT !.snap = Rebuilt(c)]
    /\ call' = [call EXCEPT ![c].pc = "stat", ![c].scanned = TRUE]
    /\ rotated' = FALSE
    /\ crossed' = ~Alone(c)
    /\ UNCHANGED <<file, bounds, missed>>

RebuildStat(c) ==
    /\ call[c].pc = "stat"
    /\ \/ cache' = [cache EXCEPT !.offset = Len(cells), !.key = inode] /\ UNCHANGED faults
       \/ /\ faults < MaxFaults /\ faults' = faults + 1
          /\ cache' = [cache EXCEPT !.offset = 0, !.key = NoFile]
    /\ missed' = ~call[c].scanned
    /\ Crossing(c)
    /\ Goto(c, "head")
    /\ UNCHANGED <<file, created, rewrites, calls, rotated>>

RebuildHead(c) ==
    /\ call[c].pc = "head"
    /\ cache' = [cache EXCEPT !.prefix = Prefix(cells), !.quorum = call[c].k]
    /\ missed' = (missed \/ rotated)
    /\ Crossing(c)
    /\ Answer(c, cache.snap)
    /\ UNCHANGED <<file, bounds, rotated>>

InvalidatedKeepingOffset == [cache EXCEPT !.key = NoFile, !.snap = <<>>, !.quorum = 0]
Invalidated == [cache EXCEPT !.offset = 0, !.key = NoFile, !.snap = <<>>, !.quorum = 0]

Invalidate ==
    /\ rewrites < MaxRewrites
    /\ rewrites' = rewrites + 1
    /\ \A c \in Caller : call[c].pc \in {"idle", "done"}
    /\ cache' = Invalidated
    /\ UNCHANGED <<file, call, created, faults, calls, history>>

-----------------------------------------------------------------------------
CacheInit ==
    /\ cells = <<>> /\ inode \in Inode
    /\ cache = [offset |-> 0, key |-> NoFile, prefix |-> <<>>, snap |-> <<>>, quorum |-> 0]
    /\ call = [c \in Caller |-> [pc |-> "idle", k |-> 0, key |-> NoFile, size |-> 0, undisturbed |-> TRUE,
                                 scanned |-> FALSE, read |-> <<>>, answer |-> <<>>]]
    /\ created = 0 /\ rewrites = 0 /\ faults = 0 /\ calls = 0
    /\ rotated = FALSE /\ missed = FALSE /\ crossed = FALSE

Get(c) == \/ Stat(c) \/ Compare(c) \/ Probe(c) \/ ReadTail(c) \/ FoldTail(c)
          \/ RebuildScan(c) \/ RebuildStat(c) \/ RebuildHead(c)

CacheNext == \/ AppendEvent \/ RepairTail \/ Rotate \/ Clear \/ Invalidate
        \/ \E c \in Caller : Get(c)

CacheSpec == CacheInit /\ [][CacheNext]_cacheVars
-----------------------------------------------------------------------------
(***************************************************************************)
(* History: rotated says that the file was rewritten since the last        *)
(* rebuild scanned it; missed that since then one of the cases arose in    *)
(* which the cache has no means to see a change:                           *)
(*   - the file changed between a rebuild's scan and its stat, or was      *)
(*     rewritten before the rebuild read its head;                         *)
(*   - a rewritten file looks like the old one: it has its inode number    *)
(*     and begins with the same line;                                      *)
(*   - the offset is inside a line that another write continued;           *)
(*   - the file was rewritten during a call that reads its tail.           *)
(* crossed says that a call changed the cache while another call was       *)
(* under way, or began before a rebuild was done, and that no call has     *)
(* rebuilt it alone since.                                                 *)
(***************************************************************************)
Label == {"idle", "compare", "probe", "tail", "fold", "scan", "stat", "head", "done"}

CacheTypeOK ==
    /\ cells \in Seq(Cell) /\ inode \in Inode
    /\ cache \in [offset : Nat, key : Inode \cup {NoFile}, prefix : Seq(Cell),
                  snap : Seq(Event \X QuorumChoice), quorum : QuorumChoice \cup {0}]
    /\ call \in [Caller -> [pc : Label, k : QuorumChoice \cup {0}, key : Inode \cup {NoFile}, size : Nat,
                            undisturbed : BOOLEAN, scanned : BOOLEAN, read : Seq(Event \X QuorumChoice),
                            answer : Seq(Event \X QuorumChoice)]]
    /\ created \in 0 .. MaxCreated /\ rewrites \in 0 .. MaxRewrites
    /\ faults \in 0 .. MaxFaults /\ calls \in 0 .. MaxCalls
    /\ {rotated, missed, crossed} \subseteq BOOLEAN
    /\ cache.key = NoFile => cache.offset = 0

\* However appends, torn writes, truncations, replacements and recycled inode
\* numbers fall between its reads, the cache folds no event twice: a second fold
\* would count a transition or bump a version again. Two calls at once may do it,
\* but only if one of them finds news; and the next rebuild heals the cache.
NoRepeat == crossed \/ \A i, j \in DOMAIN cache.snap : cache.snap[i][1] = cache.snap[j][1] => i = j

\* A call during which the file did not change answers with the fold of the whole
\* log under the quorum asked for, as snapshot_from_buffer would, also after any
\* earlier rotation, in-place truncation, failed call or change of the quorum;
\* provided that the cache missed no bytes for one of the known reasons (missed)
\* and that calls have not crossed since the last rebuild.
FreshAnswer ==
    \A c \in Caller : call[c].pc = "done" /\ call[c].undisturbed => call[c].answer = Replay(call[c].k)
=============================================================================
