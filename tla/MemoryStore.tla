---------------------------- MODULE MemoryStore ----------------------------
(***************************************************************************)
(* The SQLite projection and the vector store (store/memory.py,            *)
(* store/vector.py) under the calls of engine.py and of the consolidation  *)
(* stages: each statement commits on its own, so calls interleave between  *)
(* their statements, and several of them write back a row they read        *)
(* earlier.                                                                *)
(*                                                                         *)
(* Data.  A memory is a number; its row keeps the state, the column that   *)
(* the calls compete for.  Equal contents stand for contents whose cosine  *)
(* is above the thresholds of write_dedup and merge.  Which memories a     *)
(* search, a salience, a mood or a TTL selects is left open, and so are    *)
(* the owners whose memories a writer may read: grants come and go.        *)
(***************************************************************************)
EXTENDS Naturals, FiniteSets

CONSTANTS
    Caller,         \* threads of applications, and consolidation runs
    Consolidator,   \* those of Caller that run consolidations
    Content,
    MaxMemories,    \* bound: calls of remember
    MaxCalls,       \* bound: other calls
    MaxFaults       \* bound: failed statements, failed embeddings, crashes

Memory   == 1 .. MaxMemories
NoMemory == 0
NoCaller == "none"
Live     == {"active", "fading"}
State    == Live \cup {"faded", "suppressed"}
Absent   == "absent"
Unsaid   == "unsaid"

ASSUME BoundsAssumption == {MaxMemories, MaxCalls, MaxFaults} \subseteq Nat
ASSUME CallerAssumption == Consolidator \subseteq Caller /\ NoCaller \notin Caller

VARIABLES
    dedup,      \* configuration: write_dedup_threshold > 0
    acl,        \* configuration: access control (with write dedup, where it matters)
    says,       \* says[m]: the content of memory m, or Unsaid
    rows,       \* rows[m]: the state in m's row, or Absent
    vectors,    \* the memories that have a vector
    lock,       \* the holder of _dedup_lock
    call,       \* call[p]: the call p is in and its local variables
    used, calls, faults,                       \* counters
    \* history:
    forgotten, erased, stale, purged, late, unchecked, unseen, mergedAway, demoted

store   == <<rows, vectors>>
bounds  == <<used, calls, faults>>
history == <<forgotten, erased, stale, purged, late, unchecked, unseen, mergedAway, demoted>>
vars    == <<dedup, acl, says, store, lock, call, bounds, history>>

Exists(m)   == rows[m] # Absent
IsLive(m)   == rows[m] \in Live
Stored      == {m \in Memory : Exists(m)}
LiveRows    == {m \in Memory : IsLive(m)}
Same(m, n)  == says[m] = says[n]
Fault       == faults < MaxFaults /\ faults' = faults + 1

-----------------------------------------------------------------------------
(***************************************************************************)
(* Calls.  copies[m] is the state of m's row as the call read it.          *)
(***************************************************************************)
Idle == [op |-> "idle", step |-> "idle", mem |-> NoMemory, hard |-> FALSE, todo |-> {},
         copies |-> [m \in Memory |-> Absent], others |-> {}, seen |-> {}, loser |-> NoMemory]

Local(p, c)   == call' = [call EXCEPT ![p] = c]
Goto(p, step) == call' = [call EXCEPT ![p].step = step]
Return(p)     == Local(p, Idle)
Ready(p)      == call[p].op = "idle"
At(p, op, step) == call[p].op = op /\ call[p].step = step

StartCall == calls < MaxCalls /\ calls' = calls + 1

\* UPDATE memories SET state = s WHERE id = m: nothing if the row is gone.
WithState(m, s) == IF Exists(m) THEN [rows EXCEPT ![m] = s] ELSE rows

\* upsert of a memory object: the row is inserted again if it is gone.
Upserted(m, s) == [rows EXCEPT ![m] = s]

\* History of a write to m by a call that had read the state then.
Overwrites(m, then) == stale' = IF rows[m] = then THEN stale ELSE stale \cup {m}

-----------------------------------------------------------------------------
(***************************************************************************)
(* remember                                                                *)
(***************************************************************************)
Remember(p) ==
    /\ Ready(p)
    /\ used < MaxMemories
    /\ used' = used + 1
    /\ \E x \in Content : says' = [says EXCEPT ![used + 1] = x]
    /\ Local(p, [Idle EXCEPT !.op = "remember", !.mem = used + 1,
                             !.step = IF dedup THEN "lock" ELSE "insert"])
    /\ UNCHANGED <<dedup, acl, store, lock, calls, faults, history>>

\* _dedup_lock serialises the threads of one process.
LockIgnored == TRUE
LockFree    == lock = NoCaller

LockDedup(p) ==
    /\ At(p, "remember", "lock")
    /\ LockFree
    /\ lock' = p
    /\ Goto(p, "check")
    /\ UNCHANGED <<dedup, acl, says, store, bounds, history>>

KeepLock(p) == UNCHANGED lock
Unlock(p)   == lock' = IF lock = p THEN NoCaller ELSE lock

\* The vectors of the same content.  With access control only those count whose
\* row is there and in view: its owner is one that the writer may read, and it is
\* among the nearest 32.
Twins(m)            == {n \in vectors : Same(m, n)}
Duplicates(view, m) == {n \in Twins(m) : acl => Exists(n) /\ n \in view}
Overlooked(view, m) == {n \in Twins(m) : ~Exists(n) \/ n \notin view}

\* A near-duplicate suppresses the write.  If the embedding raises, the memory is
\* written without the check.
CheckNeighbours(p) ==
    LET m == call[p].mem IN
    /\ At(p, "remember", "check")
    /\ \/ \E view \in SUBSET Twins(m) :
             /\ UNCHANGED <<faults, unchecked>>
             /\ \/ Duplicates(view, m) # {} /\ Return(p) /\ Unlock(p) /\ UNCHANGED unseen
                \/ /\ Duplicates(view, m) = {} /\ Goto(p, "insert") /\ UNCHANGED lock
                   /\ unseen' = unseen \cup {<<m, n>> : n \in Overlooked(view, m)}
       \/ Fault /\ Goto(p, "insert") /\ unchecked' = unchecked \cup {m} /\ UNCHANGED <<lock, unseen>>
    /\ UNCHANGED <<dedup, acl, says, store, used, calls, forgotten, stale, purged, late, mergedAway, demoted, erased>>

InsertRow(p) ==
    /\ At(p, "remember", "insert")
    /\ \/ rows' = Upserted(call[p].mem, "active") /\ Goto(p, "embed") /\ UNCHANGED <<lock, faults>>
       \/ Fault /\ UNCHANGED rows /\ Return(p) /\ Unlock(p)
    /\ UNCHANGED <<dedup, acl, says, vectors, used, calls, history>>

\* A failed embedding is logged and the memory stays without a vector.
InsertVector(p) ==
    LET m == call[p].mem IN
    /\ At(p, "remember", "embed")
    /\ \/ /\ vectors' = vectors \cup {m}
          /\ late' = IF Exists(m) THEN late ELSE late \cup {m}
          /\ UNCHANGED faults
       \/ Fault /\ UNCHANGED <<vectors, late>>
    /\ Return(p) /\ Unlock(p)
    /\ UNCHANGED <<dedup, acl, says, rows, used, calls, forgotten, stale, purged, mergedAway, demoted, unchecked, unseen, erased>>

-----------------------------------------------------------------------------
(***************************************************************************)
(* forget: by id, by query, or below a salience                            *)
(***************************************************************************)
Forget(p) ==
    /\ Ready(p) /\ StartCall
    /\ \E hard \in BOOLEAN :
       \E targets \in {{m} : m \in Stored} \cup {{m \in Stored : says[m] = x} : x \in Content} \cup SUBSET LiveRows :
          Local(p, [Idle EXCEPT !.op = "forget", !.step = "next", !.todo = targets, !.hard = hard])
    /\ UNCHANGED <<dedup, acl, says, store, lock, used, faults, history>>

ForgetSoftly(p) ==
    /\ At(p, "forget", "next") /\ ~call[p].hard
    /\ \E m \in call[p].todo :
          /\ rows' = WithState(m, "suppressed")
          /\ forgotten' = forgotten \cup {m}
          /\ demoted' = demoted \cup {m}
          /\ Local(p, [call[p] EXCEPT !.todo = @ \ {m}])
    /\ UNCHANGED <<dedup, acl, says, vectors, lock, bounds, stale, purged, late, mergedAway, unchecked, unseen, erased>>

ForgetRow(p) ==
    /\ At(p, "forget", "next") /\ call[p].hard
    /\ \E m \in call[p].todo :
          /\ rows' = [rows EXCEPT ![m] = Absent]
          /\ forgotten' = forgotten \cup {m}
          /\ erased' = erased \cup {m}
          /\ demoted' = demoted \cup {m}
          /\ Local(p, [call[p] EXCEPT !.todo = @ \ {m}, !.mem = m, !.step = "vector"])
    /\ UNCHANGED <<dedup, acl, says, vectors, lock, bounds, stale, purged, late, mergedAway, unchecked, unseen>>

KeptVectors(m)      == vectors
RemainingVectors(m) == vectors \ {m}

ForgetVector(p) ==
    /\ At(p, "forget", "vector")
    /\ vectors' = RemainingVectors(call[p].mem)
    /\ Goto(p, "next")
    /\ UNCHANGED <<dedup, acl, says, rows, lock, bounds, history>>

ReturnWhenDone(p) ==
    /\ call[p].step = "next" /\ call[p].todo = {}
    /\ Return(p)
    /\ UNCHANGED <<dedup, acl, says, store, lock, bounds, history>>

-----------------------------------------------------------------------------
(***************************************************************************)
(* recall: mark_accessed, then _reconsolidate reads the row and, in a      *)
(* different mood, writes it back.                                         *)
(***************************************************************************)
Recall(p) ==
    /\ Ready(p) /\ StartCall
    /\ \E results \in SUBSET Stored \ {{}} :
          Local(p, [Idle EXCEPT !.op = "recall", !.step = "next", !.todo = results])
    /\ UNCHANGED <<dedup, acl, says, store, lock, used, faults, history>>

RevivedAny(s) == IF s = Absent THEN s ELSE "active"
Revived(s)    == IF s \in {"fading", "faded"} THEN "active" ELSE s

MarkAccessed(p) ==
    /\ At(p, "recall", "next")
    /\ \E m \in call[p].todo :
          /\ rows' = [rows EXCEPT ![m] = Revived(@)]
          /\ Local(p, [call[p] EXCEPT !.todo = @ \ {m}, !.mem = m, !.step = "get"])
    /\ UNCHANGED <<dedup, acl, says, vectors, lock, bounds, history>>

GetRecalled(p) ==
    LET m == call[p].mem IN
    /\ At(p, "recall", "get")
    /\ \/ Goto(p, "next")
       \/ Exists(m) /\ Local(p, [call[p] EXCEPT !.copies[m] = rows[m], !.step = "write"])
    /\ UNCHANGED <<dedup, acl, says, store, lock, bounds, history>>

Reconsolidate(p) ==
    LET m == call[p].mem IN
    /\ At(p, "recall", "write")
    /\ rows' = Upserted(m, call[p].copies[m])
    /\ Overwrites(m, call[p].copies[m])
    /\ Goto(p, "next")
    /\ UNCHANGED <<dedup, acl, says, vectors, lock, bounds, forgotten, purged, late, mergedAway, demoted, unchecked, unseen, erased>>

-----------------------------------------------------------------------------
(***************************************************************************)
(* Consolidation stages over the live rows as they were when they began    *)
(***************************************************************************)
Stages == {"decay", "suppress", "supersede", "merge"}

BeginStage(p) ==
    /\ p \in Consolidator /\ Ready(p) /\ StartCall /\ LiveRows # {}
    /\ \E stage \in Stages :
          Local(p, [Idle EXCEPT !.op = stage, !.step = "next", !.todo = LiveRows, !.copies = rows])
    /\ UNCHANGED <<dedup, acl, says, store, lock, used, faults, history>>

\* A conflict flag of InterferenceDetection keeps the state, decay may lower it;
\* both write the whole row.
Decayed(s) == {s} \cup (IF s = "active" THEN {"fading"} ELSE {"faded"})

Decay(p) ==
    /\ At(p, "decay", "next")
    /\ \E m \in call[p].todo :
          /\ \/ /\ \E s \in Decayed(call[p].copies[m]) : rows' = Upserted(m, s)
                /\ Overwrites(m, call[p].copies[m])
                /\ demoted' = demoted \cup {m}
             \/ UNCHANGED <<rows, stale, demoted>>
          /\ Local(p, [call[p] EXCEPT !.todo = @ \ {m}])
    /\ UNCHANGED <<dedup, acl, says, vectors, lock, bounds, forgotten, purged, late, mergedAway, unchecked, unseen, erased>>

\* MotivatedSuppression, and the supersede branch of InterferenceDetection.
Demote(p) ==
    /\ call[p].op \in {"suppress", "supersede"}
    /\ \E m \in call[p].todo :
          /\ \/ /\ rows' = WithState(m, IF call[p].op = "suppress" THEN "suppressed" ELSE "faded")
                /\ IF Exists(m) THEN Overwrites(m, call[p].copies[m]) ELSE UNCHANGED stale
                /\ demoted' = demoted \cup {m}
             \/ UNCHANGED <<rows, stale, demoted>>
          /\ Local(p, [call[p] EXCEPT !.todo = @ \ {m}])
    /\ UNCHANGED <<dedup, acl, says, vectors, lock, bounds, forgotten, purged, late, mergedAway, unchecked, unseen, erased>>

NotSeenBefore(p) == call[p].todo
Unseen(p)        == call[p].todo \ call[p].seen

\* MechanicalMerge takes the next memory of its list, unless it was suppressed as
\* the loser of an earlier pair, and searches the vectors close to it.
MergeNext(p) ==
    /\ At(p, "merge", "next")
    /\ \/ \E m \in Unseen(p) :
             Local(p, [call[p] EXCEPT !.todo = @ \ {m}, !.mem = m, !.step = "compare",
                          !.others = {n \in vectors \ {m} : Same(m, n)}])
       \/ /\ call[p].todo # {} /\ Unseen(p) = {}
          /\ Local(p, [call[p] EXCEPT !.todo = {}])
    /\ UNCHANGED <<dedup, acl, says, store, lock, bounds, history>>

\* The other one's row is read again, the memory's own is not.  The loser is
\* suppressed by a statement of its own.
MergeCompare(p) ==
    /\ At(p, "merge", "compare")
    /\ \/ \E n \in call[p].others :
             \/ /\ n \in call[p].seen \/ ~IsLive(n)
                /\ Local(p, [call[p] EXCEPT !.others = @ \ {n}])
             \/ /\ n \notin call[p].seen /\ IsLive(n)
                /\ \E loser \in {n, call[p].mem} :
                      Local(p, [call[p] EXCEPT !.others = @ \ {n}, !.seen = @ \cup {loser},
                                   !.loser = loser, !.step = "suppress"])
       \/ call[p].others = {} /\ Goto(p, "next")
    /\ UNCHANGED <<dedup, acl, says, store, lock, bounds, history>>

\* A merge counts on what it has yet to look at, and on copies of its memory.
CountsOn(q, m) ==
    /\ call[q].op = "merge"
    /\ \/ m \in Unseen(q)
       \/ call[q].step # "next" /\ Same(call[q].mem, m)

MergeSuppress(p) ==
    LET loser == call[p].loser IN
    /\ At(p, "merge", "suppress")
    /\ rows' = WithState(loser, "suppressed")
    /\ mergedAway' = mergedAway \cup {loser}
    /\ demoted' = IF \E q \in Caller \ {p} : CountsOn(q, loser) THEN demoted \cup {loser} ELSE demoted
    /\ Local(p, [call[p] EXCEPT !.step = IF loser = call[p].mem THEN "next" ELSE "compare"])
    /\ UNCHANGED <<dedup, acl, says, vectors, lock, bounds, forgotten, stale, purged, late, unchecked, unseen, erased>>

\* _enforce_retention deletes the rows of a state that are older than its TTL,
\* in one statement, and leaves their vectors.
Purge(p) ==
    /\ p \in Consolidator /\ Ready(p) /\ StartCall
    /\ \E s \in {"faded", "suppressed"} : \E old \in SUBSET {m \in Memory : rows[m] = s} \ {{}} :
          /\ rows' = [m \in Memory |-> IF m \in old THEN Absent ELSE rows[m]]
          /\ purged' = purged \cup old
          /\ demoted' = demoted \cup old
    /\ UNCHANGED <<dedup, acl, says, vectors, lock, call, used, faults, forgotten, stale, late, mergedAway, unchecked, unseen, erased>>

\* The process dies: its calls and its lock are gone, what was committed stays.
Crash ==
    /\ Fault
    /\ call' = [p \in Caller |-> Idle]
    /\ lock' = NoCaller
    /\ late' = late \cup {call[p].mem : p \in {q \in Caller : At(q, "forget", "vector")}}
    /\ UNCHANGED <<dedup, acl, says, store, used, calls, forgotten, stale, purged, mergedAway, demoted, unchecked, unseen, erased>>

-----------------------------------------------------------------------------
Init ==
    /\ dedup \in BOOLEAN /\ acl \in {FALSE, dedup}
    /\ says = [m \in Memory |-> Unsaid]
    /\ rows = [m \in Memory |-> Absent] /\ vectors = {}
    /\ lock = NoCaller /\ call = [p \in Caller |-> Idle]
    /\ used = 0 /\ calls = 0 /\ faults = 0
    /\ forgotten = {} /\ erased = {} /\ stale = {} /\ purged = {} /\ late = {}
    /\ unchecked = {} /\ unseen = {} /\ mergedAway = {} /\ demoted = {}

CallStep(p) ==
    \/ LockDedup(p) \/ CheckNeighbours(p) \/ InsertRow(p) \/ InsertVector(p)
    \/ ForgetSoftly(p) \/ ForgetRow(p) \/ ForgetVector(p) \/ ReturnWhenDone(p)
    \/ MarkAccessed(p) \/ GetRecalled(p) \/ Reconsolidate(p)
    \/ Decay(p) \/ Demote(p) \/ MergeNext(p) \/ MergeCompare(p) \/ MergeSuppress(p)

Next ==
    \/ \E p \in Caller : CallStep(p) \/ Remember(p) \/ Forget(p) \/ Recall(p) \/ BeginStage(p) \/ Purge(p)
    \/ Crash

Spec == Init /\ [][Next]_vars

-----------------------------------------------------------------------------
(***************************************************************************)
(* History: forgotten holds the memories that forget suppressed or         *)
(* deleted, erased those it deleted; stale those that a call wrote         *)
(* although the row had changed since it read it; purged those whose row   *)
(* retention deleted; late those whose vector outlived the row (remember   *)
(* wrote it after a hard forget, or a crash cut the forget short);         *)
(* unchecked those written without the dedup check; unseen the pairs of a  *)
(* memory and a neighbour that its check did not count, for its row was    *)
(* gone or out of the writer's view; mergedAway those that merge           *)
(* suppressed; demoted those that another call took out of the live states *)
(* or may have, be it a merge, if one at work counts on them.              *)
(***************************************************************************)
Op     == {"idle", "remember", "forget", "recall"} \cup Stages
Step   == {"idle", "lock", "check", "insert", "embed", "next", "vector", "get", "write", "compare", "suppress"}

CallRecord == [op : Op, step : Step, mem : Memory \cup {NoMemory}, hard : BOOLEAN,
               todo : SUBSET Memory, copies : [Memory -> State \cup {Absent}],
               others : SUBSET Memory, seen : SUBSET Memory, loser : Memory \cup {NoMemory}]

\* A stage works on rows that were live when it began.
TypeOK ==
    /\ dedup \in BOOLEAN /\ acl \in BOOLEAN /\ says \in [Memory -> Content \cup {Unsaid}]
    /\ rows \in [Memory -> State \cup {Absent}] /\ vectors \subseteq Memory
    /\ lock \in Caller \cup {NoCaller}
    /\ call \in [Caller -> CallRecord]
    /\ \A p \in Caller : call[p].op \in Stages => \A m \in call[p].todo : call[p].copies[m] \in Live
    /\ used \in 0 .. MaxMemories /\ calls \in 0 .. MaxCalls /\ faults \in 0 .. MaxFaults
    /\ \A m \in Memory : m > used => ~Exists(m) /\ m \notin vectors

\* With write dedup on, threads that remember the same content at the same time
\* never store it twice: of two vectors of equal content one was written without
\* a check, because the embedding failed, or, with access control alone, with one
\* that could not see the other (memory.py:203-208): the row was gone, the writer
\* may not read its owner, or nearer ones filled the pool.
NotCompared(m, n) == {m, n} \cap unchecked # {} \/ (acl /\ {<<m, n>>, <<n, m>>} \cap unseen # {})

OneVectorPerContent ==
    dedup => \A m, n \in vectors : Same(m, n) => m = n \/ NotCompared(m, n)

\* What was forgotten stays forgotten whatever else runs, suppressed or gone, and
\* what was hard-deleted stays gone; unless a call that had read the row earlier
\* wrote it back.
ForgottenStays ==
    \A m \in forgotten \ stale : rows[m] \in IF m \in erased THEN {Absent} ELSE {Absent, "suppressed"}

\* A vector without a row is the rest of a purge, of a hard forget that raced with
\* the remember or died, or one that a forget is about to remove: hard delete
\* reaches all stores (DESIGN.md:434).
VectorsHaveRows ==
    \A m \in vectors : \/ Exists(m) \/ m \in purged \cup late
                       \/ \E p \in Caller : At(p, "forget", "vector") /\ call[p].mem = m

\* Merging never takes the last live memory of a content, whatever is remembered,
\* recalled, forgotten or consolidated meanwhile: for each memory it suppressed one of
\* the same content is live, or another call took that one out, a second merge too if
\* the first still counted on it, or wrote back its state of earlier.
\* (tests/property/test_mechanical_merge_fuzz.py, MM-INV-2, for one run alone.)
Remains(m) == IsLive(m) \/ m \in demoted \cup stale

MergeKeepsOne ==
    \A m \in mergedAway : \E n \in Memory : Same(m, n) /\ Remains(n)

\* No one waits for a lock that is never released: whatever statement fails, or
\* whichever branch remember takes, the lock's holder is still inside remember.
LockIsReleased ==
    lock # NoCaller => At(lock, "remember", call[lock].step) /\ call[lock].step \notin {"idle", "lock"}
=============================================================================
