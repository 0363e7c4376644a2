------------------------------- MODULE Recall -------------------------------
(***************************************************************************)
(* recall (engine.py) and the hybrid search below it (retrieval/engine.py, *)
(* retrieval/expansion.py): two indexes are searched one after the other,  *)
(* the hits are fetched, fused by reciprocal rank and filtered, while      *)
(* memories are forgotten, revived and written back, schemas deprecated    *)
(* and recovered, and grants changed.                                      *)
(*                                                                         *)
(* Data.  A memory is a number; a ranking is a function from memories to   *)
(* their places in it.  The BM25 order of the query depends on all that is *)
(* stored, as its scores use the statistics of the corpus.  What else adds *)
(* to a score (salience, recency, context, ...) is a merit that outweighs  *)
(* the ranks.  Expansion has one entity to find; the gates after the       *)
(* dominance gate are left open, and respect_schema_lifecycle is on,       *)
(* without which deprecated schemas pass.  Left out: the queries to other  *)
(* engines (federated), the optional reranker, and the depth of a result.  *)
(* What mark_accessed and reconsolidation write is in MemoryStore, what a  *)
(* lifecycle snapshot is in LifecycleCache.                                *)
(***************************************************************************)
EXTENDS Naturals, FiniteSets

CONSTANTS
    Size,           \* how many memories
    Caller,         \* the agent that recalls
    Owner,          \* the agents that own memories; Shared is owned by none
    Limits,         \* the limits that recall is called with
    TopK,           \* query_expansion_top_k
    PoolFactor,     \* each index is asked for this many times the limit
    TextWeight, VectorWeight,
    MaxWrites,      \* bound: what others do during the call
    \* the worlds to start from: functions on the memories and sets of them
    Ownerships, SchemaSets, Merits, MentionSets, Rows, VectorSets,
    Orders      \* BM25: for each set of stored memories the order of all

Memory == 1 .. Size
Shared == "shared"
Wanted == {{"active"}, {"active", "hidden"}}    \* "hidden" is faded or suppressed

ASSUME OwnerAssumption   == Caller \in Owner /\ Shared \notin Owner
ASSUME NumbersAssumption == {Size, TopK, PoolFactor, TextWeight, VectorWeight, MaxWrites} \cup Limits \subseteq Nat
ASSUME WorldAssumption ==
    /\ Ownerships \subseteq [1 .. Size -> Owner \cup {Shared}] /\ Merits \subseteq [1 .. Size -> Nat]
    /\ SchemaSets \cup MentionSets \cup VectorSets \subseteq SUBSET (1 .. Size)
    /\ Rows \subseteq [1 .. Size -> {"active", "hidden", "absent"}]
    /\ Orders \subseteq [SUBSET (1 .. Size) -> {f \in [1 .. Size -> 1 .. Size] : \A m, n \in 1 .. Size : f[m] = f[n] => m = n}]

VARIABLES
    acl, expansion,     \* configuration: access control, query expansion
    world,      \* owner, schemas, merit, hits (of the query), order (BM25), mentions (of the entity), nearest (distance)
    rows,       \* the state in each memory's row, or "absent"
    vectors,    \* the memories that have a vector
    deprecated, \* the schemas that the lifecycle snapshot deprecates
    grant,      \* the scope granted to the caller: "own", "all" (or federated), or "none"
    call,       \* the call and its local variables
    touched,    \* the memories that the call marked as accessed
    answer,
    writes,
    \* history:
    hidden,     \* the memories that were not in a wanted state since the call began
    condemned,  \* the schemas that were deprecated since then
    lenient,    \* whether the last fusion did without the lifecycle
    readable    \* what the caller could read at some moment since the call began

store   == <<rows, vectors, deprecated, grant>>
results == <<touched, answer>>
history == <<hidden, condemned, lenient, readable>>
vars    == <<acl, expansion, world, store, call, results, writes, history>>

-----------------------------------------------------------------------------
\* check(READ), with the policy in force and with a given scope.
MayReadUnder(g, m) == ~acl \/ g = "all" \/ (g = "own" /\ world.owner[m] \in {Caller, Shared})
MayRead(m)         == MayReadUnder(grant, m)
Readable           == {m \in Memory : MayRead(m)}

\* The memories of S, numbered in the order of their keys.
Numbered(key, S) == [m \in S |-> Cardinality({n \in S : key[n] <= key[m]})]
Only(ranks, S)   == Numbered(ranks, S \cap DOMAIN ranks)
First(n, ranks)  == [m \in {k \in DOMAIN ranks : ranks[k] <= n} |-> ranks[m]]
Unranked         == [m \in {} |-> 0]

\* The text index finds hits of the query; with the entity in the query also what
\* mentions that, and first.
TextHits(pass)  == IF pass = "expanded" THEN world.hits \cup world.mentions ELSE world.hits
Stored          == {m \in Memory : rows[m] # "absent"}
TextOrder(pass) == [m \in Memory |-> world.order[Stored][m]
                                     + (IF pass = "expanded" /\ m \notin world.mentions THEN Size ELSE 0)]

\* The pass that mines for entities looks at more.
PassLimit(pass) == IF pass = "mine" /\ TopK > call.limit THEN TopK ELSE call.limit
Pool(pass)      == PassLimit(pass) * PoolFactor

-----------------------------------------------------------------------------
(***************************************************************************)
(* Scoring: reciprocal ranks, where an index without the memory counts as  *)
(* rank 100, and the first of equals is the one found first.               *)
(***************************************************************************)
RrfK    == 60
Missing == 100
Scale   == 1000000

RankIn(ranks, m)      == IF m \in DOMAIN ranks THEN ranks[m] ELSE Missing
RankOrFirst(ranks, m) == IF m \in DOMAIN ranks THEN ranks[m] ELSE 0
FusedOrFirst(texts, near, m) == TextWeight * (Scale \div (RrfK + RankOrFirst(texts, m)))
                                + VectorWeight * (Scale \div (RrfK + RankOrFirst(near, m)))
Fused(texts, near, m) == TextWeight * (Scale \div (RrfK + RankIn(texts, m)))
                         + VectorWeight * (Scale \div (RrfK + RankIn(near, m)))

\* candidates is filled from the text index, then from the vectors.
FoundFirst(texts, near, m, n) ==
    \/ m \in DOMAIN texts /\ (n \in DOMAIN texts => texts[m] < texts[n])
    \/ {m, n} \cap DOMAIN texts = {} /\ RankIn(near, m) < RankIn(near, n)

Before(texts, near, m, n) ==
    \/ world.merit[m] > world.merit[n]
    \/ world.merit[m] = world.merit[n] /\ Fused(texts, near, m) > Fused(texts, near, n)
    \/ /\ world.merit[m] = world.merit[n] /\ Fused(texts, near, m) = Fused(texts, near, n)
       /\ FoundFirst(texts, near, m, n)

Sorted(texts, near, S) == [m \in S |-> 1 + Cardinality({n \in S : Before(texts, near, n, m)})]

\* Intent and lifecycle filters come after the ranks.  If the lifecycle cannot be
\* replayed, no schema is barred.
Barred(failed) == IF failed THEN {} ELSE deprecated
Admitted(types, barred, m) ==
    /\ types = {} \/ (IF m \in world.schemas THEN "schema" ELSE "fact") \in types
    /\ m \notin barred

-----------------------------------------------------------------------------
Idle == [step |-> "idle", pass |-> "only", limit |-> 0, wanted |-> {}, types |-> {},
         texts |-> Unranked, near |-> Unranked, todo |-> {}, found |-> {}, ranked |-> Unranked]

At(step)     == call.step = step
Goto(step)   == call' = [call EXCEPT !.step = step]
Hidden(w)    == {m \in Memory : rows[m] \notin w}

Recall ==
    /\ At("idle")
    /\ ~acl \/ grant # "none"
    /\ \E limit \in Limits, w \in Wanted, types \in {{}, {"fact"}} :
          /\ call' = [Idle EXCEPT !.step = "text", !.limit = limit, !.wanted = w, !.types = types,
                                  !.pass = IF expansion THEN "mine" ELSE "only"]
          /\ hidden' = Hidden(w)
    /\ condemned' = deprecated /\ lenient' = FALSE /\ readable' = Readable
    /\ UNCHANGED <<acl, expansion, world, store, results, writes>>

\* The state is part of the query, ahead of its LIMIT.
SearchText ==
    LET live  == {m \in TextHits(call.pass) : rows[m] \in call.wanted}
        texts == First(Pool(call.pass), Numbered(TextOrder(call.pass), live)) IN
    /\ At("text")
    /\ call' = [call EXCEPT !.texts = texts, !.found = DOMAIN texts, !.step = "vectors"]
    /\ UNCHANGED <<acl, expansion, world, store, results, writes, history>>

\* The vector store knows no states: what is not found yet is fetched.
SearchVectors ==
    LET near == First(Pool(call.pass), Numbered(world.nearest, vectors)) IN
    /\ At("vectors")
    /\ call' = [call EXCEPT !.near = near, !.todo = DOMAIN near \ call.found, !.step = "fetch"]
    /\ UNCHANGED <<acl, expansion, world, store, results, writes, history>>

Present(m)   == rows[m] # "absent"
Retrieved(m) == rows[m] \in call.wanted

Fetch ==
    /\ At("fetch")
    /\ \/ call.todo = {} /\ Goto("fuse")
       \/ \E m \in call.todo :
             /\ \A n \in call.todo : call.near[m] <= call.near[n]
             /\ call' = [call EXCEPT !.todo = @ \ {m}, !.found = IF Retrieved(m) THEN @ \cup {m} ELSE @]
    /\ UNCHANGED <<acl, expansion, world, store, results, writes, history>>

\* The ranks are numbered again over the candidates that the caller may read; the
\* passes of an expansion are not given the filter, and keep the ranks of the indexes.
AnyRank(ranks)    == ranks
Renumbered(ranks) == Only(ranks, Readable \cap call.found)
RankedOver(ranks) == IF call.pass = "only" /\ acl THEN Renumbered(ranks) ELSE ranks
NotFiltered(S)    == S
Filtered(S)       == IF call.pass = "only" THEN S \cap Readable ELSE S

\* Sort, then cut.
Fuse ==
    LET found  == Filtered(call.found)
        texts  == RankedOver(call.texts)
        near   == RankedOver(call.near)
        admitted(barred) == {m \in found : Admitted(call.types, barred, m)} IN
    /\ At("fuse")
    /\ \E failed \in BOOLEAN :
          /\ lenient' = failed
          /\ call' = [call EXCEPT !.texts = texts, !.near = near, !.found = found,
                        !.ranked = First(PassLimit(call.pass), Sorted(texts, near, admitted(Barred(failed)))),
                        !.step = IF call.pass = "mine" THEN "mine" ELSE "touch"]
    /\ UNCHANGED <<acl, expansion, world, store, results, writes, hidden, condemned, readable>>

\* expand_query on what the caller may read: the entity is in 3 of 10 texts or more,
\* and the other gates let it pass.  Else the first pass is the result.
Dominant(pool) == LET mentioning == pool \cap world.mentions IN
                  mentioning # {} /\ 10 * Cardinality(mentioning) >= 3 * Cardinality(pool)

Mine ==
    LET pool == Only(call.ranked, Readable) IN
    /\ At("mine")
    /\ \/ /\ Dominant(DOMAIN First(TopK, pool))
          /\ call' = [call EXCEPT !.pass = "expanded", !.step = "text", !.ranked = Unranked]
       \/ call' = [call EXCEPT !.ranked = First(call.limit, pool), !.step = "touch"]
    /\ UNCHANGED <<acl, expansion, world, store, results, writes, history>>

\* Each result is marked as accessed, before recall filters them.
Touch ==
    /\ At("touch")
    /\ touched' = DOMAIN call.ranked
    /\ Goto("filter")
    /\ UNCHANGED <<acl, expansion, world, store, answer, writes, history>>

Return ==
    /\ At("filter")
    /\ answer' = Only(call.ranked, Readable)
    /\ Goto("done")
    /\ UNCHANGED <<acl, expansion, world, store, touched, writes, history>>

-----------------------------------------------------------------------------
(***************************************************************************)
(* What other threads do during the call.                                  *)
(***************************************************************************)
Write == call.step \notin {"idle", "done"} /\ writes < MaxWrites /\ writes' = writes + 1

Suppress ==
    /\ Write
    /\ \E m \in Memory : rows[m] = "active" /\ rows' = [rows EXCEPT ![m] = "hidden"]
    /\ UNCHANGED <<acl, expansion, world, vectors, deprecated, grant, call, results, history>>

\* A hard forget deletes the row first; a failure in between leaves the vector.
Delete ==
    /\ Write
    /\ \E m \in Memory : rows[m] # "absent" /\ rows' = [rows EXCEPT ![m] = "absent"]
    /\ UNCHANGED <<acl, expansion, world, vectors, deprecated, grant, call, results, history>>

DeleteVector ==
    /\ Write
    /\ \E m \in vectors : rows[m] = "absent" /\ vectors' = vectors \ {m}
    /\ UNCHANGED <<acl, expansion, world, rows, deprecated, grant, call, results, history>>

\* remember inserts a row and then its vector, mark_accessed revives a faded one, and
\* a whole-row write puts back the state that its call had read, of a deleted row too.
BringBack ==
    /\ Write
    /\ \E m \in Memory, s \in {"active", "hidden"} :
          /\ rows[m] \notin {"active", s}
          /\ rows' = [rows EXCEPT ![m] = s]
          /\ hidden' = IF s \in call.wanted THEN hidden \ {m} ELSE hidden
    /\ UNCHANGED <<acl, expansion, world, vectors, deprecated, grant, call, results, condemned, lenient, readable>>

InsertVector ==
    /\ Write
    /\ \E m \in Memory \ vectors : vectors' = vectors \cup {m}
    /\ UNCHANGED <<acl, expansion, world, rows, deprecated, grant, call, results, history>>

Deprecate ==
    /\ Write
    /\ \E s \in world.schemas \ deprecated : deprecated' = deprecated \cup {s}
    /\ UNCHANGED <<acl, expansion, world, rows, vectors, grant, call, results, history>>

Recover ==
    /\ Write
    /\ \E s \in deprecated : deprecated' = deprecated \ {s} /\ condemned' = condemned \ {s}
    /\ UNCHANGED <<acl, expansion, world, rows, vectors, grant, call, results, hidden, lenient, readable>>

\* grant and revoke
SetGrant ==
    /\ Write /\ acl
    /\ \E g \in {"own", "all", "none"} \ {grant} :
          /\ grant' = g
          /\ readable' = readable \cup {m \in Memory : MayReadUnder(g, m)}
    /\ UNCHANGED <<acl, expansion, world, rows, vectors, deprecated, call, results, hidden, condemned, lenient>>

-----------------------------------------------------------------------------
World ==
    [owner : Ownerships, schemas : SchemaSets, merit : Merits, mentions : MentionSets,
     order : Orders, hits : {1 .. k : k \in 0 .. Size},
     nearest : {f \in [Memory -> Memory] : \A m, n \in Memory : f[m] = f[n] => m = n}]

Init ==
    /\ acl \in BOOLEAN /\ expansion \in BOOLEAN /\ world \in World
    /\ rows \in Rows /\ vectors \in VectorSets
    /\ deprecated \in SUBSET world.schemas
    /\ grant \in IF acl THEN {"own", "all", "none"} ELSE {"none"}
    /\ call = Idle /\ touched = {} /\ answer = Unranked /\ writes = 0
    /\ hidden = {} /\ condemned = {} /\ lenient = FALSE /\ readable = {}

Next ==
    \/ Recall \/ SearchText \/ SearchVectors \/ Fetch \/ Fuse \/ Mine \/ Touch \/ Return
    \/ Suppress \/ Delete \/ DeleteVector \/ BringBack \/ InsertVector \/ Deprecate \/ Recover \/ SetGrant

Spec == Init /\ [][Next]_vars

-----------------------------------------------------------------------------
\* Reference: the ranking of the memories of S alone, numbered as if there were no
\* others, in the order that BM25 gives them.
RankingOf(S, barred) ==
    LET live  == {m \in S : rows[m] \in call.wanted}
        texts == Numbered(TextOrder("only"), live \cap world.hits)
        near  == Numbered(world.nearest, live \cap vectors) IN
    First(call.limit, Sorted(texts, near, {m \in live \cap (world.hits \cup vectors) : Admitted(call.types, barred, m)}))

PoolFull == \/ Cardinality({m \in world.hits : rows[m] \in call.wanted}) > Pool("only")
            \/ Cardinality(vectors) > Pool("only")

\* With access control on, memories that the caller may not read take no rank and no
\* place: the answer, its order and its length are those of the readable ones alone,
\* numbered anew (the comments at retrieval/engine.py:427-434 and engine.py:343-349).
\* What the others do change is the order that BM25 gives the readable ones, as its
\* scores use the statistics of all that is stored (retrieval/engine.py:435-439): the
\* reference takes that order over. Excused are expansion, whose passes are not given
\* the filter, and indexes with more hits than asked for, where the others' memories
\* take places of the pool.
SameAnswer ==
    At("done") /\ acl /\ call.pass = "only" /\ writes = 0 /\ ~PoolFull =>
        answer = RankingOf(Readable, Barred(lenient))

\* What was forgotten, deleted or deprecated when the call began, and not brought back
\* or recovered by others since, is not returned, whatever the vector store still holds
\* of it and in whatever pass it is found. Excused are the deprecated schemas of a
\* fusion whose lookup of the lifecycle failed (retrieval/engine.py:493-495).
NothingHidden ==
    At("done") => /\ DOMAIN answer \cap hidden = {}
                  /\ ~lenient => DOMAIN answer \cap condemned = {}

\* recall marks as accessed, and reconsolidates, only what the caller could read at
\* some moment of the call, expansion excepted: its second pass is not filtered, and
\* recall filters what it returns only after the search has marked it.
TouchedReadable == call.pass # "expanded" => touched \subseteq readable

\* Of two results of equal merit, the one that both indexes rank no worse, and one
\* of them better, comes first; an index that does not rank a memory is the worst.
\* A pool of 100 or more could break this: rank 101 scores less than no rank.
RespectsRanks ==
    At("done") /\ Pool(call.pass) < Missing =>
        \A m, n \in DOMAIN answer :
            LET a == <<RankIn(call.texts, m), RankIn(call.near, m)>>
                b == <<RankIn(call.texts, n), RankIn(call.near, n)>> IN
            answer[m] < answer[n] /\ world.merit[m] = world.merit[n] => ~(b # a /\ b[1] <= a[1] /\ b[2] <= a[2])
=============================================================================
