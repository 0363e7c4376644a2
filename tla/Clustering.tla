----------------------------- MODULE Clustering -----------------------------
(***************************************************************************)
(* _cluster_by_jaccard (consolidation/schema_family.py): single-link       *)
(* clusters of schemas by union-find with path halving, one action per     *)
(* iteration of a loop.  cluster() and cluster_by_cooccurrence() are this  *)
(* on property names (or fact tokens) and on window ids.                   *)
(*                                                                         *)
(* Data.  A schema is its rank among the sorted ids.  tau is a fraction,   *)
(* so that the comparison of quotients is exact.                           *)
(***************************************************************************)
EXTENDS Naturals, FiniteSets

CONSTANTS
    Size,       \* how many schemas
    Feature,    \* tokens, property names or window ids
    Tau         \* the thresholds, as pairs <<numerator, denominator>>

ASSUME SizeAssumption == Size \in Nat \ {0}
ASSUME TauAssumption  == Tau \subseteq {t \in Nat \X (Nat \ {0}) : t[1] <= t[2]}

Id   == 1 .. Size
NoId == 0

VARIABLES
    features,   \* features[s]: the feature set of s
    tau,
    parent,     \* the union-find forest
    pair,       \* the ids a and b of the loops over pairs
    pc,         \* "pair", "first" and "second" (in find of a, of b), "bucket", "done"
    cursor,     \* x in find, or NoId
    root,       \* rx in union, or NoId
    bucket,     \* bucket[s]: the root under which s was put, or NoId
    class       \* history: the least of the schemas that s was merged with

clusterVars == <<features, tau, parent, pair, pc, cursor, root, bucket, class>>

-----------------------------------------------------------------------------
\* jaccard(f, g) >= t, where an empty intersection has similarity zero.
Similar(f, g, t) == Cardinality(f \cap g) * t[2] >= t[1] * Cardinality(f \cup g)

\* F3: schemas without features are never compared.
Comparable(s, r) == features[s] # {} /\ features[r] # {}
Linked(s, r)     == Comparable(s, r) /\ Similar(features[s], features[r], tau)

Unlinked == [s \in Id |-> s]

\* The pair after p, a column to the right or the start of the next row.
After(p) == IF p[2] < Size THEN <<p[1], p[2] + 1>> ELSE <<p[1] + 1, p[1] + 2>>

NextPair ==
    /\ pc = "pair" /\ pair[2] <= Size
    /\ IF Linked(pair[1], pair[2])
       THEN pc' = "first" /\ cursor' = pair[1] /\ UNCHANGED pair
       ELSE pair' = After(pair) /\ UNCHANGED <<pc, cursor>>
    /\ UNCHANGED <<features, tau, parent, root, bucket, class>>

\* One iteration of find: the node is hung below its grandparent, and find goes on there.
Halved(x) == [parent EXCEPT ![x] = parent[parent[x]]]

Halve ==
    /\ pc \in {"first", "second", "bucket"} /\ parent[cursor] # cursor
    /\ parent' = Halved(cursor)
    /\ cursor' = parent[parent[cursor]]
    /\ UNCHANGED <<features, tau, pair, pc, root, bucket, class>>

FoundFirst ==
    /\ pc = "first" /\ parent[cursor] = cursor
    /\ root' = cursor /\ cursor' = pair[2] /\ pc' = "second"
    /\ UNCHANGED <<features, tau, parent, pair, bucket, class>>

\* union: the larger root is hung below the smaller one.
UnitedAtNode(rx, ry) == [parent EXCEPT ![pair[2]] = rx]
United(rx, ry)       == IF rx < ry THEN [parent EXCEPT ![ry] = rx] ELSE [parent EXCEPT ![rx] = ry]

\* History: two classes become one, known by its least member.
Merged(p, q) == [s \in Id |-> IF class[s] \in {p, q} THEN (IF p < q THEN p ELSE q) ELSE class[s]]

Unite ==
    /\ pc = "second" /\ parent[cursor] = cursor
    /\ parent' = United(root, cursor)
    /\ class' = Merged(root, cursor)
    /\ root' = NoId /\ cursor' = NoId
    /\ pc' = "pair" /\ pair' = After(pair)
    /\ UNCHANGED <<features, tau, bucket>>

StartBuckets ==
    /\ pc = "pair" /\ pair[2] > Size
    /\ pc' = "bucket" /\ cursor' = 1
    /\ UNCHANGED <<features, tau, parent, pair, root, bucket, class>>

\* The ids before the one being put into its bucket have theirs.
Current == CHOOSE s \in Id : bucket[s] = NoId /\ \A r \in Id : r < s => bucket[r] # NoId

FillBucket ==
    /\ pc = "bucket" /\ parent[cursor] = cursor
    /\ bucket' = [bucket EXCEPT ![Current] = cursor]
    /\ IF Current = Size THEN pc' = "done" /\ cursor' = NoId
                         ELSE cursor' = Current + 1 /\ UNCHANGED pc
    /\ UNCHANGED <<features, tau, parent, pair, root, class>>

-----------------------------------------------------------------------------
ClusterInit ==
    /\ features \in [Id -> SUBSET Feature] /\ tau \in Tau
    /\ parent = Unlinked /\ class = Unlinked
    /\ pair = <<1, 2>> /\ pc = "pair" /\ cursor = NoId /\ root = NoId
    /\ bucket = [s \in Id |-> NoId]

ClusterNext == NextPair \/ Halve \/ FoundFirst \/ Unite \/ StartBuckets \/ FillBucket

ClusterSpec == ClusterInit /\ [][ClusterNext]_clusterVars

-----------------------------------------------------------------------------
\* s and r are joined by a chain of links: r is in every set with s that links
\* cannot leave.
Closed(S)     == \A s \in S, r \in Id : Linked(s, r) => r \in S
Chained(s, r) == \A S \in SUBSET Id : s \in S /\ Closed(S) => r \in S

ClusterTypeOK ==
    /\ features \in [Id -> SUBSET Feature] /\ tau \in Tau
    /\ parent \in [Id -> Id] /\ class \in [Id -> Id] /\ bucket \in [Id -> Id \cup {NoId}]
    /\ pair \in (Nat \ {0}) \X (Nat \ {0}) /\ pair[1] < pair[2]
    /\ pc \in {"pair", "first", "second", "bucket", "done"}
    /\ cursor \in Id \cup {NoId} /\ root \in Id \cup {NoId}

\* The result is the partition that schema_family.py:28-30 promises: two schemas
\* share a cluster exactly if a chain of similarities of at least tau joins them,
\* whatever the order of the pairs, the shape of the forest and the halving of
\* its paths; and each cluster is known by its least member.
SingleLinkage ==
    pc = "done" => \A s, r \in Id : (bucket[s] = bucket[r] <=> Chained(s, r)) /\ bucket[s] <= s
=============================================================================
