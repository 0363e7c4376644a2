-------------------------- MODULE SchemaUpdateProofs --------------------------
(***************************************************************************)
(* Proofs about the stage SchemaUpdate of consolidation.                   *)
(*                                                                         *)
(* First its prepass: the clusters are the classes of the chain relation,  *)
(* for any number of schemas, any features and any threshold.  The         *)
(* inductive invariant says of the forest that following parents stays in  *)
(* the class and goes down to its least member, and of the loops which     *)
(* pairs they have seen.  On them rest the gate of the family prepass and  *)
(* the evidence that cluster-mates share.                                  *)
(*                                                                         *)
(* Then, from "The events of overlapping runs" on, the events it emits,    *)
(* for any number of runs, schemas, patterns, emitters and faults, any     *)
(* thresholds and any quorum of recall.                                    *)
(***************************************************************************)
EXTENDS SchemaFamily, SchemaEmission, FiniteSetTheorems, SequenceTheorems, WellFoundedInduction, TLAPS

(***************************************************************************)
(* Induction: natural numbers are well ordered because strict inclusion of *)
(* the intervals below them is.                                            *)
(***************************************************************************)
LEMMA LeastOf ==
    ASSUME NEW S \in SUBSET Nat, S # {}
    PROVE  \E i \in S : \A j \in S : i <= j
  <1>. DEFINE Down(i) == 0 .. i
              T == {Down(i) : i \in S}
  <1>1. IsWellFoundedOn(StrictSubsetOrdering(Nat), FiniteSubsetsOf(Nat))
    BY FS_StrictSubsetOrderingWellFounded
  <1>2. ASSUME NEW i \in S PROVE Down(i) \in FiniteSubsetsOf(Nat)
    <2>1. IsFiniteSet(Down(i))
      BY FS_Interval
    <2>. QED BY <2>1 DEF FiniteSubsetsOf
  <1>3. T \subseteq FiniteSubsetsOf(Nat) /\ T # {}
    BY <1>2
  <1>4. PICK x \in T : \A y \in T : ~ (<<y, x>> \in StrictSubsetOrdering(Nat))
    <2>. HIDE DEF T
    <2>. QED BY <1>1, <1>3, WFMin
  <1>5. PICK i \in S : x = Down(i)
    BY <1>4
  <1>6. ASSUME NEW j \in S, j < i PROVE FALSE
    <2>1. Down(j) \in T
      OBVIOUS
    <2>2. Down(j) \subseteq Down(i) /\ Down(j) # Down(i)
      <3>1. i \in Down(i) /\ i \notin Down(j)
        BY <1>6
      <3>. QED BY <3>1, <1>6
    <2>3. <<Down(j), x>> \in StrictSubsetOrdering(Nat)
      BY <2>2, <1>5 DEF StrictSubsetOrdering
    <2>. QED BY <1>4, <2>1, <2>3
  <1>. QED BY <1>6

LEMMA Upward ==
    ASSUME NEW N \in Nat, NEW S, 0 \in S,
           \A n \in 0 .. N : n < N /\ n \in S => n + 1 \in S
    PROVE  \A n \in 0 .. N : n \in S
<1>. DEFINE Missing == {n \in 0 .. N : n \notin S}
<1>1. SUFFICES ASSUME Missing # {} PROVE FALSE
  OBVIOUS
<1>2. PICK n \in Missing : \A m \in Missing : n <= m
  <2>1. Missing \in SUBSET Nat
    OBVIOUS
  <2>. HIDE DEF Missing
  <2>. QED BY <1>1, <2>1, LeastOf
<1>3. n # 0 /\ n \in 0 .. N /\ n \notin S
  OBVIOUS
<1>4. n - 1 \in 0 .. N /\ n - 1 < N /\ n - 1 \notin Missing /\ (n - 1) + 1 = n
  BY <1>2, <1>3
<1>. QED BY <1>3, <1>4

-----------------------------------------------------------------------------
(***************************************************************************)
(* The clusters                                                            *)
(***************************************************************************)
\* A node's parent is a smaller node of its class; only the least has none.
ForestInv ==
    /\ \A s \in Id : parent[s] <= s /\ class[parent[s]] = class[s]
    /\ \A s \in Id : parent[s] = s <=> class[s] = s
    /\ \A s \in Id : class[s] <= s /\ class[class[s]] = class[s]

\* The next pair is a pair of ids, until the rows are at an end.
PairInv == pair[2] > Size => pair[1] >= Size

\* find is in the class of the id it was called with.
FindInv ==
    /\ pc \in {"first", "second"} => /\ cursor \in Id /\ pair[2] <= Size
                                     /\ Linked(pair[1], pair[2])
    /\ pc = "first" => class[cursor] = class[pair[1]]
    /\ pc = "second" => root \in Id /\ parent[root] = root /\ root = class[pair[1]]
                        /\ class[cursor] = class[pair[2]]
    /\ pc = "bucket" => /\ cursor \in Id
                        /\ \E s \in Id : /\ bucket[s] = NoId /\ class[cursor] = class[s]
                                         /\ \A r \in Id : r < s => bucket[r] # NoId

\* The buckets are filled in order, each with the root of its class.
BucketInv ==
    /\ \A s \in Id : bucket[s] # NoId => bucket[s] = class[s]
    /\ \A s, r \in Id : r < s /\ bucket[s] # NoId => bucket[r] # NoId
    /\ pc \in {"pair", "first", "second"} => \A s \in Id : bucket[s] = NoId
    /\ pc = "done" => \A s \in Id : bucket[s] # NoId

\* The pairs that the loops have seen are in one class if they are linked,
Seen(s, r) == \/ pc \in {"bucket", "done"}
              \/ s < pair[1]
              \/ s = pair[1] /\ r < pair[2]
CompleteInv == \A s, r \in Id : s < r /\ Seen(s, r) /\ Linked(s, r) => class[s] = class[r]

\* and what is in one class is chained.
SoundInv == \A s, r \in Id : class[s] = class[r] => Chained(s, r)

ClusterInv == ClusterTypeOK /\ ForestInv /\ PairInv /\ FindInv /\ BucketInv /\ CompleteInv /\ SoundInv

-----------------------------------------------------------------------------
\* Similarity does not depend on the order of the two schemas.
LEMMA LinkSymmetric ==
    ASSUME NEW s \in Id, NEW r \in Id, Linked(s, r)
    PROVE  Linked(r, s)
<1>1. features[s] \cap features[r] = features[r] \cap features[s]
  OBVIOUS
<1>2. features[s] \cup features[r] = features[r] \cup features[s]
  OBVIOUS
<1>. QED  BY <1>1, <1>2 DEF Linked, Comparable, Similar

\* Chains: a schema with itself, two linked ones, and one chain after another.
LEMMA ChainSelf == ASSUME NEW s \in Id PROVE Chained(s, s)
BY DEF Chained

\* Two similar schemas are a chain.
LEMMA ChainLink ==
    ASSUME NEW s \in Id, NEW r \in Id, Linked(s, r)
    PROVE  Chained(s, r)
BY DEF Chained, Closed

\* A chain from s to r and one from r to q are a chain from s to q.
LEMMA ChainTransitive ==
    ASSUME NEW s \in Id, NEW r \in Id, NEW q \in Id, Chained(s, r), Chained(r, q)
    PROVE  Chained(s, q)
BY DEF Chained

\* A chain can be walked back: else the schemas that cannot be left from would be left.
LEMMA ChainSymmetric ==
    ASSUME NEW s \in Id, NEW r \in Id, Chained(s, r)
    PROVE  Chained(r, s)
<1>1. SUFFICES ASSUME NEW S \in SUBSET Id, r \in S, Closed(S), s \notin S
               PROVE  FALSE
  BY DEF Chained
<1>2. Closed(Id \ S)
  BY <1>1, LinkSymmetric DEF Closed
<1>3. r \in Id \ S
  BY <1>1, <1>2 DEF Chained
<1>. QED  BY <1>1, <1>3

-----------------------------------------------------------------------------
\* Every schema starts as a class of its own, and no pair is seen.
LEMMA ClusterInitInv == ASSUME ClusterInit PROVE ClusterInv
<1>. USE SizeAssumption DEF ClusterInit, Id, NoId, Unlinked
<1>1. ClusterTypeOK  BY DEF ClusterTypeOK
<1>2. ForestInv  BY DEF ForestInv
<1>3. PairInv  BY DEF PairInv
<1>4. FindInv  BY DEF FindInv
<1>5. BucketInv  BY DEF BucketInv
<1>6. CompleteInv  BY DEF CompleteInv, Seen
<1>7. SoundInv  BY ChainSelf DEF SoundInv
<1>. QED  BY <1>1, <1>2, <1>3, <1>4, <1>5, <1>6, <1>7 DEF ClusterInv

-----------------------------------------------------------------------------
\* What no step changes: the features and the threshold, hence links and chains.
LEMMA LinksStay ==
    ASSUME UNCHANGED <<features, tau>>
    PROVE  /\ \A s, r \in Id : Linked(s, r)' <=> Linked(s, r)
           /\ \A s, r \in Id : Chained(s, r)' <=> Chained(s, r)
<1>1. \A s, r \in Id : Linked(s, r)' <=> Linked(s, r)
  BY DEF Linked, Comparable, Similar
<1>2. \A S \in SUBSET Id : Closed(S)' <=> Closed(S)
  BY <1>1 DEF Closed
<1>. QED  BY <1>1, <1>2 DEF Chained

\* Going on to the pair after p adds p to the pairs seen, and no other pair.
LEMMA SeenAfter ==
    ASSUME NEW i \in Id, NEW j \in Id, i < j, NEW s \in Id, NEW r \in Id, s < r,
           \/ s < After(<<i, j>>)[1]
           \/ s = After(<<i, j>>)[1] /\ r < After(<<i, j>>)[2]
    PROVE  s < i \/ (s = i /\ r < j) \/ (s = i /\ r = j)
BY SizeAssumption DEF After, Id

\* The walk over pairs goes to another pair, or past the last one.
LEMMA AfterPair ==
    ASSUME NEW i \in Id, NEW j \in Id, i < j
    PROVE  /\ After(<<i, j>>) \in (Nat \ {0}) \X (Nat \ {0})
           /\ After(<<i, j>>)[1] < After(<<i, j>>)[2]
           /\ After(<<i, j>>)[2] > Size => After(<<i, j>>)[1] >= Size
BY SizeAssumption DEF After, Id

\* A pair of the walk is two schemas, the smaller one first.
LEMMA PairFacts ==
    ASSUME ClusterTypeOK
    PROVE  /\ pair = <<pair[1], pair[2]>> /\ pair[1] < pair[2]
           /\ pair[2] <= Size => pair[1] \in Id /\ pair[2] \in Id
<1>1. pair \in (Nat \ {0}) \X (Nat \ {0}) /\ pair[1] < pair[2]
  BY DEF ClusterTypeOK
<1>2. pair = <<pair[1], pair[2]>> /\ pair[1] \in Nat \ {0} /\ pair[2] \in Nat \ {0}
  BY <1>1
<1>. QED  BY <1>1, <1>2, SizeAssumption DEF Id

\* An unlinked pair is passed without joining anything; the end of the walk is its completeness.
LEMMA NextPairInv == ASSUME ClusterInv, NextPair PROVE ClusterInv'
<1>. USE DEF ClusterInv
<1>0. pair[1] \in Id /\ pair[2] \in Id /\ pair[1] < pair[2] /\ pair = <<pair[1], pair[2]>>
  BY PairFacts DEF NextPair
<1>1. CASE Linked(pair[1], pair[2])
  <2>1. pc' = "first" /\ cursor' = pair[1] /\ UNCHANGED pair
    BY <1>1 DEF NextPair
  <2>2. ClusterTypeOK'  BY <2>1, <1>0 DEF ClusterTypeOK, NextPair
  <2>3. ForestInv'  BY DEF ForestInv, NextPair
  <2>4. PairInv'  BY <2>1 DEF PairInv
  <2>5. FindInv'  BY <1>0, <1>1, <2>1, LinksStay DEF FindInv, NextPair
  <2>6. BucketInv'  BY <2>1 DEF BucketInv, NextPair
  <2>7. CompleteInv'  BY <2>1, LinksStay DEF CompleteInv, Seen, NextPair
  <2>8. SoundInv'  BY LinksStay DEF SoundInv, NextPair
  <2>. QED  BY <2>2, <2>3, <2>4, <2>5, <2>6, <2>7, <2>8
<1>2. CASE ~Linked(pair[1], pair[2])
  <2>1. pair' = After(pair) /\ UNCHANGED <<pc, cursor>> /\ pc = "pair"
    BY <1>2 DEF NextPair
  <2>2. ClusterTypeOK'  BY <2>1, <1>0, AfterPair DEF ClusterTypeOK, NextPair
  <2>3. ForestInv'  BY DEF ForestInv, NextPair
  <2>4. PairInv'  BY <2>1, <1>0, AfterPair DEF PairInv
  <2>5. FindInv'  BY <2>1 DEF FindInv
  <2>6. BucketInv'  BY <2>1 DEF BucketInv, NextPair
  <2>7. CompleteInv'
    <3>. SUFFICES ASSUME NEW s \in Id, NEW r \in Id, s < r, Seen(s, r)', Linked(s, r)'
                  PROVE  class[s] = class[r]
      BY DEF CompleteInv, NextPair
    <3>1. Linked(s, r)  BY LinksStay DEF NextPair
    <3>2. s < pair[1] \/ (s = pair[1] /\ r < pair[2]) \/ (s = pair[1] /\ r = pair[2])
      BY <1>0, <2>1, SeenAfter DEF Seen
    <3>. QED  BY <1>2, <3>1, <3>2 DEF CompleteInv, Seen
  <2>8. SoundInv'  BY LinksStay DEF SoundInv, NextPair
  <2>. QED  BY <2>2, <2>3, <2>4, <2>5, <2>6, <2>7, <2>8
<1>. QED  BY <1>1, <1>2

\* Path halving moves a node up within its own tree.
LEMMA HalveInv == ASSUME ClusterInv, Halve PROVE ClusterInv'
<1>. USE DEF ClusterInv
<1>0. /\ cursor \in Id /\ parent[cursor] \in Id /\ parent[parent[cursor]] \in Id
      /\ class[parent[parent[cursor]]] = class[cursor]
      /\ parent[parent[cursor]] < cursor
  BY DEF Halve, FindInv, ForestInv, ClusterTypeOK, Id
<1>1. ClusterTypeOK'  BY <1>0 DEF ClusterTypeOK, Halve, Halved
<1>2. ForestInv'  BY <1>0 DEF ForestInv, Halve, Halved, ClusterTypeOK, Id
<1>3. PairInv'  BY DEF PairInv, Halve
<1>4. FindInv'
  <2>1. \A s \in Id : parent[s] = s => parent'[s] = s
    BY <1>0 DEF Halve, Halved, ClusterTypeOK
  <2>2. \A s, r \in Id : Linked(s, r)' <=> Linked(s, r)
    BY LinksStay DEF Halve
  <2>3. cursor' = parent[parent[cursor]] /\ UNCHANGED <<pc, pair, root, class, bucket>>
    BY DEF Halve
  <2>4. pc \in {"first", "second"} => pair[1] \in Id /\ pair[2] \in Id
    BY PairFacts DEF FindInv
  <2>. QED  BY <1>0, <2>1, <2>2, <2>3, <2>4 DEF FindInv
<1>5. BucketInv'  BY DEF BucketInv, Halve
<1>6. CompleteInv'  BY LinksStay DEF CompleteInv, Seen, Halve
<1>7. SoundInv'  BY LinksStay DEF SoundInv, Halve
<1>. QED  BY <1>1, <1>2, <1>3, <1>4, <1>5, <1>6, <1>7

\* A find ends at the root of the class it began in.
LEMMA FoundFirstInv == ASSUME ClusterInv, FoundFirst PROVE ClusterInv'
<1>. USE DEF ClusterInv
<1>0. pair[1] \in Id /\ pair[2] \in Id /\ cursor \in Id
  BY PairFacts DEF FoundFirst, FindInv
<1>1. ClusterTypeOK'  BY <1>0 DEF ClusterTypeOK, FoundFirst
<1>2. ForestInv'  BY DEF ForestInv, FoundFirst
<1>3. PairInv'  BY DEF PairInv, FoundFirst
<1>4. FindInv'  BY <1>0, LinksStay DEF FindInv, ForestInv, FoundFirst
<1>5. BucketInv'  BY DEF BucketInv, FoundFirst
<1>6. CompleteInv'  BY LinksStay DEF CompleteInv, Seen, FoundFirst
<1>7. SoundInv'  BY LinksStay DEF SoundInv, FoundFirst
<1>. QED  BY <1>1, <1>2, <1>3, <1>4, <1>5, <1>6, <1>7

\* A union hangs the larger root below the smaller: two classes and two chains become one.
LEMMA UniteInv == ASSUME ClusterInv, Unite PROVE ClusterInv'
<1>. USE DEF ClusterInv
<1>0. /\ pair[1] \in Id /\ pair[2] \in Id /\ pair[1] < pair[2] /\ pair = <<pair[1], pair[2]>>
      /\ cursor \in Id /\ root \in Id /\ pc = "second" /\ pc' = "pair" /\ pair' = After(pair)
      /\ Linked(pair[1], pair[2])
  <2>1. pc = "second" /\ pc' = "pair" /\ pair' = After(pair)
    BY DEF Unite
  <2>. QED  BY <2>1, PairFacts DEF FindInv
<1>1. /\ class[pair[1]] = root /\ class[root] = root
      /\ class[pair[2]] = cursor /\ class[cursor] = cursor
  BY <1>0 DEF Unite, FindInv, ForestInv
<1>2. class' = [s \in Id |-> IF class[s] \in {root, cursor} THEN (IF root < cursor THEN root ELSE cursor)
                                                           ELSE class[s]]
  BY DEF Unite, Merged
<1>3. parent' = IF root < cursor THEN [parent EXCEPT ![cursor] = root] ELSE [parent EXCEPT ![root] = cursor]
  BY DEF Unite, United
<1>4. ClusterTypeOK'
  BY <1>0, <1>2, <1>3, AfterPair DEF ClusterTypeOK, Unite
<1>5. ForestInv'
  <2>1. \A s \in Id : class'[s] <= class[s] /\ class'[s] <= s
    <3>. TAKE s \in Id
    <3>1. class[s] \in Nat /\ root \in Nat /\ cursor \in Nat /\ s \in Nat
      BY <1>0 DEF ClusterTypeOK, Id
    <3>2. class'[s] = IF class[s] \in {root, cursor} THEN (IF root < cursor THEN root ELSE cursor)
                                                     ELSE class[s]
      BY <1>2
    <3>3. class'[s] <= class[s]
      BY <3>1, <3>2
    <3>4. class'[s] \in Nat /\ class[s] <= s
      BY <3>1, <3>2 DEF ForestInv
    <3>. QED  BY <3>1, <3>3, <3>4
  <2>2. CASE root < cursor
    <3>1. parent' = [parent EXCEPT ![cursor] = root]  BY <1>3, <2>2
    <3>2. class' = [s \in Id |-> IF class[s] \in {root, cursor} THEN root ELSE class[s]]  BY <1>2, <2>2
    <3>. QED  BY <1>0, <1>1, <2>1, <2>2, <3>1, <3>2 DEF ForestInv, ClusterTypeOK, Id
  <2>3. CASE ~(root < cursor)
    <3>1. parent' = [parent EXCEPT ![root] = cursor]  BY <1>3, <2>3
    <3>2. class' = [s \in Id |-> IF class[s] \in {root, cursor} THEN cursor ELSE class[s]]  BY <1>2, <2>3
    <3>. QED  BY <1>0, <1>1, <2>1, <2>3, <3>1, <3>2 DEF ForestInv, ClusterTypeOK, Id
  <2>. QED  BY <2>2, <2>3
<1>6. PairInv'  BY <1>0, AfterPair DEF PairInv
<1>7. FindInv'  BY <1>0 DEF FindInv
<1>8. BucketInv'  BY <1>0 DEF BucketInv, Unite
<1>9. CompleteInv'
  <2>. SUFFICES ASSUME NEW s \in Id, NEW r \in Id, s < r, Seen(s, r)', Linked(s, r)'
                PROVE  class'[s] = class'[r]
    BY DEF CompleteInv
  <2>1. Linked(s, r)  BY LinksStay DEF Unite
  <2>2. s < pair[1] \/ (s = pair[1] /\ r < pair[2]) \/ (s = pair[1] /\ r = pair[2])
    BY <1>0, SeenAfter DEF Seen
  <2>3. class[s] = class[r] \/ (s = pair[1] /\ r = pair[2])
    BY <2>1, <2>2 DEF CompleteInv, Seen
  <2>. QED  BY <1>0, <1>1, <1>2, <2>3
<1>10. SoundInv'
  <2>. SUFFICES ASSUME NEW s \in Id, NEW r \in Id, class'[s] = class'[r]
                PROVE  Chained(s, r)
    BY LinksStay DEF SoundInv, Unite
  <2>1. class[s] = class[r] \/ {class[s], class[r]} \subseteq {root, cursor}
    BY <1>2
  <2>2. CASE class[s] = class[r]
    BY <2>2 DEF SoundInv
  <2>3. CASE class[s] = root /\ class[r] = cursor
    <3>1. Chained(s, pair[1]) /\ Chained(pair[2], r)
      BY <1>0, <1>1, <2>3 DEF SoundInv
    <3>2. Chained(pair[1], pair[2])
      BY <1>0, ChainLink
    <3>. QED  BY <1>0, <3>1, <3>2, ChainTransitive
  <2>4. CASE class[s] = cursor /\ class[r] = root
    <3>1. Chained(s, pair[2]) /\ Chained(pair[1], r)
      BY <1>0, <1>1, <2>4 DEF SoundInv
    <3>2. Chained(pair[2], pair[1])
      BY <1>0, LinkSymmetric, ChainLink
    <3>. QED  BY <1>0, <3>1, <3>2, ChainTransitive
  <2>. QED  BY <2>1, <2>2, <2>3, <2>4
<1>. QED  BY <1>4, <1>5, <1>6, <1>7, <1>8, <1>9, <1>10

\* After the last pair the classes are the chains, and the buckets start empty.
LEMMA StartBucketsInv == ASSUME ClusterInv, StartBuckets PROVE ClusterInv'
<1>. USE DEF ClusterInv
<1>1. ClusterTypeOK'
  <2>1. 1 \in Id
    BY SizeAssumption DEF Id
  <2>. QED  BY <2>1 DEF ClusterTypeOK, StartBuckets
<1>2. ForestInv'  BY DEF ForestInv, StartBuckets
<1>3. PairInv'  BY DEF PairInv, StartBuckets
<1>4. FindInv'
  <2>1. 1 \in Id /\ \A r \in Id : ~(r < 1)
    BY SizeAssumption DEF Id
  <2>2. bucket[1] = NoId
    BY <2>1 DEF BucketInv, StartBuckets
  <2>. QED  BY <2>1, <2>2 DEF FindInv, StartBuckets
<1>5. BucketInv'  BY DEF BucketInv, StartBuckets
<1>6. CompleteInv'
  <2>. SUFFICES ASSUME NEW s \in Id, NEW r \in Id, s < r, Linked(s, r)
                PROVE  class[s] = class[r]
    BY LinksStay DEF CompleteInv, StartBuckets
  <2>1. s < pair[1]
    BY SizeAssumption DEF StartBuckets, PairInv, ClusterTypeOK, Id
  <2>. QED  BY <2>1 DEF CompleteInv, Seen
<1>7. SoundInv'  BY LinksStay DEF SoundInv, StartBuckets
<1>. QED  BY <1>1, <1>2, <1>3, <1>4, <1>5, <1>6, <1>7

\* The bucket of the first member of a class is named after it, and the others join it.
LEMMA FillBucketInv == ASSUME ClusterInv, FillBucket PROVE ClusterInv'
<1>. USE DEF ClusterInv
<1>0. PICK s \in Id : /\ bucket[s] = NoId /\ class[cursor] = class[s]
                      /\ \A r \in Id : r < s => bucket[r] # NoId
  BY DEF FillBucket, FindInv
<1>1. Current = s
  <2>1. \A q \in Id : bucket[q] = NoId /\ (\A r \in Id : r < q => bucket[r] # NoId) => q = s
    BY <1>0 DEF Id
  <2>. QED  BY <1>0, <2>1 DEF Current
<1>2. /\ pc = "bucket" /\ cursor \in Id /\ cursor = class[s]
      /\ bucket' = [bucket EXCEPT ![s] = cursor]
  BY <1>0, <1>1 DEF FillBucket, FindInv, ForestInv
<1>3. \A r \in Id : s < r => bucket[r] = NoId
  BY <1>0 DEF BucketInv
<1>4. CASE s = Size
  <2>1. pc' = "done" /\ cursor' = NoId  BY <1>1, <1>4 DEF FillBucket
  <2>2. ClusterTypeOK'  BY <1>2, <2>1 DEF ClusterTypeOK, FillBucket
  <2>3. ForestInv'  BY DEF ForestInv, FillBucket
  <2>4. PairInv'  BY DEF PairInv, FillBucket
  <2>5. FindInv'  BY <2>1 DEF FindInv
  <2>6. \A r \in Id : bucket'[r] # NoId
    <3>1. \A r \in Id : r = s \/ r < s
      BY <1>4, SizeAssumption DEF Id
    <3>2. cursor # NoId
      BY <1>2 DEF Id, NoId
    <3>. QED  BY <1>0, <1>2, <3>1, <3>2 DEF ClusterTypeOK
  <2>7. BucketInv'  BY <1>0, <1>2, <2>1, <2>6 DEF BucketInv, FillBucket, ClusterTypeOK
  <2>8. CompleteInv'  BY <1>2, <2>1, LinksStay DEF CompleteInv, Seen, FillBucket
  <2>9. SoundInv'  BY LinksStay DEF SoundInv, FillBucket
  <2>. QED  BY <2>2, <2>3, <2>4, <2>5, <2>7, <2>8, <2>9
<1>5. CASE s # Size
  <2>1. pc' = "bucket" /\ cursor' = s + 1 /\ s + 1 \in Id
    <3>1. pc' = "bucket" /\ cursor' = s + 1
      BY <1>1, <1>2, <1>5 DEF FillBucket
    <3>2. s + 1 \in Id
      BY <1>5, SizeAssumption DEF Id
    <3>. QED  BY <3>1, <3>2
  <2>2. ClusterTypeOK'  BY <1>2, <2>1 DEF ClusterTypeOK, FillBucket
  <2>3. ForestInv'  BY DEF ForestInv, FillBucket
  <2>4. PairInv'  BY DEF PairInv, FillBucket
  <2>5. FindInv'
    <3>1. bucket'[s + 1] = NoId
      BY <1>2, <1>3, <2>1 DEF Id, ClusterTypeOK
    <3>2. \A r \in Id : r < s + 1 => bucket'[r] # NoId
      BY <1>0, <1>2 DEF Id, ClusterTypeOK, NoId
    <3>3. UNCHANGED class  BY DEF FillBucket
    <3>. QED  BY <2>1, <3>1, <3>2, <3>3 DEF FindInv
  <2>6. BucketInv'
    BY <1>0, <1>2, <1>3, <2>1 DEF BucketInv, FillBucket, ClusterTypeOK, Id, NoId
  <2>7. CompleteInv'  BY <1>2, <2>1, LinksStay DEF CompleteInv, Seen, FillBucket
  <2>8. SoundInv'  BY LinksStay DEF SoundInv, FillBucket
  <2>. QED  BY <2>2, <2>3, <2>4, <2>5, <2>6, <2>7, <2>8
<1>. QED  BY <1>4, <1>5

\* Nothing changes in a step that leaves the variables alone.
LEMMA StutterInv == ASSUME ClusterInv, UNCHANGED clusterVars PROVE ClusterInv'
<1>. USE DEF ClusterInv, clusterVars
<1>1. ClusterTypeOK' /\ ForestInv' /\ PairInv'
  BY DEF ClusterTypeOK, ForestInv, PairInv
<1>2. FindInv' /\ BucketInv' /\ CompleteInv' /\ SoundInv'
  <2>1. /\ \A s, r \in Id : Linked(s, r)' <=> Linked(s, r)
        /\ \A s, r \in Id : Chained(s, r)' <=> Chained(s, r)
    BY LinksStay
  <2>2. FindInv'
    <3>1. pc \in {"first", "second"} => pair[1] \in Id /\ pair[2] \in Id
      BY PairFacts DEF FindInv
    <3>. QED  BY <2>1, <3>1 DEF FindInv
  <2>3. BucketInv'  BY DEF BucketInv
  <2>4. CompleteInv' /\ SoundInv'  BY <2>1 DEF CompleteInv, Seen, SoundInv
  <2>. QED  BY <2>2, <2>3, <2>4
<1>. QED  BY <1>1, <1>2

\* The inductive invariant of the union-find.
THEOREM ClusterInvariant == ClusterSpec => []ClusterInv
<1>1. ClusterInit => ClusterInv
  BY ClusterInitInv
<1>2. ClusterInv /\ [ClusterNext]_clusterVars => ClusterInv'
  BY NextPairInv, HalveInv, FoundFirstInv, UniteInv, StartBucketsInv, FillBucketInv, StutterInv DEF ClusterNext
<1>. QED  BY <1>1, <1>2, PTL DEF ClusterSpec

-----------------------------------------------------------------------------
\* What the invariant says of buckets that are full: classes are chains.
LEMMA Partition == ClusterInv => SingleLinkage
<1>. SUFFICES ASSUME ClusterInv, pc = "done", NEW s \in Id, NEW r \in Id
              PROVE  (bucket[s] = bucket[r] <=> Chained(s, r)) /\ bucket[s] <= s
  BY DEF SingleLinkage
<1>. USE DEF ClusterInv
<1>1. \A q \in Id : bucket[q] = class[q]
  BY DEF BucketInv
<1>2. bucket[s] <= s
  BY <1>1 DEF ForestInv
<1>3. bucket[s] = bucket[r] => Chained(s, r)
  BY <1>1 DEF SoundInv
<1>4. ASSUME Chained(s, r) PROVE class[s] = class[r]
  <2>. DEFINE S == {q \in Id : class[q] = class[s]}
  <2>1. ASSUME NEW p \in Id, NEW q \in Id, Linked(p, q) PROVE class[p] = class[q]
    <3>1. CASE p < q  BY <2>1, <3>1 DEF CompleteInv, Seen
    <3>2. CASE q < p  BY <2>1, <3>2, LinkSymmetric DEF CompleteInv, Seen
    <3>3. CASE p = q  BY <3>3
    <3>. QED  BY <3>1, <3>2, <3>3 DEF Id
  <2>2. Closed(S)
    BY <2>1 DEF Closed
  <2>3. r \in S
    BY <1>4, <2>2 DEF Chained
  <2>. QED  BY <2>3
<1>. QED  BY <1>1, <1>2, <1>3, <1>4

\* schema_family.py:28-30, for any number of schemas, any features and any tau: the
\* clusters are exactly the chains of similar schemas, and the root is their least.
THEOREM ClustersAreChains == ClusterSpec => []SingleLinkage
BY Partition, ClusterInvariant, PTL

\* The union-find is well typed, and its forest has no cycles.
THEOREM ClusterTypeCorrect == ClusterSpec => []ClusterTypeOK
BY ClusterInvariant, PTL DEF ClusterInv

-----------------------------------------------------------------------------
(***************************************************************************)
(* The contamination gate of the sibling prepass does what its cap says,   *)
(* for any number of schemas, any features and any configuration.  It      *)
(* rests on what is proved of the clusters.                                *)
(***************************************************************************)
\* The siblings are set once, when the clusters are complete, and what the gate
\* saw then has not changed since.
SiblingsInv ==
    /\ config \in Config
    /\ step # "cluster" => pc = "done"
    /\ \A s \in Id : \A r \in siblings[s] :
          step # "cluster" /\ ~Gated /\ r \in Id /\ r # s /\ bucket[r] = bucket[s]

FamilyIInv == ClusterInv /\ SiblingsInv

-----------------------------------------------------------------------------
\* When the clusters are complete, the loops take no further step.
LEMMA ClusteringOver == ASSUME pc = "done" PROVE ~ClusterNext
BY DEF ClusterNext, NextPair, Halve, FoundFirst, Unite, StartBuckets, FillBucket

\* What the gate measures depends on the clusters and on the configuration only.
LEMMA GateStays ==
  ASSUME UNCHANGED <<clusterVars, config>>
  PROVE  Gated' <=> Gated
<1>1. UNCHANGED <<features, tau, bucket, config>>
  BY DEF clusterVars
<1>2. Within' = Within
  BY <1>1 DEF Within
<1>3. Apart' = Apart
  BY <1>1, <1>2 DEF Apart
<1>4. Singletons' = Singletons
  BY <1>1 DEF Singletons, OtherMates, Mates
<1> QED
  BY <1>1, <1>2, <1>3, <1>4 DEF Gated

\* No sibling is known before the clusters are.
LEMMA FamilyInitInv == FamilyInit => FamilyIInv
<1> SUFFICES ASSUME FamilyInit
             PROVE  FamilyIInv
  OBVIOUS
<1>1. ClusterInv
  BY ClusterInitInv DEF FamilyInit
<1>2. SiblingsInv
  BY DEF FamilyInit, SiblingsInv
<1> QED
  BY <1>1, <1>2 DEF FamilyIInv

\* The loops find no siblings yet, the prepass sets them, and the decisions
\* leave them as they are.
LEMMA FamilyNextInv == FamilyIInv /\ [FamilyNext]_familyVars => FamilyIInv'
<1> SUFFICES ASSUME FamilyIInv, [FamilyNext]_familyVars
             PROVE  FamilyIInv'
  OBVIOUS
<1>1. [ClusterNext]_clusterVars
  BY DEF FamilyNext, familyVars, BuildSiblings, DecideBatch
<1>2. ClusterInv'
  <2>1. CASE ClusterNext
    BY <2>1, NextPairInv, HalveInv, FoundFirstInv, UniteInv, StartBucketsInv, FillBucketInv DEF FamilyIInv, ClusterNext
  <2>2. CASE UNCHANGED clusterVars
    BY <2>2, StutterInv DEF FamilyIInv
  <2> QED
    BY <1>1, <2>1, <2>2
<1>3. SiblingsInv'
  <2>1. CASE ClusterNext /\ UNCHANGED <<config, siblings, evidence, decided, step>>
    <3>1. step = "cluster" /\ \A s \in Id : siblings[s] = {}
      BY <2>1, ClusteringOver DEF FamilyIInv, SiblingsInv
    <3> QED
      BY <2>1, <3>1 DEF FamilyIInv, SiblingsInv
  <2>2. CASE BuildSiblings
    <3>1. /\ UNCHANGED <<clusterVars, config>> /\ step' = "siblings" /\ pc = "done" /\ UNCHANGED <<pc, bucket>>
          /\ siblings' = [s \in Id |-> IF config.share[1] = 0 \/ Gated THEN {} ELSE OtherMates(s)]
      BY <2>2 DEF BuildSiblings, clusterVars
    <3>2. \A s \in Id : \A r \in siblings'[s] : ~Gated /\ r \in Id /\ r # s /\ bucket[r] = bucket[s]
      BY <3>1 DEF OtherMates, Mates
    <3> QED
      BY <3>1, <3>2, GateStays DEF FamilyIInv, SiblingsInv
  <2>3. CASE UNCHANGED <<clusterVars, config, siblings>> /\ (step # "cluster" => step' # "cluster") /\ (step' # "cluster" => step # "cluster")
    <3>1. UNCHANGED <<pc, bucket>>
      BY <2>3 DEF clusterVars
    <3> QED
      BY <2>3, <3>1, GateStays DEF FamilyIInv, SiblingsInv
  <2>4. CASE DecideBatch
    BY <2>3, <2>4 DEF DecideBatch
  <2>5. CASE UNCHANGED familyVars
    BY <2>3, <2>5 DEF familyVars
  <2> QED
    BY <2>1, <2>2, <2>4, <2>5 DEF FamilyNext
<1> QED
  BY <1>2, <1>3 DEF FamilyIInv

-----------------------------------------------------------------------------
\* A gate with cap zero is closed by a single pair that only a chain holds together.
LEMMA CapZero ==
  ASSUME config \in Config, config.contamination # NoCap, config.contamination[1] = 0, ~Gated
  PROVE  Apart = {}
<1> DEFINE cap == config.contamination
           n == Cardinality(Apart)
           m == Cardinality(Within)
<1>1. cap[1] = 0 /\ cap[2] \in Nat \ {0}
  BY ConfigAssumption DEF Fraction
<1>2. IsFiniteSet(Within) /\ IsFiniteSet(Apart)
  <2>1. IsFiniteSet(Id)
    BY SizeAssumption, FS_Interval DEF Id
  <2>2. IsFiniteSet(Id \X Id)
    BY <2>1, FS_Product
  <2> QED
    BY <2>2, FS_Subset DEF Within, Apart
<1>3. n \in Nat /\ m \in Nat
  BY <1>2, FS_CardinalityType
<1>4. ~(n * cap[2] > cap[1] * m)
  BY DEF Gated, Exceeds
<1>5. n = 0
  <2> HIDE DEF n, m, cap
  <2>1. cap[1] * m = 0
    BY <1>1, <1>3
  <2>2. ASSUME n # 0
        PROVE  n * cap[2] > 0
    BY <1>1, <1>3, <2>2
  <2> QED
    BY <1>3, <1>4, <2>1, <2>2
<1> QED
  BY <1>2, <1>5, FS_EmptySet

\* Chained schemas are comparable: a schema without features is a cluster of its own.
LEMMA ChainedComparable ==
  ASSUME NEW s \in Id, NEW r \in Id, s # r, Chained(s, r)
  PROVE  features[s] # {}
<1> SUFFICES ASSUME features[s] = {}
             PROVE  FALSE
  OBVIOUS
<1>1. Closed({s})
  BY DEF Closed, Linked, Comparable
<1> QED
  BY <1>1 DEF Chained

\* With a contamination cap of zero no schema borrows evidence from one that it is
\* not similar to, for any number of schemas, any features, thresholds and shares.
THEOREM NobodyBorrowsThroughChains == FamilySpec => []BorrowsFromSimilar
<1>1. FamilyIInv /\ SingleLinkage => BorrowsFromSimilar
  <2> SUFFICES ASSUME FamilyIInv, SingleLinkage,
                      config.contamination # NoCap, config.contamination[1] = 0,
                      NEW s \in Id, NEW r \in siblings[s]
               PROVE  Linked(s, r)
    BY DEF BorrowsFromSimilar
  <2>1. /\ config \in Config /\ pc = "done" /\ ~Gated
        /\ r \in Id /\ r # s /\ bucket[r] = bucket[s]
    BY DEF FamilyIInv, SiblingsInv
  <2>2. Chained(s, r) /\ Chained(r, s)
    BY <2>1 DEF SingleLinkage
  <2>3. features[s] # {} /\ features[r] # {}
    BY <2>1, <2>2, ChainedComparable
  <2>4. Apart = {}
    BY <2>1, CapZero
  <2>5. CASE s < r
    <3>1. <<s, r>> \in Within
      BY <2>1, <2>5 DEF Within
    <3> QED
      BY <2>3, <2>4, <3>1 DEF Apart, Linked, Comparable
  <2>6. CASE r < s
    <3>1. <<r, s>> \in Within
      BY <2>1, <2>6 DEF Within
    <3>2. Linked(r, s)
      BY <2>3, <2>4, <3>1 DEF Apart, Linked, Comparable
    <3> QED
      BY <2>1, <3>2, LinkSymmetric
  <2> QED
    BY <2>1, <2>5, <2>6 DEF Id
<1>2. ClusterInv => SingleLinkage
  BY Partition
<1> QED
  BY <1>1, <1>2, FamilyInitInv, FamilyNextInv, PTL DEF FamilySpec, FamilyIInv

-----------------------------------------------------------------------------
(***************************************************************************)
(* What a whole cluster counts.  A total picks the members in an order of  *)
(* its own; the lemmas say that any member can be taken out first.         *)
(***************************************************************************)
Picked(T) == CHOOSE x \in T : TRUE

\* it is the running total of the parts of S: as a function, and part by part.
IsTotal(batch, count, S, it) ==
    it = [T \in SUBSET S |-> IF T = {} THEN 0 ELSE batch[Picked(T)][count] + it[T \ {Picked(T)}]]

Sums(batch, count, S, it) ==
    \A T \in SUBSET S : it[T] = IF T = {} THEN 0 ELSE batch[Picked(T)][count] + it[T \ {Picked(T)}]

\* Taking one member out of a finite set leaves a smaller one.
LEMMA OneLess ==
    ASSUME NEW T, IsFiniteSet(T), NEW x \in T
    PROVE  /\ IsFiniteSet(T \ {x}) /\ Cardinality(T) \in Nat \ {0} /\ Cardinality(T \ {x}) = Cardinality(T) - 1
<1>1. IsFiniteSet(T \ {x}) /\ Cardinality(T \ {x}) = Cardinality(T) - 1
  BY FS_RemoveElement
<1>2. Cardinality(T) \in Nat /\ Cardinality(T) # 0
  BY FS_CardinalityType, FS_EmptySet
<1>. QED BY <1>1, <1>2

\* There is a running total: one for the parts of n members gives one for n + 1.
LEMMA SumsExist ==
    ASSUME NEW batch, NEW count, NEW S, IsFiniteSet(S)
    PROVE  \E it : IsTotal(batch, count, S, it)
<1>. DEFINE N == Cardinality(S)
            Body(it, T) == IF T = {} THEN 0 ELSE batch[Picked(T)][count] + it[T \ {Picked(T)}]
            Small(n) == {T \in SUBSET S : Cardinality(T) <= n}
            Upto(it, n) == it = [T \in Small(n) |-> Body(it, T)]
            Ns == {n \in 0 .. N : \E it : Upto(it, n)}
<1>1. N \in Nat /\ \A T \in SUBSET S : IsFiniteSet(T) /\ Cardinality(T) \in 0 .. N
  <2>1. N \in Nat
    BY FS_CardinalityType
  <2>2. ASSUME NEW T \in SUBSET S PROVE IsFiniteSet(T) /\ Cardinality(T) <= N /\ Cardinality(T) \in Nat
    BY FS_Subset, FS_CardinalityType
  <2>. HIDE DEF N
  <2>. QED BY <2>1, <2>2
<1>2. ASSUME NEW T \in SUBSET S, T # {}
      PROVE  Picked(T) \in T /\ T \ {Picked(T)} \in SUBSET S /\ Cardinality(T \ {Picked(T)}) = Cardinality(T) - 1
  <2>1. Picked(T) \in T
    BY <1>2 DEF Picked
  <2>. QED BY <1>1, <2>1, OneLess
<1>. HIDE DEF N
<1>3. 0 \in Ns
  <2>. DEFINE it == [T \in Small(0) |-> 0]
  <2>1. ASSUME NEW T \in Small(0) PROVE T = {}
    <3>1. Cardinality(T) = 0 /\ IsFiniteSet(T)
      BY <1>1
    <3>. QED BY <3>1, FS_EmptySet
  <2>2. Upto(it, 0)
    BY <2>1
  <2>3. 0 \in 0 .. N
    BY <1>1
  <2>. HIDE DEF Upto, it
  <2>. QED BY <2>2, <2>3
<1>4. ASSUME NEW n \in 0 .. N, n < N, n \in Ns PROVE n + 1 \in Ns
  <2>1. PICK it : Upto(it, n)
    BY <1>4
  <2>. DEFINE next == [T \in Small(n + 1) |-> IF T \in Small(n) THEN it[T] ELSE Body(it, T)]
  <2>2. ASSUME NEW T \in Small(n + 1), T # {} PROVE T \ {Picked(T)} \in Small(n) \cap Small(n + 1)
    <3>1. T \in SUBSET S /\ Cardinality(T) <= n + 1 /\ Cardinality(T) \in 0 .. N
      BY <1>1, <2>2
    <3>2. T \ {Picked(T)} \in SUBSET S /\ Cardinality(T \ {Picked(T)}) = Cardinality(T) - 1
      BY <1>2, <2>2, <3>1
    <3>. QED BY <1>1, <3>1, <3>2
  <2>3. ASSUME NEW T \in Small(n + 1) PROVE next[T] = Body(next, T)
    <3>1. CASE T = {}
      <4>1. T \in Small(n) => it[T] = Body(it, T)
        BY <2>1
      <4>. HIDE DEF Small
      <4>. QED BY <3>1, <4>1
    <3>2. CASE T # {}
      <4>1. next[T \ {Picked(T)}] = it[T \ {Picked(T)}]
        <5>1. T \ {Picked(T)} \in Small(n) \cap Small(n + 1)
          BY <2>2, <3>2
        <5>. HIDE DEF Small
        <5>. QED BY <5>1
      <4>2. T \in Small(n) => it[T] = Body(it, T)
        BY <2>1
      <4>3. next[T] = Body(it, T)
        <5>. HIDE DEF Small, Body
        <5>. QED BY <4>2
      <4>. HIDE DEF next
      <4>. QED BY <3>2, <4>1, <4>3
    <3>. QED BY <3>1, <3>2
  <2>4. Upto(next, n + 1)
    <3>. HIDE DEF Body, Small
    <3>. QED BY <2>3
  <2>5. n + 1 \in 0 .. N
    BY <1>1, <1>4
  <2>. HIDE DEF Upto, next
  <2>. QED BY <2>4, <2>5
<1>5. N \in Ns
  <2>. HIDE DEF Ns
  <2>1. \A n \in 0 .. N : n < N /\ n \in Ns => n + 1 \in Ns
    BY <1>4
  <2>2. \A n \in 0 .. N : n \in Ns
    BY <1>1, <1>3, <2>1, Upward
  <2>. QED BY <1>1, <2>2
<1>6. PICK it : Upto(it, N)
  BY <1>5
<1>7. Small(N) = SUBSET S
  BY <1>1
<1>8. it = [T \in SUBSET S |-> Body(it, T)]
  <2>. HIDE DEF Small, Body
  <2>. QED BY <1>6, <1>7
<1>. QED BY <1>8 DEF IsTotal

LEMMA TotalSums ==
    ASSUME NEW batch, NEW count, NEW S, NEW it, IsTotal(batch, count, S, it)
    PROVE  Sums(batch, count, S, it)
<1>. DEFINE Body(T) == IF T = {} THEN 0 ELSE batch[Picked(T)][count] + it[T \ {Picked(T)}]
<1>1. it = [T \in SUBSET S |-> Body(T)]
  BY DEF IsTotal
<1>2. \A T \in SUBSET S : it[T] = Body(T)
  <2>. HIDE DEF Body
  <2>. QED BY <1>1
<1>. QED BY <1>2 DEF Sums

\* Two running totals agree where both are defined.
LEMMA SumsAgree ==
    ASSUME NEW batch, NEW count, NEW S, NEW T, T \subseteq S, IsFiniteSet(T),
           NEW it, NEW other, Sums(batch, count, S, it), Sums(batch, count, T, other)
    PROVE  it[T] = other[T]
<1>. DEFINE N == Cardinality(T)
            Ns == {n \in 0 .. N : \A U \in SUBSET T : Cardinality(U) = n => it[U] = other[U]}
<1>1. N \in Nat /\ \A U \in SUBSET T : IsFiniteSet(U)
  BY FS_CardinalityType, FS_Subset
<1>2. 0 \in Ns
  <2>1. ASSUME NEW U \in SUBSET T, Cardinality(U) = 0 PROVE it[U] = other[U]
    <3>1. U = {} /\ U \in SUBSET S
      BY <1>1, <2>1, FS_EmptySet
    <3>. QED BY <3>1 DEF Sums
  <2>. HIDE DEF N
  <2>. QED BY <1>1, <2>1
<1>3. ASSUME NEW n \in 0 .. N, n < N, n \in Ns PROVE n + 1 \in Ns
  <2>1. ASSUME NEW U \in SUBSET T, Cardinality(U) = n + 1 PROVE it[U] = other[U]
    <3>. DEFINE V == U \ {Picked(U)}
    <3>1. U # {}
      BY <1>1, <2>1, FS_EmptySet
    <3>2. Picked(U) \in U
      BY <3>1 DEF Picked
    <3>3. V \in SUBSET T /\ Cardinality(V) = n
      <4>1. Cardinality(V) = Cardinality(U) - 1
        BY <1>1, <3>2, OneLess
      <4>. QED BY <1>1, <2>1, <4>1
    <3>4. it[V] = other[V]
      BY <1>3, <3>3
    <3>5. it[U] = batch[Picked(U)][count] + it[V] /\ other[U] = batch[Picked(U)][count] + other[V]
      BY <3>1 DEF Sums
    <3>. QED BY <3>4, <3>5
  <2>2. n + 1 \in 0 .. N
    BY <1>1, <1>3
  <2>. QED BY <2>1, <2>2
<1>4. \A n \in 0 .. N : n \in Ns
  <2>. HIDE DEF N, Ns
  <2>1. \A n \in 0 .. N : n < N /\ n \in Ns => n + 1 \in Ns
    BY <1>3
  <2>. QED BY <1>1, <1>2, <2>1, Upward
<1>5. N \in Ns
  <2>. HIDE DEF N, Ns
  <2>. QED BY <1>1, <1>4
<1>. QED BY <1>5

\* The total of a set is what it is in the running total of a larger one.
LEMMA TotalIs ==
    ASSUME NEW batch, NEW count, NEW S, IsFiniteSet(S), NEW it, Sums(batch, count, S, it), NEW T \in SUBSET S
    PROVE  Total(batch, count, T) = it[T]
<1>. DEFINE own == CHOOSE f : IsTotal(batch, count, T, f)
<1>1. Total(batch, count, T) = own[T]
  BY DEF Total, MapThenSumSet, MapThenFoldSet, Picked, IsTotal
<1>2. IsFiniteSet(T)
  BY FS_Subset
<1>3. IsTotal(batch, count, T, own)
  BY <1>2, SumsExist
<1>. HIDE DEF own
<1>4. Sums(batch, count, T, own)
  BY <1>3, TotalSums
<1>. QED BY <1>1, <1>2, <1>4, SumsAgree

\* Whichever member is taken out first, the rest makes up the total.
LEMMA TotalSplit ==
    ASSUME NEW batch, NEW count, NEW S, IsFiniteSet(S), \A x \in S : batch[x][count] \in Nat
    PROVE  /\ Total(batch, count, S) \in Nat
           /\ \A x \in S : Total(batch, count, S) = batch[x][count] + Total(batch, count, S \ {x})
<1>. DEFINE N == Cardinality(S)
            own(x) == batch[x][count]
<1>1. PICK it : Sums(batch, count, S, it)
  BY SumsExist, TotalSums
<1>. DEFINE Good(T) == it[T] \in Nat /\ \A x \in T : it[T] = own(x) + it[T \ {x}]
            Ns == {n \in 0 .. N : \A T \in SUBSET S : Cardinality(T) <= n => Good(T)}
<1>2. N \in Nat /\ \A T \in SUBSET S : IsFiniteSet(T) /\ Cardinality(T) \in 0 .. N
  <2>1. N \in Nat
    BY FS_CardinalityType
  <2>2. ASSUME NEW T \in SUBSET S PROVE IsFiniteSet(T) /\ Cardinality(T) <= N /\ Cardinality(T) \in Nat
    BY FS_Subset, FS_CardinalityType
  <2>. HIDE DEF N
  <2>. QED BY <2>1, <2>2
<1>3. 0 \in Ns
  <2>1. ASSUME NEW T \in SUBSET S, Cardinality(T) <= 0 PROVE Good(T)
    <3>1. Cardinality(T) = 0
      BY <1>2, <2>1
    <3>2. T = {}
      BY <1>2, <3>1, FS_EmptySet
    <3>3. it[T] = 0
      BY <1>1, <3>2 DEF Sums
    <3>. QED BY <3>2, <3>3
  <2>. HIDE DEF N, Good
  <2>. QED BY <1>2, <2>1
<1>4. ASSUME NEW n \in 0 .. N, n < N, n \in Ns PROVE n + 1 \in Ns
  <2>1. \A T \in SUBSET S : Cardinality(T) <= n => Good(T)
    BY <1>4
  <2>2. ASSUME NEW T \in SUBSET S, Cardinality(T) <= n + 1, T # {} PROVE Good(T)
    <3>. DEFINE c == Picked(T)
    <3>1. \A x \in T : T \ {x} \in SUBSET S /\ Cardinality(T \ {x}) = Cardinality(T) - 1
      BY <1>2, OneLess
    <3>2. ASSUME NEW U \in SUBSET S, NEW x \in T, U \subseteq T \ {x} PROVE Good(U)
      <4>1. Cardinality(U) <= Cardinality(T \ {x})
        <5>1. IsFiniteSet(T \ {x}) /\ U \in SUBSET (T \ {x})
          BY <1>2, <3>1, <3>2
        <5>. QED BY <5>1, FS_Subset
      <4>2. Cardinality(U) <= n
        BY <1>2, <2>2, <3>1, <4>1
      <4>. HIDE DEF Good
      <4>. QED BY <2>1, <4>2
    <3>3. c \in T
      BY <2>2 DEF Picked
    <3>4. it[T] = own(c) + it[T \ {c}]
      BY <1>1, <2>2 DEF Sums
    <3>. HIDE DEF c
    <3>5. ASSUME NEW x \in T PROVE it[T] = own(x) + it[T \ {x}]
      <4>1. CASE x = c
        BY <3>4, <4>1
      <4>2. CASE x # c
        <5>. DEFINE rest == (T \ {x}) \ {c}
        <5>1. (T \ {c}) \ {x} = rest
          OBVIOUS
        <5>2. Good(T \ {x}) /\ Good(T \ {c}) /\ Good(rest)
          <6>. HIDE DEF Good
          <6>. QED BY <3>1, <3>2, <3>3
        <5>3. it[T \ {c}] = own(x) + it[rest]
          BY <4>2, <5>1, <5>2
        <5>4. it[T \ {x}] = own(c) + it[rest]
          BY <3>3, <4>2, <5>2
        <5>5. own(x) \in Nat /\ own(c) \in Nat /\ it[rest] \in Nat
          BY <3>3, <5>2
        <5>. HIDE DEF rest, own
        <5>. QED BY <3>4, <5>3, <5>4, <5>5
      <4>. QED BY <4>1, <4>2
    <3>6. it[T] \in Nat
      <4>1. Good(T \ {c})
        <5>. HIDE DEF Good
        <5>. QED BY <3>1, <3>2, <3>3
      <4>. QED BY <3>3, <3>4, <4>1
    <3>. QED BY <3>5, <3>6
  <2>4. Good({})
    BY <1>1 DEF Sums
  <2>3. n + 1 \in 0 .. N
    BY <1>2, <1>4
  <2>. HIDE DEF Good, N
  <2>. QED BY <2>2, <2>3, <2>4
<1>5. \A n \in 0 .. N : n \in Ns
  <2>. HIDE DEF N, Ns
  <2>1. \A n \in 0 .. N : n < N /\ n \in Ns => n + 1 \in Ns
    BY <1>4
  <2>. QED BY <1>2, <1>3, <2>1, Upward
<1>6. Good(S)
  <2>1. N \in Ns
    <3>. HIDE DEF N, Ns
    <3>. QED BY <1>2, <1>5
  <2>2. \A T \in SUBSET S : Cardinality(T) <= N => Good(T)
    BY <2>1
  <2>. HIDE DEF Good
  <2>. QED BY <1>2, <2>2
<1>7. \A T \in SUBSET S : Total(batch, count, T) = it[T]
  BY <1>1, TotalIs
<1>. QED BY <1>6, <1>7

-----------------------------------------------------------------------------
(***************************************************************************)
(* Mates of one status are decided alike.  Behind an open gate everybody   *)
(* borrows from all its mates, and was decided by that.                    *)
(***************************************************************************)
SharedInv ==
    /\ step # "cluster" /\ ~Gated /\ config.share[1] # 0 => \A s \in Id : siblings[s] = OtherMates(s)
    /\ step = "decided" => \A s \in Id :
          /\ evidence[s].window = "this" /\ evidence[s].supports \in Nat /\ evidence[s].contradictions \in Nat
          /\ decided[s] = [status \in {"inferred", "deprecated"} |-> Decision(s, status, evidence)]

LEMMA SharedInit == FamilyInit => SharedInv
BY DEF FamilyInit, SharedInv

\* Who is whose mate does not change when the clusters do not.
LEMMA MatesStay ==
    ASSUME UNCHANGED clusterVars
    PROVE  \A s : OtherMates(s)' = OtherMates(s)
BY DEF clusterVars, OtherMates, Mates

LEMMA SharedNext == FamilyIInv /\ SharedInv /\ [FamilyNext]_familyVars => SharedInv'
<1>. SUFFICES ASSUME FamilyIInv, SharedInv, [FamilyNext]_familyVars PROVE SharedInv'
  OBVIOUS
<1>1. CASE ClusterNext /\ UNCHANGED <<config, siblings, evidence, decided, step>>
  <2>1. step = "cluster"
    BY <1>1, ClusteringOver DEF FamilyIInv, SiblingsInv
  <2>. QED BY <1>1, <2>1 DEF SharedInv
<1>2. CASE BuildSiblings
  <2>1. UNCHANGED <<clusterVars, config>> /\ step' = "siblings"
    BY <1>2 DEF BuildSiblings
  <2>2. \A s \in Id : OtherMates(s)' = OtherMates(s)
    BY <2>1, MatesStay
  <2>3. ~Gated /\ config.share[1] # 0 => \A s \in Id : siblings'[s] = OtherMates(s)
    BY <1>2 DEF BuildSiblings
  <2>. QED BY <2>1, <2>2, <2>3, GateStays DEF SharedInv
<1>3. CASE DecideBatch
  <2>1. UNCHANGED <<clusterVars, config, siblings>> /\ step = "siblings"
    BY <1>3 DEF DecideBatch
  <2>2. \A s \in Id : siblings'[s] = siblings[s] /\ OtherMates(s)' = OtherMates(s)
    BY <2>1, MatesStay
  <2>3. /\ \A s \in Id : evidence'[s] \in EvidenceOf(s)
        /\ decided' = [s \in Id |-> [status \in {"inferred", "deprecated"} |-> Decision(s, status, evidence')]]
    BY <1>3 DEF DecideBatch
  <2>4. \A s \in Id : /\ evidence'[s].window = "this" /\ evidence'[s].supports \in Nat
                      /\ evidence'[s].contradictions \in Nat
    BY <2>3, EvidenceAssumption DEF EvidenceOf
  <2>5. \A s, status : Decision(s, status, evidence)' = Decision(s, status, evidence')
    <3>1. UNCHANGED <<config, siblings>>
      BY <2>1
    <3>. QED BY <3>1 DEF Decision, Borrowed
  <2>6. \A s \in Id : decided'[s] = [status \in {"inferred", "deprecated"} |-> Decision(s, status, evidence)']
    BY <2>3, <2>5
  <2>. QED BY <2>1, <2>2, <2>4, <2>6, GateStays DEF SharedInv
<1>4. CASE UNCHANGED familyVars
  <2>1. UNCHANGED <<clusterVars, config, siblings, evidence, decided, step>>
    BY <1>4 DEF familyVars
  <2>2. \A s, status : Decision(s, status, evidence)' = Decision(s, status, evidence)
    BY <2>1 DEF Decision, Borrowed
  <2>. QED BY <2>1, <2>2, MatesStay, GateStays DEF SharedInv
<1>. QED BY <1>1, <1>2, <1>3, <1>4 DEF FamilyNext

\* With the whole share, what a schema is credited is the total of its cluster.
LEMMA CreditedTotal ==
    ASSUME NEW own, NEW rest,
           own.window = "this", own.supports \in Nat, own.contradictions \in Nat,
           rest.supports \in Nat, rest.contradictions \in Nat, NEW d \in Nat \ {0}
    PROVE  Policy!Credited(own, rest, d, d)
               = [window |-> "this", supports |-> own.supports + rest.supports,
                  contradictions |-> own.contradictions + rest.contradictions]
<1>1. \A x \in Nat : (d * x) \div d = x
  OBVIOUS
<1>. QED BY <1>1 DEF Policy!Credited

LEMMA MatesShare ==
    ASSUME FamilyIInv, SharedInv, step = "decided", config.share[1] = config.share[2], ~Gated,
           NEW s \in Id, NEW r \in Id, bucket[s] = bucket[r]
    PROVE  decided[s] = decided[r]
<1>. DEFINE All(count) == Total(evidence, count, Mates(s))
            credit == [window |-> "this", supports |-> All("supports"), contradictions |-> All("contradictions")]
            d == config.share[2]
<1>1. config.share[1] = d /\ d \in Nat \ {0}
  BY ConfigAssumption DEF FamilyIInv, SiblingsInv, Fraction
<1>2. \A q \in Id : siblings[q] = Mates(q) \ {q}
  BY <1>1 DEF SharedInv, OtherMates
<1>3. IsFiniteSet(Mates(s))
  <2>1. IsFiniteSet(Id)
    BY SizeAssumption, FS_Interval DEF Id
  <2>. QED BY <2>1, FS_Subset DEF Mates
<1>4. \A q \in Mates(s) : q \in Id /\ evidence[q]["supports"] \in Nat /\ evidence[q]["contradictions"] \in Nat
  BY DEF Mates, SharedInv
<1>. HIDE DEF d
<1>5. ASSUME NEW q \in Mates(s) PROVE decided[q] = [status \in {"inferred", "deprecated"} |-> Policy!Decide(StateAs(status), credit)]
  <2>1. q \in Id /\ Mates(q) = Mates(s) /\ siblings[q] = Mates(s) \ {q}
    BY <1>2, <1>5 DEF Mates
  <2>. DEFINE rest == Borrowed(q, evidence)
              own == evidence[q]
  <2>2. /\ All("supports") = own.supports + rest.supports /\ rest.supports \in Nat
        /\ All("contradictions") = own.contradictions + rest.contradictions /\ rest.contradictions \in Nat
    <3>1. \A x \in Mates(s) \ {q} : evidence[x]["supports"] \in Nat /\ evidence[x]["contradictions"] \in Nat
      BY <1>4
    <3>2. IsFiniteSet(Mates(s) \ {q})
      BY <1>3, FS_Subset
    <3>3. All("supports") = evidence[q]["supports"] + Total(evidence, "supports", Mates(s) \ {q})
      BY <1>3, <1>4, <1>5, TotalSplit
    <3>4. All("contradictions") = evidence[q]["contradictions"] + Total(evidence, "contradictions", Mates(s) \ {q})
      BY <1>3, <1>4, <1>5, TotalSplit
    <3>5. Total(evidence, "supports", Mates(s) \ {q}) \in Nat /\ Total(evidence, "contradictions", Mates(s) \ {q}) \in Nat
      BY <3>1, <3>2, TotalSplit
    <3>. QED BY <2>1, <3>3, <3>4, <3>5 DEF Borrowed
  <2>3. own.window = "this" /\ own.supports \in Nat /\ own.contradictions \in Nat
    BY <2>1 DEF SharedInv
  <2>4. Policy!Credited(own, rest, d, d) = credit
    <3>. HIDE DEF own, rest
    <3>1. Policy!Credited(own, rest, d, d)
              = [window |-> "this", supports |-> own.supports + rest.supports,
                 contradictions |-> own.contradictions + rest.contradictions]
      BY <1>1, <2>2, <2>3, CreditedTotal
    <3>. HIDE DEF All
    <3>. QED BY <2>2, <3>1
  <2>5. \A status : Decision(q, status, evidence) = Policy!Decide(StateAs(status), credit)
    <3>1. \A status : Decision(q, status, evidence) = Policy!DecideWithFamily(StateAs(status), own, rest, d, d)
      BY <1>1 DEF Decision, d
    <3>. HIDE DEF credit, own, rest
    <3>. QED BY <2>4, <3>1 DEF Policy!DecideWithFamily
  <2>6. decided[q] = [status \in {"inferred", "deprecated"} |-> Decision(q, status, evidence)]
    BY <2>1 DEF SharedInv
  <2>. HIDE DEF credit
  <2>. QED BY <2>5, <2>6
<1>6. s \in Mates(s) /\ r \in Mates(s)
  BY DEF Mates
<1>. HIDE DEF credit
<1>. QED BY <1>5, <1>6

\* With the whole share the mates of a cluster decide alike when they have one
\* status, for any number of schemas, any clusters and any evidence: what each is
\* credited is the total of the cluster, in whatever order it is added up.
THEOREM MatesAreAlike == FamilySpec => []MatesDecideAlike
<1>1. FamilyIInv /\ SharedInv => MatesDecideAlike
  BY MatesShare DEF MatesDecideAlike
<1>. QED BY <1>1, FamilyInitInv, FamilyNextInv, SharedInit, SharedNext, PTL DEF FamilySpec

-----------------------------------------------------------------------------
(***************************************************************************)
(* The events of overlapping runs: the inductive invariant                 *)
(***************************************************************************)
Maker(s)       == known[s].maker
Alike(s, t)    == known[s].summary = known[t].summary
Emitting(r)    == run[r].pc \in {"emit", "scan"}
Logged(s, kind) == \E i \in DOMAIN log : log[i].schema = s /\ log[i].kind = kind

\* A run's conflicts are about its own facts, which are stored when it persists them.
ConflictInv ==
    /\ \A r \in Run : run[r].conflicts \subseteq {r} \X (1 .. DeprecateAt)
    /\ \A f \in facts : run[f[1]].pc \in {"schemas", "ended", "dead"}

OverlapInv ==
    \A q, r \in Run : /\ <<q, r>> \in overlap => <<r, q>> \in overlap
                      /\ q # r /\ Active(q) /\ Active(r) => <<q, r>> \in overlap

\* A run recognises what it made itself.
MakerInv ==
    /\ \A s \in Created : /\ run[Maker(s)].pc \notin {"new", "index"}
                          /\ Emitting(Maker(s)) => s \in run[Maker(s)].index
    /\ \A s, t \in Created : Maker(s) = Maker(t) /\ Alike(s, t) => s = t

\* What a run made is stored, or still to be stored, unless it died.
MadeInv ==
    /\ \A r \in Run : \A i \in DOMAIN run[r].made : Maker(run[r].made[i]) = r
    /\ \A s \in Created : \/ s \in stored \/ run[Maker(s)].pc = "dead"
                          \/ \E i \in DOMAIN run[Maker(s)].made : run[Maker(s)].made[i] = s
    /\ \A s \in stored : run[Maker(s)].pc \in {"schemas", "ended", "dead"}

\* A schema that a run has not in its index was stored by a run beside it, or missed.
IndexInv ==
    \A r \in Run : Emitting(r) => \A s \in stored :
        <<Maker(s), r>> \in overlap \/ <<r, s>> \in missed \/ \E t \in run[r].index : Alike(s, t)

Excused(s, t) == \/ <<Maker(s), Maker(t)>> \in overlap
                 \/ <<Maker(s), t>> \in missed \/ <<Maker(t), s>> \in missed

\* NoTwin, of all that was stored, since it may come back, or may still be stored.
TwinInv ==
    \A s \in Created, t \in stored : s # t /\ Alike(s, t) /\ (s \in stored \/ Active(Maker(s))) => Excused(s, t)

\* What is left of the first events of s.
Birth(r, s) ==
    \/ run[r].queue = <<Emitted(r, s, "create")>> /\ known[s].supports < PromoteAt
    \/ /\ known[s].supports >= PromoteAt
       /\ ~ Logged(s, "promote")
       /\ \/ run[r].queue = <<Emitted(r, s, "create"), Emitted(r, s, "promote")>>
          \/ run[r].queue = <<Emitted(r, s, "promote")>> /\ (s \in unborn \/ Logged(s, "create"))

\* Events about a schema that the run recognised.
Again(r) ==
    \A i \in DOMAIN run[r].queue : LET ev == run[r].queue[i] IN
        /\ ev.kind \in {"recover", "bump_version"} /\ ev.schema \in Created
        /\ Maker(ev.schema) = r => ev.schema \notin undecided

QueueInv ==
    /\ \A r \in Run : /\ run[r].queue # <<>> => run[r].pc = "emit"
                      /\ Again(r) \/ \E s \in undecided : Maker(s) = r /\ Birth(r, s)
    /\ \A s \in undecided : Emitting(Maker(s)) => Birth(Maker(s), s)

BornInv ==
    \A s \in Created :
        \/ s \in unborn \/ Logged(s, "create")
        \/ /\ s \in undecided \ stored
           /\ \/ run[Maker(s)].pc = "dead"
              \/ run[Maker(s)].queue # <<>> /\ run[Maker(s)].queue[1] = Emitted(Maker(s), s, "create")

\* Promotions come from first events only, after the CREATE and once.
PromotedInv ==
    /\ \A i \in DOMAIN log : log[i].schema \in Created
    /\ \A i \in DOMAIN log : log[i].kind = "promote" => known[log[i].schema].supports >= PromoteAt
    /\ \A i, j \in DOMAIN log : log[i].kind = "promote" /\ log[j].kind = "promote"
                                /\ log[i].schema = log[j].schema => i = j
    /\ \A s \in Created \ (undecided \cup unborn) : known[s].supports >= PromoteAt =>
          \E i, j \in DOMAIN log : /\ i < j /\ log[i].schema = s /\ log[j].schema = s
                                   /\ log[i].kind = "create" /\ log[j].kind = "promote"

IInv == /\ TypeOK /\ ConflictInv /\ OverlapInv /\ MakerInv /\ MadeInv /\ IndexInv /\ TwinInv
        /\ QueueInv /\ BornInv /\ PromotedInv

-----------------------------------------------------------------------------
(***************************************************************************)
(* One event                                                               *)
(***************************************************************************)
Event     == Reducer(1)!LifecycleEvent
StateOf   == Reducer(1)!State
Apply(quorum, st, ev) == Reducer(quorum)!Apply(st, ev)

LEMMA Constants ==
    /\ MaxRuns \in Nat /\ MaxSchemas \in Nat /\ MaxItems \in Nat /\ MaxFaults \in Nat
    /\ PromoteAt \in Nat \ {0} /\ DeprecateAt \in Nat \ {0} /\ RecoverAt \in Nat \ {0}
    /\ ReadQuorum \in Nat \ {0} /\ Supports \subseteq Nat
    /\ None \notin WindowId /\ None \notin Emitter
BY BoundsAssumption, ReadQuorumAssumption, ThresholdAssumption, SentinelAssumption

Same(st, new) ==
    /\ new.status = st.status /\ new.promotes = st.promotes
    /\ new.deprecates = st.deprecates /\ new.recovers = st.recovers

\* The window moves with the event, unless the event has none.
Moves(st, ev, new) == new.window = st.window \/ new.window = ev.window

\* What an event may make of a state under quorum k.
Outcome(k, st, ev, new) ==
    \/ ev.kind = "create" /\ st.status = "unknown" /\ new.status = "inferred"
       /\ new.promotes = 0 /\ new.deprecates = 0
    \/ ev.kind = "bump_version" /\ st.status # "unknown" /\ Same(st, new)
    \/ ev.kind = "promote" /\ st.status = "inferred" /\ new.status = "promoted"
       /\ new.promotes = st.promotes + 1 /\ new.deprecates = st.deprecates
    \/ ev.kind = "deprecate" /\ st.status \in {"inferred", "promoted"} /\ new.status = "deprecated"
       /\ new.promotes = st.promotes /\ new.deprecates = st.deprecates + 1
    \/ ev.kind = "deprecate" /\ st.status \in {"inferred", "promoted"} /\ k > 1 /\ Same(st, new)
    \/ ev.kind = "recover" /\ st.status = "deprecated" /\ new.status = "inferred"
       /\ ev.window # None /\ ev.window # st.window
       /\ new.promotes = st.promotes /\ new.deprecates = st.deprecates
    \/ /\ new = st
       /\ ev.kind = "create" => st.status # "unknown"
       /\ ev.kind = "promote" => st.status # "inferred"
       /\ ev.kind = "deprecate" /\ k = 1 => st.status \notin {"inferred", "promoted"}
       /\ ev.kind = "recover" => \/ st.status # "deprecated" \/ ev.window = None
                                 \/ ev.window = st.window

LEMMA ApplyCases ==
    ASSUME NEW k \in Nat \ {0}, NEW st \in StateOf, NEW ev \in Event, NEW new, new = Apply(k, st, ev)
    PROVE  new \in StateOf /\ Moves(st, ev, new) /\ Outcome(k, st, ev, new)
<1>. USE DEF Apply, Reducer!Apply, Same, Moves, Outcome
<1>1. /\ ev.kind \in {"create", "promote", "deprecate", "recover", "bump_version"}
      /\ ev.window \in WindowId \cup {None} /\ ev.emitter \in Emitter \cup {None}
  BY DEF Event, Reducer!LifecycleEvent, Reducer!Kind
<1>2. /\ st.status \in {"inferred", "promoted", "deprecated", "unknown"}
      /\ st.version \in Nat /\ st.promotes \in Nat /\ st.deprecates \in Nat /\ st.recovers \in Nat
      /\ st.window \in WindowId \cup {None} /\ st.ballot \in SUBSET (Emitter \cup {None})
  BY DEF StateOf, Reducer!State, Reducer!Status
<1>3. CASE ~ Reducer(k)!Legal(st, ev)
  <2>1. new = st
    BY <1>3
  <2>2. ev.kind = "create" => st.status # "unknown"
    BY <1>3 DEF Reducer!Legal
  <2>3. ev.kind = "promote" => st.status # "inferred"
    BY <1>3 DEF Reducer!Legal, Reducer!AllowedTransitions, Reducer!Target
  <2>4. ev.kind = "deprecate" /\ k = 1 => st.status \notin {"inferred", "promoted"}
    BY <1>3 DEF Reducer!Legal, Reducer!AllowedTransitions, Reducer!Target
  <2>5. ev.kind = "recover" => \/ st.status # "deprecated" \/ ev.window = None \/ ev.window = st.window
    BY <1>3 DEF Reducer!Legal, Reducer!AllowedTransitions, Reducer!Target, Reducer!FreshWindow
  <2>. QED BY <2>1, <2>2, <2>3, <2>4, <2>5
<1>4. CASE Reducer(k)!Legal(st, ev) /\ ev.kind = "create"
  <2>1. st.status = "unknown"
    BY <1>4 DEF Reducer!Legal
  <2>2. new = Reducer(k)!Created(st, ev)
    BY <1>4
  <2>3. new = [status |-> "inferred", version |-> 1, promotes |-> 0, deprecates |-> 0, recovers |-> 0,
               window |-> ev.window, ballot |-> {}]
    BY <2>2 DEF Reducer!Created
  <2>4. new \in StateOf
    BY <2>3, <1>1 DEF StateOf, Reducer!State, Reducer!Status
  <2>. QED BY <2>1, <2>3, <2>4, <1>4
<1>5. CASE Reducer(k)!Legal(st, ev) /\ ev.kind = "bump_version"
  <2>1. st.status # "unknown"
    BY <1>5 DEF Reducer!Legal
  <2>2. new = Reducer(k)!Bumped(st, ev)
    BY <1>5
  <2>3. PICK w \in {st.window, ev.window} :
            new = [status |-> st.status, version |-> st.version + 1, promotes |-> st.promotes,
                   deprecates |-> st.deprecates, recovers |-> st.recovers, window |-> w, ballot |-> st.ballot]
    BY <2>2 DEF Reducer!Bumped, Reducer!MovedWindow
  <2>4. new \in StateOf
    BY <2>3, <1>1, <1>2 DEF StateOf, Reducer!State, Reducer!Status
  <2>. QED BY <2>1, <2>3, <2>4, <1>5
<1>6. CASE Reducer(k)!Legal(st, ev) /\ ev.kind = "deprecate" /\ Reducer(k)!BelowQuorum(st, ev)
  <2>1. st.status \in {"inferred", "promoted"}
    BY <1>6 DEF Reducer!Legal, Reducer!AllowedTransitions, Reducer!Target
  <2>2. k > 1
    BY <1>6 DEF Reducer!BelowQuorum
  <2>3. new = Reducer(k)!Voted(st, ev)
    BY <1>6
  <2>4. new = [status |-> st.status, version |-> st.version, promotes |-> st.promotes,
               deprecates |-> st.deprecates, recovers |-> st.recovers,
               window |-> st.window, ballot |-> st.ballot \cup {ev.emitter}]
    BY <2>3 DEF Reducer!Voted
  <2>5. new \in StateOf
    BY <2>4, <1>1, <1>2 DEF StateOf, Reducer!State, Reducer!Status
  <2>. QED BY <2>1, <2>2, <2>4, <2>5, <1>6
<1>7. CASE /\ Reducer(k)!Legal(st, ev) /\ ev.kind \in {"promote", "deprecate", "recover"}
           /\ ~ (ev.kind = "deprecate" /\ Reducer(k)!BelowQuorum(st, ev))
  <2>1. new = Reducer(k)!Moved(st, ev)
    BY <1>7
  <2>2. PICK w \in {st.window, ev.window} :
            new = [status |-> Reducer(k)!Target[ev.kind], version |-> st.version,
                   promotes |-> st.promotes + Reducer(k)!One(ev.kind = "promote"),
                   deprecates |-> st.deprecates + Reducer(k)!One(ev.kind = "deprecate"),
                   recovers |-> st.recovers + Reducer(k)!One(ev.kind = "recover"),
                   window |-> w, ballot |-> {}]
    BY <2>1 DEF Reducer!Moved, Reducer!MovedWindow
  <2>3. CASE ev.kind = "promote"
    <3>1. st.status = "inferred"
      BY <1>7, <2>3 DEF Reducer!Legal, Reducer!AllowedTransitions, Reducer!Target
    <3>2. new = [status |-> "promoted", version |-> st.version, promotes |-> st.promotes + 1,
                 deprecates |-> st.deprecates, recovers |-> st.recovers, window |-> w, ballot |-> {}]
      BY <2>2, <2>3, <1>2 DEF Reducer!Target, Reducer!One
    <3>3. new \in StateOf
      BY <3>2, <1>1, <1>2 DEF StateOf, Reducer!State, Reducer!Status
    <3>. QED BY <3>1, <3>2, <3>3, <2>3
  <2>4. CASE ev.kind = "deprecate"
    <3>1. st.status \in {"inferred", "promoted"}
      BY <1>7, <2>4 DEF Reducer!Legal, Reducer!AllowedTransitions, Reducer!Target
    <3>2. new = [status |-> "deprecated", version |-> st.version, promotes |-> st.promotes,
                 deprecates |-> st.deprecates + 1, recovers |-> st.recovers, window |-> w, ballot |-> {}]
      BY <2>2, <2>4, <1>2 DEF Reducer!Target, Reducer!One
    <3>3. new \in StateOf
      BY <3>2, <1>1, <1>2 DEF StateOf, Reducer!State, Reducer!Status
    <3>. QED BY <3>1, <3>2, <3>3, <2>4
  <2>5. CASE ev.kind = "recover"
    <3>1. st.status = "deprecated" /\ ev.window # None /\ ev.window # st.window
      BY <1>7, <2>5 DEF Reducer!Legal, Reducer!AllowedTransitions, Reducer!Target, Reducer!FreshWindow
    <3>2. new = [status |-> "inferred", version |-> st.version, promotes |-> st.promotes,
                 deprecates |-> st.deprecates, recovers |-> st.recovers + 1, window |-> w, ballot |-> {}]
      BY <2>2, <2>5, <1>2 DEF Reducer!Target, Reducer!One
    <3>3. new \in StateOf
      BY <3>2, <1>1, <1>2 DEF StateOf, Reducer!State, Reducer!Status
    <3>. QED BY <3>1, <3>2, <3>3, <2>5
  <2>. QED BY <2>3, <2>4, <2>5, <1>7
<1>. QED BY <1>1, <1>3, <1>4, <1>5, <1>6, <1>7

-----------------------------------------------------------------------------
(***************************************************************************)
(* The states along a log: what the first has and every event keeps is     *)
(* true of every one.                                                      *)
(***************************************************************************)
\* The recursion along the events has a solution, so States is one.
LEMMA StatesExist ==
    ASSUME NEW k, NEW s, NEW events, Len(events) \in Nat
    PROVE  /\ States(k, s, events)[0] = Reducer(k)!Unknown
           /\ \A n \in 1 .. Len(events) :
                 States(k, s, events)[n] = Folded(k, s, States(k, s, events)[n - 1], events[n])
<1>. DEFINE N == Len(events)
            Next1(f, n) == IF n = 0 THEN Reducer(k)!Unknown ELSE Folded(k, s, f[n - 1], events[n])
            Upto(f, n) == f = [m \in 0 .. n |-> Next1(f, m)]
            S == {n \in 0 .. N : \E f : Upto(f, n)}
<1>. HIDE DEF N
<1>0. N \in Nat
  BY DEF N
<1>1. 0 \in S
  <2>. DEFINE f == [m \in 0 .. 0 |-> Reducer(k)!Unknown]
  <2>1. Upto(f, 0)
    OBVIOUS
  <2>2. 0 \in 0 .. N
    BY <1>0
  <2>. HIDE DEF Upto, f
  <2>. QED BY <2>1, <2>2
<1>2. ASSUME NEW n \in 0 .. N, n < N, n \in S PROVE n + 1 \in S
  <2>1. PICK f : Upto(f, n)
    BY <1>2
  <2>. DEFINE g == [m \in 0 .. n + 1 |-> IF m = n + 1 THEN Folded(k, s, f[n], events[n + 1]) ELSE f[m]]
  <2>2. ASSUME NEW m \in 0 .. n + 1 PROVE g[m] = Next1(g, m)
    <3>1. CASE m = n + 1
      <4>1. m # 0 /\ g[m - 1] = f[n]
        BY <3>1, <1>0
      <4>. QED BY <3>1, <4>1
    <3>2. CASE m # n + 1
      <4>1. m \in 0 .. n /\ g[m] = f[m] /\ f[m] = Next1(f, m)
        BY <3>2, <2>1, <1>0
      <4>2. m # 0 => g[m - 1] = f[m - 1]
        BY <4>1, <1>0
      <4>. QED BY <4>1, <4>2
    <3>. QED BY <3>1, <3>2
  <2>3. Upto(g, n + 1)
    <3>. HIDE DEF Next1
    <3>. QED BY <2>2
  <2>4. n + 1 \in 0 .. N
    BY <1>0, <1>2
  <2>. HIDE DEF Upto, g
  <2>. QED BY <2>3, <2>4
<1>3. N \in S
  <2>. HIDE DEF S
  <2>1. \A n \in 0 .. N : n < N /\ n \in S => n + 1 \in S
    BY <1>2
  <2>2. \A n \in 0 .. N : n \in S
    BY <1>0, <1>1, <2>1, Upward
  <2>. QED BY <1>0, <2>2
<1>4. PICK f : Upto(f, N)
  BY <1>3
<1>5. Upto(States(k, s, events), N)
  <2>1. States(k, s, events) = CHOOSE g : Upto(g, N)
    BY DEF States, N
  <2>. HIDE DEF Upto
  <2>. QED BY <1>4, <2>1
<1>. QED BY <1>0, <1>5 DEF N

-----------------------------------------------------------------------------
(***************************************************************************)
(* What a log makes of a schema, under any quorum                          *)
(***************************************************************************)
LEMMA FirstState ==
    ASSUME NEW k, NEW s, NEW events \in Seq(Event)
    PROVE  States(k, s, events)[0] = Reducer(k)!Unknown /\ Len(events) \in Nat
BY StatesExist

LEMMA NextState ==
    ASSUME NEW k, NEW s, NEW events \in Seq(Event), NEW n \in 0 .. Len(events), n < Len(events)
    PROVE  /\ events[n + 1] \in Event
           /\ events[n + 1].schema # s => States(k, s, events)[n + 1] = States(k, s, events)[n]
           /\ events[n + 1].schema = s => States(k, s, events)[n + 1] =
                                            Apply(k, States(k, s, events)[n], events[n + 1])
<1>1. Len(events) \in Nat /\ n + 1 \in 1 .. Len(events) /\ (n + 1) - 1 = n
  OBVIOUS
<1>2. States(k, s, events)[n + 1] = Folded(k, s, States(k, s, events)[n], events[n + 1])
  BY <1>1, StatesExist
<1>. QED BY <1>1, <1>2 DEF Folded, Apply

\* Every state is one, and the counts agree with the status.
Counted(st) == /\ st \in StateOf
               /\ st.status = "promoted" => st.promotes >= 1
               /\ st.status = "deprecated" => st.deprecates >= 1

LEMMA StatesCounted ==
    ASSUME NEW k \in Nat \ {0}, NEW s, NEW events \in Seq(Event)
    PROVE  \A n \in 0 .. Len(events) : Counted(States(k, s, events)[n])
<1>. DEFINE N == Len(events)
            f == States(k, s, events)
            S == {n \in 0 .. N : Counted(f[n])}
<1>1. f[0] = Reducer(k)!Unknown /\ N \in Nat
  BY FirstState
<1>2. 0 \in S
  <2>1. Counted(f[0])
    BY <1>1 DEF Counted, StateOf, Reducer!State, Reducer!Unknown, Reducer!Status
  <2>. HIDE DEF f, N
  <2>. QED BY <1>1, <2>1
<1>3. ASSUME NEW n \in 0 .. N, n < N, n \in S PROVE n + 1 \in S
  <2>. DEFINE ev == events[n + 1]
  <2>1. /\ ev \in Event
        /\ ev.schema # s => f[n + 1] = f[n]
        /\ ev.schema = s => f[n + 1] = Apply(k, f[n], ev)
    BY <1>3, NextState
  <2>2. Counted(f[n]) /\ n + 1 \in 0 .. N
    BY <1>3, <1>1
  <2>3. CASE ev.schema = s
    <3>1. f[n] \in StateOf /\ f[n].promotes \in Nat /\ f[n].deprecates \in Nat
      BY <2>2 DEF Counted, StateOf, Reducer!State
    <3>. HIDE DEF f, ev
    <3>2. f[n + 1] \in StateOf /\ Outcome(k, f[n], ev, f[n + 1])
      BY <2>1, <2>3, <3>1, ApplyCases
    <3>3. Counted(f[n + 1])
      BY <2>2, <3>1, <3>2 DEF Counted, Outcome, Same
    <3>. QED BY <2>2, <3>3
  <2>4. CASE ev.schema # s
    BY <2>1, <2>2, <2>4
  <2>. QED BY <2>3, <2>4
<1>. HIDE DEF S
<1>4. \A n \in 0 .. N : n < N /\ n \in S => n + 1 \in S
  BY <1>3
<1>5. \A n \in 0 .. N : n \in S
  <2>. HIDE DEF N
  <2>. QED BY <1>1, <1>2, <1>4, Upward
<1>. QED BY <1>5 DEF S

\* A schema is known from its CREATE on.
LEMMA StatesKnown ==
    ASSUME NEW k \in Nat \ {0}, NEW s, NEW events \in Seq(Event)
    PROVE  \A n \in 0 .. Len(events) :
              States(k, s, events)[n].status # "unknown"
                 <=> \E i \in 1 .. n : events[i].schema = s /\ events[i].kind = "create"
<1>. DEFINE N == Len(events)
            f == States(k, s, events)
            Told(n) == \E i \in 1 .. n : events[i].schema = s /\ events[i].kind = "create"
            S == {n \in 0 .. N : f[n].status # "unknown" <=> Told(n)}
<1>1. f[0] = Reducer(k)!Unknown /\ N \in Nat
  BY FirstState
<1>2. 0 \in S
  <2>1. f[0].status = "unknown"
    BY <1>1 DEF Reducer!Unknown
  <2>. HIDE DEF f, N
  <2>. QED BY <1>1, <2>1
<1>3. ASSUME NEW n \in 0 .. N, n < N, n \in S PROVE n + 1 \in S
  <2>. DEFINE ev == events[n + 1]
  <2>1. /\ ev \in Event
        /\ ev.schema # s => f[n + 1] = f[n]
        /\ ev.schema = s => f[n + 1] = Apply(k, f[n], ev)
    BY <1>3, NextState
  <2>2. n + 1 \in 0 .. N /\ (f[n].status # "unknown" <=> Told(n))
    BY <1>3, <1>1
  <2>3. Told(n + 1) <=> Told(n) \/ (ev.schema = s /\ ev.kind = "create")
    <3>1. 1 .. n + 1 = (1 .. n) \cup {n + 1}
      BY <1>1
    <3>. QED BY <3>1
  <2>4. f[n] \in StateOf
    BY StatesCounted DEF Counted
  <2>. HIDE DEF Told
  <2>5. CASE ev.schema = s
    <3>. HIDE DEF f, ev
    <3>1. Outcome(k, f[n], ev, f[n + 1])
      BY <2>1, <2>4, <2>5, ApplyCases
    <3>2. f[n + 1].status # "unknown" <=> f[n].status # "unknown" \/ ev.kind = "create"
      BY <3>1 DEF Outcome, Same
    <3>. QED BY <2>2, <2>3, <2>5, <3>2
  <2>6. CASE ev.schema # s
    BY <2>1, <2>2, <2>3, <2>6
  <2>. QED BY <2>5, <2>6
<1>. HIDE DEF S
<1>4. \A n \in 0 .. N : n < N /\ n \in S => n + 1 \in S
  BY <1>3
<1>5. \A n \in 0 .. N : n \in S
  <2>. HIDE DEF N
  <2>. QED BY <1>1, <1>2, <1>4, Upward
<1>. QED BY <1>5 DEF S

\* Only PROMOTE events promote.
LEMMA StatesUnpromoted ==
    ASSUME NEW k \in Nat \ {0}, NEW s, NEW events \in Seq(Event)
    PROVE  \A n \in 0 .. Len(events) :
              (\A i \in 1 .. n : events[i].schema = s => events[i].kind # "promote")
                 => States(k, s, events)[n].promotes = 0
<1>. DEFINE N == Len(events)
            f == States(k, s, events)
            Silent(n) == \A i \in 1 .. n : events[i].schema = s => events[i].kind # "promote"
            S == {n \in 0 .. N : Silent(n) => f[n].promotes = 0}
<1>1. f[0] = Reducer(k)!Unknown /\ N \in Nat
  BY FirstState
<1>2. 0 \in S
  <2>1. f[0].promotes = 0
    BY <1>1 DEF Reducer!Unknown
  <2>. HIDE DEF f, N
  <2>. QED BY <1>1, <2>1
<1>3. ASSUME NEW n \in 0 .. N, n < N, n \in S PROVE n + 1 \in S
  <2>. DEFINE ev == events[n + 1]
  <2>1. /\ ev \in Event
        /\ ev.schema # s => f[n + 1] = f[n]
        /\ ev.schema = s => f[n + 1] = Apply(k, f[n], ev)
    BY <1>3, NextState
  <2>2. n + 1 \in 0 .. N /\ (Silent(n) => f[n].promotes = 0)
    BY <1>3, <1>1
  <2>3. Silent(n + 1) => Silent(n) /\ (ev.schema = s => ev.kind # "promote")
    <3>1. 1 .. n \subseteq 1 .. n + 1 /\ n + 1 \in 1 .. n + 1
      BY <1>1
    <3>. QED BY <3>1
  <2>4. f[n] \in StateOf
    BY StatesCounted DEF Counted
  <2>. HIDE DEF Silent
  <2>5. CASE ev.schema = s
    <3>. HIDE DEF f, ev
    <3>1. Outcome(k, f[n], ev, f[n + 1])
      BY <2>1, <2>4, <2>5, ApplyCases
    <3>2. ev.kind # "promote" /\ f[n].promotes = 0 => f[n + 1].promotes = 0
      BY <3>1 DEF Outcome, Same
    <3>. QED BY <2>2, <2>3, <2>5, <3>2
  <2>6. CASE ev.schema # s
    BY <2>1, <2>2, <2>3, <2>6
  <2>. QED BY <2>5, <2>6
<1>. HIDE DEF S
<1>4. \A n \in 0 .. N : n < N /\ n \in S => n + 1 \in S
  BY <1>3
<1>5. \A n \in 0 .. N : n \in S
  <2>. HIDE DEF N
  <2>. QED BY <1>1, <1>2, <1>4, Upward
<1>. QED BY <1>5 DEF S

\* After the one PROMOTE of a schema that was created before it, the schema has been
\* promoted once or deprecated.
LEMMA StatesPromoted ==
    ASSUME NEW k \in Nat \ {0}, NEW s, NEW events \in Seq(Event), NEW c \in Nat, NEW p \in 1 .. Len(events),
           c \in 1 .. p - 1, events[c].schema = s, events[c].kind = "create",
           events[p].schema = s, events[p].kind = "promote",
           \A i \in 1 .. Len(events) : events[i].schema = s /\ events[i].kind = "promote" => i = p
    PROVE  \A n \in 0 .. Len(events) :
              n >= p => LET st == States(k, s, events)[n] IN st.promotes = 1 \/ st.deprecates >= 1
<1>. DEFINE N == Len(events)
            f == States(k, s, events)
            S == {n \in 0 .. N : n >= p => f[n].promotes = 1 \/ f[n].deprecates >= 1}
<1>1. N \in Nat
  BY FirstState
<1>2. 0 \in S
  BY <1>1
<1>3. ASSUME NEW n \in 0 .. N, n < N, n \in S PROVE n + 1 \in S
  <2>. DEFINE ev == events[n + 1]
  <2>1. /\ ev \in Event
        /\ ev.schema # s => f[n + 1] = f[n]
        /\ ev.schema = s => f[n + 1] = Apply(k, f[n], ev)
    BY <1>3, NextState
  <2>2. n + 1 \in 0 .. N /\ n + 1 \in 1 .. N /\ (n >= p => f[n].promotes = 1 \/ f[n].deprecates >= 1)
    BY <1>3, <1>1
  <2>3. Counted(f[n]) /\ f[n].promotes \in Nat /\ f[n].deprecates \in Nat
    <3>1. Counted(f[n])
      BY StatesCounted
    <3>. HIDE DEF f
    <3>. QED BY <3>1 DEF Counted, StateOf, Reducer!State
  <2>4. n + 1 >= p => f[n].status # "unknown"
    <3>1. n + 1 >= p => c \in 1 .. n
      BY <1>1
    <3>. QED BY <3>1, StatesKnown
  <2>5. ev.schema = s => Outcome(k, f[n], ev, f[n + 1])
    <3>1. f[n] \in StateOf
      BY <2>3 DEF Counted
    <3>. HIDE DEF f, ev
    <3>. QED BY <2>1, <3>1, ApplyCases
  <2>6. CASE n + 1 < p
    BY <2>2, <2>6
  <2>7. CASE n + 1 = p
    <3>1. \A i \in 1 .. n : events[i].schema = s => events[i].kind # "promote"
      BY <2>7, <1>1
    <3>2. f[n].promotes = 0
      BY <3>1, StatesUnpromoted
    <3>3. ev.schema = s /\ ev.kind = "promote"
      BY <2>7
    <3>. HIDE DEF f, ev
    <3>4. f[n + 1].promotes = 1 \/ f[n + 1].deprecates >= 1
      BY <2>3, <2>4, <2>5, <2>7, <3>2, <3>3 DEF Outcome, Counted, StateOf, Reducer!State, Reducer!Status
    <3>. QED BY <2>2, <3>4
  <2>8. CASE n + 1 > p
    <3>1. n >= p /\ f[n].status # "unknown" /\ (ev.schema = s => ev.kind # "promote")
      BY <2>2, <2>4, <2>8, <1>1
    <3>. HIDE DEF f, ev
    <3>2. ev.schema = s => /\ f[n + 1].promotes = f[n].promotes
                           /\ f[n + 1].deprecates \in {f[n].deprecates, f[n].deprecates + 1}
      BY <2>3, <2>5, <3>1 DEF Outcome, Same
    <3>3. f[n].promotes = 1 \/ f[n].deprecates >= 1
      BY <2>2, <3>1
    <3>4. f[n + 1].promotes = 1 \/ f[n + 1].deprecates >= 1
      BY <2>1, <2>3, <3>2, <3>3
    <3>. QED BY <2>2, <3>4
  <2>. QED BY <2>2, <2>6, <2>7, <2>8, <1>1
<1>. HIDE DEF S
<1>4. \A n \in 0 .. N : n < N /\ n \in S => n + 1 \in S
  BY <1>3
<1>5. \A n \in 0 .. N : n \in S
  <2>. HIDE DEF N
  <2>. QED BY <1>1, <1>2, <1>4, Upward
<1>. QED BY <1>5 DEF S

\* The window of a state is that of an event.
LEMMA StatesWindow ==
    ASSUME NEW k \in Nat \ {0}, NEW s, NEW events \in Seq(Event)
    PROVE  \A n \in 0 .. Len(events) : LET st == States(k, s, events)[n] IN
              st.window # None => \E i \in 1 .. n : events[i].schema = s /\ events[i].window = st.window
<1>. DEFINE N == Len(events)
            f == States(k, s, events)
            Holds(n, w) == \E i \in 1 .. n : events[i].schema = s /\ events[i].window = w
            S == {n \in 0 .. N : f[n].window # None => Holds(n, f[n].window)}
<1>1. f[0] = Reducer(k)!Unknown /\ N \in Nat
  BY FirstState
<1>2. 0 \in S
  <2>1. f[0].window = None
    BY <1>1 DEF Reducer!Unknown
  <2>. HIDE DEF f, N
  <2>. QED BY <1>1, <2>1
<1>3. ASSUME NEW n \in 0 .. N, n < N, n \in S PROVE n + 1 \in S
  <2>. DEFINE ev == events[n + 1]
  <2>1. /\ ev \in Event
        /\ ev.schema # s => f[n + 1] = f[n]
        /\ ev.schema = s => f[n + 1] = Apply(k, f[n], ev)
    BY <1>3, NextState
  <2>2. n + 1 \in 0 .. N /\ (f[n].window # None => Holds(n, f[n].window))
    BY <1>3, <1>1
  <2>3. /\ \A w : Holds(n, w) => Holds(n + 1, w)
        /\ ev.schema = s => Holds(n + 1, ev.window)
    <3>1. 1 .. n \subseteq 1 .. n + 1 /\ n + 1 \in 1 .. n + 1
      BY <1>1
    <3>. QED BY <3>1
  <2>4. f[n] \in StateOf
    BY StatesCounted DEF Counted
  <2>. HIDE DEF Holds
  <2>5. CASE ev.schema = s
    <3>. HIDE DEF f, ev
    <3>1. Moves(f[n], ev, f[n + 1])
      BY <2>1, <2>4, <2>5, ApplyCases
    <3>2. f[n + 1].window # None => Holds(n + 1, f[n + 1].window)
      BY <2>2, <2>3, <2>5, <3>1 DEF Moves
    <3>. QED BY <2>2, <3>2
  <2>6. CASE ev.schema # s
    BY <2>1, <2>2, <2>3, <2>6
  <2>. QED BY <2>5, <2>6
<1>. HIDE DEF S
<1>4. \A n \in 0 .. N : n < N /\ n \in S => n + 1 \in S
  BY <1>3
<1>5. \A n \in 0 .. N : n \in S
  <2>. HIDE DEF N
  <2>. QED BY <1>1, <1>2, <1>4, Upward
<1>. QED BY <1>5 DEF S

\* A schema that is deprecated under some quorum is so under quorum 1, unless a RECOVER
\* had the window of an earlier event: under the other quorum it may have been the last.
LEMMA StatesHidden ==
    ASSUME NEW k \in Nat \ {0}, NEW s, NEW events \in Seq(Event)
    PROVE  \A n \in 0 .. Len(events) : States(k, s, events)[n].status = "deprecated" =>
              \/ States(1, s, events)[n].status = "deprecated"
              \/ \E i, j \in 1 .. n : /\ i < j /\ events[j].kind = "recover"
                                      /\ events[i].schema = s /\ events[j].schema = s
                                      /\ events[i].window = events[j].window
<1>. DEFINE N == Len(events)
            f == States(k, s, events)
            w == States(1, s, events)
            Twice(n) == \E i, j \in 1 .. n : /\ i < j /\ events[j].kind = "recover"
                                             /\ events[i].schema = s /\ events[j].schema = s
                                             /\ events[i].window = events[j].window
            S == {n \in 0 .. N : f[n].status = "deprecated" => w[n].status = "deprecated" \/ Twice(n)}
<1>1. f[0] = Reducer(k)!Unknown /\ N \in Nat
  BY FirstState
<1>2. 0 \in S
  <2>1. f[0].status = "unknown"
    BY <1>1 DEF Reducer!Unknown
  <2>. HIDE DEF f, N, w, Twice
  <2>. QED BY <1>1, <2>1
<1>3. ASSUME NEW n \in 0 .. N, n < N, n \in S PROVE n + 1 \in S
  <2>. DEFINE ev == events[n + 1]
  <2>1. /\ ev \in Event
        /\ ev.schema # s => f[n + 1] = f[n] /\ w[n + 1] = w[n]
        /\ ev.schema = s => f[n + 1] = Apply(k, f[n], ev) /\ w[n + 1] = Apply(1, w[n], ev)
    BY <1>3, NextState
  <2>2. n + 1 \in 0 .. N /\ (f[n].status = "deprecated" => w[n].status = "deprecated" \/ Twice(n))
    BY <1>3, <1>1
  <2>3. Twice(n) => Twice(n + 1)
    <3>1. 1 .. n \subseteq 1 .. n + 1
      BY <1>1
    <3>. QED BY <3>1
  <2>4. f[n] \in StateOf /\ w[n] \in StateOf
    BY StatesCounted DEF Counted
  <2>5. f[n].status = "unknown" <=> w[n].status = "unknown"
    BY StatesKnown
  <2>6. ev.schema = s /\ ev.kind = "recover" /\ ev.window # None /\ ev.window = f[n].window => Twice(n + 1)
    <3>1. SUFFICES ASSUME ev.schema = s, ev.kind = "recover", ev.window # None, ev.window = f[n].window
                   PROVE  Twice(n + 1)
      OBVIOUS
    <3>4. f[n].window # None => \E i \in 1 .. n : events[i].schema = s /\ events[i].window = f[n].window
      BY StatesWindow
    <3>2. PICK i \in 1 .. n : events[i].schema = s /\ events[i].window = f[n].window
      <4>. HIDE DEF f, ev
      <4>. QED BY <3>1, <3>4
    <3>3. i \in 1 .. n + 1 /\ n + 1 \in 1 .. n + 1 /\ i < n + 1
      BY <1>1
    <3>. QED BY <3>1, <3>2, <3>3
  <2>. HIDE DEF Twice
  <2>7. CASE ev.schema = s
    <3>. HIDE DEF f, w, ev
    <3>1. Outcome(k, f[n], ev, f[n + 1]) /\ Outcome(1, w[n], ev, w[n + 1])
      BY <2>1, <2>4, <2>7, ApplyCases
    <3>2. /\ f[n].status \in {"inferred", "promoted", "deprecated", "unknown"}
          /\ w[n].status \in {"inferred", "promoted", "deprecated", "unknown"}
      BY <2>4 DEF StateOf, Reducer!State, Reducer!Status
    <3>3. CASE f[n].status = "deprecated" /\ f[n + 1].status = "deprecated"
      <4>1. CASE w[n].status = "deprecated" /\ w[n + 1].status # "deprecated"
        <5>1. ev.kind = "recover" /\ ev.window # None
          BY <3>1, <4>1 DEF Outcome, Same
        <5>2. ev.window = f[n].window
          BY <3>1, <3>3, <5>1 DEF Outcome
        <5>. QED BY <2>2, <2>6, <2>7, <5>1, <5>2
      <4>. QED BY <2>2, <2>3, <3>3, <4>1
    <3>4. CASE f[n].status # "deprecated" /\ f[n + 1].status = "deprecated"
      <4>1. ev.kind = "deprecate" /\ f[n].status # "unknown"
        BY <3>1, <3>4 DEF Outcome, Same
      <4>2. w[n + 1].status = "deprecated"
        BY <2>5, <3>1, <3>2, <4>1 DEF Outcome, Same
      <4>. QED BY <2>2, <4>2
    <3>. QED BY <2>2, <3>3, <3>4
  <2>8. CASE ev.schema # s
    BY <2>1, <2>2, <2>3, <2>8
  <2>. QED BY <2>7, <2>8
<1>. HIDE DEF S
<1>4. \A n \in 0 .. N : n < N /\ n \in S => n + 1 \in S
  BY <1>3
<1>5. \A n \in 0 .. N : n \in S
  <2>. HIDE DEF N
  <2>. QED BY <1>1, <1>2, <1>4, Upward
<1>. QED BY <1>5 DEF S

LEMMA HiddenLogs == log \in Seq(Event) => HiddenIsRecoverable
<1>. SUFFICES ASSUME log \in Seq(Event), NEW s \in Created, HiddenFromRecall(s)
              PROVE  WriterState(s).status = "deprecated" \/ SecondThoughts(s)
  BY DEF HiddenIsRecoverable
<1>1. Len(log) \in 0 .. Len(log) /\ DOMAIN log = 1 .. Len(log) /\ ReadQuorum \in Nat \ {0}
  BY Constants
<1>2. States(ReadQuorum, s, log)[Len(log)].status = "deprecated"
  BY DEF HiddenFromRecall, ReaderState
<1>3. \/ States(1, s, log)[Len(log)].status = "deprecated"
      \/ \E i, j \in 1 .. Len(log) : /\ i < j /\ log[j].kind = "recover"
                                     /\ log[i].schema = s /\ log[j].schema = s
                                     /\ log[i].window = log[j].window
  BY <1>1, <1>2, StatesHidden
<1>. QED BY <1>1, <1>3 DEF WriterState, SecondThoughts

-----------------------------------------------------------------------------
(***************************************************************************)
(* The invariant implies the properties.                                   *)
(***************************************************************************)
LEMMA LogPlaces ==
    ASSUME TypeOK
    PROVE  /\ log \in Seq(Event) /\ Len(log) \in Nat /\ Len(log) \in 0 .. Len(log)
           /\ DOMAIN log = 1 .. Len(log)
           /\ 1 \in Nat \ {0} /\ ReadQuorum \in Nat \ {0}
<1>1. log \in Seq(Event)
  BY DEF TypeOK, Event
<1>. QED BY <1>1, Constants

LEMMA TwinsAreExplained == TypeOK /\ TwinInv => NoTwin
BY DEF TypeOK, TwinInv, NoTwin, Maker, Alike, Excused

LEMMA RowsAreLogged == TypeOK /\ BornInv /\ MadeInv => RowsMatchLog
<1>. SUFFICES ASSUME TypeOK, BornInv, MadeInv, NEW s \in Created
              PROVE  /\ s \in stored \ unborn => WriterState(s).status # "unknown"
                     /\ s \in stored \/ run[Maker(s)].pc # "ended"
                        \/ \E i \in DOMAIN run[Maker(s)].made : run[Maker(s)].made[i] = s
  BY DEF RowsMatchLog, Maker
<1>1. s \in stored \ unborn => WriterState(s).status # "unknown"
  <2>1. s \in stored \ unborn => Logged(s, "create")
    BY DEF BornInv
  <2>2. Logged(s, "create") => WriterState(s).status # "unknown"
    BY LogPlaces, StatesKnown DEF Logged, WriterState
  <2>. QED BY <2>1, <2>2
<1>. QED BY <1>1 DEF MadeInv

LEMMA BirthsAreDecided == TypeOK /\ PromotedInv => DecidedAtBirth
<1>. SUFFICES ASSUME TypeOK, PromotedInv, NEW s \in Created \ (undecided \cup unborn),
                     NEW k \in Nat \ {0}, NEW st, st = States(k, s, log)[Len(log)]
              PROVE  IF known[s].supports >= PromoteAt THEN st.promotes = 1 \/ st.deprecates >= 1
                     ELSE st.promotes = 0
  BY LogPlaces DEF DecidedAtBirth, WriterState, ReaderState
<1>1. CASE known[s].supports >= PromoteAt
  <2>1. PICK i, j \in DOMAIN log : /\ i < j /\ log[i].schema = s /\ log[j].schema = s
                                   /\ log[i].kind = "create" /\ log[j].kind = "promote"
    BY <1>1 DEF PromotedInv
  <2>2. i \in Nat /\ j \in 1 .. Len(log) /\ i \in 1 .. j - 1 /\ Len(log) >= j
    BY <2>1, LogPlaces
  <2>3. \A m \in 1 .. Len(log) : log[m].schema = s /\ log[m].kind = "promote" => m = j
    BY <2>1, LogPlaces DEF PromotedInv
  <2>4. st.promotes = 1 \/ st.deprecates >= 1
    BY <2>1, <2>2, <2>3, LogPlaces, StatesPromoted
  <2>. QED BY <1>1, <2>4
<1>2. CASE ~ (known[s].supports >= PromoteAt)
  <2>1. \A i \in 1 .. Len(log) : log[i].schema = s => log[i].kind # "promote"
    BY <1>2, LogPlaces DEF PromotedInv
  <2>2. st.promotes = 0
    BY <2>1, LogPlaces, StatesUnpromoted
  <2>. QED BY <1>2, <2>2
<1>. QED BY <1>1, <1>2

LEMMA InvariantSuffices ==
    IInv => TypeOK /\ NoTwin /\ RowsMatchLog /\ DecidedAtBirth /\ HiddenIsRecoverable
BY LogPlaces, TwinsAreExplained, RowsAreLogged, BirthsAreDecided, HiddenLogs DEF IInv

LEMMA InitInvariant == Init => IInv
<1>. SUFFICES ASSUME Init PROVE IInv
  OBVIOUS
<1>. USE Constants DEF Init
<1>1. Created = {} /\ DOMAIN log = {} /\ \A r \in Run : run[r] = NewRun
  BY DEF Created
<1>2. NewRun \in RunState
  BY <1>1 DEF NewRun, RunState, Label
<1>3. TypeOK
  BY <1>1, <1>2 DEF TypeOK, Event
<1>4. ConflictInv /\ OverlapInv /\ MakerInv /\ MadeInv
  BY <1>1 DEF ConflictInv, OverlapInv, MakerInv, MadeInv, NewRun, Active
<1>5. IndexInv /\ TwinInv /\ QueueInv /\ BornInv /\ PromotedInv
  BY <1>1 DEF IndexInv, TwinInv, QueueInv, BornInv, PromotedInv, Emitting, NewRun, Again
<1>. QED BY <1>3, <1>4, <1>5 DEF IInv

-----------------------------------------------------------------------------
(***************************************************************************)
(* What each action does to the run that takes it                          *)
(***************************************************************************)
Elsewhere(r) == \A q \in Run : q # r => run'[q] = run[q]

LEMMA RunTyped ==
    ASSUME TypeOK, NEW r \in Run
    PROVE  /\ run[r] \in RunState /\ run[r].pc \in Label
           /\ run[r].index \subseteq Created /\ run[r].item \in Pattern \cup {NoItem}
           /\ run[r].snap \in {<<>>} \cup [SchemaId -> StateOf]
           /\ run[r].queue \in Seq(Event) /\ run[r].made \in Seq(Created)
           /\ run[r].conflicts \subseteq Fact
<1>1. run[r] \in RunState
  BY DEF TypeOK
<1>. QED BY <1>1 DEF RunState, StateOf, Event

LEMMA Updated ==
    ASSUME TypeOK, NEW r \in Run, NEW context \in RunState, Update(r, context)
    PROVE  run' \in [Run -> RunState] /\ run'[r] = context /\ Elsewhere(r)
BY DEF TypeOK, Update, Elsewhere

\* A run that has no pattern, index, snapshot or queue at hand.
Plain(context, label, made, conflicts) ==
    /\ context.pc = label /\ context.index = {} /\ context.snap = <<>> /\ context.item = NoItem
    /\ context.queue = <<>> /\ context.made = made /\ context.conflicts = conflicts

LEMMA NewRunTyped == NewRun \in RunState
BY DEF NewRun, RunState, Label

LEMMA StartRunEffect ==
    ASSUME TypeOK, NEW r \in Run, StartRun(r)
    PROVE  /\ TypeOK' /\ Elsewhere(r)
           /\ run[r].pc = "new"
           /\ \E conflicts \in SUBSET ({r} \X (1 .. DeprecateAt)) : Plain(run'[r], "index", <<>>, conflicts)
           /\ overlap' = overlap \cup UNION {{<<r, q>>, <<q, r>>} : q \in {q \in Run : Active(q)}}
<1>. DEFINE conflicts == IF r \in Disagreeing THEN {r} \X (1 .. DeprecateAt) ELSE {}
            context == [NewRun EXCEPT !.pc = "index", !.conflicts = conflicts]
<1>1. conflicts \in SUBSET ({r} \X (1 .. DeprecateAt)) /\ conflicts \in SUBSET Fact
  BY DEF Fact
<1>2. Update(r, context)
  BY DEF StartRun
<1>. HIDE DEF conflicts
<1>3. context \in RunState
  BY <1>1, NewRunTyped DEF RunState, Label
<1>4. Plain(context, "index", <<>>, conflicts)
  BY DEF NewRun, Plain
<1>. HIDE DEF context
<1>5. run' \in [Run -> RunState] /\ run'[r] = context /\ Elsewhere(r)
  BY <1>2, <1>3, Updated
<1>6. overlap' \subseteq Run \X Run
  <2>1. overlap \subseteq Run \X Run /\ overlap' = overlap \cup UNION {{<<r, q>>, <<q, r>>} : q \in {q \in Run : Active(q)}}
    BY DEF TypeOK, StartRun
  <2>2. UNION {{<<r, q>>, <<q, r>>} : q \in {q \in Run : Active(q)}} \subseteq Run \X Run
    OBVIOUS
  <2>. QED BY <2>1, <2>2
<1>7. TypeOK'
  BY <1>5, <1>6 DEF TypeOK, StartRun, bounds, RunState, Created
<1>. QED BY <1>1, <1>4, <1>5, <1>7 DEF StartRun

\* A step that changes nothing but the run's context, within its type.
Context(r) == UNCHANGED <<log, known, rows, facts, overlap, missed, unborn, undecided, stored>>

LEMMA ReadIndexEffect ==
    ASSUME TypeOK, NEW r \in Run, ReadIndex(r)
    PROVE  /\ TypeOK' /\ Elsewhere(r) /\ UNCHANGED <<log, known, rows, facts, overlap, unborn, undecided, stored>>
           /\ run[r].pc = "index"
           /\ \E S \in SUBSET rows : run'[r] = [run[r] EXCEPT !.pc = "emit", !.index = S]
           /\ missed \subseteq missed'
           /\ \A s \in stored : <<r, s>> \in missed' \/ \E t \in run'[r].index : Alike(s, t)
<1>1. PICK found \in Found : /\ \E S \in Indexes(found) : Update(r, [run[r] EXCEPT !.pc = "emit", !.index = S])
                            /\ missed' = missed \cup ({r} \X (stored \ found))
  BY DEF ReadIndex
<1>2. PICK S \in Indexes(found) : Update(r, [run[r] EXCEPT !.pc = "emit", !.index = S])
  BY <1>1
<1>3. S \subseteq found /\ S \subseteq rows /\ S \subseteq Created /\ IsFiniteSet(S)
  <2>1. S \subseteq found /\ found \subseteq rows /\ S \subseteq SchemaId /\ S \subseteq Created
    BY DEF Indexes, Found, TypeOK
  <2>2. IsFiniteSet(SchemaId)
    BY Constants, FS_Interval DEF SchemaId
  <2>. QED BY <2>1, <2>2, FS_Subset
<1>4. [run[r] EXCEPT !.pc = "emit", !.index = S] \in RunState
  BY <1>3, RunTyped DEF RunState, Label
<1>5. run' \in [Run -> RunState] /\ run'[r] = [run[r] EXCEPT !.pc = "emit", !.index = S] /\ Elsewhere(r)
  BY <1>2, <1>4, Updated
<1>6. \A s \in found : \E t \in S : Alike(s, t)
  <2>1. SUFFICES ASSUME NEW s \in found, \A t \in S : ~ Alike(s, t) PROVE FALSE
    OBVIOUS
  <2>2. {t \in S : known[t].summary = known[s].summary} = {}
    BY <2>1 DEF Alike
  <2>. QED BY <2>2, FS_EmptySet DEF Indexes
<1>7. UNCHANGED <<log, known, rows, facts, bounds, overlap, unborn, undecided, stored>> /\ run[r].pc = "index"
  BY DEF ReadIndex
<1>8. missed' \subseteq Run \X Created
  BY <1>1 DEF TypeOK
<1>9. TypeOK'
  BY <1>5, <1>7, <1>8 DEF TypeOK, bounds, RunState, Created
<1>10. run'[r].index = S
  BY <1>5, RunTyped DEF RunState
<1>11. \A s \in stored : <<r, s>> \in missed' \/ \E t \in run'[r].index : Alike(s, t)
  BY <1>1, <1>6, <1>10
<1>. QED BY <1>1, <1>3, <1>5, <1>7, <1>9, <1>11

LEMMA EmittedTyped ==
    ASSUME NEW r \in Run, NEW s \in SchemaId, NEW kind \in {"create", "promote", "deprecate", "recover", "bump_version"}
    PROVE  Emitted(r, s, kind) \in Event
<1>1. ConsolidatorId[r] \in Emitter \cup {None} /\ r \in WindowId
  BY ConsolidatorAssumption DEF WindowId
<1>. QED BY <1>1 DEF Emitted, Event, Reducer!LifecycleEvent, Reducer!Kind

LEMMA PairOf ==
    ASSUME NEW S, NEW x \in S, NEW y \in S
    PROVE  <<x>> \o <<y>> = <<x, y>>
<1>1. <<x>> \in Seq(S) /\ <<y>> \in Seq(S) /\ <<x, y>> \in Seq(S)
  OBVIOUS
<1>2. Len(<<x>>) = 1 /\ Len(<<y>>) = 1 /\ Len(<<x, y>>) = 2
  OBVIOUS
<1>3. /\ <<x>> \o <<y>> \in Seq(S) /\ Len(<<x>> \o <<y>>) = 2
      /\ \A i \in 1 .. 2 : (<<x>> \o <<y>>)[i] = <<x, y>>[i]
  BY <1>1, <1>2, ConcatProperties
<1>. QED BY <1>1, <1>2, <1>3, SeqEqual

\* Events about a schema that run r has in its index.
Recognised(r, queue) ==
    \E s \in run[r].index : \A i \in DOMAIN queue :
        queue[i].kind \in {"recover", "bump_version"} /\ queue[i].schema = s

LEMMA ReemissionRecognised ==
    ASSUME TypeOK, NEW r \in Run, NEW s \in run[r].index, NEW item, NEW snap
    PROVE  Reemission(r, s, item, snap) \in Seq(Event) /\ Recognised(r, Reemission(r, s, item, snap))
<1>. DEFINE recover == Emitted(r, s, "recover")
            bump == Emitted(r, s, "bump_version")
<1>1. recover \in Event /\ bump \in Event
  <2>1. s \in SchemaId
    BY RunTyped DEF TypeOK
  <2>. QED BY <2>1, EmittedTyped
<1>2. /\ recover.kind \in {"recover", "bump_version"} /\ recover.schema = s
      /\ bump.kind \in {"recover", "bump_version"} /\ bump.schema = s
  BY DEF Emitted
<1>3. \/ Reemission(r, s, item, snap) = <<>> \o <<>>
      \/ Reemission(r, s, item, snap) = <<recover>> \o <<>>
      \/ Reemission(r, s, item, snap) = <<>> \o <<bump>>
      \/ Reemission(r, s, item, snap) = <<recover>> \o <<bump>>
  BY DEF Reemission
<1>. HIDE DEF recover, bump
<1>4. \/ Reemission(r, s, item, snap) = <<>> \/ Reemission(r, s, item, snap) = <<recover>>
      \/ Reemission(r, s, item, snap) = <<bump>> \/ Reemission(r, s, item, snap) = <<recover, bump>>
  <2>1. <<>> \o <<>> = <<>> /\ <<recover>> \o <<>> = <<recover>> /\ <<>> \o <<bump>> = <<bump>>
        /\ <<recover>> \o <<bump>> = <<recover, bump>>
    <3>1. <<>> \in Seq(Event) /\ <<recover>> \in Seq(Event) /\ <<bump>> \in Seq(Event)
      BY <1>1
    <3>. QED BY <1>1, <3>1, ConcatEmptySeq, PairOf
  <2>. QED BY <1>3, <2>1
<1>. DEFINE queue == Reemission(r, s, item, snap)
<1>. HIDE DEF queue
<1>5. queue = <<>> \/ queue = <<recover>> \/ queue = <<bump>> \/ queue = <<recover, bump>>
  BY <1>4 DEF queue
<1>6. queue \in Seq(Event)
  <2>1. <<>> \in Seq(Event) /\ <<recover>> \in Seq(Event) /\ <<bump>> \in Seq(Event)
    BY <1>1
  <2>2. <<recover, bump>> \in Seq(Event)
    BY <1>1
  <2>. QED BY <1>5, <2>1, <2>2, Zenon
<1>7. \A i \in DOMAIN queue : queue[i] = recover \/ queue[i] = bump
  <2>1. CASE queue = <<>>
    BY <2>1
  <2>2. CASE queue = <<recover>>
    BY <2>2
  <2>3. CASE queue = <<bump>>
    BY <2>3
  <2>4. CASE queue = <<recover, bump>>
    BY <2>4
  <2>. QED BY <1>5, <2>1, <2>2, <2>3, <2>4
<1>8. Recognised(r, queue)
  BY <1>2, <1>7 DEF Recognised
<1>. QED BY <1>6, <1>8 DEF queue

KeepsWork(r) == /\ run'[r].index = run[r].index /\ run'[r].made = run[r].made
                /\ run'[r].conflicts = run[r].conflicts

LEMMA ReemitEffect ==
    ASSUME TypeOK, NEW r \in Run, TakePattern(r), NEW item \in Pattern, Reemit(r, item)
    PROVE  /\ TypeOK' /\ Elsewhere(r) /\ Context(r) /\ KeepsWork(r)
           /\ run[r].pc = "emit" /\ run[r].queue = <<>>
           /\ \/ run'[r].pc = "scan" /\ run'[r].queue = <<>>
              \/ run'[r].pc = "emit" /\ Recognised(r, run'[r].queue)
<1>1. PICK s \in Indexed(r, item) :
            IF run[r].snap = <<>>
            THEN Update(r, [run[r] EXCEPT !.item = item, !.pc = "scan"])
            ELSE Update(r, [run[r] EXCEPT !.queue = Reemission(r, s, item, run[r].snap)])
  BY DEF Reemit
<1>2. run[r].pc = "emit" /\ run[r].queue = <<>> /\ run[r] \in RunState
  BY RunTyped DEF TakePattern
<1>3. Context(r) /\ UNCHANGED <<outside, faults>> /\ reported' \in 0 .. MaxItems
  <2>1. Context(r) /\ UNCHANGED <<outside, faults>> /\ reported < MaxItems /\ reported' = reported + 1
    BY DEF TakePattern, Reemit, Context
  <2>. QED BY <2>1, Constants DEF TypeOK
<1>4. /\ run' \in [Run -> RunState] /\ Elsewhere(r) /\ KeepsWork(r)
      /\ \/ run'[r].pc = "scan" /\ run'[r].queue = <<>>
         \/ run'[r].pc = "emit" /\ Recognised(r, run'[r].queue)
  <2>1. CASE run[r].snap = <<>>
    <3>. DEFINE context == [run[r] EXCEPT !.item = item, !.pc = "scan"]
    <3>1. context \in RunState
      BY <1>2 DEF RunState, Label
    <3>2. /\ context.index = run[r].index /\ context.made = run[r].made
          /\ context.conflicts = run[r].conflicts /\ context.pc = "scan" /\ context.queue = <<>>
      BY <1>2 DEF RunState
    <3>3. Update(r, context)
      BY <1>1, <2>1
    <3>. HIDE DEF context
    <3>. QED BY <3>1, <3>2, <3>3, Updated DEF KeepsWork
  <2>2. CASE run[r].snap # <<>>
    <3>. DEFINE queue == Reemission(r, s, item, run[r].snap)
                context == [run[r] EXCEPT !.queue = queue]
    <3>1. queue \in Seq(Event) /\ Recognised(r, queue)
      BY ReemissionRecognised DEF Indexed
    <3>2. Update(r, context)
      BY <1>1, <2>2
    <3>. HIDE DEF queue
    <3>3. context \in RunState
      BY <1>2, <3>1 DEF RunState, Event
    <3>4. /\ context.index = run[r].index /\ context.made = run[r].made
          /\ context.conflicts = run[r].conflicts /\ context.pc = "emit" /\ context.queue = queue
      BY <1>2 DEF RunState
    <3>. HIDE DEF context
    <3>. QED BY <3>1, <3>2, <3>3, <3>4, Updated DEF KeepsWork
  <2>. QED BY <2>1, <2>2
<1>5. TypeOK'
  BY <1>3, <1>4 DEF TypeOK, Context, RunState, Created
<1>. QED BY <1>2, <1>3, <1>4, <1>5

LEMMA LoadSnapshotEffect ==
    ASSUME TypeOK, NEW r \in Run, LoadSnapshot(r)
    PROVE  /\ TypeOK' /\ Elsewhere(r) /\ Context(r) /\ KeepsWork(r)
           /\ run[r].pc = "scan" /\ run'[r].pc = "emit" /\ Recognised(r, run'[r].queue)
<1>. DEFINE snap == [s \in SchemaId |-> WriterState(s)]
<1>1. PICK s \in Indexed(r, run[r].item) :
            Update(r, [run[r] EXCEPT !.pc = "emit", !.snap = snap, !.item = NoItem,
                                     !.queue = Reemission(r, s, run[r].item, snap)])
  BY DEF LoadSnapshot
<1>2. snap \in [SchemaId -> StateOf]
  <2>1. \A t \in SchemaId : WriterState(t) \in StateOf
    BY LogPlaces, StatesCounted DEF WriterState, Counted
  <2>. QED BY <2>1
<1>. DEFINE queue == Reemission(r, s, run[r].item, snap)
<1>3. queue \in Seq(Event) /\ Recognised(r, queue)
  BY ReemissionRecognised DEF Indexed
<1>4. run[r].pc = "scan" /\ run[r] \in RunState
  BY RunTyped DEF LoadSnapshot
<1>. HIDE DEF queue, snap
<1>. DEFINE context == [run[r] EXCEPT !.pc = "emit", !.snap = snap, !.item = NoItem, !.queue = queue]
<1>5. context \in RunState
  BY <1>2, <1>3, <1>4 DEF RunState, Event, StateOf, Label
<1>6. /\ context.index = run[r].index /\ context.made = run[r].made
      /\ context.conflicts = run[r].conflicts /\ context.pc = "emit" /\ context.queue = queue
  BY <1>4 DEF RunState
<1>7. Update(r, context)
  BY <1>1 DEF queue
<1>. HIDE DEF context
<1>8. run' \in [Run -> RunState] /\ run'[r] = context /\ Elsewhere(r)
  BY <1>5, <1>7, Updated
<1>9. TypeOK'
  BY <1>8 DEF TypeOK, LoadSnapshot, bounds, history, RunState, Created
<1>. QED BY <1>3, <1>4, <1>6, <1>8, <1>9 DEF LoadSnapshot, Context, KeepsWork, history

\* New facts are not stored before their run persists them, so none counts as a
\* contradiction and a new schema is promoted or nothing.
LEMMA FirstEmissionIs ==
    ASSUME TypeOK, ConflictInv, NEW r \in Run, run[r].pc = "emit", NEW s \in SchemaId, NEW item \in Pattern
    PROVE  /\ FirstEmission(r, s, item) =
                IF item.supports >= PromoteAt THEN <<Emitted(r, s, "create"), Emitted(r, s, "promote")>>
                ELSE <<Emitted(r, s, "create")>>
           /\ FirstEmission(r, s, item) \in Seq(Event)
<1>. DEFINE create == Emitted(r, s, "create")
            promote == Emitted(r, s, "promote")
            inferred == Reducer(1)!Created(Reducer(1)!Unknown, create)
            kind == Reducer(1)!Decide(inferred, Evidence(r, item))
<1>1. create \in Event /\ promote \in Event
  BY EmittedTyped
<1>2. Contradictions(r, item) = 0
  <2>1. run[r].conflicts \cap facts = {}
    <3>1. ASSUME NEW f \in run[r].conflicts, f \in facts PROVE FALSE
      <4>1. f[1] = r /\ run[f[1]].pc \in {"schemas", "ended", "dead"}
        BY <3>1 DEF ConflictInv
      <4>. QED BY <4>1
    <3>. QED BY <3>1
  <2>. QED BY <2>1, FS_EmptySet DEF Contradictions
<1>3. kind = IF item.supports >= PromoteAt THEN "promote" ELSE Reducer(1)!NoDecision
  <2>1. inferred.status = "inferred"
    BY DEF Reducer!Created
  <2>2. Evidence(r, item).contradictions = 0 /\ Evidence(r, item).supports = item.supports
    BY <1>2 DEF Evidence
  <2>3. ~ (0 >= DeprecateAt)
    BY Constants
  <2>. HIDE DEF inferred
  <2>. QED BY <2>1, <2>2, <2>3 DEF Reducer!Decide
<1>4. "promote" # Reducer(1)!NoDecision
  BY DEF Reducer!NoDecision
<1>5. FirstEmission(r, s, item) = <<create>> \o (IF kind = Reducer(1)!NoDecision THEN <<>> ELSE <<Emitted(r, s, kind)>>)
  BY DEF FirstEmission
<1>. HIDE DEF kind, create
<1>6. <<create>> \in Seq(Event) /\ <<promote>> \in Seq(Event) /\ <<create, promote>> \in Seq(Event)
  BY <1>1
<1>7. CASE item.supports >= PromoteAt
  <2>1. FirstEmission(r, s, item) = <<create>> \o <<promote>>
    BY <1>3, <1>4, <1>5, <1>7
  <2>. HIDE DEF promote
  <2>2. <<create>> \o <<promote>> = <<create, promote>>
    BY <1>1, PairOf
  <2>. QED BY <1>6, <1>7, <2>1, <2>2 DEF create, promote
<1>8. CASE ~ (item.supports >= PromoteAt)
  <2>1. FirstEmission(r, s, item) = <<create>> \o <<>>
    BY <1>3, <1>5, <1>8
  <2>2. <<create>> \o <<>> = <<create>>
    BY <1>6, ConcatEmptySeq
  <2>. QED BY <1>6, <1>8, <2>1, <2>2 DEF create
<1>. QED BY <1>7, <1>8

LEMMA CreatedIs ==
    ASSUME TypeOK
    PROVE  Len(known) \in Nat /\ Created = 1 .. Len(known) /\ Cardinality(Created) = Len(known)
<1>1. Len(known) \in Nat /\ Created = 1 .. Len(known)
  BY DEF TypeOK, Created
<1>. DEFINE n == Len(known)
<1>. HIDE DEF n
<1>2. n \in Nat => Cardinality(1 .. n) = n
  BY FS_Interval
<1>. QED BY <1>1, <1>2 DEF n

\* The schema that run r makes of a pattern.
Makes(r, s) ==
    /\ s \in SchemaId /\ s \notin Created /\ Created' = Created \cup {s}
    /\ \A t \in Created : known'[t] = known[t]
    /\ known'[s].maker = r /\ known'[s].supports \in Nat
    /\ \A t \in run[r].index : known[t].summary # known'[s].summary
    /\ run'[r].pc = "emit" /\ run'[r].index = run[r].index \cup {s}
    /\ run'[r].made = Append(run[r].made, s) /\ run'[r].conflicts = run[r].conflicts
    /\ undecided' = undecided \cup {s}
    /\ run'[r].queue = IF known'[s].supports >= PromoteAt
                       THEN <<Emitted(r, s, "create"), Emitted(r, s, "promote")>>
                       ELSE <<Emitted(r, s, "create")>>

LEMMA FirstEmitEffect ==
    ASSUME TypeOK, ConflictInv, NEW r \in Run, TakePattern(r), NEW item \in Pattern, FirstEmit(r, item)
    PROVE  /\ TypeOK' /\ Elsewhere(r)
           /\ UNCHANGED <<log, rows, facts, overlap, missed, unborn, stored>>
           /\ run[r].pc = "emit" /\ run[r].queue = <<>>
           /\ \E s : Makes(r, s)
<1>. DEFINE s == Cardinality(Created) + 1
            entry == [summary |-> item.summary, text |-> item.text, maker |-> r,
                      supports |-> item.supports, conflicts |-> Cardinality(run[r].conflicts)]
            queue == FirstEmission(r, s, item)
            context == [run[r] EXCEPT !.index = @ \cup {s}, !.made = Append(@, s), !.queue = queue]
<1>1. /\ run[r].pc = "emit" /\ run[r].queue = <<>> /\ run[r] \in RunState
      /\ UNCHANGED <<log, rows, facts, outside, faults, overlap, missed, unborn, stored>>
  BY RunTyped DEF TakePattern
<1>2. /\ s \in SchemaId /\ known' = Append(known, entry) /\ Update(r, context)
      /\ undecided' = undecided \cup {s} /\ Indexed(r, item) = {}
  BY DEF FirstEmit
<1>3. s = Len(known) + 1 /\ s \notin Created
  BY CreatedIs
<1>4. item.summary \in Summary /\ item.text \in Text /\ item.supports \in Nat
  BY Constants DEF Pattern
<1>5. Cardinality(run[r].conflicts) \in Nat
  <2>1. run[r].conflicts \subseteq Fact
    BY RunTyped
  <2>2. IsFiniteSet(Fact)
    <3>1. IsFiniteSet(1 .. MaxRuns) /\ IsFiniteSet(1 .. DeprecateAt)
      BY Constants, FS_Interval
    <3>. QED BY <3>1, FS_Product DEF Fact, Run
  <2>. QED BY <2>1, <2>2, FS_Subset, FS_CardinalityType
<1>6. entry \in [summary : Summary, text : Text, maker : Run, supports : Nat, conflicts : Nat]
  BY <1>4, <1>5
<1>7. entry.summary = item.summary /\ entry.maker = r /\ entry.supports = item.supports
  OBVIOUS
<1>8. queue \in Seq(Event)
      /\ queue = IF item.supports >= PromoteAt THEN <<Emitted(r, s, "create"), Emitted(r, s, "promote")>>
                 ELSE <<Emitted(r, s, "create")>>
  <2>. HIDE DEF s
  <2>. QED BY <1>1, <1>2, FirstEmissionIs
<1>. HIDE DEF entry, queue
<1>9. /\ known' \in Seq([summary : Summary, text : Text, maker : Run, supports : Nat, conflicts : Nat])
      /\ Created' = Created \cup {s} /\ known'[s] = entry /\ \A t \in Created : known'[t] = known[t]
  <2>1. known \in Seq([summary : Summary, text : Text, maker : Run, supports : Nat, conflicts : Nat])
    BY DEF TypeOK
  <2>. HIDE DEF s
  <2>2. Len(known') = s /\ \A t \in 1 .. Len(known) : known'[t] = known[t]
    BY <1>2, <1>3, <1>6, <2>1
  <2>3. known'[s] = entry /\ known' \in Seq([summary : Summary, text : Text, maker : Run, supports : Nat, conflicts : Nat])
    BY <1>2, <1>3, <1>6, <2>1
  <2>4. DOMAIN known' = 1 .. s
    BY <2>2, <2>3
  <2>. QED BY <1>3, <2>2, <2>3, <2>4, CreatedIs DEF Created
<1>. HIDE DEF s
<1>10. \A c \in RunState : c \in RunState'
  <2>1. \A made \in Seq(Created) : made \in Seq(Created')
    BY <1>9, SeqMonotonic
  <2>2. SUBSET Created \subseteq SUBSET Created'
    BY <1>9
  <2>. QED BY <2>1, <2>2 DEF RunState
<1>11. context \in RunState'
  <2>1. Append(run[r].made, s) \in Seq(Created')
    <3>1. run[r].made \in Seq(Created') /\ s \in Created'
      BY <1>9, SeqMonotonic, RunTyped
    <3>. QED BY <3>1
  <2>2. run[r].index \cup {s} \in SUBSET Created'
    BY <1>9, RunTyped
  <2>. QED BY <1>1, <1>8, <1>10, <2>1, <2>2 DEF RunState, Event
<1>12. /\ context.pc = "emit" /\ context.index = run[r].index \cup {s}
       /\ context.made = Append(run[r].made, s) /\ context.conflicts = run[r].conflicts /\ context.queue = queue
  BY <1>1 DEF RunState
<1>. HIDE DEF context
<1>13. run' \in [Run -> RunState'] /\ run'[r] = context /\ Elsewhere(r)
  BY <1>2, <1>10, <1>11 DEF TypeOK, Update, Elsewhere
<1>14. TypeOK'
  <2>1. reported < MaxItems /\ reported' = reported + 1 /\ reported' \in 0 .. MaxItems
    BY Constants DEF TakePattern, TypeOK
  <2>. QED BY <1>1, <1>2, <1>9, <1>13, <2>1 DEF TypeOK
<1>15. \A t \in run[r].index : known[t].summary # entry.summary
  BY <1>2, <1>7 DEF Indexed
<1>16. Makes(r, s)
  BY <1>2, <1>3, <1>4, <1>7, <1>8, <1>9, <1>12, <1>13, <1>15 DEF Makes
<1>. QED BY <1>1, <1>13, <1>14, <1>16

LEMMA EmitEffect ==
    ASSUME TypeOK, NEW r \in Run, Emit(r)
    PROVE  /\ TypeOK' /\ Elsewhere(r) /\ KeepsWork(r)
           /\ UNCHANGED <<known, rows, facts, overlap, missed, unborn, stored>>
           /\ run[r].pc = "emit" /\ run'[r].pc = "emit"
           /\ run[r].queue # <<>> /\ run[r].queue \in Seq(Event) /\ run[r].queue[1] \in Event
           /\ log' = Append(log, run[r].queue[1]) /\ run'[r].queue = Tail(run[r].queue)
           /\ undecided' = IF Len(run[r].queue) = 1 /\ Maker(run[r].queue[1].schema) = r
                           THEN undecided \ {run[r].queue[1].schema} ELSE undecided
<1>. DEFINE queue == run[r].queue
            context == [run[r] EXCEPT !.queue = Tail(@)]
<1>1. /\ run[r].pc = "emit" /\ queue # <<>> /\ run[r] \in RunState /\ queue \in Seq(Event)
      /\ UNCHANGED <<known, rows, facts, bounds, overlap, missed, unborn, stored>> /\ Update(r, context)
      /\ log' = Append(log, Head(queue))
      /\ undecided' = IF Len(queue) = 1 /\ known[Head(queue).schema].maker = r
                      THEN undecided \ {Head(queue).schema} ELSE undecided
  BY RunTyped DEF Emit
<1>2. Head(queue) = queue[1] /\ Head(queue) \in Event /\ Tail(queue) \in Seq(Event)
  BY <1>1, HeadTailProperties
<1>3. context \in RunState
  BY <1>1, <1>2 DEF RunState, Event
<1>4. /\ context.pc = "emit" /\ context.index = run[r].index /\ context.made = run[r].made
      /\ context.conflicts = run[r].conflicts /\ context.queue = Tail(queue)
  BY <1>1 DEF RunState
<1>. HIDE DEF context
<1>5. run' \in [Run -> RunState] /\ run'[r] = context /\ Elsewhere(r)
  BY <1>1, <1>3, Updated
<1>6. log' \in Seq(Event)
  BY <1>1, <1>2, LogPlaces
<1>7. TypeOK'
  BY <1>1, <1>5, <1>6 DEF TypeOK, bounds, RunState, Created, Event
<1>. QED BY <1>1, <1>2, <1>4, <1>5, <1>7 DEF KeepsWork, Maker

LEMMA QueueSchemas ==
    ASSUME TypeOK, QueueInv, NEW r \in Run, NEW i \in DOMAIN run[r].queue
    PROVE  run[r].queue[i].schema \in Created
<1>1. Again(r) \/ \E s \in undecided : Maker(s) = r /\ Birth(r, s)
  BY DEF QueueInv
<1>2. CASE Again(r)
  BY <1>2 DEF Again
<1>3. CASE \E s \in undecided : Maker(s) = r /\ Birth(r, s)
  <2>1. PICK s \in undecided : Birth(r, s)
    BY <1>3
  <2>2. s \in Created
    BY DEF TypeOK
  <2>. DEFINE create == Emitted(r, s, "create")
              promote == Emitted(r, s, "promote")
  <2>3. create.schema = s /\ promote.schema = s
    BY DEF Emitted
  <2>. HIDE DEF create, promote
  <2>4. \/ run[r].queue = <<create>> \/ run[r].queue = <<promote>> \/ run[r].queue = <<create, promote>>
    BY <2>1 DEF Birth, create, promote
  <2>5. run[r].queue[i] = create \/ run[r].queue[i] = promote
    <3>1. CASE run[r].queue = <<create>>
      BY <3>1
    <3>2. CASE run[r].queue = <<promote>>
      BY <3>2
    <3>3. CASE run[r].queue = <<create, promote>>
      BY <3>3
    <3>. QED BY <2>4, <3>1, <3>2, <3>3
  <2>. QED BY <2>2, <2>3, <2>5
<1>. QED BY <1>1, <1>2, <1>3

LEMMA FaultCounted == TypeOK /\ Fault => faults' \in 0 .. MaxFaults
BY Constants DEF TypeOK, Fault

LEMMA EmitFailsEffect ==
    ASSUME TypeOK, QueueInv, NEW r \in Run, EmitFails(r)
    PROVE  /\ TypeOK' /\ Elsewhere(r)
           /\ UNCHANGED <<log, known, rows, facts, overlap, missed, undecided, stored>>
           /\ run[r].pc \in {"emit", "scan"} /\ Plain(run'[r], "facts", run[r].made, run[r].conflicts)
           /\ unborn' = IF run[r].queue # <<>> /\ run[r].queue[1].kind = "create"
                        THEN unborn \cup {run[r].queue[1].schema} ELSE unborn
<1>. DEFINE context == [NewRun EXCEPT !.pc = "facts", !.made = run[r].made, !.conflicts = run[r].conflicts]
            queue == run[r].queue
<1>1. /\ run[r].pc \in {"emit", "scan"} /\ Update(r, context)
      /\ UNCHANGED <<log, known, rows, facts, reported, outside, overlap, missed, undecided, stored>>
      /\ unborn' = IF queue # <<>> /\ Head(queue).kind = "create" THEN unborn \cup {Head(queue).schema} ELSE unborn
      /\ faults' \in 0 .. MaxFaults
  BY FaultCounted DEF EmitFails, AfterFailure
<1>2. queue # <<>> => Head(queue) = queue[1] /\ queue[1].schema \in Created
  <2>1. SUFFICES ASSUME queue # <<>> PROVE Head(queue) = queue[1] /\ 1 \in DOMAIN queue
    BY QueueSchemas
  <2>. QED BY <2>1, RunTyped
<1>3. context \in RunState
  BY NewRunTyped, RunTyped DEF RunState, Label
<1>4. Plain(context, "facts", run[r].made, run[r].conflicts)
  BY DEF NewRun, Plain
<1>. HIDE DEF context, queue
<1>5. run' \in [Run -> RunState] /\ run'[r] = context /\ Elsewhere(r)
  BY <1>1, <1>3, Updated
<1>6. unborn' \cup undecided' \subseteq Created
  BY <1>1, <1>2 DEF TypeOK
<1>7. TypeOK'
  BY <1>1, <1>5, <1>6 DEF TypeOK, RunState, Created
<1>. QED BY <1>1, <1>2, <1>4, <1>5, <1>7 DEF queue

LEMMA PersistFactsEffect ==
    ASSUME TypeOK, NEW r \in Run, PersistFacts(r)
    PROVE  /\ TypeOK' /\ Elsewhere(r)
           /\ UNCHANGED <<log, known, rows, overlap, missed, unborn, undecided, stored>>
           /\ run[r].pc \in {"facts", "emit"}
           /\ run[r].pc = "emit" => run[r].queue = <<>>
           /\ Plain(run'[r], "schemas", run[r].made, {}) /\ facts' = facts \cup run[r].conflicts
<1>. DEFINE context == [NewRun EXCEPT !.pc = "schemas", !.made = run[r].made]
<1>1. /\ run[r].pc \in {"facts", "emit"}
      /\ run[r].pc = "emit" => run[r].queue = <<>>
      /\ Update(r, context) /\ facts' = facts \cup run[r].conflicts
      /\ UNCHANGED <<log, known, rows, bounds, overlap, missed, unborn, undecided, stored>>
  BY DEF PersistFacts, history
<1>2. context \in RunState
  BY NewRunTyped, RunTyped DEF RunState, Label
<1>3. Plain(context, "schemas", run[r].made, {})
  BY DEF NewRun, Plain
<1>. HIDE DEF context
<1>4. run' \in [Run -> RunState] /\ run'[r] = context /\ Elsewhere(r)
  BY <1>1, <1>2, Updated
<1>5. TypeOK'
  BY <1>1, <1>4, RunTyped DEF TypeOK, RunState, Created, bounds
<1>. QED BY <1>1, <1>3, <1>4, <1>5

LEMMA PersistSchemaEffect ==
    ASSUME TypeOK, NEW r \in Run, PersistSchema(r)
    PROVE  /\ TypeOK' /\ Elsewhere(r)
           /\ UNCHANGED <<log, known, facts, overlap, missed, unborn, undecided>>
           /\ run[r].pc = "schemas" /\ run'[r].pc = "schemas"
           /\ run'[r].index = run[r].index /\ run'[r].queue = run[r].queue /\ run'[r].conflicts = run[r].conflicts
           /\ run[r].made # <<>> /\ run[r].made \in Seq(Created) /\ run'[r].made = Tail(run[r].made)
           /\ rows' = rows \cup {run[r].made[1]} /\ stored' = stored \cup {run[r].made[1]}
<1>. DEFINE made == run[r].made
            context == [run[r] EXCEPT !.made = Tail(@)]
<1>1. /\ run[r].pc = "schemas" /\ made # <<>> /\ made \in Seq(Created) /\ run[r] \in RunState
      /\ rows' = rows \cup {Head(made)} /\ stored' = stored \cup {Head(made)} /\ Update(r, context)
      /\ UNCHANGED <<log, known, facts, bounds, overlap, missed, unborn, undecided>>
  BY RunTyped DEF PersistSchema
<1>2. Head(made) = made[1] /\ Head(made) \in Created /\ Tail(made) \in Seq(Created)
  BY <1>1, HeadTailProperties
<1>3. context \in RunState
  BY <1>1, <1>2 DEF RunState
<1>4. /\ context.pc = "schemas" /\ context.index = run[r].index /\ context.queue = run[r].queue
      /\ context.conflicts = run[r].conflicts /\ context.made = Tail(made)
  BY <1>1 DEF RunState
<1>. HIDE DEF context
<1>5. run' \in [Run -> RunState] /\ run'[r] = context /\ Elsewhere(r)
  BY <1>1, <1>3, Updated
<1>6. TypeOK'
  BY <1>1, <1>2, <1>5 DEF TypeOK, RunState, Created, bounds
<1>. QED BY <1>1, <1>2, <1>4, <1>5, <1>6

LEMMA EndRunEffect ==
    ASSUME TypeOK, NEW r \in Run, EndRun(r)
    PROVE  /\ TypeOK' /\ Elsewhere(r) /\ Context(r)
           /\ run[r].pc \in {"facts", "schemas"} /\ Plain(run'[r], "ended", run[r].made, {})
<1>. DEFINE context == [NewRun EXCEPT !.pc = "ended", !.made = run[r].made]
<1>1. /\ run[r].pc \in {"facts", "schemas"} /\ Update(r, context)
      /\ UNCHANGED <<log, known, rows, facts, reported, outside, overlap, missed, unborn, undecided, stored>>
      /\ faults' \in 0 .. MaxFaults
  <2>1. UNCHANGED faults \/ Fault
    BY DEF EndRun
  <2>2. faults' \in 0 .. MaxFaults
    BY <2>1, FaultCounted DEF TypeOK
  <2>. QED BY <2>2 DEF EndRun, history
<1>2. context \in RunState
  BY NewRunTyped, RunTyped DEF RunState, Label
<1>3. Plain(context, "ended", run[r].made, {})
  BY DEF NewRun, Plain
<1>. HIDE DEF context
<1>4. run' \in [Run -> RunState] /\ run'[r] = context /\ Elsewhere(r)
  BY <1>1, <1>2, Updated
<1>5. TypeOK'
  BY <1>1, <1>4 DEF TypeOK, RunState, Created
<1>. QED BY <1>1, <1>3, <1>4, <1>5 DEF Context

LEMMA KillEffect ==
    ASSUME TypeOK, NEW r \in Run, Kill(r)
    PROVE  /\ TypeOK' /\ Elsewhere(r) /\ Context(r)
           /\ Active(r) /\ Plain(run'[r], "dead", <<>>, {})
<1>. DEFINE context == [NewRun EXCEPT !.pc = "dead"]
<1>1. /\ Active(r) /\ Update(r, context)
      /\ UNCHANGED <<log, known, rows, facts, reported, outside, overlap, missed, unborn, undecided, stored>>
      /\ faults' \in 0 .. MaxFaults
  BY FaultCounted DEF Kill, history
<1>2. context \in RunState
  BY NewRunTyped DEF RunState, Label
<1>3. Plain(context, "dead", <<>>, {})
  BY DEF NewRun, Plain
<1>. HIDE DEF context
<1>4. run' \in [Run -> RunState] /\ run'[r] = context /\ Elsewhere(r)
  BY <1>1, <1>2, Updated
<1>5. TypeOK'
  BY <1>1, <1>4 DEF TypeOK, RunState, Created
<1>. QED BY <1>1, <1>3, <1>4, <1>5 DEF Context

LEMMA DemoteEffect ==
    ASSUME TypeOK, NEW s \in rows, Demote(s)
    PROVE  /\ TypeOK'
           /\ UNCHANGED <<log, known, facts, run, overlap, missed, unborn, undecided, stored>>
BY DEF TypeOK, Demote, bounds, history, RunState, Created

LEMMA ReviveEffect ==
    ASSUME TypeOK, NEW s \in stored \ rows, Revive(s)
    PROVE  /\ TypeOK'
           /\ UNCHANGED <<log, known, facts, run, overlap, missed, unborn, undecided, stored>>
BY DEF TypeOK, Revive, bounds, history, RunState, Created

LEMMA OutsideDeprecateEffect ==
    ASSUME TypeOK, NEW s \in Created, OutsideDeprecate(s)
    PROVE  /\ TypeOK'
           /\ UNCHANGED <<known, rows, facts, run, overlap, missed, unborn, undecided, stored>>
           /\ \E ev \in Event : log' = Append(log, ev) /\ ev.schema = s /\ ev.kind = "deprecate"
<1>1. PICK vote \in OutsideVotes \ outside :
            /\ outside' = outside \cup {vote}
            /\ log' = Append(log, [schema |-> s, kind |-> "deprecate", window |-> vote.window, emitter |-> vote.emitter])
  BY DEF OutsideDeprecate
<1>. DEFINE ev == [schema |-> s, kind |-> "deprecate", window |-> vote.window, emitter |-> vote.emitter]
<1>2. UNCHANGED <<known, rows, facts, run, reported, faults, overlap, missed, unborn, undecided, stored>>
  BY DEF OutsideDeprecate, history
<1>3. ev \in Event
  <2>1. s \in SchemaId
    BY DEF TypeOK
  <2>2. vote.window \in WindowId \cup {None} /\ vote.emitter \in Emitter \cup {None}
    BY OutsideAssumption DEF WindowId
  <2>. QED BY <2>1, <2>2 DEF Event, Reducer!LifecycleEvent, Reducer!Kind
<1>4. ev.schema = s /\ ev.kind = "deprecate"
  OBVIOUS
<1>. HIDE DEF ev
<1>5. log' \in Seq(Event)
  BY <1>1, <1>3, LogPlaces DEF ev
<1>6. TypeOK'
  BY <1>1, <1>2, <1>5 DEF TypeOK, RunState, Created, Event
<1>. QED BY <1>1, <1>2, <1>3, <1>4, <1>6 DEF ev

LEMMA CutLogEffect ==
    ASSUME TypeOK, PromotedInv, CutLog
    PROVE  /\ TypeOK'
           /\ UNCHANGED <<known, rows, facts, run, overlap, missed, undecided, stored>>
           /\ \E n \in DOMAIN log :
                /\ Len(log') = Len(log) - n
                /\ \A i \in DOMAIN log' : i + n \in DOMAIN log /\ log'[i] = log[i + n]
                /\ \A i \in DOMAIN log : i > n => i - n \in DOMAIN log' /\ log'[i - n] = log[i]
                /\ unborn' = unborn \cup {log[i].schema : i \in {j \in 1 .. n : log[j].kind = "create"}}
<1>1. PICK n \in DOMAIN log :
            /\ log' = SubSeq(log, n + 1, Len(log))
            /\ unborn' = unborn \cup {log[i].schema : i \in {j \in 1 .. n : log[j].kind = "create"}}
  BY DEF CutLog
<1>2. /\ UNCHANGED <<known, rows, facts, run, reported, outside, overlap, missed, undecided, stored>>
      /\ faults' \in 0 .. MaxFaults
  BY FaultCounted DEF CutLog
<1>3. n \in 1 .. Len(log) /\ Len(log) \in Nat /\ log \in Seq(Event)
  BY LogPlaces
<1>4. /\ log' \in Seq(Event) /\ Len(log') = Len(log) - n
      /\ \A i \in 1 .. Len(log) - n : log'[i] = log[i + n]
  <2>. DEFINE first == n + 1
              last == Len(log)
  <2>1. first \in Int /\ last \in Int /\ \A i \in first .. last : log[i] \in Event
    BY <1>3
  <2>2. last - first + 1 = Len(log) - n /\ (first <= last => Len(log) - n = last - first + 1)
        /\ (~ first <= last => Len(log) - n = 0) /\ \A i \in 1 .. Len(log) - n : first + i - 1 = i + n
    BY <1>3
  <2>. HIDE DEF first, last
  <2>3. /\ SubSeq(log, first, last) \in Seq(Event)
        /\ Len(SubSeq(log, first, last)) = IF first <= last THEN last - first + 1 ELSE 0
        /\ \A i \in 1 .. last - first + 1 : SubSeq(log, first, last)[i] = log[first + i - 1]
    BY <2>1, SubSeqProperties
  <2>4. log' = SubSeq(log, first, last)
    BY <1>1 DEF first, last
  <2>. QED BY <2>2, <2>3, <2>4
<1>5. DOMAIN log' = 1 .. Len(log) - n /\ DOMAIN log = 1 .. Len(log)
  BY <1>4, LogPlaces
<1>6. /\ \A i \in DOMAIN log' : i + n \in DOMAIN log /\ log'[i] = log[i + n]
      /\ \A i \in DOMAIN log : i > n => i - n \in DOMAIN log' /\ log'[i - n] = log[i]
  <2>. DEFINE N == Len(log)
  <2>1. N \in Nat /\ n \in 1 .. N
    BY <1>3
  <2>2. DOMAIN log' = 1 .. N - n /\ DOMAIN log = 1 .. N /\ \A i \in 1 .. N - n : log'[i] = log[i + n]
    BY <1>4, <1>5
  <2>. HIDE DEF N
  <2>3. ASSUME NEW i \in 1 .. N - n PROVE i + n \in 1 .. N
    BY <2>1
  <2>4. ASSUME NEW i \in 1 .. N, i > n PROVE i - n \in 1 .. N - n /\ (i - n) + n = i
    BY <2>1, <2>4
  <2>. QED BY <2>2, <2>3, <2>4
<1>7. unborn' \subseteq Created
  <2>1. \A i \in 1 .. n : log[i].schema \in Created
    BY <1>3, <1>5 DEF PromotedInv
  <2>. QED BY <1>1, <2>1 DEF TypeOK
<1>8. TypeOK'
  BY <1>2, <1>4, <1>7 DEF TypeOK, RunState, Created, Event
<1>. QED BY <1>1, <1>2, <1>4, <1>6, <1>8

-----------------------------------------------------------------------------
(***************************************************************************)
(* Who made what, and who was beside whom                                  *)
(***************************************************************************)
Late == {"schemas", "ended", "dead"}

LifeInv == ConflictInv /\ OverlapInv /\ MakerInv /\ MadeInv /\ IndexInv /\ TwinInv

LEMMA MakerTyped ==
    ASSUME TypeOK, NEW s \in Created
    PROVE  Maker(s) \in Run /\ known[s].supports \in Nat
<1>. DEFINE Entry == [summary : Summary, text : Text, maker : Run, supports : Nat, conflicts : Nat]
<1>1. known \in Seq(Entry) /\ s \in 1 .. Len(known)
  BY CreatedIs DEF TypeOK
<1>2. known[s] \in Entry
  <2>. HIDE DEF Entry
  <2>. QED BY <1>1, ElementOfSeq
<1>. QED BY <1>2 DEF Maker

\* A run goes on without new conflicts, with no index but the one it has, and forgets
\* what it made only when it dies.
Onward(q) ==
    /\ run'[q].conflicts \subseteq run[q].conflicts
    /\ run'[q].pc \in {"emit", "scan"} => Emitting(q) /\ run'[q].index = run[q].index
    /\ run'[q].pc \notin {"new", "ended", "dead"} => Active(q)
    /\ run[q].pc \notin {"new", "index"} => run'[q].pc \notin {"new", "index"}
    /\ run[q].pc \in Late => run'[q].pc \in Late
    /\ run[q].pc = "dead" => run'[q].pc = "dead"
    /\ run'[q].made = run[q].made \/ (run'[q].pc = "dead" /\ run'[q].made = <<>>)

LEMMA LifeOnward ==
    ASSUME TypeOK, TypeOK', LifeInv, \A q \in Run : Onward(q), UNCHANGED <<known, overlap, missed, stored>>,
           \A f \in facts' \ facts : run'[f[1]].pc \in Late
    PROVE  LifeInv'
<1>. USE DEF LifeInv
<1>1. Created' = Created /\ \A s \in Created : Maker(s)' = Maker(s) /\ Maker(s) \in Run
  BY MakerTyped DEF Created, Maker
<1>2. ConflictInv'
  <2>1. ASSUME NEW q \in Run PROVE run'[q].conflicts \subseteq {q} \X (1 .. DeprecateAt)
    BY DEF Onward, ConflictInv
  <2>2. ASSUME NEW f \in facts' PROVE run'[f[1]].pc \in Late
    <3>1. CASE f \in facts
      <4>1. f[1] \in Run /\ run[f[1]].pc \in Late
        BY <3>1 DEF TypeOK, Fact, ConflictInv, Late
      <4>. QED BY <4>1 DEF Onward
    <3>. QED BY <3>1
  <2>. QED BY <2>1, <2>2 DEF ConflictInv, Late
<1>3. OverlapInv'
  BY DEF OverlapInv, Active, Onward
<1>4. MakerInv'
  BY <1>1 DEF MakerInv, Emitting, Onward, Alike
<1>5. MadeInv'
  <2>1. ASSUME NEW q \in Run, NEW i \in DOMAIN run'[q].made PROVE known[run'[q].made[i]].maker = q
    BY <2>1 DEF MadeInv, Onward, Maker
  <2>2. ASSUME NEW s \in Created
        PROVE  \/ s \in stored \/ run'[Maker(s)].pc = "dead"
               \/ \E i \in DOMAIN run'[Maker(s)].made : run'[Maker(s)].made[i] = s
    BY <1>1 DEF MadeInv, Onward
  <2>3. ASSUME NEW s \in stored PROVE run'[Maker(s)].pc \in Late
    <3>1. s \in Created
      BY DEF TypeOK
    <3>. QED BY <1>1, <3>1 DEF MadeInv, Onward, Late
  <2>. QED BY <1>1, <2>1, <2>2, <2>3 DEF MadeInv, Maker, Late
<1>6. IndexInv'
  BY <1>1 DEF IndexInv, Emitting, Onward, Alike, Maker
<1>7. TwinInv'
  BY <1>1 DEF TwinInv, Active, Onward, Alike, Maker, Excused
<1>. QED BY <1>2, <1>3, <1>4, <1>5, <1>6, <1>7

LEMMA Bystanders ==
    ASSUME NEW r \in Run, Elsewhere(r)
    PROVE  \A q \in Run : q # r => Onward(q)
BY DEF Elsewhere, Onward, Emitting, Active

LEMMA WorkOnward ==
    ASSUME NEW r \in Run, Elsewhere(r), KeepsWork(r), run[r].pc \in {"emit", "scan"}, run'[r].pc \in {"emit", "scan"}
    PROVE  \A q \in Run : Onward(q)
<1>1. Onward(r)
  BY DEF KeepsWork, Onward, Emitting, Active, Late
<1>. QED BY <1>1, Bystanders

LEMMA PlainOnward ==
    ASSUME NEW r \in Run, Elsewhere(r), NEW label \in {"facts", "schemas", "ended", "dead"},
           NEW made, NEW conflicts, Plain(run'[r], label, made, conflicts),
           conflicts \subseteq run[r].conflicts,
           made = run[r].made \/ (label = "dead" /\ made = <<>>),
           Active(r), run[r].pc \in Late => label \in Late
    PROVE  \A q \in Run : Onward(q)
<1>1. Onward(r)
  BY DEF Plain, Onward, Emitting, Active, Late
<1>. QED BY <1>1, Bystanders

LEMMA StartRunLife ==
    ASSUME TypeOK, LifeInv, NEW r \in Run, StartRun(r)
    PROVE  LifeInv'
<1>. USE DEF LifeInv
<1>1. /\ TypeOK' /\ Elsewhere(r) /\ run[r].pc = "new" /\ run'[r].pc = "index" /\ run'[r].made = <<>>
      /\ run'[r].conflicts \subseteq {r} \X (1 .. DeprecateAt)
      /\ overlap' = overlap \cup UNION {{<<r, q>>, <<q, r>>} : q \in {q \in Run : Active(q)}}
      /\ UNCHANGED <<known, rows, facts, missed, stored>>
  BY StartRunEffect DEF Plain, StartRun
<1>2. Created' = Created /\ \A s \in Created : Maker(s)' = Maker(s) /\ Maker(s) \in Run
  BY <1>1, MakerTyped DEF Created, Maker
<1>3. \A s \in Created : Maker(s) # r /\ run'[Maker(s)] = run[Maker(s)]
  BY <1>1, <1>2 DEF MakerInv, Elsewhere
<1>4. /\ overlap \subseteq overlap' /\ ~ Active(r)
      /\ \A q \in Run : Active(q) => <<r, q>> \in overlap' /\ <<q, r>> \in overlap'
      /\ \A q, t \in Run : <<q, t>> \in overlap' => <<q, t>> \in overlap \/ <<t, q>> \in overlap'
  BY <1>1 DEF Active
<1>5. ConflictInv'
  <2>1. ASSUME NEW f \in facts PROVE f[1] \in Run /\ f[1] # r
    BY <1>1 DEF ConflictInv, TypeOK, Fact
  <2>. QED BY <1>1, <2>1 DEF ConflictInv, Elsewhere
<1>6. OverlapInv'
  BY <1>1, <1>4 DEF OverlapInv, Elsewhere, Active
<1>7. MakerInv'
  BY <1>1, <1>2, <1>3 DEF MakerInv, Emitting, Alike
<1>8. MadeInv'
  <2>1. \A q \in Run : \A i \in DOMAIN run'[q].made : known[run'[q].made[i]].maker = q
    BY <1>1 DEF MadeInv, Maker, Elsewhere
  <2>2. stored \subseteq Created
    BY DEF TypeOK
  <2>. QED BY <1>1, <1>2, <1>3, <2>1, <2>2 DEF MadeInv, Maker
<1>9. IndexInv'
  BY <1>1, <1>2, <1>4 DEF IndexInv, Emitting, Elsewhere, Alike, Maker
<1>10. TwinInv'
  BY <1>1, <1>2, <1>3, <1>4 DEF TwinInv, Active, Alike, Maker, Excused
<1>. QED BY <1>5, <1>6, <1>7, <1>8, <1>9, <1>10

LEMMA ReadIndexLife ==
    ASSUME TypeOK, LifeInv, NEW r \in Run, ReadIndex(r)
    PROVE  LifeInv'
<1>. USE DEF LifeInv
<1>1. /\ TypeOK' /\ Elsewhere(r) /\ run[r].pc = "index"
      /\ missed \subseteq missed' /\ \A s \in stored : <<r, s>> \in missed' \/ \E t \in run'[r].index : Alike(s, t)
      /\ run'[r].pc = "emit" /\ run'[r].made = run[r].made /\ run'[r].conflicts = run[r].conflicts
  <2>1. PICK S \in SUBSET rows : run'[r] = [run[r] EXCEPT !.pc = "emit", !.index = S]
    BY ReadIndexEffect
  <2>2. run'[r].pc = "emit" /\ run'[r].made = run[r].made /\ run'[r].conflicts = run[r].conflicts
    BY <2>1, RunTyped DEF RunState
  <2>. QED BY <2>2, ReadIndexEffect
<1>4. UNCHANGED <<known, rows, facts, overlap, stored>>
  BY ReadIndexEffect
<1>2. Created' = Created /\ \A s \in Created : Maker(s)' = Maker(s) /\ Maker(s) \in Run
  BY <1>4, MakerTyped DEF Created, Maker
<1>3. \A s \in Created : Maker(s) # r /\ run'[Maker(s)] = run[Maker(s)]
  BY <1>1, <1>2 DEF MakerInv, Elsewhere
<1>5. ConflictInv'
  <2>1. ASSUME NEW f \in facts PROVE f[1] \in Run /\ f[1] # r
    BY <1>1 DEF ConflictInv, TypeOK, Fact
  <2>. QED BY <1>1, <1>4, <2>1 DEF ConflictInv, Elsewhere
<1>6. OverlapInv'
  BY <1>1, <1>4 DEF OverlapInv, Elsewhere, Active
<1>7. MakerInv'
  BY <1>1, <1>2, <1>3, <1>4 DEF MakerInv, Emitting, Alike
<1>8. MadeInv'
  <2>1. \A q \in Run : \A i \in DOMAIN run'[q].made : known[run'[q].made[i]].maker = q
    BY <1>1 DEF MadeInv, Maker, Elsewhere
  <2>2. stored \subseteq Created
    BY DEF TypeOK
  <2>. QED BY <1>1, <1>2, <1>3, <1>4, <2>1, <2>2 DEF MadeInv, Maker
<1>9. IndexInv'
  <2>1. ASSUME NEW s \in stored PROVE <<r, s>> \in missed' \/ \E t \in run'[r].index : known[s].summary = known[t].summary
    BY <1>1 DEF Alike
  <2>2. ASSUME NEW q \in Run, q # r, Emitting(q), NEW s \in stored
        PROVE  \/ <<Maker(s), q>> \in overlap \/ <<q, s>> \in missed'
               \/ \E t \in run'[q].index : known[s].summary = known[t].summary
    BY <1>1, <2>2 DEF IndexInv, Elsewhere, Alike
  <2>. QED BY <1>1, <1>2, <1>4, <2>1, <2>2 DEF IndexInv, Emitting, Elsewhere, Alike, Maker
<1>10. TwinInv'
  BY <1>1, <1>2, <1>3, <1>4 DEF TwinInv, Active, Alike, Maker, Excused
<1>. QED BY <1>5, <1>6, <1>7, <1>8, <1>9, <1>10

LEMMA FirstEmitLife ==
    ASSUME TypeOK, LifeInv, NEW r \in Run, TakePattern(r), NEW item \in Pattern, FirstEmit(r, item)
    PROVE  LifeInv'
<1>. USE DEF LifeInv
<1>1. PICK s : Makes(r, s)
  BY FirstEmitEffect
<1>2. /\ TypeOK' /\ Elsewhere(r) /\ UNCHANGED <<rows, facts, overlap, missed, stored>>
      /\ run[r].pc = "emit" /\ run'[r].pc = "emit" /\ run'[r].index = run[r].index \cup {s}
      /\ run'[r].conflicts = run[r].conflicts
  BY <1>1, FirstEmitEffect DEF Makes
<1>3. /\ Created' = Created \cup {s} /\ s \notin Created
      /\ \A t \in Created : known'[t] = known[t] /\ Maker(t)' = Maker(t) /\ Maker(t) \in Run
      /\ Maker(s)' = r
  BY <1>1, MakerTyped DEF Makes, Maker
<1>4. \A t \in run[r].index : t \in Created /\ known[t].summary # known'[s].summary
  BY <1>1, RunTyped DEF Makes
<1>5. /\ DOMAIN run'[r].made = DOMAIN run[r].made \cup {Len(run[r].made) + 1}
      /\ \A i \in DOMAIN run[r].made : run'[r].made[i] = run[r].made[i]
      /\ run'[r].made[Len(run[r].made) + 1] = s
  <2>1. run[r].made \in Seq(Created \cup {s})
    BY RunTyped, SeqMonotonic
  <2>2. run'[r].made = Append(run[r].made, s)
    BY <1>1 DEF Makes
  <2>. QED BY <2>1, <2>2
<1>6. rows \subseteq Created /\ stored \subseteq Created
  BY DEF TypeOK
<1>7. \A q \in Run : run'[q].pc = run[q].pc
  BY <1>2 DEF Elsewhere
<1>8. ConflictInv'
  <2>1. \A f \in facts : f[1] \in Run
    BY DEF TypeOK, Fact
  <2>. QED BY <1>2, <1>7, <2>1 DEF ConflictInv, Elsewhere
<1>9. OverlapInv'
  BY <1>2, <1>7 DEF OverlapInv, Active
<1>10. MakerInv'
  <2>1. ASSUME NEW t \in Created'
        PROVE  /\ run'[Maker(t)'].pc \notin {"new", "index"}
               /\ run'[Maker(t)'].pc \in {"emit", "scan"} => t \in run'[Maker(t)'].index
    <3>1. CASE t = s
      BY <1>2, <1>3, <3>1
    <3>2. CASE t \in Created /\ Maker(t) = r
      BY <1>2, <1>3, <3>2 DEF MakerInv, Emitting
    <3>3. CASE t \in Created /\ Maker(t) # r
      BY <1>2, <1>3, <3>3 DEF MakerInv, Emitting, Elsewhere
    <3>. QED BY <1>3, <3>1, <3>2, <3>3
  <2>2. ASSUME NEW t \in Created, Maker(t) = r PROVE known[t].summary # known'[s].summary
    BY <1>2, <1>4, <2>2 DEF MakerInv, Emitting
  <2>3. ASSUME NEW t \in Created', NEW u \in Created', Maker(t)' = Maker(u)', known'[t].summary = known'[u].summary
        PROVE  t = u
    BY <1>3, <2>2, <2>3 DEF MakerInv, Alike
  <2>. QED BY <2>1, <2>3 DEF MakerInv, Emitting, Alike
<1>11. MadeInv'
  <2>1. ASSUME NEW q \in Run, NEW i \in DOMAIN run'[q].made PROVE known'[run'[q].made[i]].maker = q
    <3>1. CASE q # r \/ i \in DOMAIN run[r].made
      <4>1. /\ run'[q].made[i] = run[q].made[i] /\ i \in DOMAIN run[q].made
        BY <1>2, <1>5, <3>1 DEF Elsewhere
      <4>2. run[q].made[i] \in Created
        <5>1. run[q].made \in Seq(Created)
          BY RunTyped
        <5>. QED BY <4>1, <5>1
      <4>. QED BY <1>3, <4>1, <4>2 DEF MadeInv, Maker
    <3>2. CASE q = r /\ i = Len(run[r].made) + 1
      BY <1>3, <1>5, <3>2 DEF Maker
    <3>. QED BY <1>5, <3>1, <3>2
  <2>2. ASSUME NEW t \in Created'
        PROVE  \/ t \in stored \/ run'[Maker(t)'].pc = "dead"
               \/ \E i \in DOMAIN run'[Maker(t)'].made : run'[Maker(t)'].made[i] = t
    <3>1. CASE t = s
      BY <1>3, <1>5, <3>1
    <3>2. CASE t \in Created /\ Maker(t) = r
      BY <1>2, <1>3, <1>5, <1>7, <3>2 DEF MadeInv
    <3>3. CASE t \in Created /\ Maker(t) # r
      BY <1>2, <1>3, <3>3 DEF MadeInv, Elsewhere
    <3>. QED BY <1>3, <3>1, <3>2, <3>3
  <2>3. ASSUME NEW t \in stored PROVE run'[Maker(t)'].pc \in {"schemas", "ended", "dead"}
    BY <1>3, <1>6, <1>7 DEF MadeInv
  <2>. QED BY <1>2, <2>1, <2>2, <2>3 DEF MadeInv, Maker
<1>12. IndexInv'
  <2>1. ASSUME NEW q \in Run, run'[q].pc \in {"emit", "scan"}, NEW t \in stored
        PROVE  \/ <<Maker(t), q>> \in overlap \/ <<q, t>> \in missed
               \/ \E u \in run'[q].index : known'[t].summary = known'[u].summary
    <3>1. CASE \E u \in run[q].index : Alike(t, u)
      <4>1. PICK u \in run[q].index : Alike(t, u)
        BY <3>1
      <4>2. u \in Created /\ u \in run'[q].index
        BY <1>2, <4>1, RunTyped DEF Elsewhere
      <4>. QED BY <1>3, <1>6, <4>1, <4>2 DEF Alike
    <3>. QED BY <1>7, <2>1, <3>1 DEF IndexInv, Emitting
  <2>. QED BY <1>2, <1>3, <1>6, <2>1 DEF IndexInv, Emitting, Alike
<1>13. TwinInv'
  <2>1. ASSUME NEW t \in stored, known'[s].summary = known[t].summary
        PROVE  <<r, Maker(t)>> \in overlap \/ <<r, t>> \in missed
    <3>1. <<Maker(t), r>> \in overlap \/ <<r, t>> \in missed
      BY <1>2, <1>4, <2>1 DEF IndexInv, Emitting, Alike
    <3>. QED BY <1>3, <1>6, <3>1 DEF OverlapInv
  <2>2. ASSUME NEW t \in Created', NEW u \in stored, t # u, known'[t].summary = known'[u].summary,
               t \in stored \/ run'[Maker(t)'].pc \notin {"new", "ended", "dead"}
        PROVE  \/ <<Maker(t)', Maker(u)'>> \in overlap
               \/ <<Maker(t)', u>> \in missed \/ <<Maker(u)', t>> \in missed
    <3>1. CASE t = s
      BY <1>3, <1>6, <2>1, <2>2, <3>1
    <3>2. CASE t \in Created
      BY <1>3, <1>6, <1>7, <2>2, <3>2 DEF TwinInv, Alike, Active, Excused
    <3>. QED BY <1>3, <3>1, <3>2
  <2>. QED BY <1>2, <2>2 DEF TwinInv, Alike, Active, Excused
<1>. QED BY <1>8, <1>9, <1>10, <1>11, <1>12, <1>13

LEMMA PersistSchemaLife ==
    ASSUME TypeOK, LifeInv, NEW r \in Run, PersistSchema(r)
    PROVE  LifeInv'
<1>. USE DEF LifeInv
<1>. DEFINE made == run[r].made
            s == made[1]
<1>1. /\ TypeOK' /\ Elsewhere(r) /\ UNCHANGED <<known, facts, overlap, missed>>
      /\ run[r].pc = "schemas" /\ run'[r].pc = "schemas" /\ run'[r].conflicts = run[r].conflicts
      /\ made # <<>> /\ made \in Seq(Created) /\ run'[r].made = Tail(made)
      /\ rows' = rows \cup {s} /\ stored' = stored \cup {s}
  BY PersistSchemaEffect
<1>2. /\ 1 \in DOMAIN made /\ s \in Created /\ Maker(s) = r
      /\ DOMAIN run'[r].made = 1 .. Len(made) - 1 /\ DOMAIN made = 1 .. Len(made) /\ Len(made) \in Nat
      /\ \A i \in 1 .. Len(made) - 1 : run'[r].made[i] = made[i + 1]
  <2>1. 1 \in DOMAIN made /\ s \in Created /\ DOMAIN made = 1 .. Len(made) /\ Len(made) \in Nat
    BY <1>1
  <2>2. Tail(made) \in Seq(Created) /\ Len(Tail(made)) = Len(made) - 1
        /\ \A i \in 1 .. Len(made) - 1 : Tail(made)[i] = made[i + 1]
    BY <1>1, HeadTailProperties
  <2>. QED BY <1>1, <2>1, <2>2 DEF MadeInv
<1>. HIDE DEF s, made
<1>3. Created' = Created /\ \A t \in Created : Maker(t)' = Maker(t) /\ Maker(t) \in Run
  BY <1>1, MakerTyped DEF Created, Maker
<1>4. \A q \in Run : run'[q].pc = run[q].pc
  BY <1>1 DEF Elsewhere
<1>5. ConflictInv'
  <2>1. \A f \in facts : f[1] \in Run
    BY DEF TypeOK, Fact
  <2>. QED BY <1>1, <1>4, <2>1 DEF ConflictInv, Elsewhere
<1>6. OverlapInv'
  BY <1>1, <1>4 DEF OverlapInv, Active
<1>7. MakerInv'
  BY <1>1, <1>3, <1>4 DEF MakerInv, Emitting, Elsewhere, Alike
<1>8. MadeInv'
  <2>1. ASSUME NEW q \in Run, NEW i \in DOMAIN run'[q].made PROVE known[run'[q].made[i]].maker = q
    <3>1. CASE q # r
      BY <1>1, <3>1 DEF MadeInv, Maker, Elsewhere
    <3>2. CASE q = r
      <4>1. i + 1 \in DOMAIN made /\ run'[r].made[i] = made[i + 1]
        BY <1>2, <3>2
      <4>. QED BY <3>2, <4>1 DEF MadeInv, Maker, made
    <3>. QED BY <3>1, <3>2
  <2>2. ASSUME NEW t \in Created
        PROVE  \/ t \in stored' \/ run'[Maker(t)].pc = "dead"
               \/ \E i \in DOMAIN run'[Maker(t)].made : run'[Maker(t)].made[i] = t
    <3>1. CASE Maker(t) # r
      BY <1>1, <1>3, <3>1 DEF MadeInv, Elsewhere
    <3>2. CASE Maker(t) = r
      <4>1. CASE t \in stored \/ run[r].pc = "dead"
        BY <1>1, <3>2, <4>1
      <4>2. CASE \E i \in DOMAIN made : made[i] = t
        <5>1. PICK i \in DOMAIN made : made[i] = t
          BY <4>2
        <5>2. CASE i = 1
          BY <1>1, <5>1, <5>2 DEF s
        <5>3. CASE i # 1
          <6>1. i - 1 \in 1 .. Len(made) - 1 /\ (i - 1) + 1 = i
            BY <1>2, <5>3
          <6>2. run'[r].made[i - 1] = t
            BY <1>2, <5>1, <6>1
          <6>. QED BY <1>2, <3>2, <6>1, <6>2
        <5>. QED BY <5>2, <5>3
      <4>. QED BY <3>2, <4>1, <4>2 DEF MadeInv, made
    <3>. QED BY <3>1, <3>2
  <2>3. ASSUME NEW t \in stored' PROVE run'[Maker(t)].pc \in {"schemas", "ended", "dead"}
    <3>1. t \in Created
      BY <1>1, <1>2 DEF TypeOK
    <3>2. CASE t \in stored
      BY <1>3, <1>4, <3>1, <3>2 DEF MadeInv
    <3>3. CASE t = s
      BY <1>1, <1>2, <3>3
    <3>. QED BY <1>1, <3>2, <3>3
  <2>4. stored' \subseteq Created
    BY <1>1, <1>2 DEF TypeOK
  <2>. QED BY <1>1, <1>3, <2>1, <2>2, <2>3, <2>4 DEF MadeInv, Maker
<1>9. IndexInv'
  <2>1. ASSUME NEW q \in Run, run'[q].pc \in {"emit", "scan"}, NEW t \in stored'
        PROVE  \/ <<Maker(t), q>> \in overlap \/ <<q, t>> \in missed
               \/ \E u \in run'[q].index : known[t].summary = known[u].summary
    <3>1. q # r /\ run'[q] = run[q]
      BY <1>1, <2>1 DEF Elsewhere
    <3>2. CASE t \in stored
      BY <2>1, <3>1, <3>2 DEF IndexInv, Emitting, Alike
    <3>3. CASE t = s
      <4>1. <<r, q>> \in overlap
        BY <1>1, <2>1, <3>1 DEF OverlapInv, Active
      <4>. QED BY <1>2, <3>3, <4>1
    <3>. QED BY <1>1, <3>2, <3>3
  <2>2. stored' \subseteq Created
    BY <1>1, <1>2 DEF TypeOK
  <2>. QED BY <1>1, <1>3, <2>1, <2>2 DEF IndexInv, Emitting, Alike, Maker
<1>10. TwinInv'
  <2>1. ASSUME NEW t \in Created, NEW u \in stored', t # u, Alike(t, u), t \in stored' \/ Active(Maker(t))
        PROVE  Excused(t, u)
    <3>1. stored \subseteq Created
      BY DEF TypeOK
    <3>2. CASE u \in stored /\ (t \in stored \/ Active(Maker(t)))
      BY <2>1, <3>2 DEF TwinInv
    <3>3. CASE u \in stored /\ t = s
      <4>1. Active(Maker(t))
        BY <1>1, <1>2, <3>3 DEF Active
      <4>. QED BY <2>1, <3>3, <4>1 DEF TwinInv
    <3>4. CASE u = s /\ t \in stored
      <4>1. Active(Maker(u)) /\ Alike(u, t) /\ u \in Created
        BY <1>1, <1>2, <2>1, <3>4 DEF Active, Alike
      <4>2. Excused(u, t)
        BY <2>1, <3>4, <4>1 DEF TwinInv
      <4>. QED BY <1>3, <4>1, <4>2 DEF OverlapInv, Excused
    <3>5. CASE u = s /\ Active(Maker(t))
      <4>1. Active(Maker(u)) /\ u \in Created
        BY <1>1, <1>2, <3>5 DEF Active
      <4>2. Maker(t) # Maker(u)
        BY <2>1, <4>1 DEF MakerInv
      <4>. QED BY <1>3, <3>5, <4>1, <4>2 DEF OverlapInv, Excused
    <3>. QED BY <1>1, <2>1, <3>2, <3>3, <3>4, <3>5
  <2>2. stored' \subseteq Created
    BY <1>1, <1>2 DEF TypeOK
  <2>. QED BY <1>1, <1>3, <1>4, <2>1, <2>2 DEF TwinInv, Active, Alike, Maker, Excused
<1>. QED BY <1>5, <1>6, <1>7, <1>8, <1>9, <1>10

-----------------------------------------------------------------------------
(***************************************************************************)
(* What is in the log, and what is about to be                             *)
(***************************************************************************)
LogInv == QueueInv /\ BornInv /\ PromotedInv

\* A run goes on without appending: it keeps its queue, or loses it by dying.
QueueKept(q) ==
    /\ \/ run'[q].queue = run[q].queue
       \/ run'[q].pc = "dead" /\ run'[q].queue = <<>>
    /\ run'[q].queue # <<>> => run'[q].pc = "emit"
    /\ run'[q].pc \in {"emit", "scan"} => Emitting(q) \/ run[q].pc = "index"
    /\ run[q].pc = "dead" => run'[q].pc = "dead"

LEMMA LogQuiet ==
    ASSUME TypeOK, LifeInv, LogInv, \A q \in Run : QueueKept(q), UNCHANGED <<log, known, unborn, undecided>>,
           \A s \in stored' \ stored : s \in Created /\ run[Maker(s)].pc \notin {"dead", "emit"}
    PROVE  LogInv'
<1>. USE DEF LogInv, LifeInv
<1>1. Created' = Created /\ \A s \in Created : Maker(s)' = Maker(s) /\ Maker(s) \in Run
  BY MakerTyped DEF Created, Maker
<1>2. undecided \subseteq Created
  BY DEF TypeOK
<1>3. ASSUME NEW q \in Run, NEW s, run'[q].queue = run[q].queue, Birth(q, s)
      PROVE  Birth(q, s)'
  BY <1>3 DEF Birth, Logged, Emitted
<1>4. QueueInv'
  <2>1. ASSUME NEW q \in Run PROVE Again(q)' \/ \E s \in undecided' : Maker(s)' = q /\ Birth(q, s)'
    <3>1. CASE run'[q].queue = run[q].queue
      <4>1. CASE Again(q)
        BY <1>1, <3>1, <4>1 DEF Again
      <4>2. CASE \E s \in undecided : Maker(s) = q /\ Birth(q, s)
        BY <1>1, <1>2, <1>3, <3>1, <4>2
      <4>. QED BY <4>1, <4>2 DEF QueueInv
    <3>2. CASE run'[q].queue = <<>>
      BY <3>2 DEF Again
    <3>. QED BY <3>1, <3>2 DEF QueueKept
  <2>2. ASSUME NEW s \in undecided', Emitting(Maker(s))' PROVE Birth(Maker(s), s)'
    <3>1. s \in Created /\ Maker(s)' = Maker(s) /\ Maker(s) \in Run
      BY <1>1, <1>2
    <3>2. Emitting(Maker(s)) /\ run'[Maker(s)].queue = run[Maker(s)].queue
      BY <2>2, <3>1 DEF QueueKept, Emitting, MakerInv
    <3>3. Birth(Maker(s), s)
      BY <3>2 DEF QueueInv
    <3>. QED BY <1>3, <3>1, <3>2, <3>3 DEF Birth
  <2>. QED BY <2>1, <2>2 DEF QueueInv, QueueKept
<1>5. BornInv'
  <2>1. ASSUME NEW s \in Created, ~ (s \in unborn \/ Logged(s, "create"))
        PROVE  /\ s \in undecided \ stored'
               /\ \/ run'[Maker(s)].pc = "dead"
                  \/ run'[Maker(s)].queue # <<>> /\ run'[Maker(s)].queue[1] = Emitted(Maker(s), s, "create")
    <3>1. /\ s \in undecided \ stored
          /\ \/ run[Maker(s)].pc = "dead"
             \/ run[Maker(s)].queue # <<>> /\ run[Maker(s)].queue[1] = Emitted(Maker(s), s, "create")
      BY <2>1 DEF BornInv
    <3>2. run[Maker(s)].pc \in {"dead", "emit"}
      BY <1>1, <3>1 DEF QueueInv
    <3>. QED BY <1>1, <3>1, <3>2 DEF QueueKept
  <2>. QED BY <1>1, <2>1 DEF BornInv, Logged, Emitted
<1>6. PromotedInv'
  BY <1>1 DEF PromotedInv
<1>. QED BY <1>4, <1>5, <1>6

\* A run that goes on with what it recognised has nothing undecided.
LEMMA LogRecognised ==
    ASSUME TypeOK, LifeInv, LogInv, NEW r \in Run, Elsewhere(r), Context(r),
           run[r].pc \in {"emit", "scan"}, run[r].queue = <<>>,
           \/ run'[r].pc = "scan" /\ run'[r].queue = <<>>
           \/ run'[r].pc = "emit" /\ Recognised(r, run'[r].queue)
    PROVE  LogInv'
<1>. USE DEF LogInv, LifeInv
<1>1. Created' = Created /\ \A s \in Created : Maker(s)' = Maker(s) /\ Maker(s) \in Run
  BY MakerTyped DEF Created, Maker, Context
<1>2. undecided \subseteq Created /\ UNCHANGED <<log, known, unborn, undecided, stored>>
  BY DEF TypeOK, Context
<1>3. ASSUME NEW q \in Run, q # r PROVE run'[q] = run[q]
  BY <1>3 DEF Elsewhere
<1>4. ASSUME NEW s \in undecided PROVE Maker(s) # r
  <2>1. SUFFICES ASSUME Birth(r, s) PROVE FALSE
    BY DEF QueueInv, Emitting
  <2>. QED BY <2>1 DEF Birth
<1>5. Again(r)'
  <2>1. CASE run'[r].queue = <<>>
    BY <2>1 DEF Again
  <2>2. CASE Recognised(r, run'[r].queue)
    <3>1. PICK s \in run[r].index : \A i \in DOMAIN run'[r].queue :
              run'[r].queue[i].kind \in {"recover", "bump_version"} /\ run'[r].queue[i].schema = s
      BY <2>2 DEF Recognised
    <3>2. s \in Created
      BY RunTyped
    <3>. QED BY <1>1, <1>2, <1>4, <3>1, <3>2 DEF Again
  <2>. QED BY <2>1, <2>2
<1>6. ASSUME NEW q \in Run, NEW s, q # r, Birth(q, s) PROVE Birth(q, s)'
  BY <1>2, <1>3, <1>6 DEF Birth, Logged, Emitted
<1>7. QueueInv'
  <2>1. ASSUME NEW q \in Run PROVE /\ run'[q].queue # <<>> => run'[q].pc = "emit"
                                   /\ Again(q)' \/ \E s \in undecided' : Maker(s)' = q /\ Birth(q, s)'
    <3>1. CASE q = r
      BY <1>5, <3>1
    <3>2. CASE q # r
      <4>1. CASE Again(q)
        BY <1>1, <1>2, <1>3, <3>2, <4>1 DEF Again, QueueInv
      <4>2. CASE \E s \in undecided : Maker(s) = q /\ Birth(q, s)
        BY <1>1, <1>2, <1>3, <1>6, <3>2, <4>2 DEF QueueInv
      <4>. QED BY <4>1, <4>2 DEF QueueInv
    <3>. QED BY <3>1, <3>2
  <2>2. ASSUME NEW s \in undecided, Emitting(Maker(s))' PROVE Birth(Maker(s), s)'
    <3>1. s \in Created /\ Maker(s)' = Maker(s) /\ Maker(s) \in Run /\ Maker(s) # r
      BY <1>1, <1>2, <1>4
    <3>2. Emitting(Maker(s))
      BY <1>3, <2>2, <3>1 DEF Emitting
    <3>3. Birth(Maker(s), s)
      BY <3>2 DEF QueueInv
    <3>. QED BY <1>6, <3>1, <3>3 DEF Birth
  <2>. QED BY <1>2, <2>1, <2>2 DEF QueueInv
<1>8. BornInv'
  <2>1. ASSUME NEW s \in Created, ~ (s \in unborn \/ Logged(s, "create"))
        PROVE  /\ s \in undecided \ stored
               /\ \/ run'[Maker(s)].pc = "dead"
                  \/ run'[Maker(s)].queue # <<>> /\ run'[Maker(s)].queue[1] = Emitted(Maker(s), s, "create")
    BY <1>1, <1>3, <1>4, <2>1 DEF BornInv
  <2>. QED BY <1>1, <1>2, <2>1 DEF BornInv, Logged, Emitted
<1>9. PromotedInv'
  BY <1>1, <1>2 DEF PromotedInv
<1>. QED BY <1>7, <1>8, <1>9

LEMMA FirstEmitLog ==
    ASSUME TypeOK, LifeInv, LogInv, NEW r \in Run, TakePattern(r), NEW item \in Pattern, FirstEmit(r, item)
    PROVE  LogInv'
<1>. USE DEF LogInv, LifeInv
<1>1. PICK s : Makes(r, s)
  BY FirstEmitEffect
<1>2. /\ Elsewhere(r) /\ UNCHANGED <<log, unborn, stored>>
      /\ run[r].pc = "emit" /\ run[r].queue = <<>> /\ run'[r].pc = "emit"
      /\ undecided' = undecided \cup {s}
  BY <1>1, FirstEmitEffect DEF Makes
<1>3. /\ Created' = Created \cup {s} /\ s \notin Created
      /\ \A t \in Created : known'[t] = known[t] /\ Maker(t)' = Maker(t) /\ Maker(t) \in Run
      /\ Maker(s)' = r /\ known'[s].supports \in Nat
  BY <1>1, MakerTyped DEF Makes, Maker
<1>4. undecided \subseteq Created /\ unborn \subseteq Created /\ stored \subseteq Created
  BY DEF TypeOK
<1>5. \A i \in DOMAIN log : log[i].schema \in Created
  BY DEF PromotedInv
<1>6. ASSUME NEW t \in undecided PROVE Maker(t) # r
  <2>1. SUFFICES ASSUME Birth(r, t) PROVE FALSE
    BY <1>2 DEF QueueInv, Emitting
  <2>. QED BY <1>2, <2>1 DEF Birth
<1>7. ASSUME NEW q \in Run, q # r PROVE run'[q] = run[q]
  BY <1>2, <1>7 DEF Elsewhere
<1>8. ASSUME NEW q \in Run, NEW t \in undecided, q # r, Birth(q, t) PROVE Birth(q, t)'
  BY <1>2, <1>3, <1>4, <1>7, <1>8 DEF Birth, Logged, Emitted
<1>. DEFINE create == Emitted(r, s, "create")
            promote == Emitted(r, s, "promote")
<1>9. Birth(r, s)' /\ run'[r].queue # <<>> /\ run'[r].queue[1] = create
  <2>1. ~ Logged(s, "promote")'
    BY <1>2, <1>3, <1>5 DEF Logged
  <2>2. run'[r].queue = IF known'[s].supports >= PromoteAt THEN <<create, promote>> ELSE <<create>>
    BY <1>1 DEF Makes
  <2>3. Emitted(r, s, "create")' = create /\ Emitted(r, s, "promote")' = promote
    BY DEF Emitted
  <2>. HIDE DEF create, promote
  <2>4. CASE known'[s].supports >= PromoteAt
    BY <2>1, <2>2, <2>3, <2>4 DEF Birth
  <2>5. CASE ~ (known'[s].supports >= PromoteAt)
    <3>1. known'[s].supports < PromoteAt
      BY <1>3, <2>5, Constants
    <3>. QED BY <2>2, <2>3, <2>5, <3>1 DEF Birth
  <2>. QED BY <2>4, <2>5
<1>10. QueueInv'
  <2>1. ASSUME NEW q \in Run PROVE /\ run'[q].queue # <<>> => run'[q].pc = "emit"
                                   /\ Again(q)' \/ \E t \in undecided' : Maker(t)' = q /\ Birth(q, t)'
    <3>1. CASE q = r
      BY <1>2, <1>3, <1>9, <3>1
    <3>2. CASE q # r
      <4>1. CASE Again(q)
        <5>1. \A i \in DOMAIN run[q].queue : run[q].queue[i].schema \in Created
          BY <4>1 DEF Again
        <5>. QED BY <1>2, <1>3, <1>7, <3>2, <4>1, <5>1 DEF Again, QueueInv
      <4>2. CASE \E t \in undecided : Maker(t) = q /\ Birth(q, t)
        BY <1>2, <1>3, <1>4, <1>7, <1>8, <3>2, <4>2 DEF QueueInv
      <4>. QED BY <4>1, <4>2 DEF QueueInv
    <3>. QED BY <3>1, <3>2
  <2>2. ASSUME NEW t \in undecided', Emitting(Maker(t))' PROVE Birth(Maker(t), t)'
    <3>1. CASE t = s
      BY <1>3, <1>9, <3>1 DEF Birth
    <3>2. CASE t \in undecided
      <4>1. t \in Created /\ Maker(t)' = Maker(t) /\ Maker(t) \in Run /\ Maker(t) # r
        BY <1>3, <1>4, <1>6, <3>2
      <4>2. Emitting(Maker(t))
        BY <1>7, <2>2, <4>1 DEF Emitting
      <4>3. Birth(Maker(t), t)
        BY <3>2, <4>2 DEF QueueInv
      <4>. QED BY <1>8, <3>2, <4>1, <4>3 DEF Birth
    <3>. QED BY <1>2, <3>1, <3>2
  <2>. QED BY <2>1, <2>2 DEF QueueInv
<1>11. BornInv'
  <2>1. ASSUME NEW t \in Created', ~ (t \in unborn \/ Logged(t, "create"))
        PROVE  /\ t \in undecided' \ stored
               /\ \/ run'[Maker(t)'].pc = "dead"
                  \/ run'[Maker(t)'].queue # <<>> /\ run'[Maker(t)'].queue[1] = Emitted(Maker(t)', t, "create")
    <3>1. CASE t = s
      BY <1>2, <1>3, <1>4, <1>9, <3>1
    <3>2. CASE t \in Created
      BY <1>2, <1>3, <1>6, <1>7, <2>1, <3>2 DEF BornInv
    <3>. QED BY <1>3, <3>1, <3>2
  <2>. QED BY <1>2, <2>1 DEF BornInv, Logged, Emitted
<1>12. PromotedInv'
  BY <1>2, <1>3, <1>5 DEF PromotedInv
<1>. QED BY <1>10, <1>11, <1>12

LEMMA EmitFailsLog ==
    ASSUME TypeOK, LifeInv, LogInv, NEW r \in Run, EmitFails(r)
    PROVE  LogInv'
<1>. USE DEF LogInv, LifeInv
<1>1. /\ Elsewhere(r) /\ UNCHANGED <<log, known, undecided, stored>>
      /\ run'[r].pc = "facts" /\ run'[r].queue = <<>>
      /\ unborn' = IF run[r].queue # <<>> /\ run[r].queue[1].kind = "create"
                   THEN unborn \cup {run[r].queue[1].schema} ELSE unborn
  BY EmitFailsEffect DEF Plain
<1>2. Created' = Created /\ \A s \in Created : Maker(s)' = Maker(s) /\ Maker(s) \in Run
  BY <1>1, MakerTyped DEF Created, Maker
<1>3. undecided \subseteq Created /\ unborn \subseteq unborn'
  BY <1>1 DEF TypeOK
<1>4. ASSUME NEW q \in Run, q # r PROVE run'[q] = run[q]
  BY <1>1, <1>4 DEF Elsewhere
<1>5. ASSUME NEW q \in Run, NEW s, q # r, Birth(q, s) PROVE Birth(q, s)'
  BY <1>1, <1>3, <1>4, <1>5 DEF Birth, Logged, Emitted
<1>6. QueueInv'
  <2>1. ASSUME NEW q \in Run PROVE /\ run'[q].queue # <<>> => run'[q].pc = "emit"
                                   /\ Again(q)' \/ \E s \in undecided' : Maker(s)' = q /\ Birth(q, s)'
    <3>1. CASE q = r
      BY <1>1, <3>1 DEF Again
    <3>2. CASE q # r
      <4>1. CASE Again(q)
        BY <1>1, <1>2, <1>4, <3>2, <4>1 DEF Again, QueueInv
      <4>2. CASE \E s \in undecided : Maker(s) = q /\ Birth(q, s)
        BY <1>1, <1>2, <1>3, <1>4, <1>5, <3>2, <4>2 DEF QueueInv
      <4>. QED BY <4>1, <4>2 DEF QueueInv
    <3>. QED BY <3>1, <3>2
  <2>2. ASSUME NEW s \in undecided, Emitting(Maker(s))' PROVE Birth(Maker(s), s)'
    <3>1. s \in Created /\ Maker(s)' = Maker(s) /\ Maker(s) \in Run
      BY <1>2, <1>3
    <3>2. Maker(s) # r /\ Emitting(Maker(s))
      BY <1>1, <1>4, <2>2, <3>1 DEF Emitting
    <3>3. Birth(Maker(s), s)
      BY <3>2 DEF QueueInv
    <3>. QED BY <1>5, <3>1, <3>2, <3>3 DEF Birth
  <2>. QED BY <1>1, <2>1, <2>2 DEF QueueInv
<1>7. BornInv'
  <2>1. ASSUME NEW s \in Created, ~ (s \in unborn' \/ Logged(s, "create"))
        PROVE  /\ s \in undecided \ stored
               /\ \/ run'[Maker(s)].pc = "dead"
                  \/ run'[Maker(s)].queue # <<>> /\ run'[Maker(s)].queue[1] = Emitted(Maker(s), s, "create")
    <3>1. /\ s \in undecided \ stored
          /\ \/ run[Maker(s)].pc = "dead"
             \/ run[Maker(s)].queue # <<>> /\ run[Maker(s)].queue[1] = Emitted(Maker(s), s, "create")
      BY <1>3, <2>1 DEF BornInv
    <3>2. CASE Maker(s) = r
      <4>1. run[r].pc # "dead"
        BY EmitFailsEffect
      <4>2. run[r].queue # <<>> /\ run[r].queue[1].kind = "create" /\ run[r].queue[1].schema = s
        BY <3>1, <3>2, <4>1 DEF Emitted
      <4>. QED BY <1>1, <2>1, <4>2
    <3>3. CASE Maker(s) # r
      BY <1>2, <1>4, <3>1, <3>3
    <3>. QED BY <3>2, <3>3
  <2>. QED BY <1>1, <1>2, <2>1 DEF BornInv, Logged, Emitted
<1>8. PromotedInv'
  BY <1>1, <1>2, <1>3 DEF PromotedInv
<1>. QED BY <1>6, <1>7, <1>8

\* The log after an append.
LEMMA Appended ==
    ASSUME log \in Seq(Event), NEW ev \in Event, log' = Append(log, ev)
    PROVE  /\ Len(log) \in Nat /\ DOMAIN log = 1 .. Len(log) /\ DOMAIN log' = 1 .. Len(log) + 1
           /\ log'[Len(log) + 1] = ev /\ \A i \in DOMAIN log : log'[i] = log[i]
           /\ \A s, kind : Logged(s, kind)' <=> Logged(s, kind) \/ (ev.schema = s /\ ev.kind = kind)
<1>1. /\ Len(log) \in Nat /\ DOMAIN log = 1 .. Len(log)
      /\ log' \in Seq(Event) /\ Len(log') = Len(log) + 1 /\ DOMAIN log' = 1 .. Len(log')
      /\ \A i \in 1 .. Len(log) : log'[i] = log[i]
      /\ log'[Len(log) + 1] = ev
  BY AppendProperties, LenProperties
<1>2. ASSUME NEW s, NEW kind PROVE Logged(s, kind)' <=> Logged(s, kind) \/ (ev.schema = s /\ ev.kind = kind)
  <2>1. \A i \in DOMAIN log' : i \in DOMAIN log \/ i = Len(log) + 1
    BY <1>1
  <2>2. Len(log) + 1 \in DOMAIN log' /\ \A i \in DOMAIN log : i \in DOMAIN log'
    BY <1>1
  <2>3. ASSUME Logged(s, kind)' PROVE Logged(s, kind) \/ (ev.schema = s /\ ev.kind = kind)
    BY <1>1, <2>1, <2>3 DEF Logged
  <2>4. ASSUME Logged(s, kind) PROVE Logged(s, kind)'
    BY <1>1, <2>2, <2>4 DEF Logged
  <2>5. ASSUME ev.schema = s /\ ev.kind = kind PROVE Logged(s, kind)'
    BY <1>1, <2>2, <2>5 DEF Logged
  <2>. QED BY <2>3, <2>4, <2>5
<1>. QED BY <1>1, <1>2

\* An append that says nothing of births, by a run or by another tool.
LEMMA LogMore ==
    ASSUME TypeOK, LifeInv, LogInv, NEW ev \in Event, log' = Append(log, ev),
           ev.kind \notin {"create", "promote"}, ev.schema \in Created,
           UNCHANGED <<known, unborn, undecided, stored>>,
           \A q \in Run : /\ run'[q].pc = run[q].pc
                          /\ \/ run'[q].queue = run[q].queue
                             \/ Again(q) /\ run[q].queue # <<>> /\ run'[q].queue = Tail(run[q].queue)
    PROVE  LogInv'
<1>. USE DEF LogInv, LifeInv
<1>1. Created' = Created /\ \A s \in Created : Maker(s)' = Maker(s) /\ Maker(s) \in Run
  BY MakerTyped DEF Created, Maker
<1>2. undecided \subseteq Created /\ log \in Seq(Event)
  BY DEF TypeOK, Event
<1>3. /\ Len(log) \in Nat /\ DOMAIN log = 1 .. Len(log) /\ DOMAIN log' = 1 .. Len(log) + 1
      /\ log'[Len(log) + 1] = ev /\ \A i \in DOMAIN log : log'[i] = log[i]
      /\ \A s, kind : Logged(s, kind)' <=> Logged(s, kind) \/ (ev.schema = s /\ ev.kind = kind)
  BY <1>2, Appended
<1>4. \A i \in DOMAIN log' : i \in DOMAIN log \/ log'[i] = ev
  BY <1>3
<1>5. \A i \in DOMAIN log : i \in DOMAIN log'
  BY <1>3
<1>6. \A s : (Logged(s, "create")' <=> Logged(s, "create")) /\ (Logged(s, "promote")' <=> Logged(s, "promote"))
  BY <1>3
<1>7. ASSUME NEW q \in Run, Again(q), run[q].queue # <<>>
      PROVE  run[q].queue[1].kind \notin {"create", "promote"}
  <2>1. 1 \in DOMAIN run[q].queue
    BY <1>7, RunTyped
  <2>. QED BY <1>7, <2>1 DEF Again
<1>8. ASSUME NEW q \in Run, NEW s, Birth(q, s) PROVE run'[q].queue = run[q].queue
  <2>1. SUFFICES ASSUME Again(q), run[q].queue # <<>> PROVE FALSE
    OBVIOUS
  <2>2. run[q].queue[1].kind \in {"create", "promote"}
    BY <1>8 DEF Birth, Emitted
  <2>. QED BY <1>7, <2>1, <2>2
<1>9. ASSUME NEW q \in Run, NEW s, Birth(q, s) PROVE Birth(q, s)'
  BY <1>6, <1>8, <1>9 DEF Birth, Emitted
<1>10. QueueInv'
  <2>1. ASSUME NEW q \in Run PROVE Again(q)' \/ \E s \in undecided' : Maker(s)' = q /\ Birth(q, s)'
    <3>1. CASE \E s \in undecided : Maker(s) = q /\ Birth(q, s)
      BY <1>1, <1>2, <1>9, <3>1
    <3>2. CASE Again(q) /\ run'[q].queue = run[q].queue
      BY <1>1, <3>2 DEF Again
    <3>3. CASE Again(q) /\ run[q].queue # <<>> /\ run'[q].queue = Tail(run[q].queue)
      <4>1. \A i \in DOMAIN run'[q].queue : i + 1 \in DOMAIN run[q].queue /\ run'[q].queue[i] = run[q].queue[i + 1]
        BY <3>3, RunTyped, HeadTailProperties
      <4>. QED BY <1>1, <3>3, <4>1 DEF Again
    <3>. QED BY <3>1, <3>2, <3>3 DEF QueueInv
  <2>2. ASSUME NEW q \in Run, run'[q].queue # <<>> PROVE run'[q].pc = "emit"
    <3>1. run[q].queue # <<>>
      BY <2>2
    <3>. QED BY <3>1 DEF QueueInv
  <2>3. ASSUME NEW s \in undecided, Emitting(Maker(s))' PROVE Birth(Maker(s), s)'
    <3>1. s \in Created /\ Maker(s)' = Maker(s) /\ Maker(s) \in Run
      BY <1>1, <1>2
    <3>2. Birth(Maker(s), s)
      BY <2>3, <3>1 DEF QueueInv, Emitting
    <3>. QED BY <1>9, <3>1, <3>2 DEF Birth
  <2>. QED BY <2>1, <2>2, <2>3 DEF QueueInv
<1>11. BornInv'
  <2>1. ASSUME NEW s \in Created, ~ (s \in unborn \/ Logged(s, "create"))
        PROVE  /\ s \in undecided \ stored
               /\ \/ run'[Maker(s)].pc = "dead"
                  \/ run'[Maker(s)].queue # <<>> /\ run'[Maker(s)].queue[1] = Emitted(Maker(s), s, "create")
    <3>1. /\ s \in undecided \ stored
          /\ \/ run[Maker(s)].pc = "dead"
             \/ run[Maker(s)].queue # <<>> /\ run[Maker(s)].queue[1] = Emitted(Maker(s), s, "create")
      BY <2>1 DEF BornInv
    <3>2. CASE run[Maker(s)].pc = "dead"
      BY <1>1, <3>1, <3>2
    <3>3. CASE run[Maker(s)].pc # "dead"
      <4>1. run[Maker(s)].queue # <<>> /\ run[Maker(s)].queue[1].kind = "create"
        BY <3>1, <3>3 DEF Emitted
      <4>2. run'[Maker(s)].queue = run[Maker(s)].queue
        BY <1>1, <1>7, <4>1
      <4>. QED BY <3>1, <3>3, <4>2
    <3>. QED BY <3>2, <3>3
  <2>. QED BY <1>1, <1>6, <2>1 DEF BornInv, Emitted
<1>12. PromotedInv'
  <2>1. \A i \in DOMAIN log' : log'[i].schema \in Created
    BY <1>3, <1>4 DEF PromotedInv
  <2>2. \A i \in DOMAIN log' : log'[i].kind = "promote" => i \in DOMAIN log /\ log'[i] = log[i]
    BY <1>3, <1>4
  <2>3. \A s \in Created \ (undecided \cup unborn) : known[s].supports >= PromoteAt =>
          \E i, j \in DOMAIN log' : /\ i < j /\ log'[i].schema = s /\ log'[j].schema = s
                                    /\ log'[i].kind = "create" /\ log'[j].kind = "promote"
    BY <1>3, <1>5 DEF PromotedInv
  <2>. QED BY <1>1, <2>1, <2>2, <2>3 DEF PromotedInv
<1>. QED BY <1>10, <1>11, <1>12

\* The next of the first events of a schema is appended.
LEMMA LogBorn ==
    ASSUME TypeOK, LifeInv, LogInv, NEW r \in Run, Emit(r), NEW s \in undecided, Maker(s) = r, Birth(r, s)
    PROVE  LogInv'
<1>. USE DEF LogInv, LifeInv
<1>. DEFINE queue == run[r].queue
            ev == queue[1]
<1>1. /\ Elsewhere(r) /\ UNCHANGED <<known, unborn, stored>> /\ run[r].pc = "emit" /\ run'[r].pc = "emit"
      /\ queue # <<>> /\ queue \in Seq(Event) /\ ev \in Event /\ log' = Append(log, ev)
      /\ run'[r].queue = Tail(queue)
      /\ undecided' = IF Len(queue) = 1 /\ Maker(ev.schema) = r THEN undecided \ {ev.schema} ELSE undecided
  BY EmitEffect
<1>2. Created' = Created /\ \A t \in Created : Maker(t)' = Maker(t) /\ Maker(t) \in Run /\ known[t].supports \in Nat
  BY <1>1, MakerTyped DEF Created, Maker
<1>3. undecided \subseteq Created /\ s \in Created /\ log \in Seq(Event) /\ PromoteAt \in Nat
  BY Constants DEF TypeOK, Event
<1>4. \A q, t, kind : /\ Emitted(q, t, kind)' = Emitted(q, t, kind) /\ Emitted(q, t, kind).schema = t
                      /\ Emitted(q, t, kind).kind = kind
  BY DEF Emitted
<1>. DEFINE create == Emitted(r, s, "create")
            promote == Emitted(r, s, "promote")
<1>5. \/ /\ queue = <<create>> /\ known[s].supports < PromoteAt
      \/ /\ known[s].supports >= PromoteAt /\ ~ Logged(s, "promote")
         /\ \/ queue = <<create, promote>>
            \/ queue = <<promote>> /\ (s \in unborn \/ Logged(s, "create"))
  BY DEF Birth
<1>6. ev \in {create, promote} /\ ev.schema = s
  <2>1. ev = create \/ ev = promote
    <3>. HIDE DEF create, promote
    <3>. QED BY <1>5
  <2>. QED BY <2>1, <1>4
<1>7. /\ Len(log) \in Nat /\ DOMAIN log = 1 .. Len(log) /\ DOMAIN log' = 1 .. Len(log) + 1
      /\ log'[Len(log) + 1] = ev /\ \A i \in DOMAIN log : log'[i] = log[i]
      /\ \A t, kind : Logged(t, kind)' <=> Logged(t, kind) \/ (s = t /\ ev.kind = kind)
  BY <1>1, <1>3, <1>6, Appended
<1>8. ASSUME NEW q \in Run, q # r PROVE run'[q] = run[q]
  BY <1>1, <1>8 DEF Elsewhere
<1>9. ASSUME NEW t \in undecided, Maker(t) = r PROVE t = s
  <2>1. Birth(r, t)
    BY <1>1, <1>9 DEF QueueInv, Emitting
  <2>2. ev.schema = t
    BY <2>1, <1>4 DEF Birth
  <2>. QED BY <2>2, <1>6
\* What is appended decides s, or leaves its promotion.
<1>10. \/ /\ undecided' = undecided \ {s} /\ run'[r].queue = <<>>
          /\ (s \in unborn \/ Logged(s, "create")')
          /\ \/ ev = create /\ known[s].supports < PromoteAt
             \/ ev = promote /\ known[s].supports >= PromoteAt /\ ~ Logged(s, "promote")
                /\ (s \in unborn \/ Logged(s, "create"))
       \/ /\ undecided' = undecided /\ run'[r].queue = <<promote>> /\ ev = create
          /\ known[s].supports >= PromoteAt /\ ~ Logged(s, "promote") /\ Logged(s, "create")'
  <2>1. create.kind = "create" /\ promote.kind = "promote"
    BY <1>4
  <2>. HIDE DEF create, promote
  <2>2. CASE queue = <<create>> /\ known[s].supports < PromoteAt
    <3>1. Len(queue) = 1 /\ ev = create /\ Tail(queue) = <<>>
      BY <2>2
    <3>2. undecided' = undecided \ {s} /\ Logged(s, "create")'
      BY <1>1, <1>6, <1>7, <2>1, <3>1
    <3>. QED BY <1>1, <2>2, <3>1, <3>2
  <2>3. CASE queue = <<create, promote>> /\ known[s].supports >= PromoteAt /\ ~ Logged(s, "promote")
    <3>1. Len(queue) = 2 /\ ev = create /\ Tail(queue) = <<promote>>
      BY <2>3
    <3>2. undecided' = undecided /\ Logged(s, "create")'
      BY <1>1, <1>7, <2>1, <3>1
    <3>. QED BY <1>1, <2>3, <3>1, <3>2
  <2>4. CASE /\ queue = <<promote>> /\ known[s].supports >= PromoteAt /\ ~ Logged(s, "promote")
             /\ (s \in unborn \/ Logged(s, "create"))
    <3>1. Len(queue) = 1 /\ ev = promote /\ Tail(queue) = <<>>
      BY <2>4
    <3>2. undecided' = undecided \ {s} /\ (s \in unborn \/ Logged(s, "create")')
      BY <1>1, <1>6, <1>7, <2>4, <3>1
    <3>. QED BY <1>1, <2>4, <3>1, <3>2
  <2>. QED BY <1>5, <2>2, <2>3, <2>4
<1>11. ASSUME NEW q \in Run, NEW t, q # r, t # s, Birth(q, t) PROVE Birth(q, t)'
  BY <1>1, <1>4, <1>7, <1>8, <1>11 DEF Birth
<1>. HIDE DEF queue, ev, create, promote
<1>12. QueueInv'
  <2>1. /\ run'[r].queue # <<>> => run'[r].pc = "emit"
        /\ Again(r)' \/ \E t \in undecided' : Maker(t)' = r /\ Birth(r, t)'
    <3>1. CASE run'[r].queue = <<>>
      BY <3>1 DEF Again
    <3>2. CASE run'[r].queue # <<>>
      <4>1. /\ undecided' = undecided /\ run'[r].queue = <<promote>> /\ ev = create
            /\ known[s].supports >= PromoteAt /\ ~ Logged(s, "promote") /\ Logged(s, "create")'
        BY <1>10, <3>2
      <4>2. ~ Logged(s, "promote")'
        BY <1>4, <1>7, <4>1 DEF create
      <4>3. Birth(r, s)'
        BY <1>1, <1>4, <4>1, <4>2 DEF Birth, promote
      <4>. QED BY <1>1, <1>2, <1>3, <4>1, <4>3
    <3>. QED BY <3>1, <3>2
  <2>2. ASSUME NEW q \in Run, q # r
        PROVE  /\ run'[q].queue # <<>> => run'[q].pc = "emit"
               /\ Again(q)' \/ \E t \in undecided' : Maker(t)' = q /\ Birth(q, t)'
    <3>1. CASE Again(q)
      <4>1. undecided' \subseteq undecided
        BY <1>10
      <4>. QED BY <1>2, <1>8, <2>2, <3>1, <4>1 DEF Again, QueueInv
    <3>2. CASE \E t \in undecided : Maker(t) = q /\ Birth(q, t)
      <4>1. PICK t \in undecided : Maker(t) = q /\ Birth(q, t)
        BY <3>2
      <4>2. t # s /\ t \in undecided' /\ Maker(t)' = q
        BY <1>2, <1>3, <1>10, <2>2, <4>1
      <4>. QED BY <1>8, <1>11, <2>2, <4>1, <4>2 DEF QueueInv
    <3>. QED BY <3>1, <3>2 DEF QueueInv
  <2>3. ASSUME NEW t \in undecided', Emitting(Maker(t))' PROVE Birth(Maker(t), t)'
    <3>1. t \in undecided /\ t \in Created /\ Maker(t)' = Maker(t) /\ Maker(t) \in Run
      BY <1>2, <1>3, <1>10
    <3>2. CASE Maker(t) = r
      <4>1. t = s /\ run'[r].queue = <<promote>>
        BY <1>9, <1>10, <3>1, <3>2
      <4>2. /\ ev = create /\ known[s].supports >= PromoteAt /\ ~ Logged(s, "promote") /\ Logged(s, "create")'
        BY <1>10, <4>1
      <4>3. ~ Logged(s, "promote")'
        BY <1>4, <1>7, <4>2 DEF create
      <4>. QED BY <1>1, <1>4, <3>1, <3>2, <4>1, <4>2, <4>3 DEF Birth, promote
    <3>3. CASE Maker(t) # r
      <4>1. Emitting(Maker(t))
        BY <1>8, <2>3, <3>1, <3>3 DEF Emitting
      <4>2. Birth(Maker(t), t) /\ t # s
        BY <3>1, <3>3, <4>1 DEF QueueInv
      <4>. QED BY <1>11, <3>1, <3>3, <4>2 DEF Birth
    <3>. QED BY <3>2, <3>3
  <2>. QED BY <2>1, <2>2, <2>3 DEF QueueInv
<1>13. BornInv'
  <2>1. ASSUME NEW t \in Created, ~ (t \in unborn \/ Logged(t, "create")')
        PROVE  /\ t \in undecided' \ stored
               /\ \/ run'[Maker(t)].pc = "dead"
                  \/ run'[Maker(t)].queue # <<>> /\ run'[Maker(t)].queue[1] = Emitted(Maker(t), t, "create")
    <3>1. t # s /\ ~ Logged(t, "create")
      BY <1>7, <1>10, <2>1
    <3>2. /\ t \in undecided \ stored
          /\ \/ run[Maker(t)].pc = "dead"
             \/ run[Maker(t)].queue # <<>> /\ run[Maker(t)].queue[1] = Emitted(Maker(t), t, "create")
      BY <2>1, <3>1 DEF BornInv
    <3>3. Maker(t) # r
      BY <1>9, <3>1, <3>2
    <3>. QED BY <1>2, <1>8, <1>10, <3>1, <3>2, <3>3
  <2>. QED BY <1>1, <1>2, <1>4, <2>1 DEF BornInv
<1>14. PromotedInv'
  <2>1. \A i \in DOMAIN log' : i \in DOMAIN log \/ (i = Len(log) + 1 /\ log'[i] = ev)
    BY <1>7
  <2>2. \A i \in DOMAIN log' : log'[i].schema \in Created
    BY <1>3, <1>6, <1>7, <2>1 DEF PromotedInv
  <2>3. create.kind = "create" /\ promote.kind = "promote"
    BY <1>4 DEF create, promote
  <2>4. ev.kind = "promote" => known[s].supports >= PromoteAt /\ ~ Logged(s, "promote")
    BY <1>10, <2>3
  <2>5. \A i \in DOMAIN log' : log'[i].kind = "promote" => known[log'[i].schema].supports >= PromoteAt
    BY <1>6, <1>7, <2>1, <2>4 DEF PromotedInv
  <2>6. ASSUME NEW i \in DOMAIN log', NEW j \in DOMAIN log', log'[i].kind = "promote", log'[j].kind = "promote",
               log'[i].schema = log'[j].schema
        PROVE  i = j
    <3>1. CASE i \in DOMAIN log /\ j \in DOMAIN log
      BY <1>7, <2>6, <3>1 DEF PromotedInv
    <3>2. CASE i \in DOMAIN log /\ log'[j] = ev
      BY <1>6, <1>7, <2>4, <2>6, <3>2 DEF Logged
    <3>3. CASE j \in DOMAIN log /\ log'[i] = ev
      BY <1>6, <1>7, <2>4, <2>6, <3>3 DEF Logged
    <3>. QED BY <2>1, <3>1, <3>2, <3>3
  <2>7. ASSUME NEW t \in Created \ (undecided' \cup unborn), known[t].supports >= PromoteAt
        PROVE  \E i, j \in DOMAIN log' : /\ i < j /\ log'[i].schema = t /\ log'[j].schema = t
                                         /\ log'[i].kind = "create" /\ log'[j].kind = "promote"
    <3>1. CASE t \in undecided
      <4>1. t = s /\ ev = promote /\ Logged(s, "create")
        BY <1>2, <1>3, <1>10, <2>7, <3>1
      <4>2. PICK i \in DOMAIN log : log[i].schema = s /\ log[i].kind = "create"
        BY <4>1 DEF Logged
      <4>3. i \in DOMAIN log' /\ Len(log) + 1 \in DOMAIN log' /\ i < Len(log) + 1
        BY <1>7
      <4>. QED BY <1>6, <1>7, <2>3, <4>1, <4>2, <4>3
    <3>2. CASE t \notin undecided
      <4>1. PICK i \in DOMAIN log, j \in DOMAIN log :
                /\ i < j /\ log[i].schema = t /\ log[j].schema = t
                /\ log[i].kind = "create" /\ log[j].kind = "promote"
        BY <2>7, <3>2 DEF PromotedInv
      <4>2. i \in DOMAIN log' /\ j \in DOMAIN log'
        BY <1>7
      <4>. QED BY <1>7, <4>1, <4>2
    <3>. QED BY <3>1, <3>2
  <2>. QED BY <1>1, <1>2, <2>2, <2>5, <2>6, <2>7 DEF PromotedInv
<1>. QED BY <1>12, <1>13, <1>14

LEMMA EmitLog ==
    ASSUME TypeOK, LifeInv, LogInv, NEW r \in Run, Emit(r)
    PROVE  LogInv'
<1>1. Again(r) \/ \E s \in undecided : Maker(s) = r /\ Birth(r, s)
  BY DEF LogInv, QueueInv
<1>2. CASE Again(r)
  <2>. DEFINE ev == run[r].queue[1]
  <2>1. /\ Elsewhere(r) /\ UNCHANGED <<known, unborn, stored>> /\ run[r].pc = "emit" /\ run'[r].pc = "emit"
        /\ run[r].queue # <<>> /\ run[r].queue \in Seq(Event) /\ ev \in Event /\ log' = Append(log, ev)
        /\ run'[r].queue = Tail(run[r].queue)
        /\ undecided' = IF Len(run[r].queue) = 1 /\ Maker(ev.schema) = r THEN undecided \ {ev.schema} ELSE undecided
    BY EmitEffect
  <2>2. ev.kind \in {"recover", "bump_version"} /\ ev.schema \in Created
        /\ (Maker(ev.schema) = r => ev.schema \notin undecided)
    <3>1. 1 \in DOMAIN run[r].queue
      BY <2>1
    <3>. QED BY <1>2, <3>1 DEF Again
  <2>. HIDE DEF ev
  <2>3. undecided' = undecided /\ ev.kind \notin {"create", "promote"}
    BY <2>1, <2>2
  <2>4. \A q \in Run : /\ run'[q].pc = run[q].pc
                       /\ \/ run'[q].queue = run[q].queue
                          \/ Again(q) /\ run[q].queue # <<>> /\ run'[q].queue = Tail(run[q].queue)
    BY <1>2, <2>1 DEF Elsewhere
  <2>. QED BY <2>1, <2>2, <2>3, <2>4, LogMore
<1>. QED BY <1>1, <1>2, LogBorn

LEMMA OutsideDeprecateLog ==
    ASSUME TypeOK, LifeInv, LogInv, NEW s \in Created, OutsideDeprecate(s)
    PROVE  LogInv'
<1>1. UNCHANGED <<known, unborn, undecided, stored, run>>
  BY OutsideDeprecateEffect
<1>2. PICK ev \in Event : log' = Append(log, ev) /\ ev.schema = s /\ ev.kind = "deprecate"
  BY OutsideDeprecateEffect
<1>. QED BY <1>1, <1>2, LogMore

\* A cut may take a CREATE with it: then the schema counts as unborn.
LEMMA CutLogLog ==
    ASSUME TypeOK, LifeInv, LogInv, CutLog
    PROVE  LogInv'
<1>. USE DEF LogInv, LifeInv
<1>1. UNCHANGED <<known, run, undecided, stored>>
  BY CutLogEffect
<1>2. PICK n \in DOMAIN log :
         /\ Len(log') = Len(log) - n
         /\ \A i \in DOMAIN log' : i + n \in DOMAIN log /\ log'[i] = log[i + n]
         /\ \A i \in DOMAIN log : i > n => i - n \in DOMAIN log' /\ log'[i - n] = log[i]
         /\ unborn' = unborn \cup {log[i].schema : i \in {j \in 1 .. n : log[j].kind = "create"}}
  BY CutLogEffect
<1>3. Created' = Created /\ \A s \in Created : Maker(s)' = Maker(s) /\ Maker(s) \in Run
  BY <1>1, MakerTyped DEF Created, Maker
<1>4. undecided \subseteq Created /\ DOMAIN log = 1 .. Len(log) /\ Len(log) \in Nat /\ unborn \subseteq unborn'
  BY <1>2, LogPlaces DEF TypeOK
<1>5. ASSUME NEW s, NEW kind, Logged(s, kind)' PROVE Logged(s, kind)
  <2>1. PICK i \in DOMAIN log' : log'[i].schema = s /\ log'[i].kind = kind
    BY <1>5 DEF Logged
  <2>. QED BY <1>2, <2>1 DEF Logged
<1>6. ASSUME NEW i \in DOMAIN log, log[i].kind = "create"
      PROVE  log[i].schema \in unborn' \/ i > n
  <2>1. SUFFICES ASSUME ~ (i > n) PROVE log[i].schema \in unborn'
    OBVIOUS
  <2>2. i \in 1 .. n
    BY <1>4, <2>1
  <2>. QED BY <1>2, <1>6, <2>2
<1>7. ASSUME NEW s, Logged(s, "create") PROVE Logged(s, "create")' \/ s \in unborn'
  <2>1. PICK i \in DOMAIN log : log[i].schema = s /\ log[i].kind = "create"
    BY <1>7 DEF Logged
  <2>. QED BY <1>2, <1>6, <2>1 DEF Logged
<1>8. ASSUME NEW q \in Run, NEW s, Birth(q, s) PROVE Birth(q, s)'
  <2>1. \A kind : Emitted(q, s, kind)' = Emitted(q, s, kind)
    BY DEF Emitted
  <2>2. ~ Logged(s, "promote") => ~ Logged(s, "promote")'
    BY <1>5
  <2>3. s \in unborn \/ Logged(s, "create") => s \in unborn' \/ Logged(s, "create")'
    BY <1>4, <1>7
  <2>. QED BY <1>1, <1>8, <2>1, <2>2, <2>3 DEF Birth
<1>9. QueueInv'
  <2>1. ASSUME NEW q \in Run PROVE Again(q)' \/ \E s \in undecided : Maker(s)' = q /\ Birth(q, s)'
    <3>1. CASE Again(q)
      BY <1>1, <1>3, <3>1 DEF Again
    <3>2. CASE \E s \in undecided : Maker(s) = q /\ Birth(q, s)
      BY <1>3, <1>4, <1>8, <3>2
    <3>. QED BY <3>1, <3>2 DEF QueueInv
  <2>2. ASSUME NEW s \in undecided, Emitting(Maker(s))' PROVE Birth(Maker(s), s)'
    <3>1. s \in Created /\ Maker(s)' = Maker(s) /\ Maker(s) \in Run
      BY <1>3, <1>4
    <3>2. Birth(Maker(s), s)
      BY <1>1, <2>2, <3>1 DEF QueueInv, Emitting
    <3>. QED BY <1>8, <3>1, <3>2 DEF Birth
  <2>. QED BY <1>1, <2>1, <2>2 DEF QueueInv
<1>10. BornInv'
  <2>1. ASSUME NEW s \in Created, ~ (s \in unborn' \/ Logged(s, "create")')
        PROVE  ~ (s \in unborn \/ Logged(s, "create"))
    BY <1>4, <1>7, <2>1
  <2>. QED BY <1>1, <1>3, <2>1 DEF BornInv, Emitted
<1>11. PromotedInv'
  <2>1. \A i \in DOMAIN log' : i \in Int
    <3>1. log' \in Seq(Event)
      BY CutLogEffect DEF TypeOK, Event
    <3>. QED BY <3>1
  <2>2. ASSUME NEW i \in DOMAIN log', NEW j \in DOMAIN log', log'[i].kind = "promote", log'[j].kind = "promote",
               log'[i].schema = log'[j].schema
        PROVE  i = j
    <3>1. i + n = j + n
      BY <1>2, <2>2 DEF PromotedInv
    <3>. QED BY <1>4, <2>1, <3>1
  <2>3. ASSUME NEW s \in Created \ (undecided \cup unborn'), known[s].supports >= PromoteAt
        PROVE  \E i, j \in DOMAIN log' : /\ i < j /\ log'[i].schema = s /\ log'[j].schema = s
                                         /\ log'[i].kind = "create" /\ log'[j].kind = "promote"
    <3>1. PICK i \in DOMAIN log, j \in DOMAIN log :
              /\ i < j /\ log[i].schema = s /\ log[j].schema = s
              /\ log[i].kind = "create" /\ log[j].kind = "promote"
      BY <1>4, <2>3 DEF PromotedInv
    <3>2. i > n /\ j > n
      BY <1>4, <1>6, <2>3, <3>1
    <3>3. i - n \in DOMAIN log' /\ j - n \in DOMAIN log' /\ i - n < j - n
      BY <1>2, <1>4, <3>1, <3>2
    <3>. QED BY <1>2, <3>1, <3>2, <3>3
  <2>4. \A i \in DOMAIN log' : /\ log'[i].schema \in Created
                               /\ log'[i].kind = "promote" => known[log'[i].schema].supports >= PromoteAt
    BY <1>2 DEF PromotedInv
  <2>. QED BY <1>1, <1>3, <2>2, <2>3, <2>4 DEF PromotedInv
<1>. QED BY <1>9, <1>10, <1>11

-----------------------------------------------------------------------------
(***************************************************************************)
(* Every step keeps the invariant.                                         *)
(***************************************************************************)
LEMMA Parts == IInv <=> TypeOK /\ LifeInv /\ LogInv
BY DEF IInv, LifeInv, LogInv

LEMMA QueuesKept ==
    ASSUME QueueInv, NEW r \in Run, Elsewhere(r), QueueKept(r)
    PROVE  \A q \in Run : QueueKept(q)
BY DEF QueueInv, Elsewhere, QueueKept, Emitting

\* A run leaves its stage, and nothing but its facts is stored.
LEMMA LeaveStep ==
    ASSUME IInv, TypeOK', NEW r \in Run, Elsewhere(r), \A q \in Run : Onward(q), QueueKept(r),
           UNCHANGED <<log, known, rows, overlap, missed, unborn, undecided, stored>>,
           \A f \in facts' \ facts : run'[f[1]].pc \in Late
    PROVE  IInv'
<1>1. TypeOK /\ LifeInv /\ LogInv
  BY Parts
<1>2. LifeInv'
  BY <1>1, LifeOnward
<1>3. \A q \in Run : QueueKept(q)
  BY <1>1, QueuesKept DEF LogInv
<1>4. LogInv'
  BY <1>1, <1>3, LogQuiet
<1>. QED BY <1>2, <1>4, Parts DEF IInv, LifeInv, LogInv

LEMMA StartRunStep == ASSUME IInv, NEW r \in Run, StartRun(r) PROVE IInv'
<1>1. TypeOK /\ LifeInv /\ LogInv
  BY Parts
<1>2. /\ TypeOK' /\ Elsewhere(r) /\ run[r].pc = "new" /\ run'[r].pc = "index" /\ run'[r].queue = <<>>
      /\ UNCHANGED <<log, known, unborn, undecided, stored>>
  BY <1>1, StartRunEffect DEF Plain, StartRun
<1>3. run[r].queue = <<>>
  BY <1>1, <1>2 DEF LogInv, QueueInv
<1>4. \A q \in Run : QueueKept(q)
  BY <1>1, <1>2, <1>3, QueuesKept DEF LogInv, QueueKept
<1>5. LogInv'
  BY <1>1, <1>2, <1>4, LogQuiet
<1>. QED BY <1>1, <1>2, <1>5, StartRunLife DEF IInv, LifeInv, LogInv

LEMMA ReadIndexStep == ASSUME IInv, NEW r \in Run, ReadIndex(r) PROVE IInv'
<1>1. TypeOK /\ LifeInv /\ LogInv
  BY Parts
<1>2. /\ TypeOK' /\ Elsewhere(r) /\ UNCHANGED <<log, known, unborn, undecided, stored>> /\ run[r].pc = "index"
      /\ \E S \in SUBSET rows : run'[r] = [run[r] EXCEPT !.pc = "emit", !.index = S]
  BY <1>1, ReadIndexEffect
<1>3. run'[r].pc = "emit" /\ run'[r].queue = run[r].queue
  BY <1>1, <1>2, RunTyped DEF RunState
<1>4. \A q \in Run : QueueKept(q)
  BY <1>1, <1>2, <1>3, QueuesKept DEF LogInv, QueueKept
<1>5. LogInv'
  BY <1>1, <1>2, <1>4, LogQuiet
<1>. QED BY <1>1, <1>2, <1>5, ReadIndexLife DEF IInv, LifeInv, LogInv

LEMMA TakePatternStep == ASSUME IInv, NEW r \in Run, TakePattern(r) PROVE IInv'
<1>1. TypeOK /\ LifeInv /\ LogInv
  BY Parts
<1>2. PICK item \in Pattern : Reemit(r, item) \/ FirstEmit(r, item)
  BY DEF TakePattern
<1>3. CASE Reemit(r, item)
  <2>1. /\ TypeOK' /\ Elsewhere(r) /\ Context(r) /\ KeepsWork(r)
        /\ run[r].pc = "emit" /\ run[r].queue = <<>>
        /\ \/ run'[r].pc = "scan" /\ run'[r].queue = <<>>
           \/ run'[r].pc = "emit" /\ Recognised(r, run'[r].queue)
    BY <1>1, <1>3, ReemitEffect
  <2>2. \A q \in Run : Onward(q)
    BY <2>1, WorkOnward
  <2>3. LifeInv'
    BY <1>1, <2>1, <2>2, LifeOnward DEF Context
  <2>4. LogInv'
    BY <1>1, <2>1, LogRecognised
  <2>. QED BY <2>1, <2>3, <2>4 DEF IInv, LifeInv, LogInv
<1>4. CASE FirstEmit(r, item)
  <2>1. TypeOK'
    BY <1>1, <1>4, FirstEmitEffect DEF LifeInv
  <2>2. LifeInv'
    BY <1>1, <1>4, FirstEmitLife
  <2>3. LogInv'
    BY <1>1, <1>4, FirstEmitLog
  <2>. QED BY <2>1, <2>2, <2>3 DEF IInv, LifeInv, LogInv
<1>. QED BY <1>2, <1>3, <1>4

LEMMA LoadSnapshotStep == ASSUME IInv, NEW r \in Run, LoadSnapshot(r) PROVE IInv'
<1>1. TypeOK /\ LifeInv /\ LogInv
  BY Parts
<1>2. /\ TypeOK' /\ Elsewhere(r) /\ Context(r) /\ KeepsWork(r)
      /\ run[r].pc = "scan" /\ run'[r].pc = "emit" /\ Recognised(r, run'[r].queue)
  BY <1>1, LoadSnapshotEffect
<1>3. run[r].queue = <<>>
  BY <1>1, <1>2 DEF LogInv, QueueInv
<1>4. \A q \in Run : Onward(q)
  BY <1>2, WorkOnward
<1>5. LifeInv'
  BY <1>1, <1>2, <1>4, LifeOnward DEF Context
<1>6. LogInv'
  BY <1>1, <1>2, <1>3, LogRecognised
<1>. QED BY <1>2, <1>5, <1>6 DEF IInv, LifeInv, LogInv

LEMMA EmitStep == ASSUME IInv, NEW r \in Run, Emit(r) PROVE IInv'
<1>1. TypeOK /\ LifeInv /\ LogInv
  BY Parts
<1>2. /\ TypeOK' /\ Elsewhere(r) /\ KeepsWork(r) /\ run[r].pc = "emit" /\ run'[r].pc = "emit"
      /\ UNCHANGED <<known, rows, facts, overlap, missed, stored>>
  BY <1>1, EmitEffect
<1>3. \A q \in Run : Onward(q)
  BY <1>2, WorkOnward
<1>4. LifeInv'
  BY <1>1, <1>2, <1>3, LifeOnward
<1>5. LogInv'
  BY <1>1, EmitLog
<1>. QED BY <1>2, <1>4, <1>5 DEF IInv, LifeInv, LogInv

LEMMA EmitFailsStep == ASSUME IInv, NEW r \in Run, EmitFails(r) PROVE IInv'
<1>1. TypeOK /\ LifeInv /\ LogInv /\ QueueInv
  BY Parts DEF LogInv
<1>2. /\ TypeOK' /\ Elsewhere(r) /\ UNCHANGED <<known, rows, facts, overlap, missed, stored>>
      /\ run[r].pc \in {"emit", "scan"} /\ Plain(run'[r], "facts", run[r].made, run[r].conflicts)
  BY <1>1, EmitFailsEffect
<1>3. \A q \in Run : Onward(q)
  BY <1>2, PlainOnward DEF Active, Late
<1>4. LifeInv'
  BY <1>1, <1>2, <1>3, LifeOnward
<1>5. LogInv'
  BY <1>1, EmitFailsLog
<1>. QED BY <1>2, <1>4, <1>5 DEF IInv, LifeInv, LogInv

LEMMA PersistFactsStep == ASSUME IInv, NEW r \in Run, PersistFacts(r) PROVE IInv'
<1>1. TypeOK /\ LifeInv /\ LogInv
  BY Parts
<1>2. /\ TypeOK' /\ Elsewhere(r) /\ UNCHANGED <<log, known, rows, overlap, missed, unborn, undecided, stored>>
      /\ run[r].pc \in {"facts", "emit"} /\ (run[r].pc = "emit" => run[r].queue = <<>>)
      /\ Plain(run'[r], "schemas", run[r].made, {}) /\ facts' = facts \cup run[r].conflicts
  BY <1>1, PersistFactsEffect
<1>3. \A q \in Run : Onward(q)
  <2>1. Onward(r)
    BY <1>2 DEF Onward, Plain, Active, Emitting, Late
  <2>. QED BY <1>2, <2>1, Bystanders
<1>4. run[r].queue = <<>>
  BY <1>1, <1>2 DEF LogInv, QueueInv
<1>5. QueueKept(r)
  BY <1>2, <1>4 DEF QueueKept, Plain
<1>6. ASSUME NEW f \in facts' \ facts PROVE run'[f[1]].pc \in Late
  <2>1. f[1] = r
    BY <1>1, <1>2, <1>6 DEF LifeInv, ConflictInv
  <2>. QED BY <1>2, <2>1 DEF Plain, Late
<1>. QED BY <1>2, <1>3, <1>5, <1>6, LeaveStep

LEMMA PersistSchemaStep == ASSUME IInv, NEW r \in Run, PersistSchema(r) PROVE IInv'
<1>1. TypeOK /\ LifeInv /\ LogInv
  BY Parts
<1>2. /\ TypeOK' /\ Elsewhere(r) /\ UNCHANGED <<log, known, unborn, undecided>>
      /\ run[r].pc = "schemas" /\ run'[r].pc = "schemas" /\ run'[r].queue = run[r].queue
      /\ run[r].made # <<>> /\ run[r].made \in Seq(Created)
      /\ stored' = stored \cup {run[r].made[1]}
  BY <1>1, PersistSchemaEffect
<1>3. run[r].queue = <<>>
  BY <1>1, <1>2 DEF LogInv, QueueInv
<1>4. \A q \in Run : QueueKept(q)
  BY <1>1, <1>2, <1>3, QueuesKept DEF LogInv, QueueKept
<1>5. run[r].made[1] \in Created /\ Maker(run[r].made[1]) = r
  <2>1. 1 \in DOMAIN run[r].made
    BY <1>2
  <2>. QED BY <1>1, <1>2, <2>1 DEF LifeInv, MadeInv
<1>6. LogInv'
  BY <1>1, <1>2, <1>4, <1>5, LogQuiet
<1>. QED BY <1>1, <1>2, <1>6, PersistSchemaLife DEF IInv, LifeInv, LogInv

LEMMA EndRunStep == ASSUME IInv, NEW r \in Run, EndRun(r) PROVE IInv'
<1>1. TypeOK /\ LifeInv /\ LogInv
  BY Parts
<1>2. /\ TypeOK' /\ Elsewhere(r) /\ Context(r) /\ run[r].pc \in {"facts", "schemas"}
      /\ Plain(run'[r], "ended", run[r].made, {})
  BY <1>1, EndRunEffect
<1>3. \A q \in Run : Onward(q)
  BY <1>2, PlainOnward DEF Active, Late
<1>4. run[r].queue = <<>>
  BY <1>1, <1>2 DEF LogInv, QueueInv
<1>5. QueueKept(r)
  BY <1>2, <1>4 DEF QueueKept, Plain
<1>. QED BY <1>2, <1>3, <1>5, LeaveStep DEF Context

LEMMA KillStep == ASSUME IInv, NEW r \in Run, Kill(r) PROVE IInv'
<1>1. TypeOK /\ LifeInv /\ LogInv
  BY Parts
<1>2. TypeOK' /\ Elsewhere(r) /\ Context(r) /\ Active(r) /\ Plain(run'[r], "dead", <<>>, {})
  BY <1>1, KillEffect
<1>3. \A q \in Run : Onward(q)
  <2>1. Onward(r)
    BY <1>2 DEF Onward, Plain, Active, Emitting, Late
  <2>. QED BY <1>2, <2>1, Bystanders
<1>4. QueueKept(r)
  BY <1>2 DEF QueueKept, Plain
<1>. QED BY <1>2, <1>3, <1>4, LeaveStep DEF Context

\* The runs stand still.
LEMMA Standing ==
    ASSUME QueueInv, UNCHANGED run
    PROVE  \A q \in Run : Onward(q) /\ QueueKept(q)
BY DEF QueueInv, Onward, QueueKept, Emitting, Active, Late

LEMMA RowsStep ==
    ASSUME IInv, TypeOK', UNCHANGED <<log, known, facts, run, overlap, missed, unborn, undecided, stored>>
    PROVE  IInv'
<1>1. TypeOK /\ LifeInv /\ LogInv
  BY Parts
<1>2. \A q \in Run : Onward(q) /\ QueueKept(q)
  BY <1>1, Standing DEF LogInv
<1>3. LifeInv'
  BY <1>1, <1>2, LifeOnward
<1>4. LogInv'
  BY <1>1, <1>2, LogQuiet
<1>. QED BY <1>3, <1>4 DEF IInv, LifeInv, LogInv

LEMMA DemoteStep == ASSUME IInv, NEW s \in rows, Demote(s) PROVE IInv'
BY Parts, DemoteEffect, RowsStep

LEMMA ReviveStep == ASSUME IInv, NEW s \in stored \ rows, Revive(s) PROVE IInv'
BY Parts, ReviveEffect, RowsStep

LEMMA OutsideDeprecateStep == ASSUME IInv, NEW s \in Created, OutsideDeprecate(s) PROVE IInv'
<1>1. TypeOK /\ LifeInv /\ LogInv
  BY Parts
<1>2. TypeOK' /\ UNCHANGED <<known, rows, facts, run, overlap, missed, unborn, undecided, stored>>
  BY <1>1, OutsideDeprecateEffect
<1>3. \A q \in Run : Onward(q)
  BY <1>1, <1>2, Standing DEF LogInv
<1>4. LifeInv'
  BY <1>1, <1>2, <1>3, LifeOnward
<1>5. LogInv'
  BY <1>1, OutsideDeprecateLog
<1>. QED BY <1>2, <1>4, <1>5 DEF IInv, LifeInv, LogInv

LEMMA CutLogStep == ASSUME IInv, CutLog PROVE IInv'
<1>1. TypeOK /\ LifeInv /\ LogInv
  BY Parts
<1>2. TypeOK' /\ UNCHANGED <<known, rows, facts, run, overlap, missed, undecided, stored>>
  BY <1>1, CutLogEffect DEF LogInv
<1>3. \A q \in Run : Onward(q)
  BY <1>1, <1>2, Standing DEF LogInv
<1>4. LifeInv'
  BY <1>1, <1>2, <1>3, LifeOnward
<1>5. LogInv'
  BY <1>1, CutLogLog
<1>. QED BY <1>2, <1>4, <1>5 DEF IInv, LifeInv, LogInv

LEMMA StepInvariant == IInv /\ [Next]_vars => IInv'
<1>1. ASSUME IInv, NEW r \in Run, RunStep(r) PROVE IInv'
  BY <1>1, ReadIndexStep, TakePatternStep, LoadSnapshotStep, EmitStep, EmitFailsStep, PersistFactsStep,
     PersistSchemaStep, EndRunStep DEF RunStep
<1>2. ASSUME IInv, Next PROVE IInv'
  BY <1>1, <1>2, StartRunStep, KillStep, DemoteStep, ReviveStep, OutsideDeprecateStep, CutLogStep DEF Next
<1>3. ASSUME IInv, UNCHANGED vars PROVE IInv'
  <2>1. TypeOK /\ LifeInv /\ LogInv
    BY <1>3, Parts
  <2>2. UNCHANGED <<log, known, rows, facts, run, overlap, missed, unborn, undecided, stored>>
    BY <1>3 DEF vars, history
  <2>3. TypeOK'
    BY <1>3, <2>1, <2>2 DEF TypeOK, vars, bounds, RunState, Created
  <2>4. \A q \in Run : Onward(q) /\ QueueKept(q)
    BY <2>1, <2>2, Standing DEF LogInv
  <2>5. LifeInv'
    BY <2>1, <2>2, <2>3, <2>4, LifeOnward
  <2>6. LogInv'
    BY <2>1, <2>2, <2>4, LogQuiet
  <2>. QED BY <2>3, <2>5, <2>6 DEF IInv, LifeInv, LogInv
<1>. QED BY <1>2, <1>3

-----------------------------------------------------------------------------
\* Whatever the runs, the faults and the other tools do, the parts of the
\* invariant hold together: who made what, who was beside whom, what a run
\* still has to append or to store, and what the log says of each birth.
THEOREM EmissionInvariant == Spec => []IInv
<1>1. Init => IInv
  BY InitInvariant
<1>2. IInv /\ [Next]_vars => IInv'
  BY StepInvariant
<1>. QED BY <1>1, <1>2, PTL DEF Spec

\* The log holds lifecycle events, every run is at one of its steps with an
\* index, a snapshot and a queue of their types, and counters keep their bounds.
THEOREM EmissionTypeCorrect == Spec => []TypeOK
BY EmissionInvariant, InvariantSuffices, PTL

\* SchemaUpdate recognises a re-emitted pattern as the schema it is: two live
\* schemas of one summary come from runs that overlapped, or from a run that had
\* not found the other, which was not live then or beyond the limit.
THEOREM RecognisedOnce == Spec => []NoTwin
BY EmissionInvariant, InvariantSuffices, PTL

\* A stored schema is known to the reducer unless its CREATE is missing from the
\* log, and a schema of the log is stored unless its run is under way or failed.
THEOREM RowsAndLogAgree == Spec => []RowsMatchLog
BY EmissionInvariant, InvariantSuffices, PTL

\* What a schema's first window says of it stands under both quorums, however
\* appends interleave: promoted if its supports were enough, unless deprecated.
THEOREM BirthsStand == Spec => []DecidedAtBirth
BY EmissionInvariant, InvariantSuffices, PTL

\* What recall hides under its quorum the pipeline calls deprecated too, so that
\* it can recover it, unless a run had second thoughts about the schema.
THEOREM HiddenCanRecover == Spec => []HiddenIsRecoverable
BY EmissionInvariant, InvariantSuffices, PTL
=============================================================================
