----------------------------- MODULE RecallProofs -----------------------------
(***************************************************************************)
(* Proofs about Recall for any number of memories, limits, weights, worlds *)
(* and writes by others.                                                   *)
(***************************************************************************)
EXTENDS Recall, FiniteSetTheorems, TLAPS

(***************************************************************************)
(* Rankings: numbering, renumbering and cutting.                           *)
(***************************************************************************)
Keys(key, S) == /\ \A m \in S : key[m] \in Nat
                /\ \A m, n \in S : key[m] = key[n] => m = n

Ranking(f) == /\ f = [m \in DOMAIN f |-> f[m]] /\ DOMAIN f \subseteq Memory
              /\ Keys(f, DOMAIN f) /\ \A m \in DOMAIN f : f[m] > 0

LEMMA Numbers ==
    /\ Size \in Nat /\ TopK \in Nat /\ PoolFactor \in Nat /\ TextWeight \in Nat /\ VectorWeight \in Nat
    /\ MaxWrites \in Nat /\ Limits \subseteq Nat
BY NumbersAssumption

LEMMA FiniteMemories ==
    ASSUME NEW S, S \subseteq Memory
    PROVE  IsFiniteSet(S) /\ Cardinality(S) \in Nat
<1>1. IsFiniteSet(Memory)
  BY Numbers, FS_Interval DEF Memory
<1> QED BY <1>1, FS_Subset, FS_CardinalityType

LEMMA LargerSets ==
    ASSUME NEW T, T \subseteq Memory, NEW S, S \subseteq T
    PROVE  Cardinality(S) <= Cardinality(T) /\ (S # T => Cardinality(S) < Cardinality(T))
<1>1. IsFiniteSet(T) /\ Cardinality(T) \in Nat /\ Cardinality(S) \in Nat
  BY FiniteMemories
<1>2. Cardinality(S) <= Cardinality(T) /\ (Cardinality(T) = Cardinality(S) => T = S)
  BY <1>1, FS_Subset
<1> QED BY <1>1, <1>2

\* Numbering keeps the order of the keys, and counts to the size of the set.
LEMMA NumberedRanks ==
    ASSUME NEW key, NEW S, S \subseteq Memory, Keys(key, S)
    PROVE  /\ Ranking(Numbered(key, S)) /\ DOMAIN Numbered(key, S) = S
           /\ \A m, n \in S : Numbered(key, S)[m] <= Numbered(key, S)[n] <=> key[m] <= key[n]
           /\ \A m \in S : Numbered(key, S)[m] <= Cardinality(S)
<1> DEFINE Below(m) == {n \in S : key[n] <= key[m]}
           r == Numbered(key, S)
<1>1. r = [m \in S |-> Cardinality(Below(m))] /\ DOMAIN r = S /\ \A m \in S : r[m] = Cardinality(Below(m))
  BY DEF Numbered
<1>2. \A m \in S : Below(m) \subseteq Memory /\ Below(m) \subseteq S /\ m \in Below(m)
  BY DEF Keys
<1>3. \A m \in S : r[m] \in Nat /\ r[m] <= Cardinality(S)
  BY <1>1, <1>2, FiniteMemories, LargerSets
<1>4. \A m \in S : r[m] > 0
  <2> SUFFICES ASSUME NEW m \in S PROVE Cardinality(Below(m)) > 0
    BY <1>1
  <2>1. Cardinality({}) = 0 /\ {} # Below(m) /\ Cardinality(Below(m)) \in Nat
    BY <1>2, FS_EmptySet, FiniteMemories
  <2> QED BY <2>1, <1>2, LargerSets
<1>5. ASSUME NEW m \in S, NEW n \in S, key[m] <= key[n] PROVE r[m] <= r[n]
  <2>1. Below(m) \subseteq Below(n)
    BY <1>5 DEF Keys
  <2> QED BY <2>1, <1>1, <1>2, LargerSets
<1>6. ASSUME NEW m \in S, NEW n \in S, key[m] > key[n] PROVE r[m] > r[n]
  <2>1. Below(n) \subseteq Below(m) /\ m \in Below(m) /\ m \notin Below(n)
    BY <1>6 DEF Keys
  <2>2. Cardinality(Below(n)) < Cardinality(Below(m))
    BY <2>1, <1>2, LargerSets
  <2> QED BY <2>2, <1>1, <1>3
<1>7. \A m, n \in S : r[m] <= r[n] <=> key[m] <= key[n]
  BY <1>3, <1>5, <1>6 DEF Keys
<1>8. \A m, n \in S : r[m] = r[n] => m = n
  BY <1>3, <1>7 DEF Keys
<1>9. r = [m \in DOMAIN r |-> r[m]]
  BY <1>1
<1>10. Ranking(r)
  BY <1>1, <1>3, <1>4, <1>8, <1>9 DEF Ranking, Keys
<1> HIDE DEF Below, r
<1> QED BY <1>1, <1>3, <1>7, <1>10 DEF r

\* Numbering twice is numbering once.
LEMMA NumberedAgain ==
    ASSUME NEW key, NEW S, S \subseteq Memory, Keys(key, S), NEW T, T \subseteq S
    PROVE  Numbered(Numbered(key, S), T) = Numbered(key, T)
<1> DEFINE r == Numbered(key, S)
<1>1. \A m, n \in S : r[m] <= r[n] <=> key[m] <= key[n]
  BY NumberedRanks
<1> HIDE DEF r
<1>2. \A m \in T : {n \in T : r[n] <= r[m]} = {n \in T : key[n] <= key[m]}
  BY <1>1
<1>3. Numbered(r, T) = Numbered(key, T)
  BY <1>2 DEF Numbered
<1> QED BY <1>3 DEF r

\* A part of a ranking, numbered again.
LEMMA OnlyRanks ==
    ASSUME NEW r, Ranking(r), NEW S
    PROVE  /\ Ranking(Only(r, S)) /\ DOMAIN Only(r, S) = S \cap DOMAIN r
           /\ \A m, n \in S \cap DOMAIN r : Only(r, S)[m] <= Only(r, S)[n] <=> r[m] <= r[n]
           /\ \A m \in S \cap DOMAIN r : Only(r, S)[m] <= Cardinality(S \cap DOMAIN r)
<1>1. S \cap DOMAIN r \subseteq Memory /\ Keys(r, S \cap DOMAIN r)
  BY DEF Ranking, Keys
<1> QED BY <1>1, NumberedRanks DEF Only

LEMMA FirstRanks ==
    ASSUME NEW r, Ranking(r), NEW n \in Nat
    PROVE  /\ Ranking(First(n, r)) /\ DOMAIN First(n, r) \subseteq DOMAIN r
           /\ DOMAIN First(n, r) = {m \in DOMAIN r : r[m] <= n}
           /\ \A m \in DOMAIN First(n, r) : First(n, r)[m] = r[m] /\ r[m] <= n
           /\ (\A m \in DOMAIN r : r[m] <= n) => First(n, r) = r
<1> DEFINE f == First(n, r)
           D == {k \in DOMAIN r : r[k] <= n}
<1>1. f = [m \in D |-> r[m]] /\ DOMAIN f = D /\ \A m \in D : f[m] = r[m]
  BY DEF First
<1>2. f = [m \in DOMAIN f |-> f[m]] /\ DOMAIN f \subseteq Memory
  BY <1>1 DEF Ranking
<1>3. Keys(f, DOMAIN f) /\ \A m \in DOMAIN f : f[m] > 0
  BY <1>1 DEF Ranking, Keys
<1>4. ASSUME \A m \in DOMAIN r : r[m] <= n PROVE f = r
  <2>1. D = DOMAIN r
    BY <1>4
  <2> QED BY <2>1, <1>1 DEF Ranking
<1> HIDE DEF f
<1> QED BY <1>1, <1>2, <1>3, <1>4 DEF f, Ranking

LEMMA NoRanks == Ranking(Unranked) /\ DOMAIN Unranked = {}
BY DEF Ranking, Unranked, Keys

-----------------------------------------------------------------------------
(***************************************************************************)
(* The order of the results is total, so that sorting ranks them.          *)
(***************************************************************************)
LEMMA Terms ==
    ASSUME NEW rank \in Nat
    PROVE  /\ Scale \div (RrfK + rank) \in Nat
           /\ \A other \in Nat : other <= rank => Scale \div (RrfK + rank) <= Scale \div (RrfK + other)
<1>1. Scale \div (RrfK + rank) \in Nat
  BY DEF Scale, RrfK
<1>2. ASSUME NEW other \in Nat, other <= rank PROVE Scale \div (RrfK + rank) <= Scale \div (RrfK + other)
  <2> DEFINE a == 60 + rank
             b == 60 + other
             p == 1000000 \div a
             q == 1000000 \div b
  <2>1. a \in Nat /\ b \in Nat /\ b <= a /\ b > 0
    BY <1>2
  <2>2. p \in Nat /\ q \in Nat /\ p * a <= 1000000 /\ 1000000 < (q + 1) * b
    BY <2>1
  <2>3. p * b <= p * a
    <3>1. a - b \in Nat /\ p * (a - b) \in Nat /\ p * a = p * b + p * (a - b)
      BY <2>1, <2>2
    <3>2. p * a \in Nat /\ p * b \in Nat
      BY <2>1, <2>2
    <3> QED BY <3>1, <3>2
  <2>4. p * b < (q + 1) * b
    BY <2>1, <2>2, <2>3
  <2>5. p < q + 1
    <3>1. SUFFICES ASSUME p >= q + 1 PROVE FALSE
      BY <2>2
    <3>2. p * b = (q + 1) * b + (p - (q + 1)) * b /\ (p - (q + 1)) * b \in Nat
      BY <2>1, <2>2, <3>1
    <3> QED BY <3>2, <2>1, <2>2, <2>4
  <2> QED BY <2>2, <2>5 DEF Scale, RrfK
<1> QED BY <1>1, <1>2

LEMMA RankInRanks ==
    ASSUME NEW r, Ranking(r), NEW m
    PROVE  RankIn(r, m) \in Nat
BY DEF RankIn, Ranking, Keys, Missing

\* A score of ranks is a number, and no smaller for a memory that no index ranks worse.
LEMMA FusedScores ==
    ASSUME NEW texts, Ranking(texts), NEW near, Ranking(near), NEW m
    PROVE  /\ Fused(texts, near, m) \in Nat
           /\ \A n : /\ RankIn(texts, n) <= RankIn(texts, m)
                     /\ RankIn(near, n) <= RankIn(near, m)
                     => Fused(texts, near, m) <= Fused(texts, near, n)
<1> DEFINE T(n) == Scale \div (RrfK + RankIn(texts, n))
           V(n) == Scale \div (RrfK + RankIn(near, n))
<1>1. \A n : T(n) \in Nat /\ V(n) \in Nat
  BY RankInRanks, Terms
<1>2. \A n : Fused(texts, near, n) = TextWeight * T(n) + VectorWeight * V(n)
  BY DEF Fused
<1>3. ASSUME NEW n, RankIn(texts, n) <= RankIn(texts, m), RankIn(near, n) <= RankIn(near, m)
      PROVE  T(m) <= T(n) /\ V(m) <= V(n)
  BY <1>3, RankInRanks, Terms
<1> HIDE DEF T, V
<1>4. ASSUME NEW w \in Nat, NEW a \in Nat, NEW b \in Nat, a <= b
      PROVE  w * a \in Nat /\ w * b \in Nat /\ w * a <= w * b
  <2>1. b - a \in Nat /\ w * b = w * a + w * (b - a) /\ w * (b - a) \in Nat /\ w * a \in Nat
    BY <1>4
  <2> QED BY <2>1, <1>4
<1>5. Fused(texts, near, m) \in Nat
  BY <1>1, <1>2, Numbers
<1>6. ASSUME NEW n, RankIn(texts, n) <= RankIn(texts, m), RankIn(near, n) <= RankIn(near, m)
      PROVE  Fused(texts, near, m) <= Fused(texts, near, n)
  <2>1. T(m) <= T(n) /\ V(m) <= V(n) /\ T(m) \in Nat /\ T(n) \in Nat /\ V(m) \in Nat /\ V(n) \in Nat
    BY <1>1, <1>3, <1>6
  <2>2. TextWeight * T(m) <= TextWeight * T(n) /\ TextWeight * T(m) \in Nat /\ TextWeight * T(n) \in Nat
    BY <2>1, <1>4, Numbers
  <2>3. VectorWeight * V(m) <= VectorWeight * V(n) /\ VectorWeight * V(m) \in Nat /\ VectorWeight * V(n) \in Nat
    BY <2>1, <1>4, Numbers
  <2> QED BY <2>2, <2>3, <1>2
<1> QED BY <1>5, <1>6

WorldInv ==
    /\ world.merit \in [Memory -> Nat] /\ Keys(world.nearest, Memory)
    /\ world.hits \subseteq Memory /\ world.mentions \subseteq Memory
    /\ \A C \in SUBSET Memory : world.order[C] \in [Memory -> Memory] /\ Keys(world.order[C], Memory)

\* Whatever is stored, the text index orders all of the memories.
LEMMA TextKeys ==
    ASSUME WorldInv, NEW pass, NEW S, S \subseteq Memory
    PROVE  Keys(TextOrder(pass), S)
<1> DEFINE f    == world.order[Stored]
           late == {m \in Memory : pass = "expanded" /\ m \notin world.mentions}
<1>1. f \in [Memory -> Memory] /\ \A m, n \in Memory : f[m] = f[n] => m = n
  BY DEF WorldInv, Stored, Keys
<1>2. \A m \in Memory : TextOrder(pass)[m] = f[m] + (IF m \in late THEN Size ELSE 0)
  BY DEF TextOrder
<1> HIDE DEF f, late
<1>3. \A m \in Memory : f[m] \in Nat /\ f[m] > 0 /\ f[m] <= Size
  BY <1>1, Numbers DEF Memory
<1>4. \A m \in Memory : TextOrder(pass)[m] \in Nat
  BY <1>2, <1>3, Numbers
<1>5. \A m, n \in Memory : TextOrder(pass)[m] = TextOrder(pass)[n] => f[m] = f[n]
  BY <1>2, <1>3, Numbers
<1> QED BY <1>1, <1>4, <1>5 DEF Keys

\* What sorting is given: two rankings, and memories that one of them holds.
Sortable(texts, near, S) ==
    Ranking(texts) /\ Ranking(near) /\ S \subseteq DOMAIN texts \cup DOMAIN near

LEMMA FoundOrder ==
    ASSUME NEW texts, NEW near, NEW S, Sortable(texts, near, S)
    PROVE  /\ \A m, n \in S : m # n => FoundFirst(texts, near, m, n) \/ FoundFirst(texts, near, n, m)
           /\ \A m, n \in S : ~(FoundFirst(texts, near, m, n) /\ FoundFirst(texts, near, n, m))
           /\ \A k, m, n \in S : FoundFirst(texts, near, k, m) /\ FoundFirst(texts, near, m, n)
                                    => FoundFirst(texts, near, k, n)
<1>1. \A m \in DOMAIN texts : texts[m] \in Nat
  BY DEF Sortable, Ranking, Keys
<1>2. \A m, n \in DOMAIN texts : texts[m] = texts[n] => m = n
  BY DEF Sortable, Ranking, Keys
<1>3. \A m : RankIn(near, m) \in Nat
  BY RankInRanks DEF Sortable
<1>4. \A m, n \in S \ DOMAIN texts : RankIn(near, m) = RankIn(near, n) => m = n
  BY DEF Sortable, RankIn, Ranking, Keys
<1>5. \A m, n \in S : m # n => FoundFirst(texts, near, m, n) \/ FoundFirst(texts, near, n, m)
  BY <1>1, <1>2, <1>3, <1>4 DEF FoundFirst
<1>6. \A m, n \in S : ~(FoundFirst(texts, near, m, n) /\ FoundFirst(texts, near, n, m))
  BY <1>1, <1>3 DEF FoundFirst
<1>7. \A k, m, n \in S : FoundFirst(texts, near, k, m) /\ FoundFirst(texts, near, m, n)
                            => FoundFirst(texts, near, k, n)
  BY <1>1, <1>3 DEF FoundFirst
<1> QED BY <1>5, <1>6, <1>7

LEMMA BeforeOrder ==
    ASSUME NEW texts, NEW near, NEW S, Sortable(texts, near, S), WorldInv
    PROVE  /\ \A m, n \in S : m # n => Before(texts, near, m, n) \/ Before(texts, near, n, m)
           /\ \A m, n \in S : ~(Before(texts, near, m, n) /\ Before(texts, near, n, m))
           /\ \A k, m, n \in S : Before(texts, near, k, m) /\ Before(texts, near, m, n)
                                    => Before(texts, near, k, n)
<1>1. \A m \in S : m \in Memory /\ world.merit[m] \in Nat /\ Fused(texts, near, m) \in Nat
  BY FusedScores DEF Sortable, Ranking, WorldInv
<1>2. \A m, n \in S : m # n => Before(texts, near, m, n) \/ Before(texts, near, n, m)
  BY <1>1, FoundOrder DEF Before
<1>3. \A m, n \in S : ~(Before(texts, near, m, n) /\ Before(texts, near, n, m))
  BY <1>1, FoundOrder DEF Before
<1>4. ASSUME NEW k \in S, NEW m \in S, NEW n \in S, Before(texts, near, k, m), Before(texts, near, m, n)
      PROVE  Before(texts, near, k, n)
  <2>1. FoundFirst(texts, near, k, m) /\ FoundFirst(texts, near, m, n) => FoundFirst(texts, near, k, n)
    BY FoundOrder
  <2> QED BY <2>1, <1>1, <1>4 DEF Before
<1> QED BY <1>2, <1>3, <1>4

\* Sorting ranks by the order, without gaps.
LEMMA SortedRanks ==
    ASSUME NEW texts, NEW near, NEW S, Sortable(texts, near, S), WorldInv
    PROVE  /\ Ranking(Sorted(texts, near, S)) /\ DOMAIN Sorted(texts, near, S) = S
           /\ \A m, n \in S : Sorted(texts, near, S)[m] < Sorted(texts, near, S)[n] <=> Before(texts, near, m, n)
           /\ \A k \in Nat : Numbered(First(k, Sorted(texts, near, S)), DOMAIN First(k, Sorted(texts, near, S)))
                                = First(k, Sorted(texts, near, S))
<1> DEFINE Ahead(m) == {n \in S : Before(texts, near, n, m)}
           r == Sorted(texts, near, S)
<1>1. r = [m \in S |-> 1 + Cardinality(Ahead(m))] /\ DOMAIN r = S /\ \A m \in S : r[m] = 1 + Cardinality(Ahead(m))
  BY DEF Sorted
<1>2. S \subseteq Memory
  BY DEF Sortable, Ranking
<1>3. \A m \in S : Ahead(m) \subseteq Memory /\ m \notin Ahead(m)
  BY <1>2, BeforeOrder
<1>4. \A m \in S : Cardinality(Ahead(m)) \in Nat /\ r[m] \in Nat /\ r[m] > 0
  BY <1>1, <1>3, FiniteMemories
<1>5. ASSUME NEW m \in S, NEW n \in S, Before(texts, near, m, n) PROVE r[m] < r[n]
  <2>1. Ahead(m) \subseteq Ahead(n)
    BY <1>5, BeforeOrder
  <2>2. m \in Ahead(n) /\ m \notin Ahead(m)
    BY <1>3, <1>5
  <2>3. Cardinality(Ahead(m)) < Cardinality(Ahead(n))
    BY <2>1, <2>2, <1>3, LargerSets
  <2> QED BY <2>3, <1>1, <1>4
<1> HIDE DEF r, Ahead
<1>6. ASSUME NEW m \in S, NEW n \in S, r[m] < r[n] PROVE Before(texts, near, m, n)
  <2>1. m # n /\ ~Before(texts, near, n, m)
    BY <1>4, <1>5, <1>6
  <2> QED BY <2>1, BeforeOrder
<1>7. \A m, n \in S : r[m] = r[n] => m = n
  <2> SUFFICES ASSUME NEW m \in S, NEW n \in S, m # n PROVE r[m] # r[n]
    OBVIOUS
  <2>1. Before(texts, near, m, n) \/ Before(texts, near, n, m)
    BY BeforeOrder
  <2> QED BY <2>1, <1>4, <1>5
<1>8. Ranking(r)
  <2>1. r = [m \in DOMAIN r |-> r[m]]
    BY <1>1
  <2> QED BY <2>1, <1>1, <1>2, <1>4, <1>7 DEF Ranking, Keys
<1>9. ASSUME NEW k \in Nat PROVE Numbered(First(k, r), DOMAIN First(k, r)) = First(k, r)
  <2> DEFINE f == First(k, r)
             D == DOMAIN f
  <2>1. Ranking(f) /\ D = {m \in S : r[m] <= k} /\ \A m \in D : f[m] = r[m]
    <3>1. Ranking(f)
      BY <1>8, FirstRanks
    <3>2. D = {m \in DOMAIN r : r[m] <= k}
      BY <1>8, FirstRanks
    <3>3. \A m \in D : f[m] = r[m]
      BY <1>8, FirstRanks
    <3> QED BY <3>1, <3>2, <3>3, <1>1
  <2> HIDE DEF f
  <2>2. ASSUME NEW m \in D PROVE Cardinality({n \in D : f[n] <= f[m]}) = f[m]
    <3>1. m \in S /\ r[m] <= k /\ r[m] \in Nat /\ f[m] = r[m]
      BY <2>1, <1>4
    <3>2. ASSUME NEW n PROVE (n \in D /\ f[n] <= f[m]) <=> (n \in Ahead(m) \/ n = m)
      <4>1. CASE n \in S
        <5>1. r[n] \in Nat /\ (r[n] < r[m] <=> Before(texts, near, n, m)) /\ (r[n] = r[m] <=> n = m)
          BY <4>1, <3>1, <1>4, <1>5, <1>6, <1>7
        <5>2. n \in D <=> r[n] <= k
          BY <4>1, <2>1
        <5>3. n \in Ahead(m) <=> Before(texts, near, n, m)
          BY <4>1 DEF Ahead
        <5> HIDE DEF D
        <5>4. CASE n \in D
          <6>1. f[n] = r[n]
            BY <2>1, <5>4
          <6> QED BY <6>1, <5>1, <5>3, <5>4, <3>1
        <5>5. CASE n \notin D
          BY <5>1, <5>2, <5>3, <5>5, <3>1
        <5> QED BY <5>4, <5>5
      <4>2. CASE n \notin S
        BY <4>2, <3>1, <2>1 DEF Ahead
      <4> QED BY <4>1, <4>2
    <3>3. {n \in D : f[n] <= f[m]} = Ahead(m) \cup {m}
      BY <3>2
    <3>4. IsFiniteSet(Ahead(m)) /\ m \notin Ahead(m) /\ Cardinality(Ahead(m)) \in Nat
      BY <3>1, <1>3, <1>4, FiniteMemories
    <3>5. Cardinality(Ahead(m) \cup {m}) = Cardinality(Ahead(m)) + 1
      BY <3>4, FS_AddElement
    <3>6. r[m] = 1 + Cardinality(Ahead(m))
      BY <3>1, <1>1
    <3> QED BY <3>3, <3>1, <3>4, <3>5, <3>6
  <2>3. Numbered(f, D) = [m \in D |-> f[m]]
    BY <2>2 DEF Numbered
  <2>4. f = [m \in D |-> f[m]]
    BY <2>1 DEF Ranking
  <2> QED BY <2>3, <2>4 DEF f
<1> QED BY <1>1, <1>5, <1>6, <1>8, <1>9 DEF r

LEMMA RankingSize ==
    ASSUME NEW r, Ranking(r), NEW n \in Nat, \A m \in DOMAIN r : r[m] <= n
    PROVE  Cardinality(DOMAIN r) <= n
<1>1. r \in Injection(DOMAIN r, 1 .. n)
  <2>1. \A m \in DOMAIN r : r[m] \in 1 .. n
    BY DEF Ranking, Keys
  <2>2. r \in [DOMAIN r -> 1 .. n]
    BY <2>1 DEF Ranking
  <2> QED BY <2>2 DEF Ranking, Keys, Injection, IsInjective
<1>2. IsFiniteSet(1 .. n) /\ Cardinality(1 .. n) = n
  BY FS_Interval
<1> QED BY <1>1, <1>2, FS_Injection

-----------------------------------------------------------------------------
(***************************************************************************)
(* The inductive invariant.                                                *)
(***************************************************************************)
Step     == {"idle", "text", "vectors", "fetch", "fuse", "mine", "touch", "filter", "done"}
Pass     == {"only", "mine", "expanded"}
Rankings == {f \in UNION {[S -> Nat] : S \in SUBSET Memory} : Ranking(f)}

Context == [step : Step, pass : Pass, limit : Nat, wanted : Wanted \cup {{}}, types : {{}, {"fact"}},
            texts : Rankings, near : Rankings, todo : SUBSET Memory, found : SUBSET Memory, ranked : Rankings]

TypeOK ==
    /\ acl \in BOOLEAN /\ WorldInv
    /\ rows \in [Memory -> {"active", "hidden", "absent"}]
    /\ vectors \subseteq Memory
    /\ call \in Context
    /\ answer \in Rankings
    /\ writes \in Nat

Searching == {"vectors", "fetch", "fuse"}
Ranked    == {"mine", "touch", "filter"}

\* The candidates are those of the indexes, no more.
FoundInv ==
    /\ At("vectors") => call.found = DOMAIN call.texts
    /\ At("fetch") \/ At("fuse") =>
          /\ DOMAIN call.texts \subseteq call.found
          /\ call.found \subseteq DOMAIN call.texts \cup DOMAIN call.near
          /\ call.todo \subseteq DOMAIN call.near
    /\ At("fuse") => call.todo = {}
    /\ At("mine") => call.pass = "mine"
    /\ call.step \notin {"idle", "text"} => \A m \in DOMAIN call.texts : call.texts[m] <= Pool(call.pass)

\* What nobody brought back is hidden still, and is no candidate; what nobody
\* recovered is deprecated still, and a fusion that sees the lifecycle leaves it out.
HiddenInv ==
    /\ hidden \subseteq Memory
    /\ ~At("idle") => condemned \subseteq deprecated /\ \A m \in hidden : rows[m] \notin call.wanted
    /\ call.step \in Searching => call.found \cap hidden = {}
    /\ call.step \in Ranked =>
          /\ DOMAIN call.ranked \cap hidden = {}
          /\ ~lenient => DOMAIN call.ranked \cap condemned = {}
    /\ NothingHidden

ReadableInv ==
    /\ ~At("idle") => Readable \subseteq readable
    /\ At("idle") => touched = {}
    /\ call.step \in {"touch", "filter"} /\ call.pass # "expanded" => DOMAIN call.ranked \subseteq readable
    /\ TouchedReadable

\* A ranking of results follows the order.
InOrder(ranks) == \A m, n \in DOMAIN ranks : ranks[m] < ranks[n] => Before(call.texts, call.near, m, n)

OrderInv ==
    /\ call.step \in Ranked => InOrder(call.ranked)
    /\ At("done") => InOrder(answer)

\* What the indexes answer when nobody writes.
Live       == {m \in Memory : rows[m] \in call.wanted}
TextAnswer == First(Pool("only"), Numbered(TextOrder("only"), {m \in world.hits : rows[m] \in call.wanted}))
NearAnswer == First(Pool("only"), Numbered(world.nearest, vectors))

Unwritten == acl /\ call.pass = "only" /\ writes = 0

SameInv ==
    /\ Unwritten /\ call.step \in Searching => call.texts = TextAnswer
    /\ Unwritten /\ (At("fetch") \/ At("fuse")) =>
          /\ call.near = NearAnswer
          /\ call.found = DOMAIN call.texts \cup ((DOMAIN call.near \ call.todo) \cap Live)
    /\ Unwritten /\ call.step \in {"touch", "filter"} /\ ~PoolFull =>
          call.ranked = RankingOf(Readable, Barred(lenient))
    /\ SameAnswer

IInv == TypeOK /\ FoundInv /\ HiddenInv /\ ReadableInv /\ OrderInv /\ SameInv

-----------------------------------------------------------------------------
(***************************************************************************)
(* What the actions do.                                                    *)
(***************************************************************************)
LEMMA RankingsAre == \A f : f \in Rankings <=> Ranking(f)
<1> SUFFICES ASSUME NEW f, Ranking(f) PROVE f \in Rankings
  BY DEF Rankings
<1>1. f \in [DOMAIN f -> Nat] /\ DOMAIN f \in SUBSET Memory
  BY DEF Ranking, Keys
<1> QED BY <1>1 DEF Rankings

\* The fields of a call.
LEMMA Fields ==
    ASSUME NEW c \in Context
    PROVE  /\ c.step \in Step /\ c.pass \in Pass /\ c.limit \in Nat /\ c.wanted \in Wanted \cup {{}}
           /\ c.types \in {{}, {"fact"}} /\ Ranking(c.texts) /\ Ranking(c.near) /\ Ranking(c.ranked)
           /\ c.todo \subseteq Memory /\ c.found \subseteq Memory
BY RankingsAre DEF Context

\* The configuration, the world and the clock of writes.
Settled == acl' = acl /\ world' = world

\* A step of the call itself writes nothing of the stores.
Quiet == /\ Settled /\ rows' = rows /\ vectors' = vectors /\ deprecated' = deprecated /\ grant' = grant
         /\ writes' = writes

KeepsQuestion == call'.limit = call.limit /\ call'.wanted = call.wanted /\ call'.types = call.types
KeepsHistory  == hidden' = hidden /\ condemned' = condemned /\ lenient' = lenient /\ readable' = readable
KeepsResults  == touched' = touched /\ answer' = answer

\* A step of the search, from one step of it to another.
Moves(from, to) == call.step = from /\ call'.step = to

LEMMA InitInv == Init => IInv
<1> SUFFICES ASSUME Init PROVE IInv
  OBVIOUS
<1>1. WorldInv
  <2>1. world.merit \in Merits /\ world.mentions \in MentionSets /\ world.hits \subseteq Memory
        /\ world.nearest \in [Memory -> Memory] /\ \A m, n \in Memory : world.nearest[m] = world.nearest[n] => m = n
    BY Numbers DEF Init, World, Memory
  <2>2. world.merit \in [Memory -> Nat] /\ world.mentions \subseteq Memory
    BY <2>1, WorldAssumption DEF Memory
  <2>3. Memory \subseteq Nat
    BY DEF Memory
  <2>4. ASSUME NEW C \in SUBSET Memory PROVE world.order[C] \in [Memory -> Memory] /\ Keys(world.order[C], Memory)
    <3>1. world.order \in Orders
      BY DEF Init, World
    <3>2. world.order[C] \in [Memory -> Memory] /\ \A m, n \in Memory : world.order[C][m] = world.order[C][n] => m = n
      BY <3>1, WorldAssumption DEF Memory
    <3> QED BY <3>2, <2>3 DEF Keys
  <2> QED BY <2>1, <2>2, <2>3, <2>4 DEF WorldInv, Keys
<1>2. call \in Context /\ call = Idle
  <2>1. Unranked \in Rankings
    BY NoRanks, RankingsAre
  <2> QED BY <2>1 DEF Init, Idle, Context, Step, Pass, Wanted
<1>3. rows \in [Memory -> {"active", "hidden", "absent"}] /\ vectors \subseteq Memory
  BY WorldAssumption DEF Init, Memory
<1>4. TypeOK
  BY <1>1, <1>2, <1>3, NoRanks, RankingsAre DEF Init, TypeOK
<1>5. call.step = "idle" /\ touched = {}
  BY <1>2 DEF Idle, Init
<1>6. FoundInv /\ HiddenInv /\ OrderInv /\ SameInv
  BY <1>5 DEF FoundInv, HiddenInv, OrderInv, SameInv, At, Searching, Ranked, NothingHidden, SameAnswer, Init
<1>7. ReadableInv
  BY <1>5 DEF ReadableInv, At, TouchedReadable
<1> QED BY <1>4, <1>6, <1>7 DEF IInv

LEMMA RecallEffect ==
    ASSUME TypeOK, Recall
    PROVE  /\ Quiet /\ KeepsResults /\ Moves("idle", "text") /\ call' \in Context
           /\ call'.pass \in {"only", "mine"} /\ call'.wanted \in Wanted
           /\ hidden' = Hidden(call'.wanted) /\ condemned' = deprecated /\ readable' = Readable
<1>1. PICK limit \in Limits, w \in Wanted, types \in {{}, {"fact"}} :
          /\ call' = [Idle EXCEPT !.step = "text", !.limit = limit, !.wanted = w, !.types = types,
                                  !.pass = IF expansion THEN "mine" ELSE "only"]
          /\ hidden' = Hidden(w)
  BY DEF Recall
<1>2. call' = [step |-> "text", pass |-> IF expansion THEN "mine" ELSE "only", limit |-> limit, wanted |-> w,
               types |-> types, texts |-> Unranked, near |-> Unranked, todo |-> {}, found |-> {}, ranked |-> Unranked]
  BY <1>1 DEF Idle
<1>3. limit \in Nat /\ Unranked \in Rankings
  BY Numbers, NoRanks, RankingsAre
<1>4. call' \in Context
  BY <1>2, <1>3 DEF Context, Step, Pass
<1>5. call'.step = "text" /\ call'.pass \in {"only", "mine"} /\ call'.wanted = w
  BY <1>2
<1>6. Quiet /\ KeepsResults /\ call.step = "idle" /\ condemned' = deprecated /\ readable' = Readable
  BY DEF Recall, Quiet, Settled, KeepsResults, results, store, At
<1> QED BY <1>1, <1>4, <1>5, <1>6 DEF Moves

LEMMA SearchTextEffect ==
    ASSUME TypeOK, SearchText
    PROVE  /\ Quiet /\ KeepsResults /\ KeepsHistory /\ KeepsQuestion /\ Moves("text", "vectors") /\ call' \in Context
           /\ call'.pass = call.pass /\ call'.found = DOMAIN call'.texts
           /\ call'.texts = First(Pool(call.pass), Numbered(TextOrder(call.pass),
                                        {m \in TextHits(call.pass) : rows[m] \in call.wanted}))
           /\ \A m \in DOMAIN call'.texts : m \in Memory /\ rows[m] \in call.wanted
                                            /\ call'.texts[m] <= Pool(call.pass)
<1> DEFINE live  == {m \in TextHits(call.pass) : rows[m] \in call.wanted}
           n     == Numbered(TextOrder(call.pass), live)
           texts == First(Pool(call.pass), n)
<1>1. call' = [call EXCEPT !.texts = texts, !.found = DOMAIN texts, !.step = "vectors"]
  BY DEF SearchText
<1>2. live \subseteq Memory /\ Keys(TextOrder(call.pass), live)
  <2>1. live \subseteq Memory /\ WorldInv
    BY DEF TypeOK, WorldInv, TextHits
  <2> HIDE DEF live
  <2> QED BY <2>1, TextKeys
<1>3. Ranking(n) /\ DOMAIN n = live
  BY <1>2, NumberedRanks
<1>4. Pool(call.pass) \in Nat
  BY Numbers, Fields DEF TypeOK, Pool, PassLimit
<1>5. Ranking(texts) /\ DOMAIN texts \subseteq live /\ \A m \in DOMAIN texts : texts[m] <= Pool(call.pass)
  BY <1>3, <1>4, FirstRanks
<1> HIDE DEF texts, n, live
<1>6. texts \in Rankings /\ DOMAIN texts \in SUBSET Memory
  BY <1>2, <1>5, RankingsAre
<1>7. call' \in Context
  BY <1>1, <1>6 DEF TypeOK, Context, Step
<1>8. /\ call'.texts = texts /\ call'.found = DOMAIN texts /\ call'.pass = call.pass /\ KeepsQuestion
      /\ call'.step = "vectors"
  BY <1>1 DEF TypeOK, Context, KeepsQuestion
<1>9. Quiet /\ KeepsResults /\ KeepsHistory /\ call.step = "text"
  BY DEF SearchText, Quiet, Settled, KeepsResults, KeepsHistory, results, history, store, At
<1>10. \A m \in live : m \in Memory /\ rows[m] \in call.wanted
  BY <1>2 DEF live
<1> QED BY <1>5, <1>7, <1>8, <1>9, <1>10 DEF Moves, texts, n, live

LEMMA SearchVectorsEffect ==
    ASSUME TypeOK, SearchVectors
    PROVE  /\ Quiet /\ KeepsResults /\ KeepsHistory /\ KeepsQuestion /\ Moves("vectors", "fetch") /\ call' \in Context
           /\ call'.pass = call.pass /\ call'.found = call.found /\ call'.texts = call.texts
           /\ call'.near = First(Pool(call.pass), Numbered(world.nearest, vectors))
           /\ call'.todo = DOMAIN call'.near \ call.found
<1> DEFINE n    == Numbered(world.nearest, vectors)
           near == First(Pool(call.pass), n)
<1>1. call' = [call EXCEPT !.near = near, !.todo = DOMAIN near \ call.found, !.step = "fetch"]
  BY DEF SearchVectors
<1>2. vectors \subseteq Memory /\ Keys(world.nearest, vectors)
  BY DEF TypeOK, WorldInv, Keys
<1>3. Ranking(n)
  BY <1>2, NumberedRanks
<1>4. Pool(call.pass) \in Nat
  BY Numbers, Fields DEF TypeOK, Pool, PassLimit
<1>5. Ranking(near)
  BY <1>3, <1>4, FirstRanks
<1> HIDE DEF near, n
<1>6. near \in Rankings /\ DOMAIN near \ call.found \in SUBSET Memory
  BY <1>5, RankingsAre DEF Ranking
<1>7. call' \in Context
  BY <1>1, <1>6 DEF TypeOK, Context, Step
<1>8. /\ call'.near = near /\ call'.todo = DOMAIN near \ call.found /\ call'.found = call.found
      /\ call'.texts = call.texts /\ call'.pass = call.pass /\ KeepsQuestion /\ call'.step = "fetch"
  BY <1>1 DEF TypeOK, Context, KeepsQuestion
<1>9. Quiet /\ KeepsResults /\ KeepsHistory /\ call.step = "vectors"
  BY DEF SearchVectors, Quiet, Settled, KeepsResults, KeepsHistory, results, history, store, At
<1> QED BY <1>7, <1>8, <1>9 DEF Moves, near, n

LEMMA FetchEffect ==
    ASSUME TypeOK, Fetch
    PROVE  /\ Quiet /\ KeepsResults /\ KeepsHistory /\ KeepsQuestion /\ call.step = "fetch" /\ call' \in Context
           /\ call'.pass = call.pass /\ call'.texts = call.texts /\ call'.near = call.near
           /\ \/ call'.step = "fuse" /\ call.todo = {} /\ call'.todo = {} /\ call'.found = call.found
              \/ /\ call'.step = "fetch"
                 /\ \E m \in call.todo :
                       /\ call'.todo = call.todo \ {m}
                       /\ call'.found = IF rows[m] \in call.wanted THEN call.found \cup {m} ELSE call.found
<1>1. Quiet /\ KeepsResults /\ KeepsHistory /\ call.step = "fetch"
  BY DEF Fetch, Quiet, Settled, KeepsResults, KeepsHistory, results, history, store, At
<1>2. call \in Context /\ call.todo \subseteq Memory /\ call.found \subseteq Memory
  BY Fields DEF TypeOK
<1>3. CASE call.todo = {} /\ Goto("fuse")
  <2>1. call' = [call EXCEPT !.step = "fuse"]
    BY <1>3 DEF Goto
  <2>2. call' \in Context
    BY <1>2, <2>1 DEF Context, Step
  <2>3. /\ call'.step = "fuse" /\ call'.todo = call.todo /\ call'.found = call.found
        /\ call'.pass = call.pass /\ call'.texts = call.texts /\ call'.near = call.near /\ KeepsQuestion
    BY <1>2, <2>1 DEF Context, KeepsQuestion
  <2> QED BY <1>1, <1>3, <2>2, <2>3
<1>4. ASSUME NEW m \in call.todo,
             call' = [call EXCEPT !.todo = @ \ {m}, !.found = IF Retrieved(m) THEN @ \cup {m} ELSE @]
      PROVE  /\ call' \in Context /\ KeepsQuestion /\ call'.step = call.step
             /\ call'.pass = call.pass /\ call'.texts = call.texts /\ call'.near = call.near
             /\ call'.todo = call.todo \ {m}
             /\ call'.found = IF rows[m] \in call.wanted THEN call.found \cup {m} ELSE call.found
  <2> DEFINE found == IF rows[m] \in call.wanted THEN call.found \cup {m} ELSE call.found
  <2>1. found \subseteq Memory
    BY <1>2
  <2>2. call' = [call EXCEPT !.todo = call.todo \ {m}, !.found = found]
    BY <1>4 DEF Retrieved
  <2> HIDE DEF found
  <2>3. call' \in Context
    BY <1>2, <2>1, <2>2 DEF Context
  <2>4. /\ KeepsQuestion /\ call'.step = call.step
        /\ call'.pass = call.pass /\ call'.texts = call.texts /\ call'.near = call.near
        /\ call'.todo = call.todo \ {m} /\ call'.found = found
    BY <1>2, <2>2 DEF Context, KeepsQuestion
  <2> QED BY <2>3, <2>4 DEF found
<1>5. CASE \E m \in call.todo :
             /\ \A n \in call.todo : call.near[m] <= call.near[n]
             /\ call' = [call EXCEPT !.todo = @ \ {m}, !.found = IF Retrieved(m) THEN @ \cup {m} ELSE @]
  <2>1. PICK m \in call.todo :
             call' = [call EXCEPT !.todo = @ \ {m}, !.found = IF Retrieved(m) THEN @ \cup {m} ELSE @]
    BY <1>5
  <2> QED BY <1>1, <1>4, <2>1
<1> QED BY <1>3, <1>5 DEF Fetch

LEMMA FuseEffect ==
    ASSUME TypeOK, FoundInv, Fuse
    PROVE  /\ Quiet /\ KeepsResults /\ KeepsQuestion /\ call.step = "fuse" /\ call' \in Context
           /\ hidden' = hidden /\ condemned' = condemned /\ readable' = readable
           /\ call'.pass = call.pass
           /\ call'.step = IF call.pass = "mine" THEN "mine" ELSE "touch"
           /\ call'.texts = RankedOver(call.texts) /\ call'.near = RankedOver(call.near)
           /\ \A m \in DOMAIN call'.texts : call'.texts[m] <= Pool(call.pass)
           /\ \E failed \in BOOLEAN :
                 LET S == {m \in Filtered(call.found) : Admitted(call.types, Barred(failed), m)} IN
                 /\ lenient' = failed
                 /\ call'.ranked = First(PassLimit(call.pass), Sorted(call'.texts, call'.near, S))
                 /\ DOMAIN call'.ranked \subseteq S
           /\ InOrder(call.ranked)'
<1>0. PICK failed \in BOOLEAN :
          LET found  == Filtered(call.found)
              texts  == RankedOver(call.texts)
              near   == RankedOver(call.near)
              S      == {m \in found : Admitted(call.types, Barred(failed), m)} IN
          /\ lenient' = failed
          /\ call' = [call EXCEPT !.texts = texts, !.near = near, !.found = found,
                        !.ranked = First(PassLimit(call.pass), Sorted(texts, near, S)),
                        !.step = IF call.pass = "mine" THEN "mine" ELSE "touch"]
  BY DEF Fuse
<1> DEFINE found  == Filtered(call.found)
           texts  == RankedOver(call.texts)
           near   == RankedOver(call.near)
           S      == {m \in found : Admitted(call.types, Barred(failed), m)}
           sorted == Sorted(texts, near, S)
           ranked == First(PassLimit(call.pass), sorted)
           step   == IF call.pass = "mine" THEN "mine" ELSE "touch"
<1>1. /\ Quiet /\ KeepsResults /\ call.step = "fuse"
      /\ hidden' = hidden /\ condemned' = condemned /\ readable' = readable
  BY DEF Fuse, Quiet, Settled, KeepsResults, results, store, At
<1>2. call' = [call EXCEPT !.texts = texts, !.near = near, !.found = found, !.ranked = ranked, !.step = step] /\ lenient' = failed
  BY <1>0
<1>3. /\ call \in Context /\ Ranking(call.texts) /\ Ranking(call.near) /\ call.found \subseteq Memory
      /\ PassLimit(call.pass) \in Nat /\ Pool(call.pass) \in Nat
  BY Fields, Numbers DEF TypeOK, PassLimit, Pool
<1>4. /\ call.found \subseteq DOMAIN call.texts \cup DOMAIN call.near
      /\ \A m \in DOMAIN call.texts : call.texts[m] <= Pool(call.pass)
  BY <1>1 DEF FoundInv, At
<1>5. /\ Ranking(texts) /\ Ranking(near)
      /\ \A m \in DOMAIN texts : texts[m] <= Pool(call.pass)
      /\ found \subseteq call.found /\ found \subseteq DOMAIN texts \cup DOMAIN near
  <2>1. CASE call.pass = "only" /\ acl
    <3> DEFINE R == Readable \cap call.found
    <3>1. texts = Only(call.texts, R) /\ near = Only(call.near, R) /\ found = R
      BY <2>1 DEF RankedOver, Renumbered, Filtered
    <3>2. Ranking(texts) /\ DOMAIN texts = R \cap DOMAIN call.texts
      <4>1. Ranking(Only(call.texts, R)) /\ DOMAIN Only(call.texts, R) = R \cap DOMAIN call.texts
        BY <1>3, OnlyRanks
      <4> HIDE DEF R, texts
      <4> QED BY <3>1, <4>1
    <3>3. Ranking(near) /\ DOMAIN near = R \cap DOMAIN call.near
      <4>1. Ranking(Only(call.near, R)) /\ DOMAIN Only(call.near, R) = R \cap DOMAIN call.near
        BY <1>3, OnlyRanks
      <4> HIDE DEF R, near
      <4> QED BY <3>1, <4>1
    <3>4. found \subseteq call.found /\ found \subseteq DOMAIN texts \cup DOMAIN near
      BY <3>1, <3>2, <3>3, <1>4
    <3>5. ASSUME NEW m \in DOMAIN texts PROVE texts[m] <= Pool(call.pass)
      <4>1. texts[m] <= Cardinality(R \cap DOMAIN call.texts)
        BY <3>1, <3>2, <3>5, <1>3, OnlyRanks
      <4>2. DOMAIN call.texts \subseteq Memory /\ texts[m] \in Nat
        BY <1>3, <3>2, <3>5 DEF Ranking, Keys
      <4>3. /\ Cardinality(R \cap DOMAIN call.texts) <= Cardinality(DOMAIN call.texts)
            /\ Cardinality(R \cap DOMAIN call.texts) \in Nat /\ Cardinality(DOMAIN call.texts) \in Nat
        BY <4>2, LargerSets, FiniteMemories
      <4>4. Cardinality(DOMAIN call.texts) <= Pool(call.pass)
        BY <1>3, <1>4, RankingSize
      <4> HIDE DEF R, texts
      <4> QED BY <4>1, <4>2, <4>3, <4>4, <1>3
    <3> QED BY <3>2, <3>3, <3>4, <3>5
  <2>2. CASE ~(call.pass = "only" /\ acl)
    <3>1. texts = call.texts /\ near = call.near
      BY <2>2 DEF RankedOver
    <3>2. found \subseteq call.found
      BY DEF Filtered
    <3> QED BY <3>1, <3>2, <1>3, <1>4
  <2> QED BY <2>1, <2>2
<1> HIDE DEF texts, near, found
<1>6. Sortable(texts, near, S) /\ WorldInv
  BY <1>5 DEF Sortable, TypeOK
<1>7. Ranking(sorted) /\ DOMAIN sorted = S
  BY <1>6, SortedRanks
<1>8. \A m, n \in S : sorted[m] < sorted[n] <=> Before(texts, near, m, n)
  BY <1>6, SortedRanks
<1> HIDE DEF sorted
<1>9. Ranking(ranked) /\ DOMAIN ranked \subseteq S /\ \A m \in DOMAIN ranked : ranked[m] = sorted[m]
  BY <1>3, <1>7, FirstRanks
<1> HIDE DEF ranked, S
<1>10. \A m, n \in DOMAIN ranked : ranked[m] < ranked[n] => Before(texts, near, m, n)
  BY <1>8, <1>9
<1>11. texts \in Rankings /\ near \in Rankings /\ ranked \in Rankings /\ found \in SUBSET Memory /\ step \in Step
  BY <1>3, <1>5, <1>9, RankingsAre DEF Step
<1> HIDE DEF step
<1>12. call' \in Context
  BY <1>2, <1>3, <1>11 DEF Context
<1>13. /\ call'.texts = texts /\ call'.near = near /\ call'.ranked = ranked /\ call'.step = step
       /\ call'.pass = call.pass /\ KeepsQuestion
  BY <1>2, <1>3 DEF Context, KeepsQuestion
<1>14. InOrder(call.ranked)'
  <2>1. world' = world
    BY <1>1 DEF Quiet, Settled
  <2>2. \A m, n : Before(texts, near, m, n) => Before(call.texts, call.near, m, n)'
    BY <1>13, <2>1 DEF Before, Fused, FoundFirst, RankIn
  <2> QED BY <1>10, <1>13, <2>2 DEF InOrder
<1>15. /\ lenient' = failed /\ DOMAIN ranked \subseteq S
       /\ ranked = First(PassLimit(call.pass), Sorted(texts, near, S))
  BY <1>2, <1>9 DEF ranked, sorted
<1>16. /\ lenient' = failed
       /\ call'.ranked = First(PassLimit(call.pass), Sorted(call'.texts, call'.near,
                                {m \in Filtered(call.found) : Admitted(call.types, Barred(failed), m)}))
       /\ DOMAIN call'.ranked \subseteq {m \in Filtered(call.found) : Admitted(call.types, Barred(failed), m)}
  BY <1>13, <1>15 DEF S, found
<1>17. call'.texts = RankedOver(call.texts) /\ call'.near = RankedOver(call.near)
  BY <1>13 DEF texts, near
<1>18. \A m \in DOMAIN call'.texts : call'.texts[m] <= Pool(call.pass)
  BY <1>5, <1>13
<1>19. call'.step = IF call.pass = "mine" THEN "mine" ELSE "touch"
  BY <1>13 DEF step
<1> QED BY <1>1, <1>12, <1>13, <1>14, <1>16, <1>17, <1>18, <1>19

\* Results that are cut out of results stay in order.
LEMMA OnlyInOrder ==
    ASSUME NEW r, Ranking(r), InOrder(r), NEW S
    PROVE  InOrder(Only(r, S))
<1> DEFINE o == Only(r, S)
<1>1. DOMAIN o = S \cap DOMAIN r /\ Ranking(o)
  BY OnlyRanks
<1>2. \A m, n \in S \cap DOMAIN r : o[m] <= o[n] <=> r[m] <= r[n]
  BY OnlyRanks
<1> HIDE DEF o
<1>3. ASSUME NEW m \in DOMAIN o, NEW n \in DOMAIN o, o[m] < o[n] PROVE Before(call.texts, call.near, m, n)
  <2>1. m \in DOMAIN r /\ n \in DOMAIN r /\ o[m] \in Nat /\ o[n] \in Nat /\ r[m] \in Nat /\ r[n] \in Nat
    BY <1>1 DEF Ranking, Keys
  <2>2. ~(r[n] <= r[m])
    BY <1>1, <1>2, <1>3, <2>1
  <2> QED BY <2>1, <2>2 DEF InOrder
<1> QED BY <1>3 DEF InOrder, o

LEMMA MineEffect ==
    ASSUME TypeOK, OrderInv, Mine
    PROVE  /\ Quiet /\ KeepsResults /\ KeepsHistory /\ KeepsQuestion /\ call.step = "mine" /\ call' \in Context
           /\ \/ call'.step = "text" /\ call'.pass = "expanded"
              \/ /\ call'.step = "touch" /\ call'.pass = call.pass
                 /\ call'.texts = call.texts /\ call'.near = call.near
                 /\ DOMAIN call'.ranked \subseteq DOMAIN call.ranked \cap Readable
                 /\ InOrder(call.ranked)'
<1> DEFINE only   == Only(call.ranked, Readable)
           ranked == First(call.limit, only)
<1>1. Quiet /\ KeepsResults /\ KeepsHistory /\ call.step = "mine"
  BY DEF Mine, Quiet, Settled, KeepsResults, KeepsHistory, results, history, store, At
<1>2. call \in Context /\ Ranking(call.ranked) /\ call.limit \in Nat /\ InOrder(call.ranked)
  BY <1>1, Fields DEF TypeOK, OrderInv, Ranked
<1>3. CASE call' = [call EXCEPT !.pass = "expanded", !.step = "text", !.ranked = Unranked]
  <2>1. Unranked \in Rankings
    BY NoRanks, RankingsAre
  <2>2. call' \in Context
    BY <1>2, <1>3, <2>1 DEF Context, Step, Pass
  <2>3. call'.step = "text" /\ call'.pass = "expanded" /\ KeepsQuestion
    BY <1>2, <1>3 DEF Context, KeepsQuestion
  <2> QED BY <1>1, <2>2, <2>3
<1>4. CASE call' = [call EXCEPT !.ranked = ranked, !.step = "touch"]
  <2>1. Ranking(only) /\ DOMAIN only = Readable \cap DOMAIN call.ranked /\ InOrder(only)
    BY <1>2, OnlyRanks, OnlyInOrder
  <2> HIDE DEF only
  <2>2. Ranking(ranked) /\ DOMAIN ranked \subseteq DOMAIN only /\ \A m \in DOMAIN ranked : ranked[m] = only[m]
    BY <1>2, <2>1, FirstRanks
  <2> HIDE DEF ranked
  <2>3. InOrder(ranked)
    BY <2>1, <2>2 DEF InOrder
  <2>4. call' \in Context
    BY <1>2, <1>4, <2>2, RankingsAre DEF Context, Step
  <2>5. /\ call'.step = "touch" /\ call'.pass = call.pass /\ call'.texts = call.texts /\ call'.near = call.near
        /\ call'.ranked = ranked /\ KeepsQuestion
    BY <1>2, <1>4 DEF Context, KeepsQuestion
  <2>6. \A m, n : Before(call.texts, call.near, m, n) => Before(call.texts, call.near, m, n)'
    BY <1>1, <2>5 DEF Before, Fused, FoundFirst, RankIn, Quiet, Settled
  <2>7. InOrder(call.ranked)'
    BY <2>3, <2>5, <2>6 DEF InOrder
  <2> QED BY <1>1, <2>1, <2>2, <2>4, <2>5, <2>7
<1> QED BY <1>3, <1>4 DEF Mine

\* The two last steps keep the results, or what the caller may read of them.
KeepsSearch == /\ call'.pass = call.pass /\ call'.texts = call.texts /\ call'.near = call.near
               /\ call'.ranked = call.ranked

LEMMA TouchEffect ==
    ASSUME TypeOK, Touch
    PROVE  /\ Quiet /\ KeepsHistory /\ KeepsQuestion /\ KeepsSearch /\ Moves("touch", "filter") /\ call' \in Context
           /\ touched' = DOMAIN call.ranked /\ answer' = answer
<1>1. Quiet /\ KeepsHistory /\ call.step = "touch" /\ touched' = DOMAIN call.ranked /\ answer' = answer
  BY DEF Touch, Quiet, Settled, KeepsHistory, history, store, At
<1>2. call' = [call EXCEPT !.step = "filter"] /\ call \in Context
  BY DEF Touch, Goto, TypeOK
<1>3. call' \in Context /\ call'.step = "filter" /\ KeepsQuestion /\ KeepsSearch
  BY <1>2 DEF Context, Step, KeepsQuestion, KeepsSearch
<1> QED BY <1>1, <1>3 DEF Moves

LEMMA ReturnEffect ==
    ASSUME TypeOK, Return
    PROVE  /\ Quiet /\ KeepsHistory /\ KeepsQuestion /\ KeepsSearch /\ Moves("filter", "done") /\ call' \in Context
           /\ touched' = touched /\ answer' = Only(call.ranked, Readable)
           /\ Ranking(answer') /\ DOMAIN answer' = Readable \cap DOMAIN call.ranked
<1>1. /\ Quiet /\ KeepsHistory /\ call.step = "filter" /\ touched' = touched
      /\ answer' = Only(call.ranked, Readable)
  BY DEF Return, Quiet, Settled, KeepsHistory, history, store, At
<1>2. call' = [call EXCEPT !.step = "done"] /\ call \in Context
  BY DEF Return, Goto, TypeOK
<1>3. call' \in Context /\ call'.step = "done" /\ KeepsQuestion /\ KeepsSearch
  BY <1>2 DEF Context, Step, KeepsQuestion, KeepsSearch
<1>4. Ranking(answer') /\ DOMAIN answer' = Readable \cap DOMAIN call.ranked
  BY <1>1, <1>2, Fields, OnlyRanks
<1> QED BY <1>1, <1>3, <1>4 DEF Moves

\* A write by others: what is brought back or recovered is no longer called hidden or
\* condemned, and the new grant is remembered.
OthersWrite == Suppress \/ Delete \/ DeleteVector \/ BringBack \/ InsertVector \/ Deprecate \/ Recover \/ SetGrant

LEMMA OthersEffect ==
    ASSUME TypeOK, OthersWrite
    PROVE  /\ Settled /\ call' = call /\ KeepsResults /\ lenient' = lenient
           /\ hidden' \subseteq hidden /\ condemned' \subseteq condemned
           /\ writes' \in Nat /\ writes' > 0 /\ call.step \notin {"idle", "done"}
           /\ rows' \in [Memory -> {"active", "hidden", "absent"}] /\ vectors' \subseteq Memory
           /\ \A m \in Memory : m \in hidden' /\ rows[m] \notin call.wanted => rows'[m] \notin call.wanted
           /\ condemned \subseteq deprecated => condemned' \subseteq deprecated'
           /\ readable \subseteq readable'
           /\ Readable' \subseteq Readable \cup readable'
<1>1. /\ writes \in Nat /\ rows \in [Memory -> {"active", "hidden", "absent"}] /\ vectors \subseteq Memory
      /\ call.wanted \in {{}, {"active"}, {"active", "hidden"}}
  BY Fields DEF TypeOK, Wanted
<1> USE DEF Write, Settled, KeepsResults, results, history
<1>2. CASE Suppress
  <2>1. PICK m \in Memory : rows[m] = "active" /\ rows' = [rows EXCEPT ![m] = "hidden"]
    BY <1>2 DEF Suppress
  <2>2. rows' \in [Memory -> {"active", "hidden", "absent"}]
        /\ \A n \in Memory : rows[n] \notin call.wanted => rows'[n] \notin call.wanted
    BY <1>1, <2>1
  <2> QED BY <1>1, <1>2, <2>2 DEF Suppress, Readable, MayRead, MayReadUnder
<1>3. CASE Delete
  <2>1. PICK m \in Memory : rows[m] # "absent" /\ rows' = [rows EXCEPT ![m] = "absent"]
    BY <1>3 DEF Delete
  <2>2. rows' \in [Memory -> {"active", "hidden", "absent"}]
        /\ \A n \in Memory : rows[n] \notin call.wanted => rows'[n] \notin call.wanted
    BY <1>1, <2>1
  <2> QED BY <1>1, <1>3, <2>2 DEF Delete, Readable, MayRead, MayReadUnder
<1>4. CASE DeleteVector
  BY <1>1, <1>4 DEF DeleteVector, Readable, MayRead, MayReadUnder
<1>5. CASE Deprecate
  BY <1>1, <1>5 DEF Deprecate, Readable, MayRead, MayReadUnder
<1>7. CASE BringBack
  <2>1. PICK m \in Memory, s \in {"active", "hidden"} :
             /\ rows' = [rows EXCEPT ![m] = s]
             /\ hidden' = IF s \in call.wanted THEN hidden \ {m} ELSE hidden
    BY <1>7 DEF BringBack
  <2>2. rows' \in [Memory -> {"active", "hidden", "absent"}] /\ hidden' \subseteq hidden
        /\ \A n \in Memory : n \in hidden' /\ rows[n] \notin call.wanted => rows'[n] \notin call.wanted
    BY <1>1, <2>1
  <2> QED BY <1>1, <1>7, <2>2 DEF BringBack, Readable, MayRead, MayReadUnder
<1>8. CASE InsertVector
  BY <1>1, <1>8 DEF InsertVector, Readable, MayRead, MayReadUnder
<1>9. CASE Recover
  <2>1. condemned' \subseteq condemned /\ (condemned \subseteq deprecated => condemned' \subseteq deprecated')
    BY <1>9 DEF Recover
  <2> QED BY <1>1, <1>9, <2>1 DEF Recover, Readable, MayRead, MayReadUnder
<1>6. CASE SetGrant
  <2>1. PICK g \in {"own", "all", "none"} \ {grant} :
             grant' = g /\ readable' = readable \cup {m \in Memory : MayReadUnder(g, m)}
    BY <1>6 DEF SetGrant
  <2>2. acl' = acl /\ world' = world
    BY <1>6 DEF SetGrant
  <2>3. Readable' \subseteq readable'
    BY <2>1, <2>2 DEF Readable, MayRead, MayReadUnder
  <2> QED BY <1>1, <1>6, <2>1, <2>2, <2>3 DEF SetGrant
<1> QED BY <1>2, <1>3, <1>4, <1>5, <1>6, <1>7, <1>8, <1>9 DEF OthersWrite

-----------------------------------------------------------------------------
(***************************************************************************)
(* Every step keeps the invariant.                                         *)
(***************************************************************************)
LEMMA TypeStep ==
    ASSUME TypeOK, Settled, rows' \in [Memory -> {"active", "hidden", "absent"}], vectors' \subseteq Memory,
           call' \in Context, Ranking(answer'), writes' \in Nat
    PROVE  TypeOK'
BY RankingsAre DEF TypeOK, Settled, WorldInv, Rankings, Context

LEMMA QuietType ==
    ASSUME TypeOK, Quiet, call' \in Context, answer' = answer
    PROVE  TypeOK'
BY TypeStep, RankingsAre DEF TypeOK, Quiet

LEMMA QuietReadable == Quiet => Readable' = Readable
BY DEF Quiet, Settled, Readable, MayRead, MayReadUnder

LEMMA QuietRanking ==
    ASSUME Quiet, KeepsQuestion, NEW barred
    PROVE  RankingOf(Readable, barred)' = RankingOf(Readable, barred) /\ PoolFull' = PoolFull
<1>1. /\ world' = world /\ rows' = rows /\ vectors' = vectors /\ deprecated' = deprecated
      /\ call'.limit = call.limit /\ call'.wanted = call.wanted /\ call'.types = call.types
  BY DEF Quiet, Settled, KeepsQuestion
<1>2. Readable' = Readable
  BY QuietReadable
<1>3. RankingOf(Readable, barred)' = RankingOf(Readable, barred)
  BY <1>1, <1>2 DEF RankingOf, First, Sorted, Before, Fused, FoundFirst, RankIn, Numbered, TextOrder, Stored, Admitted
<1>4. PoolFull' = PoolFull
  BY <1>1 DEF PoolFull, Pool, PassLimit
<1> QED BY <1>3, <1>4

LEMMA RecallStep == IInv /\ Recall => IInv'
<1> SUFFICES ASSUME IInv, Recall PROVE IInv'
  OBVIOUS
<1> USE DEF At, Moves, KeepsResults, Searching, Ranked
<1>1. /\ Quiet /\ KeepsResults /\ Moves("idle", "text") /\ call' \in Context
      /\ call'.pass \in {"only", "mine"} /\ call'.wanted \in Wanted
      /\ hidden' = Hidden(call'.wanted) /\ condemned' = deprecated /\ readable' = Readable
  BY RecallEffect DEF IInv
<1>2. TypeOK'
  BY <1>1, QuietType DEF IInv
<1>3. FoundInv' /\ OrderInv' /\ SameInv'
  BY <1>1 DEF FoundInv, OrderInv, SameInv, SameAnswer
<1>4. HiddenInv'
  BY <1>1 DEF HiddenInv, Hidden, Quiet, NothingHidden
<1>5. ReadableInv'
  <2>1. touched' = {} /\ Readable' = Readable
    BY <1>1, QuietReadable DEF IInv, ReadableInv
  <2> QED BY <1>1, <2>1 DEF ReadableInv, TouchedReadable
<1> QED BY <1>2, <1>3, <1>4, <1>5 DEF IInv

LEMMA SearchTextStep == IInv /\ SearchText => IInv'
<1> SUFFICES ASSUME IInv, SearchText PROVE IInv'
  OBVIOUS
<1> USE DEF At, Moves, KeepsResults, KeepsHistory, KeepsQuestion, Searching, Ranked
<1>1. /\ Quiet /\ KeepsResults /\ KeepsHistory /\ KeepsQuestion /\ Moves("text", "vectors") /\ call' \in Context
      /\ call'.pass = call.pass /\ call'.found = DOMAIN call'.texts
      /\ call'.texts = First(Pool(call.pass), Numbered(TextOrder(call.pass),
                                   {m \in TextHits(call.pass) : rows[m] \in call.wanted}))
      /\ \A m \in DOMAIN call'.texts : m \in Memory /\ rows[m] \in call.wanted
                                       /\ call'.texts[m] <= Pool(call.pass)
  BY SearchTextEffect DEF IInv
<1>2. TypeOK'
  BY <1>1, QuietType DEF IInv
<1>3. FoundInv'
  BY <1>1 DEF FoundInv, Pool, PassLimit
<1>4. HiddenInv'
  BY <1>1 DEF IInv, HiddenInv, Quiet, NothingHidden
<1>5. ReadableInv'
  BY <1>1, QuietReadable DEF IInv, ReadableInv, TouchedReadable
<1>6. OrderInv'
  BY <1>1 DEF OrderInv
<1>7. SameInv'
  <2>1. ASSUME Unwritten' PROVE call'.texts = TextAnswer'
    <3>1. call.pass = "only" /\ call'.pass = "only"
      BY <1>1, <2>1 DEF Unwritten
    <3>2. call'.texts = TextAnswer
      BY <1>1, <3>1 DEF TextAnswer, TextHits
    <3>3. Stored' = Stored /\ world' = world /\ call'.wanted = call.wanted /\ rows' = rows
      BY <1>1 DEF Quiet, Settled, Stored
    <3>4. TextOrder("only")' = TextOrder("only") /\ Pool("only")' = Pool("only")
      BY <1>1, <3>3 DEF TextOrder, Pool, PassLimit
    <3>5. TextAnswer' = TextAnswer
      BY <3>3, <3>4 DEF TextAnswer, First, Numbered
    <3> QED BY <3>2, <3>5
  <2> QED BY <1>1, <2>1 DEF SameInv, SameAnswer
<1> QED BY <1>2, <1>3, <1>4, <1>5, <1>6, <1>7 DEF IInv

LEMMA SearchVectorsStep == IInv /\ SearchVectors => IInv'
<1> SUFFICES ASSUME IInv, SearchVectors PROVE IInv'
  OBVIOUS
<1> USE DEF At, Moves, KeepsResults, KeepsHistory, KeepsQuestion, Searching, Ranked
<1>1. /\ Quiet /\ KeepsResults /\ KeepsHistory /\ KeepsQuestion /\ Moves("vectors", "fetch") /\ call' \in Context
      /\ call'.pass = call.pass /\ call'.found = call.found /\ call'.texts = call.texts
      /\ call'.near = First(Pool(call.pass), Numbered(world.nearest, vectors))
      /\ call'.todo = DOMAIN call'.near \ call.found
  BY SearchVectorsEffect DEF IInv
<1>2. TypeOK'
  BY <1>1, QuietType DEF IInv
<1>3. FoundInv'
  BY <1>1 DEF IInv, FoundInv, Pool, PassLimit
<1>4. HiddenInv'
  BY <1>1 DEF IInv, HiddenInv, Quiet, NothingHidden
<1>5. ReadableInv'
  BY <1>1, QuietReadable DEF IInv, ReadableInv, TouchedReadable
<1>6. OrderInv'
  BY <1>1 DEF OrderInv
<1>7. SameInv'
  <2>1. ASSUME Unwritten' PROVE /\ call'.texts = TextAnswer' /\ call'.near = NearAnswer'
                                /\ call'.found = DOMAIN call'.texts \cup ((DOMAIN call'.near \ call'.todo) \cap Live')
    <3>1. call.pass = "only" /\ Unwritten
      BY <1>1, <2>1 DEF Unwritten, Quiet, Settled
    <3>2. TextAnswer' = TextAnswer /\ NearAnswer' = NearAnswer
      BY <1>1 DEF TextAnswer, NearAnswer, Quiet, Settled, First, Numbered, TextOrder, Stored, Pool, PassLimit
    <3>3. call.texts = TextAnswer /\ call'.near = NearAnswer
      BY <1>1, <3>1 DEF IInv, SameInv, NearAnswer
    <3>4. call'.found = DOMAIN call'.texts
      BY <1>1 DEF IInv, FoundInv
    <3>5. (DOMAIN call'.near \ call'.todo) \subseteq call'.found
      BY <1>1
    <3> QED BY <1>1, <3>2, <3>3, <3>4, <3>5
  <2> QED BY <1>1, <2>1 DEF SameInv, SameAnswer
<1> QED BY <1>2, <1>3, <1>4, <1>5, <1>6, <1>7 DEF IInv

LEMMA FetchStep == IInv /\ Fetch => IInv'
<1> SUFFICES ASSUME IInv, Fetch PROVE IInv'
  OBVIOUS
<1> USE DEF At, KeepsResults, KeepsHistory, KeepsQuestion, Searching, Ranked
<1>1. /\ Quiet /\ KeepsResults /\ KeepsHistory /\ KeepsQuestion /\ call.step = "fetch" /\ call' \in Context
      /\ call'.pass = call.pass /\ call'.texts = call.texts /\ call'.near = call.near
      /\ \/ call'.step = "fuse" /\ call.todo = {} /\ call'.todo = {} /\ call'.found = call.found
         \/ /\ call'.step = "fetch"
            /\ \E m \in call.todo :
                  /\ call'.todo = call.todo \ {m}
                  /\ call'.found = IF rows[m] \in call.wanted THEN call.found \cup {m} ELSE call.found
  BY FetchEffect DEF IInv
<1>2. call'.step \in {"fetch", "fuse"} /\ call.todo \subseteq Memory /\ call.todo \subseteq DOMAIN call.near
  BY <1>1, Fields DEF IInv, TypeOK, FoundInv
<1>3. TypeOK'
  BY <1>1, QuietType DEF IInv
<1>4. FoundInv'
  <2>1. /\ DOMAIN call.texts \subseteq call.found /\ call.found \subseteq DOMAIN call.texts \cup DOMAIN call.near
        /\ \A m \in DOMAIN call.texts : call.texts[m] <= Pool(call.pass)
    BY <1>1 DEF IInv, FoundInv
  <2>2. /\ call.found \subseteq call'.found /\ call'.found \subseteq call.found \cup call.todo
        /\ call'.todo \subseteq call.todo /\ (call'.step = "fuse" => call'.todo = {})
    BY <1>1
  <2> QED BY <1>1, <1>2, <2>1, <2>2 DEF FoundInv, Pool, PassLimit
<1>5. HiddenInv'
  <2>1. \A m \in call'.found : m \in call.found \/ rows[m] \in call.wanted
    BY <1>1
  <2>2. /\ hidden \subseteq Memory /\ call.found \cap hidden = {} /\ condemned \subseteq deprecated
        /\ \A m \in hidden : rows[m] \notin call.wanted
    BY <1>1 DEF IInv, HiddenInv
  <2>3. call'.found \cap hidden = {}
    BY <2>1, <2>2
  <2> QED BY <1>1, <1>2, <2>2, <2>3 DEF HiddenInv, Quiet, NothingHidden
<1>6. ReadableInv'
  BY <1>1, <1>2, QuietReadable DEF IInv, ReadableInv, TouchedReadable
<1>7. OrderInv'
  BY <1>2 DEF OrderInv
<1>8. SameInv'
  <2>1. ASSUME Unwritten' PROVE /\ call'.texts = TextAnswer' /\ call'.near = NearAnswer'
                                /\ call'.found = DOMAIN call'.texts \cup ((DOMAIN call'.near \ call'.todo) \cap Live')
    <3>1. Unwritten
      BY <1>1, <2>1 DEF Unwritten, Quiet, Settled
    <3>2. TextAnswer' = TextAnswer /\ NearAnswer' = NearAnswer /\ Live' = Live
      BY <1>1 DEF TextAnswer, NearAnswer, Live, Quiet, Settled, First, Numbered, TextOrder, Stored, Pool, PassLimit
    <3>3. /\ call.texts = TextAnswer /\ call.near = NearAnswer
          /\ call.found = DOMAIN call.texts \cup ((DOMAIN call.near \ call.todo) \cap Live)
      BY <1>1, <3>1 DEF IInv, SameInv
    <3>4. call'.found = DOMAIN call.texts \cup ((DOMAIN call.near \ call'.todo) \cap Live)
      <4>1. CASE call'.todo = call.todo /\ call'.found = call.found
        BY <4>1, <3>3
      <4>2. ASSUME NEW m \in call.todo, call'.todo = call.todo \ {m},
                   call'.found = IF rows[m] \in call.wanted THEN call.found \cup {m} ELSE call.found
            PROVE  call'.found = DOMAIN call.texts \cup ((DOMAIN call.near \ call'.todo) \cap Live)
        <5>1. m \in DOMAIN call.near /\ (m \in Live <=> rows[m] \in call.wanted)
          BY <1>2 DEF Live
        <5>2. DOMAIN call.near \ call'.todo = (DOMAIN call.near \ call.todo) \cup {m}
          BY <4>2, <5>1
        <5> HIDE DEF Live
        <5> QED BY <3>3, <4>2, <5>1, <5>2
      <4> QED BY <1>1, <4>1, <4>2
    <3> QED BY <1>1, <3>2, <3>3, <3>4
  <2> QED BY <1>2, <2>1 DEF SameInv, SameAnswer
<1> QED BY <1>3, <1>4, <1>5, <1>6, <1>7, <1>8 DEF IInv

\* With access control on and the indexes read whole, fusion ranks as if the other
\* memories did not exist.
LEMMA FuseSame ==
    ASSUME IInv, Fuse, Unwritten, ~PoolFull, NEW barred
    PROVE  LET S == {m \in Filtered(call.found) : Admitted(call.types, barred, m)} IN
           First(PassLimit(call.pass), Sorted(RankedOver(call.texts), RankedOver(call.near), S))
              = RankingOf(Readable, barred)
<1> DEFINE H     == {m \in world.hits : rows[m] \in call.wanted}
           R     == Readable \cap call.found
           L     == {m \in Readable : rows[m] \in call.wanted}
           order == TextOrder("only")
           dist  == world.nearest
<1>1. /\ acl /\ call.pass = "only" /\ call.step = "fuse"
  BY DEF Unwritten, Fuse, At
<1>2. /\ call.texts = First(Pool("only"), Numbered(order, H))
      /\ call.near = First(Pool("only"), Numbered(dist, vectors))
      /\ call.found = DOMAIN call.texts \cup (DOMAIN call.near \cap Live)
  BY <1>1 DEF IInv, SameInv, FoundInv, Searching, At, TextAnswer, NearAnswer
<1>3. Cardinality(H) <= Pool("only") /\ Cardinality(vectors) <= Pool("only") /\ Pool("only") \in Nat
  <2>1. call.limit \in Nat /\ vectors \subseteq Memory /\ H \subseteq Memory
    BY Fields DEF IInv, TypeOK, WorldInv
  <2>2. Pool("only") \in Nat
    BY <2>1, Numbers DEF Pool, PassLimit
  <2> QED BY <2>1, <2>2, FiniteMemories DEF PoolFull
<1>4. /\ H \subseteq Memory /\ Keys(order, H) /\ vectors \subseteq Memory /\ Keys(dist, vectors)
  <2>1. H \subseteq Memory /\ vectors \subseteq Memory /\ WorldInv
    BY DEF IInv, TypeOK, WorldInv
  <2> HIDE DEF H
  <2>2. Keys(order, H)
    BY <2>1, TextKeys
  <2>3. Keys(dist, vectors)
    BY <2>1 DEF WorldInv, Keys
  <2> QED BY <2>1, <2>2, <2>3
<1> HIDE DEF order, dist, H
<1>5. call.texts = Numbered(order, H) /\ DOMAIN call.texts = H
  <2> DEFINE n == Numbered(order, H)
  <2>1. Ranking(n) /\ DOMAIN n = H /\ \A m \in H : n[m] <= Cardinality(H)
    BY <1>4, NumberedRanks
  <2>2. Cardinality(H) \in Nat
    BY <1>4, FiniteMemories
  <2> HIDE DEF n
  <2>3. \A m \in DOMAIN n : n[m] <= Pool("only")
    BY <1>3, <2>1, <2>2 DEF Ranking, Keys
  <2>4. First(Pool("only"), n) = n
    BY <1>3, <2>1, <2>3, FirstRanks
  <2> QED BY <1>2, <2>1, <2>4 DEF n
<1>6. call.near = Numbered(dist, vectors) /\ DOMAIN call.near = vectors
  <2> DEFINE n == Numbered(dist, vectors)
  <2>1. Ranking(n) /\ DOMAIN n = vectors /\ \A m \in vectors : n[m] <= Cardinality(vectors)
    BY <1>4, NumberedRanks
  <2>2. Cardinality(vectors) \in Nat
    BY <1>4, FiniteMemories
  <2> HIDE DEF n
  <2>3. \A m \in DOMAIN n : n[m] <= Pool("only")
    BY <1>3, <2>1, <2>2 DEF Ranking, Keys
  <2>4. First(Pool("only"), n) = n
    BY <1>3, <2>1, <2>3, FirstRanks
  <2> QED BY <1>2, <2>1, <2>4 DEF n
<1>7. /\ R = L \cap (world.hits \cup vectors) /\ R \cap H = L \cap world.hits /\ R \cap vectors = L \cap vectors
  BY <1>2, <1>4, <1>5, <1>6 DEF H, Live
<1>8. RankedOver(call.texts) = Numbered(order, L \cap world.hits)
  <2>1. RankedOver(call.texts) = Numbered(call.texts, R \cap H)
    BY <1>1, <1>5 DEF RankedOver, Renumbered, Only
  <2>2. Numbered(Numbered(order, H), R \cap H) = Numbered(order, R \cap H)
    BY <1>4, NumberedAgain
  <2> QED BY <1>5, <1>7, <2>1, <2>2
<1>9. RankedOver(call.near) = Numbered(dist, L \cap vectors)
  <2>1. RankedOver(call.near) = Numbered(call.near, R \cap vectors)
    BY <1>1, <1>6 DEF RankedOver, Renumbered, Only
  <2>2. Numbered(Numbered(dist, vectors), R \cap vectors) = Numbered(dist, R \cap vectors)
    BY <1>4, NumberedAgain
  <2> QED BY <1>6, <1>7, <2>1, <2>2
<1>10. Filtered(call.found) = L \cap (world.hits \cup vectors) /\ PassLimit(call.pass) = call.limit
  BY <1>1, <1>7 DEF Filtered, PassLimit
<1>11. RankingOf(Readable, barred) =
          First(call.limit, Sorted(Numbered(order, L \cap world.hits), Numbered(dist, L \cap vectors),
                                   {m \in L \cap (world.hits \cup vectors) : Admitted(call.types, barred, m)}))
  BY DEF RankingOf, order, dist
<1> QED BY <1>8, <1>9, <1>10, <1>11

LEMMA FuseStep == IInv /\ Fuse => IInv'
<1> SUFFICES ASSUME IInv, Fuse PROVE IInv'
  OBVIOUS
<1> USE DEF At, KeepsResults, KeepsQuestion, Searching, Ranked
<1>0. PICK failed \in BOOLEAN :
          LET S == {m \in Filtered(call.found) : Admitted(call.types, Barred(failed), m)} IN
          /\ lenient' = failed
          /\ call'.ranked = First(PassLimit(call.pass), Sorted(call'.texts, call'.near, S))
          /\ DOMAIN call'.ranked \subseteq S
  BY FuseEffect DEF IInv
<1> DEFINE S == {m \in Filtered(call.found) : Admitted(call.types, Barred(failed), m)}
<1>1. /\ Quiet /\ KeepsResults /\ KeepsQuestion /\ call.step = "fuse" /\ call' \in Context
      /\ hidden' = hidden /\ condemned' = condemned /\ readable' = readable
      /\ call'.pass = call.pass
      /\ call'.step = IF call.pass = "mine" THEN "mine" ELSE "touch"
      /\ call'.texts = RankedOver(call.texts) /\ call'.near = RankedOver(call.near)
      /\ \A m \in DOMAIN call'.texts : call'.texts[m] <= Pool(call.pass)
      /\ InOrder(call.ranked)'
  BY FuseEffect DEF IInv
<1>2. S \subseteq call.found /\ \A m \in S : m \notin Barred(failed) /\ (call.pass = "only" => m \in Readable)
  BY DEF Filtered, Admitted
<1>3. TypeOK'
  BY <1>1, QuietType DEF IInv
<1>4. FoundInv'
  BY <1>1 DEF FoundInv, Pool, PassLimit
<1>5. HiddenInv'
  <2>1. DOMAIN call'.ranked \cap hidden = {}
    BY <1>0, <1>1, <1>2 DEF IInv, HiddenInv
  <2>2. ~lenient' => DOMAIN call'.ranked \cap condemned = {}
    <3>1. condemned \subseteq deprecated
      BY <1>1 DEF IInv, HiddenInv
    <3> QED BY <3>1, <1>0, <1>2 DEF Barred
  <2> HIDE DEF S
  <2> QED BY <1>1, <2>1, <2>2 DEF IInv, HiddenInv, Quiet, NothingHidden
<1>6. ReadableInv'
  <2>1. Readable' = Readable /\ Readable \subseteq readable
    BY <1>1, QuietReadable DEF IInv, ReadableInv
  <2>2. call'.step = "touch" /\ call.pass # "expanded" => DOMAIN call'.ranked \subseteq Readable
    BY <1>0, <1>1, <1>2, Fields DEF IInv, TypeOK, Pass
  <2> HIDE DEF S
  <2> QED BY <1>1, <2>1, <2>2 DEF IInv, ReadableInv, TouchedReadable
<1>7. OrderInv'
  BY <1>1 DEF OrderInv
<1>8. SameInv'
  <2>1. ASSUME Unwritten', ~PoolFull' PROVE call'.ranked = RankingOf(Readable, Barred(lenient))'
    <3> PICK b : b = Barred(failed)
      OBVIOUS
    <3>1. Unwritten /\ ~PoolFull /\ RankingOf(Readable, b)' = RankingOf(Readable, b)
      BY <1>1, <2>1, QuietRanking DEF Unwritten, Quiet, Settled
    <3>2. Barred(lenient)' = b
      BY <1>0, <1>1 DEF Barred, Quiet
    <3>3. call'.ranked = RankingOf(Readable, b)
      BY <1>0, <1>1, <3>1, FuseSame
    <3> QED BY <3>1, <3>2, <3>3
  <2> QED BY <1>1, <2>1 DEF SameInv, SameAnswer
<1> QED BY <1>3, <1>4, <1>5, <1>6, <1>7, <1>8 DEF IInv

LEMMA MineStep == IInv /\ Mine => IInv'
<1> SUFFICES ASSUME IInv, Mine PROVE IInv'
  OBVIOUS
<1> USE DEF At, KeepsResults, KeepsHistory, KeepsQuestion, Searching, Ranked
<1>1. /\ Quiet /\ KeepsResults /\ KeepsHistory /\ KeepsQuestion /\ call.step = "mine" /\ call' \in Context
      /\ \/ call'.step = "text" /\ call'.pass = "expanded"
         \/ /\ call'.step = "touch" /\ call'.pass = call.pass
            /\ call'.texts = call.texts /\ call'.near = call.near
            /\ DOMAIN call'.ranked \subseteq DOMAIN call.ranked \cap Readable
            /\ InOrder(call.ranked)'
  BY MineEffect DEF IInv
<1>2. TypeOK'
  BY <1>1, QuietType DEF IInv
<1>3. FoundInv'
  BY <1>1 DEF IInv, FoundInv, Pool, PassLimit
<1>4. HiddenInv'
  BY <1>1 DEF IInv, HiddenInv, Quiet, NothingHidden
<1>5. ReadableInv'
  BY <1>1, QuietReadable DEF IInv, ReadableInv, TouchedReadable
<1>6. OrderInv'
  BY <1>1 DEF OrderInv
<1>7. SameInv'
  <2>1. call.pass # "only"
    BY <1>1 DEF IInv, FoundInv
  <2>2. ~Unwritten'
    BY <1>1, <2>1 DEF Unwritten
  <2> QED BY <1>1, <2>2 DEF SameInv, SameAnswer
<1> QED BY <1>2, <1>3, <1>4, <1>5, <1>6, <1>7 DEF IInv

LEMMA TouchStep == IInv /\ Touch => IInv'
<1> SUFFICES ASSUME IInv, Touch PROVE IInv'
  OBVIOUS
<1> USE DEF At, Moves, KeepsHistory, KeepsQuestion, KeepsSearch, Searching, Ranked
<1>1. /\ Quiet /\ KeepsHistory /\ KeepsQuestion /\ KeepsSearch /\ Moves("touch", "filter") /\ call' \in Context
      /\ touched' = DOMAIN call.ranked /\ answer' = answer
  BY TouchEffect DEF IInv
<1>2. TypeOK'
  BY <1>1, QuietType DEF IInv
<1>3. FoundInv'
  BY <1>1 DEF IInv, FoundInv, Pool, PassLimit
<1>4. HiddenInv'
  <2>1. (~lenient)' <=> ~lenient
    BY <1>1
  <2> QED BY <1>1, <2>1 DEF IInv, HiddenInv, Quiet, NothingHidden
<1>5. ReadableInv'
  BY <1>1, QuietReadable DEF IInv, ReadableInv, TouchedReadable
<1>6. OrderInv'
  <2>1. InOrder(call.ranked)
    BY <1>1 DEF IInv, OrderInv
  <2>2. InOrder(call.ranked)'
    BY <1>1, <2>1 DEF InOrder, Before, Fused, FoundFirst, RankIn, Quiet, Settled
  <2> QED BY <1>1, <2>2 DEF OrderInv
<1>7. SameInv'
  <2>1. ASSUME Unwritten', ~PoolFull' PROVE call'.ranked = RankingOf(Readable, Barred(lenient))'
    <3> PICK b : b = Barred(lenient)
      OBVIOUS
    <3>1. Unwritten /\ ~PoolFull /\ RankingOf(Readable, b)' = RankingOf(Readable, b)
      BY <1>1, <2>1, QuietRanking DEF Unwritten, Quiet, Settled
    <3>2. Barred(lenient)' = b
      BY <1>1 DEF Barred, Quiet
    <3> QED BY <1>1, <3>1, <3>2 DEF IInv, SameInv
  <2> QED BY <1>1, <2>1 DEF SameInv, SameAnswer
<1> QED BY <1>2, <1>3, <1>4, <1>5, <1>6, <1>7 DEF IInv

\* A ranking of what the caller may read is not changed by the last filter.
LEMMA RankingOfReadable ==
    ASSUME TypeOK, NEW barred
    PROVE  Only(RankingOf(Readable, barred), Readable) = RankingOf(Readable, barred)
<1> DEFINE L     == {m \in Readable : rows[m] \in call.wanted}
           texts == Numbered(TextOrder("only"), L \cap world.hits)
           near  == Numbered(world.nearest, L \cap vectors)
           S     == {m \in L \cap (world.hits \cup vectors) : Admitted(call.types, barred, m)}
           r     == Sorted(texts, near, S)
           f     == First(call.limit, r)
<1>1. RankingOf(Readable, barred) = f
  BY DEF RankingOf
<1>2. /\ L \cap world.hits \subseteq Memory /\ Keys(TextOrder("only"), L \cap world.hits)
      /\ L \cap vectors \subseteq Memory /\ Keys(world.nearest, L \cap vectors)
  <2>1. L \cap world.hits \subseteq Memory /\ L \cap vectors \subseteq Memory
    BY DEF TypeOK, WorldInv
  <2> HIDE DEF L
  <2>2. Keys(TextOrder("only"), L \cap world.hits)
    BY <2>1, TextKeys DEF TypeOK
  <2>3. Keys(world.nearest, L \cap vectors)
    BY <2>1 DEF TypeOK, WorldInv, Keys
  <2> QED BY <2>1, <2>2, <2>3
<1>3. S \subseteq (L \cap world.hits) \cup (L \cap vectors) /\ S \subseteq Readable
  OBVIOUS
<1> HIDE DEF L, S
<1>4. Ranking(texts) /\ DOMAIN texts = L \cap world.hits /\ Ranking(near) /\ DOMAIN near = L \cap vectors
  BY <1>2, NumberedRanks
<1> HIDE DEF texts, near
<1>5. Sortable(texts, near, S) /\ WorldInv /\ call.limit \in Nat
  BY <1>3, <1>4, Fields DEF Sortable, TypeOK
<1>6. Ranking(r) /\ DOMAIN r = S /\ Numbered(f, DOMAIN f) = f
  BY <1>5, SortedRanks
<1> HIDE DEF r
<1>7. DOMAIN f \subseteq S
  BY <1>5, <1>6, FirstRanks
<1> HIDE DEF f
<1>8. Readable \cap DOMAIN f = DOMAIN f
  BY <1>3, <1>7
<1> QED BY <1>1, <1>6, <1>8 DEF Only

LEMMA ReturnStep == IInv /\ Return => IInv'
<1> SUFFICES ASSUME IInv, Return PROVE IInv'
  OBVIOUS
<1> USE DEF At, Moves, KeepsHistory, KeepsQuestion, KeepsSearch, Searching, Ranked
<1>1. /\ Quiet /\ KeepsHistory /\ KeepsQuestion /\ KeepsSearch /\ Moves("filter", "done") /\ call' \in Context
      /\ touched' = touched /\ answer' = Only(call.ranked, Readable)
      /\ Ranking(answer') /\ DOMAIN answer' = Readable \cap DOMAIN call.ranked
  BY ReturnEffect DEF IInv
<1>2. TypeOK'
  BY <1>1, TypeStep DEF IInv, TypeOK, Quiet
<1>3. FoundInv'
  BY <1>1 DEF IInv, FoundInv, Pool, PassLimit
<1>4. HiddenInv'
  <2>1. (~lenient)' <=> ~lenient
    BY <1>1
  <2>2. /\ DOMAIN call.ranked \cap hidden = {} /\ (~lenient => DOMAIN call.ranked \cap condemned = {})
    BY <1>1 DEF IInv, HiddenInv
  <2>3. NothingHidden'
    BY <1>1, <2>1, <2>2 DEF NothingHidden
  <2> QED BY <1>1, <2>3 DEF IInv, HiddenInv, Quiet
<1>5. ReadableInv'
  BY <1>1, QuietReadable DEF IInv, ReadableInv, TouchedReadable
<1>6. OrderInv'
  <2>1. InOrder(call.ranked) /\ Ranking(call.ranked)
    BY <1>1, Fields DEF IInv, OrderInv, TypeOK
  <2>2. InOrder(answer')
    BY <1>1, <2>1, OnlyInOrder
  <2>3. InOrder(answer)'
    BY <1>1, <2>2 DEF InOrder, Before, Fused, FoundFirst, RankIn, Quiet, Settled
  <2> QED BY <1>1, <2>3 DEF OrderInv
<1>7. SameInv'
  <2>1. ASSUME Unwritten', ~PoolFull' PROVE answer' = RankingOf(Readable, Barred(lenient))'
    <3> PICK b : b = Barred(lenient)
      OBVIOUS
    <3>1. Unwritten /\ ~PoolFull /\ RankingOf(Readable, b)' = RankingOf(Readable, b)
      BY <1>1, <2>1, QuietRanking DEF Unwritten, Quiet, Settled
    <3>2. call.ranked = RankingOf(Readable, b) /\ Barred(lenient)' = b
      BY <1>1, <3>1 DEF IInv, SameInv, Barred, Quiet
    <3> QED BY <1>1, <3>1, <3>2, RankingOfReadable DEF IInv
  <2> QED BY <1>1, <2>1 DEF SameInv, SameAnswer, Unwritten
<1> QED BY <1>2, <1>3, <1>4, <1>5, <1>6, <1>7 DEF IInv

LEMMA OthersStep == IInv /\ OthersWrite => IInv'
<1> SUFFICES ASSUME IInv, OthersWrite PROVE IInv'
  OBVIOUS
<1> USE DEF At, KeepsResults, Searching, Ranked
<1>1. /\ Settled /\ call' = call /\ KeepsResults /\ lenient' = lenient
      /\ hidden' \subseteq hidden /\ condemned' \subseteq condemned
      /\ writes' \in Nat /\ writes' > 0 /\ call.step \notin {"idle", "done"}
      /\ rows' \in [Memory -> {"active", "hidden", "absent"}] /\ vectors' \subseteq Memory
      /\ \A m \in Memory : m \in hidden' /\ rows[m] \notin call.wanted => rows'[m] \notin call.wanted
      /\ condemned \subseteq deprecated => condemned' \subseteq deprecated'
      /\ readable \subseteq readable'
      /\ Readable' \subseteq Readable \cup readable'
  BY OthersEffect DEF IInv
<1>2. TypeOK'
  BY <1>1, TypeStep, RankingsAre DEF IInv, TypeOK
<1>3. FoundInv'
  BY <1>1 DEF IInv, FoundInv, Pool, PassLimit
<1>4. HiddenInv'
  <2>1. /\ hidden \subseteq Memory /\ condemned \subseteq deprecated
        /\ \A m \in hidden : rows[m] \notin call.wanted
    BY <1>1 DEF IInv, HiddenInv
  <2>2. condemned' \subseteq deprecated' /\ \A m \in hidden' : rows'[m] \notin call.wanted
    BY <1>1, <2>1
  <2>3. (~lenient)' <=> ~lenient
    BY <1>1
  <2>4. hidden' \subseteq Memory
    BY <1>1, <2>1
  <2>5. call'.step \in Searching => call'.found \cap hidden' = {}
    BY <1>1 DEF IInv, HiddenInv
  <2>6. ASSUME call'.step \in Ranked
        PROVE  DOMAIN call'.ranked \cap hidden' = {} /\ (~lenient => DOMAIN call'.ranked \cap condemned' = {})
    <3>1. DOMAIN call.ranked \cap hidden = {} /\ (~lenient => DOMAIN call.ranked \cap condemned = {})
      BY <1>1, <2>6 DEF IInv, HiddenInv
    <3> QED BY <1>1, <3>1
  <2>7. NothingHidden'
    BY <1>1 DEF NothingHidden
  <2>8. (call.step \in Ranked => DOMAIN call.ranked \cap hidden = {}
                                /\ (~lenient => DOMAIN call.ranked \cap condemned = {}))'
    BY <2>3, <2>6
  <2>9. (hidden \subseteq Memory)' /\ (call.step \in Searching => call.found \cap hidden = {})'
    BY <2>4, <2>5
  <2>10. (~At("idle") => condemned \subseteq deprecated /\ \A m \in hidden : rows[m] \notin call.wanted)'
    BY <1>1, <2>2
  <2> QED BY <2>7, <2>8, <2>9, <2>10 DEF HiddenInv
<1>5. ReadableInv'
  BY <1>1 DEF IInv, ReadableInv, TouchedReadable
<1>6. OrderInv'
  BY <1>1 DEF IInv, OrderInv, InOrder, Before, Fused, FoundFirst, RankIn, Settled
<1>7. SameInv'
  BY <1>1 DEF SameInv, Unwritten, SameAnswer
<1> QED BY <1>2, <1>3, <1>4, <1>5, <1>6, <1>7 DEF IInv

LEMMA NextStep == IInv /\ [Next]_vars => IInv'
<1> SUFFICES ASSUME IInv, [Next]_vars PROVE IInv'
  OBVIOUS
<1>1. ASSUME Next PROVE IInv'
  BY <1>1, RecallStep, SearchTextStep, SearchVectorsStep, FetchStep, FuseStep, MineStep, TouchStep, ReturnStep,
     OthersStep DEF Next, OthersWrite
<1>2. ASSUME UNCHANGED vars PROVE IInv'
  <2>1. Quiet /\ KeepsQuestion /\ call' = call /\ touched' = touched /\ answer' = answer
        /\ KeepsHistory
    BY <1>2 DEF KeepsHistory, vars, store, results, history, Quiet, Settled, KeepsQuestion
  <2>2. TypeOK'
    BY <2>1, QuietType DEF IInv, TypeOK
  <2>3. FoundInv' /\ HiddenInv'
    BY <2>1 DEF IInv, FoundInv, HiddenInv, At, Searching, Ranked, Pool, PassLimit, NothingHidden, Quiet, KeepsHistory
  <2>4. ReadableInv'
    BY <2>1, QuietReadable DEF IInv, ReadableInv, TouchedReadable, At, KeepsHistory
  <2>5. OrderInv'
    BY <2>1 DEF IInv, OrderInv, At, Ranked, InOrder, Before, Fused, FoundFirst, RankIn, Quiet, Settled
  <2>6. SameInv'
    <3>1. TextAnswer' = TextAnswer /\ NearAnswer' = NearAnswer /\ Live' = Live
      BY <2>1 DEF TextAnswer, NearAnswer, Live, Quiet, Settled, First, Numbered, TextOrder, Stored, Pool, PassLimit
    <3> PICK b : b = Barred(lenient)
      OBVIOUS
    <3>2. RankingOf(Readable, b)' = RankingOf(Readable, b) /\ PoolFull' = PoolFull
      BY <2>1, QuietRanking
    <3>3. Barred(lenient)' = b
      BY <2>1 DEF Barred, Quiet, KeepsHistory
    <3> QED BY <2>1, <3>1, <3>2, <3>3 DEF IInv, SameInv, At, Searching, Unwritten, SameAnswer, Quiet, Settled
  <2> QED BY <2>2, <2>3, <2>4, <2>5, <2>6 DEF IInv
<1> QED BY <1>1, <1>2

THEOREM RecallInvariant == Spec => []IInv
BY InitInv, NextStep, PTL DEF Spec

-----------------------------------------------------------------------------
(***************************************************************************)
(* The results.                                                            *)
(***************************************************************************)

\* With access control on, and outside of expansion and full pools, recall ranks what
\* the caller may read as if there were nothing else, in the order that BM25, over all
\* that is stored, gives it (Engram.recall).
THEOREM OthersDoNotCount == Spec => []SameAnswer
BY RecallInvariant, PTL DEF IInv, SameInv

\* recall returns nothing that was forgotten, deleted or deprecated when it began and
\* stayed so, whatever others hide, bring back, write or grant meanwhile; a schema
\* passes only in a fusion that could not read the lifecycle.
THEOREM HiddenStaysHidden == Spec => []NothingHidden
BY RecallInvariant, PTL DEF IInv, HiddenInv

\* recall marks as accessed only what the caller could read during the call, except
\* in the second pass of an expansion.
THEOREM OnlyReadableIsTouched == Spec => []TouchedReadable
BY RecallInvariant, PTL DEF IInv, ReadableInv

\* Whatever the weights, of two results of equal merit the one ranked better by the
\* indexes is first: equal scores are broken in the order of the candidates.
LEMMA OrderRespectsRanks == IInv => RespectsRanks
<1> DEFINE a(m) == RankIn(call.texts, m)
           b(m) == RankIn(call.near, m)
<1> SUFFICES ASSUME IInv, At("done"), Pool(call.pass) < Missing,
                    NEW m \in DOMAIN answer, NEW n \in DOMAIN answer,
                    answer[m] < answer[n], world.merit[m] = world.merit[n],
                    a(n) <= a(m), b(n) <= b(m)
             PROVE  FALSE
  BY DEF RespectsRanks
<1>1. Ranking(call.texts) /\ Ranking(call.near) /\ Pool(call.pass) \in Nat /\ Ranking(answer)
  BY Fields, Numbers, RankingsAre DEF IInv, TypeOK, Pool, PassLimit
<1>2. Before(call.texts, call.near, m, n) /\ world.merit[m] \in Nat
  BY <1>1 DEF IInv, TypeOK, WorldInv, OrderInv, InOrder, Ranking
<1>3. /\ Fused(call.texts, call.near, m) \in Nat /\ Fused(call.texts, call.near, n) \in Nat
      /\ Fused(call.texts, call.near, m) <= Fused(call.texts, call.near, n)
  BY <1>1, FusedScores
<1>4. FoundFirst(call.texts, call.near, m, n)
  BY <1>2, <1>3 DEF Before
<1>5. \A k : a(k) \in Nat /\ b(k) \in Nat
  BY <1>1, RankInRanks
<1>6. \A k \in DOMAIN call.texts : call.texts[k] < Missing /\ a(k) = call.texts[k] /\ call.texts[k] \in Nat
  <2>1. \A k \in DOMAIN call.texts : call.texts[k] <= Pool(call.pass) /\ call.texts[k] \in Nat
    BY <1>1 DEF IInv, FoundInv, At, Ranking, Keys
  <2> QED BY <1>1, <2>1 DEF Missing, RankIn
<1>7. CASE m \in DOMAIN call.texts /\ n \in DOMAIN call.texts
  BY <1>4, <1>6, <1>7 DEF FoundFirst
<1>8. CASE m \in DOMAIN call.texts /\ n \notin DOMAIN call.texts
  <2>1. a(n) = Missing
    BY <1>8 DEF RankIn
  <2> QED BY <1>6, <1>8, <2>1 DEF Missing
<1>9. CASE m \notin DOMAIN call.texts
  BY <1>4, <1>5, <1>9 DEF FoundFirst
<1> QED BY <1>7, <1>8, <1>9

THEOREM RanksAreRespected == Spec => []RespectsRanks
BY RecallInvariant, OrderRespectsRanks, PTL
=============================================================================
