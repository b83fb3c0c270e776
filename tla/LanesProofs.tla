----------------------------- MODULE LanesProofs -----------------------------
(***************************************************************************)
(* Proofs about the lanes.  First the rules of LaneRules for every input:  *)
(* the integration order and the dependents of a lane, where what a loop   *)
(* computes is shown by a least number of rounds at which it would fail,   *)
(* and the checks of batches, handoffs and probes.  Then the batch from    *)
(* decide to the merge, for any batches, policy, files, handoffs and bound *)
(* on the commits.                                                         *)
(***************************************************************************)
EXTENDS Lanes, FiniteSetTheorems, WellFoundedInduction, TLAPS

NatOrder == {ss \in Nat \X Nat : ss[1] < ss[2]}

\* A nonempty set of naturals has a least element: what holds for no least number of
\* rounds fails for none.
LEMMA LeastExists ==
    ASSUME NEW S \in SUBSET Nat, S # {}
    PROVE  \E i \in S : \A j \in S : i <= j
<1>1. IsWellFoundedOn(NatOrder, Nat)
  BY NatLessThanWellFounded, SMT DEF OpToRel, NatOrder
<1>2. PICK i \in S : \A j \in S : ~ (<<j, i>> \in NatOrder)
  BY <1>1, WFMin, Zenon
<1>3. ASSUME NEW j \in S PROVE i <= j
  <2>1. i \in Nat /\ j \in Nat
    OBVIOUS
  <2>2. ~ (<<j, i>> \in NatOrder)
    BY <1>2
  <2>3. ~ (j < i)
    BY <2>1, <2>2 DEF NatOrder
  <2> QED BY <2>1, <2>3
<1> QED BY <1>3

\* What the lemmas know of a batch: units in the order they were named, with ids that
\* can be compared.
IsBatch(b) == /\ b \in Seq(ToSet(b))
              /\ \A i \in DOMAIN b : b[i].task_id \in Nat

\* A batch names finitely many units, not more than it has entries.
LEMMA BatchIds ==
    ASSUME NEW b, IsBatch(b)
    PROVE  /\ Len(b) \in Nat /\ DOMAIN b = 1..Len(b)
           /\ UnitIds(b) \subseteq Nat
           /\ IsFiniteSet(UnitIds(b))
           /\ Cardinality(UnitIds(b)) \in Nat /\ Cardinality(UnitIds(b)) <= Len(b)
<1>1. Len(b) \in Nat /\ DOMAIN b = 1..Len(b)
  BY DEF IsBatch
<1>2. UnitIds(b) \subseteq Nat
  BY DEF IsBatch, UnitIds
<1> DEFINE f == [i \in DOMAIN b |-> b[i].task_id]
<1>3. f \in Surjection(DOMAIN b, UnitIds(b))
  <2>1. f \in [DOMAIN b -> UnitIds(b)]
    BY DEF UnitIds
  <2>2. \A id \in UnitIds(b) : \E i \in DOMAIN b : f[i] = id
    BY DEF UnitIds
  <2> QED BY <2>1, <2>2, Zenon DEF Surjection
<1>4. IsFiniteSet(DOMAIN b) /\ Cardinality(DOMAIN b) = Len(b)
  <2>1. 1 \in Int /\ Len(b) \in Int
    BY <1>1
  <2>2. IsFiniteSet(1..Len(b)) /\ Cardinality(1..Len(b)) = IF 1 > Len(b) THEN 0 ELSE Len(b) - 1 + 1
    BY <2>1, FS_Interval, Zenon
  <2> QED BY <1>1, <2>2
<1>5. IsFiniteSet(UnitIds(b)) /\ Cardinality(UnitIds(b)) <= Cardinality(DOMAIN b)
  BY <1>3, <1>4, FS_Surjection, Zenon
<1>6. Cardinality(UnitIds(b)) \in Nat
  BY <1>5, FS_CardinalityType
<1> QED BY <1>1, <1>2, <1>4, <1>5, <1>6

\* The unit of an id is one of the batch and has that id: units.find succeeds.
LEMMA UnitOfId ==
    ASSUME NEW b, IsBatch(b), NEW id \in UnitIds(b)
    PROVE  \E i \in DOMAIN b : UnitOf(b, id) = b[i] /\ b[i].task_id = id
<1> DEFINE S == {i \in DOMAIN b : b[i].task_id = id}
<1>1. S \in SUBSET Nat /\ S # {}
  <2>1. DOMAIN b \subseteq Nat
    BY BatchIds
  <2> QED BY <2>1 DEF UnitIds
<1>2. \E i \in S : \A j \in S : i <= j
  BY <1>1, LeastExists
<1>3. Min(S) \in S
  BY <1>2 DEF Min
<1> QED BY <1>3 DEF UnitOf

-----------------------------------------------------------------------------
(* Array.sort. *)

\* The sorted array holds every id once.
LEMMA SortedIds ==
    ASSUME NEW ids \in SUBSET Nat, IsFiniteSet(ids)
    PROVE  /\ sorted(ids) \in Seq(ids)
           /\ Len(sorted(ids)) = Cardinality(ids) /\ Cardinality(ids) \in Nat
           /\ ToSet(sorted(ids)) = ids
           /\ IsInjective(sorted(ids))
<1> DEFINE n == Cardinality(ids)
           below(id) == {j \in ids : j < id}
           rank == [id \in ids |-> Cardinality(below(id))]
<1>1. n \in Nat
  BY FS_CardinalityType
<1>2. ASSUME NEW id \in ids
      PROVE  IsFiniteSet(below(id)) /\ rank[id] \in Nat /\ rank[id] <= n - 1 /\ rank[id] >= 0
  <2>1. below(id) \in SUBSET (ids \ {id})
    OBVIOUS
  <2>2. IsFiniteSet(ids \ {id}) /\ Cardinality(ids \ {id}) = n - 1
    BY FS_RemoveElement
  <2>3. IsFiniteSet(below(id)) /\ Cardinality(below(id)) <= n - 1
    BY <2>1, <2>2, FS_Subset
  <2>4. Cardinality(below(id)) \in Nat
    BY <2>3, FS_CardinalityType
  <2> QED BY <2>3, <2>4
<1>3. ASSUME NEW i \in ids, NEW j \in ids, i < j
      PROVE  rank[i] # rank[j]
  <2>1. below(i) \in SUBSET below(j) /\ i \in below(j) /\ i \notin below(i)
    <3>1. i \in Nat /\ j \in Nat /\ \A x \in ids : x \in Nat
      OBVIOUS
    <3>2. \A x \in ids : x < i => x < j
      BY <1>3, <3>1
    <3>3. ~ (i < i)
      BY <3>1
    <3> QED BY <1>3, <3>2, <3>3
  <2>2. Cardinality(below(j)) # Cardinality(below(i))
    <3>1. SUFFICES ASSUME Cardinality(below(j)) = Cardinality(below(i)) PROVE FALSE
      OBVIOUS
    <3>2. below(j) = below(i)
      <4>1. IsFiniteSet(below(j))
        BY <1>2
      <4> QED BY <2>1, <3>1, <4>1, FS_Subset, Zenon
    <3> QED BY <2>1, <3>2
  <2> QED BY <2>2
<1> HIDE DEF rank
<1>4. rank \in [ids -> 0..(n - 1)]
  <2> HIDE DEF n
  <2>1. ASSUME NEW id \in ids PROVE rank[id] \in 0..(n - 1)
    <3>1. rank[id] \in Nat /\ rank[id] <= n - 1
      BY <1>2
    <3> QED BY <1>1, <3>1
  <2> QED BY <2>1 DEF rank
<1>5. \A i, j \in ids : rank[i] = rank[j] => i = j
  <2>1. ASSUME NEW i \in ids, NEW j \in ids, rank[i] = rank[j], i # j PROVE FALSE
    <3>1. i < j \/ j < i
      BY <2>1
    <3> QED BY <1>3, <2>1, <3>1
  <2> QED BY <2>1
<1>6. rank \in Injection(ids, 0..(n - 1))
  BY <1>4, <1>5, Zenon DEF Injection, IsInjective
<1>7. IsFiniteSet(0..(n - 1)) /\ Cardinality(0..(n - 1)) = n
  <2> HIDE DEF n
  <2>1. 0 \in Int /\ n - 1 \in Int
    BY <1>1
  <2>2. IsFiniteSet(0..(n - 1)) /\ Cardinality(0..(n - 1)) = IF 0 > n - 1 THEN 0 ELSE (n - 1) - 0 + 1
    BY <2>1, FS_Interval, Zenon
  <2> QED BY <1>1, <2>2
<1>8. rank \in Surjection(ids, 0..(n - 1))
  BY <1>6, <1>7, FS_Injection, Zenon
<1>9. \A k \in 0..(n - 1) : \E id \in ids : rank[id] = k
  BY <1>8, Zenon DEF Surjection
<1> DEFINE at(k) == CHOOSE id \in ids : Cardinality(below(id)) = k - 1
<1>10. ASSUME NEW k \in 1..n
       PROVE  at(k) \in ids /\ rank[at(k)] = k - 1
  <2>1. k - 1 \in 0..(n - 1)
    BY <1>1
  <2>2. \E id \in ids : Cardinality(below(id)) = k - 1
    BY <1>9, <2>1 DEF rank
  <2>3. at(k) \in ids /\ Cardinality(below(at(k))) = k - 1
    BY <2>2, Zenon
  <2> QED BY <2>3, Zenon DEF rank
<1>11. sorted(ids) = [k \in 1..n |-> at(k)]
  BY DEF sorted
<1> HIDE DEF at
<1>12. sorted(ids) \in [1..n -> ids]
  BY <1>10, <1>11
<1>13. sorted(ids) \in Seq(ids) /\ Len(sorted(ids)) = n /\ DOMAIN sorted(ids) = 1..n
  BY <1>1, <1>12
<1>14. IsInjective(sorted(ids))
  <2>1. ASSUME NEW k \in 1..n, NEW l \in 1..n, at(k) = at(l) PROVE k = l
    BY <1>1, <1>10, <2>1
  <2> QED BY <1>11, <2>1 DEF IsInjective
<1>15. ASSUME NEW id \in ids PROVE \E k \in 1..n : sorted(ids)[k] = id
  <2> HIDE DEF n
  <2>1. rank[id] + 1 \in 1..n /\ rank[id] \in Nat
    BY <1>1, <1>4
  <2>2. at(rank[id] + 1) = id
    <3>1. at(rank[id] + 1) \in ids /\ rank[at(rank[id] + 1)] = (rank[id] + 1) - 1
      BY <1>10, <2>1
    <3>2. (rank[id] + 1) - 1 = rank[id]
      BY <2>1
    <3> QED BY <1>5, <3>1, <3>2
  <2> QED BY <1>11, <2>1, <2>2
<1>16. ToSet(sorted(ids)) = ids
  BY <1>12, <1>13, <1>15 DEF ToSet
<1> QED BY <1>1, <1>13, <1>14, <1>16

-----------------------------------------------------------------------------
(* The rounds of dependencyOrder. *)

\* The loop over rounds computes something: after no round nothing is ordered, and a
\* round continues where the last one stopped.
LEMMA RoundsDef ==
    ASSUME NEW b, Len(b) \in Nat
    PROVE  rounds(b) = [k \in 0..Len(b) |-> IF k = 0 THEN <<>> ELSE nextRound(b, rounds(b)[k - 1])]
<1> DEFINE F(g, k) == IF k = 0 THEN <<>> ELSE nextRound(b, g[k - 1])
           Runs(g, n) == g = [k \in 0..n |-> F(g, k)]
           bad == {n \in Nat : ~ \E g : Runs(g, n)}
<1>1. bad = {}
  <2>1. SUFFICES ASSUME bad # {} PROVE FALSE
    OBVIOUS
  <2>2. PICK n \in bad : \A m \in bad : n <= m
    <3>1. bad \in SUBSET Nat
      OBVIOUS
    <3> HIDE DEF bad
    <3> QED BY <2>1, <3>1, LeastExists
  <2>3. n # 0
    <3>1. SUFFICES ASSUME n = 0 PROVE FALSE
      OBVIOUS
    <3> DEFINE z == [k \in 0..0 |-> <<>>]
    <3>2. z = [k \in 0..0 |-> F(z, k)]
      <4>1. \A k \in 0..0 : k = 0
        OBVIOUS
      <4> QED BY <4>1
    <3>3. Runs(z, n)
      BY <3>1, <3>2
    <3> QED BY <3>3
  <2>4. n \in Nat /\ n - 1 \in Nat /\ ~ (n <= n - 1)
    BY <2>3
  <2>5. PICK g : Runs(g, n - 1)
    <3>1. n - 1 \notin bad
      BY <2>2, <2>4
    <3> QED BY <2>4, <3>1
  <2> DEFINE h == [k \in 0..n |-> F(g, k)]
  <2>6. ASSUME NEW k \in 0..n PROVE F(g, k) = F(h, k)
    <3>1. CASE k = 0
      BY <3>1
    <3>2. CASE k # 0
      <4>1. k - 1 \in 0..n /\ k - 1 \in 0..(n - 1)
        BY <2>4, <3>2
      <4>2. g[k - 1] = F(g, k - 1)
        <5>1. g = [j \in 0..(n - 1) |-> F(g, j)]
          BY <2>5
        <5> HIDE DEF F, h
        <5> QED BY <4>1, <5>1
      <4>3. h[k - 1] = F(g, k - 1)
        <5> HIDE DEF F
        <5> QED BY <4>1
      <4> QED BY <3>2, <4>2, <4>3
    <3> QED BY <3>1, <3>2
  <2>7. h = [k \in 0..n |-> F(h, k)]
    <3> HIDE DEF F
    <3> QED BY <2>6
  <2>8. Runs(h, n)
    BY <2>7
  <2> QED BY <2>8
<1>2. \E g : Runs(g, Len(b))
  BY <1>1
<1>3. rounds(b) = CHOOSE g : Runs(g, Len(b))
  BY DEF rounds
<1>4. Runs(rounds(b), Len(b))
  <2> HIDE DEF Runs
  <2> QED BY <1>2, <1>3
<1> QED BY <1>4


\* A unit's own needs are upstream of it, and so is what they need.
LEMMA UpstreamIsTransitive ==
    ASSUME NEW b, NEW id
    PROVE  /\ InBatch(b, id) \subseteq UnitIds(b)
           /\ InBatch(b, id) \subseteq Upstream(b, InBatch(b, id))
           /\ Upstream(b, InBatch(b, id)) \subseteq UnitIds(b)
           /\ \A n \in InBatch(b, id) :
                Upstream(b, InBatch(b, n)) \subseteq Upstream(b, InBatch(b, id))
<1>1. InBatch(b, id) \subseteq UnitIds(b)
  BY DEF InBatch
<1>2. InBatch(b, id) \subseteq Upstream(b, InBatch(b, id))
  BY <1>1 DEF Upstream
<1>3. Upstream(b, InBatch(b, id)) \subseteq UnitIds(b)
  BY DEF Upstream
<1>4. ASSUME NEW n \in InBatch(b, id)
      PROVE  Upstream(b, InBatch(b, n)) \subseteq Upstream(b, InBatch(b, id))
  BY <1>4 DEF Upstream
<1> QED BY <1>1, <1>2, <1>3, <1>4

\* Where each of some units waits for another of them, needs run in a circle: dependencyOrder
\* has no free unit only then.
LEMMA StuckIsCircular ==
    ASSUME NEW b, IsBatch(b), NEW P \in SUBSET UnitIds(b), P # {},
           \A id \in P : InBatch(b, id) \cap P # {}
    PROVE  circular(b)
<1> DEFINE Up(id) == Upstream(b, InBatch(b, id))
           size(id) == Cardinality(Up(id))
           sizes == {size(id) : id \in P}
<1>1. ASSUME NEW id \in UnitIds(b) PROVE IsFiniteSet(Up(id)) /\ size(id) \in Nat
  <2>1. Up(id) \in SUBSET UnitIds(b)
    BY UpstreamIsTransitive
  <2>2. IsFiniteSet(UnitIds(b))
    BY BatchIds
  <2>3. IsFiniteSet(Up(id))
    BY <2>1, <2>2, FS_Subset, Zenon
  <2> QED BY <2>3, FS_CardinalityType
<1>2. \E m \in sizes : \A n \in sizes : m <= n
  <2>1. sizes \in SUBSET Nat
    BY <1>1
  <2>2. sizes # {}
    OBVIOUS
  <2> HIDE DEF sizes
  <2> QED BY <2>1, <2>2, LeastExists
<1>3. PICK id \in P : \A n \in P : size(id) <= size(n)
  <2> HIDE DEF size
  <2> QED BY <1>2
<1>4. PICK n \in P : n \in InBatch(b, id)
  OBVIOUS
<1>5. Up(n) \in SUBSET Up(id) /\ n \in Up(id)
  BY <1>4, UpstreamIsTransitive
<1>6. CASE n \in Up(n)
  BY <1>4, <1>6 DEF circular
<1>7. CASE n \notin Up(n)
  <2>1. IsFiniteSet(Up(id)) /\ size(id) \in Nat /\ size(n) \in Nat
    BY <1>1
  <2>2. size(n) <= size(id) /\ (size(id) = size(n) => Up(id) = Up(n))
    BY <1>5, <2>1, FS_Subset, Zenon
  <2>3. size(id) = size(n)
    <3> HIDE DEF size
    <3> QED BY <1>3, <2>1, <2>2
  <2> QED BY <1>5, <1>7, <2>2, <2>3
<1> QED BY <1>6, <1>7

\* Behind what is ordered, a round puts units that are not, each once.
LEMMA RoundAppends ==
    ASSUME NEW b, IsBatch(b), NEW out \in Seq(UnitIds(b)), IsInjective(out),
           NEW more \in SUBSET (UnitIds(b) \ ToSet(out))
    PROVE  LET next == out \o sorted(more)
           IN /\ next \in Seq(UnitIds(b)) /\ IsInjective(next)
              /\ Len(next) = Len(out) + Cardinality(more) /\ Cardinality(more) \in Nat
              /\ more # {} => Cardinality(more) > 0
              /\ \A i \in 1..Len(out) : next[i] = out[i]
              /\ \A i \in (Len(out) + 1)..Len(next) : next[i] \in more
<1> DEFINE s == sorted(more)
           next == out \o s
<1>1. more \in SUBSET Nat /\ IsFiniteSet(more)
  <2>1. IsFiniteSet(UnitIds(b)) /\ UnitIds(b) \subseteq Nat /\ more \in SUBSET UnitIds(b)
    BY BatchIds
  <2>2. IsFiniteSet(more)
    BY <2>1, FS_Subset, Zenon
  <2> QED BY <2>1, <2>2
<1>2. /\ s \in Seq(more) /\ Len(s) = Cardinality(more) /\ Cardinality(more) \in Nat
      /\ IsInjective(s)
  BY <1>1, SortedIds
<1>3. more # {} => Cardinality(more) > 0
  BY <1>1, <1>2, FS_EmptySet
<1> HIDE DEF s
<1>4. s \in Seq(UnitIds(b)) /\ Len(out) \in Nat /\ Len(s) \in Nat
      /\ DOMAIN out = 1..Len(out) /\ DOMAIN s = 1..Len(s)
  BY <1>2
<1>5. next \in Seq(UnitIds(b)) /\ Len(next) = Len(out) + Len(s) /\ DOMAIN next = 1..(Len(out) + Len(s))
  BY <1>4
<1>6. \A i \in 1..Len(out) : next[i] = out[i] /\ out[i] \in ToSet(out)
  BY <1>4 DEF ToSet
<1>7. \A i \in (Len(out) + 1)..(Len(out) + Len(s)) :
        /\ i - Len(out) \in 1..Len(s) /\ next[i] = s[i - Len(out)] /\ s[i - Len(out)] \in more
  BY <1>2, <1>4
<1> HIDE DEF next
<1>8. ASSUME NEW i \in 1..(Len(out) + Len(s)), NEW j \in 1..(Len(out) + Len(s)), next[i] = next[j]
      PROVE  i = j
  <2>1. CASE i \in 1..Len(out) /\ j \in 1..Len(out)
    BY <1>4, <1>6, <1>8, <2>1 DEF IsInjective
  <2>2. CASE i \notin 1..Len(out) /\ j \notin 1..Len(out)
    <3>1. i \in (Len(out) + 1)..(Len(out) + Len(s)) /\ j \in (Len(out) + 1)..(Len(out) + Len(s))
      BY <1>4, <2>2
    <3>2. s[i - Len(out)] = s[j - Len(out)] /\ i - Len(out) \in DOMAIN s /\ j - Len(out) \in DOMAIN s
      BY <1>4, <1>7, <1>8, <3>1
    <3>3. i - Len(out) = j - Len(out)
      BY <1>2, <3>2, Zenon DEF IsInjective
    <3> QED BY <1>4, <3>1, <3>3
  <2>3. CASE i \in 1..Len(out) /\ j \notin 1..Len(out)
    <3>1. j \in (Len(out) + 1)..(Len(out) + Len(s))
      BY <1>4, <2>3
    <3> QED BY <1>6, <1>7, <1>8, <2>3, <3>1
  <2>4. CASE i \notin 1..Len(out) /\ j \in 1..Len(out)
    <3>1. i \in (Len(out) + 1)..(Len(out) + Len(s))
      BY <1>4, <2>4
    <3> QED BY <1>6, <1>7, <1>8, <2>4, <3>1
  <2> QED BY <2>1, <2>2, <2>3, <2>4
<1>9. IsInjective(next)
  BY <1>5, <1>8 DEF IsInjective
<1>10. /\ next \in Seq(UnitIds(b)) /\ IsInjective(next)
       /\ Len(next) = Len(out) + Cardinality(more) /\ Cardinality(more) \in Nat
       /\ more # {} => Cardinality(more) > 0
       /\ \A i \in 1..Len(out) : next[i] = out[i]
       /\ \A i \in (Len(out) + 1)..Len(next) : next[i] \in more
  BY <1>2, <1>3, <1>5, <1>6, <1>7, <1>9
<1> QED BY <1>10 DEF next, s

\* What is ordered so far: each unit once, and behind its needs unless they run in a circle.
Ordered(b, out) ==
    /\ out \in Seq(UnitIds(b))
    /\ IsInjective(out)
    /\ ~circular(b) => \A i \in 1..Len(out) : \A n \in InBatch(b, out[i]) :
                         \E j \in 1..(i - 1) : out[j] = n

\* A round keeps the order and orders at least one unit that is pending.
LEMMA RoundKeepsOrder ==
    ASSUME NEW b, IsBatch(b), NEW out, Ordered(b, out)
    PROVE  /\ Ordered(b, nextRound(b, out))
           /\ Len(nextRound(b, out)) >= Len(out)
           /\ ToSet(out) \subseteq ToSet(nextRound(b, out))
           /\ ToSet(out) # UnitIds(b) => Len(nextRound(b, out)) > Len(out)
<1> DEFINE pending == UnitIds(b) \ ToSet(out)
           free == {id \in pending : InBatch(b, id) \subseteq ToSet(out)}
           more == IF free = {} THEN pending ELSE free
           next == out \o sorted(more)
<1>1. nextRound(b, out) = next
  BY DEF nextRound
<1>2. more \in SUBSET (UnitIds(b) \ ToSet(out))
  OBVIOUS
<1>3. /\ out \in Seq(UnitIds(b)) /\ IsInjective(out)
      /\ Len(out) \in Nat /\ DOMAIN out = 1..Len(out) /\ ToSet(out) \subseteq UnitIds(b)
  BY DEF Ordered, ToSet
<1>4. /\ next \in Seq(UnitIds(b)) /\ IsInjective(next)
      /\ Len(next) = Len(out) + Cardinality(more) /\ Cardinality(more) \in Nat
      /\ more # {} => Cardinality(more) > 0
      /\ \A i \in 1..Len(out) : next[i] = out[i]
      /\ \A i \in (Len(out) + 1)..Len(next) : next[i] \in more
  <2> HIDE DEF more
  <2> QED BY <1>2, <1>3, RoundAppends
<1>5. ~circular(b) /\ more # {} => more = free
  <2>1. SUFFICES ASSUME ~circular(b), pending # {}, free = {} PROVE FALSE
    OBVIOUS
  <2>2. \A id \in pending : InBatch(b, id) \cap pending # {}
    <3>1. \A id \in pending : InBatch(b, id) \subseteq UnitIds(b)
      BY UpstreamIsTransitive
    <3> QED BY <2>1, <3>1
  <2>3. circular(b)
    <3>1. pending \in SUBSET UnitIds(b)
      OBVIOUS
    <3> HIDE DEF pending
    <3> QED BY <2>1, <2>2, <3>1, StuckIsCircular
  <2> QED BY <2>1, <2>3
<1> HIDE DEF next
<1>6. ASSUME ~circular(b), NEW i \in 1..Len(next), NEW n \in InBatch(b, next[i])
      PROVE  \E j \in 1..(i - 1) : next[j] = n
  <2>1. CASE i \in 1..Len(out)
    <3>1. PICK j \in 1..(i - 1) : out[j] = n
      <4>1. n \in InBatch(b, out[i])
        BY <1>4, <2>1
      <4> QED BY <1>6, <2>1, <4>1 DEF Ordered
    <3>2. j \in 1..Len(out)
      BY <1>3, <2>1
    <3> QED BY <1>4, <3>1, <3>2
  <2>2. CASE i \notin 1..Len(out)
    <3>1. i \in (Len(out) + 1)..Len(next)
      <4> HIDE DEF more
      <4> QED BY <1>3, <1>4, <2>2
    <3>2. next[i] \in more
      <4> HIDE DEF more
      <4> QED BY <1>4, <3>1
    <3>3. next[i] \in free
      BY <1>5, <1>6, <3>2
    <3>4. n \in ToSet(out)
      BY <3>3
    <3>5. PICK j \in 1..Len(out) : out[j] = n
      BY <1>3, <3>4 DEF ToSet
    <3>6. j \in 1..(i - 1)
      <4> HIDE DEF more
      <4> QED BY <1>3, <1>4, <3>1
    <3> QED BY <1>4, <3>5, <3>6
  <2> QED BY <2>1, <2>2
<1>7. Ordered(b, next)
  BY <1>4, <1>6 DEF Ordered
<1>8. ToSet(out) \subseteq ToSet(next)
  <2>1. ASSUME NEW i \in 1..Len(out) PROVE i \in DOMAIN next /\ next[i] = out[i]
    <3>1. DOMAIN next = 1..Len(next)
      BY <1>4
    <3> HIDE DEF more
    <3> QED BY <1>3, <1>4, <3>1
  <2> QED BY <1>3, <2>1 DEF ToSet
<1>9. ToSet(out) # UnitIds(b) => more # {}
  BY <1>3
<1>10. Len(next) >= Len(out) /\ (more # {} => Len(next) > Len(out))
  <2> HIDE DEF more
  <2> QED BY <1>3, <1>4
<1> QED BY <1>1, <1>7, <1>8, <1>9, <1>10

\* An order that names no unit twice is no longer than the batch has units.
LEMMA OrderedIsShort ==
    ASSUME NEW b, IsBatch(b), NEW out, Ordered(b, out)
    PROVE  /\ Len(out) \in Nat /\ Len(out) <= Cardinality(UnitIds(b))
           /\ Len(out) = Cardinality(UnitIds(b)) <=> ToSet(out) = UnitIds(b)
<1>1. /\ out \in [1..Len(out) -> UnitIds(b)] /\ Len(out) \in Nat /\ DOMAIN out = 1..Len(out)
  BY DEF Ordered
<1>2. out \in Injection(1..Len(out), UnitIds(b))
  <2>1. IsInjective(out)
    BY DEF Ordered
  <2> QED BY <1>1, <2>1, Zenon DEF Injection, IsInjective
<1>3. Cardinality(1..Len(out)) = Len(out)
  <2>1. 1 \in Int /\ Len(out) \in Int
    BY <1>1
  <2>2. Cardinality(1..Len(out)) = IF 1 > Len(out) THEN 0 ELSE Len(out) - 1 + 1
    BY <2>1, FS_Interval, Zenon
  <2> QED BY <1>1, <2>2
<1>4. /\ Cardinality(1..Len(out)) <= Cardinality(UnitIds(b))
      /\ Cardinality(1..Len(out)) = Cardinality(UnitIds(b)) <=> out \in Surjection(1..Len(out), UnitIds(b))
  <2>1. IsFiniteSet(UnitIds(b))
    BY BatchIds
  <2> QED BY <1>2, <2>1, FS_Injection, Zenon
<1>5. out \in Surjection(1..Len(out), UnitIds(b)) <=> ToSet(out) = UnitIds(b)
  <2>1. ToSet(out) \subseteq UnitIds(b)
    BY <1>1 DEF ToSet
  <2>2. out \in Surjection(1..Len(out), UnitIds(b)) <=> \A id \in UnitIds(b) : \E i \in 1..Len(out) : out[i] = id
    BY <1>1, Zenon DEF Surjection
  <2>3. (\A id \in UnitIds(b) : \E i \in 1..Len(out) : out[i] = id) <=> UnitIds(b) \subseteq ToSet(out)
    BY <1>1 DEF ToSet
  <2> QED BY <2>1, <2>2, <2>3
<1> QED BY <1>1, <1>3, <1>4, <1>5

\* After k rounds k units are ordered, or all of them.
LEMMA RoundsOrder ==
    ASSUME NEW b, IsBatch(b), NEW k \in 0..Len(b)
    PROVE  /\ Ordered(b, rounds(b)[k])
           /\ Len(rounds(b)[k]) >= k \/ ToSet(rounds(b)[k]) = UnitIds(b)
<1> DEFINE Good(i) == /\ Ordered(b, rounds(b)[i])
                      /\ Len(rounds(b)[i]) >= i \/ ToSet(rounds(b)[i]) = UnitIds(b)
           bad == {i \in 0..Len(b) : ~Good(i)}
<1>1. Len(b) \in Nat
  BY BatchIds
<1>2. rounds(b) = [i \in 0..Len(b) |-> IF i = 0 THEN <<>> ELSE nextRound(b, rounds(b)[i - 1])]
  BY <1>1, RoundsDef
<1>3. bad = {}
  <2>1. SUFFICES ASSUME bad # {} PROVE FALSE
    OBVIOUS
  <2>2. PICK m \in bad : \A i \in bad : m <= i
    <3>1. bad \in SUBSET Nat
      BY <1>1
    <3> HIDE DEF bad
    <3> QED BY <2>1, <3>1, LeastExists
  <2>3. CASE m = 0
    <3>1. rounds(b)[m] = <<>>
      BY <1>1, <1>2, <2>3
    <3>2. Ordered(b, <<>>) /\ Len(<<>>) >= 0
      BY DEF Ordered, IsInjective
    <3> QED BY <2>3, <3>1, <3>2
  <2>4. CASE m # 0
    <3> DEFINE out == rounds(b)[m - 1]
    <3>1. m \in Nat /\ m - 1 \in 0..Len(b) /\ ~ (m <= m - 1)
      BY <1>1, <2>4
    <3>2. Good(m - 1)
      BY <2>2, <3>1
    <3>3. rounds(b)[m] = nextRound(b, out)
      <4>1. m \in 0..Len(b)
        OBVIOUS
      <4> QED BY <1>2, <2>4, <4>1
    <3> HIDE DEF out
    <3>4. Ordered(b, out) /\ (Len(out) >= m - 1 \/ ToSet(out) = UnitIds(b))
      BY <3>2 DEF out
    <3>5. /\ Ordered(b, nextRound(b, out))
          /\ ToSet(out) \subseteq ToSet(nextRound(b, out))
          /\ ToSet(out) # UnitIds(b) => Len(nextRound(b, out)) > Len(out)
      BY <3>4, RoundKeepsOrder
    <3>6. ToSet(nextRound(b, out)) \subseteq UnitIds(b)
      BY <3>5 DEF Ordered, ToSet
    <3>7. Len(out) \in Nat /\ Len(nextRound(b, out)) \in Nat
      BY <3>4, <3>5 DEF Ordered
    <3>8. Len(nextRound(b, out)) >= m \/ ToSet(nextRound(b, out)) = UnitIds(b)
      <4>1. CASE ToSet(out) = UnitIds(b)
        BY <3>5, <3>6, <4>1
      <4>2. CASE ToSet(out) # UnitIds(b)
        <5>1. Len(out) >= m - 1 /\ Len(nextRound(b, out)) > Len(out)
          BY <3>4, <3>5, <4>2
        <5> HIDE DEF bad
        <5> QED BY <3>1, <3>7, <5>1
      <4> QED BY <4>1, <4>2
    <3> QED BY <3>3, <3>5, <3>8
  <2> QED BY <2>3, <2>4
<1> QED BY <1>3

(***************************************************************************)
(* dependencyOrder names every unit of any batch once, and nothing else;   *)
(* unless needs run in a circle, each comes after all that it needs.       *)
(***************************************************************************)
THEOREM OrderIsTopological ==
    ASSUME NEW b, IsBatch(b)
    PROVE  /\ Ordered(b, dependencyOrder(b))
           /\ ToSet(dependencyOrder(b)) = UnitIds(b)
           /\ Len(dependencyOrder(b)) = Cardinality(UnitIds(b))
<1> DEFINE out == dependencyOrder(b)
<1>1. Len(b) \in Nat /\ Cardinality(UnitIds(b)) \in Nat /\ Cardinality(UnitIds(b)) <= Len(b)
  BY BatchIds
<1>2. Len(b) \in 0..Len(b)
  BY <1>1
<1>3. Ordered(b, out) /\ (Len(out) >= Len(b) \/ ToSet(out) = UnitIds(b))
  BY <1>2, RoundsOrder DEF dependencyOrder
<1>4. /\ Len(out) \in Nat /\ Len(out) <= Cardinality(UnitIds(b))
      /\ Len(out) = Cardinality(UnitIds(b)) <=> ToSet(out) = UnitIds(b)
  BY <1>3, OrderedIsShort
<1>5. Len(out) >= Len(b) => Len(out) = Cardinality(UnitIds(b))
  <2> HIDE DEF out
  <2> QED BY <1>1, <1>4
<1> QED BY <1>3, <1>4, <1>5

-----------------------------------------------------------------------------
(* dependents. *)

\* The loop that collects the dependents of a lane computes something.
LEMMA HaltingDef ==
    ASSUME NEW b, NEW id, Len(b) \in Nat
    PROVE  halting(b, id) =
             [k \in 0..Len(b) |->
                IF k = 0 THEN {}
                ELSE halting(b, id)[k - 1] \cup
                       {u \in UnitIds(b) \ {id} :
                          UnitOf(b, u).needs \cap (halting(b, id)[k - 1] \cup {id}) # {}}]
<1> DEFINE F(g, k) == IF k = 0 THEN {}
                      ELSE g[k - 1] \cup {u \in UnitIds(b) \ {id} :
                                            UnitOf(b, u).needs \cap (g[k - 1] \cup {id}) # {}}
           Runs(g, n) == g = [k \in 0..n |-> F(g, k)]
           bad == {n \in Nat : ~ \E g : Runs(g, n)}
<1>1. bad = {}
  <2>1. SUFFICES ASSUME bad # {} PROVE FALSE
    OBVIOUS
  <2>2. PICK n \in bad : \A m \in bad : n <= m
    <3>1. bad \in SUBSET Nat
      OBVIOUS
    <3> HIDE DEF bad
    <3> QED BY <2>1, <3>1, LeastExists
  <2>3. n # 0
    <3>1. SUFFICES ASSUME n = 0 PROVE FALSE
      OBVIOUS
    <3> DEFINE z == [k \in 0..0 |-> {}]
    <3>2. z = [k \in 0..0 |-> F(z, k)]
      <4>1. \A k \in 0..0 : k = 0
        OBVIOUS
      <4> QED BY <4>1
    <3>3. Runs(z, n)
      BY <3>1, <3>2
    <3> QED BY <3>3
  <2>4. n \in Nat /\ n - 1 \in Nat /\ ~ (n <= n - 1)
    BY <2>3
  <2>5. PICK g : Runs(g, n - 1)
    <3>1. n - 1 \notin bad
      BY <2>2, <2>4
    <3> QED BY <2>4, <3>1
  <2> DEFINE h == [k \in 0..n |-> F(g, k)]
  <2>6. ASSUME NEW k \in 0..n PROVE F(g, k) = F(h, k)
    <3>1. CASE k = 0
      BY <3>1
    <3>2. CASE k # 0
      <4>1. k - 1 \in 0..n /\ k - 1 \in 0..(n - 1)
        BY <2>4, <3>2
      <4>2. g[k - 1] = F(g, k - 1)
        <5>1. g = [j \in 0..(n - 1) |-> F(g, j)]
          BY <2>5
        <5> HIDE DEF F, h
        <5> QED BY <4>1, <5>1
      <4>3. h[k - 1] = F(g, k - 1)
        <5> HIDE DEF F
        <5> QED BY <4>1
      <4>4. g[k - 1] = h[k - 1]
        BY <4>2, <4>3
      <4> HIDE DEF h
      <4> QED BY <3>2, <4>4
    <3> QED BY <3>1, <3>2
  <2>7. h = [k \in 0..n |-> F(h, k)]
    <3> HIDE DEF F
    <3> QED BY <2>6
  <2>8. Runs(h, n)
    BY <2>7
  <2> QED BY <2>8
<1>2. \E g : Runs(g, Len(b))
  BY <1>1
<1>3. halting(b, id) = CHOOSE g : Runs(g, Len(b))
  BY DEF halting
<1>4. Runs(halting(b, id), Len(b))
  <2> HIDE DEF Runs
  <2> QED BY <1>2, <1>3
<1> QED BY <1>4

\* The lanes other than id that need it or one of D.
Affected(b, id, D) == {u \in UnitIds(b) \ {id} : UnitOf(b, u).needs \cap (D \cup {id}) # {}}

\* Every pass adds a lane or has found all of them, and adds only lanes that the failed
\* one is upstream of.
LEMMA HaltingGrows ==
    ASSUME NEW b, IsBatch(b), NEW id \in UnitIds(b), NEW k \in 0..Len(b)
    PROVE  LET D == halting(b, id)[k]
           IN /\ D \subseteq UnitIds(b) \ {id}
              /\ Affected(b, id, D) \subseteq D \/ Cardinality(D) >= k
              /\ \A u \in D : id \in Upstream(b, InBatch(b, u))
<1> DEFINE Good(D, i) == /\ D \subseteq UnitIds(b) \ {id}
                         /\ Affected(b, id, D) \subseteq D \/ Cardinality(D) >= i
                         /\ \A u \in D : id \in Upstream(b, InBatch(b, u))
           bad == {i \in 0..Len(b) : ~Good(halting(b, id)[i], i)}
<1>1. Len(b) \in Nat /\ IsFiniteSet(UnitIds(b))
  BY BatchIds
<1>2. halting(b, id) = [i \in 0..Len(b) |->
                          IF i = 0 THEN {}
                          ELSE halting(b, id)[i - 1] \cup Affected(b, id, halting(b, id)[i - 1])]
  BY <1>1, HaltingDef DEF Affected
<1>3. bad = {}
  <2>1. SUFFICES ASSUME bad # {} PROVE FALSE
    OBVIOUS
  <2>2. PICK m \in bad : \A i \in bad : m <= i
    <3>1. bad \in SUBSET Nat
      BY <1>1
    <3> HIDE DEF bad
    <3> QED BY <2>1, <3>1, LeastExists
  <2>3. m \in 0..Len(b)
    OBVIOUS
  <2>4. CASE m = 0
    <3>1. halting(b, id)[m] = {}
      BY <1>2, <2>3, <2>4
    <3>2. Cardinality({}) >= 0
      BY FS_EmptySet
    <3>3. Good({}, 0)
      BY <3>2
    <3> QED BY <2>4, <3>1, <3>3
  <2>5. CASE m # 0
    <3> DEFINE D == halting(b, id)[m - 1]
               E == D \cup Affected(b, id, D)
    <3>1. m \in Nat /\ m - 1 \in 0..Len(b) /\ ~ (m <= m - 1)
      BY <1>1, <2>3, <2>5
    <3>2. Good(D, m - 1)
      BY <2>2, <3>1
    <3>3. halting(b, id)[m] = E
      BY <1>2, <2>3, <2>5
    <3> HIDE DEF D
    <3>4. E \subseteq UnitIds(b) \ {id}
      BY <3>2 DEF Affected
    <3>5. ASSUME NEW u \in E PROVE id \in Upstream(b, InBatch(b, u))
      <4>1. CASE u \in D
        BY <3>2, <4>1
      <4>2. CASE u \in Affected(b, id, D)
        <5>1. PICK n \in UnitOf(b, u).needs : n \in D \cup {id}
          BY <4>2 DEF Affected
        <5>2. n \in InBatch(b, u)
          BY <3>2, <5>1 DEF InBatch
        <5>3. CASE n = id
          BY <5>2, <5>3, UpstreamIsTransitive
        <5>4. CASE n \in D
          <6>1. id \in Upstream(b, InBatch(b, n))
            BY <3>2, <5>4
          <6> QED BY <5>2, <6>1, UpstreamIsTransitive
        <5> QED BY <5>1, <5>3, <5>4
      <4> QED BY <4>1, <4>2
    <3>6. Affected(b, id, E) \subseteq E \/ Cardinality(E) >= m
      <4>1. CASE Affected(b, id, D) \subseteq D
        <5>1. E = D
          BY <4>1
        <5> QED BY <4>1, <5>1
      <4>2. CASE ~ (Affected(b, id, D) \subseteq D)
        <5>1. Cardinality(D) >= m - 1
          BY <3>2, <4>2
        <5>2. PICK u \in Affected(b, id, D) : u \notin D
          BY <4>2
        <5>3. IsFiniteSet(E)
          <6>1. E \in SUBSET UnitIds(b)
            BY <3>4
          <6> HIDE DEF E
          <6> QED BY <1>1, <6>1, FS_Subset, Zenon
        <5>4. D \in SUBSET E /\ D # E
          BY <5>2
        <5> HIDE DEF E
        <5>5. IsFiniteSet(D) /\ Cardinality(D) <= Cardinality(E) /\ Cardinality(E) # Cardinality(D)
          BY <5>3, <5>4, FS_Subset, Zenon
        <5>6. Cardinality(D) \in Nat /\ Cardinality(E) \in Nat
          BY <5>3, <5>5, FS_CardinalityType
        <5> HIDE DEF bad
        <5>7. Cardinality(E) >= m
          BY <3>1, <5>1, <5>5, <5>6
        <5> QED BY <5>7
      <4> QED BY <4>1, <4>2
    <3>7. Good(E, m)
      BY <3>4, <3>5, <3>6
    <3> QED BY <3>3, <3>7
  <2> QED BY <2>4, <2>5
<1>4. Good(halting(b, id)[k], k)
  BY <1>3
<1> QED BY <1>4

(***************************************************************************)
(* The lanes that dependents halts with a failed lane are exactly those    *)
(* that need it, directly or through others.                               *)
(***************************************************************************)
LEMMA HaltedNeedIt ==
    ASSUME NEW b, IsBatch(b), NEW id \in UnitIds(b)
    PROVE  /\ dependents(b, id) \subseteq UnitIds(b) \ {id}
           /\ \A u \in UnitIds(b) \ {id} :
                u \in dependents(b, id) <=> id \in Upstream(b, InBatch(b, u))
<1> DEFINE D == dependents(b, id)
<1>1. /\ Len(b) \in Nat /\ IsFiniteSet(UnitIds(b))
      /\ Cardinality(UnitIds(b)) \in Nat /\ Cardinality(UnitIds(b)) <= Len(b)
  BY BatchIds
<1>2. /\ D \subseteq UnitIds(b) \ {id}
      /\ Affected(b, id, D) \subseteq D \/ Cardinality(D) >= Len(b)
      /\ \A u \in D : id \in Upstream(b, InBatch(b, u))
  <2>1. Len(b) \in 0..Len(b)
    BY <1>1
  <2> QED BY <2>1, HaltingGrows DEF dependents
<1> HIDE DEF D
<1>3. Affected(b, id, D) \subseteq D
  <2>1. IsFiniteSet(UnitIds(b) \ {id}) /\ Cardinality(UnitIds(b) \ {id}) = Cardinality(UnitIds(b)) - 1
    BY <1>1, FS_RemoveElement
  <2>2. IsFiniteSet(D) /\ Cardinality(D) <= Cardinality(UnitIds(b) \ {id})
    BY <1>2, <2>1, FS_Subset
  <2>3. Cardinality(D) \in Nat
    BY <2>2, FS_CardinalityType
  <2>4. ~ (Cardinality(D) >= Len(b))
    BY <1>1, <2>1, <2>2, <2>3
  <2> QED BY <1>2, <2>4
<1>4. ASSUME NEW u \in UnitIds(b) \ {id}, u \notin D PROVE id \notin Upstream(b, InBatch(b, u))
  <2> DEFINE S == UnitIds(b) \ (D \cup {id})
  <2>1. \A v \in S : InBatch(b, v) \subseteq S
    BY <1>3 DEF Affected, InBatch
  <2>2. u \in S
    BY <1>4
  <2> QED BY <2>1, <2>2 DEF Upstream
<1> QED BY <1>2, <1>4 DEF D

(***************************************************************************)
(* The rules of evaluate for a batch hold for every batch: the order names *)
(* each unit once, behind its needs unless those are circular, and a lane  *)
(* entry halts exactly the lanes its failure leaves without a need.        *)
(***************************************************************************)
THEOREM EveryOrderIsRunnable ==
    ASSUME NEW b, IsBatch(b)
    PROVE  OrderIsRunnable(b)
<1> DEFINE order == dependencyOrder(b)
           At(id) == CHOOSE i \in DOMAIN order : order[i] = id
           entries == {laneEntry(b, UnitOf(b, id)) : id \in UnitIds(b)}
<1>1. Ordered(b, order) /\ ToSet(order) = UnitIds(b)
  BY OrderIsTopological
<1>2. Len(order) \in Nat /\ DOMAIN order = 1..Len(order) /\ IsInjective(order)
  BY <1>1 DEF Ordered
<1> HIDE DEF order
<1>3. ASSUME NEW id \in UnitIds(b) PROVE At(id) \in 1..Len(order) /\ order[At(id)] = id
  <2>1. \E i \in DOMAIN order : order[i] = id
    BY <1>1 DEF ToSet
  <2>2. At(id) \in DOMAIN order /\ order[At(id)] = id
    BY <2>1
  <2> QED BY <1>2, <2>2
<1> HIDE DEF At
<1>4. ASSUME ~circular(b), NEW id \in UnitIds(b), NEW n \in InBatch(b, id) PROVE At(n) < At(id)
  <2>1. PICK j \in 1..(At(id) - 1) : order[j] = n
    <3>1. At(id) \in 1..Len(order) /\ n \in InBatch(b, order[At(id)])
      BY <1>3, <1>4
    <3> QED BY <1>1, <1>4, <3>1 DEF Ordered
  <2>2. j \in 1..Len(order) /\ j < At(id)
    BY <1>2, <1>3
  <2>3. n \in UnitIds(b)
    BY UpstreamIsTransitive
  <2>4. At(n) = j
    BY <1>2, <1>3, <2>1, <2>2, <2>3 DEF IsInjective
  <2> QED BY <2>2, <2>4
<1>5. ASSUME NEW id \in UnitIds(b)
      PROVE  LET e == laneEntry(b, UnitOf(b, id))
             IN /\ e.task_id = id
                /\ e.halts_if_failed = dependents(b, id)
                /\ e.independent_of = UnitIds(b) \ (dependents(b, id) \cup {id})
  <2>1. UnitOf(b, id).task_id = id
    BY UnitOfId
  <2> QED BY <2>1 DEF laneEntry
<1>6. ASSUME NEW e \in entries
      PROVE  /\ \A id \in UnitIds(b) \ {e.task_id} :
                  id \in e.halts_if_failed <=> e.task_id \in Upstream(b, InBatch(b, id))
             /\ e.independent_of \cup e.halts_if_failed = UnitIds(b) \ {e.task_id}
  <2>1. PICK f \in UnitIds(b) : e = laneEntry(b, UnitOf(b, f))
    OBVIOUS
  <2>2. /\ e.task_id = f /\ e.halts_if_failed = dependents(b, f)
        /\ e.independent_of = UnitIds(b) \ (dependents(b, f) \cup {f})
    BY <1>5, <2>1
  <2>3. /\ dependents(b, f) \subseteq UnitIds(b) \ {f}
        /\ \A u \in UnitIds(b) \ {f} : u \in dependents(b, f) <=> f \in Upstream(b, InBatch(b, u))
    BY HaltedNeedIt
  <2> HIDE DEF entries
  <2> QED BY <2>2, <2>3
<1>7. circular(b) \/ \A id \in UnitIds(b) : \A n \in InBatch(b, id) : At(n) < At(id)
  BY <1>4
<1> QED BY <1>1, <1>2, <1>6, <1>7 DEF OrderIsRunnable, order, At

-----------------------------------------------------------------------------
(* Paths. *)

\* A prefix agrees name by name.
LEMMA PrefixIs ==
    ASSUME NEW N, NEW s \in Seq(N), NEW t \in Seq(N)
    PROVE  IsPrefix(s, t) <=> Len(s) <= Len(t) /\ \A i \in 1..Len(s) : s[i] = t[i]
<1>1. Len(s) \in Nat /\ Len(t) \in Nat
  OBVIOUS
<1>2. SubSeq(s, 1, Len(s)) = [i \in 1..Len(s) |-> s[i]]
  BY <1>1
<1>3. Len(s) <= Len(t) => SubSeq(t, 1, Len(s)) = [i \in 1..Len(s) |-> t[i]]
  BY <1>1
<1>4. ASSUME Len(s) <= Len(t) PROVE IsPrefix(s, t) <=> \A i \in 1..Len(s) : s[i] = t[i]
  BY <1>2, <1>3, <1>4 DEF IsPrefix
<1> QED BY <1>4 DEF IsPrefix

LEMMA PrefixTrans ==
    ASSUME NEW N, NEW s \in Seq(N), NEW t \in Seq(N), NEW u \in Seq(N),
           IsPrefix(s, t), IsPrefix(t, u)
    PROVE  IsPrefix(s, u)
<1>1. Len(s) \in Nat /\ Len(t) \in Nat /\ Len(u) \in Nat
  OBVIOUS
<1>2. Len(s) <= Len(t) /\ \A i \in 1..Len(s) : s[i] = t[i]
  BY PrefixIs
<1>3. Len(t) <= Len(u) /\ \A i \in 1..Len(t) : t[i] = u[i]
  BY PrefixIs
<1>4. Len(s) <= Len(u) /\ \A i \in 1..Len(s) : s[i] = u[i]
  BY <1>1, <1>2, <1>3
<1> QED BY <1>4, PrefixIs

\* Of two directories on the way to one file, one contains the other.
LEMMA PrefixesNest ==
    ASSUME NEW N, NEW s \in Seq(N), NEW t \in Seq(N), NEW u \in Seq(N),
           IsPrefix(s, u), IsPrefix(t, u)
    PROVE  /\ IsPrefix(s, t) \/ IsPrefix(t, s)
           /\ Len(s) <= Len(t) => IsPrefix(s, t)
<1>1. Len(s) \in Nat /\ Len(t) \in Nat /\ Len(u) \in Nat
  OBVIOUS
<1>2. Len(s) <= Len(u) /\ \A i \in 1..Len(s) : s[i] = u[i]
  BY PrefixIs
<1>3. Len(t) <= Len(u) /\ \A i \in 1..Len(t) : t[i] = u[i]
  BY PrefixIs
<1>4. CASE Len(s) <= Len(t)
  <2>1. \A i \in 1..Len(s) : s[i] = t[i]
    BY <1>1, <1>2, <1>3, <1>4
  <2> QED BY <1>4, <2>1, PrefixIs
<1>5. CASE ~ (Len(s) <= Len(t))
  <2>1. Len(t) <= Len(s) /\ \A i \in 1..Len(t) : t[i] = s[i]
    BY <1>1, <1>2, <1>3, <1>5
  <2>2. IsPrefix(t, s)
    BY <2>1, PrefixIs
  <2> QED BY <1>5, <2>2
<1> QED BY <1>4, <1>5

\* A prefix as long as the path is the path.
LEMMA PrefixOfSameLength ==
    ASSUME NEW N, NEW s \in Seq(N), NEW t \in Seq(N), IsPrefix(s, t), Len(t) <= Len(s)
    PROVE  s = t
<1>1. Len(s) \in Nat /\ Len(t) \in Nat
  OBVIOUS
<1>2. Len(s) = Len(t) /\ \A i \in 1..Len(s) : s[i] = t[i]
  BY <1>1, PrefixIs
<1> QED BY <1>2

(***************************************************************************)
(* A file that two patterns match makes them overlap: what patternsOverlap *)
(* clears, no file can be inside both.                                     *)
(***************************************************************************)
LEMMA SharedFileOverlaps ==
    ASSUME NEW N, NEW a, NEW b, NEW f \in Seq(N), a.dir \in Seq(N), b.dir \in Seq(N),
           matchPath(f, a), matchPath(f, b)
    PROVE  patternsOverlap(a, b)
<1>1. IsPrefix(a.dir, f) /\ IsPrefix(b.dir, f)
  BY DEF matchPath
<1>2. IsPrefix(a.dir, b.dir) \/ IsPrefix(b.dir, a.dir)
  BY <1>1, PrefixesNest
<1> QED BY <1>2 DEF patternsOverlap, literalPrefix

-----------------------------------------------------------------------------
(* The rules, for every input. *)

\* Every requirement of an eligible batch is met.
LEMMA EligibleMeets ==
    ASSUME NEW b, NEW pol, NEW rep, evaluate(b, pol, rep).eligible
    PROVE  LET r == requirements(b, pol, rep)
           IN r.R1 /\ r.R4 /\ r.R5 /\ r.R6 /\ r.R7 /\ r.R9 /\ r.R13 /\ r.R15
<1> DEFINE r == requirements(b, pol, rep)
<1>1. \A x \in DOMAIN r : r[x]
  BY DEF evaluate
<1>2. {"R1", "R4", "R5", "R6", "R7", "R9", "R13", "R15"} \subseteq DOMAIN r
  BY DEF requirements
<1> QED BY <1>1, <1>2

(***************************************************************************)
(* Whatever the graph, the policy and the working tree, a batch that       *)
(* evaluate lets run in parallel is safe to fan out.                       *)
(***************************************************************************)
THEOREM EveryParallelIsSafe ==
    ASSUME NEW b, IsBatch(b), NEW pol, NEW rep, NEW byId, NEW batch, NEW graph,
           NEW Names, NEW files \in SUBSET Seq(Names),
           \A i \in DOMAIN b : /\ \E n : b[i] = unitFrom(n, byId, batch, graph)
                               /\ \A p \in b[i].allowed : p.dir \in Seq(Names),
           \A p \in pol.sharedWriteSurfaces \cup pol.serialiseIfTouches : p.dir \in Seq(Names),
           pol.minUnits \in Nat, pol.maxConcurrency \in Nat \ {0}
    PROVE  ParallelIsSafe(b, pol, rep, byId, files)
<1> DEFINE d == evaluate(b, pol, rep)
           r == requirements(b, pol, rep)
<1>1. SUFFICES ASSUME d.eligible
      PROVE  /\ \A i, j \in DOMAIN b : i # j =>
                  \A f \in files : ~(anyMatch(f, b[i].allowed) /\ anyMatch(f, b[j].allowed))
             /\ \A i \in DOMAIN b : \A f \in files : anyMatch(f, b[i].allowed) =>
                  /\ ~anyMatch(f, pol.sharedWriteSurfaces \cup pol.serialiseIfTouches)
                  /\ f \notin rep.dirty
             /\ \A i \in DOMAIN b : \A n \in b[i].needs : n \in DOMAIN byId /\ byId[n].state = "DONE"
             /\ d.max_concurrency \in 1..Len(b)
  BY DEF ParallelIsSafe
<1>2. r.R1 /\ r.R4 /\ r.R5 /\ r.R6 /\ r.R7 /\ r.R9 /\ r.R13 /\ r.R15
  BY <1>1, EligibleMeets
<1>3. Len(b) \in Nat /\ DOMAIN b = 1..Len(b)
  BY BatchIds
<1>4. ASSUME NEW i \in DOMAIN b, NEW j \in DOMAIN b, i < j, NEW f \in files
      PROVE  ~(anyMatch(f, b[i].allowed) /\ anyMatch(f, b[j].allowed))
  <2>1. pathOverlaps(b) = {}
    BY <1>2 DEF requirements
  <2>2. \A p \in b[i].allowed, q \in b[j].allowed : ~patternsOverlap(p, q)
    <3>1. <<i, j>> \in (DOMAIN b) \X (DOMAIN b)
      OBVIOUS
    <3> QED BY <1>4, <2>1, <3>1 DEF pathOverlaps
  <2>3. \A p \in b[i].allowed, q \in b[j].allowed : p.dir \in Seq(Names) /\ q.dir \in Seq(Names)
    OBVIOUS
  <2> QED BY <2>2, <2>3, SharedFileOverlaps DEF anyMatch
<1>5. ASSUME NEW i \in DOMAIN b, NEW j \in DOMAIN b, i # j, NEW f \in files
      PROVE  ~(anyMatch(f, b[i].allowed) /\ anyMatch(f, b[j].allowed))
  <2>1. i < j \/ j < i
    BY <1>3, <1>5
  <2> QED BY <1>4, <2>1
<1>6. ASSUME NEW i \in DOMAIN b, NEW f \in files, anyMatch(f, b[i].allowed)
      PROVE  /\ ~anyMatch(f, pol.sharedWriteSurfaces \cup pol.serialiseIfTouches)
             /\ f \notin rep.dirty
  <2>1. ~Claims(b[i], pol.sharedWriteSurfaces) /\ ~Claims(b[i], pol.serialiseIfTouches)
    BY <1>2 DEF requirements
  <2>2. \A g \in rep.dirty : ~anyMatch(g, b[i].allowed)
    BY <1>2 DEF requirements
  <2>3. PICK p \in b[i].allowed : matchPath(f, p)
    BY <1>6 DEF anyMatch
  <2>4. ASSUME NEW s \in pol.sharedWriteSurfaces \cup pol.serialiseIfTouches, matchPath(f, s)
        PROVE  FALSE
    <3>1. patternsOverlap(p, s)
      BY <2>3, <2>4, SharedFileOverlaps
    <3> QED BY <2>1, <3>1 DEF Claims
  <2> QED BY <1>6, <2>2, <2>4 DEF anyMatch
<1>7. ASSUME NEW i \in DOMAIN b, NEW n \in b[i].needs
      PROVE  n \in DOMAIN byId /\ byId[n].state = "DONE"
  <2>1. b[i].unknown_deps = {} /\ b[i].in_batch_deps = {} /\ b[i].unresolved_deps = {}
    BY <1>2 DEF requirements
  <2>2. PICK m : b[i] = unitFrom(m, byId, batch, graph)
    OBVIOUS
  <2>3. n \in m.needs /\ m.needs \ DOMAIN byId = {} /\ m.needs \cap batch = {}
        /\ {e \in (m.needs \cap DOMAIN byId) \ batch : byId[e].state # "DONE"} = {}
    BY <2>1, <2>2 DEF unitFrom
  <2> QED BY <2>3
<1>8. d.max_concurrency \in 1..Len(b)
  <2>1. Len(b) >= Max({2, pol.minUnits})
    BY <1>2 DEF requirements
  <2>2. Max({2, pol.minUnits}) \in Nat /\ Max({2, pol.minUnits}) >= 2
    <3>1. \E x \in {2, pol.minUnits} : \A y \in {2, pol.minUnits} : x >= y
      OBVIOUS
    <3> QED BY <3>1 DEF Max
  <2>3. d.max_concurrency = Min({pol.maxConcurrency, Len(b)})
    BY <1>1 DEF evaluate
  <2>4. \E x \in {pol.maxConcurrency, Len(b)} : \A y \in {pol.maxConcurrency, Len(b)} : x =< y
    BY <1>3
  <2>5. Min({pol.maxConcurrency, Len(b)}) \in {pol.maxConcurrency, Len(b)}
        /\ \A y \in {pol.maxConcurrency, Len(b)} : Min({pol.maxConcurrency, Len(b)}) =< y
    BY <2>4 DEF Min
  <2> QED BY <1>3, <2>1, <2>2, <2>3, <2>5
<1> QED BY <1>5, <1>6, <1>7, <1>8

\* What the lemmas know of a handoff that has the shape the schema asks for.
IsHandoff(h) ==
    /\ h.results \in Seq(ToSet(h.results)) /\ h.commands \in Seq(ToSet(h.commands))
    /\ \A i \in DOMAIN h.results : h.results[i].passed \in BOOLEAN
    /\ h.tests # absent => /\ h.tests.discovered \in Nat /\ h.tests.passed \in Nat
                           /\ h.tests.failed \in Nat /\ h.tests.skipped \in Nat

(***************************************************************************)
(* Whatever a handoff says and whatever commits there are, one that        *)
(* validates as DONE shows the work.                                       *)
(***************************************************************************)
THEOREM EveryDoneIsEvidenced ==
    ASSUME NEW h, NEW unit, NEW commits, IsHandoff(h)
    PROVE  DoneIsEvidenced(h, unit, commits)
<1>1. SUFFICES ASSUME h.status = "DONE", validateHandoff(h, unit, commits) = {}
      PROVE  /\ \A c \in unit.criteria : \E e \in ToSet(h.evidence) :
                  /\ e.requirement = c /\ e.result = "PASS" /\ e.source # "log"
                  /\ e.events => e.artifact
             /\ \A i \in DOMAIN h.commands : h.results[i].command = h.commands[i] /\ h.results[i].exitCode = 0
             /\ \A i \in DOMAIN h.commands : isTest(h.commands[i]) => h.tests.passed + h.tests.skipped > 0
             /\ \A f \in commits[h.commit] :
                  anyMatch(f, unit.allowed \cup {Artifacts}) /\ (anyMatch(f, unit.forbidden) => matchPath(f, Artifacts))
  BY DEF DoneIsEvidenced
<1>2. schemaErrors(h) = {} /\ checkEvidence(h, unit.criteria) = {}
  BY <1>1 DEF validateHandoff
<1>3. h.commit \in DOMAIN commits /\ checkOwnership(commits[h.commit], unit.allowed, unit.forbidden) = {}
  BY <1>1 DEF validateHandoff
<1>4. h.unverified = {}
  BY <1>1, <1>2 DEF schemaErrors
<1>5. /\ ~ \E c \in unit.criteria : c \in h.verified <=> c \in h.unverified
      /\ Len(h.results) = Len(h.commands)
      /\ ~ \E i \in DOMAIN h.results \cap DOMAIN h.commands : h.results[i].command # h.commands[i]
      /\ ~ \E i \in DOMAIN h.results : h.results[i].passed # (h.results[i].exitCode = 0)
      /\ Failed(h) = {}
      /\ ~ \E e \in ToSet(h.evidence) : e.result # "PASS"
      /\ ~ \E c \in h.verified : {e \in ToSet(h.evidence) : e.requirement = c} = {}
  BY <1>1, <1>2, ZenonT(40) DEF checkEvidence
<1>6. /\ ~ (h.tests # absent /\ h.tests.discovered # h.tests.passed + h.tests.failed + h.tests.skipped)
      /\ ~ (h.tests # absent /\ h.tests.discovered < 1)
      /\ ~ (h.tests # absent /\ h.tests.failed > 0)
      /\ ~ (h.tests = absent /\ \E i \in DOMAIN h.commands : isTest(h.commands[i]))
      /\ ~ \E e \in ToSet(h.evidence) : e.source = "log" /\ e.result = "PASS"
      /\ ~ \E e \in ToSet(h.evidence) : e.events /\ ~e.artifact
  <2>1. /\ ~ (h.tests # absent /\ h.tests.discovered # h.tests.passed + h.tests.failed + h.tests.skipped)
        /\ ~ (h.tests # absent /\ h.tests.discovered < 1)
        /\ ~ (h.tests # absent /\ h.tests.failed > 0)
    BY <1>1, <1>2, ZenonT(40) DEF checkEvidence
  <2>2. /\ ~ (h.tests = absent /\ \E i \in DOMAIN h.commands : isTest(h.commands[i]))
        /\ ~ \E e \in ToSet(h.evidence) : e.source = "log" /\ e.result = "PASS"
        /\ ~ \E e \in ToSet(h.evidence) : e.events /\ ~e.artifact
    BY <1>1, <1>2, ZenonT(40) DEF checkEvidence
  <2> QED BY <2>1, <2>2
<1>7. ASSUME NEW c \in unit.criteria
      PROVE  \E e \in ToSet(h.evidence) :
               e.requirement = c /\ e.result = "PASS" /\ e.source # "log" /\ (e.events => e.artifact)
  <2>1. c \in h.verified
    BY <1>4, <1>5
  <2>2. PICK e \in ToSet(h.evidence) : e.requirement = c
    BY <1>5, <2>1
  <2> QED BY <1>5, <1>6, <2>2
<1>8. ASSUME NEW i \in DOMAIN h.commands
      PROVE  h.results[i].command = h.commands[i] /\ h.results[i].exitCode = 0
  <2>1. DOMAIN h.results = DOMAIN h.commands
    BY <1>5 DEF IsHandoff
  <2>2. h.results[i].passed
    BY <1>5, <2>1 DEF Failed
  <2>3. h.results[i].passed = (h.results[i].exitCode = 0)
    BY <1>5, <2>1
  <2>4. h.results[i].passed = TRUE
    BY <2>1, <2>2 DEF IsHandoff
  <2> QED BY <1>5, <2>1, <2>3, <2>4
<1>9. ASSUME NEW i \in DOMAIN h.commands, isTest(h.commands[i])
      PROVE  h.tests.passed + h.tests.skipped > 0
  <2>1. h.tests # absent
    BY <1>6, <1>9
  <2> QED BY <1>6, <2>1 DEF IsHandoff
<1>10. ASSUME NEW f \in commits[h.commit]
       PROVE  /\ anyMatch(f, unit.allowed \cup {Artifacts})
              /\ anyMatch(f, unit.forbidden) => matchPath(f, Artifacts)
  <2>1. ~violates(f, unit.allowed, unit.forbidden)
    BY <1>3 DEF checkOwnership
  <2> QED BY <2>1 DEF violates, anyMatch
<1> QED BY <1>7, <1>8, <1>9, <1>10

-----------------------------------------------------------------------------

\* A pattern: a path and one of the three rests.
IsPattern(p, Names) == /\ p.dir \in Seq(Names)
                       /\ p.rest \in {"literal", "*", "**"}

\* The slashed form of a path, name by name.
LEMMA Slashed ==
    ASSUME NEW N, NEW t \in Seq(N)
    PROVE  /\ Append(t, NoName) \in Seq(N \cup {NoName}) /\ Len(Append(t, NoName)) = Len(t) + 1
           /\ Append(t, NoName)[Len(t) + 1] = NoName /\ \A i \in 1..Len(t) : Append(t, NoName)[i] = t[i]
<1>1. t \in Seq(N \cup {NoName})
  OBVIOUS
<1>2. NoName \in N \cup {NoName}
  OBVIOUS
<1> DEFINE M == N \cup {NoName}
<1> HIDE DEF M
<1>3. t \in Seq(M) /\ NoName \in M
  BY <1>1, <1>2 DEF M
<1>4. /\ Append(t, NoName) \in Seq(M) /\ Len(Append(t, NoName)) = Len(t) + 1
      /\ Append(t, NoName)[Len(t) + 1] = NoName /\ \A i \in 1..Len(t) : Append(t, NoName)[i] = t[i]
  BY <1>3
<1> QED BY <1>4 DEF M

\* The trailing slash does not reach beyond the target: a directory that contains the
\* slashed form contains the target or is it.
LEMMA SlashedPrefix ==
    ASSUME NEW N, NoName \notin N, NEW t \in Seq(N), NEW d \in Seq(N), IsPrefix(d, Append(t, NoName))
    PROVE  IsPrefix(d, t)
<1> DEFINE u == Append(t, NoName)
           M == N \cup {NoName}
<1>1. /\ d \in Seq(M) /\ Len(d) \in Nat /\ Len(t) \in Nat
      /\ \A i \in 1..Len(d) : d[i] # NoName
  OBVIOUS
<1>2. u \in Seq(M) /\ Len(u) = Len(t) + 1 /\ u[Len(t) + 1] = NoName /\ \A i \in 1..Len(t) : u[i] = t[i]
  BY Slashed
<1> HIDE DEF u, M
<1>3. IsPrefix(d, u)
  BY DEF u
<1>4. Len(d) <= Len(u) /\ \A i \in 1..Len(d) : d[i] = u[i]
  BY <1>1, <1>2, <1>3, PrefixIs
<1>5. Len(d) # Len(t) + 1
  <2>1. SUFFICES ASSUME Len(d) = Len(t) + 1 PROVE FALSE
    OBVIOUS
  <2>2. Len(t) + 1 \in 1..Len(d)
    BY <1>1, <2>1
  <2> QED BY <1>1, <1>2, <1>4, <2>2
<1>6. Len(d) <= Len(t) /\ \A i \in 1..Len(d) : d[i] = t[i]
  BY <1>1, <1>2, <1>4, <1>5
<1> QED BY <1>6, PrefixIs

\* What is inside a pattern lies behind its directory.
LEMMA InsideIsBehind ==
    ASSUME NEW N, NoName \notin N, NEW t \in Seq(N), NEW p, IsPattern(p, N),
           matchPath(t, p) \/ matchPath(Append(t, NoName), p)
    PROVE  p.dir \in Seq(N) /\ IsPrefix(p.dir, t)
<1>1. p.dir \in Seq(N)
  BY DEF IsPattern
<1>2. CASE matchPath(t, p)
  BY <1>1, <1>2 DEF matchPath
<1>3. CASE matchPath(Append(t, NoName), p)
  <2>1. IsPrefix(p.dir, Append(t, NoName))
    BY <1>3 DEF matchPath
  <2> QED BY <1>1, <2>1, SlashedPrefix
<1> QED BY <1>2, <1>3

\* Below a target inside dir/** every file but dir is inside it.
LEMMA BelowTarget ==
    ASSUME NEW N, NoName \notin N, NEW t \in Seq(N), NEW f \in Seq(N), NEW p, IsPattern(p, N), p.rest = "**",
           matchPath(t, p) \/ matchPath(Append(t, NoName), p), IsPrefix(t, f), f # p.dir
    PROVE  matchPath(f, p)
<1>1. p.dir \in Seq(N) /\ IsPrefix(p.dir, t)
  BY InsideIsBehind
<1>2. IsPrefix(p.dir, f)
  BY <1>1, PrefixTrans
<1>3. Len(f) > Len(p.dir)
  <2>1. Len(f) \in Nat /\ Len(p.dir) \in Nat
    BY <1>1
  <2>2. ~ (Len(f) <= Len(p.dir))
    BY <1>1, <1>2, PrefixOfSameLength
  <2> QED BY <2>1, <2>2
<1> QED BY <1>2, <1>3 DEF matchPath

\* A file below a target that no forbidden pattern overlaps is not forbidden.
LEMMA ForbiddenReachesTarget ==
    ASSUME NEW N, NoName \notin N, NEW t \in Seq(N), NEW f \in Seq(N), NEW p, IsPattern(p, N),
           IsPrefix(t, f), matchPath(f, p)
    PROVE  insideSurface(t, {p}) \/ (p.dir # <<>> /\ IsPrefix(t, p.dir))
<1>1. p.dir \in Seq(N) /\ IsPrefix(p.dir, f) /\ p.rest \in {"literal", "*", "**"}
  BY DEF IsPattern, matchPath
<1>2. Len(t) \in Nat /\ Len(f) \in Nat /\ Len(p.dir) \in Nat
  BY <1>1
<1>3. SUFFICES ASSUME ~ (p.dir # <<>> /\ IsPrefix(t, p.dir)) PROVE matchPath(t, p) \/ matchPath(Append(t, NoName), p)
  BY DEF insideSurface, anyMatch
<1>4. Len(p.dir) <= Len(t) /\ IsPrefix(p.dir, t)
  <2>1. CASE Len(t) <= Len(p.dir)
    <3>1. IsPrefix(t, p.dir)
      BY <1>1, <2>1, PrefixesNest
    <3>2. p.dir = <<>>
      BY <1>3, <3>1
    <3>3. Len(p.dir) <= Len(t)
      BY <1>2, <3>2
    <3> QED BY <1>1, <3>3, PrefixesNest
  <2>2. CASE ~ (Len(t) <= Len(p.dir))
    <3>1. Len(p.dir) <= Len(t)
      BY <1>2, <2>2
    <3> QED BY <1>1, <3>1, PrefixesNest
  <2> QED BY <2>1, <2>2
<1> DEFINE u == Append(t, NoName)
           M == N \cup {NoName}
<1>5. /\ u \in Seq(M) /\ t \in Seq(M) /\ p.dir \in Seq(M)
      /\ Len(u) = Len(t) + 1 /\ \A i \in 1..Len(t) : t[i] = u[i]
  <2>1. t \in Seq(M) /\ p.dir \in Seq(M)
    BY <1>1
  <2>2. u \in Seq(M) /\ Len(u) = Len(t) + 1 /\ \A i \in 1..Len(t) : u[i] = t[i]
    BY Slashed
  <2> QED BY <2>1, <2>2
<1> HIDE DEF M
<1>6. IsPrefix(p.dir, u)
  <2> HIDE DEF u
  <2>1. Len(t) <= Len(u)
    BY <1>2, <1>5
  <2>2. IsPrefix(t, u)
    BY <1>5, <2>1, PrefixIs
  <2> QED BY <1>4, <1>5, <2>2, PrefixTrans
<1> HIDE DEF u
<1>7. Len(t) <= Len(f)
  BY PrefixIs
<1>8. CASE p.rest = "literal"
  <2>1. f = p.dir
    BY <1>8 DEF matchPath
  <2>2. Len(t) = Len(p.dir)
    BY <1>2, <1>4, <1>7, <2>1
  <2>3. p.dir = t
    BY <1>1, <1>2, <1>4, <2>2, PrefixOfSameLength
  <2> QED BY <1>4, <1>8, <2>3 DEF matchPath
<1>9. CASE p.rest = "*"
  <2>1. Len(f) = Len(p.dir) + 1
    BY <1>9 DEF matchPath
  <2>2. Len(t) = Len(p.dir) + 1 \/ Len(u) = Len(p.dir) + 1
    BY <1>2, <1>4, <1>5, <1>7, <2>1
  <2> QED BY <1>4, <1>6, <1>9, <2>2 DEF matchPath, u
<1>10. CASE p.rest = "**"
  <2>1. Len(u) > Len(p.dir)
    BY <1>2, <1>4, <1>5
  <2> QED BY <1>6, <1>10, <2>1 DEF matchPath, u
<1> QED BY <1>1, <1>8, <1>9, <1>10

(***************************************************************************)
(* Whatever surface and probes a node declares, the lint lets through only *)
(* probes that read files the node owns.  Surfaces are literals and dir/** *)
(* as in graph.json: a probe of dir itself passes under dir/* as well,     *)
(* although no file called dir is inside it.                               *)
(***************************************************************************)
THEOREM EveryProbeReadsItsOwn ==
    ASSUME NEW Names, NoName \notin Names, ".artifacts" \in Names, NEW n, NEW files \in SUBSET Seq(Names),
           \A p \in n.allowed : IsPattern(p, Names) /\ p.rest # "*",
           \A p \in n.forbidden : IsPattern(p, Names),
           \A p \in n.probes : probeTargets(p) \subseteq Seq(Names)
    PROVE  ProbesReadTheirOwn(n, files)
<1>1. SUFFICES ASSUME n.allowed # {}, NEW p \in n.probes \ lintProbes(n), NEW t \in probeTargets(p),
                      NEW f \in files, IsPrefix(t, f),
                      \A q \in n.allowed \cup {Artifacts} :
                        IF q.rest = "**" THEN f # q.dir ELSE ~IsStrictPrefix(q.dir, f)
               PROVE  ~violates(f, n.allowed, n.forbidden)
  BY DEF ProbesReadTheirOwn, checkOwnership
<1>2. t \in Seq(Names) /\ f \in Seq(Names)
  OBVIOUS
<1>3. ~ (IF p.kind = "manual" THEN ~insideSurface(t, {Artifacts})
         ELSE n.allowed # {} /\ ~lintTarget(t, n.allowed, n.forbidden))
  BY <1>1 DEF lintProbes
<1>4. IsPattern(Artifacts, Names) /\ Artifacts.rest = "**"
  <2>1. <<".artifacts">> \in Seq(Names)
    OBVIOUS
  <2> QED BY <2>1 DEF IsPattern, Artifacts
<1>5. CASE p.kind = "manual"
  <2>1. matchPath(t, Artifacts) \/ matchPath(Append(t, NoName), Artifacts)
    BY <1>3, <1>5 DEF insideSurface, anyMatch
  <2>2. f # Artifacts.dir
    BY <1>1, <1>4
  <2>3. matchPath(f, Artifacts)
    BY <1>1, <1>2, <1>4, <2>1, <2>2, BelowTarget
  <2> QED BY <2>3 DEF violates
<1>6. CASE p.kind # "manual"
  <2>1. insideSurface(t, n.allowed) /\ ~forbiddenOverlap(t, n.forbidden)
    BY <1>1, <1>3, <1>6 DEF lintTarget
  <2>2. ~anyMatch(f, n.forbidden)
    <3>1. SUFFICES ASSUME NEW q \in n.forbidden, matchPath(f, q) PROVE FALSE
      BY DEF anyMatch
    <3>2. insideSurface(t, {q}) \/ (q.dir # <<>> /\ IsPrefix(t, q.dir))
      BY <1>1, <1>2, <3>1, ForbiddenReachesTarget
    <3> QED BY <2>1, <3>2 DEF forbiddenOverlap
  <2>3. PICK q \in n.allowed : matchPath(t, q) \/ matchPath(Append(t, NoName), q)
    BY <2>1 DEF insideSurface, anyMatch
  <2>4. IsPattern(q, Names) /\ q.rest \in {"literal", "**"}
    BY DEF IsPattern
  <2>5. q.dir \in Seq(Names) /\ IsPrefix(q.dir, t)
    BY <1>2, <2>3, <2>4, InsideIsBehind
  <2>6. CASE q.rest = "**"
    <3>1. f # q.dir
      BY <1>1, <2>6
    <3>2. matchPath(f, q)
      BY <1>1, <1>2, <2>3, <2>4, <2>6, <3>1, BelowTarget
    <3> QED BY <2>2, <3>2 DEF violates, anyMatch
  <2>7. CASE q.rest = "literal"
    <3>1. ~IsStrictPrefix(q.dir, f)
      BY <1>1, <2>7
    <3>2. IsPrefix(q.dir, f)
      BY <1>1, <1>2, <2>5, PrefixTrans
    <3>3. q.dir = f
      BY <3>1, <3>2 DEF IsStrictPrefix
    <3>4. matchPath(f, q)
      BY <2>7, <3>2, <3>3 DEF matchPath
    <3> QED BY <2>2, <3>4 DEF violates, anyMatch
  <2> QED BY <2>4, <2>6, <2>7
<1> QED BY <1>5, <1>6

-----------------------------------------------------------------------------
(* The batch from decide to the merge. *)

\* The types, of what TypeOK leaves out as well.
LaneTypes ==
    /\ units \in Batches
    /\ started \subseteq IdsOf(units)
    /\ dirty \in [IdsOf(units) -> SUBSET Files]
    /\ branch \in [IdsOf(units) -> Seq(SUBSET Files)]
    /\ \A id \in IdsOf(units) : Len(branch[id]) <= MaxCommits
    /\ handoff \in [IdsOf(units) -> Reports(units) \cup {absent}]
    /\ gate \in [at : 0..Len(Order), integrated : Seq(IdsOf(units)), exit : {"none", "ok", "blocked"}]
    /\ main \in Seq([id : IdsOf(units), files : SUBSET Files, status : STRING])

\* Only a lane that was dispatched hands off.
HandedOff == \A id \in IdsOf(units) : handoff[id] # absent => id \in started

\* The decision is evaluate's answer, and the lanes at work are within it.
DecisionInv ==
    /\ decision \in {absent, evaluate(units, policy, repo)}
    /\ decision = absent => started = {}
    /\ decision # absent => Cardinality(Working) <= decision.max_concurrency

\* The gate has passed a prefix of the order, all of it when it exits 0, and behind each
\* lane it passed there is a commit.
GateInv ==
    /\ Len(gate.integrated) <= Len(Order)
    /\ \A i \in 1..Len(gate.integrated) : gate.integrated[i] = Order[i]
    /\ gate.at # 0 => gate.exit = "none" /\ Len(gate.integrated) = gate.at - 1
    /\ gate.exit = "ok" => Len(gate.integrated) = Len(Order)
    /\ \A i \in 1..Len(gate.integrated) : handoff[Order[i]] # absent /\ branch[Order[i]] # <<>>

\* No two lanes that the gate passed have surfaces that overlap.
SurfacesApart ==
    \A i, j \in 1..Len(gate.integrated) : i < j =>
      \A a \in UnitOf(units, Order[i]).allowed, b \in UnitOf(units, Order[j]).allowed :
        ~patternsOverlap(a, b)

\* The files of a commit that a lane owns all of.
OwnsCommit(id, files) ==
    checkOwnership(files, UnitOf(units, id).allowed, UnitOf(units, id).forbidden) = {}

\* The commit behind a lane that the gate passed is the lane's own, as long as it is the
\* only one.
GatedAreOwned ==
    MaxCommits <= 1 => \A i \in 1..Len(gate.integrated) : OwnsCommit(Order[i], branch[Order[i]][1])

\* What is merged is the order as far as the integrator came, each lane with its commit.
MainInv ==
    /\ gate.exit # "ok" => main = <<>>
    /\ Len(main) <= Len(Order)
    /\ \A i \in 1..Len(main) : main[i].id = Order[i]
    /\ MaxCommits <= 1 => \A i \in 1..Len(main) : main[i].files = branch[Order[i]][1]

LaneInv == /\ LaneTypes /\ HandedOff /\ DecisionInv /\ GateInv
           /\ SurfacesApart /\ GatedAreOwned /\ MainInv /\ LedgerKeepsFirst

\* The order of a batch that may be asked for.
LEMMA BatchOrder ==
    ASSUME NEW b \in Batches
    PROVE  /\ IsBatch(b) /\ IsFiniteSet(UnitIds(b)) /\ Len(b) \in Nat
           /\ dependencyOrder(b) \in Seq(UnitIds(b)) /\ ToSet(dependencyOrder(b)) = UnitIds(b)
           /\ Len(dependencyOrder(b)) \in Nat /\ Len(dependencyOrder(b)) >= 1
           /\ Len(dependencyOrder(b)) <= Len(b)
           /\ DOMAIN dependencyOrder(b) = 1..Len(dependencyOrder(b))
           /\ \A i \in 1..Len(dependencyOrder(b)) : dependencyOrder(b)[i] \in UnitIds(b)
<1> DEFINE out == dependencyOrder(b)
<1>1. IsBatch(b) /\ b # <<>>
  BY BatchAssumption DEF IsBatch
<1>2. /\ Len(b) \in Nat /\ DOMAIN b = 1..Len(b) /\ IsFiniteSet(UnitIds(b))
      /\ Cardinality(UnitIds(b)) \in Nat /\ Cardinality(UnitIds(b)) <= Len(b)
  BY <1>1, BatchIds
<1>3. Ordered(b, out) /\ ToSet(out) = UnitIds(b) /\ Len(out) = Cardinality(UnitIds(b))
  BY <1>1, OrderIsTopological
<1>4. UnitIds(b) # {}
  <2>1. Len(b) # 0
    BY <1>1 DEF IsBatch
  <2>2. 1 \in DOMAIN b
    BY <1>2, <2>1
  <2> QED BY <2>2 DEF UnitIds
<1>5. Cardinality(UnitIds(b)) # 0
  BY <1>2, <1>4, FS_EmptySet
<1> HIDE DEF out
<1>6. out \in Seq(UnitIds(b)) /\ DOMAIN out = 1..Len(out) /\ \A i \in 1..Len(out) : out[i] \in UnitIds(b)
  BY <1>3 DEF Ordered
<1>7. Len(out) \in Nat /\ Len(out) >= 1 /\ Len(out) <= Len(b)
  BY <1>2, <1>3, <1>5
<1> QED BY <1>1, <1>2, <1>3, <1>6, <1>7 DEF out

LEMMA OrderFacts ==
    ASSUME units \in Batches
    PROVE  /\ IsFiniteSet(IdsOf(units)) /\ Len(units) \in Nat
           /\ Order \in Seq(IdsOf(units)) /\ ToSet(Order) = IdsOf(units)
           /\ Len(Order) \in Nat /\ Len(Order) >= 1 /\ Len(Order) <= Len(units)
           /\ DOMAIN Order = 1..Len(Order)
           /\ \A i \in 1..Len(Order) : Order[i] \in IdsOf(units)
BY BatchOrder DEF Order, IdsOf

\* A lane that passes the gate has a handoff and a commit; the only commit of a lane is its
\* own, and its surface is clear of those before it.
LEMMA PassedLane ==
    ASSUME LaneTypes, NEW id \in IdsOf(units), NEW integrated, Passes(id, integrated)
    PROVE  /\ handoff[id] # absent /\ branch[id] # <<>>
           /\ MaxCommits <= 1 => OwnsCommit(id, branch[id][1])
           /\ ~Clashes(UnitOf(units, id), integrated)
<1> DEFINE h == handoff[id]
           u == UnitOf(units, id)
           commits == CommitsOf(id)
<1>1. /\ h # absent /\ ~Clashes(u, integrated)
      /\ validateHandoff(h, u, commits) = {} /\ h.status = "DONE"
  BY DEF Passes
<1>2. h.commit \in DOMAIN commits /\ checkOwnership(commits[h.commit], u.allowed, u.forbidden) = {}
  <2> HIDE DEF h, u, commits
  <2> QED BY <1>1 DEF validateHandoff
<1>3. DOMAIN commits = DOMAIN branch[id] /\ \A i \in DOMAIN branch[id] : commits[i] = branch[id][i]
  BY DEF CommitsOf
<1>4. /\ branch[id] \in Seq(SUBSET Files) /\ Len(branch[id]) <= MaxCommits /\ Len(branch[id]) \in Nat
      /\ DOMAIN branch[id] = 1..Len(branch[id])
  BY DEF LaneTypes
<1> HIDE DEF h, u, commits
<1>5. h.commit \in 1..Len(branch[id]) /\ checkOwnership(branch[id][h.commit], u.allowed, u.forbidden) = {}
  BY <1>2, <1>3, <1>4
<1>6. branch[id] # <<>>
  BY <1>4, <1>5
<1>7. MaxCommits <= 1 => h.commit = 1
  BY <1>4, <1>5, BoundsAssumption
<1> QED BY <1>1, <1>5, <1>6, <1>7 DEF OwnsCommit, h, u

\* What an agent does to its worktree, branch and handoff changes nothing the gate has
\* read: a handoff is not taken back, a branch only grows, and one commit is all there is
\* where there is room for one.
Grows(id) == /\ handoff[id] # absent => handoff'[id] # absent
             /\ branch[id] # <<>> => branch'[id] # <<>>
             /\ MaxCommits <= 1 /\ branch[id] # <<>> => branch'[id] = branch[id]

LEMMA GateUnmoved ==
    ASSUME LaneInv, units' = units, gate' = gate, main' = main,
           \A id \in IdsOf(units) : Grows(id)
    PROVE  GateInv' /\ SurfacesApart' /\ GatedAreOwned' /\ MainInv'
<1>1. Order' = Order
  BY DEF Order
<1>2. units \in Batches /\ gate \in [at : 0..Len(Order), integrated : Seq(IdsOf(units)), exit : {"none", "ok", "blocked"}]
  BY DEF LaneInv, LaneTypes
<1>3. \A i \in 1..Len(Order) : Order[i] \in IdsOf(units)
  BY <1>2, OrderFacts
<1>4. Len(gate.integrated) \in Nat /\ Len(Order) \in Nat /\ Len(gate.integrated) <= Len(Order)
  BY <1>2, OrderFacts DEF LaneInv, GateInv
<1>5. \A i \in 1..Len(gate.integrated) : i \in 1..Len(Order) /\ Order[i] \in IdsOf(units)
  BY <1>3, <1>4
<1>6. GateInv'
  BY <1>1, <1>5 DEF LaneInv, GateInv, Grows
<1>7. SurfacesApart'
  BY <1>1 DEF LaneInv, SurfacesApart
<1>8. GatedAreOwned'
  <2>1. SUFFICES ASSUME MaxCommits <= 1, NEW i \in 1..Len(gate.integrated)
                 PROVE  OwnsCommit(Order[i], branch[Order[i]][1])'
    BY <1>1 DEF GatedAreOwned
  <2>2. branch'[Order[i]] = branch[Order[i]]
    BY <1>5, <2>1 DEF LaneInv, GateInv, Grows
  <2>3. OwnsCommit(Order[i], branch[Order[i]][1])
    BY <2>1 DEF LaneInv, GatedAreOwned
  <2> QED BY <1>1, <2>2, <2>3 DEF OwnsCommit
<1>9. MainInv'
  <2>1. ASSUME MaxCommits <= 1, NEW i \in 1..Len(main) PROVE main'[i].files = branch'[Order[i]][1]
    <3>1. gate.exit = "ok"
      <4>1. main # <<>>
        BY <2>1
      <4> QED BY <4>1 DEF LaneInv, MainInv
    <3>2. i \in 1..Len(gate.integrated)
      <4>1. Len(gate.integrated) = Len(Order) /\ Len(main) <= Len(Order)
        BY <3>1 DEF LaneInv, GateInv, MainInv
      <4>2. Len(main) \in Nat
        BY DEF LaneInv, LaneTypes
      <4> QED BY <1>4, <4>1, <4>2
    <3>3. branch'[Order[i]] = branch[Order[i]]
      BY <1>5, <2>1, <3>2 DEF LaneInv, GateInv, Grows
    <3> QED BY <2>1, <3>3 DEF LaneInv, MainInv
  <2> QED BY <1>1, <2>1 DEF LaneInv, MainInv
<1> QED BY <1>6, <1>7, <1>8, <1>9

\* A second line for a task and event is dropped, so the first verdict stands.
LEMMA LedgerStep ==
    ASSUME LedgerKeepsFirst, NEW task, NEW event, NEW verdict, recordTelemetry(task, event, verdict)
    PROVE  LedgerKeepsFirst'
<1>1. CASE \E line \in ledger : line[1] = task /\ line[2] = event
  BY <1>1 DEF LedgerKeepsFirst, recordTelemetry
<1>2. CASE ~ \E line \in ledger : line[1] = task /\ line[2] = event
  <2>1. ledger' = ledger \cup {<<task, event, verdict>>}
    BY <1>2 DEF recordTelemetry
  <2> QED BY <1>2, <2>1 DEF LedgerKeepsFirst
<1> QED BY <1>1, <1>2

\* The lanes at work are finitely many.
LEMMA WorkingFinite ==
    ASSUME LaneTypes
    PROVE  IsFiniteSet(Working) /\ Cardinality(Working) \in Nat
<1>1. IsFiniteSet(IdsOf(units)) /\ Working \in SUBSET IdsOf(units)
  BY OrderFacts DEF LaneTypes, Working
<1>2. IsFiniteSet(Working)
  BY <1>1, FS_Subset, Zenon
<1> QED BY <1>2, FS_CardinalityType

\* evaluate allows at most as many lanes as the policy, and more than one only where no
\* unit needs another and no two surfaces overlap.
LEMMA GrantedConcurrency ==
    ASSUME NEW b \in Batches
    PROVE  LET d == evaluate(b, policy, repo)
           IN /\ d.max_concurrency \in Nat
              /\ d.max_concurrency > 1 =>
                   /\ requirements(b, policy, repo).R5 /\ requirements(b, policy, repo).R7
                   /\ d.max_concurrency <= policy.maxConcurrency
<1> DEFINE d == evaluate(b, policy, repo)
<1>1. policy.maxConcurrency \in Nat /\ Len(b) \in Nat
  BY BoundsAssumption, BatchOrder
<1>2. CASE d.eligible
  <2> DEFINE S == {policy.maxConcurrency, Len(b)}
  <2>1. \E x \in S : \A y \in S : x =< y
    BY <1>1
  <2>2. Min(S) \in S /\ \A y \in S : Min(S) =< y
    BY <2>1 DEF Min
  <2>3. d.max_concurrency = Min(S)
    BY <1>2 DEF evaluate
  <2>4. requirements(b, policy, repo).R5 /\ requirements(b, policy, repo).R7
    BY <1>2, EligibleMeets
  <2> QED BY <1>1, <2>2, <2>3, <2>4
<1>3. CASE ~d.eligible
  <2>1. d.max_concurrency = 1
    BY <1>3 DEF evaluate
  <2> QED BY <2>1
<1> QED BY <1>2, <1>3

LEMMA InitHolds == Init => LaneInv
<1> SUFFICES ASSUME Init PROVE LaneInv
  OBVIOUS
<1>1. units \in Batches
  BY DEF Init
<1>2. /\ Order \in Seq(IdsOf(units)) /\ Len(Order) \in Nat
  BY <1>1, OrderFacts
<1>3. gate.at = 0 /\ gate.integrated = <<>> /\ gate.exit = "none" /\ gate = Idle /\ main = <<>>
  BY DEF Init, Idle
<1>4. LaneTypes
  <2>1. branch \in [IdsOf(units) -> Seq(SUBSET Files)] /\ \A id \in IdsOf(units) : Len(branch[id]) <= MaxCommits
    BY BoundsAssumption DEF Init
  <2>2. gate \in [at : 0..Len(Order), integrated : Seq(IdsOf(units)), exit : {"none", "ok", "blocked"}]
    BY <1>2, <1>3 DEF Idle
  <2>3. main \in Seq([id : IdsOf(units), files : SUBSET Files, status : STRING])
    BY <1>3
  <2> QED BY <1>1, <2>1, <2>2, <2>3 DEF LaneTypes, Init
<1>5. HandedOff
  BY DEF HandedOff, Init
<1>6. DecisionInv
  BY DEF DecisionInv, Init
<1>7. GateInv /\ SurfacesApart /\ GatedAreOwned /\ MainInv
  BY <1>2, <1>3 DEF GateInv, SurfacesApart, GatedAreOwned, MainInv
<1>8. LedgerKeepsFirst
  BY DEF LedgerKeepsFirst, Init
<1> QED BY <1>4, <1>5, <1>6, <1>7, <1>8 DEF LaneInv

\* lanes decide, lanes check, and an agent's dispatch, edits, commits and handoffs.
LEMMA DecideStep ==
    ASSUME LaneInv, Decide
    PROVE  LaneInv'
<1>1. /\ decision = absent /\ decision' = evaluate(units, policy, repo)
      /\ UNCHANGED <<units, started, dirty, branch, handoff, gate, main>>
      /\ recordTelemetry(absent, "decide", decision'.eligible)
  BY DEF Decide
<1>2. Order' = Order
  BY <1>1 DEF Order
<1>3. LaneTypes' /\ HandedOff'
  BY <1>1, <1>2 DEF LaneInv, LaneTypes, HandedOff
<1>4. DecisionInv'
  <2>1. units \in Batches /\ evaluate(units, policy, repo) # absent
    BY AbsentAssumption DEF LaneInv, LaneTypes
  <2>2. Working' = {}
    BY <1>1 DEF LaneInv, DecisionInv, Working
  <2>3. evaluate(units, policy, repo).max_concurrency \in Nat
    BY <2>1, GrantedConcurrency
  <2>4. Cardinality(Working') <= decision'.max_concurrency
    BY <1>1, <2>2, <2>3, FS_EmptySet
  <2> QED BY <1>1, <2>1, <2>4 DEF DecisionInv
<1>5. GateInv' /\ SurfacesApart' /\ GatedAreOwned' /\ MainInv'
  BY <1>1, GateUnmoved DEF Grows
<1>6. LedgerKeepsFirst'
  BY <1>1, LedgerStep DEF LaneInv
<1> QED BY <1>3, <1>4, <1>5, <1>6 DEF LaneInv

LEMMA DispatchStep ==
    ASSUME LaneInv, NEW id \in IdsOf(units), Dispatch(id)
    PROVE  LaneInv'
<1>1. /\ decision # absent /\ id \notin started /\ started' = started \cup {id}
      /\ Cardinality(Working) < decision.max_concurrency
      /\ UNCHANGED <<units, decision, dirty, branch, handoff, gate, main, ledger>>
  BY DEF Dispatch
<1>2. Order' = Order
  BY <1>1 DEF Order
<1>3. LaneTypes' /\ HandedOff'
  BY <1>1, <1>2 DEF LaneInv, LaneTypes, HandedOff
<1>4. DecisionInv'
  <2>1. Working' \in SUBSET (Working \cup {id})
    BY <1>1 DEF Working
  <2>2. IsFiniteSet(Working) /\ Cardinality(Working) \in Nat
    BY WorkingFinite DEF LaneInv
  <2>3. IsFiniteSet(Working \cup {id}) /\ Cardinality(Working \cup {id}) <= Cardinality(Working) + 1
    <3>1. /\ IsFiniteSet(Working \cup {id})
          /\ Cardinality(Working \cup {id}) =
               IF id \in Working THEN Cardinality(Working) ELSE Cardinality(Working) + 1
      BY <2>2, FS_AddElement, Zenon
    <3> QED BY <2>2, <3>1
  <2>4. IsFiniteSet(Working') /\ Cardinality(Working') <= Cardinality(Working \cup {id})
    BY <2>1, <2>3, FS_Subset, Zenon
  <2>5. Cardinality(Working') \in Nat /\ Cardinality(Working \cup {id}) \in Nat
    BY <2>3, <2>4, FS_CardinalityType
  <2>6. decision.max_concurrency \in Nat
    <3>1. decision = evaluate(units, policy, repo) /\ units \in Batches
      BY <1>1 DEF LaneInv, DecisionInv, LaneTypes
    <3> QED BY <3>1, GrantedConcurrency
  <2>7. Cardinality(Working') <= decision.max_concurrency
    BY <1>1, <2>2, <2>3, <2>4, <2>5, <2>6
  <2> QED BY <1>1, <2>7 DEF LaneInv, DecisionInv
<1>5. GateInv' /\ SurfacesApart' /\ GatedAreOwned' /\ MainInv'
  BY <1>1, GateUnmoved DEF Grows
<1>6. LedgerKeepsFirst'
  BY <1>1 DEF LaneInv, LedgerKeepsFirst
<1> QED BY <1>3, <1>4, <1>5, <1>6 DEF LaneInv

\* Steps that leave decision, started and handoff alone keep what is known of them.
LEMMA DecisionUnmoved ==
    ASSUME LaneInv, UNCHANGED <<units, decision, started, handoff>>
    PROVE  HandedOff' /\ DecisionInv'
<1>1. Working' = Working
  BY DEF Working
<1> QED BY <1>1 DEF LaneInv, HandedOff, DecisionInv

LEMMA EditStep ==
    ASSUME LaneInv, NEW id \in IdsOf(units), NEW f \in Files, Edit(id, f)
    PROVE  LaneInv'
<1>1. /\ dirty' = [dirty EXCEPT ![id] = @ \cup {f}]
      /\ UNCHANGED <<units, decision, started, branch, handoff, gate, main, ledger>>
  BY DEF Edit
<1>2. Order' = Order
  BY <1>1 DEF Order
<1>3. LaneTypes'
  <2>1. dirty' \in [IdsOf(units) -> SUBSET Files]
    BY <1>1 DEF LaneInv, LaneTypes
  <2> QED BY <1>1, <1>2, <2>1 DEF LaneInv, LaneTypes
<1>4. HandedOff' /\ DecisionInv'
  BY <1>1, DecisionUnmoved
<1>5. GateInv' /\ SurfacesApart' /\ GatedAreOwned' /\ MainInv'
  BY <1>1, GateUnmoved DEF Grows
<1>6. LedgerKeepsFirst'
  BY <1>1 DEF LaneInv, LedgerKeepsFirst
<1> QED BY <1>3, <1>4, <1>5, <1>6 DEF LaneInv

LEMMA CheckStep ==
    ASSUME LaneInv, NEW id \in IdsOf(units), Check(id)
    PROVE  LaneInv'
<1>1. /\ UNCHANGED <<units, decision, started, dirty, branch, handoff, gate, main>>
      /\ \E v : recordTelemetry(id, "lane-gate", v)
  BY DEF Check
<1>2. Order' = Order
  BY <1>1 DEF Order
<1>3. LaneTypes'
  BY <1>1, <1>2 DEF LaneInv, LaneTypes
<1>4. HandedOff' /\ DecisionInv'
  BY <1>1, DecisionUnmoved
<1>5. GateInv' /\ SurfacesApart' /\ GatedAreOwned' /\ MainInv'
  BY <1>1, GateUnmoved DEF Grows
<1>6. LedgerKeepsFirst'
  BY <1>1, LedgerStep DEF LaneInv
<1> QED BY <1>3, <1>4, <1>5, <1>6 DEF LaneInv

LEMMA CommitStep ==
    ASSUME LaneInv, NEW id \in IdsOf(units), Commit(id)
    PROVE  LaneInv'
<1>1. /\ Len(branch[id]) < MaxCommits
      /\ branch' = [branch EXCEPT ![id] = Append(@, dirty[id])]
      /\ dirty' = [dirty EXCEPT ![id] = {}]
      /\ UNCHANGED <<units, decision, started, handoff, gate, main, ledger>>
  BY DEF Commit
<1>2. Order' = Order
  BY <1>1 DEF Order
<1>3. /\ branch \in [IdsOf(units) -> Seq(SUBSET Files)] /\ dirty[id] \in SUBSET Files
      /\ branch[id] \in Seq(SUBSET Files) /\ Len(branch[id]) \in Nat
  BY DEF LaneInv, LaneTypes
<1>4. /\ branch' \in [IdsOf(units) -> Seq(SUBSET Files)]
      /\ \A j \in IdsOf(units) : j # id => branch'[j] = branch[j]
      /\ branch'[id] # <<>> /\ Len(branch'[id]) = Len(branch[id]) + 1
  BY <1>1, <1>3
<1>5. LaneTypes'
  <2>1. dirty' \in [IdsOf(units) -> SUBSET Files]
    BY <1>1 DEF LaneInv, LaneTypes
  <2>2. \A j \in IdsOf(units) : Len(branch'[j]) <= MaxCommits
    BY <1>1, <1>3, <1>4, BoundsAssumption DEF LaneInv, LaneTypes
  <2> QED BY <1>1, <1>2, <1>4, <2>1, <2>2 DEF LaneInv, LaneTypes
<1>6. HandedOff' /\ DecisionInv'
  BY <1>1, DecisionUnmoved
<1>7. ASSUME NEW j \in IdsOf(units) PROVE Grows(j)
  <2>1. MaxCommits <= 1 => branch[id] = <<>>
    BY <1>1, <1>3, BoundsAssumption
  <2> QED BY <1>1, <1>4, <2>1 DEF Grows
<1>8. GateInv' /\ SurfacesApart' /\ GatedAreOwned' /\ MainInv'
  BY <1>1, <1>7, GateUnmoved
<1>9. LedgerKeepsFirst'
  BY <1>1 DEF LaneInv, LedgerKeepsFirst
<1> QED BY <1>5, <1>6, <1>8, <1>9 DEF LaneInv

LEMMA HandOffStep ==
    ASSUME LaneInv, NEW id \in IdsOf(units), HandOff(id)
    PROVE  LaneInv'
<1>1. /\ id \in started
      /\ UNCHANGED <<units, decision, started, dirty, branch, gate, main, ledger>>
  BY DEF HandOff
<1>2. PICK h \in Handoffs, changed \in {absent, {}} :
        handoff' = [handoff EXCEPT ![id] = Report(h, id, Len(branch[id]), changed)]
  BY DEF HandOff
<1> DEFINE r == Report(h, id, Len(branch[id]), changed)
<1>3. r \in Reports(units) /\ r # absent
  <2>1. Len(branch[id]) \in 0..MaxCommits
    <3>1. Len(branch[id]) \in Nat /\ Len(branch[id]) <= MaxCommits
      BY DEF LaneInv, LaneTypes
    <3> QED BY <3>1, BoundsAssumption
  <2>2. r \in Reports(units)
    <3>1. id \in UnitIds(units)
      BY DEF IdsOf
    <3>2. \E g \in Handoffs, j \in UnitIds(units), n \in 0..MaxCommits, c \in {absent, {}} :
            r = Report(g, j, n, c)
      BY <2>1, <3>1
    <3> HIDE DEF r
    <3> QED BY <3>2 DEF Reports
  <2>3. absent \notin Reports(units)
    BY AbsentAssumption DEF LaneInv, LaneTypes
  <2> QED BY <2>2, <2>3
<1> HIDE DEF r
<1>4. /\ handoff' \in [IdsOf(units) -> Reports(units) \cup {absent}]
      /\ handoff'[id] = r /\ \A j \in IdsOf(units) : j # id => handoff'[j] = handoff[j]
  BY <1>2, <1>3 DEF LaneInv, LaneTypes, r
<1>5. Order' = Order
  BY <1>1 DEF Order
<1>6. LaneTypes'
  BY <1>1, <1>4, <1>5 DEF LaneInv, LaneTypes
<1>7. HandedOff'
  BY <1>1, <1>4 DEF LaneInv, HandedOff
<1>8. DecisionInv'
  <2>1. Working' \in SUBSET Working
    BY <1>1, <1>3, <1>4 DEF Working, LaneInv, LaneTypes
  <2>2. IsFiniteSet(Working) /\ Cardinality(Working) \in Nat
    BY WorkingFinite DEF LaneInv
  <2>3. IsFiniteSet(Working') /\ Cardinality(Working') <= Cardinality(Working)
    BY <2>1, <2>2, FS_Subset, Zenon
  <2>4. Cardinality(Working') \in Nat
    BY <2>3, FS_CardinalityType
  <2>5. decision # absent => decision.max_concurrency \in Nat
    <3>1. SUFFICES ASSUME decision # absent PROVE decision.max_concurrency \in Nat
      OBVIOUS
    <3>2. decision = evaluate(units, policy, repo) /\ units \in Batches
      BY <3>1 DEF LaneInv, DecisionInv, LaneTypes
    <3> QED BY <3>2, GrantedConcurrency
  <2>6. decision # absent => Cardinality(Working') <= decision.max_concurrency
    BY <2>2, <2>3, <2>4, <2>5 DEF LaneInv, DecisionInv
  <2> QED BY <1>1, <2>6 DEF LaneInv, DecisionInv
<1>9. ASSUME NEW j \in IdsOf(units) PROVE Grows(j)
  BY <1>1, <1>3, <1>4 DEF Grows
<1>10. GateInv' /\ SurfacesApart' /\ GatedAreOwned' /\ MainInv'
  BY <1>1, <1>9, GateUnmoved
<1>11. LedgerKeepsFirst'
  BY <1>1 DEF LaneInv, LedgerKeepsFirst
<1> QED BY <1>6, <1>7, <1>8, <1>10, <1>11 DEF LaneInv

\* lanes integrate: a run of the gate begins.
LEMMA IntegrateStartStep ==
    ASSUME LaneInv, IntegrateStart
    PROVE  LaneInv'
<1>1. /\ gate.exit # "ok"
      /\ gate' = [at |-> 1, integrated |-> <<>>, exit |-> "none"]
      /\ UNCHANGED <<units, decision, started, dirty, branch, handoff, main, ledger>>
  BY DEF IntegrateStart
<1>2. Order' = Order /\ main = <<>>
  BY <1>1 DEF Order, LaneInv, MainInv
<1>3. Len(Order) \in Nat /\ Len(Order) >= 1
  BY OrderFacts DEF LaneInv, LaneTypes
<1>4. gate'.at = 1 /\ gate'.integrated = <<>> /\ gate'.exit = "none"
  BY <1>1
<1>5. LaneTypes'
  <2>1. gate' \in [at : 0..Len(Order), integrated : Seq(IdsOf(units)), exit : {"none", "ok", "blocked"}]
    BY <1>1, <1>3
  <2> QED BY <1>1, <1>2, <2>1 DEF LaneInv, LaneTypes
<1>6. HandedOff' /\ DecisionInv'
  BY <1>1, DecisionUnmoved
<1>7. GateInv' /\ SurfacesApart' /\ GatedAreOwned'
  BY <1>2, <1>3, <1>4 DEF GateInv, SurfacesApart, GatedAreOwned
<1>8. MainInv'
  BY <1>1, <1>2, <1>3, <1>4 DEF MainInv
<1>9. LedgerKeepsFirst'
  BY <1>1 DEF LaneInv, LedgerKeepsFirst
<1> QED BY <1>5, <1>6, <1>7, <1>8, <1>9 DEF LaneInv

\* A lane that passes is appended to those that passed: it is the next of the order, has
\* its commit and clashes with none of them.
LEMMA PassExtends ==
    ASSUME LaneInv, gate.at \in DOMAIN Order, Passes(Order[gate.at], gate.integrated),
           UNCHANGED <<units, branch, handoff>>,
           gate'.integrated = Append(gate.integrated, Order[gate.at])
    PROVE  /\ gate'.integrated \in Seq(IdsOf(units)) /\ Len(gate'.integrated) = gate.at
           /\ \A i \in 1..Len(gate'.integrated) :
                /\ gate'.integrated[i] = Order[i]
                /\ handoff'[Order[i]] # absent /\ branch'[Order[i]] # <<>>
           /\ SurfacesApart' /\ GatedAreOwned'
<1> DEFINE k == gate.at
           id == Order[k]
           old == gate.integrated
           new == gate'.integrated
<1>1. /\ units \in Batches /\ old \in Seq(IdsOf(units)) /\ LaneTypes
      /\ k \in 0..Len(Order)
  BY DEF LaneInv, LaneTypes
<1>2. /\ Order \in Seq(IdsOf(units)) /\ Len(Order) \in Nat /\ DOMAIN Order = 1..Len(Order)
      /\ \A i \in 1..Len(Order) : Order[i] \in IdsOf(units)
  BY <1>1, OrderFacts
<1>3. k \in 1..Len(Order) /\ id \in IdsOf(units)
  BY <1>2
<1>4. Len(old) = k - 1 /\ \A i \in 1..Len(old) : old[i] = Order[i]
  BY <1>3 DEF LaneInv, GateInv
<1>5. /\ handoff[id] # absent /\ branch[id] # <<>>
      /\ MaxCommits <= 1 => OwnsCommit(id, branch[id][1])
      /\ ~Clashes(UnitOf(units, id), old)
  BY <1>1, <1>3, PassedLane
<1>6. Order' = Order
  BY DEF Order
<1> HIDE DEF k, id, old
<1>7. /\ new \in Seq(IdsOf(units)) /\ Len(new) = k
      /\ \A i \in 1..(k - 1) : new[i] = old[i]
      /\ new[k] = id
  <2>1. new = Append(old, id)
    BY DEF old, id, k
  <2> HIDE DEF new
  <2> QED BY <1>1, <1>3, <1>4, <2>1
<1> HIDE DEF new
<1>8. \A i \in 1..k : new[i] = Order[i]
  BY <1>3, <1>4, <1>7 DEF id
<1>9. \A i \in 1..k : i = k \/ i \in 1..(k - 1)
  BY <1>3
<1>10. \A i \in 1..k : handoff[Order[i]] # absent /\ branch[Order[i]] # <<>>
  <2>1. \A i \in 1..(k - 1) : handoff[Order[i]] # absent /\ branch[Order[i]] # <<>>
    BY <1>4 DEF LaneInv, GateInv, old
  <2> QED BY <1>5, <1>9, <2>1 DEF id
<1>11. ASSUME NEW i \in 1..k, NEW j \in 1..k, i < j,
              NEW a \in UnitOf(units, Order[i]).allowed, NEW b \in UnitOf(units, Order[j]).allowed
       PROVE  ~patternsOverlap(a, b)
  <2>1. CASE j \in 1..(k - 1)
    <3>1. i \in 1..(k - 1)
      BY <1>3, <1>11, <2>1
    <3>2. Len(gate.integrated) = k - 1
      BY <1>4 DEF old
    <3> QED BY <1>11, <2>1, <3>1, <3>2 DEF LaneInv, SurfacesApart
  <2>2. CASE j = k
    <3>1. i \in 1..(k - 1)
      BY <1>3, <1>11, <2>2
    <3>2. old[i] = Order[i] /\ i \in DOMAIN old
      BY <1>1, <1>4, <3>1
    <3>3. Order[i] \in ToSet(old)
      BY <3>2 DEF ToSet
    <3> QED BY <1>5, <2>2, <3>3 DEF Clashes, id
  <2> QED BY <1>9, <2>1, <2>2
<1>12. SurfacesApart'
  BY <1>6, <1>7, <1>11 DEF SurfacesApart, new
<1>13. GatedAreOwned'
  <2>1. ASSUME MaxCommits <= 1, NEW i \in 1..k PROVE OwnsCommit(Order[i], branch[Order[i]][1])
    <3>1. CASE i = k
      BY <1>5, <2>1, <3>1 DEF id
    <3>2. CASE i \in 1..(k - 1)
      BY <1>4, <2>1, <3>2 DEF LaneInv, GatedAreOwned, old
    <3> QED BY <1>9, <3>1, <3>2
  <2> QED BY <1>6, <1>7, <2>1 DEF GatedAreOwned, OwnsCommit, new
<1> QED BY <1>7, <1>8, <1>10, <1>12, <1>13 DEF new, k

\* One turn of the loop over the order.
LEMMA IntegrateNextStep ==
    ASSUME LaneInv, IntegrateNext
    PROVE  LaneInv'
<1> DEFINE id == Order[gate.at]
<1>1. /\ gate.at \in DOMAIN Order
      /\ UNCHANGED <<units, decision, started, dirty, branch, handoff, main>>
  BY DEF IntegrateNext
<1>2. /\ Order' = Order /\ Len(Order) \in Nat /\ DOMAIN Order = 1..Len(Order)
  BY <1>1, OrderFacts DEF Order, LaneInv, LaneTypes
<1>3. gate.at \in 1..Len(Order) /\ gate.exit = "none" /\ Len(gate.integrated) = gate.at - 1 /\ main = <<>>
  BY <1>1, <1>2 DEF LaneInv, GateInv, MainInv
<1>4. gate \in [at : 0..Len(Order), integrated : Seq(IdsOf(units)), exit : {"none", "ok", "blocked"}]
  BY DEF LaneInv, LaneTypes
<1>5. HandedOff' /\ DecisionInv'
  BY <1>1, DecisionUnmoved
<1>6. CASE ~Passes(id, gate.integrated)
  <2>1. Finish(TRUE, gate.integrated)
    BY <1>6 DEF IntegrateNext
  <2>2. gate' = [at |-> 0, integrated |-> gate.integrated, exit |-> "blocked"]
        /\ recordTelemetry(absent, "integration-gate", FALSE)
    BY <2>1 DEF Finish
  <2>3. gate'.at = 0 /\ gate'.integrated = gate.integrated /\ gate'.exit = "blocked"
    BY <2>2
  <2>4. LaneTypes'
    <3>1. gate' \in [at : 0..Len(Order), integrated : Seq(IdsOf(units)), exit : {"none", "ok", "blocked"}]
      BY <1>2, <1>4, <2>2
    <3> QED BY <1>1, <1>2, <3>1 DEF LaneInv, LaneTypes
  <2>5. GateInv'
    BY <1>1, <1>2, <2>3 DEF LaneInv, GateInv
  <2>6. SurfacesApart' /\ GatedAreOwned'
    BY <1>1, <1>2, <2>3 DEF LaneInv, SurfacesApart, GatedAreOwned, OwnsCommit
  <2>7. MainInv'
    BY <1>1, <1>2, <1>3, <2>3 DEF LaneInv, MainInv
  <2>8. LedgerKeepsFirst'
    BY <2>2, LedgerStep DEF LaneInv
  <2> QED BY <1>5, <2>4, <2>5, <2>6, <2>7, <2>8 DEF LaneInv
<1>7. CASE Passes(id, gate.integrated) /\ gate.at = Len(Order)
  <2>1. Finish(FALSE, Append(gate.integrated, id))
    BY <1>7 DEF IntegrateNext
  <2>2. gate' = [at |-> 0, integrated |-> Append(gate.integrated, id), exit |-> "ok"]
        /\ recordTelemetry(absent, "integration-gate", TRUE)
    BY <2>1 DEF Finish
  <2>3. gate'.at = 0 /\ gate'.integrated = Append(gate.integrated, id) /\ gate'.exit = "ok"
    BY <2>2
  <2>4. /\ gate'.integrated \in Seq(IdsOf(units)) /\ Len(gate'.integrated) = gate.at
        /\ \A i \in 1..Len(gate'.integrated) :
             /\ gate'.integrated[i] = Order[i]
             /\ handoff'[Order[i]] # absent /\ branch'[Order[i]] # <<>>
        /\ SurfacesApart' /\ GatedAreOwned'
    BY <1>1, <1>7, <2>3, PassExtends
  <2>5. LaneTypes'
    <3>1. gate' \in [at : 0..Len(Order), integrated : Seq(IdsOf(units)), exit : {"none", "ok", "blocked"}]
      BY <1>2, <2>2, <2>3, <2>4
    <3> QED BY <1>1, <1>2, <3>1 DEF LaneInv, LaneTypes
  <2>6. GateInv'
    <3>1. Len(gate'.integrated) = Len(Order) /\ Len(gate'.integrated) <= Len(Order)
      BY <1>2, <1>7, <2>4
    <3>2. \A i \in 1..Len(gate'.integrated) :
            /\ gate'.integrated[i] = Order'[i]
            /\ handoff'[Order'[i]] # absent /\ branch'[Order'[i]] # <<>>
      BY <1>2, <2>4
    <3> QED BY <1>2, <2>3, <3>1, <3>2 DEF GateInv
  <2>7. MainInv'
    BY <1>1, <1>2, <1>3, <2>3 DEF LaneInv, MainInv
  <2>8. LedgerKeepsFirst'
    BY <2>2, LedgerStep DEF LaneInv
  <2> QED BY <1>5, <2>4, <2>5, <2>6, <2>7, <2>8 DEF LaneInv
<1>8. CASE Passes(id, gate.integrated) /\ gate.at # Len(Order)
  <2>1. /\ gate' = [gate EXCEPT !.at = @ + 1, !.integrated = Append(@, id)]
        /\ ledger' = ledger
    BY <1>8 DEF IntegrateNext
  <2>2. gate'.at = gate.at + 1 /\ gate'.integrated = Append(gate.integrated, id) /\ gate'.exit = "none"
    BY <1>3, <1>4, <2>1
  <2>3. /\ gate'.integrated \in Seq(IdsOf(units)) /\ Len(gate'.integrated) = gate.at
        /\ \A i \in 1..Len(gate'.integrated) :
             /\ gate'.integrated[i] = Order[i]
             /\ handoff'[Order[i]] # absent /\ branch'[Order[i]] # <<>>
        /\ SurfacesApart' /\ GatedAreOwned'
    BY <1>1, <1>8, <2>2, PassExtends
  <2>4. gate'.at \in 0..Len(Order)
    BY <1>2, <1>3, <1>8, <2>2
  <2>5. LaneTypes'
    <3>1. gate' = [at |-> gate'.at, integrated |-> gate'.integrated, exit |-> gate'.exit]
      BY <1>4, <2>1
    <3>2. gate' \in [at : 0..Len(Order), integrated : Seq(IdsOf(units)), exit : {"none", "ok", "blocked"}]
      BY <2>2, <2>3, <2>4, <3>1
    <3> QED BY <1>1, <1>2, <3>2 DEF LaneInv, LaneTypes
  <2>6. GateInv'
    BY <1>2, <1>3, <2>2, <2>3 DEF GateInv
  <2>7. MainInv'
    BY <1>1, <1>2, <1>3, <2>2 DEF LaneInv, MainInv
  <2>8. LedgerKeepsFirst'
    BY <2>1 DEF LaneInv, LedgerKeepsFirst
  <2> QED BY <1>5, <2>3, <2>5, <2>6, <2>7, <2>8 DEF LaneInv
<1> QED BY <1>6, <1>7, <1>8

\* git merge of the next lane of the plan.
LEMMA MergeStep ==
    ASSUME LaneInv, Merge
    PROVE  LaneInv'
<1> DEFINE k == Len(main) + 1
           id == Order[k]
           entry == [id |-> id, files |-> UNION ToSet(branch[id]), status |-> handoff[id].status]
<1>1. /\ gate.exit = "ok" /\ Len(main) < Len(Order) /\ main' = Append(main, entry)
      /\ UNCHANGED <<units, decision, started, dirty, branch, handoff, gate, ledger>>
  BY DEF Merge, integrationPlan
<1>2. /\ units \in Batches /\ LaneTypes
      /\ main \in Seq([id : IdsOf(units), files : SUBSET Files, status : STRING]) /\ Len(main) \in Nat
  BY DEF LaneInv, LaneTypes
<1>3. /\ Order' = Order /\ Len(Order) \in Nat /\ \A i \in 1..Len(Order) : Order[i] \in IdsOf(units)
  BY <1>1, <1>2, OrderFacts DEF Order
<1>4. k \in 1..Len(Order) /\ id \in IdsOf(units)
  BY <1>1, <1>2, <1>3
<1>5. handoff[id] # absent /\ branch[id] # <<>>
  BY <1>1, <1>4 DEF LaneInv, GateInv
<1>6. /\ branch[id] \in Seq(SUBSET Files) /\ Len(branch[id]) \in Nat /\ Len(branch[id]) <= MaxCommits
      /\ DOMAIN branch[id] = 1..Len(branch[id])
  BY <1>4 DEF LaneInv, LaneTypes
<1>7. handoff[id].status \in STRING
  <2>1. handoff[id] \in Reports(units)
    BY <1>4, <1>5 DEF LaneInv, LaneTypes
  <2> QED BY <1>2, <2>1, AbsentAssumption
<1>8. UNION ToSet(branch[id]) \in SUBSET Files
  <2>1. \A S \in ToSet(branch[id]) : S \subseteq Files
    BY <1>6 DEF ToSet
  <2> QED BY <2>1
<1>9. MaxCommits <= 1 => UNION ToSet(branch[id]) = branch[id][1]
  <2>1. SUFFICES ASSUME MaxCommits <= 1 PROVE UNION ToSet(branch[id]) = branch[id][1]
    OBVIOUS
  <2>2. DOMAIN branch[id] = {1}
    BY <1>5, <1>6, <2>1, BoundsAssumption
  <2>3. ToSet(branch[id]) = {branch[id][1]}
    BY <2>2 DEF ToSet
  <2> QED BY <2>3
<1>10. entry \in [id : IdsOf(units), files : SUBSET Files, status : STRING]
  BY <1>4, <1>7, <1>8
<1>11. entry.id = id /\ entry.files = UNION ToSet(branch[id])
  OBVIOUS
<1> HIDE DEF entry
<1>12. /\ main' \in Seq([id : IdsOf(units), files : SUBSET Files, status : STRING])
       /\ Len(main') = k /\ main'[k] = entry /\ \A i \in 1..Len(main) : main'[i] = main[i]
  BY <1>1, <1>2, <1>10
<1>13. LaneTypes'
  BY <1>1, <1>3, <1>12 DEF LaneInv, LaneTypes
<1>14. HandedOff' /\ DecisionInv'
  BY <1>1, DecisionUnmoved
<1>15. GateInv' /\ SurfacesApart' /\ GatedAreOwned'
  BY <1>1, <1>3 DEF LaneInv, GateInv, SurfacesApart, GatedAreOwned, OwnsCommit
<1>16. MainInv'
  <2>1. \A i \in 1..k : i = k \/ i \in 1..Len(main)
    BY <1>2
  <2>2. \A i \in 1..k : main'[i].id = Order[i]
    BY <1>11, <1>12, <2>1 DEF LaneInv, MainInv
  <2>3. MaxCommits <= 1 => \A i \in 1..k : main'[i].files = branch[Order[i]][1]
    BY <1>9, <1>11, <1>12, <2>1 DEF LaneInv, MainInv
  <2>4. k <= Len(Order)
    BY <1>1, <1>2, <1>3
  <2> QED BY <1>1, <1>3, <1>12, <2>2, <2>3, <2>4 DEF MainInv
<1>17. LedgerKeepsFirst'
  BY <1>1 DEF LaneInv, LedgerKeepsFirst
<1> QED BY <1>13, <1>14, <1>15, <1>16, <1>17 DEF LaneInv

\* The invariant is inductive.
LEMMA LaneInvInductive == LaneInv /\ [Next]_vars => LaneInv'
<1> SUFFICES ASSUME LaneInv, [Next]_vars PROVE LaneInv'
  OBVIOUS
<1>1. CASE Decide
  BY <1>1, DecideStep
<1>2. CASE IntegrateStart
  BY <1>2, IntegrateStartStep
<1>3. CASE IntegrateNext
  BY <1>3, IntegrateNextStep
<1>4. CASE Merge
  BY <1>4, MergeStep
<1>5. ASSUME NEW id \in IdsOf(units), Dispatch(id) PROVE LaneInv'
  BY <1>5, DispatchStep
<1>6. ASSUME NEW id \in IdsOf(units), Check(id) PROVE LaneInv'
  BY <1>6, CheckStep
<1>7. ASSUME NEW id \in IdsOf(units), Commit(id) PROVE LaneInv'
  BY <1>7, CommitStep
<1>8. ASSUME NEW id \in IdsOf(units), HandOff(id) PROVE LaneInv'
  BY <1>8, HandOffStep
<1>9. ASSUME NEW id \in IdsOf(units), NEW f \in Files, Edit(id, f) PROVE LaneInv'
  BY <1>9, EditStep
<1>10. CASE UNCHANGED vars
  <2>1. /\ UNCHANGED <<units, decision, started, dirty, branch, handoff, gate, main, ledger>>
        /\ Order' = Order
    BY <1>10 DEF vars, Order
  <2>2. LaneTypes'
    BY <2>1 DEF LaneInv, LaneTypes
  <2>3. HandedOff' /\ DecisionInv'
    BY <2>1, DecisionUnmoved
  <2>4. GateInv' /\ SurfacesApart' /\ GatedAreOwned' /\ MainInv'
    BY <2>1, GateUnmoved DEF Grows
  <2>5. LedgerKeepsFirst'
    BY <2>1 DEF LaneInv, LedgerKeepsFirst
  <2> QED BY <2>2, <2>3, <2>4, <2>5 DEF LaneInv
<1> QED BY <1>1, <1>2, <1>3, <1>4, <1>5, <1>6, <1>7, <1>8, <1>9, <1>10 DEF Next

\* Reachable states satisfy the invariant.
LEMMA LanesInvariant == Spec => []LaneInv
<1>1. Init => LaneInv
  BY InitHolds
<1>2. LaneInv /\ [Next]_vars => LaneInv'
  BY LaneInvInductive
<1> QED BY <1>1, <1>2, PTL DEF Spec

\* A lane that is merged has passed the gate.
LEMMA MergedHasPassed ==
    ASSUME LaneInv, NEW i \in DOMAIN main
    PROVE  /\ i \in 1..Len(main) /\ i \in 1..Len(Order) /\ i \in 1..Len(gate.integrated)
           /\ Order[i] \in IdsOf(units) /\ main[i].id = Order[i] /\ main[i].files \subseteq Files
<1> DEFINE Entries == [id : IdsOf(units), files : SUBSET Files, status : STRING]
<1>1. /\ units \in Batches /\ Len(main) \in Nat /\ DOMAIN main = 1..Len(main)
      /\ \A j \in 1..Len(main) : main[j].files \in SUBSET Files
  <2>1. units \in Batches /\ main \in Seq(Entries)
    BY DEF LaneInv, LaneTypes
  <2>2. \A e \in Entries : e.files \in SUBSET Files
    OBVIOUS
  <2> HIDE DEF Entries
  <2> QED BY <2>1, <2>2
<1>2. Len(Order) \in Nat /\ \A j \in 1..Len(Order) : Order[j] \in IdsOf(units)
  BY <1>1, OrderFacts
<1>3. main # <<>>
  BY <1>1
<1>4. gate.exit = "ok" /\ Len(gate.integrated) = Len(Order) /\ Len(main) <= Len(Order)
  BY <1>3 DEF LaneInv, MainInv, GateInv
<1>5. i \in 1..Len(main) /\ i \in 1..Len(Order) /\ i \in 1..Len(gate.integrated)
  BY <1>1, <1>2, <1>4
<1> QED BY <1>1, <1>2, <1>5 DEF LaneInv, MainInv

LEMMA InvOwned ==
    ASSUME LaneInv, MaxCommits <= 1
    PROVE  MergedFilesAreOwned
<1>1. SUFFICES ASSUME NEW i \in DOMAIN main PROVE OwnsCommit(main[i].id, main[i].files)
  BY DEF MergedFilesAreOwned, OwnsCommit
<1>2. /\ i \in 1..Len(main) /\ i \in 1..Len(gate.integrated) /\ main[i].id = Order[i]
  BY MergedHasPassed
<1>3. main[i].files = branch[Order[i]][1]
  BY <1>2 DEF LaneInv, MainInv
<1>4. OwnsCommit(Order[i], branch[Order[i]][1])
  BY <1>2 DEF LaneInv, GatedAreOwned
<1> QED BY <1>2, <1>3, <1>4

\* Two lanes own a file together only under .artifacts: their surfaces do not overlap.
LEMMA InvNoConflict ==
    ASSUME LaneInv, MaxCommits <= 1
    PROVE  MergesDoNotConflict
<1>1. SUFFICES ASSUME NEW i \in DOMAIN main, NEW j \in DOMAIN main, i < j,
                      NEW f \in main[i].files \cap main[j].files, ~matchPath(f, Artifacts)
               PROVE  FALSE
  BY DEF MergesDoNotConflict
<1>2. /\ i \in 1..Len(gate.integrated) /\ main[i].id = Order[i] /\ Order[i] \in UnitIds(units)
      /\ j \in 1..Len(gate.integrated) /\ main[j].id = Order[j] /\ Order[j] \in UnitIds(units)
      /\ f \in Files
  BY MergedHasPassed DEF IdsOf
<1>3. /\ ~violates(f, UnitOf(units, Order[i]).allowed, UnitOf(units, Order[i]).forbidden)
      /\ ~violates(f, UnitOf(units, Order[j]).allowed, UnitOf(units, Order[j]).forbidden)
  BY <1>2, InvOwned DEF MergedFilesAreOwned, checkOwnership
<1>4. PICK p \in UnitOf(units, Order[i]).allowed : matchPath(f, p)
  BY <1>1, <1>3 DEF violates, anyMatch
<1>5. PICK q \in UnitOf(units, Order[j]).allowed : matchPath(f, q)
  BY <1>1, <1>3 DEF violates, anyMatch
<1>6. units \in Batches /\ IsBatch(units)
  BY BatchOrder DEF LaneInv, LaneTypes
<1>7. p.dir \in Seq(STRING) /\ q.dir \in Seq(STRING) /\ f \in Seq(STRING)
  <2>1. \E k \in DOMAIN units : UnitOf(units, Order[i]) = units[k]
    BY <1>2, <1>6, UnitOfId
  <2>2. \E k \in DOMAIN units : UnitOf(units, Order[j]) = units[k]
    BY <1>2, <1>6, UnitOfId
  <2> QED BY <1>2, <1>4, <1>5, <1>6, <2>1, <2>2, BatchAssumption, BoundsAssumption
<1>8. patternsOverlap(p, q)
  BY <1>4, <1>5, <1>7, SharedFileOverlaps
<1>9. ~patternsOverlap(p, q)
  BY <1>1, <1>2, <1>4, <1>5 DEF LaneInv, SurfacesApart
<1> QED BY <1>8, <1>9

LEMMA InvInOrder ==
    ASSUME LaneInv, \A b \in Batches : ~circular(b)
    PROVE  MergedInDependencyOrder
<1>1. SUFFICES ASSUME NEW i \in DOMAIN main, NEW n \in UnitOf(units, main[i].id).needs \cap IdsOf(units)
               PROVE  \E j \in 1..(i - 1) : main[j].id = n
  BY DEF MergedInDependencyOrder
<1>2. /\ i \in 1..Len(main) /\ i \in 1..Len(Order) /\ main[i].id = Order[i]
  BY MergedHasPassed
<1>3. n \in InBatch(units, Order[i])
  BY <1>1, <1>2 DEF InBatch, IdsOf
<1>4. IsBatch(units) /\ ~circular(units)
  BY BatchOrder DEF LaneInv, LaneTypes
<1>5. PICK j \in 1..(i - 1) : Order[j] = n
  BY <1>2, <1>3, <1>4, OrderIsTopological DEF Ordered, Order
<1>6. j \in 1..Len(main)
  BY <1>2
<1> QED BY <1>5, <1>6 DEF LaneInv, MainInv

LEMMA InvTypeOK ==
    ASSUME LaneInv
    PROVE  TypeOK
<1>1. units \in Batches /\ Len(main) \in Nat
  BY DEF LaneInv, LaneTypes
<1>2. Len(Order) \in Nat /\ Len(Order) <= Len(units) /\ Len(units) \in Nat
  BY <1>1, OrderFacts
<1>3. Len(main) <= Len(units)
  BY <1>1, <1>2 DEF LaneInv, MainInv
<1> QED BY <1>3 DEF LaneInv, LaneTypes, TypeOK

LEMMA InvConcurrency ==
    ASSUME LaneInv
    PROVE  ConcurrencyIsGranted
<1>1. SUFFICES ASSUME Cardinality(Working) > 1
      PROVE  /\ requirements(units, policy, repo).R5 /\ requirements(units, policy, repo).R7
             /\ Cardinality(Working) <= policy.maxConcurrency
  BY DEF ConcurrencyIsGranted
<1>2. units \in Batches /\ Cardinality(Working) \in Nat
  BY WorkingFinite DEF LaneInv, LaneTypes
<1>3. decision # absent
  <2>1. SUFFICES ASSUME decision = absent PROVE FALSE
    OBVIOUS
  <2>2. Working = {}
    BY <2>1 DEF LaneInv, DecisionInv, Working
  <2> QED BY <1>1, <2>2, FS_EmptySet
<1>4. decision = evaluate(units, policy, repo) /\ Cardinality(Working) <= decision.max_concurrency
  BY <1>3 DEF LaneInv, DecisionInv
<1>5. /\ decision.max_concurrency \in Nat
      /\ decision.max_concurrency > 1 =>
           /\ requirements(units, policy, repo).R5 /\ requirements(units, policy, repo).R7
           /\ decision.max_concurrency <= policy.maxConcurrency
  BY <1>2, <1>4, GrantedConcurrency
<1> QED BY <1>1, <1>2, <1>4, <1>5, BoundsAssumption

-----------------------------------------------------------------------------

(***************************************************************************)
(* Whatever the agents edit, commit and claim, a lane of one commit brings *)
(* only its own files to main.  LaneCommits shows that the bound is        *)
(* needed: of two commits the gate reads the one the handoff names.        *)
(***************************************************************************)
THEOREM OnlyOwnedIsMerged ==
    ASSUME MaxCommits <= 1
    PROVE  Spec => []MergedFilesAreOwned
<1>1. LaneInv => MergedFilesAreOwned
  BY InvOwned
<1> QED BY <1>1, LanesInvariant, PTL

(***************************************************************************)
(* Lanes of one commit, of batches whose needs are not circular, reach     *)
(* main without a conflict, each after what it needs, and ran together     *)
(* only as evaluate allowed; the ledger of the gates is never revised.     *)
(***************************************************************************)
THEOREM IntegrationSafe ==
    ASSUME MaxCommits <= 1, \A b \in Batches : ~circular(b)
    PROVE  Spec => []IntegrationIsSafe
<1>1. LaneInv => IntegrationIsSafe
  BY InvTypeOK, InvNoConflict, InvInOrder, InvConcurrency DEF LaneInv, IntegrationIsSafe
<1> QED BY <1>1, LanesInvariant, PTL

(***************************************************************************)
(* With any number of commits and any needs, lanes run together only as    *)
(* evaluate allowed, and the ledger keeps the first verdict.               *)
(***************************************************************************)
THEOREM LanesRunAsGranted == Spec => [](TypeOK /\ ConcurrencyIsGranted /\ LedgerKeepsFirst)
<1>1. LaneInv => TypeOK /\ ConcurrencyIsGranted /\ LedgerKeepsFirst
  BY InvTypeOK, InvConcurrency DEF LaneInv
<1> QED BY <1>1, LanesInvariant, PTL

(***************************************************************************)
(* With any number of commits and any needs, the gate exits 0 only with    *)
(* every lane dispatched and committed.                                    *)
(***************************************************************************)
THEOREM GateIsComplete == Spec => GateWantsEveryLane
<1>1. LaneInv /\ LaneInv' /\ [Next]_vars =>
        [gate'.exit = "ok" /\ gate.exit # "ok" =>
           \A id \in IdsOf(units) : id \in started /\ branch[id] # <<>>]_vars
  <2> SUFFICES ASSUME LaneInv, LaneInv', Next, gate'.exit = "ok", gate.exit # "ok",
                      NEW id \in IdsOf(units)
               PROVE  id \in started /\ branch[id] # <<>>
    OBVIOUS
  <2>1. UNCHANGED <<units, started, branch, handoff>>
    <3>1. gate' # gate
      OBVIOUS
    <3>2. IntegrateStart \/ IntegrateNext
      BY <3>1 DEF Next, Decide, Merge, Dispatch, Check, Commit, HandOff, Edit
    <3> QED BY <3>2 DEF IntegrateStart, IntegrateNext
  <2>2. Order' = Order /\ DOMAIN Order = 1..Len(Order) /\ ToSet(Order) = IdsOf(units)
    BY <2>1, OrderFacts DEF Order, LaneInv, LaneTypes
  <2>3. PICK i \in 1..Len(Order) : Order[i] = id
    BY <2>2 DEF ToSet
  <2>4. i \in 1..Len(gate'.integrated)
    BY <2>2, <2>3 DEF LaneInv, GateInv
  <2>5. handoff'[Order'[i]] # absent /\ branch'[Order'[i]] # <<>>
    BY <2>4 DEF LaneInv, GateInv
  <2>6. handoff[id] # absent /\ branch[id] # <<>>
    BY <2>1, <2>2, <2>3, <2>5
  <2> QED BY <2>6 DEF LaneInv, HandedOff
<1> QED BY <1>1, LanesInvariant, PTL DEF Spec, GateWantsEveryLane
=============================================================================
