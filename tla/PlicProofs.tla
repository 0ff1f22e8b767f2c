------------------------------ MODULE PlicProofs -------------------------------
(***************************************************************************)
(* Theorems about Plic, for every set of sources and contexts: its types,  *)
(* which gateways stay closed for good (NoSourceIsLost) and when none does *)
(* (NoSourceGoesDead), what can interrupt raises the line (LinesRise),     *)
(* claims follow the priorities (ClaimsInOrder), and edge-triggered        *)
(* requests are served as EdgeRequests promises (EdgesServedOnce).         *)
(***************************************************************************)
EXTENDS Plic, FiniteSetTheorems, TLAPS

-------------------------------------------------------------------------------
(* Lists of sources: the order in which bits are scanned (Ranked), the     *)
(* list left by erasing (Without), and the loop of ClaimInterrupt          *)
(* (Search), for lists of every length.                                    *)

\* Every set of numbers has a least one. This is the induction the lemmas below use.
LEMMA LeastNumber ==
  ASSUME NEW T, T \subseteq Nat, T # {}
  PROVE  \E k \in T : \A j \in T : k <= j
<1> DEFINE Below == OpToRel(<, Nat)
<1>1. IsWellFoundedOn(Below, Nat)
  BY NatLessThanWellFounded
<1>2. \E k \in T : \A j \in T : <<j, k>> \notin Below
  <2> HIDE DEF Below
  <2> QED BY <1>1, WFMin
<1>3. PICK k \in T : \A j \in T : <<j, k>> \notin Below
  BY <1>2
<1>4. ASSUME NEW j \in T PROVE k <= j
  <2>1. ~(j < k) BY <1>3, <1>4 DEF OpToRel
  <2> QED BY <2>1
<1> QED BY <1>4

-------------------------------------------------------------------------------
(* Ranked                                                                  *)

Rank(K, k) == Cardinality({j \in K : j <= k})

LEMMA RanksDiffer ==
  ASSUME NEW K \in SUBSET Nat, IsFiniteSet(K)
  PROVE  /\ Cardinality(K) \in Nat
         /\ \A k \in K : Rank(K, k) \in 1..Cardinality(K)
         /\ \A j, k \in K : Rank(K, j) = Rank(K, k) => j = k
<1> DEFINE Upto(k) == {j \in K : j <= k}
<1>1. Cardinality(K) \in Nat
  BY FS_CardinalityType
<1>2. ASSUME NEW k \in K
      PROVE  /\ IsFiniteSet(Upto(k)) /\ Cardinality(Upto(k)) \in Nat
             /\ Cardinality(Upto(k)) <= Cardinality(K)
             /\ Cardinality(Upto(k)) # 0
  <2>1. Upto(k) \in SUBSET K OBVIOUS
  <2>2. IsFiniteSet(Upto(k)) /\ Cardinality(Upto(k)) <= Cardinality(K)
    BY <2>1, FS_Subset
  <2>3. k \in Upto(k) OBVIOUS
  <2>4. Cardinality(Upto(k)) # 0
    BY <2>2, <2>3, FS_EmptySet
  <2>5. Cardinality(Upto(k)) \in Nat
    BY <2>2, FS_CardinalityType
  <2> QED BY <2>2, <2>4, <2>5
<1>3. ASSUME NEW j \in K, NEW k \in K, j < k
      PROVE  Rank(K, j) # Rank(K, k)
  <2>1. Upto(j) \in SUBSET Upto(k)
    <3>1. \A i \in K : i \in Nat OBVIOUS
    <3>2. \A i \in K : i <= j => i <= k BY <1>3, <3>1
    <3> QED BY <3>2
  <2>2. k \in Upto(k) /\ k \notin Upto(j) BY <1>3
  <2>3. IsFiniteSet(Upto(k)) BY <1>2
  <2>4. Cardinality(Upto(k)) # Cardinality(Upto(j))
    <3> HIDE DEF Upto
    <3> QED BY <2>1, <2>2, <2>3, FS_Subset
  <2> QED BY <2>4 DEF Rank
<1>4. ASSUME NEW j \in K, NEW k \in K, Rank(K, j) = Rank(K, k) PROVE j = k
  <2>1. j < k \/ k < j \/ j = k OBVIOUS
  <2> QED BY <1>3, <1>4, <2>1
<1>5. ASSUME NEW k \in K PROVE Rank(K, k) \in 1..Cardinality(K)
  <2>1. Rank(K, k) = Cardinality(Upto(k)) BY DEF Rank
  <2>2. Rank(K, k) \in Nat /\ Rank(K, k) <= Cardinality(K) /\ Rank(K, k) # 0
    BY <1>2, <2>1
  <2> HIDE DEF Upto
  <2> QED BY <1>1, <2>2
<1> QED BY <1>1, <1>4, <1>5

\* Ranked(K) lists every number of K, once.
LEMMA RankedLists ==
  ASSUME NEW K \in SUBSET Nat, IsFiniteSet(K)
  PROVE  /\ Ranked(K) \in [1..Cardinality(K) -> K]
         /\ Cardinality(K) \in Nat
         /\ \A k \in K : \E n \in 1..Cardinality(K) : Ranked(K)[n] = k
         /\ \A m, n \in 1..Cardinality(K) : Ranked(K)[m] = Ranked(K)[n] => m = n
<1> DEFINE N == Cardinality(K)
           rank == [k \in K |-> Rank(K, k)]
<1>1. N \in Nat /\ rank \in [K -> 1..N]
      /\ \A j, k \in K : rank[j] = rank[k] => j = k
  BY RanksDiffer
<1>2. IsFiniteSet(1..N) /\ Cardinality(1..N) = N
  BY <1>1, FS_Interval
<1>3. rank \in Injection(K, 1..N)
  BY <1>1 DEF Injection, IsInjective
<1>4. rank \in Surjection(K, 1..N)
  <2> HIDE DEF rank
  <2> QED BY <1>2, <1>3, FS_Injection
<1>5. \A n \in 1..N : \E k \in K : rank[k] = n
  BY <1>4 DEF Surjection
<1>6. \A n \in 1..N : Ranked(K)[n] \in K /\ rank[Ranked(K)[n]] = n
  <2> SUFFICES ASSUME NEW n \in 1..N
               PROVE  Ranked(K)[n] \in K /\ rank[Ranked(K)[n]] = n
    OBVIOUS
  <2>1. Ranked(K)[n] = CHOOSE k \in K : Rank(K, k) = n
    BY DEF Ranked, Rank
  <2>2. \E k \in K : Rank(K, k) = n BY <1>5
  <2> QED BY <2>1, <2>2
<1>7. Ranked(K) = [n \in 1..N |-> CHOOSE k \in K : Rank(K, k) = n]
  BY DEF Ranked, Rank
<1>8. Ranked(K) \in [1..N -> K]
  BY <1>6, <1>7
<1>9. ASSUME NEW k \in K PROVE \E n \in 1..N : Ranked(K)[n] = k
  <2>1. rank[k] \in 1..N BY <1>1
  <2>2. Ranked(K)[rank[k]] = k
    <3> HIDE DEF rank, N
    <3> QED BY <1>1, <1>6, <2>1
  <2> QED BY <2>1, <2>2
<1>10. ASSUME NEW m \in 1..N, NEW n \in 1..N, Ranked(K)[m] = Ranked(K)[n] PROVE m = n
  BY <1>6, <1>10
<1> QED BY <1>1, <1>8, <1>9, <1>10

-------------------------------------------------------------------------------
(* Without                                                                 *)

\* What is left after erasing: nothing new, everything not to be erased, and from a
\* list without duplicates nothing that is.
LEMMA WithoutErases ==
  ASSUME NEW list \in Seq(Sources), NEW S
  PROVE  LET left == Without(list, S)
         IN /\ left \in Seq(Sources)
            /\ ToSet(left) \subseteq ToSet(list)
            /\ ToSet(list) \ S \subseteq ToSet(left)
            /\ IsInjective(list) => IsInjective(left) /\ ToSet(left) \intersect S = {}
<1> DEFINE erased == {j \in DOMAIN list :
                        list[j] \in S /\ \A i \in 1..(j - 1) : list[i] # list[j]}
           K == DOMAIN list \ erased
           N == Cardinality(K)
           left == Without(list, S)
<1>1. DOMAIN list = 1..Len(list) /\ Len(list) \in Nat
      /\ \A j \in DOMAIN list : list[j] \in Sources
  OBVIOUS
<1>2. K \in SUBSET Nat /\ IsFiniteSet(K)
  <2>1. IsFiniteSet(1..Len(list)) BY <1>1, FS_Interval
  <2>2. K \in SUBSET (1..Len(list)) BY <1>1
  <2>3. IsFiniteSet(K)
    <3> HIDE DEF K
    <3> QED BY <2>1, <2>2, FS_Subset
  <2> QED BY <1>1, <2>2, <2>3
<1> HIDE DEF K
<1>3. /\ Ranked(K) \in [1..N -> K]
      /\ N \in Nat
      /\ \A k \in K : \E n \in 1..N : Ranked(K)[n] = k
      /\ \A m, n \in 1..N : Ranked(K)[m] = Ranked(K)[n] => m = n
  BY <1>2, RankedLists
<1>4. left = [n \in 1..N |-> list[Ranked(K)[n]]]
  <2>1. left = [n \in DOMAIN Ranked(K) |-> list[Ranked(K)[n]]]
    BY DEF Without, K
  <2> QED BY <1>3, <2>1
<1>5. K \subseteq DOMAIN list
  BY DEF K
<1> HIDE DEF N, left
<1>6. left \in Seq(Sources) /\ DOMAIN left = 1..N
  <2>1. \A n \in 1..N : list[Ranked(K)[n]] \in Sources BY <1>1, <1>3, <1>5
  <2>2. left \in [1..N -> Sources] BY <1>4, <2>1
  <2> QED BY <1>3, <2>2
<1>7. ToSet(left) \subseteq ToSet(list)
  BY <1>3, <1>4, <1>5, <1>6 DEF ToSet
<1>8. \A k \in K : list[k] \in ToSet(left)
  BY <1>3, <1>4, <1>6 DEF ToSet
<1>9. ToSet(list) \ S \subseteq ToSet(left)
  <2>1. \A k \in DOMAIN list : list[k] \notin S => k \in K BY DEF K
  <2> QED BY <1>8, <2>1 DEF ToSet
<1>10. ASSUME IsInjective(list)
       PROVE  IsInjective(left) /\ ToSet(left) \intersect S = {}
  <2>1. \A j, k \in DOMAIN list : list[j] = list[k] => j = k
    BY <1>10 DEF IsInjective
  <2>2. IsInjective(left)
    BY <1>3, <1>4, <1>5, <1>6, <2>1 DEF IsInjective
  <2>3. ASSUME NEW k \in K PROVE list[k] \notin S
    <3>1. k \in 1..Len(list) BY <1>1, <1>5
    <3>2. \A i \in 1..(k - 1) : list[i] # list[k]
      BY <1>1, <2>1, <3>1
    <3> QED BY <1>1, <3>1, <3>2 DEF K
  <2>4. ToSet(left) \intersect S = {}
    BY <1>3, <1>4, <1>6, <2>3 DEF ToSet
  <2> QED BY <2>2, <2>4
<1> QED BY <1>6, <1>7, <1>9, <1>10 DEF left

\* What the enable register leaves: newly enabled sources are appended before the
\* disabled ones are erased.
LEMMA ListRewritten ==
  ASSUME NEW list \in Seq(Sources), NEW on \in SUBSET Sources, NEW off
  PROVE  LET left == Without(list \o Ranked(on), off)
         IN /\ left \in Seq(Sources)
            /\ (ToSet(list) \union on) \ off \subseteq ToSet(left)
            /\ IsInjective(list) /\ on \intersect ToSet(list) = {}
                 => IsInjective(left) /\ ToSet(left) = (ToSet(list) \union on) \ off
<1> DEFINE new == Ranked(on)
           N == Cardinality(on)
           both == list \o new
           left == Without(both, off)
<1>1. on \in SUBSET Nat /\ IsFiniteSet(on)
  BY SourcesAssumption, FS_Subset
<1>2. /\ new \in [1..N -> on] /\ N \in Nat
      /\ \A k \in on : \E n \in 1..N : new[n] = k
      /\ \A m, n \in 1..N : new[m] = new[n] => m = n
  BY <1>1, RankedLists
<1> HIDE DEF new, N
<1>3. new \in Seq(Sources) /\ Len(new) = N
  <2>1. new \in [1..N -> Sources] BY <1>2
  <2>2. new \in Seq(Sources) BY <1>2, <2>1
  <2>3. DOMAIN new = 1..Len(new) /\ Len(new) \in Nat BY <2>2
  <2> QED BY <1>2, <2>1, <2>2, <2>3
<1>4. /\ both \in Seq(Sources) /\ DOMAIN both = 1..(Len(list) + N)
      /\ Len(list) \in Nat /\ DOMAIN list = 1..Len(list)
      /\ \A i \in 1..Len(list) : both[i] = list[i]
      /\ \A i \in (Len(list) + 1)..(Len(list) + N) : both[i] = new[i - Len(list)]
  BY <1>2, <1>3
<1> HIDE DEF both
<1>5. ToSet(both) = ToSet(list) \union on
  <2>1. ASSUME NEW i \in DOMAIN both PROVE both[i] \in ToSet(list) \union on
    <3>1. CASE i \in 1..Len(list) BY <1>4, <3>1 DEF ToSet
    <3>2. CASE i \in (Len(list) + 1)..(Len(list) + N)
      <4>1. i - Len(list) \in 1..N BY <1>2, <1>4, <3>2
      <4> QED BY <1>2, <1>4, <3>2, <4>1
    <3> QED BY <1>2, <1>4, <3>1, <3>2
  <2>2. ToSet(list) \subseteq ToSet(both)
    <3>1. \A i \in DOMAIN list : i \in DOMAIN both /\ both[i] = list[i] BY <1>2, <1>4
    <3> QED BY <3>1 DEF ToSet
  <2>3. ASSUME NEW k \in on PROVE k \in ToSet(both)
    <3>1. PICK n \in 1..N : new[n] = k BY <1>2
    <3>2. Len(list) + n \in (Len(list) + 1)..(Len(list) + N) BY <1>2, <1>4
    <3>3. both[Len(list) + n] = k BY <1>2, <1>4, <3>1, <3>2
    <3>4. Len(list) + n \in DOMAIN both BY <1>2, <1>4, <3>1
    <3> QED BY <3>3, <3>4 DEF ToSet
  <2>4. ToSet(both) \subseteq ToSet(list) \union on
    <3>1. \A x \in ToSet(both) : \E i \in DOMAIN both : x = both[i] BY DEF ToSet
    <3> QED BY <2>1, <3>1
  <2> QED BY <2>2, <2>3, <2>4
<1>6. ASSUME IsInjective(list), on \intersect ToSet(list) = {}
      PROVE  IsInjective(both)
  <2> SUFFICES ASSUME NEW i \in DOMAIN both, NEW j \in DOMAIN both, both[i] = both[j]
               PROVE  i = j
    BY DEF IsInjective
  <2>1. \A m \in 1..Len(list) : both[m] \in ToSet(list) BY <1>4 DEF ToSet
  <2>2. ASSUME NEW m \in (Len(list) + 1)..(Len(list) + N)
        PROVE  both[m] \in on /\ m - Len(list) \in 1..N
    BY <1>2, <1>4, <2>2
  <2>3. CASE i \in 1..Len(list) /\ j \in 1..Len(list)
    BY <1>4, <1>6, <2>3 DEF IsInjective
  <2>4. CASE i \notin 1..Len(list) /\ j \notin 1..Len(list)
    <3>1. /\ i \in (Len(list) + 1)..(Len(list) + N) /\ j \in (Len(list) + 1)..(Len(list) + N)
      BY <1>2, <1>4, <2>4
    <3>2. i - Len(list) = j - Len(list) BY <1>2, <1>4, <2>2, <3>1
    <3> QED BY <1>4, <3>1, <3>2
  <2>5. CASE i \in 1..Len(list) /\ j \notin 1..Len(list)
    <3>1. j \in (Len(list) + 1)..(Len(list) + N) BY <1>2, <1>4, <2>5
    <3> QED BY <1>6, <2>1, <2>2, <2>5, <3>1
  <2>6. CASE i \notin 1..Len(list) /\ j \in 1..Len(list)
    <3>1. i \in (Len(list) + 1)..(Len(list) + N) BY <1>2, <1>4, <2>6
    <3> QED BY <1>6, <2>1, <2>2, <2>6, <3>1
  <2> QED BY <2>3, <2>4, <2>5, <2>6
<1>7. /\ left \in Seq(Sources)
      /\ ToSet(left) \subseteq ToSet(both)
      /\ ToSet(both) \ off \subseteq ToSet(left)
      /\ IsInjective(both) => IsInjective(left) /\ ToSet(left) \intersect off = {}
  BY <1>4, WithoutErases
<1> HIDE DEF left
<1>8. QED
  BY <1>5, <1>6, <1>7 DEF left, both, new

-------------------------------------------------------------------------------
(* Search: the loop of ClaimInterrupt                                      *)

None == [id |-> 0, priority |-> 0, count |-> 0]

\* The recursive definition has a solution: best[n] is what the loop has found after
\* n entries.
LEMMA SearchSteps ==
  ASSUME NEW list \in Seq(Sources)
  PROVE  LET best == Search(list)
         IN /\ best[0] = None
            /\ \A n \in 1..Len(list) : best[n] = BetterOf(best[n - 1], list[n])
<1> DEFINE N == Len(list)
           Solves(f, k) == f = [n \in 0..k |-> IF n = 0 THEN None
                                               ELSE BetterOf(f[n - 1], list[n])]
           Open == {k \in Nat : ~\E f : Solves(f, k)}
<1>1. N \in Nat OBVIOUS
<1>2. Open = {}
  <2>1. ASSUME NEW k \in Open, \A j \in Open : k <= j PROVE FALSE
    <3>1. k \in Nat BY <2>1
    <3>2. CASE k = 0
      <4>1. Solves([n \in 0..0 |-> None], 0) OBVIOUS
      <4> QED BY <2>1, <3>2, <4>1
    <3>3. CASE k # 0
      <4>1. k - 1 \in Nat /\ k - 1 \notin Open BY <2>1, <3>1, <3>3
      <4>2. PICK f : Solves(f, k - 1) BY <4>1
      <4> DEFINE g == [n \in 0..k |-> IF n = k THEN BetterOf(f[k - 1], list[k])
                                      ELSE f[n]]
      <4>3. \A n \in 0..(k - 1) : g[n] = f[n] BY <3>1
      <4>4. g[0] = None BY <3>1, <3>3, <4>2
      <4>5. ASSUME NEW n \in 1..k PROVE g[n] = BetterOf(g[n - 1], list[n])
        <5>1. n - 1 \in 0..(k - 1) BY <3>1
        <5>2. g[n - 1] = f[n - 1] BY <4>3, <5>1
        <5>3. CASE n = k BY <3>1, <5>2, <5>3
        <5>4. CASE n # k
          <6>1. n \in 0..(k - 1) /\ n # 0 BY <3>1, <5>4
          <6>2. f[n] = BetterOf(f[n - 1], list[n]) BY <4>2, <6>1
          <6> QED BY <4>3, <5>2, <6>1, <6>2
        <5> QED BY <5>3, <5>4
      <4>6. Solves(g, k)
        <5>1. g = [n \in 0..k |-> g[n]] OBVIOUS
        <5> HIDE DEF g
        <5>2. \A n \in 0..k : n = 0 \/ n \in 1..k BY <3>1
        <5> QED BY <4>4, <4>5, <5>1, <5>2
      <4> QED BY <2>1, <4>6
    <3> QED BY <3>2, <3>3
  <2> HIDE DEF Solves
  <2> QED BY <2>1, LeastNumber
<1>3. \E f : Solves(f, N) BY <1>1, <1>2
<1>4. Search(list) = CHOOSE f : Solves(f, N)
  BY DEF Search, None
<1>5. Solves(Search(list), N)
  <2> HIDE DEF Solves
  <2> QED BY <1>3, <1>4
<1> HIDE DEF N
<1>6. 0 \in 0..N /\ \A n \in 1..N : n \in 0..N /\ n # 0
  BY <1>1
<1> QED BY <1>5, <1>6 DEF N

\* What has been found after n entries: the pending source with the highest priority
\* among them, the lowest id of several.
Found(list, best, n) ==
  /\ best.id \in Sources \union {0} /\ best.priority \in Nat
  /\ best.id = 0 => best.priority = 0
  /\ best.id # 0 => /\ best.id \in pending /\ best.priority = priority[best.id]
                    /\ best.priority > 0
                    /\ \E j \in 1..n : list[j] = best.id
  /\ \A j \in 1..n : list[j] \in pending =>
       \/ best.priority > priority[list[j]]
       \/ best.priority = priority[list[j]] /\ best.id <= list[j]

LEMMA SearchFinds ==
  ASSUME NEW list \in Seq(Sources), priority \in [Sources -> Nat]
  PROVE  Found(list, Search(list)[Len(list)], Len(list))
<1> DEFINE N == Len(list)
           best == Search(list)
           Wrong == {n \in 0..N : ~Found(list, best[n], n)}
<1>1. N \in Nat /\ \A n \in 1..N : list[n] \in Sources
  OBVIOUS
<1>2. /\ best[0] = None
      /\ \A n \in 1..N : best[n] = BetterOf(best[n - 1], list[n])
  BY SearchSteps
<1> HIDE DEF N, best
<1>3. ASSUME NEW n \in Wrong, \A j \in Wrong : n <= j PROVE FALSE
  <2>1. n \in 0..N /\ ~Found(list, best[n], n) BY <1>3
  <2>2. n # 0
    <3>1. Found(list, None, 0) BY DEF Found, None
    <3> QED BY <1>2, <2>1, <3>1
  <2>3. n - 1 \in 0..N /\ n \in 1..N BY <1>1, <2>1, <2>2
  <2>4. Found(list, best[n - 1], n - 1) BY <1>3, <2>3
  <2> DEFINE old == best[n - 1]
             new == best[n]
             s == list[n]
  <2>5. s \in Sources /\ s \in Nat /\ s # 0 /\ priority[s] \in Nat
    BY <1>1, <2>3, SourcesAssumption
  <2>6. new = BetterOf(old, s) BY <1>2, <2>3
  <2>7. \A j \in 1..n : j = n \/ j \in 1..(n - 1) BY <1>1, <2>3
  <2>8. \A j \in 1..(n - 1) : j \in 1..n /\ list[j] \in Sources /\ list[j] \in Nat
                              /\ priority[list[j]] \in Nat
    <3>1. \A j \in 1..(n - 1) : j \in 1..n /\ j \in 1..N BY <1>1, <2>3
    <3>2. \A t \in Sources : t \in Nat /\ priority[t] \in Nat BY SourcesAssumption
    <3> QED BY <1>1, <3>1, <3>2
  <2>9. n \in 1..n BY <2>3
  <2> HIDE DEF old, new, s
  <2>10. Found(list, new, n)
    <3>0. Found(list, old, n - 1) BY <2>4 DEF old
    <3>3. s = list[n] BY DEF s
    <3>1. CASE s \notin pending \/ old.priority > priority[s]
               \/ (old.priority = priority[s] /\ old.id < s)
      <4>1. new = old BY <2>6, <3>1 DEF BetterOf
      <4> QED
        BY <2>5, <2>7, <2>8, <3>0, <3>1, <3>3, <4>1, SourcesAssumption DEF Found
    <3>2. CASE ~(s \notin pending \/ old.priority > priority[s]
                 \/ (old.priority = priority[s] /\ old.id < s))
      <4>1. new.id = s /\ new.priority = priority[s]
        BY <2>6, <3>2 DEF BetterOf
      <4>2. old.id \in Nat /\ old.priority \in Nat BY <3>0, SourcesAssumption DEF Found
      <4>3. priority[s] > old.priority \/ (priority[s] = old.priority /\ s <= old.id)
        BY <2>5, <3>2, <4>2
      <4>4. priority[s] > 0
        BY <2>5, <3>0, <4>2, <4>3 DEF Found
      <4>5. ASSUME NEW j \in 1..n, list[j] \in pending
            PROVE  \/ new.priority > priority[list[j]]
                   \/ new.priority = priority[list[j]] /\ new.id <= list[j]
        <5>1. CASE j = n BY <2>5, <3>3, <4>1, <5>1
        <5>2. CASE j \in 1..(n - 1)
          <6>1. \/ old.priority > priority[list[j]]
                \/ old.priority = priority[list[j]] /\ old.id <= list[j]
            BY <3>0, <4>5, <5>2 DEF Found
          <6>2. list[j] \in Nat /\ priority[list[j]] \in Nat BY <2>8, <5>2
          <6> QED BY <2>5, <4>1, <4>2, <4>3, <6>1, <6>2
        <5> QED BY <2>7, <5>1, <5>2
      <4> QED
        BY <2>5, <2>9, <3>2, <3>3, <4>1, <4>4, <4>5 DEF Found
    <3> QED BY <3>1, <3>2
  <2> QED BY <2>1, <2>10 DEF new
<1>4. Wrong = {}
  <2>1. Wrong \subseteq Nat BY <1>1
  <2> HIDE DEF Wrong
  <2> QED BY <1>3, <2>1, LeastNumber
<1>5. N \in 0..N BY <1>1
<1> QED BY <1>4, <1>5 DEF N, best

-------------------------------------------------------------------------------
(* The invariants                                                          *)

\* What makes CompleteInterrupt complete the right source: the register still holds
\* what the handler is serving. Claiming again before completing breaks it.
ServedIsRecorded ==
  /\ served = [c \in Contexts |-> served[c]]
  /\ claim_complete = [c \in Contexts |-> claim_complete[c]]
  /\ \A c \in Contexts : \A id \in served[c] : id = claim_complete[c] /\ id # 0

\* The steps that touch neither the gateways' ready bits nor the claims, and take
\* no pending bit away.
LEMMA QuietStep ==
  ASSUME GatewayAccountedFor, ServedIsRecorded,
         UNCHANGED <<ready, claims>>, pending \subseteq pending'
  PROVE  GatewayAccountedFor' /\ ServedIsRecorded'
BY DEF GatewayAccountedFor, UnderWay, ServedIsRecorded, claims

\* SetPlicPendingInterrupt takes no pending bit away, and sets the source's own unless
\* its priority is 0.
LEMMA PendingIsSet ==
  ASSUME NEW s, SetPlicPendingInterrupt(s)
  PROVE  /\ pending \subseteq pending'
         /\ priority'[s] # 0 => s \in pending'
BY DEF SetPlicPendingInterrupt

LEMMA ClaimKeepsAccount ==
  ASSUME ~Nesting, GatewayAccountedFor, ServedIsRecorded,
         NEW c \in Contexts, ClaimInterrupt(c)
  PROVE  GatewayAccountedFor' /\ ServedIsRecorded'
<1> DEFINE id == Best(c).id
<1>1. ready' = ready /\ served[c] = {} /\ dropped' = dropped
  BY DEF ClaimInterrupt, gateways, claims
<1>2. CASE id = 0
  <2>1. UNCHANGED <<pending, claims>> BY <1>2 DEF ClaimInterrupt
  <2>2. QED BY <1>1, <2>1, QuietStep
<1>3. CASE id # 0
  <2>1. /\ pending' = pending \ {id}
        /\ claim_complete' = [claim_complete EXCEPT ![c] = id]
        /\ served' = [served EXCEPT ![c] = @ \union {id}]
    BY <1>3 DEF ClaimInterrupt
  <2> HIDE DEF id
  <2>2. served' = [d \in Contexts |-> IF d = c THEN {id} ELSE served[d]]
    BY <1>1, <2>1 DEF ServedIsRecorded
  <2>3. claim_complete' = [d \in Contexts |-> IF d = c THEN id ELSE claim_complete[d]]
    BY <2>1 DEF ServedIsRecorded
  <2>4. ServedIsRecorded'
    BY <1>3, <2>2, <2>3 DEF ServedIsRecorded
  <2>5. ASSUME NEW s \in Sources \ ready'
        PROVE  \/ s \in pending' \/ \E d \in Contexts : s \in served'[d]
               \/ s \in dropped'
    <3>1. s \in pending \/ (\E d \in Contexts : s \in served[d]) \/ s \in dropped
      BY <1>1, <2>5 DEF GatewayAccountedFor, UnderWay
    <3>2. CASE s \in pending
      BY <2>1, <2>2, <3>2
    <3>3. ASSUME NEW d \in Contexts, s \in served[d] PROVE s \in served'[d]
      BY <1>1, <2>2, <3>3
    <3>4. QED BY <1>1, <3>1, <3>2, <3>3
  <2>6. QED BY <2>4, <2>5 DEF GatewayAccountedFor, UnderWay
<1>4. QED BY <1>2, <1>3

LEMMA CompleteKeepsAccount ==
  ASSUME GatewayAccountedFor, ServedIsRecorded,
         NEW c \in Contexts, NEW id, CompleteInterrupt(c, id)
  PROVE  GatewayAccountedFor' /\ ServedIsRecorded'
<1>1. /\ id \in served[c]
      /\ claim_complete' = [claim_complete EXCEPT ![c] = 0]
      /\ served' = [served EXCEPT ![c] = @ \ {id}]
      /\ dropped' = dropped \ ready'
      /\ priority' = priority
  BY DEF CompleteInterrupt, registers
<1>2. id = claim_complete[c] /\ id # 0 /\ served[c] = {id}
  BY <1>1 DEF ServedIsRecorded
<1>3. served' = [d \in Contexts |-> IF d = c THEN {} ELSE served[d]]
  BY <1>1, <1>2 DEF ServedIsRecorded
<1>4. claim_complete' = [d \in Contexts |-> IF d = c THEN 0 ELSE claim_complete[d]]
  BY <1>1 DEF ServedIsRecorded
<1>5. ServedIsRecorded'
  BY <1>3, <1>4 DEF ServedIsRecorded
<1>6. pending \subseteq pending' /\ ready \subseteq ready' /\ id \in ready' \union pending'
  <2>1. CASE id \in asserted /\ priority[id] > 0
    <3>1. SetPlicPendingInterrupt(id) /\ UNCHANGED ready
      BY <1>2, <2>1 DEF CompleteInterrupt
    <3>2. priority'[id] # 0 BY <1>1, <2>1
    <3>3. QED BY <3>1, <3>2, PendingIsSet
  <2>2. CASE ~(id \in asserted /\ priority[id] > 0)
    <3>1. ready' = ready \union ({id} \ {0}) /\ UNCHANGED pending
      BY <1>2, <2>2 DEF CompleteInterrupt
    <3>2. QED BY <1>2, <3>1
  <2>3. QED BY <2>1, <2>2
<1>7. ASSUME NEW s \in Sources \ ready'
      PROVE  \/ s \in pending' \/ \E d \in Contexts : s \in served'[d]
             \/ s \in dropped'
  <2>1. s \in pending \/ (\E d \in Contexts : s \in served[d]) \/ s \in dropped
    BY <1>6, <1>7 DEF GatewayAccountedFor, UnderWay
  <2>2. CASE s = id BY <1>6, <1>7, <2>2
  <2>3. ASSUME s # id, NEW d \in Contexts, s \in served[d] PROVE s \in served'[d]
    BY <1>2, <1>3, <2>3
  <2>4. QED BY <1>1, <1>6, <1>7, <2>1, <2>2, <2>3
<1>8. QED BY <1>5, <1>7 DEF GatewayAccountedFor, UnderWay

\* An ignored completion leaves the gateway as it is; dropped remembers it if it is closed.
LEMMA IgnoreKeepsAccount ==
  ASSUME GatewayAccountedFor, ServedIsRecorded,
         NEW c \in Contexts, NEW id, IgnoreCompletion(c, id)
  PROVE  GatewayAccountedFor' /\ ServedIsRecorded'
<1>1. /\ UNCHANGED <<pending, ready, claim_complete>>
      /\ served' = [served EXCEPT ![c] = @ \ {id}]
      /\ dropped' = (dropped \union {id}) \ ready
  BY DEF IgnoreCompletion, gateways
<1>2. served' = [d \in Contexts |-> IF d = c THEN served[c] \ {id} ELSE served[d]]
  BY <1>1 DEF ServedIsRecorded
<1>3. ServedIsRecorded'
  BY <1>1, <1>2 DEF ServedIsRecorded
<1>4. ASSUME NEW s \in Sources \ ready'
      PROVE  \/ s \in pending' \/ \E d \in Contexts : s \in served'[d]
             \/ s \in dropped'
  <2>1. s \in pending \/ (\E d \in Contexts : s \in served[d]) \/ s \in dropped
    BY <1>1, <1>4 DEF GatewayAccountedFor, UnderWay
  <2>2. CASE s = id BY <1>1, <1>4, <2>2
  <2>3. ASSUME s # id, NEW d \in Contexts, s \in served[d] PROVE s \in served'[d]
    BY <1>2, <2>3
  <2>4. QED BY <1>1, <1>4, <2>1, <2>2, <2>3
<1>5. QED BY <1>3, <1>4 DEF GatewayAccountedFor, UnderWay

LEMMA AccountsAreKept ==
  ASSUME ~Nesting
  PROVE  Spec => [](GatewayAccountedFor /\ ServedIsRecorded)
<1> DEFINE IInv == GatewayAccountedFor /\ ServedIsRecorded
<1>1. Init => IInv
  BY DEF Init, GatewayAccountedFor, ServedIsRecorded
<1>2. IInv /\ [Next]_vars => IInv'
  <2> SUFFICES ASSUME GatewayAccountedFor, ServedIsRecorded, [Next]_vars
               PROVE  IInv'
    OBVIOUS
  <2>1. ASSUME NEW s \in Sources, NEW value, Withhold(s, value) PROVE IInv'
    BY <2>1, QuietStep DEF Withhold
  <2>2. ASSUME NEW s \in Sources, Forward(s) PROVE IInv'
    <3>1. /\ ready' = ready \ {s} /\ UNCHANGED claims
          /\ priority'[s] # 0 /\ SetPlicPendingInterrupt(s)
      BY <2>2 DEF Forward, registers
    <3>2. pending \subseteq pending' /\ s \in pending' BY <3>1, PendingIsSet
    <3>3. QED BY <3>1, <3>2 DEF GatewayAccountedFor, UnderWay, ServedIsRecorded, claims
  <2>3. ASSUME NEW s \in Sources, NEW value, WritePriority(s, value) PROVE IInv'
    <3>1. SetPlicPendingInterrupt(s) \/ UNCHANGED pending
      BY <2>3 DEF WritePriority
    <3>2. pending \subseteq pending' BY <3>1, PendingIsSet
    <3>3. UNCHANGED <<ready, claims>> BY <2>3 DEF WritePriority, gateways
    <3>4. QED BY <3>2, <3>3, QuietStep
  <2>4. ASSUME NEW value, WritePending(value) PROVE IInv'
    BY <2>4, QuietStep DEF WritePending, gateways
  <2>5. ASSUME NEW c \in Contexts, NEW value,
               WriteEnable(c, value) \/ WriteThreshold(c, value)
        PROVE  IInv'
    BY <2>5, QuietStep DEF WriteEnable, WriteThreshold, gateways
  <2>6. ASSUME NEW c \in Contexts, ClaimInterrupt(c) PROVE IInv'
    BY <2>6, ClaimKeepsAccount
  <2>7. ASSUME NEW c \in Contexts, NEW id, CompleteInterrupt(c, id) PROVE IInv'
    BY <2>7, CompleteKeepsAccount
  <2>8. ASSUME NEW c \in Contexts, NEW id, IgnoreCompletion(c, id) PROVE IInv'
    BY <2>8, IgnoreKeepsAccount
  <2>9. CASE UNCHANGED vars
    BY <2>9, QuietStep DEF vars, gateways
  <2>10. QED
    BY <2>1, <2>2, <2>3, <2>4, <2>5, <2>6, <2>7, <2>8, <2>9 DEF Next
<1>3. QED
  BY <1>1, <1>2, PTL DEF Spec

\* SetInterrupt closes a gateway only with the source pending, and CompleteInterrupt
\* opens it or makes the source pending again (riscv_plic.cc:165, 554) unless it ignores
\* the completion (547): a source whose gateway is closed is pending, being served, or
\* one that was disabled while its handler ran.
THEOREM NoSourceIsLost ==
  ASSUME ~Nesting
  PROVE  Spec => []GatewayAccountedFor
<1>1. GatewayAccountedFor /\ ServedIsRecorded => GatewayAccountedFor
  OBVIOUS
<1> QED
  BY <1>1, AccountsAreKept, PTL

-------------------------------------------------------------------------------
(* Types                                                                   *)

LEMMA PendingHasType ==
  ASSUME TypeOK, NEW s \in Sources, SetPlicPendingInterrupt(s)
  PROVE  pending' \subseteq Sources /\ irq' \in [Contexts -> BOOLEAN]
BY DEF TypeOK, SetPlicPendingInterrupt, RaiseIrq

\* A claim finds nothing, or a pending source.
LEMMA BestIsPending ==
  ASSUME TypeOK, NEW c \in Contexts
  PROVE  /\ listed[c] \in Seq(Sources)
         /\ Found(listed[c], Best(c), Len(listed[c]))
         /\ Best(c).id \in Sources \union {0}
         /\ Best(c).id # 0 => Best(c).id \in pending
<1>1. listed[c] \in Seq(Sources) /\ priority \in [Sources -> Nat]
  BY ConfigurationAssumption DEF TypeOK
<1>2. Found(listed[c], Best(c), Len(listed[c]))
  BY <1>1, SearchFinds DEF Best
<1> QED BY <1>1, <1>2 DEF Found

LEMMA TypeKept ==
  ASSUME TypeOK, [Next]_vars
  PROVE  TypeOK'
<1>1. ASSUME NEW s \in Sources, NEW value \in BOOLEAN, Withhold(s, value) PROVE TypeOK'
  BY <1>1 DEF Withhold, TypeOK, registers, claims
<1>2. ASSUME NEW s \in Sources, Forward(s) PROVE TypeOK'
  <2>1. SetPlicPendingInterrupt(s) BY <1>2 DEF Forward
  <2>2. pending' \subseteq Sources /\ irq' \in [Contexts -> BOOLEAN]
    BY <2>1, PendingHasType
  <2> QED BY <1>2, <2>2 DEF Forward, TypeOK, registers, claims
<1>3. ASSUME NEW s \in Sources, NEW value \in Priorities, WritePriority(s, value)
      PROVE  TypeOK'
  <2>1. SetPlicPendingInterrupt(s) \/ UNCHANGED <<pending, irq>>
    BY <1>3 DEF WritePriority
  <2>2. pending' \subseteq Sources /\ irq' \in [Contexts -> BOOLEAN]
    BY <2>1, PendingHasType DEF TypeOK
  <2> QED BY <1>3, <2>2 DEF WritePriority, TypeOK, gateways, claims
<1>4. ASSUME NEW set \in SUBSET SoftwarePending, WritePending(pending \union set)
      PROVE  TypeOK'
  <2>1. pending' \subseteq Sources /\ irq' \in [Contexts -> BOOLEAN]
    BY <1>4, SourcesAssumption DEF WritePending, RaiseIrq, TypeOK
  <2> QED BY <1>4, <2>1 DEF WritePending, TypeOK, registers, gateways, claims
<1>5. ASSUME NEW c \in Contexts, NEW value \in EnableWrites[c], WriteEnable(c, value)
      PROVE  TypeOK'
  <2>1. value \in SUBSET Sources BY ConfigurationAssumption
  <2>2. enabled' \in [Contexts -> SUBSET Sources]
    BY <1>5, <2>1 DEF WriteEnable, TypeOK
  <2>3. listed[c] \in Seq(Sources) /\ value \ enabled[c] \in SUBSET Sources
    BY <2>1 DEF TypeOK
  <2>4. Without(listed[c] \o Ranked(value \ enabled[c]), enabled[c] \ value)
          \in Seq(Sources)
    BY <2>3, ListRewritten
  <2>5. listed' \in [Contexts -> Seq(Sources)]
    BY <1>5, <2>4 DEF WriteEnable, TypeOK
  <2>6. irq' \in [Contexts -> BOOLEAN]
    BY <1>5 DEF WriteEnable, RaiseIrq
  <2> QED BY <1>5, <2>2, <2>5, <2>6 DEF WriteEnable, TypeOK, gateways, claims
<1>6. ASSUME NEW c \in Contexts, NEW value \in Thresholds, WriteThreshold(c, value)
      PROVE  TypeOK'
  <2>1. irq' \in [Contexts -> BOOLEAN]
    BY <1>6 DEF WriteThreshold, RaiseIrq
  <2> QED BY <1>6, <2>1 DEF WriteThreshold, TypeOK, gateways, claims
<1>7. ASSUME NEW c \in Contexts, ClaimInterrupt(c) PROVE TypeOK'
  <2> DEFINE id == Best(c).id
             count == Best(c).count
  <2>1. id \in Sources \union {0} BY BestIsPending
  <2>2. \/ /\ id # 0
           /\ pending' = pending \ {id}
           /\ claim_complete' = [claim_complete EXCEPT ![c] = id]
           /\ served' = [served EXCEPT ![c] = @ \union {id}]
           /\ irq' = [irq EXCEPT ![c] = @ /\ count # 1]
        \/ /\ UNCHANGED <<pending, claims>>
           /\ irq' = [irq EXCEPT ![c] = @ /\ count # 0]
    BY <1>7 DEF ClaimInterrupt
  <2>3. UNCHANGED <<registers, gateways, dropped>> BY <1>7 DEF ClaimInterrupt, claims
  <2> HIDE DEF id, count
  <2>4. irq' \in [Contexts -> BOOLEAN] BY <2>2 DEF TypeOK
  <2>5. /\ pending' \subseteq Sources
        /\ claim_complete' \in [Contexts -> Sources \union {0}]
        /\ served' \in [Contexts -> SUBSET Sources]
    <3>1. CASE UNCHANGED <<pending, claims>> BY <3>1 DEF TypeOK, claims
    <3>2. CASE ~UNCHANGED <<pending, claims>>
      <4>1. /\ id \in Sources
            /\ pending' = pending \ {id}
            /\ claim_complete' = [claim_complete EXCEPT ![c] = id]
            /\ served' = [served EXCEPT ![c] = @ \union {id}]
        BY <2>1, <2>2, <3>2
      <4> QED BY <4>1 DEF TypeOK
    <3> QED BY <3>1, <3>2
  <2> QED BY <2>3, <2>4, <2>5 DEF TypeOK, registers, gateways
<1>8. ASSUME NEW c \in Contexts, NEW id \in Sources, CompleteInterrupt(c, id)
      PROVE  TypeOK'
  <2> DEFINE source == claim_complete[c]
  <2>1. source \in Sources \union {0} /\ asserted \subseteq Sources
    BY SourcesAssumption DEF TypeOK
  <2>2. pending' \subseteq Sources /\ irq' \in [Contexts -> BOOLEAN]
        /\ ready' \subseteq Sources
    <3>1. CASE source \in asserted /\ priority[source] > 0
      <4>1. SetPlicPendingInterrupt(source) /\ UNCHANGED ready
        BY <1>8, <3>1 DEF CompleteInterrupt
      <4> QED BY <2>1, <3>1, <4>1, PendingHasType DEF TypeOK
    <3>2. CASE ~(source \in asserted /\ priority[source] > 0)
      <4>1. ready' = ready \union ({source} \ {0}) /\ UNCHANGED <<pending, irq>>
        BY <1>8, <3>2 DEF CompleteInterrupt
      <4> QED BY <2>1, <4>1 DEF TypeOK
    <3> QED BY <3>1, <3>2
  <2> QED BY <1>8, <2>2 DEF CompleteInterrupt, TypeOK, registers
<1>9. ASSUME NEW c \in Contexts, NEW id \in Sources, IgnoreCompletion(c, id)
      PROVE  TypeOK'
  BY <1>9 DEF IgnoreCompletion, TypeOK, registers, gateways
<1>10. CASE UNCHANGED vars
  BY <1>10 DEF vars, registers, gateways, claims, TypeOK
<1> QED
  BY <1>1, <1>2, <1>3, <1>4, <1>5, <1>6, <1>7, <1>8, <1>9, <1>10 DEF Next

\* Every register, list and line of the controller keeps its type; a claim is 0 or a
\* source, and the lists that ClaimInterrupt walks hold sources only.
THEOREM TypeCorrect == Spec => []TypeOK
<1>1. Init => TypeOK
  BY SourcesAssumption, ConfigurationAssumption DEF Init, TypeOK
<1>2. TypeOK /\ [Next]_vars => TypeOK'
  BY TypeKept
<1> QED BY <1>1, <1>2, PTL DEF Spec

-------------------------------------------------------------------------------
(* The lines                                                               *)

\* What DeliverableRaisesIrq needs of the lists: SetPlicPendingInterrupt and the write
\* of a threshold look for the sources there.
EnabledAreListed == \A c \in Contexts : enabled[c] \subseteq ToSet(listed[c])

LEMMA EnabledStayListed ==
  ASSUME TypeOK, EnabledAreListed, [Next]_vars
  PROVE  EnabledAreListed'
<1>1. CASE UNCHANGED <<enabled, listed>>
  BY <1>1 DEF EnabledAreListed
<1>2. ASSUME NEW c \in Contexts, NEW value \in EnableWrites[c], WriteEnable(c, value)
      PROVE  EnabledAreListed'
  <2> DEFINE on == value \ enabled[c]
             off == enabled[c] \ value
             left == Without(listed[c] \o Ranked(on), off)
  <2>1. listed[c] \in Seq(Sources) /\ on \in SUBSET Sources
    BY ConfigurationAssumption DEF TypeOK
  <2>2. (ToSet(listed[c]) \union on) \ off \subseteq ToSet(left)
    BY <2>1, ListRewritten
  <2>3. value \subseteq ToSet(left)
    BY <2>2 DEF EnabledAreListed
  <2>4. /\ enabled' = [enabled EXCEPT ![c] = value]
        /\ listed' = [listed EXCEPT ![c] = left]
    BY <1>2 DEF WriteEnable
  <2> HIDE DEF left
  <2> QED BY <2>3, <2>4 DEF EnabledAreListed, TypeOK
<1>3. UNCHANGED <<enabled, listed>> \/
      \E c \in Contexts : \E value \in EnableWrites[c] : WriteEnable(c, value)
  BY DEF Next, Withhold, Forward, WritePriority, WritePending, WriteThreshold,
         ClaimInterrupt, CompleteInterrupt, IgnoreCompletion, registers, vars
<1> QED BY <1>1, <1>2, <1>3

\* SetPlicPendingInterrupt raises the lines of the contexts to which it makes a source
\* deliverable.
LEMMA NewRequestRaises ==
  ASSUME TypeOK, EnabledAreListed, NEW s, SetPlicPendingInterrupt(s),
         UNCHANGED <<enabled, threshold>>, priority' = priority,
         NEW c \in Contexts, Deliverable(c)', ~irq'[c]
  PROVE  Deliverable(c)
<1>1. PICK t \in pending' \intersect enabled[c] : priority[t] > threshold[c]
  BY DEF Deliverable
<1>2. CASE t \in pending
  BY <1>1, <1>2 DEF Deliverable
<1>3. CASE t \notin pending
  <2>1. t = s /\ irq' = [d \in Contexts |-> irq[d] \/ (Lists(d, s) /\ priority'[s] > threshold[d])]
    BY <1>1, <1>3 DEF SetPlicPendingInterrupt, RaiseIrq
  <2>2. Lists(c, s) BY <1>1, <2>1 DEF EnabledAreListed, Lists
  <2> QED BY <1>1, <2>1, <2>2
<1> QED BY <1>2, <1>3

LEMMA StepRaises ==
  ASSUME TypeOK, EnabledAreListed, [Next]_vars, priority' = priority,
         NEW c \in Contexts, Deliverable(c)', ~irq'[c]
  PROVE  Deliverable(c)
<1>1. PICK t \in pending' \intersect enabled'[c] : priority[t] > threshold'[c]
  BY DEF Deliverable
<1>2. CASE pending' \subseteq pending /\ UNCHANGED <<enabled, threshold>>
  BY <1>1, <1>2 DEF Deliverable
<1>3. ASSUME NEW s \in Sources, NEW value \in BOOLEAN, Withhold(s, value)
      PROVE  Deliverable(c)
  BY <1>2, <1>3 DEF Withhold, registers
<1>4. ASSUME NEW s \in Sources, Forward(s) PROVE Deliverable(c)
  BY <1>4, NewRequestRaises DEF Forward, registers
<1>5. ASSUME NEW s \in Sources, NEW value \in Priorities, WritePriority(s, value)
      PROVE  Deliverable(c)
  BY <1>2, <1>5, NewRequestRaises DEF WritePriority
<1>6. ASSUME NEW value, WritePending(value) PROVE Deliverable(c)
  <2>1. /\ irq' = [d \in Contexts |-> irq[d] \/ \E s \in value \ pending :
                                         Lists(d, s) /\ priority[s] > threshold[d]]
        /\ pending' = value /\ UNCHANGED <<enabled, threshold>>
    BY <1>6 DEF WritePending, RaiseIrq, registers
  <2>2. CASE t \in pending BY <1>1, <2>1, <2>2 DEF Deliverable
  <2>3. CASE t \notin pending
    <3>1. Lists(c, t) BY <1>1, <2>1 DEF EnabledAreListed, Lists
    <3> QED BY <1>1, <2>1, <2>3, <3>1
  <2> QED BY <2>2, <2>3
<1>7. ASSUME NEW d \in Contexts, NEW value \in EnableWrites[d], WriteEnable(d, value)
      PROVE  Deliverable(c)
  <2>1. /\ enabled' = [enabled EXCEPT ![d] = value]
        /\ irq' = [e \in Contexts |-> irq[e] \/
                     (e = d /\ \E s \in value \ enabled[d] : priority[s] > threshold[d])]
        /\ UNCHANGED <<threshold, pending>>
    BY <1>7 DEF WriteEnable, RaiseIrq
  <2>2. CASE t \in enabled[c] BY <1>1, <2>1, <2>2 DEF Deliverable
  <2>3. CASE t \notin enabled[c]
    <3>1. d = c /\ t \in value \ enabled[c] BY <1>1, <2>1, <2>3 DEF TypeOK
    <3> QED BY <1>1, <2>1, <3>1
  <2> QED BY <2>2, <2>3
<1>8. ASSUME NEW d \in Contexts, NEW value \in Thresholds, WriteThreshold(d, value)
      PROVE  Deliverable(c)
  <2>1. /\ threshold' = [threshold EXCEPT ![d] = value]
        /\ irq' = [e \in Contexts |-> irq[e] \/
                     (e = d /\ value < threshold[d]
                        /\ \E s \in ToSet(listed[d]) : priority[s] > value)]
        /\ UNCHANGED <<enabled, pending>>
    BY <1>8 DEF WriteThreshold, RaiseIrq
  <2>2. CASE priority[t] > threshold[c] BY <1>1, <2>1, <2>2 DEF Deliverable
  <2>3. CASE ~(priority[t] > threshold[c])
    <3>1. d = c /\ threshold'[c] = value BY <1>1, <2>1, <2>3 DEF TypeOK
    <3>2. t \in ToSet(listed[c]) BY <1>1, <2>1 DEF EnabledAreListed
    <3>t. t \in Sources BY <1>1, <2>1 DEF TypeOK
    <3>3. priority[t] \in Nat /\ threshold[c] \in Nat /\ value \in Nat
      <4>1. priority[t] \in Nat BY <3>t, ConfigurationAssumption DEF TypeOK
      <4>2. threshold[c] \in Nat
        <5>1. threshold[c] \in Thresholds \union {0} BY DEF TypeOK
        <5>2. Thresholds \union {0} \subseteq Nat BY ConfigurationAssumption
        <5> QED BY <5>1, <5>2
      <4>3. value \in Nat BY <1>8, ConfigurationAssumption
      <4> QED BY <4>1, <4>2, <4>3
    <3>4. value < threshold[c] BY <1>1, <2>3, <3>1, <3>3
    <3>5. irq'[c] <=> irq[c] \/ (c = d /\ value < threshold[d]
                        /\ \E s \in ToSet(listed[d]) : priority[s] > value)
      BY <2>1
    <3>6. priority[t] > value BY <1>1, <3>1
    <3> QED BY <3>1, <3>2, <3>4, <3>5, <3>6
  <2> QED BY <2>2, <2>3
<1>9. ASSUME NEW d \in Contexts, ClaimInterrupt(d) PROVE Deliverable(c)
  <2>1. pending' \subseteq pending /\ UNCHANGED registers
    <3> DEFINE id == Best(d).id
    <3>1. pending' = pending \ {id} \/ pending' = pending BY <1>9 DEF ClaimInterrupt
    <3>2. UNCHANGED registers BY <1>9 DEF ClaimInterrupt
    <3> QED BY <3>1, <3>2
  <2> QED BY <1>2, <2>1 DEF registers
<1>10. ASSUME NEW d \in Contexts, NEW id \in Sources, CompleteInterrupt(d, id)
       PROVE  Deliverable(c)
  <2>1. SetPlicPendingInterrupt(claim_complete[d]) \/ UNCHANGED pending
    BY <1>10 DEF CompleteInterrupt
  <2>2. UNCHANGED registers BY <1>10 DEF CompleteInterrupt
  <2> QED BY <1>2, <2>1, <2>2, NewRequestRaises DEF registers
<1>11. CASE UNCHANGED <<registers, pending>>
  BY <1>2, <1>11 DEF registers
<1> QED
  BY <1>3, <1>4, <1>5, <1>6, <1>7, <1>8, <1>9, <1>10, <1>11
  DEF Next, IgnoreCompletion, vars

\* SetPlicPendingInterrupt, and the writes of the pending, enable and threshold
\* registers (riscv_plic.cc:185, 389, 424, 478), each look for the contexts whose line
\* must rise: none becomes deliverable with its line left low, however they alternate.
THEOREM LinesRise == Spec => DeliverableRaisesIrq
<1>1. Init => EnabledAreListed
  BY ConfigurationAssumption DEF Init, EnabledAreListed
<1>2. TypeOK /\ EnabledAreListed /\ [Next]_vars => EnabledAreListed'
  BY EnabledStayListed
<1>3. TypeOK /\ EnabledAreListed /\ [Next]_vars
        => [\A c \in Contexts : Deliverable(c)' /\ ~irq'[c]
              => Deliverable(c) \/ priority' # priority]_vars
  BY StepRaises
<1> QED
  BY <1>1, <1>2, <1>3, TypeCorrect, PTL DEF Spec, DeliverableRaisesIrq

-------------------------------------------------------------------------------
(* Claims                                                                  *)

\* riscv_plic.h:149-151: the lists hold the sources that are enabled. Erasing one entry
\* keeps that only where a source is never listed twice.
ListedAreEnabled ==
  \A c \in Contexts : IsInjective(listed[c]) /\ ToSet(listed[c]) = enabled[c]

LEMMA ListsStayExact ==
  ASSUME TypeOK, ListedAreEnabled, [Next]_vars
  PROVE  ListedAreEnabled'
<1>1. CASE UNCHANGED <<enabled, listed>>
  BY <1>1 DEF ListedAreEnabled
<1>2. ASSUME NEW c \in Contexts, NEW value \in EnableWrites[c], WriteEnable(c, value)
      PROVE  ListedAreEnabled'
  <2> DEFINE on == value \ enabled[c]
             off == enabled[c] \ value
             left == Without(listed[c] \o Ranked(on), off)
  <2>1. listed[c] \in Seq(Sources) /\ on \in SUBSET Sources
    BY ConfigurationAssumption DEF TypeOK
  <2>2. IsInjective(listed[c]) /\ on \intersect ToSet(listed[c]) = {}
    BY DEF ListedAreEnabled
  <2>3. IsInjective(left) /\ ToSet(left) = (ToSet(listed[c]) \union on) \ off
    BY <2>1, <2>2, ListRewritten
  <2>4. ToSet(left) = value
    BY <2>3 DEF ListedAreEnabled
  <2>5. /\ enabled' = [enabled EXCEPT ![c] = value]
        /\ listed' = [listed EXCEPT ![c] = left]
    BY <1>2 DEF WriteEnable
  <2> HIDE DEF left
  <2> QED BY <2>3, <2>4, <2>5 DEF ListedAreEnabled, TypeOK
<1>3. UNCHANGED <<enabled, listed>> \/
      \E c \in Contexts : \E value \in EnableWrites[c] : WriteEnable(c, value)
  BY DEF Next, Withhold, Forward, WritePriority, WritePending, WriteThreshold,
         ClaimInterrupt, CompleteInterrupt, IgnoreCompletion, registers, vars
<1> QED BY <1>1, <1>2, <1>3

\* Only ClaimInterrupt starts to serve a source, the one it found.
LEMMA ClaimTakesBest ==
  ASSUME TypeOK, [Next]_vars, NEW c \in Contexts, NEW id \in Sources, Claimed(c, id)
  PROVE  id = Best(c).id /\ id # 0
<1>1. CASE served' = served
  BY <1>1 DEF Claimed
<1>2. ASSUME NEW d \in Contexts, NEW i \in Sources,
             CompleteInterrupt(d, i) \/ IgnoreCompletion(d, i)
      PROVE  FALSE
  BY <1>2 DEF CompleteInterrupt, IgnoreCompletion, Claimed, TypeOK
<1>3. ASSUME NEW d \in Contexts, ClaimInterrupt(d), served' # served
      PROVE  id = Best(c).id /\ id # 0
  <2> DEFINE i == Best(d).id
  <2>1. served' = [served EXCEPT ![d] = @ \union {i}]
    BY <1>3 DEF ClaimInterrupt, claims
  <2>2. d = c /\ id = i
    <3> HIDE DEF i
    <3> QED BY <2>1 DEF Claimed, TypeOK
  <2> QED BY <2>2, SourcesAssumption
<1> QED
  BY <1>1, <1>2, <1>3 DEF Next, Withhold, Forward, WritePriority, WritePending,
     WriteEnable, WriteThreshold, claims, vars

\* Where Configure lists a source for a context once, and with enable 1, a claim returns
\* the highest-priority pending source that is enabled, the lowest id of several, in
\* whatever order the list holds them (riscv_plic.cc:507-522).
THEOREM ClaimsInOrder ==
  ASSUME \A c \in Contexts : /\ IsInjective(Configured[c])
                             /\ ToSet(Configured[c]) \subseteq ConfiguredOn[c]
  PROVE  Spec => ClaimsHighestPriority
<1>1. Init => ListedAreEnabled
  <2>1. \A c \in Contexts : ToSet(Configured[c]) = ConfiguredOn[c]
    BY ConfigurationAssumption
  <2> QED BY <2>1 DEF Init, ListedAreEnabled
<1>2. TypeOK /\ ListedAreEnabled /\ [Next]_vars => ListedAreEnabled'
  BY ListsStayExact
<1>3. TypeOK /\ ListedAreEnabled /\ [Next]_vars
        => [\A c \in Contexts, id \in Sources :
              Claimed(c, id) => /\ id \in pending \intersect enabled[c]
                                /\ \A s \in pending \intersect enabled[c] : Before(id, s)]_vars
  <2> SUFFICES ASSUME TypeOK, ListedAreEnabled, [Next]_vars,
                      NEW c \in Contexts, NEW id \in Sources, Claimed(c, id)
               PROVE  /\ id \in pending \intersect enabled[c]
                      /\ \A s \in pending \intersect enabled[c] : Before(id, s)
    OBVIOUS
  <2> DEFINE list == listed[c]
  <2>1. id = Best(c).id /\ id # 0 BY ClaimTakesBest
  <2>2. Found(list, Best(c), Len(list)) /\ list \in Seq(Sources) BY BestIsPending
  <2>3. DOMAIN list = 1..Len(list) BY <2>2
  <2>4. ToSet(list) = enabled[c] BY DEF ListedAreEnabled
  <2>5. id \in pending /\ Best(c).priority = priority[id]
        /\ \E j \in 1..Len(list) : list[j] = id
    BY <2>1, <2>2 DEF Found
  <2>6. id \in enabled[c]
    BY <2>3, <2>4, <2>5 DEF ToSet
  <2>7. ASSUME NEW s \in pending \intersect enabled[c] PROVE Before(id, s)
    <3>1. PICK j \in 1..Len(list) : list[j] = s
      BY <2>3, <2>4, <2>7 DEF ToSet
    <3> QED BY <2>1, <2>2, <2>5, <2>7, <3>1 DEF Found, Before
  <2> QED BY <2>5, <2>6, <2>7
<1> QED
  BY <1>1, <1>2, <1>3, TypeCorrect, PTL DEF Spec, ClaimsHighestPriority

-------------------------------------------------------------------------------
(* Completions                                                             *)

\* With the lists exact, a handler that was told of a source can complete it as long as
\* the source stays enabled.
ServedStayEnabled ==
  dropped = {} /\ \A c \in Contexts : served[c] \subseteq enabled[c]

LEMMA ServedKept ==
  ASSUME ~DisablesServed, TypeOK, ListedAreEnabled, ServedStayEnabled, [Next]_vars
  PROVE  ServedStayEnabled'
<1>1. CASE UNCHANGED <<claims, enabled>>
  BY <1>1 DEF ServedStayEnabled, claims
<1>2. ASSUME NEW c \in Contexts, NEW value \in EnableWrites[c], WriteEnable(c, value)
      PROVE  ServedStayEnabled'
  <2>1. /\ served[c] \subseteq value /\ UNCHANGED <<served, dropped>>
        /\ enabled' = [enabled EXCEPT ![c] = value]
    BY <1>2 DEF WriteEnable, claims
  <2> QED BY <2>1 DEF ServedStayEnabled, TypeOK
<1>3. ASSUME NEW c \in Contexts, ClaimInterrupt(c) PROVE ServedStayEnabled'
  <2> DEFINE id == Best(c).id
             list == listed[c]
  <2>1. UNCHANGED <<enabled, dropped>>
    BY <1>3 DEF ClaimInterrupt, registers, claims
  <2>2. CASE id = 0
    BY <1>3, <2>1, <2>2 DEF ClaimInterrupt, claims, ServedStayEnabled
  <2>3. CASE id # 0
    <3>1. Found(list, Best(c), Len(list)) /\ list \in Seq(Sources) BY BestIsPending
    <3>2. DOMAIN list = 1..Len(list) BY <3>1
    <3>3. \E j \in 1..Len(list) : list[j] = id BY <2>3, <3>1 DEF Found
    <3>4. id \in enabled[c]
      BY <3>2, <3>3 DEF ToSet, ListedAreEnabled
    <3>5. served' = [served EXCEPT ![c] = @ \union {id}]
      BY <1>3, <2>3 DEF ClaimInterrupt
    <3> HIDE DEF id, list
    <3> QED BY <2>1, <3>4, <3>5 DEF ServedStayEnabled, TypeOK
  <2> QED BY <2>2, <2>3
<1>4. ASSUME NEW c \in Contexts, NEW id \in Sources, CompleteInterrupt(c, id)
      PROVE  ServedStayEnabled'
  <2>1. /\ served' = [served EXCEPT ![c] = @ \ {id}] /\ dropped' = dropped \ ready'
        /\ UNCHANGED enabled
    BY <1>4 DEF CompleteInterrupt, registers
  <2> QED BY <2>1 DEF ServedStayEnabled, TypeOK
<1>5. ASSUME NEW c \in Contexts, NEW id \in Sources, IgnoreCompletion(c, id)
      PROVE  FALSE
  BY <1>5 DEF IgnoreCompletion, Lists, ListedAreEnabled, ServedStayEnabled
<1> QED
  BY <1>1, <1>2, <1>3, <1>4, <1>5 DEF Next, Withhold, Forward, WritePriority,
     WritePending, WriteThreshold, registers, vars

\* Software that disables no source while its handler runs, and handlers that do not
\* nest, never lose a source: no completion is ignored (riscv_plic.cc:547), and a closed
\* gateway always has a request under way.
THEOREM NoSourceGoesDead ==
  ASSUME ~Nesting, ~DisablesServed,
         \A c \in Contexts : /\ IsInjective(Configured[c])
                             /\ ToSet(Configured[c]) \subseteq ConfiguredOn[c]
  PROVE  Spec => []NoSourceIsDead
<1>1. Init => ListedAreEnabled /\ ServedStayEnabled
  <2>1. \A c \in Contexts : ToSet(Configured[c]) = ConfiguredOn[c]
    BY ConfigurationAssumption
  <2> QED BY <2>1 DEF Init, ListedAreEnabled, ServedStayEnabled
<1>2. TypeOK /\ ListedAreEnabled /\ [Next]_vars => ListedAreEnabled'
  BY ListsStayExact
<1>3. TypeOK /\ ListedAreEnabled /\ ServedStayEnabled /\ [Next]_vars
        => ServedStayEnabled'
  BY ServedKept
<1>4. GatewayAccountedFor /\ ServedStayEnabled => NoSourceIsDead
  BY DEF GatewayAccountedFor, ServedStayEnabled, NoSourceIsDead
<1> QED
  BY <1>1, <1>2, <1>3, <1>4, TypeCorrect, NoSourceIsLost, PTL DEF Spec

-------------------------------------------------------------------------------
(* Edge-triggered requests                                                 *)

\* An open gateway has no request under way, a request is waiting or in service, and
\* it is in service at one context.
EdgesInOrder ==
  \A s \in Edge :
    /\ s \in ready => s \notin pending
    /\ s \in ready \union pending => \A c \in Contexts : s \notin served[c]
    /\ \A c, d \in Contexts : s \in served[c] /\ s \in served[d] => c = d

waiting == pending \intersect Edge
servers == [s \in Edge |-> {c \in Contexts : s \in served[c]}]

\* A step that leaves the edge-triggered requests as they are.
LEMMA EdgesQuiet ==
  ASSUME EdgesInOrder, UNCHANGED served, UNCHANGED (pending \intersect Edge),
         ready' \intersect Edge \subseteq ready
  PROVE  EdgesInOrder' /\ UNCHANGED <<waiting, servers>>
BY DEF EdgesInOrder, waiting, servers

LEMMA ForwardRequests ==
  ASSUME TypeOK, EdgesInOrder, NEW s \in Sources, Forward(s)
  PROVE  /\ EdgesInOrder'
         /\ \/ UNCHANGED <<waiting, servers>>
            \/ s \in Edge /\ Requests!Request(s)
<1>1. /\ s \in ready /\ priority[s] # 0 /\ priority' = priority
      /\ ready' = ready \ {s} /\ UNCHANGED served
      /\ SetPlicPendingInterrupt(s)
  BY DEF Forward, registers, claims
<1>2. pending' = pending \union {s}
  BY <1>1 DEF SetPlicPendingInterrupt
<1>3. CASE s \in Edge
  <2>1. s \notin pending /\ \A c \in Contexts : s \notin served[c]
    BY <1>1, <1>3 DEF EdgesInOrder
  <2>2. EdgesInOrder'
    BY <1>1, <1>2, <2>1 DEF EdgesInOrder
  <2>3. waiting' = waiting \union {s} /\ s \notin waiting
        /\ servers' = servers /\ servers[s] = {}
    BY <1>1, <1>2, <1>3, <2>1 DEF waiting, servers
  <2>4. Requests!Request(s)
    BY <2>3 DEF Requests!Request, waiting, servers
  <2> QED BY <1>3, <2>2, <2>4
<1>4. CASE s \notin Edge
  <2>1. UNCHANGED (pending \intersect Edge) BY <1>2, <1>4
  <2>2. ready' \intersect Edge \subseteq ready BY <1>1
  <2>3. EdgesInOrder' /\ UNCHANGED <<waiting, servers>>
    BY <1>1, <2>1, <2>2, EdgesQuiet
  <2> QED BY <2>3
<1> QED BY <1>3, <1>4

LEMMA ClaimServes ==
  ASSUME ~Nesting, TypeOK, EdgesInOrder, NEW c \in Contexts, ClaimInterrupt(c)
  PROVE  /\ EdgesInOrder'
         /\ \/ UNCHANGED <<waiting, servers>>
            \/ \E s \in Edge : Requests!Serve(s, c)
<1>1. UNCHANGED ready /\ served[c] = {}
  BY DEF ClaimInterrupt, gateways
<1>2. CASE Best(c).id = 0
  <2>1. UNCHANGED <<pending, claims>> BY <1>2 DEF ClaimInterrupt
  <2> QED BY <1>1, <2>1, EdgesQuiet DEF claims
<1>3. CASE Best(c).id # 0
  <2>1. PICK id \in Sources : id = Best(c).id /\ id \in pending
    BY <1>3, BestIsPending
  <2>2. /\ pending' = pending \ {id}
        /\ served' = [served EXCEPT ![c] = @ \union {id}]
    BY <1>3, <2>1 DEF ClaimInterrupt
  <2>3. served' = [served EXCEPT ![c] = {id}] BY <1>1, <2>2
  <2>4. \A d \in Contexts : served'[d] = IF d = c THEN {id} ELSE served[d]
    BY <2>3 DEF TypeOK
  <2>5. CASE id \in Edge
    <3>1. \A d \in Contexts : id \notin served[d]
      BY <2>1, <2>5 DEF EdgesInOrder
    <3>2. id \notin ready
      BY <2>1, <2>5 DEF EdgesInOrder
    <3>3. EdgesInOrder'
      BY <1>1, <2>2, <2>4, <3>1, <3>2 DEF EdgesInOrder
    <3>4. servers' = [servers EXCEPT ![id] = {c}]
      <4>1. \A s \in Edge : {d \in Contexts : s \in served'[d]} =
                            IF s = id THEN {c} ELSE {d \in Contexts : s \in served[d]}
        BY <1>1, <2>4, <3>1
      <4> QED BY <4>1 DEF servers
    <3>5. id \in waiting /\ waiting' = waiting \ {id}
      BY <2>1, <2>2, <2>5 DEF waiting
    <3>6. Requests!Serve(id, c)
      BY <3>4, <3>5 DEF Requests!Serve, waiting, servers
    <3> QED BY <2>5, <3>3, <3>6
  <2>6. CASE id \notin Edge
    <3>1. \A s \in Edge, d \in Contexts : s \in served'[d] <=> s \in served[d]
      BY <1>1, <2>4, <2>6
    <3>2. EdgesInOrder' BY <1>1, <2>2, <2>6, <3>1 DEF EdgesInOrder
    <3>3. UNCHANGED <<waiting, servers>> BY <2>2, <2>6, <3>1 DEF waiting, servers
    <3> QED BY <3>2, <3>3
  <2> QED BY <2>5, <2>6
<1> QED BY <1>2, <1>3

LEMMA CompleteFinishes ==
  ASSUME TypeOK, ServedIsRecorded, EdgesInOrder,
         NEW c \in Contexts, NEW id \in Sources, CompleteInterrupt(c, id)
  PROVE  /\ EdgesInOrder'
         /\ \/ UNCHANGED <<waiting, servers>>
            \/ \E s \in Edge : Requests!Finish(s, c)
<1>1. /\ id \in served[c] /\ claim_complete[c] = id /\ served[c] = {id}
      /\ served' = [served EXCEPT ![c] = @ \ {id}]
  BY DEF CompleteInterrupt, ServedIsRecorded
<1>2. \A d \in Contexts : served'[d] = IF d = c THEN {} ELSE served[d]
  BY <1>1 DEF TypeOK
<1>3. CASE id \in Edge
  <2>1. id \notin asserted
    BY <1>3 DEF TypeOK, Edge
  <2>2. ready' = ready \union ({id} \ {0}) /\ UNCHANGED pending
    BY <1>1, <2>1 DEF CompleteInterrupt
  <2>3. id \notin pending /\ \A d \in Contexts : id \in served[d] <=> d = c
    BY <1>1, <1>3 DEF EdgesInOrder
  <2>4. EdgesInOrder'
    BY <1>1, <1>2, <2>2, <2>3 DEF EdgesInOrder
  <2>5. servers[id] = {c} /\ servers' = [servers EXCEPT ![id] = {}]
    <3>1. \A s \in Edge : {d \in Contexts : s \in served'[d]} =
                          IF s = id THEN {} ELSE {d \in Contexts : s \in served[d]}
      BY <1>1, <1>2, <2>3
    <3>2. {d \in Contexts : id \in served[d]} = {c} BY <2>3
    <3> QED BY <1>3, <3>1, <3>2 DEF servers
  <2>6. Requests!Finish(id, c)
    BY <2>2, <2>5 DEF Requests!Finish, waiting, servers
  <2> QED BY <1>3, <2>4, <2>6
<1>4. CASE id \notin Edge
  <2>1. \A s \in Edge, d \in Contexts : s \in served'[d] <=> s \in served[d]
    BY <1>1, <1>2, <1>4
  <2>2. UNCHANGED (pending \intersect Edge) /\ ready' \intersect Edge \subseteq ready
    <3>1. CASE id \in asserted /\ priority[id] > 0
      <4>1. SetPlicPendingInterrupt(id) /\ UNCHANGED ready
        BY <1>1, <3>1 DEF CompleteInterrupt
      <4> QED BY <1>4, <4>1 DEF SetPlicPendingInterrupt
    <3>2. CASE ~(id \in asserted /\ priority[id] > 0)
      BY <1>1, <1>4, <3>2 DEF CompleteInterrupt
    <3> QED BY <3>1, <3>2
  <2>3. EdgesInOrder' BY <2>1, <2>2 DEF EdgesInOrder
  <2>4. UNCHANGED <<waiting, servers>> BY <2>1, <2>2 DEF waiting, servers
  <2> QED BY <2>3, <2>4
<1> QED BY <1>3, <1>4

\* A completion that is ignored ends the service all the same.
LEMMA IgnoreFinishes ==
  ASSUME TypeOK, ServedIsRecorded, EdgesInOrder,
         NEW c \in Contexts, NEW id \in Sources, IgnoreCompletion(c, id)
  PROVE  /\ EdgesInOrder'
         /\ \/ UNCHANGED <<waiting, servers>>
            \/ \E s \in Edge : Requests!Finish(s, c)
<1>1. /\ id \in served[c] /\ served[c] = {id} /\ UNCHANGED <<pending, ready>>
      /\ served' = [served EXCEPT ![c] = @ \ {id}]
  BY DEF IgnoreCompletion, ServedIsRecorded, gateways
<1>2. \A d \in Contexts : served'[d] = IF d = c THEN {} ELSE served[d]
  BY <1>1 DEF TypeOK
<1>3. EdgesInOrder'
  BY <1>1, <1>2 DEF EdgesInOrder
<1>4. CASE id \in Edge
  <2>1. \A d \in Contexts : id \in served[d] <=> d = c
    BY <1>1, <1>4 DEF EdgesInOrder
  <2>2. \A s \in Edge : {d \in Contexts : s \in served'[d]} =
                        IF s = id THEN {} ELSE {d \in Contexts : s \in served[d]}
    BY <1>1, <1>2, <2>1
  <2>3. {d \in Contexts : id \in served[d]} = {c} BY <2>1
  <2>4. servers[id] = {c} /\ servers' = [servers EXCEPT ![id] = {}]
    BY <1>4, <2>2, <2>3 DEF servers
  <2>5. Requests!Finish(id, c)
    BY <1>1, <2>4 DEF Requests!Finish, waiting, servers
  <2> QED BY <1>3, <1>4, <2>5
<1>5. CASE id \notin Edge
  <2>1. \A s \in Edge, d \in Contexts : s \in served'[d] <=> s \in served[d]
    BY <1>1, <1>2, <1>5
  <2>2. UNCHANGED <<waiting, servers>> BY <1>1, <2>1 DEF waiting, servers
  <2> QED BY <1>3, <2>2
<1> QED BY <1>4, <1>5

\* Between the gateway and the handlers, the request of an edge-triggered source is
\* accepted, served by one context, finished, and only then is there another
\* (riscv_plic.cc:160-168, 503-563). It takes handlers that complete before they claim
\* again, and software that does not write the pending bits of these sources.
THEOREM EdgesServedOnce ==
  ASSUME ~Nesting, SoftwarePending \subseteq Level
  PROVE  Spec => EdgeRequestsServedOnce
<1>1. Init => EdgesInOrder /\ Requests!Init
  BY DEF Init, EdgesInOrder, Requests!Init, waiting, servers
<1>2. TypeOK /\ ServedIsRecorded /\ EdgesInOrder /\ [Next]_vars
        => EdgesInOrder' /\ [Requests!Next]_(Requests!vars)
  <2> SUFFICES ASSUME TypeOK, ServedIsRecorded, EdgesInOrder, [Next]_vars
               PROVE  /\ EdgesInOrder'
                      /\ UNCHANGED <<waiting, servers>> \/ Requests!Next
    BY DEF Requests!vars, waiting, servers
  <2> DEFINE Goal == EdgesInOrder' /\ (UNCHANGED <<waiting, servers>> \/ Requests!Next)
  <2>1. ASSUME NEW s \in Sources, NEW value \in BOOLEAN, Withhold(s, value) PROVE Goal
    BY <2>1, EdgesQuiet DEF Withhold, claims
  <2>2. ASSUME NEW s \in Sources, Forward(s) PROVE Goal
    <3>1. /\ EdgesInOrder'
          /\ \/ UNCHANGED <<waiting, servers>>
             \/ s \in Edge /\ Requests!Request(s)
      BY <2>2, ForwardRequests
    <3> QED BY <3>1 DEF Requests!Next
  <2>3. ASSUME NEW s \in Sources, NEW value \in Priorities, WritePriority(s, value)
        PROVE  Goal
    <3>1. UNCHANGED <<ready, served>> BY <2>3 DEF WritePriority, gateways, claims
    <3>2. UNCHANGED (pending \intersect Edge)
      <4>1. CASE s \in asserted
        <5>1. s \notin Edge BY <4>1 DEF TypeOK, Edge
        <5> QED BY <2>3, <5>1 DEF WritePriority, SetPlicPendingInterrupt
      <4>2. CASE s \notin asserted BY <2>3, <4>2 DEF WritePriority
      <4> QED BY <4>1, <4>2
    <3>3. ready' \intersect Edge \subseteq ready BY <3>1
    <3> QED BY <3>1, <3>2, <3>3, EdgesQuiet
  <2>4. ASSUME NEW set \in SUBSET SoftwarePending, WritePending(pending \union set)
        PROVE  Goal
    <3>1. UNCHANGED <<ready, served>> BY <2>4 DEF WritePending, gateways, claims
    <3>2. UNCHANGED (pending \intersect Edge) BY <2>4 DEF WritePending, Edge
    <3>3. ready' \intersect Edge \subseteq ready BY <3>1
    <3> QED BY <3>1, <3>2, <3>3, EdgesQuiet
  <2>5. ASSUME NEW c \in Contexts, NEW value,
               WriteEnable(c, value) \/ WriteThreshold(c, value)
        PROVE  Goal
    <3>1. UNCHANGED <<pending, ready, served>>
      BY <2>5 DEF WriteEnable, WriteThreshold, gateways, claims
    <3>2. ready' \intersect Edge \subseteq ready /\ UNCHANGED (pending \intersect Edge)
      BY <3>1
    <3> QED BY <3>1, <3>2, EdgesQuiet
  <2>6. ASSUME NEW c \in Contexts, ClaimInterrupt(c) PROVE Goal
    <3>1. /\ EdgesInOrder'
          /\ \/ UNCHANGED <<waiting, servers>>
             \/ \E s \in Edge : Requests!Serve(s, c)
      BY <2>6, ClaimServes
    <3> QED BY <3>1 DEF Requests!Next
  <2>7. ASSUME NEW c \in Contexts, NEW id \in Sources, CompleteInterrupt(c, id) PROVE Goal
    <3>1. /\ EdgesInOrder'
          /\ \/ UNCHANGED <<waiting, servers>>
             \/ \E s \in Edge : Requests!Finish(s, c)
      BY <2>7, CompleteFinishes
    <3> QED BY <3>1 DEF Requests!Next
  <2>8. ASSUME NEW c \in Contexts, NEW id \in Sources, IgnoreCompletion(c, id) PROVE Goal
    <3>1. /\ EdgesInOrder'
          /\ \/ UNCHANGED <<waiting, servers>>
             \/ \E s \in Edge : Requests!Finish(s, c)
      BY <2>8, IgnoreFinishes
    <3> QED BY <3>1 DEF Requests!Next
  <2>9. CASE UNCHANGED vars
    <3>1. UNCHANGED <<pending, ready, served>> BY <2>9 DEF vars, gateways, claims
    <3>2. ready' \intersect Edge \subseteq ready /\ UNCHANGED (pending \intersect Edge)
      BY <3>1
    <3> QED BY <3>1, <3>2, EdgesQuiet
  <2> QED
    BY <2>1, <2>2, <2>3, <2>4, <2>5, <2>6, <2>7, <2>8, <2>9 DEF Next
<1> QED
  BY <1>1, <1>2, TypeCorrect, AccountsAreKept, PTL
  DEF Spec, EdgeRequestsServedOnce, Requests!Spec
===============================================================================
