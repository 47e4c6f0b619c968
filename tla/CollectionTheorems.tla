------------------------- MODULE CollectionTheorems -------------------------
(***************************************************************************)
(* Lemmas about finite collections that several modules need:              *)
(*   - a sum over a finite set.  MapThenSumSet folds over the subsets of a *)
(*     set by a recursive function, which has to be shown to exist before  *)
(*     its values can be used.  The weights are a function here, and the   *)
(*     sum of a set is the value any function of Sums has there;           *)
(*   - what Chosen keeps of a list: the elements at the places given, each *)
(*     once and in their order.                                            *)
(***************************************************************************)
EXTENDS Integers, Sequences, Selection, FiniteSetsExt, FiniteSetTheorems,
        NaturalsInduction, WellFoundedInduction, TLAPS

-----------------------------------------------------------------------------
(* Sums.                                                                   *)

\* The element the fold takes first.
Pick(t) == CHOOSE x \in t : TRUE
Rest(t) == t \ {Pick(t)}

\* f gives the sum of the weights w over every subset of S.
Sums(S, w, f) == f = [t \in SUBSET S |-> IF t = {} THEN 0 ELSE w[Pick(t)] + f[Rest(t)]]

\* A set of natural numbers that is not empty has a least element.
LEMMA LeastNat ==
    ASSUME NEW T, T \subseteq Nat, T # {}
    PROVE  \E n \in T : \A m \in T : n <= m
<1>1. PICK n \in T : \A m \in T : <<m, n>> \notin OpToRel(<, Nat)
  BY NatLessThanWellFounded, WFMin, Zenon
<1>2. ASSUME NEW m \in T PROVE n <= m
  <2>1. ~(m < n)
    BY <1>1 DEF OpToRel
  <2>2. QED
    BY <2>1
<1>3. QED
  BY <1>2

\* Of the subsets of a finite set that are bad there is a smallest one.
LEMMA SmallestBad ==
    ASSUME NEW S, IsFiniteSet(S), NEW bad, bad \subseteq SUBSET S, bad # {}
    PROVE  \E t \in bad : \A u \in SUBSET t : u # t => u \notin bad
<1> DEFINE sizes == {Cardinality(t) : t \in bad}
<1>1. \A t \in bad : IsFiniteSet(t) /\ Cardinality(t) \in Nat
  BY FS_Subset, FS_CardinalityType
<1>2. PICK n \in sizes : \A m \in sizes : n <= m
  <2>1. sizes \subseteq Nat /\ sizes # {}
    BY <1>1
  <2> HIDE DEF sizes
  <2>2. QED
    BY <2>1, LeastNat
<1>3. PICK t \in bad : Cardinality(t) = n
  OBVIOUS
<1>4. ASSUME NEW u \in SUBSET t, u # t, u \in bad PROVE FALSE
  <2>1. Cardinality(u) < Cardinality(t)
    BY <1>1, <1>4, FS_Subset
  <2>2. Cardinality(u) \in sizes /\ Cardinality(u) \in Nat /\ Cardinality(t) \in Nat
    BY <1>1, <1>4
  <2> HIDE DEF sizes
  <2>3. QED
    BY <1>2, <1>3, <2>1, <2>2
<1>5. QED
  BY <1>4

\* What is left after the first element is smaller.
LEMMA RestType == ASSUME NEW t, t # {} PROVE Pick(t) \in t /\ Rest(t) \in SUBSET t /\ Rest(t) # t
BY DEF Pick, Rest

\* Two functions that give the sums agree where both do.
LEMMA SumUnique ==
    ASSUME NEW w, NEW S, IsFiniteSet(S), NEW T, NEW f, NEW g, Sums(S, w, f), Sums(T, w, g),
           NEW u \in SUBSET S, u \in SUBSET T
    PROVE  f[u] = g[u]
<1> DEFINE bad == {t \in SUBSET S : t \in SUBSET T /\ f[t] # g[t]}
<1>1. SUFFICES ASSUME bad # {} PROVE FALSE
  OBVIOUS
<1>2. PICK t \in bad : \A v \in SUBSET t : v # t => v \notin bad
  <2>1. bad \subseteq SUBSET S
    OBVIOUS
  <2> HIDE DEF bad
  <2>2. QED
    BY <1>1, <2>1, SmallestBad
<1>3. /\ f[t] = IF t = {} THEN 0 ELSE w[Pick(t)] + f[Rest(t)]
      /\ g[t] = IF t = {} THEN 0 ELSE w[Pick(t)] + g[Rest(t)]
  BY DEF Sums
<1>4. t # {} /\ Rest(t) \in SUBSET t /\ Rest(t) # t
  BY <1>3, RestType
<1>5. f[Rest(t)] = g[Rest(t)]
  BY <1>2, <1>4
<1>6. QED
  BY <1>3, <1>4, <1>5

\* There is a function that gives the sums.
LEMMA SumExists ==
    ASSUME NEW w, NEW S, IsFiniteSet(S)
    PROVE  \E f : Sums(S, w, f)
<1> DEFINE bad == {t \in SUBSET S : \A f : ~Sums(t, w, f)}
<1>1. SUFFICES ASSUME bad # {} PROVE FALSE
  OBVIOUS
<1>2. PICK t \in bad : \A u \in SUBSET t : u # t => u \notin bad
  <2>1. bad \subseteq SUBSET S
    OBVIOUS
  <2> HIDE DEF bad
  <2>2. QED
    BY <1>1, <2>1, SmallestBad
<1> DEFINE G(u) == CHOOSE g : Sums(u, w, g)
           f == [u \in SUBSET t |-> IF u = {} THEN 0 ELSE w[Pick(u)] + G(Rest(u))[Rest(u)]]
<1>3. \A u \in SUBSET t : u # t => Sums(u, w, G(u)) /\ IsFiniteSet(u)
  BY <1>2, FS_Subset
<1>4. ASSUME NEW u \in SUBSET t, u # {} PROVE f[Rest(u)] = G(Rest(u))[Rest(u)]
  <2> DEFINE v == Rest(u)
             z == Rest(v)
  <2>1. v \in SUBSET t /\ v # t
    BY <1>4, RestType
  <2>2. Sums(v, w, G(v)) /\ v \in SUBSET v
    BY <1>3, <2>1
  <2>3. CASE v = {}
    <3>1. f[v] = 0
      BY <2>3
    <3> HIDE DEF f, G
    <3>2. G(v)[v] = 0
      BY <2>2, <2>3 DEF Sums
    <3>3. QED
      BY <3>1, <3>2
  <2>4. CASE v # {}
    <3>1. z \in SUBSET v /\ z \in SUBSET t /\ z # t
      BY <2>1, <2>4, RestType
    <3>2. f[v] = w[Pick(v)] + G(z)[z]
      BY <2>1, <2>4
    <3> HIDE DEF f, G
    <3>3. G(v)[v] = w[Pick(v)] + G(v)[z]
      BY <2>2, <2>4 DEF Sums
    <3>4. Sums(z, w, G(z)) /\ IsFiniteSet(z) /\ z \in SUBSET z
      BY <1>3, <3>1
    <3>5. G(z)[z] = G(v)[z]
      BY <2>2, <3>1, <3>4, SumUnique
    <3>6. QED
      BY <3>2, <3>3, <3>5
  <2>5. QED
    BY <2>3, <2>4
<1>5. f = [u \in SUBSET t |-> IF u = {} THEN 0 ELSE w[Pick(u)] + f[Rest(u)]]
  <2> DEFINE h == [u \in SUBSET t |-> IF u = {} THEN 0 ELSE w[Pick(u)] + f[Rest(u)]]
  <2>1. \A u \in SUBSET t : h[u] = IF u = {} THEN 0 ELSE w[Pick(u)] + f[Rest(u)]
    OBVIOUS
  <2>2. \A u \in SUBSET t :
           f[u] = IF u = {} THEN 0 ELSE w[Pick(u)] + G(Rest(u))[Rest(u)]
    OBVIOUS
  <2>3. \A u \in SUBSET t : f[u] = h[u]
    <3> HIDE DEF f, h, G
    <3>1. QED
      BY <1>4, <2>1, <2>2
  <2>4. f = [u \in SUBSET t |-> f[u]] /\ h = [u \in SUBSET t |-> h[u]]
    OBVIOUS
  <2> HIDE DEF f, h, G
  <2>5. f = h
    BY <2>3, <2>4
  <2>6. QED
    BY <2>5 DEF h
<1>6. Sums(t, w, f)
  <2> HIDE DEF f
  <2>1. QED
    BY <1>5 DEF Sums
<1>7. QED
  BY <1>6

\* A sum is at least as much as each of its parts.
LEMMA SumAtLeast ==
    ASSUME NEW S, IsFiniteSet(S), NEW w, \A s \in S : w[s] \in Nat, NEW f, Sums(S, w, f)
    PROVE  f[S] \in Nat /\ \A s \in S : f[S] >= w[s]
<1> DEFINE Good(t) == f[t] \in Nat /\ \A k \in t : f[t] >= w[k]
           bad == {t \in SUBSET S : ~Good(t)}
<1>1. SUFFICES ASSUME bad # {} PROVE FALSE
  OBVIOUS
<1>2. PICK t \in bad : \A u \in SUBSET t : u # t => u \notin bad
  <2>1. bad \subseteq SUBSET S
    OBVIOUS
  <2> HIDE DEF bad
  <2>2. QED
    BY <1>1, <2>1, SmallestBad
<1>3. f[t] = IF t = {} THEN 0 ELSE w[Pick(t)] + f[Rest(t)]
  BY DEF Sums
<1>4. t # {}
  BY <1>3
<1>5. Pick(t) \in t /\ Rest(t) \in SUBSET t /\ Rest(t) # t
  BY <1>4, RestType
<1>6. Good(Rest(t))
  BY <1>2, <1>5
<1>7. f[t] = w[Pick(t)] + f[Rest(t)] /\ f[t] \in Nat
  BY <1>3, <1>4, <1>5, <1>6
<1>8. ASSUME NEW k \in t PROVE f[t] >= w[k]
  <2>1. CASE k = Pick(t)
    BY <1>5, <1>6, <1>7, <2>1
  <2>2. CASE k \in Rest(t)
    BY <1>5, <1>6, <1>7, <2>2
  <2>3. QED
    BY <2>1, <2>2 DEF Rest
<1>9. QED
  BY <1>7, <1>8

\* Whatever part is taken out first, the sum is that part and the rest.
LEMMA SumTakes ==
    ASSUME NEW S, IsFiniteSet(S), NEW w, \A s \in S : w[s] \in Nat, NEW f, Sums(S, w, f),
           NEW p \in S
    PROVE  f[S] = w[p] + f[S \ {p}]
<1> DEFINE Good(t) == \A x \in t : f[t] = w[x] + f[t \ {x}]
           bad == {t \in SUBSET S : ~Good(t)}
<1>1. SUFFICES ASSUME bad # {} PROVE FALSE
  OBVIOUS
<1>2. PICK t \in bad : \A u \in SUBSET t : u # t => u \notin bad
  <2>1. bad \subseteq SUBSET S
    OBVIOUS
  <2> HIDE DEF bad
  <2>2. QED
    BY <1>1, <2>1, SmallestBad
<1>3. PICK x \in t : f[t] # w[x] + f[t \ {x}]
  OBVIOUS
<1>4. PICK q : q = Pick(t) /\ q \in t /\ Rest(t) = t \ {q}
  BY RestType DEF Rest
<1>5. f[t] = w[q] + f[t \ {q}] /\ q # x
  BY <1>3, <1>4 DEF Sums
<1>6. PICK u : u = (t \ {q}) \ {x} /\ u = (t \ {x}) \ {q} /\ u \in SUBSET S
  OBVIOUS
<1>7. Good(t \ {q}) /\ Good(t \ {x})
  BY <1>2, <1>3, <1>4
<1>8. f[t \ {q}] = w[x] + f[u] /\ f[t \ {x}] = w[q] + f[u]
  BY <1>3, <1>4, <1>5, <1>6, <1>7
<1>9. f[u] \in Nat /\ w[x] \in Nat /\ w[q] \in Nat
  <2>1. IsFiniteSet(u) /\ \A s \in u : w[s] \in Nat
    BY <1>6, FS_Subset
  <2>2. PICK g : Sums(u, w, g)
    BY <2>1, SumExists
  <2>3. f[u] = g[u] /\ g[u] \in Nat
    BY <1>6, <2>1, <2>2, SumUnique, SumAtLeast
  <2> QED
    BY <1>3, <1>4, <2>3
<1> QED
  BY <1>3, <1>5, <1>8, <1>9

-----------------------------------------------------------------------------
(* Selections.                                                             *)

\* The places of K up to i.
UpTo(K, i) == {j \in K : j <= i}

LEMMA RankIsNat ==
    ASSUME NEW N \in Nat, NEW K \in SUBSET (1 .. N), NEW i \in K
    PROVE  /\ IsFiniteSet(K) /\ Cardinality(K) \in Nat
           /\ IsFiniteSet(UpTo(K, i)) /\ Cardinality(UpTo(K, i)) \in 1 .. Cardinality(K)
<1>1. IsFiniteSet(K) /\ Cardinality(K) \in Nat
  <2>1. IsFiniteSet(1 .. N)
    BY FS_Interval
  <2> QED
    BY <2>1, FS_Subset, FS_CardinalityType
<1>2. PICK B : B = UpTo(K, i)
  OBVIOUS
<1>3. B \in SUBSET K /\ i \in B
  BY <1>2 DEF UpTo
<1>4. IsFiniteSet(B) /\ Cardinality(B) <= Cardinality(K) /\ Cardinality(B) \in Nat
  BY <1>1, <1>3, FS_Subset, FS_CardinalityType
<1>5. Cardinality(B) # 0
  BY <1>3, <1>4, FS_EmptySet
<1> QED
  BY <1>1, <1>2, <1>4, <1>5

\* A later place has more places up to it.
LEMMA RankGrows ==
    ASSUME NEW N \in Nat, NEW K \in SUBSET (1 .. N), NEW a \in K, NEW b \in K, a < b
    PROVE  Cardinality(UpTo(K, a)) < Cardinality(UpTo(K, b))
<1>1. PICK A : A = UpTo(K, a)
  OBVIOUS
<1>2. PICK B : B = UpTo(K, b)
  OBVIOUS
<1>3. A \in SUBSET B /\ A # B
  <2>1. K \subseteq Nat /\ a \in Nat /\ b \in Nat
    OBVIOUS
  <2>2. \A j \in A : j \in B
    BY <1>1, <1>2, <2>1 DEF UpTo
  <2>3. b \in B /\ b \notin A
    BY <1>1, <1>2, <2>1 DEF UpTo
  <2> QED
    BY <2>2, <2>3
<1>4. IsFiniteSet(B) /\ Cardinality(A) \in Nat /\ Cardinality(B) \in Nat
  <2>1. IsFiniteSet(B)
    BY <1>2, RankIsNat
  <2> QED
    BY <1>3, <2>1, FS_Subset, FS_CardinalityType
<1>5. Cardinality(A) < Cardinality(B)
  <2>1. Cardinality(A) <= Cardinality(B) /\ Cardinality(A) # Cardinality(B)
    BY <1>3, <1>4, FS_Subset
  <2> QED
    BY <1>4, <2>1
<1> QED
  BY <1>1, <1>2, <1>5

\* There is a place for every number.
LEMMA PlacesAreNumbered ==
    ASSUME NEW N \in Nat, NEW K \in SUBSET (1 .. N), NEW m \in 1 .. Cardinality(K)
    PROVE  \E i \in K : Cardinality(UpTo(K, i)) = m
<1>1. IsFiniteSet(K) /\ Cardinality(K) \in Nat
  <2>1. IsFiniteSet(1 .. N)
    BY FS_Interval
  <2> QED
    BY <2>1, FS_Subset, FS_CardinalityType
<1>2. PICK rank : rank = [i \in K |-> Cardinality(UpTo(K, i))]
  OBVIOUS
<1>3. rank \in [K -> 1 .. Cardinality(K)]
  BY <1>2, RankIsNat
<1>4. \A a, b \in K : a < b => rank[a] < rank[b]
  BY <1>2, RankGrows
<1>5. rank \in Injection(K, 1 .. Cardinality(K))
  <2>1. ASSUME NEW a \in K, NEW b \in K, rank[a] = rank[b] PROVE a = b
    <3>1. a \in Nat /\ b \in Nat /\ rank[a] \in Int /\ rank[b] \in Int
      BY <1>3
    <3>2. ~(a < b) /\ ~(b < a)
      BY <1>4, <2>1, <3>1
    <3> QED
      BY <3>1, <3>2
  <2> QED
    BY <1>3, <2>1 DEF Injection, IsInjective
<1>6. IsFiniteSet(1 .. Cardinality(K)) /\ Cardinality(1 .. Cardinality(K)) = Cardinality(K)
  BY <1>1, FS_Interval
<1>7. rank \in Surjection(K, 1 .. Cardinality(K))
  BY <1>5, <1>6, FS_Injection
<1> QED
  BY <1>2, <1>7 DEF Surjection

\* The place that PlaceOf finds is the one of that number.
LEMMA PlaceOfIs ==
    ASSUME NEW N \in Nat, NEW K \in SUBSET (1 .. N), NEW m \in 1 .. Cardinality(K)
    PROVE  PlaceOf(K, m) \in K /\ Cardinality(UpTo(K, PlaceOf(K, m))) = m
<1>1. \E i \in K : Cardinality({j \in K : j <= i}) = m
  BY PlacesAreNumbered, ZenonT(30) DEF UpTo
<1>2. /\ PlaceOf(K, m) \in K
      /\ Cardinality({j \in K : j <= PlaceOf(K, m)}) = m
  BY <1>1, ZenonT(30) DEF PlaceOf
<1> QED
  BY <1>2, ZenonT(30) DEF UpTo

\* Every place has a number.
LEMMA PlaceIsFound ==
    ASSUME NEW N \in Nat, NEW K \in SUBSET (1 .. N), NEW i \in K
    PROVE  \E m \in 1 .. Cardinality(K) : PlaceOf(K, m) = i
<1>1. PICK m : m = Cardinality(UpTo(K, i)) /\ m \in 1 .. Cardinality(K)
  BY RankIsNat
<1>2. PICK p : p = PlaceOf(K, m) /\ p \in K /\ Cardinality(UpTo(K, p)) = m
  BY <1>1, PlaceOfIs
<1>3. p \in Nat /\ i \in Nat /\ m \in Int
  BY <1>1, <1>2
<1>4. ~(p < i)
  <2>1. SUFFICES ASSUME p < i PROVE FALSE
    OBVIOUS
  <2>2. Cardinality(UpTo(K, p)) < Cardinality(UpTo(K, i))
    BY <1>2, <2>1, RankGrows
  <2> QED
    BY <1>1, <1>2, <1>3, <2>2
<1>5. ~(i < p)
  <2>1. SUFFICES ASSUME i < p PROVE FALSE
    OBVIOUS
  <2>2. Cardinality(UpTo(K, i)) < Cardinality(UpTo(K, p))
    BY <1>2, <2>1, RankGrows
  <2> QED
    BY <1>1, <1>2, <1>3, <2>2
<1> QED
  BY <1>1, <1>2, <1>3, <1>4, <1>5

\* What is chosen of a list: as many as there are places, each from its own.
LEMMA ChosenFits ==
    ASSUME NEW S, NEW list \in Seq(S), NEW K \in SUBSET (DOMAIN list)
    PROVE  /\ Cardinality(K) \in Nat /\ Chosen(list, K) \in Seq(S)
           /\ Len(Chosen(list, K)) = Cardinality(K)
           /\ \A n \in 1 .. Cardinality(K) :
                 PlaceOf(K, n) \in K /\ Chosen(list, K)[n] = list[PlaceOf(K, n)]
<1>1. PICK N : N = Len(list) /\ N \in Nat /\ DOMAIN list = 1 .. N
  OBVIOUS
<1>2. K \in SUBSET (1 .. N)
  BY <1>1
<1>3. Cardinality(K) \in Nat
  <2>1. IsFiniteSet(1 .. N)
    BY <1>1, FS_Interval
  <2> QED
    BY <1>2, <2>1, FS_Subset, FS_CardinalityType
<1>4. \A n \in 1 .. Cardinality(K) : PlaceOf(K, n) \in K
  BY <1>1, <1>2, PlaceOfIs
<1>5. \A n \in 1 .. Cardinality(K) : Chosen(list, K)[n] = list[PlaceOf(K, n)]
  BY DEF Chosen
<1>6. Chosen(list, K) \in [1 .. Cardinality(K) -> S]
  <2>1. \A n \in 1 .. Cardinality(K) : list[PlaceOf(K, n)] \in S
    BY <1>1, <1>2, <1>4
  <2> QED
    BY <2>1 DEF Chosen
<1>7. Chosen(list, K) \in Seq(S) /\ Len(Chosen(list, K)) = Cardinality(K)
  BY <1>3, <1>6
<1> QED
  BY <1>3, <1>4, <1>5, <1>7

\* ... and nothing at a place is left out.
LEMMA ChosenKeeps ==
    ASSUME NEW S, NEW list \in Seq(S), NEW K \in SUBSET (DOMAIN list), NEW i \in K
    PROVE  \E n \in 1 .. Len(Chosen(list, K)) : Chosen(list, K)[n] = list[i]
<1>1. PICK N : N = Len(list) /\ N \in Nat /\ K \in SUBSET (1 .. N)
  OBVIOUS
<1>2. PICK n \in 1 .. Cardinality(K) : PlaceOf(K, n) = i
  BY <1>1, PlaceIsFound
<1>3. /\ Len(Chosen(list, K)) = Cardinality(K)
      /\ \A m \in 1 .. Cardinality(K) : Chosen(list, K)[m] = list[PlaceOf(K, m)]
  BY ChosenFits
<1> QED
  BY <1>2, <1>3
=============================================================================
