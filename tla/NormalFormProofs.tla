---- MODULE NormalFormProofs ----
(***************************************************************************)
(* The normal form of a list of addresses, for lists of any length: what   *)
(* Detect's order, its fold and its sort compute.  The induction is over   *)
(* sets of natural numbers, through the well-foundedness of their order.   *)
(***************************************************************************)
EXTENDS Detect, FiniteSetTheorems, WellFoundedInduction, TLAPS

Item == [iface : Names, ip : Address]

(* Natural numbers.                                                        *)

LEMMA LeastNat ==
    ASSUME NEW S \in SUBSET Nat, S # {}
    PROVE  \E x \in S : \A y \in S : x <= y
  <1> DEFINE R == OpToRel(<, Nat)
  <1>1. IsWellFoundedOn(R, Nat)
    BY NatLessThanWellFounded
  <1>2. \A a, b \in Nat : <<a, b>> \in R <=> a < b
    BY DEF OpToRel
  <1> HIDE DEF R
  <1>3. PICK x \in S : \A y \in S : ~(<<y, x>> \in R)
    BY <1>1, WFMin
  <1>4. \A y \in S : ~(y < x)
    BY <1>2, <1>3
  <1>5. \A y \in S : x <= y
    BY <1>4
  <1> QED BY <1>5

LEMMA NatSetInduction ==
    ASSUME NEW T, 0 \in T, \A n \in Nat : n \in T => n + 1 \in T
    PROVE  Nat \subseteq T
  <1> SUFFICES ASSUME Nat \ T # {} PROVE FALSE
    OBVIOUS
  <1>1. PICK x \in Nat \ T : \A y \in Nat \ T : x <= y
    BY LeastNat
  <1>2. x - 1 \in Nat
    BY <1>1
  <1>3. x - 1 \in T
    BY <1>1, <1>2
  <1>4. x = (x - 1) + 1
    OBVIOUS
  <1> QED BY <1>2, <1>3, <1>4

LEMMA IntervalSize ==
    ASSUME NEW n \in Nat
    PROVE  IsFiniteSet(1..n) /\ Cardinality(1..n) = n
  <1>1. 1 \in Int /\ n \in Int
    OBVIOUS
  <1>2. IsFiniteSet(1..n) /\ Cardinality(1..n) = IF 1 > n THEN 0 ELSE n - 1 + 1
    BY <1>1, FS_Interval
  <1> QED BY <1>2

---------------------------------------------------------------------------
(* The order of the pairs.                                                 *)

LEMMA PrefixPointwise ==
    ASSUME NEW s \in Seq(Nat), NEW t \in Seq(Nat)
    PROVE  IsPrefix(s, t) <=> Len(s) <= Len(t) /\ \A k \in 1..Len(s) : s[k] = t[k]
  <1>1. ASSUME Len(s) <= Len(t)
        PROVE  SubSeq(s, 1, Len(s)) = SubSeq(t, 1, Len(s)) <=> \A k \in 1..Len(s) : s[k] = t[k]
    <2>1. /\ SubSeq(s, 1, Len(s)) = [k \in 1..Len(s) |-> s[k]]
          /\ SubSeq(t, 1, Len(s)) = [k \in 1..Len(s) |-> t[k]]
      BY <1>1
    <2> QED BY <2>1
  <1> QED BY <1>1 DEF IsPrefix

\* Where s first departs from t, and is the less.
Departs(s, t, k) ==
    /\ k \in 1..Len(t)
    /\ \A j \in 1..(k - 1) : j <= Len(s) /\ s[j] = t[j]
    /\ \/ k = Len(s) + 1
       \/ k <= Len(s) /\ s[k] < t[k]

LEMMA LessDeparts ==
    ASSUME NEW s \in Seq(Nat), NEW t \in Seq(Nat)
    PROVE  Less(s, t) <=> \E k \in Nat : Departs(s, t, k)
  <1>1. ASSUME IsStrictPrefix(s, t) PROVE Departs(s, t, Len(s) + 1)
    <2>1. Len(s) <= Len(t) /\ (\A k \in 1..Len(s) : s[k] = t[k]) /\ s # t
      BY <1>1, PrefixPointwise DEF IsStrictPrefix
    <2>2. Len(s) # Len(t)
      BY <2>1
    <2>3. Len(s) + 1 \in 1..Len(t) /\ (Len(s) + 1) - 1 = Len(s)
      BY <2>1, <2>2
    <2> QED BY <2>1, <2>3 DEF Departs
  <1>2. ASSUME NEW k \in DOMAIN s \cap DOMAIN t, s[k] < t[k],
               \A j \in 1..(k - 1) : s[j] = t[j]
        PROVE  Departs(s, t, k)
    BY <1>2 DEF Departs
  <1>3. ASSUME NEW k \in Nat, Departs(s, t, k) PROVE Less(s, t)
    <2>1. CASE k = Len(s) + 1
      <3>1. Len(s) <= Len(t) /\ \A j \in 1..Len(s) : s[j] = t[j]
        BY <1>3, <2>1 DEF Departs
      <3>2. s # t
        BY <1>3, <2>1 DEF Departs
      <3> QED BY <3>1, <3>2, PrefixPointwise DEF Less, IsStrictPrefix
    <2>2. CASE k <= Len(s) /\ s[k] < t[k]
      BY <1>3, <2>2 DEF Departs, Less
    <2> QED BY <1>3, <2>1, <2>2 DEF Departs
  <1>4. ASSUME Less(s, t) PROVE \E k \in Nat : Departs(s, t, k)
    <2>1. CASE IsStrictPrefix(s, t)
      BY <1>1, <2>1
    <2>2. CASE ~IsStrictPrefix(s, t)
      <3>1. PICK k \in DOMAIN s \cap DOMAIN t :
                s[k] < t[k] /\ \A j \in 1..(k - 1) : s[j] = t[j]
        BY <1>4, <2>2 DEF Less
      <3> QED BY <1>2, <3>1
    <2> QED BY <2>1, <2>2
  <1> QED BY <1>3, <1>4

LEMMA LessIrreflexive ==
    ASSUME NEW s \in Seq(Nat)
    PROVE  ~Less(s, s)
  <1>1. ASSUME NEW k \in Nat, Departs(s, s, k) PROVE FALSE
    <2>1. k \in 1..Len(s) /\ s[k] \in Nat
      BY <1>1 DEF Departs
    <2> QED BY <1>1, <2>1 DEF Departs
  <1> QED BY <1>1, LessDeparts

LEMMA LessTransitive ==
    ASSUME NEW s \in Seq(Nat), NEW t \in Seq(Nat), NEW u \in Seq(Nat), Less(s, t), Less(t, u)
    PROVE  Less(s, u)
  <1>1. PICK k \in Nat : Departs(s, t, k)
    BY LessDeparts
  <1>2. PICK l \in Nat : Departs(t, u, l)
    BY LessDeparts
  <1>3. CASE k < l
    <2>1. k \in 1..Len(u) /\ t[k] = u[k]
      BY <1>1, <1>2, <1>3 DEF Departs
    <2>2. Departs(s, u, k)
      BY <1>1, <1>2, <1>3, <2>1 DEF Departs
    <2> QED BY <2>2, LessDeparts
  <1>4. CASE l < k
    <2>1. /\ l \in 1..Len(u) /\ l <= Len(s) /\ l <= Len(t)
          /\ s[l] = t[l] /\ t[l] < u[l]
      BY <1>1, <1>2, <1>4 DEF Departs
    <2>2. Departs(s, u, l)
      BY <1>1, <1>2, <1>4, <2>1 DEF Departs
    <2> QED BY <2>2, LessDeparts
  <1>5. CASE k = l
    <2>1. t[k] < u[k] /\ k \in 1..Len(u) /\ k \in 1..Len(t)
      BY <1>1, <1>2, <1>5 DEF Departs
    <2>2. k <= Len(s) => s[k] < u[k]
      <3> SUFFICES ASSUME k <= Len(s) PROVE s[k] < u[k]
        OBVIOUS
      <3>1. s[k] < t[k] /\ s[k] \in Nat /\ t[k] \in Nat /\ u[k] \in Nat
        BY <1>1, <2>1 DEF Departs
      <3> QED BY <2>1, <3>1
    <2>3. Departs(s, u, k)
      BY <1>1, <1>2, <1>5, <2>1, <2>2 DEF Departs
    <2> QED BY <2>3, LessDeparts
  <1> QED BY <1>3, <1>4, <1>5

LEMMA LessTotal ==
    ASSUME NEW s \in Seq(Nat), NEW t \in Seq(Nat), s # t
    PROVE  Less(s, t) \/ Less(t, s)
  <1> DEFINE D == {k \in Nat \ {0} : \/ k > Len(s) /\ k <= Len(t)
                                     \/ k > Len(t) /\ k <= Len(s)
                                     \/ k <= Len(s) /\ k <= Len(t) /\ s[k] # t[k]}
  <1>1. D # {}
    <2>1. CASE Len(s) = Len(t)
      <3>1. PICK k \in 1..Len(s) : s[k] # t[k]
        BY <2>1
      <3> QED BY <2>1, <3>1
    <2>2. CASE Len(s) < Len(t)
      <3>1. Len(t) \in D
        BY <2>2
      <3> QED BY <3>1
    <2>3. CASE Len(t) < Len(s)
      <3>1. Len(s) \in D
        BY <2>3
      <3> QED BY <3>1
    <2> QED BY <2>1, <2>2, <2>3
  <1>2. PICK k \in D : \A j \in D : k <= j
    BY <1>1, LeastNat
  <1>3. \A j \in 1..(k - 1) : j \notin D
    BY <1>2
  <1>4. \A j \in 1..(k - 1) : j <= Len(s) /\ j <= Len(t) /\ s[j] = t[j]
    <2> SUFFICES ASSUME NEW j \in 1..(k - 1)
                 PROVE  j <= Len(s) /\ j <= Len(t) /\ s[j] = t[j]
      OBVIOUS
    <2>1. j \notin D /\ j \in Nat \ {0}
      BY <1>2, <1>3
    <2>2. k <= Len(s) \/ k <= Len(t)
      BY <1>2
    <2> QED BY <2>1, <2>2
  <1>5. Departs(s, t, k) \/ Departs(t, s, k)
    <2>1. CASE k > Len(s) /\ k <= Len(t)
      <3>1. k = Len(s) + 1
        <4>1. ~(Len(s) + 1 \in 1..(k - 1))
          BY <1>4
        <4> QED BY <2>1, <4>1
      <3> QED BY <1>2, <1>4, <2>1, <3>1 DEF Departs
    <2>2. CASE k > Len(t) /\ k <= Len(s)
      <3>1. k = Len(t) + 1
        <4>1. ~(Len(t) + 1 \in 1..(k - 1))
          BY <1>4
        <4> QED BY <2>2, <4>1
      <3> QED BY <1>2, <1>4, <2>2, <3>1 DEF Departs
    <2>3. CASE k <= Len(s) /\ k <= Len(t) /\ s[k] # t[k]
      <3>1. s[k] \in Nat /\ t[k] \in Nat
        BY <1>2, <2>3
      <3> QED BY <1>2, <1>4, <2>3, <3>1 DEF Departs
    <2> QED BY <1>2, <2>1, <2>2, <2>3
  <1> QED BY <1>2, <1>5, LessDeparts

\* The pairs that a snapshot may hold.
Pair == {e \in Item : ~e.ip.mapped}

LEMMA PairParts ==
    ASSUME NEW x \in Item
    PROVE  /\ x.iface \in Names /\ x.iface \in Seq(Nat)
           /\ x.ip \in Address /\ x.ip.ip \in Nat
           /\ x = [iface |-> x.iface, ip |-> x.ip]
           /\ x.ip = [ip |-> x.ip.ip, mapped |-> x.ip.mapped]
  <1>1. x.ip \in Address
    BY DEF Item
  <1>2. x.ip.ip \in IPs /\ x.ip = [ip |-> x.ip.ip, mapped |-> x.ip.mapped]
    BY <1>1 DEF Address
  <1> QED BY <1>1, <1>2, DetectAssumption DEF Item

LEMMA BeforeIrreflexive ==
    ASSUME NEW x \in Item
    PROVE  ~Before(x, x)
  <1>1. x.ip.ip \in Nat
    BY PairParts
  <1> QED BY <1>1 DEF Before

LEMMA BeforeTransitive ==
    ASSUME NEW x \in Item, NEW y \in Item, NEW z \in Item, Before(x, y), Before(y, z)
    PROVE  Before(x, z)
  <1>1. /\ x.iface \in Seq(Nat) /\ y.iface \in Seq(Nat) /\ z.iface \in Seq(Nat)
        /\ x.ip.ip \in Nat /\ y.ip.ip \in Nat /\ z.ip.ip \in Nat
    BY PairParts
  <1>2. CASE x.iface = y.iface /\ y.iface = z.iface
    BY <1>1, <1>2 DEF Before
  <1>3. CASE x.iface = y.iface /\ y.iface # z.iface
    BY <1>3 DEF Before
  <1>4. CASE x.iface # y.iface /\ y.iface = z.iface
    BY <1>4 DEF Before
  <1>5. CASE x.iface # y.iface /\ y.iface # z.iface
    <2>1. Less(x.iface, z.iface)
      BY <1>1, <1>5, LessTransitive DEF Before
    <2>2. x.iface # z.iface
      BY <1>1, <2>1, LessIrreflexive
    <2> QED BY <2>1, <2>2 DEF Before
  <1> QED BY <1>2, <1>3, <1>4, <1>5

LEMMA BeforeTotal ==
    ASSUME NEW x \in Pair, NEW y \in Pair, x # y
    PROVE  Before(x, y) \/ Before(y, x)
  <1>1. x \in Item /\ y \in Item /\ ~x.ip.mapped /\ ~y.ip.mapped
    BY DEF Pair
  <1>2. x.ip.mapped \in BOOLEAN /\ y.ip.mapped \in BOOLEAN
    BY <1>1, PairParts DEF Address
  <1>3. CASE x.iface = y.iface
    <2>1. x.ip.ip # y.ip.ip
      <3> SUFFICES ASSUME x.ip.ip = y.ip.ip PROVE FALSE
        OBVIOUS
      <3>1. x.ip.mapped = y.ip.mapped
        BY <1>1, <1>2
      <3>2. x.ip = y.ip
        BY <1>1, <3>1, PairParts
      <3> QED BY <1>1, <1>3, <3>2, PairParts
    <2>2. x.ip.ip \in Nat /\ y.ip.ip \in Nat
      BY <1>1, PairParts
    <2> QED BY <1>3, <2>1, <2>2 DEF Before
  <1>4. CASE x.iface # y.iface
    <2>1. x.iface \in Seq(Nat) /\ y.iface \in Seq(Nat)
      BY <1>1, PairParts
    <2> QED BY <1>4, <2>1, LessTotal DEF Before
  <1> QED BY <1>3, <1>4

LEMMA BeforeAsymmetric ==
    ASSUME NEW x \in Item, NEW y \in Item, Before(x, y)
    PROVE  ~Before(y, x) /\ x # y
  BY BeforeIrreflexive, BeforeTransitive

---------------------------------------------------------------------------
(* The sort.                                                               *)

Ascending(items) ==
    \A k \in DOMAIN items : \A j \in 1..(k - 1) : Before(items[j], items[k])

LEMMA AscendingIsInjective ==
    ASSUME NEW a \in Seq(Pair), Ascending(a)
    PROVE  IsInjective(a)
  <1>1. ASSUME NEW j \in DOMAIN a, NEW k \in DOMAIN a, j < k PROVE a[j] # a[k]
    <2>1. j \in 1..(k - 1) /\ a[j] \in Item /\ a[k] \in Item
      BY <1>1 DEF Pair
    <2> QED BY <2>1, BeforeAsymmetric DEF Ascending
  <1>2. ASSUME NEW j \in DOMAIN a, NEW k \in DOMAIN a, a[j] = a[k] PROVE j = k
    <2>1. j \in Nat /\ k \in Nat
      OBVIOUS
    <2>2. ~(j < k) /\ ~(k < j)
      BY <1>1, <1>2
    <2> QED BY <2>1, <2>2
  <1> QED BY <1>2 DEF IsInjective

\* Without duplicates, what precedes an item is what is less.
Preceding(items, k) == {j \in DOMAIN items : Before(items[j], items[k])}

LEMMA RankCounts ==
    ASSUME NEW a \in Seq(Pair), IsInjective(a), NEW k \in DOMAIN a
    PROVE  /\ Rank(a, k) = Cardinality(Preceding(a, k))
           /\ Preceding(a, k) \subseteq DOMAIN a \ {k}
           /\ IsFiniteSet(Preceding(a, k))
           /\ Rank(a, k) \in 0..(Len(a) - 1)
  <1>1. \A j \in DOMAIN a : a[j] \in Pair /\ a[j] \in Item
    BY DEF Pair
  <1>2. ASSUME NEW j \in DOMAIN a, j # k PROVE Before(a[j], a[k]) \/ Before(a[k], a[j])
    BY <1>1, <1>2, BeforeTotal DEF IsInjective
  <1>3. ~Before(a[k], a[k])
    BY <1>1, BeforeIrreflexive
  <1>4. \A j \in DOMAIN a :
            (Before(a[j], a[k]) \/ (j < k /\ ~Before(a[k], a[j]))) <=> Before(a[j], a[k])
    BY <1>2, <1>3
  <1>5. Rank(a, k) = Cardinality(Preceding(a, k))
    BY <1>4 DEF Rank, Preceding
  <1>6. Preceding(a, k) \subseteq DOMAIN a \ {k}
    BY <1>3 DEF Preceding
  <1>7. /\ IsFiniteSet(DOMAIN a \ {k})
        /\ Cardinality(DOMAIN a \ {k}) = Len(a) - 1
    <2>1. DOMAIN a = 1..Len(a) /\ Len(a) \in Nat
      OBVIOUS
    <2>2. IsFiniteSet(DOMAIN a) /\ Cardinality(DOMAIN a) = Len(a)
      BY <2>1, IntervalSize
    <2> QED BY <2>2, FS_RemoveElement
  <1>8. IsFiniteSet(Preceding(a, k)) /\ Cardinality(Preceding(a, k)) <= Len(a) - 1
    BY <1>6, <1>7, FS_Subset
  <1>9. Cardinality(Preceding(a, k)) \in Nat
    BY <1>8, FS_CardinalityType
  <1>10. Len(a) \in Nat
    OBVIOUS
  <1> QED BY <1>5, <1>6, <1>8, <1>9, <1>10

LEMMA RankAscends ==
    ASSUME NEW a \in Seq(Pair), IsInjective(a), NEW j \in DOMAIN a, NEW k \in DOMAIN a,
           Before(a[j], a[k])
    PROVE  Rank(a, j) < Rank(a, k)
  <1>1. \A l \in DOMAIN a : a[l] \in Item
    BY DEF Pair
  <1>2. Preceding(a, j) \subseteq Preceding(a, k)
    BY <1>1, BeforeTransitive DEF Preceding
  <1>3. j \in Preceding(a, k) /\ j \notin Preceding(a, j)
    BY RankCounts DEF Preceding
  <1>4. /\ Rank(a, j) = Cardinality(Preceding(a, j))
        /\ Rank(a, k) = Cardinality(Preceding(a, k))
        /\ Rank(a, j) \in Nat /\ Rank(a, k) \in Nat
        /\ IsFiniteSet(Preceding(a, k))
    BY RankCounts
  <1>5. /\ Cardinality(Preceding(a, j)) <= Cardinality(Preceding(a, k))
        /\ Cardinality(Preceding(a, j)) # Cardinality(Preceding(a, k))
    BY <1>2, <1>3, <1>4, FS_Subset
  <1> QED BY <1>4, <1>5

\* Each place belongs to one item, so that the CHOOSE of Sorted is defined.
LEMMA RankIsBijective ==
    ASSUME NEW a \in Seq(Pair), IsInjective(a)
    PROVE  /\ \A j, k \in DOMAIN a : Rank(a, j) = Rank(a, k) => j = k
           /\ \A p \in DOMAIN a : \E k \in DOMAIN a : Rank(a, k) = p - 1
  <1> DEFINE r == [k \in 1..Len(a) |-> Rank(a, k)]
  <1>1. DOMAIN a = 1..Len(a) /\ Len(a) \in Nat
    OBVIOUS
  <1>2. \A k \in DOMAIN a : Rank(a, k) \in 0..(Len(a) - 1)
    BY RankCounts
  <1>3. ASSUME NEW j \in DOMAIN a, NEW k \in DOMAIN a, j # k PROVE Rank(a, j) # Rank(a, k)
    <2>1. a[j] \in Pair /\ a[k] \in Pair /\ a[j] # a[k]
      BY <1>3 DEF IsInjective
    <2>2. Before(a[j], a[k]) \/ Before(a[k], a[j])
      BY <2>1, BeforeTotal
    <2>3. Rank(a, j) < Rank(a, k) \/ Rank(a, k) < Rank(a, j)
      BY <2>2, RankAscends
    <2>4. Rank(a, j) \in Nat /\ Rank(a, k) \in Nat
      BY <1>2
    <2> QED BY <2>3, <2>4
  <1>4. r \in Injection(1..Len(a), 0..(Len(a) - 1))
    BY <1>1, <1>2, <1>3 DEF Injection, IsInjective
  <1>5. /\ IsFiniteSet(0..(Len(a) - 1))
        /\ Cardinality(0..(Len(a) - 1)) = Cardinality(1..Len(a))
    BY <1>1, FS_Interval
  <1>6. r \in Surjection(1..Len(a), 0..(Len(a) - 1))
    BY <1>4, <1>5, FS_Injection
  <1>7. ASSUME NEW p \in DOMAIN a PROVE \E k \in DOMAIN a : Rank(a, k) = p - 1
    <2>1. p - 1 \in 0..(Len(a) - 1)
      BY <1>1
    <2> QED BY <1>1, <1>6, <2>1 DEF Surjection
  <1> QED BY <1>3, <1>7

\* Sorting a list without duplicates puts the same items in ascending order.
LEMMA SortedAscends ==
    ASSUME NEW a \in Seq(Pair), IsInjective(a)
    PROVE  /\ Sorted(a) \in Seq(Pair)
           /\ Len(Sorted(a)) = Len(a)
           /\ ToSet(Sorted(a)) = ToSet(a)
           /\ Ascending(Sorted(a))
  <1> DEFINE at(p) == CHOOSE k \in DOMAIN a : Rank(a, k) = p - 1
  <1>1. DOMAIN a = 1..Len(a) /\ Len(a) \in Nat
    OBVIOUS
  <1>2. \A p \in DOMAIN a : at(p) \in DOMAIN a /\ Rank(a, at(p)) = p - 1
    BY RankIsBijective
  <1>3. Sorted(a) = [p \in DOMAIN a |-> a[at(p)]]
    BY DEF Sorted
  <1> HIDE DEF at
  <1>4. Sorted(a) \in Seq(Pair) /\ Len(Sorted(a)) = Len(a)
    BY <1>1, <1>2, <1>3
  <1>5. ASSUME NEW k \in DOMAIN a PROVE \E p \in DOMAIN a : at(p) = k
    <2>1. Rank(a, k) \in 0..(Len(a) - 1)
      BY RankCounts
    <2>2. /\ Rank(a, k) + 1 \in DOMAIN a
          /\ (Rank(a, k) + 1) - 1 = Rank(a, k)
      BY <1>1, <2>1
    <2>3. Rank(a, at(Rank(a, k) + 1)) = Rank(a, k) /\ at(Rank(a, k) + 1) \in DOMAIN a
      BY <1>2, <2>2
    <2>4. at(Rank(a, k) + 1) = k
      BY <2>3, RankIsBijective
    <2> QED BY <2>2, <2>4
  <1>6. ToSet(Sorted(a)) = ToSet(a)
    BY <1>2, <1>3, <1>5 DEF ToSet
  <1>7. ASSUME NEW k \in DOMAIN a, NEW j \in 1..(k - 1) PROVE Before(a[at(j)], a[at(k)])
    <2>1. j \in DOMAIN a /\ j < k /\ j \in Nat /\ k \in Nat
      BY <1>1
    <2>2. /\ at(j) \in DOMAIN a /\ at(k) \in DOMAIN a
          /\ Rank(a, at(j)) = j - 1 /\ Rank(a, at(k)) = k - 1
      BY <1>2, <2>1
    <2>3. at(j) # at(k)
      BY <2>1, <2>2
    <2>4. ~Before(a[at(k)], a[at(j)])
      <3>1. ~(Rank(a, at(k)) < Rank(a, at(j)))
        BY <2>1, <2>2
      <3> QED BY <2>2, <3>1, RankAscends
    <2>5. a[at(j)] \in Pair /\ a[at(k)] \in Pair /\ a[at(j)] # a[at(k)]
      BY <2>2, <2>3 DEF IsInjective
    <2> QED BY <2>4, <2>5, BeforeTotal
  <1>8. Ascending(Sorted(a))
    BY <1>1, <1>3, <1>7 DEF Ascending
  <1> QED BY <1>4, <1>6, <1>8

\* Sorting leaves an ascending list as it is.
LEMMA SortedFixes ==
    ASSUME NEW a \in Seq(Pair), Ascending(a)
    PROVE  Sorted(a) = a
  <1>1. DOMAIN a = 1..Len(a) /\ Len(a) \in Nat /\ IsInjective(a)
    BY AscendingIsInjective
  <1>2. ASSUME NEW k \in DOMAIN a PROVE Rank(a, k) = k - 1
    <2>1. ASSUME NEW j \in DOMAIN a PROVE Before(a[j], a[k]) <=> j < k
      <3>1. j \in Nat /\ k \in Nat /\ a[j] \in Item /\ a[k] \in Item
        BY DEF Pair
      <3>2. CASE j < k
        BY <1>1, <3>1, <3>2 DEF Ascending
      <3>3. CASE j = k
        BY <3>1, <3>3, BeforeIrreflexive
      <3>4. CASE k < j
        <4>1. Before(a[k], a[j])
          BY <1>1, <3>1, <3>4 DEF Ascending
        <4> QED BY <3>1, <3>4, <4>1, BeforeAsymmetric
      <3> QED BY <3>1, <3>2, <3>3, <3>4
    <2>2. Preceding(a, k) = 1..(k - 1)
      BY <1>1, <2>1 DEF Preceding
    <2>3. Cardinality(1..(k - 1)) = k - 1
      <3>1. k \in Nat /\ k >= 1
        BY <1>1
      <3> QED BY <3>1, FS_Interval
    <2> QED BY <1>1, <2>2, <2>3, RankCounts
  <1> DEFINE at(p) == CHOOSE k \in DOMAIN a : Rank(a, k) = p - 1
  <1>3. \A p \in DOMAIN a : at(p) = p
    BY <1>1, <1>2
  <1>4. Sorted(a) = [p \in DOMAIN a |-> a[at(p)]]
    BY DEF Sorted
  <1> HIDE DEF at
  <1>5. Sorted(a) = [p \in DOMAIN a |-> a[p]]
    BY <1>3, <1>4
  <1> QED BY <1>5

\* An ascending list is determined by its items: the place of an item is the
\* number of the items before it.
LEMMA AscendingIsUnique ==
    ASSUME NEW a \in Seq(Pair), NEW b \in Seq(Pair), Ascending(a), Ascending(b),
           ToSet(a) = ToSet(b)
    PROVE  a = b
  <1> DEFINE below(x) == {y \in ToSet(a) : Before(y, x)}
  <1>1. ASSUME NEW c \in Seq(Pair), Ascending(c), ToSet(c) = ToSet(a)
        PROVE  /\ Cardinality(ToSet(a)) = Len(c)
               /\ \A k \in DOMAIN c : Cardinality(below(c[k])) = k - 1
    <2>1. /\ IsInjective(c) /\ DOMAIN c = 1..Len(c) /\ Len(c) \in Nat
          /\ \A k \in DOMAIN c : c[k] \in Item
      BY <1>1, AscendingIsInjective DEF Pair
    <2>2. ASSUME NEW n \in 0..Len(c), NEW S, S = {c[j] : j \in 1..n}
          PROVE  Cardinality(S) = n
      <3> DEFINE f == [j \in 1..n |-> c[j]]
      <3>1. f \in Surjection(1..n, S)
        BY <2>2 DEF Surjection
      <3>2. f \in Injection(1..n, S)
        BY <2>1, <2>2 DEF Injection, IsInjective
      <3>3. n \in Nat
        BY <2>1
      <3>4. IsFiniteSet(1..n) /\ Cardinality(1..n) = n
        BY <3>3, IntervalSize
      <3> HIDE DEF f
      <3> QED BY <3>1, <3>2, <3>4, FS_Surjection
    <2>3. ToSet(a) = {c[j] : j \in 1..Len(c)}
      BY <1>1, <2>1 DEF ToSet
    <2>4. ASSUME NEW k \in DOMAIN c PROVE Cardinality(below(c[k])) = k - 1
      <3>1. ASSUME NEW j \in DOMAIN c PROVE Before(c[j], c[k]) <=> j \in 1..(k - 1)
        <4>1. j \in Nat /\ k \in Nat /\ j >= 1
          BY <2>1
        <4>2. CASE j < k
          BY <1>1, <4>1, <4>2 DEF Ascending
        <4>3. CASE j = k
          BY <2>1, <4>1, <4>3, BeforeIrreflexive
        <4>4. CASE k < j
          <5>1. k \in 1..(j - 1)
            BY <2>1, <4>1, <4>4
          <5>2. Before(c[k], c[j])
            BY <1>1, <5>1 DEF Ascending
          <5> QED BY <2>1, <4>1, <4>4, <5>2, BeforeAsymmetric
        <4> QED BY <4>1, <4>2, <4>3, <4>4
      <3>2. below(c[k]) = {c[j] : j \in 1..(k - 1)}
        <4>1. 1..(k - 1) \subseteq DOMAIN c
          BY <2>1
        <4> QED BY <2>1, <2>3, <3>1, <4>1
      <3>3. k - 1 \in 0..Len(c)
        BY <2>1
      <3> QED BY <2>2, <3>2, <3>3
    <2>5. Len(c) \in 0..Len(c)
      BY <2>1
    <2> QED BY <2>2, <2>3, <2>4, <2>5
  <1>2. Len(a) = Len(b)
    BY <1>1
  <1>3. ASSUME NEW k \in DOMAIN a PROVE a[k] = b[k]
    <2>1. PICK l \in DOMAIN b : a[k] = b[l]
      BY DEF ToSet
    <2>2. k - 1 = Cardinality(below(a[k])) /\ l - 1 = Cardinality(below(b[l]))
      BY <1>1
    <2>3. k - 1 = l - 1 /\ k \in Nat /\ l \in Nat
      BY <2>1, <2>2
    <2> QED BY <2>1, <2>3
  <1> QED BY <1>2, <1>3

---------------------------------------------------------------------------
(* The fold.                                                               *)

\* The recursive function by which FoldLeft is defined, on 1..n.
Iterates(f, items, n) ==
    f = [d \in SUBSET (1..n) |->
            IF d = {} THEN <<>> ELSE AppendNew(f[d \ {Max(d)}], items[Max(d)])]

LEMMA MaxOf ==
    ASSUME NEW d \in SUBSET Nat, NEW n \in d, \A y \in d : y <= n
    PROVE  Max(d) = n
  <1>1. \A x \in d : (\A y \in d : x >= y) <=> x = n
    OBVIOUS
  <1> QED BY <1>1 DEF Max

LEMMA IterateExists ==
    ASSUME NEW items, NEW n \in Nat
    PROVE  \E f : Iterates(f, items, n)
  <1> DEFINE T == {m \in Nat : \E f : Iterates(f, items, m)}
  <1>1. 0 \in T
    <2> DEFINE g == [d \in SUBSET (1..0) |-> <<>>]
    <2>1. \A d \in SUBSET (1..0) : d = {}
      OBVIOUS
    <2>2. Iterates(g, items, 0)
      BY <2>1 DEF Iterates
    <2> QED BY <2>2
  <1>2. ASSUME NEW m \in Nat, m \in T PROVE m + 1 \in T
    <2>1. PICK f : Iterates(f, items, m)
      BY <1>2
    <2> DEFINE g == [d \in SUBSET (1..(m + 1)) |->
                        IF m + 1 \in d THEN AppendNew(f[d \ {m + 1}], items[m + 1]) ELSE f[d]]
    <2>2. ASSUME NEW d \in SUBSET (1..(m + 1))
          PROVE  g[d] = IF d = {} THEN <<>> ELSE AppendNew(g[d \ {Max(d)}], items[Max(d)])
      <3>1. CASE m + 1 \in d
        <4>1. Max(d) = m + 1
          BY <3>1, MaxOf
        <4>2. g[d] = AppendNew(f[d \ {m + 1}], items[m + 1])
          BY <3>1
        <4>3. g[d \ {m + 1}] = f[d \ {m + 1}]
          OBVIOUS
        <4> QED BY <3>1, <4>1, <4>2, <4>3
      <3>2. CASE m + 1 \notin d
        <4>1. d \in SUBSET (1..m)
          BY <3>2
        <4>2. g[d] = f[d] /\ g[d \ {Max(d)}] = f[d \ {Max(d)}]
          BY <3>2
        <4>3. f[d] = IF d = {} THEN <<>> ELSE AppendNew(f[d \ {Max(d)}], items[Max(d)])
          BY <2>1, <4>1 DEF Iterates
        <4> QED BY <4>2, <4>3
      <3> QED BY <3>1, <3>2
    <2>3. Iterates(g, items, m + 1)
      BY <2>2 DEF Iterates
    <2> QED BY <2>3
  <1> HIDE DEF T
  <1>3. n \in T
    BY <1>1, <1>2, NatSetInduction
  <1> QED BY <1>3 DEF T

LEMMA FoldIterates ==
    ASSUME NEW items, NEW n \in Nat, DOMAIN items = 1..n
    PROVE  FoldLeft(AppendNew, <<>>, items) = (CHOOSE f : Iterates(f, items, n))[1..n]
  BY DEF FoldLeft, MapThenFoldSet, Iterates

\* The fold, step by step: F[k] is its result for the first k items.
LEMMA FoldSteps ==
    ASSUME NEW items, NEW n \in Nat, DOMAIN items = 1..n
    PROVE  \E F : /\ F[0] = <<>>
                  /\ \A k \in 1..n : F[k] = AppendNew(F[k - 1], items[k])
                  /\ F[n] = FoldLeft(AppendNew, <<>>, items)
  <1> DEFINE f == CHOOSE f : Iterates(f, items, n)
             F == [k \in 0..n |-> f[1..k]]
  <1>1. Iterates(f, items, n) /\ FoldLeft(AppendNew, <<>>, items) = f[1..n]
    BY IterateExists, FoldIterates
  <1> HIDE DEF f
  <1>2. \A d \in SUBSET (1..n) :
            f[d] = IF d = {} THEN <<>> ELSE AppendNew(f[d \ {Max(d)}], items[Max(d)])
    BY <1>1 DEF Iterates
  <1>3. F[0] = <<>>
    <2>1. F[0] = f[{}]
      BY 1..0 = {}
    <2>2. f[{}] = <<>>
      BY <1>2, {} \in SUBSET (1..n)
    <2> QED BY <2>1, <2>2
  <1>4. ASSUME NEW k \in 1..n PROVE F[k] = AppendNew(F[k - 1], items[k])
    <2>1. 1..k \in SUBSET (1..n) /\ k \in 1..k /\ (1..k) \ {k} = 1..(k - 1)
      OBVIOUS
    <2>2. Max(1..k) = k
      BY <2>1, MaxOf
    <2>3. f[1..k] = AppendNew(f[1..(k - 1)], items[k])
      BY <1>2, <2>1, <2>2
    <2> QED BY <2>3
  <1>5. F[n] = FoldLeft(AppendNew, <<>>, items)
    BY <1>1
  <1> QED BY <1>3, <1>4, <1>5

\* The set of the pairs seen does what it is for: the fold has each item once.
LEMMA FoldDeduplicates ==
    ASSUME NEW s \in Seq(Pair)
    PROVE  /\ FoldLeft(AppendNew, <<>>, s) \in Seq(Pair)
           /\ IsInjective(FoldLeft(AppendNew, <<>>, s))
           /\ ToSet(FoldLeft(AppendNew, <<>>, s)) = ToSet(s)
  <1>1. DOMAIN s = 1..Len(s) /\ Len(s) \in Nat
    OBVIOUS
  <1>2. PICK F : /\ F[0] = <<>>
                 /\ \A k \in 1..Len(s) : F[k] = AppendNew(F[k - 1], s[k])
                 /\ F[Len(s)] = FoldLeft(AppendNew, <<>>, s)
    BY <1>1, FoldSteps
  <1> DEFINE Good(m) == /\ F[m] \in Seq(Pair)
                        /\ IsInjective(F[m])
                        /\ ToSet(F[m]) = {s[j] : j \in 1..m}
             T == {m \in Nat : m <= Len(s) => Good(m)}
  <1>3. 0 \in T
    <2>1. F[0] \in Seq(Pair) /\ DOMAIN F[0] = {}
      BY <1>2
    <2>2. IsInjective(F[0]) /\ ToSet(F[0]) = {}
      BY <2>1 DEF IsInjective, ToSet
    <2>3. {s[j] : j \in 1..0} = {}
      OBVIOUS
    <2> QED BY <2>1, <2>2, <2>3
  <1>4. ASSUME NEW m \in Nat, m \in T PROVE m + 1 \in T
    <2> SUFFICES ASSUME m + 1 <= Len(s) PROVE Good(m + 1)
      OBVIOUS
    <2> HIDE DEF Good
    <2>1. Good(m) /\ m + 1 \in 1..Len(s) /\ (m + 1) - 1 = m
      BY <1>1, <1>4
    <2>2. F[m + 1] = AppendNew(F[m], s[m + 1]) /\ s[m + 1] \in Pair
      BY <1>2, <2>1
    <2> DEFINE r == F[m]
    <2>3. r \in Seq(Pair) /\ IsInjective(r) /\ ToSet(r) = {s[j] : j \in 1..m}
      BY <2>1 DEF Good
    <2>4. {s[j] : j \in 1..(m + 1)} = {s[j] : j \in 1..m} \cup {s[m + 1]}
      OBVIOUS
    <2>5. F[m + 1] = AppendNew(r, s[m + 1])
      BY <2>2
    <2> HIDE DEF r
    <2>6. CASE s[m + 1] \in ToSet(r)
      <3>1. F[m + 1] = r
        BY <2>5, <2>6 DEF AppendNew
      <3> QED BY <2>3, <2>4, <2>6, <3>1 DEF Good
    <2>7. CASE s[m + 1] \notin ToSet(r)
      <3>1. F[m + 1] = Append(r, s[m + 1])
        BY <2>5, <2>7 DEF AppendNew
      <3>2. /\ F[m + 1] \in Seq(Pair)
            /\ DOMAIN F[m + 1] = DOMAIN r \cup {Len(r) + 1}
            /\ F[m + 1][Len(r) + 1] = s[m + 1]
            /\ \A k \in DOMAIN r : F[m + 1][k] = r[k]
        BY <2>2, <2>3, <3>1
      <3>3. \A k \in DOMAIN r : r[k] # s[m + 1]
        BY <2>7 DEF ToSet
      <3>4. IsInjective(F[m + 1])
        BY <2>3, <3>2, <3>3 DEF IsInjective
      <3>5. ToSet(F[m + 1]) = ToSet(r) \cup {s[m + 1]}
        BY <3>2 DEF ToSet
      <3> QED BY <2>3, <2>4, <3>2, <3>4, <3>5 DEF Good
    <2> QED BY <2>6, <2>7
  <1> HIDE DEF T
  <1>5. Len(s) \in T
    BY <1>1, <1>3, <1>4, NatSetInduction
  <1>6. Good(Len(s))
    BY <1>1, <1>5 DEF T
  <1>7. ToSet(s) = {s[j] : j \in 1..Len(s)}
    BY <1>1 DEF ToSet
  <1> QED BY <1>2, <1>6, <1>7

\* A list without duplicates stays as it is.
LEMMA FoldFixes ==
    ASSUME NEW s \in Seq(Pair), IsInjective(s)
    PROVE  FoldLeft(AppendNew, <<>>, s) = s
  <1>1. DOMAIN s = 1..Len(s) /\ Len(s) \in Nat
    OBVIOUS
  <1>2. PICK F : /\ F[0] = <<>>
                 /\ \A k \in 1..Len(s) : F[k] = AppendNew(F[k - 1], s[k])
                 /\ F[Len(s)] = FoldLeft(AppendNew, <<>>, s)
    BY <1>1, FoldSteps
  <1> DEFINE T == {m \in Nat : m <= Len(s) => F[m] = SubSeq(s, 1, m)}
  <1>3. 0 \in T
    <2>1. SubSeq(s, 1, 0) = <<>>
      BY <1>1
    <2> QED BY <1>2, <2>1
  <1>4. ASSUME NEW m \in Nat, m \in T PROVE m + 1 \in T
    <2> SUFFICES ASSUME m + 1 <= Len(s) PROVE F[m + 1] = SubSeq(s, 1, m + 1)
      OBVIOUS
    <2>1. /\ F[m] = SubSeq(s, 1, m)
          /\ m + 1 \in 1..Len(s) /\ (m + 1) - 1 = m
      BY <1>1, <1>4
    <2>2. F[m + 1] = AppendNew(SubSeq(s, 1, m), s[m + 1])
      BY <1>2, <2>1
    <2>3. SubSeq(s, 1, m) = [k \in 1..m |-> s[k]]
      BY <1>1, <2>1
    <2>4. \A k \in 1..m : s[k] # s[m + 1]
      BY <1>1, <2>1 DEF IsInjective
    <2>5. s[m + 1] \notin ToSet(SubSeq(s, 1, m))
      BY <2>3, <2>4 DEF ToSet
    <2>6. F[m + 1] = Append(SubSeq(s, 1, m), s[m + 1])
      BY <2>2, <2>5 DEF AppendNew
    <2> QED BY <1>1, <2>1, <2>6
  <1> HIDE DEF T
  <1>5. Len(s) \in T
    BY <1>1, <1>3, <1>4, NatSetInduction
  <1>6. F[Len(s)] = SubSeq(s, 1, Len(s))
    BY <1>1, <1>5 DEF T
  <1> QED BY <1>1, <1>2, <1>6

---------------------------------------------------------------------------
(* The normal form.                                                        *)

Unmapped(e) == [e EXCEPT !.ip = Unmap(@)]

LEMMA UnmapType ==
    ASSUME NEW a \in Address
    PROVE  /\ Unmap(a) \in Address
           /\ ~Unmap(a).mapped
           /\ ~a.mapped => Unmap(a) = a
  BY DEF Unmap, Address

LEMMA UnmappedType ==
    ASSUME NEW e \in Item
    PROVE  /\ Unmapped(e) \in Pair
           /\ Unmapped(e).iface = e.iface /\ Unmapped(e).ip = Unmap(e.ip)
           /\ e \in Pair => Unmapped(e) = e
  <1>1. e = [iface |-> e.iface, ip |-> e.ip] /\ e.iface \in Names /\ e.ip \in Address
    BY PairParts
  <1>2. Unmapped(e) = [iface |-> e.iface, ip |-> Unmap(e.ip)]
    BY <1>1 DEF Unmapped
  <1>3. /\ Unmap(e.ip) \in Address /\ ~Unmap(e.ip).mapped
        /\ ~e.ip.mapped => Unmap(e.ip) = e.ip
    BY <1>1, UnmapType
  <1> QED BY <1>1, <1>2, <1>3 DEF Pair, Item

LEMMA UnmapAllType ==
    ASSUME NEW items \in Seq(Item)
    PROVE  /\ UnmapAll(items) \in Seq(Pair)
           /\ ToSet(UnmapAll(items)) = {Unmapped(e) : e \in ToSet(items)}
           /\ items \in Seq(Pair) => UnmapAll(items) = items
  <1>1. UnmapAll(items) = [k \in DOMAIN items |-> Unmapped(items[k])]
    BY DEF UnmapAll, Unmapped
  <1>2. \A k \in DOMAIN items : items[k] \in Item /\ Unmapped(items[k]) \in Pair
    BY UnmappedType
  <1>3. UnmapAll(items) \in Seq(Pair)
    BY <1>1, <1>2
  <1>4. ToSet(UnmapAll(items)) = {Unmapped(e) : e \in ToSet(items)}
    BY <1>1 DEF ToSet
  <1>5. ASSUME items \in Seq(Pair) PROVE UnmapAll(items) = items
    <2>1. \A k \in DOMAIN items : Unmapped(items[k]) = items[k]
      BY <1>2, <1>5, UnmappedType
    <2> QED BY <1>1, <2>1
  <1> QED BY <1>3, <1>4, <1>5

\* For every list of pairs, the normal form holds each of their addresses
\* once, in its unmapped form, in ascending order (snapshot.go:37-65).
THEOREM NormalForm ==
    ASSUME NEW items \in Seq(Item)
    PROVE  /\ NormalizeList(items) \in Seq(Pair)
           /\ Ascending(NormalizeList(items))
           /\ ToSet(NormalizeList(items)) = {Unmapped(e) : e \in ToSet(items)}
  <1> DEFINE once == FoldLeft(AppendNew, <<>>, UnmapAll(items))
  <1>1. /\ UnmapAll(items) \in Seq(Pair)
        /\ ToSet(UnmapAll(items)) = {Unmapped(e) : e \in ToSet(items)}
    BY UnmapAllType
  <1>2. once \in Seq(Pair) /\ IsInjective(once) /\ ToSet(once) = ToSet(UnmapAll(items))
    BY <1>1, FoldDeduplicates
  <1>3. NormalizeList(items) = Sorted(once)
    BY DEF NormalizeList
  <1> HIDE DEF once
  <1> QED BY <1>1, <1>2, <1>3, SortedAscends

\* Normalizing a normal form, as Detect and Hash do, changes nothing
\* (detector.go:44, snapshot.go:69-70).
THEOREM NormalFormIsFixed ==
    ASSUME NEW s \in Seq(Pair), Ascending(s)
    PROVE  NormalizeList(s) = s
  <1>1. s \in Seq(Item)
    BY DEF Pair
  <1>2. UnmapAll(s) = s
    BY <1>1, UnmapAllType
  <1>3. FoldLeft(AppendNew, <<>>, s) = s
    BY AscendingIsInjective, FoldFixes
  <1> QED BY <1>2, <1>3, SortedFixes DEF NormalizeList

\* Two lists have one normal form, and so one hash, exactly if they have the
\* same addresses, in any order, any form and any number of copies: no check
\* takes an order for a change, or a change for none (snapshot.go:28-74).
THEOREM SameAddressesSameForm ==
    ASSUME NEW x \in Seq(Item), NEW y \in Seq(Item)
    PROVE  NormalizeList(x) = NormalizeList(y)
               <=> {Unmapped(e) : e \in ToSet(x)} = {Unmapped(e) : e \in ToSet(y)}
  <1>1. ASSUME {Unmapped(e) : e \in ToSet(x)} = {Unmapped(e) : e \in ToSet(y)}
        PROVE  NormalizeList(x) = NormalizeList(y)
    BY <1>1, NormalForm, AscendingIsUnique
  <1>2. ASSUME NormalizeList(x) = NormalizeList(y)
        PROVE  {Unmapped(e) : e \in ToSet(x)} = {Unmapped(e) : e \in ToSet(y)}
    BY <1>2, NormalForm
  <1> QED BY <1>1, <1>2

\* What Normalize makes of a snapshot is canonical: typed, unmapped, in
\* ascending order, and its own normal form (snapshot.go:28-74).
THEOREM NormalizedIsCanonical ==
    ASSUME NEW p \in Address \cup {None}, NEW items \in Seq(Item),
           NEW o, o = Normalize([public |-> p, interfaces |-> items])
    PROVE  /\ o \in Snapshot
           /\ o.interfaces \in Seq(Pair)
           /\ Ascending(o.interfaces)
           /\ ToSet(o.interfaces) = {Unmapped(e) : e \in ToSet(items)}
           /\ Normalize(o) = o
  <1> DEFINE q == IF p = None THEN None ELSE Unmap(p)
             l == NormalizeList(items)
  <1>1. o = [public |-> q, interfaces |-> l]
    BY DEF Normalize
  <1>2. q \in Address \cup {None} /\ (IF q = None THEN None ELSE Unmap(q)) = q
    <2>1. CASE p = None
      BY <2>1
    <2>2. CASE p # None
      <3>1. Unmap(p) \in Address /\ Unmap(Unmap(p)) = Unmap(p)
        BY <2>2, UnmapType
      <3> QED BY <2>2, <3>1
    <2> QED BY <2>1, <2>2
  <1>3. /\ l \in Seq(Pair) /\ Ascending(l)
        /\ ToSet(l) = {Unmapped(e) : e \in ToSet(items)}
        /\ NormalizeList(l) = l
    BY NormalForm, NormalFormIsFixed
  <1> HIDE DEF q, l
  <1>4. l \in Seq([iface : Names, ip : Address])
    <2>1. \A e \in Pair : e \in Item
      BY DEF Pair
    <2>2. l \in Seq(Item)
      BY <1>3, <2>1
    <2> QED BY <2>2 DEF Item
  <1>5. o \in Snapshot
    BY <1>1, <1>2, <1>4 DEF Snapshot
  <1>6. Normalize(o) = o
    BY <1>1, <1>2, <1>3 DEF Normalize
  <1> QED BY <1>1, <1>3, <1>5, <1>6
====
