------------------------------ MODULE BasicLemmas ------------------------------
(***************************************************************************)
(* Facts about numbers and finite sets that the proofs of several          *)
(* components need.  NatMin is what stands for induction: a statement      *)
(* about all numbers is proved by looking at the least number it fails     *)
(* for.                                                                    *)
(***************************************************************************)
EXTENDS Integers, FiniteSetsExt, TLAPS, WellFoundedInduction, FiniteSetTheorems

\* A well-founded relation that holds wherever < does.
LEMMA NatLess == \E R : /\ IsWellFoundedOn(R, Nat)
                        /\ \A a, b \in Nat : a < b => <<a, b>> \in R
<1>1. \A a, b \in Nat : a < b => <<a, b>> \in OpToRel(<, Nat)
  BY DEF OpToRel
<1>2. QED
  BY <1>1, NatLessThanWellFounded

\* A non-empty set of natural numbers has a least member.
LEMMA NatMin ==
  ASSUME NEW S, S \subseteq Nat, S # {}
  PROVE  \E x \in S : \A y \in S : x <= y
<1>1. PICK R : /\ IsWellFoundedOn(R, Nat)
               /\ \A a, b \in Nat : a < b => <<a, b>> \in R
  BY NatLess
<1>2. PICK x \in S : \A y \in S : ~ (<<y, x>> \in R)
  BY <1>1, WFMin, ZenonT(60)
<1>3. ASSUME NEW y \in S PROVE x <= y
  <2>1. ~ (y < x)
    BY <1>1, <1>2
  <2>2. QED
    BY <2>1
<1>4. QED
  BY <1>3

\* What division computes.
LEMMA DivIsQuotient ==
  ASSUME NEW a \in Nat, NEW b \in Nat \ {0}
  PROVE  /\ a \div b \in Nat
         /\ (a \div b) * b <= a
         /\ a < (a \div b) * b + b
  OBVIOUS

\* Products with one positive factor are ordered as the other factors are.
LEMMA ProductOrder ==
  ASSUME NEW a \in Int, NEW b \in Int, NEW c \in Nat \ {0}
  PROVE  /\ a <= b <=> a * c <= b * c
         /\ a < b <=> a * c + c <= b * c
  OBVIOUS

LEMMA NextMultiple ==
  ASSUME NEW a \in Nat, NEW c \in Nat
  PROVE  /\ a * c \in Nat
         /\ (a + 1) * c = a * c + c
  OBVIOUS

\* The index below a count of chunks: chunk k of n things, c to a chunk.
LEMMA ChunkIndex ==
  ASSUME NEW n \in Nat, NEW c \in Nat \ {0}, NEW k \in Nat
  PROVE  /\ (n + c - 1) \div c \in Nat
         /\ k < (n + c - 1) \div c <=> k * c < n
<1> DEFINE q == (n + c - 1) \div c
<1>1. /\ q \in Nat
      /\ q * c <= n + c - 1
      /\ n + c - 1 < q * c + c
  BY DivIsQuotient
<1> HIDE DEF q
<1>2. k < q <=> k * c + c <= q * c
  BY <1>1, ProductOrder
<1>3. /\ k * c \in Nat
      /\ q * c \in Nat
  BY <1>1
<1>4. ASSUME k < q PROVE k * c < n
  BY <1>1, <1>2, <1>3, <1>4
<1>5. ASSUME k * c < n PROVE k < q
  <2>1. k * c + c < q * c + c
    BY <1>1, <1>3, <1>5
  <2>2. k * c < q * c
    BY <1>3, <2>1
  <2>3. ~ (q <= k)
    BY <1>1, <2>2, <1>3, ProductOrder
  <2>4. QED
    BY <1>1, <2>3
<1>6. QED
  BY <1>1, <1>4, <1>5 DEF q

LEMMA FiniteInterval ==
  ASSUME NEW n \in Nat
  PROVE  /\ IsFiniteSet(1..n) /\ Cardinality(1..n) = n
         /\ IsFiniteSet(0 .. n - 1) /\ Cardinality(0 .. n - 1) = n
<1>1. IsFiniteSet(1..n) /\ Cardinality(1..n) = IF 1 > n THEN 0 ELSE n - 1 + 1
  BY FS_Interval
<1>2. IsFiniteSet(0 .. n - 1) /\ Cardinality(0 .. n - 1) = IF 0 > n - 1 THEN 0 ELSE n - 1 - 0 + 1
  BY FS_Interval
<1>3. QED
  BY <1>1, <1>2

\* The values of a function on a finite set.
LEMMA FiniteRange ==
  ASSUME NEW S, IsFiniteSet(S), NEW f, DOMAIN f = S
  PROVE  IsFiniteSet({f[x] : x \in S})
<1> DEFINE T == {f[x] : x \in S}
           g == [x \in S |-> f[x]]
<1>1. g \in [S -> T] /\ \A t \in T : \E x \in S : g[x] = t
  OBVIOUS
<1>2. g \in Surjection(S, T)
  BY <1>1 DEF Surjection
<1> HIDE DEF T, g
<1>3. IsFiniteSet(T)
  BY <1>2, FS_Surjection
<1>4. QED
  BY <1>3 DEF T

\* What the members of a finite set stand for.
LEMMA FiniteImage ==
  ASSUME NEW S, IsFiniteSet(S), NEW f, DOMAIN f = S, NEW T, \A t \in T : \E x \in S : t = f[x]
  PROVE  IsFiniteSet(T)
<1>1. PICK U : U = {f[x] : x \in S}
  OBVIOUS
<1>2. IsFiniteSet(U) /\ T \subseteq U
  BY <1>1, FiniteRange
<1>3. QED
  BY <1>2, FS_Subset

\* A finite set of integers has a least and a greatest member.
LEMMA LeastMember ==
  ASSUME NEW S, S \subseteq Int, S # {}, IsFiniteSet(S)
  PROVE  Min(S) \in S /\ \A y \in S : Min(S) <= y
<1> DEFINE Below(x) == {y \in S : y < x}
           Ranks == {Cardinality(Below(x)) : x \in S}
<1>1. \A x \in S : IsFiniteSet(Below(x)) /\ Cardinality(Below(x)) \in Nat
  BY FS_Subset, FS_CardinalityType
<1>2. PICK x \in S : \A y \in S : Cardinality(Below(x)) <= Cardinality(Below(y))
  <2>1. Ranks \subseteq Nat /\ Ranks # {}
    BY <1>1
  <2> HIDE DEF Below
  <2>2. PICK n \in Ranks : \A k \in Ranks : n <= k
    BY <2>1, NatMin
  <2>3. QED
    BY <2>2
<1>3. ASSUME NEW y \in S, y < x PROVE FALSE
  <2>1. Below(y) \subseteq Below(x) /\ y \in Below(x) /\ y \notin Below(y)
    <3>1. \A z \in S : z < y => z < x
      BY <1>3
    <3>2. ~ (y < y)
      OBVIOUS
    <3>3. QED
      BY <1>3, <3>1, <3>2
  <2> HIDE DEF Below
  <2>2. /\ Cardinality(Below(y)) <= Cardinality(Below(x))
        /\ Cardinality(Below(x)) = Cardinality(Below(y)) => Below(x) = Below(y)
    BY <1>1, <2>1, FS_Subset
  <2>3. QED
    BY <1>1, <1>2, <2>1, <2>2
<1>4. \A y \in S : x <= y
  BY <1>3
<1>5. QED
  BY <1>4 DEF Min

LEMMA GreatestMember ==
  ASSUME NEW S, S \subseteq Int, S # {}, IsFiniteSet(S)
  PROVE  Max(S) \in S /\ \A y \in S : y <= Max(S)
<1> DEFINE Above(x) == {y \in S : x < y}
           Ranks == {Cardinality(Above(x)) : x \in S}
<1>1. \A x \in S : IsFiniteSet(Above(x)) /\ Cardinality(Above(x)) \in Nat
  BY FS_Subset, FS_CardinalityType
<1>2. PICK x \in S : \A y \in S : Cardinality(Above(x)) <= Cardinality(Above(y))
  <2>1. Ranks \subseteq Nat /\ Ranks # {}
    BY <1>1
  <2> HIDE DEF Above
  <2>2. PICK n \in Ranks : \A k \in Ranks : n <= k
    BY <2>1, NatMin
  <2>3. QED
    BY <2>2
<1>3. ASSUME NEW y \in S, x < y PROVE FALSE
  <2>1. Above(y) \subseteq Above(x) /\ y \in Above(x) /\ y \notin Above(y)
    <3>1. \A z \in S : y < z => x < z
      BY <1>3
    <3>2. ~ (y < y)
      OBVIOUS
    <3>3. QED
      BY <1>3, <3>1, <3>2
  <2> HIDE DEF Above
  <2>2. /\ Cardinality(Above(y)) <= Cardinality(Above(x))
        /\ Cardinality(Above(x)) = Cardinality(Above(y)) => Above(x) = Above(y)
    BY <1>1, <2>1, FS_Subset
  <2>3. QED
    BY <1>1, <1>2, <2>1, <2>2
<1>4. \A y \in S : x >= y
  BY <1>3
<1>5. PICK z : z = Max(S)
  OBVIOUS
<1>6. z \in S /\ \A y \in S : z >= y
  BY <1>4, <1>5 DEF Max
<1>7. QED
  BY <1>5, <1>6

\* Sets whose members are in one-to-one correspondence have one cardinality.
LEMMA SameSize ==
  ASSUME NEW S, IsFiniteSet(S), NEW T, NEW f,
         \A x \in S : f[x] \in T,
         \A t \in T : \E x \in S : f[x] = t,
         \A x, y \in S : f[x] = f[y] => x = y
  PROVE  IsFiniteSet(T) /\ Cardinality(T) = Cardinality(S)
<1> DEFINE g == [x \in S |-> f[x]]
<1>1. g \in Surjection(S, T)
  BY DEF Surjection
<1>2. g \in Injection(S, T)
  BY DEF Injection, IsInjective
<1> HIDE DEF g
<1>3. QED
  BY <1>1, <1>2, FS_Surjection

\* A finite set, ordered strictly by R, has a first member.
LEMMA FirstOfFinite ==
  ASSUME NEW S, IsFiniteSet(S), S # {}, NEW R,
         \A x \in S : <<x, x>> \notin R,
         \A x, y, z \in S : <<x, y>> \in R /\ <<y, z>> \in R => <<x, z>> \in R,
         \A x, y \in S : x = y \/ <<x, y>> \in R \/ <<y, x>> \in R
  PROVE  \E x \in S : \A y \in S : y = x \/ <<x, y>> \in R
<1> DEFINE before(x) == {z \in S : <<z, x>> \in R}
           N == {Cardinality(before(x)) : x \in S}
<1>1. \A x \in S : IsFiniteSet(before(x)) /\ Cardinality(before(x)) \in Nat
  BY FS_Subset, FS_CardinalityType
<1>2. N \subseteq Nat /\ N # {}
  <2> HIDE DEF before
  <2>1. QED
    BY <1>1
<1>3. PICK x \in S : \A y \in S : Cardinality(before(x)) <= Cardinality(before(y))
  <2> HIDE DEF before
  <2>1. PICK n \in N : \A k \in N : n <= k
    BY <1>2, NatMin
  <2>2. QED
    BY <2>1
<1>4. ASSUME NEW y \in S, y # x, <<x, y>> \notin R PROVE FALSE
  <2>1. <<y, x>> \in R
    BY <1>4
  <2>2. before(y) \subseteq before(x) /\ y \in before(x) /\ y \notin before(y)
    BY <2>1
  <2> HIDE DEF before
  <2>3. Cardinality(before(y)) < Cardinality(before(x))
    BY <1>1, <2>2, FS_Subset
  <2>4. QED
    BY <1>1, <1>3, <2>3
<1>5. QED
  BY <1>3, <1>4

================================================================================
