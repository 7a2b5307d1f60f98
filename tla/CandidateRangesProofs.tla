------------------------ MODULE CandidateRangesProofs ------------------------
(***************************************************************************)
(* Proofs about a lookup in a sidecar index: joining ranges, twice, loses  *)
(* no row and invents none as long as no range lies inside another, and a  *)
(* scan narrowed by the lookup returns the rows it would return without.   *)
(***************************************************************************)
EXTENDS CandidateRanges, BasicLemmas

-----------------------------------------------------------------------------
(***************************************************************************)
(* Sorted lists of ranges, and runs in them.                               *)
(***************************************************************************)
ListedRange ==
    [file : Nat, morsel : 0 .. MorselCount, start : Nat, count : Nat \ {0}, entry : Nat]

SamePlace(a, b) ==
    a.file = b.file /\ a.morsel = b.morsel /\ a.start = b.start /\ a.entry = b.entry

\* What can be sorted in one way only.
Listable(s) ==
    /\ IsFiniteSet(s) /\ s \subseteq ListedRange
    /\ \A a, b \in s : SamePlace(a, b) => a = b

LEMMA OrderIsStrict ==
  ASSUME NEW byFile \in BOOLEAN, NEW s, Listable(s)
  PROVE  /\ \A a \in s : ~Before(byFile, a, a)
         /\ \A a, b, c \in s : Before(byFile, a, b) /\ Before(byFile, b, c) => Before(byFile, a, c)
         /\ \A a, b \in s : a = b \/ Before(byFile, a, b) \/ Before(byFile, b, a)
<1>1. \A a \in s : a.file \in Nat /\ a.morsel \in Nat /\ a.start \in Nat /\ a.entry \in Nat
  BY CandidateAssumption DEF Listable, ListedRange
<1>2. \A a \in s : ~Before(byFile, a, a)
  BY <1>1 DEF Before, ListedBefore
<1>3. ASSUME NEW a \in s, NEW b \in s, NEW c \in s, Before(byFile, a, b), Before(byFile, b, c)
      PROVE  Before(byFile, a, c)
  BY <1>1, <1>3 DEF Before, ListedBefore
<1>4. ASSUME NEW a \in s, NEW b \in s, ~Before(byFile, a, b), ~Before(byFile, b, a)
      PROVE  a = b
  <2>1. SamePlace(a, b)
    BY <1>1, <1>4 DEF Before, ListedBefore, SamePlace
  <2>2. QED
    BY <2>1 DEF Listable
<1>5. QED
  BY <1>2, <1>3, <1>4

LEMMA FirstAndLast ==
  ASSUME NEW byFile \in BOOLEAN, NEW s, Listable(s), NEW t, t \subseteq s, t # {}
  PROVE  /\ \E a \in t : \A b \in t : b = a \/ Before(byFile, a, b)
         /\ \E a \in t : \A b \in t : b = a \/ Before(byFile, b, a)
<1>1. IsFiniteSet(t)
  BY FS_Subset DEF Listable
<1>2. \E a \in t : \A b \in t : b = a \/ Before(byFile, a, b)
  <2> DEFINE R == {p \in s \X s : Before(byFile, p[1], p[2])}
  <2>1. \A a, b \in t : <<a, b>> \in R <=> Before(byFile, a, b)
    OBVIOUS
  <2> HIDE DEF R
  <2>2. \A x \in t : <<x, x>> \notin R
    BY <2>1, OrderIsStrict
  <2>3. \A x, y, z \in t : <<x, y>> \in R /\ <<y, z>> \in R => <<x, z>> \in R
    BY <2>1, OrderIsStrict
  <2>4. \A x, y \in t : x = y \/ <<x, y>> \in R \/ <<y, x>> \in R
    BY <2>1, OrderIsStrict
  <2>5. \E x \in t : \A y \in t : y = x \/ <<x, y>> \in R
    BY <1>1, <2>2, <2>3, <2>4, FirstOfFinite, SMTT(30)
  <2>6. QED
    BY <2>1, <2>5
<1>3. \E a \in t : \A b \in t : b = a \/ Before(byFile, b, a)
  <2> DEFINE R == {p \in s \X s : Before(byFile, p[2], p[1])}
  <2>1. \A a, b \in t : <<a, b>> \in R <=> Before(byFile, b, a)
    OBVIOUS
  <2> HIDE DEF R
  <2>2. \A x \in t : <<x, x>> \notin R
    BY <2>1, OrderIsStrict
  <2>3. \A x, y, z \in t : <<x, y>> \in R /\ <<y, z>> \in R => <<x, z>> \in R
    BY <2>1, OrderIsStrict
  <2>4. \A x, y \in t : x = y \/ <<x, y>> \in R \/ <<y, x>> \in R
    BY <2>1, OrderIsStrict
  <2>5. \E x \in t : \A y \in t : y = x \/ <<x, y>> \in R
    BY <1>1, <2>2, <2>3, <2>4, FirstOfFinite, SMTT(30)
  <2>6. QED
    BY <2>1, <2>5
<1>4. QED
  BY <1>2, <1>3

Upto(byFile, a, b) == a = b \/ Before(byFile, a, b)

LEMMA NeighboursUnique ==
  ASSUME NEW byFile \in BOOLEAN, NEW s, Listable(s), NEW a \in s, NEW b \in s, NEW c \in s
  PROVE  /\ Continues(byFile, s, a, c) /\ Continues(byFile, s, b, c) => a = b
         /\ Continues(byFile, s, a, b) /\ Continues(byFile, s, a, c) => b = c
BY OrderIsStrict DEF Continues

\* Every range is in a run.
LEMMA RunOf ==
  ASSUME NEW byFile \in BOOLEAN, NEW s, Listable(s), NEW b \in s
  PROVE  \E a, c \in s : Run(byFile, s, a, c) /\ Upto(byFile, a, b) /\ Upto(byFile, b, c)
<1> DEFINE Prec(x, y) == Before(byFile, x, y)
           Joins(x, y) == Continues(byFile, s, x, y)
           firsts == {x \in s : Upto(byFile, x, b) /\ ~ \E y \in s : Joins(y, x)}
           lasts == {x \in s : Upto(byFile, b, x) /\ ~ \E y \in s : Joins(x, y)}
<1>1. /\ \A x \in s : ~Prec(x, x)
      /\ \A x, y, z \in s : Prec(x, y) /\ Prec(y, z) => Prec(x, z)
      /\ \A x, y \in s : x = y \/ Prec(x, y) \/ Prec(y, x)
  BY OrderIsStrict
<1>2. \A x, y \in s : Joins(x, y) => Prec(x, y) /\ \A z \in s : ~(Prec(x, z) /\ Prec(z, y))
  BY DEF Continues
<1>3. \A x \in s : Upto(byFile, x, b) <=> x = b \/ Prec(x, b)
  BY DEF Upto
<1>4. \A x \in s : Upto(byFile, b, x) <=> x = b \/ Prec(b, x)
  BY DEF Upto
<1>5. \A t : t \subseteq s /\ t # {} =>
        /\ \E x \in t : \A y \in t : y = x \/ Prec(x, y)
        /\ \E x \in t : \A y \in t : y = x \/ Prec(y, x)
  BY FirstAndLast
<1>6. \A x \in s, y \in s, z \in s : Joins(x, y) /\ Joins(x, z) => y = z
  BY NeighboursUnique
<1> HIDE DEF Prec, Joins
<1>7. firsts # {}
  <2> DEFINE t == {x \in s : x = b \/ Prec(x, b)}
  <2>1. PICK v \in t : \A y \in t : y = v \/ Prec(v, y)
    <3>1. t \subseteq s /\ b \in t
      OBVIOUS
    <3>2. QED
      BY <1>5, <3>1
  <2>2. ASSUME NEW y \in s, Joins(y, v) PROVE FALSE
    BY <1>1, <1>2, <2>1, <2>2
  <2>3. QED
    BY <1>3, <2>1, <2>2
<1>8. PICK a \in firsts : \A y \in firsts : y = a \/ Prec(y, a)
  BY <1>5, <1>7
<1>9. ASSUME NEW y \in s, Prec(a, y), y = b \/ Prec(y, b) PROVE \E x \in s : Joins(x, y)
  BY <1>1, <1>3, <1>8, <1>9
<1>10. lasts # {}
  <2> DEFINE t == {x \in s : x = b \/ Prec(b, x)}
  <2>1. PICK v \in t : \A y \in t : y = v \/ Prec(y, v)
    <3>1. t \subseteq s /\ b \in t
      OBVIOUS
    <3>2. QED
      BY <1>5, <3>1
  <2>2. ASSUME NEW y \in s, Joins(v, y) PROVE FALSE
    BY <1>1, <1>2, <2>1, <2>2
  <2>3. QED
    BY <1>4, <2>1, <2>2
<1>11. PICK c \in lasts : \A y \in lasts : y = c \/ Prec(c, y)
  BY <1>5, <1>10
<1>12. ASSUME NEW y \in s, Prec(b, y), y = c \/ Prec(y, c) PROVE \E x \in s : Joins(x, y)
  <2> DEFINE t == {x \in s : Prec(x, y)}
  <2>1. PICK p \in t : \A x \in t : x = p \/ Prec(x, p)
    <3>1. t \subseteq s /\ b \in t /\ t # {}
      BY <1>12
    <3>2. QED
      BY <1>5, <3>1
  <2>2. p \in s /\ Prec(p, y) /\ (p = b \/ Prec(b, p)) /\ p # c /\ ~Prec(c, p)
    BY <1>1, <1>11, <1>12, <2>1
  <2>3. PICK z \in s : Joins(p, z)
    BY <1>4, <1>11, <2>2
  <2>4. z = y
    BY <1>1, <1>2, <2>1, <2>2, <2>3
  <2>5. QED
    BY <2>2, <2>3, <2>4
<1>13. a \in s /\ c \in s /\ (a = b \/ Prec(a, b)) /\ (b = c \/ Prec(b, c))
  BY <1>3, <1>4, <1>8, <1>11
<1>14. /\ a = c \/ Prec(a, c)
       /\ ~ \E x \in s : Joins(x, a)
       /\ ~ \E x \in s : Joins(c, x)
       /\ \A y \in s : Prec(a, y) /\ ~Prec(c, y) => \E x \in s : Joins(x, y)
  BY <1>1, <1>8, <1>9, <1>11, <1>12, <1>13
<1>15. Run(byFile, s, a, c)
  BY <1>14 DEF Run, Prec, Joins
<1>16. QED
  BY <1>13, <1>15 DEF Upto, Prec

\* All of a run is of one scope, and its ranges start one after the other.
LEMMA RunIsOrdered ==
  ASSUME NEW byFile \in BOOLEAN, NEW s, Listable(s), NEW a \in s, NEW c \in s,
         Run(byFile, s, a, c)
  PROVE  \A b \in s : Upto(byFile, a, b) /\ Upto(byFile, b, c) =>
            SameScope(byFile, a, b) /\ a.start <= b.start
<1> DEFINE Prec(x, y) == Before(byFile, x, y)
           Right(x) == SameScope(byFile, a, x) /\ a.start <= x.start
           wrong == {x \in s : Upto(byFile, a, x) /\ Upto(byFile, x, c) /\ ~Right(x)}
<1>1. /\ \A x \in s : ~Prec(x, x)
      /\ \A x, y, z \in s : Prec(x, y) /\ Prec(y, z) => Prec(x, z)
      /\ \A x, y \in s : x = y \/ Prec(x, y) \/ Prec(y, x)
  BY OrderIsStrict
<1>2. \A x \in s : x.start \in Nat /\ x.morsel \in Nat /\ x.file \in Nat
  BY CandidateAssumption DEF Listable, ListedRange
<1>3. SUFFICES ASSUME wrong # {} PROVE FALSE
  OBVIOUS
<1>4. PICK x \in wrong : \A y \in wrong : y = x \/ Prec(x, y)
  BY <1>3, FirstAndLast
<1>5. x # a
  BY <1>2, <1>4 DEF SameScope
<1>6. Prec(a, x) /\ ~Prec(c, x)
  BY <1>1, <1>4, <1>5 DEF Upto
<1>7. PICK p \in s : Continues(byFile, s, p, x)
  BY <1>4, <1>6 DEF Run
<1>8. Prec(p, x) /\ SameScope(byFile, p, x) /\ ~(Prec(p, a) /\ Prec(a, x))
  BY <1>4, <1>7 DEF Continues
<1>9. Upto(byFile, a, p) /\ Upto(byFile, p, c)
  BY <1>1, <1>4, <1>6, <1>8 DEF Upto
<1>10. Right(p)
  BY <1>1, <1>4, <1>8, <1>9
<1>11. p.start <= x.start
  BY <1>2, <1>4, <1>8 DEF Before, SameScope, ListedBefore
<1>12. Right(x)
  BY <1>2, <1>4, <1>8, <1>10, <1>11 DEF SameScope
<1>13. QED
  BY <1>4, <1>12

LEMMA JoinFields ==
  ASSUME NEW a \in ListedRange, NEW c \in ListedRange, a.start <= c.start
  PROVE  /\ Join(a, c) \in ListedRange
         /\ EndOf(Join(a, c)) = EndOf(c)
         /\ Join(a, c).file = a.file /\ Join(a, c).morsel = a.morsel
         /\ Join(a, c).start = a.start /\ Join(a, c).entry = a.entry
         /\ a.start < EndOf(c) /\ EndOf(c) \in Nat
BY DEF Join, EndOf, ListedRange

\* Joining invents no row: those of a run are rows of one of its ranges.
LEMMA RunRowsListed ==
  ASSUME NEW byFile \in BOOLEAN, NEW s, Listable(s), NEW a \in s, NEW c \in s,
         Run(byFile, s, a, c), NEW r \in RowsIn(Join(a, c))
  PROVE  \E b \in s : SameScope(byFile, a, b) /\ r \in RowsIn(b)
<1> DEFINE Prec(x, y) == Before(byFile, x, y)
           begun == {x \in s : Upto(byFile, a, x) /\ Upto(byFile, x, c) /\ x.start <= r}
<1>1. /\ \A x \in s : ~Prec(x, x)
      /\ \A x, y, z \in s : Prec(x, y) /\ Prec(y, z) => Prec(x, z)
      /\ \A x, y \in s : x = y \/ Prec(x, y) \/ Prec(y, x)
  BY OrderIsStrict
<1>2. \A x \in s : x \in ListedRange /\ x.start \in Nat /\ EndOf(x) \in Nat
  BY DEF Listable, ListedRange, EndOf
<1>3. Upto(byFile, a, a) /\ Upto(byFile, c, c) /\ Upto(byFile, a, c)
  BY DEF Upto, Run
<1>4. \A x \in s : Upto(byFile, a, x) /\ Upto(byFile, x, c) =>
                      SameScope(byFile, a, x) /\ a.start <= x.start
  BY RunIsOrdered
<1>5. r \in Int /\ a.start <= r /\ r < EndOf(c)
  <2>1. a.start <= c.start
    BY <1>3, <1>4
  <2>2. EndOf(Join(a, c)) = EndOf(c) /\ Join(a, c).start = a.start
    BY <1>2, <2>1, JoinFields
  <2>3. QED
    BY <1>2, <2>2 DEF RowsIn
<1>6. PICK x \in begun : \A y \in begun : y = x \/ Prec(y, x)
  BY <1>3, <1>5, FirstAndLast
<1>7. CASE r < EndOf(x)
  BY <1>2, <1>4, <1>5, <1>6, <1>7 DEF RowsIn
<1>8. CASE EndOf(x) <= r
  <2> DEFINE after == {z \in s : Prec(x, z)}
  <2>1. x # c /\ Prec(x, c)
    BY <1>2, <1>5, <1>6, <1>8 DEF Upto
  <2>2. PICK y \in after : \A z \in after : z = y \/ Prec(y, z)
    BY <2>1, FirstAndLast
  <2>3. Prec(a, y) /\ ~Prec(c, y) /\ Upto(byFile, y, c)
    BY <1>1, <1>6, <2>1, <2>2 DEF Upto
  <2>4. PICK q \in s : Continues(byFile, s, q, y)
    BY <2>2, <2>3 DEF Run
  <2>5. Prec(q, y) /\ ~ \E z \in s : Prec(q, z) /\ Prec(z, y)
    BY <2>4 DEF Continues
  <2>6. q = x
    BY <1>1, <1>6, <2>2, <2>5
  <2>7. y.start <= EndOf(x)
    BY <2>4, <2>6 DEF Continues, Touches
  <2>8. y \in begun
    BY <1>2, <1>5, <1>8, <2>2, <2>3, <2>7 DEF Upto
  <2>9. QED
    BY <1>1, <1>6, <2>2, <2>8
<1>9. QED
  BY <1>2, <1>5, <1>6, <1>7, <1>8

-----------------------------------------------------------------------------
(***************************************************************************)
(* What joining makes of a list of ranges.                                 *)
(***************************************************************************)
LEMMA MergedMembers ==
  ASSUME NEW byFile \in BOOLEAN, NEW s, Listable(s), NEW x \in Merged(byFile, s)
  PROVE  \E a, c \in s :
            /\ Run(byFile, s, a, c) /\ x = Join(a, c) /\ SameScope(byFile, a, c)
            /\ x \in ListedRange /\ SamePlace(x, a) /\ EndOf(x) = EndOf(c)
            /\ x.start < EndOf(x)
<1>1. PICK p \in s \X s : Run(byFile, s, p[1], p[2]) /\ x = Join(p[1], p[2])
  BY DEF Merged
<1> DEFINE a == p[1]
           c == p[2]
<1>2. a \in s /\ c \in s /\ a \in ListedRange /\ c \in ListedRange
  BY DEF Listable
<1>3. SameScope(byFile, a, c) /\ a.start <= c.start
  BY <1>1, <1>2, RunIsOrdered DEF Run, Upto
<1>4. QED
  BY <1>1, <1>2, <1>3, JoinFields DEF SamePlace

LEMMA MergedListable ==
  ASSUME NEW byFile \in BOOLEAN, NEW s, Listable(s)
  PROVE  Listable(Merged(byFile, s))
<1> DEFINE runs == {q \in s \X s : Run(byFile, s, q[1], q[2])}
           join == [q \in runs |-> Join(q[1], q[2])]
<1>1. IsFiniteSet(runs)
  BY FS_Product, FS_Subset DEF Listable
<1>2. IsFiniteSet({join[q] : q \in runs})
  <2>1. DOMAIN join = runs
    OBVIOUS
  <2> HIDE DEF runs, join
  <2>2. QED
    BY <1>1, <2>1, FiniteRange
<1>3. Merged(byFile, s) = {join[q] : q \in runs}
  BY DEF Merged
<1>4. ASSUME NEW x \in Merged(byFile, s), NEW y \in Merged(byFile, s), SamePlace(x, y)
      PROVE  x = y
  <2>1. PICK a, c \in s : Run(byFile, s, a, c) /\ x = Join(a, c) /\ SamePlace(x, a)
    BY MergedMembers
  <2>2. PICK b, d \in s : Run(byFile, s, b, d) /\ y = Join(b, d) /\ SamePlace(y, b)
    BY MergedMembers
  <2>3. a = b
    BY <1>4, <2>1, <2>2 DEF SamePlace, Listable
  <2>4. ASSUME NEW u \in s, NEW v \in s, Run(byFile, s, a, u), Run(byFile, s, a, v),
               Before(byFile, u, v)
        PROVE  FALSE
    <3> DEFINE after == {z \in s : Before(byFile, u, z)}
    <3>1. PICK z \in after : \A w \in after : w = z \/ Before(byFile, z, w)
      BY <2>4, FirstAndLast
    <3>2. Before(byFile, a, z) /\ ~Before(byFile, v, z)
      BY <2>4, <3>1, OrderIsStrict DEF Run
    <3>3. PICK q \in s : Continues(byFile, s, q, z)
      BY <2>4, <3>1, <3>2 DEF Run
    <3>4. q = u
      BY <3>1, <3>3, OrderIsStrict DEF Continues
    <3>5. QED
      BY <2>4, <3>1, <3>3, <3>4 DEF Run
  <2>5. c = d
    BY <2>1, <2>2, <2>3, <2>4, OrderIsStrict
  <2>6. QED
    BY <2>1, <2>2, <2>3, <2>5
<1>5. QED
  BY <1>2, <1>3, <1>4, MergedMembers DEF Listable

\* Joining invents no row.
LEMMA MergedInventsNothing ==
  ASSUME NEW byFile \in BOOLEAN, NEW s, Listable(s), NEW x \in Merged(byFile, s), NEW r \in RowsIn(x)
  PROVE  \E b \in s : SameScope(byFile, x, b) /\ r \in RowsIn(b)
<1>1. PICK a, c \in s : Run(byFile, s, a, c) /\ x = Join(a, c) /\ SamePlace(x, a)
  BY MergedMembers
<1>2. PICK b \in s : SameScope(byFile, a, b) /\ r \in RowsIn(b)
  BY <1>1, RunRowsListed
<1>3. QED
  BY <1>1, <1>2 DEF SamePlace, SameScope

\* No range lies inside another: who starts later ends later.
Flat(byFile, s) ==
    \A a, b \in s : SameScope(byFile, a, b) /\ a.start <= b.start => EndOf(a) <= EndOf(b)

\* Then joining loses no row.
LEMMA MergedLosesNothing ==
  ASSUME NEW byFile \in BOOLEAN, NEW s, Listable(s), Flat(byFile, s), NEW b \in s
  PROVE  \E x \in Merged(byFile, s) : SameScope(byFile, x, b) /\ RowsIn(b) \subseteq RowsIn(x)
<1>1. PICK a, c \in s : Run(byFile, s, a, c) /\ Upto(byFile, a, b) /\ Upto(byFile, b, c)
  BY RunOf
<1> DEFINE x == Join(a, c)
<1>2. x \in Merged(byFile, s)
  <2>1. <<a, c>> \in {q \in s \X s : Run(byFile, s, q[1], q[2])}
    BY <1>1
  <2>2. QED
    BY <2>1 DEF Merged
<1>3. SameScope(byFile, a, b) /\ a.start <= b.start
  BY <1>1, RunIsOrdered
<1>4. SameScope(byFile, a, c) /\ a.start <= c.start
  BY <1>1, RunIsOrdered DEF Upto, Run
<1>5. \A y \in s : /\ y \in ListedRange /\ y.start \in Nat /\ EndOf(y) \in Nat
                   /\ y.morsel \in Nat /\ y.file \in Nat
  BY CandidateAssumption DEF Listable, ListedRange, EndOf
<1>6. SameScope(byFile, b, c) /\ b.start <= c.start
  <2>1. SameScope(byFile, b, c)
    BY <1>3, <1>4 DEF SameScope
  <2>2. QED
    BY <1>1, <1>5, <2>1 DEF Upto, Before, SameScope, ListedBefore
<1>7. EndOf(b) <= EndOf(c)
  BY <1>6 DEF Flat
<1>8. EndOf(x) = EndOf(c) /\ x.start = a.start /\ x.file = a.file /\ x.morsel = a.morsel
  BY <1>4, <1>5, JoinFields
<1>9. RowsIn(b) \subseteq RowsIn(x)
  BY <1>3, <1>5, <1>7, <1>8 DEF RowsIn
<1>10. QED
  BY <1>2, <1>3, <1>8, <1>9 DEF SameScope

\* Between two joined ranges of one scope there is a gap.
LEMMA MergedApart ==
  ASSUME NEW byFile \in BOOLEAN, NEW s, Listable(s),
         NEW x \in Merged(byFile, s), NEW y \in Merged(byFile, s), x # y, SameScope(byFile, x, y)
  PROVE  EndOf(x) < y.start \/ EndOf(y) < x.start
<1>1. PICK a, c \in s : /\ Run(byFile, s, a, c) /\ SameScope(byFile, a, c)
                        /\ SamePlace(x, a) /\ EndOf(x) = EndOf(c) /\ x \in ListedRange
  BY MergedMembers
<1>2. PICK b, d \in s : /\ Run(byFile, s, b, d) /\ SameScope(byFile, b, d)
                        /\ SamePlace(y, b) /\ EndOf(y) = EndOf(d) /\ y \in ListedRange
  BY MergedMembers
<1>3. a # b
  BY <1>1, <1>2, MergedListable DEF SamePlace, Listable
<1>4. SameScope(byFile, a, b)
  BY <1>1, <1>2 DEF SamePlace, SameScope
<1>5. \A z \in s : z.start \in Nat /\ z.morsel \in Nat /\ z.file \in Nat /\ EndOf(z) \in Nat
  BY CandidateAssumption DEF Listable, ListedRange, EndOf
<1>6. ASSUME NEW u \in s, NEW v \in s, NEW w \in s, Run(byFile, s, u, v), SameScope(byFile, u, v),
             SameScope(byFile, u, w), \A q \in s : ~Continues(byFile, s, q, w), Before(byFile, u, w)
      PROVE  EndOf(v) < w.start
  <2> DEFINE after == {z \in s : Before(byFile, v, z)}
  <2>1. Before(byFile, v, w)
    BY <1>6 DEF Run
  <2>2. PICK n \in after : \A z \in after : z = n \/ Before(byFile, n, z)
    BY <2>1, FirstAndLast
  <2>3. Before(byFile, v, n) /\ (n = w \/ Before(byFile, n, w))
    BY <2>1, <2>2
  <2>4. SameScope(byFile, v, w)
    BY <1>6 DEF SameScope
  <2>5. SameScope(byFile, v, n) /\ n.start <= w.start
    BY <1>5, <2>2, <2>3, <2>4 DEF Before, SameScope, ListedBefore
  <2>6. ~ \E z \in s : Before(byFile, v, z) /\ Before(byFile, z, n)
    BY <2>2, OrderIsStrict
  <2>7. ~Touches(v, n)
    BY <1>6, <2>2, <2>3, <2>5, <2>6 DEF Run, Continues
  <2>8. QED
    BY <1>5, <2>2, <2>5, <2>7 DEF Touches
<1>7. CASE Before(byFile, a, b)
  <2>1. EndOf(c) < b.start
    BY <1>1, <1>2, <1>4, <1>6, <1>7 DEF Run
  <2>2. QED
    BY <1>1, <1>2, <2>1 DEF SamePlace
<1>8. CASE Before(byFile, b, a)
  <2>1. SameScope(byFile, b, a)
    BY <1>4 DEF SameScope
  <2>2. EndOf(d) < a.start
    BY <1>1, <1>2, <1>6, <1>8, <2>1 DEF Run
  <2>3. QED
    BY <1>1, <1>2, <2>2 DEF SamePlace
<1>9. QED
  BY <1>3, <1>7, <1>8, OrderIsStrict

-----------------------------------------------------------------------------
(***************************************************************************)
(* Rows, morsels and the index the writer builds.                          *)
(***************************************************************************)
LEMMA RowPlaces ==
  /\ \A r \in Rows : r \in Nat /\ MorselOf(r) \in Morsels /\ r \in RowsOf(MorselOf(r))
  /\ \A m \in Morsels : \A r \in RowsOf(m) : r \in Rows /\ MorselOf(r) = m
  /\ Morsels \subseteq Nat /\ NoMorsel \notin Morsels
  /\ IsFiniteSet(Rows)
<1>1. MorselRows * MorselCount \in Nat
  BY CandidateAssumption
<1>2. ASSUME NEW r \in Rows
      PROVE  r \in Nat /\ MorselOf(r) \in Morsels /\ r \in RowsOf(MorselOf(r))
  <2> DEFINE q == r \div MorselRows
  <2>1. r \in Nat /\ r < MorselRows * MorselCount
    BY <1>1 DEF Rows
  <2>2. q \in Nat /\ q * MorselRows <= r /\ r < q * MorselRows + MorselRows
    BY <2>1, CandidateAssumption, DivIsQuotient
  <2> HIDE DEF q
  <2>3. ~(MorselCount <= q)
    <3>1. MorselCount <= q <=> MorselCount * MorselRows <= q * MorselRows
      BY <2>2, CandidateAssumption, ProductOrder
    <3>2. MorselCount * MorselRows = MorselRows * MorselCount /\ q * MorselRows \in Nat
      BY <2>2, CandidateAssumption
    <3>3. QED
      BY <1>1, <2>1, <2>2, <3>1, <3>2
  <2>4. q \in Morsels
    BY <2>2, <2>3, CandidateAssumption DEF Morsels
  <2>5. r \in RowsOf(q)
    <3>1. q * MorselRows \in Nat
      BY <2>2, CandidateAssumption
    <3>2. QED
      BY <2>1, <2>2, <3>1, CandidateAssumption DEF RowsOf
  <2>6. QED
    BY <2>1, <2>4, <2>5 DEF MorselOf, q
<1>3. ASSUME NEW m \in Morsels, NEW r \in RowsOf(m)
      PROVE  r \in Rows /\ MorselOf(r) = m
  <2>1. m \in Nat /\ m < MorselCount /\ m * MorselRows \in Nat
    BY CandidateAssumption DEF Morsels
  <2>2. r \in Nat /\ m * MorselRows <= r /\ r < m * MorselRows + MorselRows
    BY <2>1, CandidateAssumption DEF RowsOf
  <2>3. m * MorselRows + MorselRows <= MorselCount * MorselRows
    BY <2>1, CandidateAssumption, ProductOrder
  <2>4. r \in Rows
    <3>1. MorselCount * MorselRows = MorselRows * MorselCount
      BY CandidateAssumption
    <3>2. QED
      BY <1>1, <2>1, <2>2, <2>3, <3>1, CandidateAssumption DEF Rows
  <2>5. MorselOf(r) = m
    <3> DEFINE q == r \div MorselRows
    <3>1. q \in Nat /\ q * MorselRows <= r /\ r < q * MorselRows + MorselRows
      BY <2>2, CandidateAssumption, DivIsQuotient
    <3> HIDE DEF q
    <3>2. q * MorselRows \in Nat
      BY <3>1, CandidateAssumption
    <3>3. ~(q < m) /\ ~(m < q)
      BY <2>1, <2>2, <3>1, <3>2, CandidateAssumption, ProductOrder
    <3>4. QED
      BY <2>1, <3>1, <3>3 DEF MorselOf, q
  <2>6. QED
    BY <2>4, <2>5
<1>4. Morsels \subseteq Nat /\ NoMorsel \notin Morsels
  BY CandidateAssumption DEF Morsels, NoMorsel
<1>5. IsFiniteSet(Rows)
  BY <1>1, FiniteInterval DEF Rows
<1>6. QED
  BY <1>2, <1>3, <1>4, <1>5

\* A row lies in a stretch of its morsel.
LEMMA StretchOf ==
  ASSUME NEW t, NEW r \in Rows
  PROVE  \E first, last \in Rows :
            /\ Stretch(t, t[r], first, last) /\ r \in first .. last
            /\ MorselOf(first) = MorselOf(r)
<1> DEFINE m == MorselOf(r)
           On(x) == Holds(t, t[r], m, x)
           lows == {a \in Rows : a <= r /\ \A x \in a .. r : On(x)}
           highs == {b \in Nat : r <= b /\ ~On(b + 1)}
<1>1. m \in Morsels /\ r \in Nat /\ On(r)
  BY RowPlaces DEF Holds
<1>2. \A x : On(x) => x \in Rows /\ x \in Nat /\ MorselOf(x) = m
  BY <1>1, RowPlaces DEF Holds
<1> HIDE DEF On, m
<1>3. PICK a \in lows : \A x \in lows : a <= x
  <2>1. r <= r /\ \A x \in r .. r : On(x)
    <3>1. \A x \in r .. r : x = r
      BY <1>1
    <3>2. QED
      BY <1>1, <3>1
  <2>2. r \in lows
    BY <2>1
  <2>3. lows \subseteq Nat
    BY RowPlaces
  <2>4. QED
    BY <2>2, <2>3, NatMin
<1>4. ~On(a - 1)
  <2>1. SUFFICES ASSUME On(a - 1) PROVE FALSE
    OBVIOUS
  <2>2. a - 1 \in Rows /\ a - 1 \in Nat /\ a \in Nat
    BY <1>2, <1>3, <2>1, RowPlaces
  <2>3. \A x \in a - 1 .. r : x = a - 1 \/ x \in a .. r
    BY <1>1, <2>2
  <2>4. a - 1 \in lows
    BY <1>1, <1>3, <2>1, <2>2, <2>3
  <2>5. QED
    BY <1>3, <2>2, <2>4
<1>5. PICK b \in highs : \A x \in highs : b <= x
  <2>1. highs # {}
    <3> DEFINE top == m * MorselRows + MorselRows - 1
    <3>1. m * MorselRows \in Nat /\ top \in Nat /\ r <= top
      BY <1>1, CandidateAssumption, RowPlaces DEF RowsOf, Morsels, m
    <3>2. ~On(top + 1)
      BY <3>1, CandidateAssumption DEF On, Holds, RowsOf
    <3>3. QED
      BY <3>1, <3>2
  <2>2. highs \subseteq Nat
    OBVIOUS
  <2>3. QED
    BY <2>1, <2>2, NatMin
<1>6. \A x \in r .. b : On(x)
  <2>1. SUFFICES ASSUME NEW x \in r .. b, ~On(x) PROVE FALSE
    OBVIOUS
  <2>2. x # r /\ x \in Nat /\ r <= x - 1 /\ x - 1 < b
    BY <1>1, <1>5, <2>1
  <2>3. x - 1 \in highs
    BY <1>1, <2>1, <2>2
  <2>4. QED
    BY <1>5, <2>2, <2>3
<1>7. a \in Rows /\ b \in Rows /\ a \in Nat /\ b \in Nat /\ a <= r /\ r <= b
  BY <1>1, <1>2, <1>3, <1>5, <1>6
<1>8. \A x \in a .. b : On(x)
  <2>1. \A x \in a .. b : x \in a .. r \/ x \in r .. b
    BY <1>1, <1>7
  <2>2. QED
    BY <1>3, <1>6, <2>1
<1>9. MorselOf(a) = m
  BY <1>2, <1>7, <1>8
<1>10. Stretch(t, t[r], a, b)
  BY <1>4, <1>5, <1>7, <1>8, <1>9 DEF Stretch, On
<1>11. QED
  BY <1>1, <1>7, <1>9, <1>10 DEF m

LEMMA StretchesApart ==
  ASSUME NEW t, NEW v, NEW w, NEW a \in Rows, NEW b \in Rows, NEW c \in Rows, NEW d \in Rows,
         Stretch(t, v, a, b), Stretch(t, w, c, d), MorselOf(a) = MorselOf(c)
  PROVE  /\ a < c => b < c /\ (v = w => b + 1 < c)
         /\ a = c => b = d /\ v = w
<1> DEFINE m == MorselOf(a)
<1>1. a \in Nat /\ b \in Nat /\ c \in Nat /\ d \in Nat /\ a <= b /\ c <= d
  BY RowPlaces DEF Stretch
<1>2. /\ \A x \in a .. b : Holds(t, v, m, x)
      /\ \A x \in c .. d : Holds(t, w, m, x)
      /\ ~Holds(t, v, m, b + 1) /\ ~Holds(t, w, m, c - 1) /\ ~Holds(t, w, m, d + 1)
  BY DEF Stretch
<1>3. \A x : Holds(t, v, m, x) /\ Holds(t, w, m, x) => v = w
  BY DEF Holds
<1>4. ASSUME a < c PROVE b < c /\ (v = w => b + 1 < c)
  <2>1. c <= b => c \in a .. b /\ c - 1 \in a .. b /\ c \in c .. d
    BY <1>1, <1>4
  <2>2. ~(c <= b)
    BY <1>2, <1>3, <2>1
  <2>3. v = w => b + 1 # c
    BY <1>1, <1>2
  <2>4. QED
    BY <1>1, <2>2, <2>3
<1>5. ASSUME a = c PROVE b = d /\ v = w
  <2>1. v = w
    BY <1>1, <1>2, <1>3, <1>5
  <2>2. ~(b < d)
    BY <1>1, <1>2, <1>5, <2>1
  <2>3. ~(d < b)
    BY <1>1, <1>2, <1>5, <2>1
  <2>4. QED
    BY <1>1, <2>1, <2>2, <2>3
<1>6. QED
  BY <1>4, <1>5

\* The postings of an index, and two conditions on them: they are all of the
\* file under scan; and none lies inside another, names no morsel or is of
\* an entry that lists none.
Postings(x) == UNION {x.entries[i].ranges : i \in DOMAIN x.entries}
OneFile(x) == \A a \in Postings(x) : a.file = ThisFile
Plain(x) ==
    /\ OneFile(x)
    /\ \A i \in DOMAIN x.entries : x.entries[i].kind = "RowRangeList"
    /\ \A a \in Postings(x) : a.morsel # NoMorsel
    /\ \A a, b \in Postings(x) : a.morsel = b.morsel /\ a.start <= b.start => EndOf(a) <= EndOf(b)

ValidPostings(x) ==
    /\ x.ops \subseteq {"Eq", "Membership"}
    /\ x.entries \in Seq(IndexEntry)
    /\ \A i \in DOMAIN x.entries :
          IsFiniteSet(x.entries[i].ranges) /\ ValidRanges(x.entries[i].ranges)

LEMMA RangesAre ==
  ASSUME NEW t, NEW v, NEW x \in RangesOf(t, v)
  PROVE  \E a, b \in Rows :
            /\ Stretch(t, v, a, b) /\ a \in Nat /\ b \in Nat /\ a <= b
            /\ x = [file |-> ThisFile, morsel |-> MorselOf(a), start |-> a, count |-> b - a + 1]
            /\ x \in Posting /\ x.count > 0 /\ EndOf(x) = b + 1
            /\ x.file = ThisFile /\ x.morsel = MorselOf(a) /\ x.start = a /\ x.morsel \in Morsels
<1>1. PICK p \in Rows \X Rows :
         /\ Stretch(t, v, p[1], p[2])
         /\ x = [file |-> ThisFile, morsel |-> MorselOf(p[1]), start |-> p[1],
                 count |-> p[2] - p[1] + 1]
  BY DEF RangesOf
<1> DEFINE a == p[1]
           b == p[2]
<1>2. a \in Rows /\ b \in Rows /\ a \in Nat /\ b \in Nat /\ a <= b /\ MorselOf(a) \in Morsels
  BY <1>1, RowPlaces DEF Stretch
<1>3. MorselOf(a) \in 0 .. MorselCount
  BY <1>2, CandidateAssumption DEF Morsels
<1> HIDE DEF a, b
<1>4. x = [file |-> ThisFile, morsel |-> MorselOf(a), start |-> a, count |-> b - a + 1]
  BY <1>1 DEF a, b
<1>5. x \in Posting /\ x.count > 0 /\ EndOf(x) = b + 1
  BY <1>2, <1>3, <1>4 DEF Posting, EndOf, ThisFile
<1>6. QED
  BY <1>1, <1>2, <1>4, <1>5 DEF a, b

LEMMA RangesFinite ==
  ASSUME NEW t, NEW v
  PROVE  IsFiniteSet(RangesOf(t, v))
<1> DEFINE pairs == {q \in Rows \X Rows : Stretch(t, v, q[1], q[2])}
           posting == [p \in pairs |->
               [file |-> ThisFile, morsel |-> MorselOf(p[1]), start |-> p[1],
                count |-> p[2] - p[1] + 1]]
<1>1. IsFiniteSet(pairs)
  BY RowPlaces, FS_Product, FS_Subset
<1>2. RangesOf(t, v) = {posting[p] : p \in pairs}
  BY DEF RangesOf
<1>3. DOMAIN posting = pairs
  OBVIOUS
<1> HIDE DEF pairs, posting
<1>4. QED
  BY <1>1, <1>2, <1>3, FiniteRange

\* Of two ranges of the writer's, the one that starts later ends later; in
\* one list a gap lies between them.
LEMMA BuiltRangesApart ==
  ASSUME NEW t, NEW v, NEW w, NEW x \in RangesOf(t, v), NEW y \in RangesOf(t, w),
         x.morsel = y.morsel, x.start <= y.start
  PROVE  /\ EndOf(x) <= EndOf(y)
         /\ v = w /\ x # y => EndOf(x) < y.start
<1>1. PICK a, b \in Rows :
         /\ Stretch(t, v, a, b) /\ a \in Nat /\ b \in Nat
         /\ x = [file |-> ThisFile, morsel |-> MorselOf(a), start |-> a, count |-> b - a + 1]
         /\ EndOf(x) = b + 1 /\ x.morsel = MorselOf(a) /\ x.start = a
  BY RangesAre
<1>2. PICK c, d \in Rows :
         /\ Stretch(t, w, c, d) /\ c \in Nat /\ d \in Nat /\ c <= d
         /\ y = [file |-> ThisFile, morsel |-> MorselOf(c), start |-> c, count |-> d - c + 1]
         /\ EndOf(y) = d + 1 /\ y.morsel = MorselOf(c) /\ y.start = c
  BY RangesAre
<1>3. /\ a < c => b < c /\ (v = w => b + 1 < c)
      /\ a = c => b = d /\ v = w
  BY <1>1, <1>2, StretchesApart
<1>4. CASE a < c
  BY <1>1, <1>2, <1>3, <1>4
<1>5. CASE a = c
  BY <1>1, <1>2, <1>3, <1>5
<1>6. QED
  BY <1>1, <1>2, <1>4, <1>5

\* What the writer builds of a table is an index a reader accepts, keeps the
\* promise of the format, and has no range inside another.
LEMMA BuiltIndexRight ==
  ASSUME NEW t \in [Rows -> Values \cup {Null}],
         NEW keys \in [1 .. Cardinality(KeysOf(t)) -> KeysOf(t)],
         \A v \in KeysOf(t) : \E i \in DOMAIN keys : keys[i] = v
  PROVE  ValidPostings(BuiltIndex(t, keys)) /\ Promises(BuiltIndex(t, keys), t)
         /\ Plain(BuiltIndex(t, keys))
<1> DEFINE x == BuiltIndex(t, keys)
<1>1. KeysOf(t) \subseteq Values /\ Cardinality(KeysOf(t)) \in Nat
  <2>1. IsFiniteSet({t[r] : r \in Rows})
    BY RowPlaces, FiniteRange
  <2>2. IsFiniteSet(KeysOf(t))
    BY <2>1, FS_Subset DEF KeysOf
  <2>3. QED
    BY <2>2, FS_CardinalityType DEF KeysOf
<1>2. /\ x.ops = {"Eq", "Membership"}
      /\ DOMAIN x.entries = 1 .. Cardinality(KeysOf(t)) /\ DOMAIN keys = DOMAIN x.entries
      /\ \A i \in DOMAIN x.entries :
            /\ x.entries[i].key = keys[i] /\ keys[i] \in Values
            /\ x.entries[i].kind = "RowRangeList"
            /\ x.entries[i].ranges = RangesOf(t, keys[i])
  BY <1>1 DEF BuiltIndex
<1>3. x.entries = [i \in 1 .. Cardinality(KeysOf(t)) |-> x.entries[i]]
  BY DEF BuiltIndex
<1> HIDE DEF x
<1>4. \A v : RangesOf(t, v) \subseteq Posting
  BY RangesAre
<1>5. x.entries \in Seq(IndexEntry)
  <2>1. \A i \in DOMAIN x.entries :
           x.entries[i] = [key |-> keys[i], kind |-> "RowRangeList", ranges |-> RangesOf(t, keys[i])]
    BY DEF x, BuiltIndex
  <2>2. ASSUME NEW i \in DOMAIN x.entries PROVE x.entries[i] \in IndexEntry
    <3>1. keys[i] \in Values /\ RangesOf(t, keys[i]) \in SUBSET Posting
      BY <1>2, <1>4
    <3>2. [key |-> keys[i], kind |-> "RowRangeList", ranges |-> RangesOf(t, keys[i])]
             \in IndexEntry
      BY <3>1 DEF IndexEntry
    <3>3. QED
      BY <2>1, <3>2
  <2>3. QED
    BY <1>1, <1>2, <1>3, <2>2
<1>6. \A v : IsFiniteSet(RangesOf(t, v)) /\ ValidRanges(RangesOf(t, v))
  <2>1. ASSUME NEW v, NEW a \in RangesOf(t, v), NEW b \in RangesOf(t, v)
        PROVE  /\ a.count > 0
               /\ a # b /\ SameScope(TRUE, a, b) /\ a.start <= b.start => EndOf(a) < b.start
    BY RangesAre, BuiltRangesApart DEF SameScope
  <2>2. QED
    BY <2>1, RangesFinite DEF ValidRanges
<1>7. ValidPostings(x)
  <2>1. ASSUME NEW i \in DOMAIN x.entries
        PROVE  IsFiniteSet(x.entries[i].ranges) /\ ValidRanges(x.entries[i].ranges)
    <3>1. x.entries[i].ranges = RangesOf(t, keys[i])
      BY <1>2
    <3>2. QED
      BY <1>6, <3>1
  <2>2. QED
    BY <1>2, <1>5, <2>1 DEF ValidPostings
<1>8. ASSUME NEW a \in Postings(x)
      PROVE  \E i \in DOMAIN x.entries : a \in RangesOf(t, keys[i])
  <2>1. PICK i \in DOMAIN x.entries : a \in x.entries[i].ranges
    BY DEF Postings
  <2>2. x.entries[i].ranges = RangesOf(t, keys[i])
    BY <1>2
  <2>3. QED
    BY <2>1, <2>2
<1>9. Plain(x)
  <2>1. \A a \in Postings(x) : a.file = ThisFile /\ a.morsel # NoMorsel
    BY <1>8, RangesAre, RowPlaces
  <2>2. \A a, b \in Postings(x) :
           a.morsel = b.morsel /\ a.start <= b.start => EndOf(a) <= EndOf(b)
    BY <1>8, BuiltRangesApart
  <2>3. QED
    BY <1>2, <2>1, <2>2 DEF Plain, OneFile
<1>10. Promises(x, t)
  <2>1. SUFFICES ASSUME NEW r \in Rows, t[r] # Null
                 PROVE  \E i \in DOMAIN x.entries :
                          /\ x.entries[i].key = t[r]
                          /\ \E range \in x.entries[i].ranges :
                               /\ range.file = ThisFile
                               /\ r \in RowsIn(range)
                               /\ range.morsel \in {MorselOf(r), NoMorsel}
    BY DEF Promises
  <2>2. PICK i \in DOMAIN keys : keys[i] = t[r]
    BY <2>1 DEF KeysOf
  <2>3. PICK first, last \in Rows :
           Stretch(t, t[r], first, last) /\ r \in first .. last /\ MorselOf(first) = MorselOf(r)
    BY StretchOf
  <2> DEFINE range == [file |-> ThisFile, morsel |-> MorselOf(first), start |-> first,
                       count |-> last - first + 1]
  <2>4. range \in RangesOf(t, t[r])
    <3>1. <<first, last>> \in {q \in Rows \X Rows : Stretch(t, t[r], q[1], q[2])}
      BY <2>3
    <3>2. QED
      BY <3>1 DEF RangesOf
  <2>5. first \in Nat /\ last \in Nat
    BY RowPlaces
  <2>6. r \in RowsIn(range)
    BY <2>3, <2>5 DEF RowsIn, EndOf
  <2>7. range.file = ThisFile /\ range.morsel = MorselOf(r)
    BY <2>3
  <2> HIDE DEF range
  <2>8. range \in x.entries[i].ranges /\ x.entries[i].key = t[r] /\ i \in DOMAIN x.entries
    <3>1. i \in DOMAIN x.entries
      BY <1>2, <2>2
    <3>2. x.entries[i].key = keys[i] /\ x.entries[i].ranges = RangesOf(t, keys[i])
      BY <1>2, <3>1
    <3>3. QED
      BY <2>2, <2>4, <3>1, <3>2
  <2>9. QED
    BY <2>6, <2>7, <2>8, Zenon
<1>11. QED
  BY <1>7, <1>9, <1>10 DEF x

-----------------------------------------------------------------------------
(***************************************************************************)
(* The lookup and the candidates.                                          *)
(***************************************************************************)
LEMMA ListingMembers ==
  ASSUME NEW f, NEW x, ValidPostings(x), NEW y \in Listing(f, x)
  PROVE  \E i \in Matching(f, x) : \E r \in RangesFor(x.entries[i]) :
            /\ y = Listed(r, i) /\ i \in DOMAIN x.entries /\ i \in Nat
            /\ r \in x.entries[i].ranges /\ r \in Posting /\ r.count > 0
            /\ y \in ListedRange /\ y.file = r.file /\ y.morsel = r.morsel /\ y.start = r.start
            /\ y.entry = i /\ EndOf(y) = EndOf(r) /\ RowsIn(y) = RowsIn(r)
<1>1. PICK i \in Matching(f, x) : \E r \in RangesFor(x.entries[i]) : y = Listed(r, i)
  BY DEF Listing
<1>2. PICK r \in RangesFor(x.entries[i]) : y = Listed(r, i)
  BY <1>1
<1>3. i \in DOMAIN x.entries /\ i \in Nat /\ x.entries[i] \in IndexEntry
  BY DEF Matching, ValidPostings
<1>4. r \in x.entries[i].ranges
  BY DEF RangesFor
<1>5. r \in Posting
  BY <1>3, <1>4 DEF IndexEntry
<1>6. r.count > 0
  BY <1>3, <1>4 DEF ValidPostings, ValidRanges
<1>7. /\ y \in ListedRange /\ y.file = r.file /\ y.morsel = r.morsel /\ y.start = r.start
      /\ y.entry = i /\ EndOf(y) = EndOf(r)
  BY <1>2, <1>3, <1>5, <1>6 DEF Listed, Posting, ListedRange, EndOf
<1>8. QED
  BY <1>2, <1>3, <1>4, <1>5, <1>6, <1>7 DEF RowsIn

LEMMA ListingHolds ==
  ASSUME NEW f, NEW x, ValidPostings(x), NEW i \in Matching(f, x), NEW r \in RangesFor(x.entries[i])
  PROVE  Listed(r, i) \in Listing(f, x)
BY DEF Listing

LEMMA ListingListable ==
  ASSUME NEW f, NEW x, ValidPostings(x)
  PROVE  Listable(Listing(f, x))
<1> DEFINE of(i) == {Listed(r, i) : r \in RangesFor(x.entries[i])}
           lists == {of(i) : i \in Matching(f, x)}
<1>1. IsFiniteSet(Matching(f, x))
  <2>1. IsFiniteSet(DOMAIN x.entries)
    BY FiniteInterval DEF ValidPostings
  <2>2. QED
    BY <2>1, FS_Subset DEF Matching
<1>2. IsFiniteSet(lists)
  <2> DEFINE g == [i \in Matching(f, x) |-> of(i)]
  <2>1. IsFiniteSet({g[i] : i \in Matching(f, x)})
    <3>1. DOMAIN g = Matching(f, x)
      OBVIOUS
    <3> HIDE DEF g
    <3>2. QED
      BY <1>1, <3>1, FiniteRange
  <2>2. QED
    BY <2>1
<1>3. ASSUME NEW i \in Matching(f, x) PROVE IsFiniteSet(of(i))
  <2> DEFINE g == [r \in RangesFor(x.entries[i]) |-> Listed(r, i)]
  <2>1. IsFiniteSet(RangesFor(x.entries[i]))
    <3>1. IsFiniteSet(x.entries[i].ranges)
      BY DEF Matching, ValidPostings
    <3>2. QED
      BY <3>1, FS_EmptySet DEF RangesFor
  <2>2. DOMAIN g = RangesFor(x.entries[i])
    OBVIOUS
  <2>3. of(i) = {g[r] : r \in RangesFor(x.entries[i])}
    OBVIOUS
  <2> HIDE DEF g, of
  <2>4. QED
    BY <2>1, <2>2, <2>3, FiniteRange
<1>4. IsFiniteSet(Listing(f, x))
  <2>1. \A s \in lists : IsFiniteSet(s)
    BY <1>3
  <2>2. Listing(f, x) = UNION lists
    BY DEF Listing
  <2> HIDE DEF lists
  <2>3. QED
    BY <1>2, <2>1, <2>2, FS_UNION
<1>5. ASSUME NEW a \in Listing(f, x), NEW b \in Listing(f, x), SamePlace(a, b)
      PROVE  a = b
  <2>1. PICK i \in Matching(f, x) : \E r \in RangesFor(x.entries[i]) :
           /\ a = Listed(r, i) /\ i \in DOMAIN x.entries /\ r \in x.entries[i].ranges
           /\ a.file = r.file /\ a.morsel = r.morsel /\ a.start = r.start
           /\ a.entry = i /\ r \in Posting
    BY ListingMembers
  <2>2. PICK r \in x.entries[i].ranges :
           /\ a = Listed(r, i) /\ a.file = r.file /\ a.morsel = r.morsel /\ a.start = r.start
           /\ r \in Posting
    BY <2>1
  <2>3. PICK j \in Matching(f, x) : \E q \in RangesFor(x.entries[j]) :
           /\ b = Listed(q, j) /\ q \in x.entries[j].ranges
           /\ b.file = q.file /\ b.morsel = q.morsel /\ b.start = q.start
           /\ b.entry = j /\ q \in Posting
    BY ListingMembers
  <2>4. PICK q \in x.entries[j].ranges :
           /\ b = Listed(q, j) /\ b.file = q.file /\ b.morsel = q.morsel /\ b.start = q.start
           /\ q \in Posting
    BY <2>3
  <2>5. i = j
    BY <1>5, <2>1, <2>3 DEF SamePlace
  <2>6. SameScope(TRUE, r, q) /\ r.start = q.start /\ r.start \in Nat /\ EndOf(r) \in Nat
        /\ r.start <= EndOf(r)
    BY <1>5, <2>2, <2>4 DEF SamePlace, SameScope, Posting, EndOf
  <2>7. r = q
    <3>1. ValidRanges(x.entries[i].ranges) /\ q \in x.entries[i].ranges
      BY <2>1, <2>4, <2>5 DEF ValidPostings
    <3>2. \A u, v \in x.entries[i].ranges :
             u # v /\ SameScope(TRUE, u, v) /\ u.start <= v.start => EndOf(u) < v.start
      BY <3>1 DEF ValidRanges
    <3>3. r.start <= q.start
      BY <2>6
    <3>4. r # q => EndOf(r) < q.start
      BY <2>2, <2>6, <3>1, <3>2, <3>3
    <3>5. QED
      BY <2>6, <3>4
  <2>8. QED
    BY <2>2, <2>4, <2>5, <2>7
<1>6. QED
  BY <1>4, <1>5, ListingMembers DEF Listable

\* The lookup, and what the planner merges of it, are lists of ranges again.
LEMMA LookupListable ==
  ASSUME NEW f, NEW x, ValidPostings(x)
  PROVE  Listable(Lookup(f, x)) /\ Listable(Merged(FALSE, Lookup(f, x)))
<1>1. Listable(Lookup(f, x))
  BY ListingListable, MergedListable DEF Lookup
<1>2. QED
  BY <1>1, MergedListable

LEMMA CandidateFields ==
  ASSUME NEW y \in ListedRange
  PROVE  /\ AsCandidate(y) \in [morsel : 0 .. MorselCount, start : Nat, count : Nat \ {0}]
         /\ AsCandidate(y).morsel = y.morsel /\ RowsIn(AsCandidate(y)) = RowsIn(y)
BY DEF AsCandidate, ListedRange, RowsIn, EndOf

LEMMA CandidatesTyped ==
  ASSUME NEW f, NEW x, ValidPostings(x)
  PROVE  CandidatesFor(f, x) \subseteq [morsel : 0 .. MorselCount, start : Nat, count : Nat \ {0}]
<1>1. Merged(FALSE, Lookup(f, x)) \subseteq ListedRange
  BY LookupListable DEF Listable
<1>2. QED
  BY <1>1, CandidateFields DEF CandidatesFor

\* A candidate row is a row of a matching entry.
LEMMA CandidatesAreListed ==
  ASSUME NEW f, NEW x, ValidPostings(x), NEW c \in CandidatesFor(f, x), NEW r \in RowsIn(c)
  PROVE  \E i \in Matching(f, x) : \E range \in RangesFor(x.entries[i]) :
            range.morsel = c.morsel /\ r \in RowsIn(range) /\ range \in Postings(x)
<1>1. PICK y \in Merged(FALSE, Lookup(f, x)) : c = AsCandidate(y)
  BY DEF CandidatesFor
<1>2. y \in ListedRange
  BY LookupListable DEF Listable
<1>3. y.morsel = c.morsel /\ r \in RowsIn(y)
  BY <1>1, <1>2, CandidateFields
<1>4. PICK z \in Lookup(f, x) : SameScope(FALSE, y, z) /\ r \in RowsIn(z)
  BY <1>3, LookupListable, MergedInventsNothing
<1>5. PICK w \in Listing(f, x) : SameScope(TRUE, z, w) /\ r \in RowsIn(w)
  BY <1>4, ListingListable, MergedInventsNothing DEF Lookup
<1>6. PICK i \in Matching(f, x) : \E range \in RangesFor(x.entries[i]) :
         /\ range.morsel = w.morsel /\ RowsIn(w) = RowsIn(range)
         /\ range \in x.entries[i].ranges /\ i \in DOMAIN x.entries
  BY ListingMembers
<1>7. PICK range \in RangesFor(x.entries[i]) :
         /\ range.morsel = w.morsel /\ RowsIn(w) = RowsIn(range)
         /\ range \in x.entries[i].ranges /\ i \in DOMAIN x.entries
  BY <1>6
<1>8. range.morsel = c.morsel /\ r \in RowsIn(range)
  BY <1>3, <1>4, <1>5, <1>7 DEF SameScope
<1>9. range \in Postings(x)
  BY <1>7 DEF Postings
<1>10. QED
  BY <1>7, <1>8, <1>9

\* In a plain index no row of a matching entry is lost.
LEMMA ListedRowsAreCandidates ==
  ASSUME NEW f, NEW x, ValidPostings(x), Plain(x), NEW i \in Matching(f, x),
         NEW range \in x.entries[i].ranges
  PROVE  \E c \in CandidatesFor(f, x) : c.morsel = range.morsel /\ RowsIn(range) \subseteq RowsIn(c)
<1>1. \A a \in Listing(f, x) : \E r \in Postings(x) :
         a.file = ThisFile /\ a.morsel = r.morsel /\ a.start = r.start /\ EndOf(a) = EndOf(r)
  <2>1. SUFFICES ASSUME NEW a \in Listing(f, x)
                 PROVE  \E r \in Postings(x) :
                           /\ a.file = ThisFile /\ a.morsel = r.morsel
                           /\ a.start = r.start /\ EndOf(a) = EndOf(r)
    OBVIOUS
  <2>2. PICK j \in Matching(f, x) : \E r \in RangesFor(x.entries[j]) :
           /\ j \in DOMAIN x.entries /\ r \in x.entries[j].ranges
           /\ a.file = r.file /\ a.morsel = r.morsel /\ a.start = r.start /\ EndOf(a) = EndOf(r)
    BY ListingMembers
  <2>3. PICK r \in x.entries[j].ranges :
           a.file = r.file /\ a.morsel = r.morsel /\ a.start = r.start /\ EndOf(a) = EndOf(r)
    BY <2>2
  <2>4. r \in Postings(x)
    BY <2>2, <2>3 DEF Postings
  <2>5. r.file = ThisFile
    BY <2>4 DEF Plain, OneFile
  <2>6. QED
    BY <2>3, <2>4, <2>5
<1>2. Flat(TRUE, Listing(f, x))
  <2>1. ASSUME NEW a \in Listing(f, x), NEW b \in Listing(f, x),
               SameScope(TRUE, a, b), a.start <= b.start
        PROVE  EndOf(a) <= EndOf(b)
    <3>1. PICK r \in Postings(x) :
             a.morsel = r.morsel /\ a.start = r.start /\ EndOf(a) = EndOf(r)
      BY <1>1
    <3>2. PICK q \in Postings(x) :
             b.morsel = q.morsel /\ b.start = q.start /\ EndOf(b) = EndOf(q)
      BY <1>1
    <3>3. r.morsel = q.morsel /\ r.start <= q.start
      BY <2>1, <3>1, <3>2 DEF SameScope
    <3>4. EndOf(r) <= EndOf(q)
      BY <3>3 DEF Plain
    <3>5. QED
      BY <3>1, <3>2, <3>4
  <2>2. QED
    BY <2>1 DEF Flat
<1>3. \A a \in Lookup(f, x) : a.file = ThisFile
  <2>1. SUFFICES ASSUME NEW a \in Lookup(f, x) PROVE a.file = ThisFile
    OBVIOUS
  <2>2. PICK b \in Listing(f, x) : SamePlace(a, b)
    BY ListingListable, MergedMembers DEF Lookup
  <2>3. QED
    BY <1>1, <2>2 DEF SamePlace
<1>4. Flat(FALSE, Lookup(f, x))
  <2>1. ASSUME NEW a \in Lookup(f, x), NEW b \in Lookup(f, x),
               SameScope(FALSE, a, b), a.start <= b.start, a # b
        PROVE  EndOf(a) <= EndOf(b)
    <3>1. SameScope(TRUE, a, b)
      BY <1>3, <2>1 DEF SameScope
    <3>2. EndOf(a) < b.start \/ EndOf(b) < a.start
      BY <2>1, <3>1, ListingListable, MergedApart DEF Lookup
    <3>3. a \in ListedRange /\ b \in ListedRange
      BY LookupListable DEF Listable
    <3>4. QED
      BY <2>1, <3>2, <3>3 DEF ListedRange, EndOf
  <2>2. ASSUME NEW a \in Lookup(f, x) PROVE EndOf(a) <= EndOf(a)
    <3>1. a \in ListedRange
      BY LookupListable DEF Listable
    <3>2. QED
      BY <3>1 DEF ListedRange, EndOf
  <2>3. QED
    BY <2>1, <2>2 DEF Flat
<1>5. range \in RangesFor(x.entries[i]) /\ range \in Posting
  <2>1. i \in DOMAIN x.entries /\ x.entries[i] \in IndexEntry
    BY DEF Matching, ValidPostings
  <2>2. x.entries[i].kind = "RowRangeList"
    BY <2>1 DEF Plain
  <2>3. QED
    BY <2>1, <2>2 DEF RangesFor, IndexEntry
<1> DEFINE y == Listed(range, i)
<1>6. y \in Listing(f, x) /\ y.morsel = range.morsel /\ RowsIn(y) = RowsIn(range)
  <2>1. y \in Listing(f, x)
    BY <1>5, ListingHolds
  <2>2. y.morsel = range.morsel /\ RowsIn(y) = RowsIn(range)
    BY DEF Listed, RowsIn, EndOf
  <2>3. QED
    BY <2>1, <2>2
<1> HIDE DEF y
<1>7. PICK z \in Lookup(f, x) : SameScope(TRUE, z, y) /\ RowsIn(y) \subseteq RowsIn(z)
  BY <1>2, <1>6, ListingListable, MergedLosesNothing DEF Lookup
<1>8. PICK w \in Merged(FALSE, Lookup(f, x)) :
         SameScope(FALSE, w, z) /\ RowsIn(z) \subseteq RowsIn(w)
  <2> DEFINE l == Lookup(f, x)
  <2>1. Listable(l) /\ Flat(FALSE, l) /\ z \in l
    BY <1>4, <1>7, LookupListable
  <2> HIDE DEF l
  <2>2. \E w \in Merged(FALSE, l) : SameScope(FALSE, w, z) /\ RowsIn(z) \subseteq RowsIn(w)
    BY <2>1, MergedLosesNothing
  <2>3. QED
    BY <2>2 DEF l
<1>9. w \in ListedRange
  BY LookupListable DEF Listable
<1>10. AsCandidate(w) \in CandidatesFor(f, x)
  BY DEF CandidatesFor
<1>11. AsCandidate(w).morsel = range.morsel /\ RowsIn(range) \subseteq RowsIn(AsCandidate(w))
  BY <1>6, <1>7, <1>8, <1>9, CandidateFields DEF SameScope
<1>12. QED
  BY <1>10, <1>11

\* Nor is a row the filter accepts, in an index that keeps its promise.
LEMMA AcceptedRowsAreCandidates ==
  ASSUME NEW f, f.kind = "keys", f \in Filter, NEW x, ValidPostings(x), Plain(x),
         NEW t, Promises(x, t), NEW r \in Rows, Accepts(f, t[r])
  PROVE  \E c \in CandidatesFor(f, x) : c.morsel = MorselOf(r) /\ r \in RowsIn(c)
<1>1. t[r] \in Values /\ t[r] # Null
  BY CandidateAssumption DEF Accepts, Filter
<1>2. PICK i \in DOMAIN x.entries :
         /\ x.entries[i].key = t[r]
         /\ \E range \in x.entries[i].ranges :
              r \in RowsIn(range) /\ range.morsel \in {MorselOf(r), NoMorsel}
  BY <1>1 DEF Promises
<1>3. PICK range \in x.entries[i].ranges :
         r \in RowsIn(range) /\ range.morsel \in {MorselOf(r), NoMorsel}
  BY <1>2
<1>4. range \in Postings(x)
  BY <1>3 DEF Postings
<1>5. range.morsel = MorselOf(r)
  BY <1>3, <1>4 DEF Plain
<1>6. i \in Matching(f, x)
  BY <1>2 DEF Matching, Accepts
<1>7. QED
  BY <1>3, <1>5, <1>6, ListedRowsAreCandidates

-----------------------------------------------------------------------------
(***************************************************************************)
(* The states of the program.                                              *)
(***************************************************************************)
IndexInv ==
    /\ ValidPostings(index)
    /\ index.ops = {} \/ Promises(index, table)
    /\ stage = "index" => index.ops = {}

PlanInv ==
    /\ stage \in {"index", "plan"} => ~narrowed /\ result = {} /\ morsel = 0
    /\ narrowed => FirstAnswered(filters, index) # 0
    /\ candidates = IF narrowed THEN CandidatesFor(AskedFilter, index) ELSE {}

Inv ==
    /\ TypeOK
    /\ table \in Tables /\ filters \in FilterLists
    /\ stage = "scan" => morsel \in Morsels
    /\ IndexInv
    /\ PlanInv

LEMMA FirstAnsweredIs ==
  ASSUME NEW fs, fs \in FilterLists, NEW x, FirstAnswered(fs, x) # 0
  PROVE  LET i == FirstAnswered(fs, x)
         IN  i \in DOMAIN fs /\ Answered(fs[i], x) /\ fs[i] \in Filter
<1> DEFINE asked == {i \in DOMAIN fs : Answered(fs[i], x)}
           first == CHOOSE i \in asked : \A j \in asked : i <= j
<1>1. fs \in Seq(Filter) /\ asked \subseteq Nat
  BY InputsTyped
<1>2. asked # {} /\ FirstAnswered(fs, x) = first
  BY DEF FirstAnswered
<1>3. \E i \in asked : \A j \in asked : i <= j
  BY <1>1, <1>2, NatMin
<1>4. first \in asked
  BY <1>3
<1>5. QED
  BY <1>1, <1>2, <1>4

LEMMA InitialInv == Init => Inv
<1> SUFFICES ASSUME Init PROVE Inv
  OBVIOUS
<1>1. table \in [Rows -> Values \cup {Null}]
  BY InputsTyped DEF Init
<1>2. index.ops = {} /\ index.entries = <<>> /\ <<>> \in Seq(IndexEntry) /\ DOMAIN <<>> = {}
  BY DEF Init
<1>3. TypeOK
  <2>1. index.entries \in Seq(IndexEntry)
    BY <1>2
  <2>2. morsel = 0 /\ 0 \in 0 .. MorselCount
    BY CandidateAssumption DEF Init
  <2>3. QED
    BY <1>1, <2>1, <2>2 DEF Init, TypeOK
<1>4. IndexInv
  BY <1>2 DEF IndexInv, ValidPostings
<1>5. PlanInv
  BY DEF Init, PlanInv
<1>6. QED
  BY <1>3, <1>4, <1>5 DEF Init, Inv

LEMMA InvStep == Inv /\ [Next]_vars => Inv'
<1> SUFFICES ASSUME Inv, [Next]_vars PROVE Inv'
  OBVIOUS
<1>0. /\ table \in [Rows -> Values \cup {Null}] /\ filters \in FilterLists
      /\ morsel \in 0 .. MorselCount /\ MorselCount \in Nat \ {0}
  BY CandidateAssumption DEF Inv, TypeOK
<1>1. CASE BuildIndex
  <2>1. PICK keys \in [1 .. Cardinality(KeysOf(table)) -> KeysOf(table)] :
           /\ \A v \in KeysOf(table) : \E i \in DOMAIN keys : keys[i] = v
           /\ index' = BuiltIndex(table, keys)
    BY <1>1 DEF BuildIndex
  <2>2. ValidPostings(index') /\ Promises(index', table)
    BY <1>0, <2>1, BuiltIndexRight
  <2>3. IndexInv'
    BY <1>1, <2>2 DEF IndexInv, BuildIndex
  <2>4. PlanInv'
    BY <1>1 DEF Inv, PlanInv, BuildIndex
  <2>5. TypeOK'
    BY <1>1, <2>2 DEF Inv, TypeOK, BuildIndex, ValidPostings
  <2>6. QED
    BY <1>1, <2>3, <2>4, <2>5 DEF Inv, BuildIndex
<1>2. CASE SupplyIndex
  <2>1. PICK x \in ForeignIndexes :
           Promises(x, table) /\ index' = IF ValidIndex(x) THEN x ELSE index
    BY <1>2 DEF SupplyIndex
  <2>2. ValidIndex(x) => ValidPostings(x)
    BY InputsTyped DEF ValidIndex, ValidPostings
  <2>3. ValidPostings(index') /\ (index'.ops = {} \/ Promises(index', table))
    BY <1>2, <2>1, <2>2 DEF Inv, IndexInv, SupplyIndex
  <2>4. IndexInv'
    BY <1>2, <2>3 DEF IndexInv, SupplyIndex
  <2>5. PlanInv'
    BY <1>2 DEF Inv, PlanInv, SupplyIndex
  <2>6. TypeOK'
    BY <1>2, <2>3 DEF Inv, TypeOK, SupplyIndex, ValidPostings
  <2>7. QED
    BY <1>2, <2>4, <2>5, <2>6 DEF Inv, SupplyIndex
<1>3. CASE Plan
  <2> DEFINE first == FirstAnswered(filters, index)
  <2>1. narrowed' = (first # 0) /\ (first = 0 => candidates' = {})
        /\ (first # 0 => candidates' = CandidatesFor(filters[first], index))
    BY <1>3 DEF Plan
  <2>2. first' = first /\ AskedFilter' = filters[first]
    BY <1>3 DEF Plan, AskedFilter
  <2>3. PlanInv'
    <3>1. stage' = "scan" /\ index' = index
      BY <1>3 DEF Plan
    <3>2. QED
      BY <2>1, <2>2, <3>1 DEF PlanInv
  <2>4. candidates' \subseteq [morsel : 0 .. MorselCount, start : Nat, count : Nat \ {0}]
    <3>1. ValidPostings(index)
      BY DEF Inv, IndexInv
    <3>2. QED
      BY <2>1, <3>1, CandidatesTyped
  <2>5. TypeOK'
    BY <1>3, <2>1, <2>4 DEF Inv, TypeOK, Plan
  <2>6. IndexInv'
    BY <1>3 DEF Inv, IndexInv, Plan
  <2>7. morsel' \in Morsels
    BY <1>0, <1>3 DEF Inv, PlanInv, Plan, Morsels
  <2>8. QED
    BY <1>3, <2>3, <2>5, <2>6, <2>7 DEF Inv, Plan
<1>4. ASSUME UNCHANGED <<table, filters, index, candidates, narrowed>>,
             stage = "scan", stage' \in {"scan", "done"}
      PROVE  IndexInv' /\ PlanInv'
  <2>1. AskedFilter' = AskedFilter
    BY <1>4 DEF AskedFilter
  <2>2. QED
    BY <1>4, <2>1 DEF Inv, IndexInv, PlanInv
<1>5. CASE SkipFile
  BY <1>4, <1>5 DEF SkipFile, Inv, TypeOK
<1>6. ASSUME NextMorsel, stage = "scan", result' \subseteq Rows PROVE Inv'
  <2>1. morsel \in Morsels /\ morsel' = morsel + 1
        /\ stage' = IF morsel + 1 = MorselCount THEN "done" ELSE "scan"
    BY <1>6 DEF Inv, NextMorsel
  <2>2. morsel' \in 0 .. MorselCount /\ (stage' = "scan" => morsel' \in Morsels)
    BY <1>0, <2>1 DEF Morsels
  <2>3. IndexInv' /\ PlanInv'
    BY <1>4, <1>6, <2>1 DEF NextMorsel
  <2>4. QED
    BY <1>6, <2>1, <2>2, <2>3 DEF NextMorsel, Inv, TypeOK
<1>7. CASE SkipMorsel
  BY <1>6, <1>7 DEF SkipMorsel, Inv, TypeOK
<1>8. CASE ScanMorsel
  <2>1. morsel \in Morsels
    BY <1>8 DEF ScanMorsel, Inv
  <2>2. Kept(morsel) \subseteq Rows
    BY <2>1, RowPlaces DEF Kept
  <2>3. result' \subseteq Rows
    BY <1>8, <2>2 DEF ScanMorsel, Inv, TypeOK
  <2>4. QED
    BY <1>6, <1>8, <2>3 DEF ScanMorsel
<1>9. CASE UNCHANGED vars
  <2>1. AskedFilter' = AskedFilter
    BY <1>9 DEF AskedFilter, vars
  <2>2. QED
    BY <1>9, <2>1 DEF vars, Inv, TypeOK, IndexInv, PlanInv
<1>10. QED
  BY <1>1, <1>2, <1>3, <1>5, <1>7, <1>8, <1>9 DEF Next, Finished

LEMMA InvHolds == Spec => []Inv
BY InitialInv, InvStep, PTL DEF Spec

-----------------------------------------------------------------------------
(***************************************************************************)
(* Type correctness (TypeOK): in every state the candidates are ranges of  *)
(* at least one row, whatever indexes other writers supply, so the checked *)
(* arithmetic of the two merges never fails (normalize_row_ranges and      *)
(* normalize_scan_candidate_ranges).                                       *)
(***************************************************************************)
THEOREM TypesHold == Spec => []TypeOK
<1>1. Inv => TypeOK
  BY DEF Inv
<1>2. QED
  BY <1>1, InvHolds, PTL

LEMMA AskedFilterIs ==
  ASSUME Inv, narrowed
  PROVE  /\ AskedFilter \in Filter /\ AskedFilter.kind = "keys"
         /\ \E i \in DOMAIN filters : AskedFilter = filters[i]
         /\ ValidPostings(index) /\ Promises(index, table)
         /\ candidates = CandidatesFor(AskedFilter, index)
<1>1. FirstAnswered(filters, index) # 0 /\ filters \in FilterLists
  BY DEF Inv, PlanInv
<1>2. FirstAnswered(filters, index) \in DOMAIN filters
      /\ Answered(AskedFilter, index) /\ AskedFilter \in Filter
  BY <1>1, FirstAnsweredIs DEF AskedFilter
<1>3. AskedFilter.kind = "keys" /\ index.ops # {}
  BY <1>2 DEF Answered
<1>4. QED
  BY <1>1, <1>2, <1>3 DEF Inv, IndexInv, PlanInv, AskedFilter

(***************************************************************************)
(* Joining ranges twice, the second time without their files, invents no   *)
(* candidate row (CandidatesTight), as long as every posting of the index  *)
(* is of the file under scan (normalize_row_ranges and                     *)
(* normalize_scan_candidate_ranges).                                       *)
(***************************************************************************)
THEOREM JoiningInventsNothing == Spec => [](OneFile(index) => CandidatesTight)
<1>1. ASSUME Inv, OneFile(index), narrowed, NEW m \in Morsels, NEW r \in CandidateRows(m)
      PROVE  r \in PostedRows(m)
  <2>1. ValidPostings(index) /\ candidates = CandidatesFor(AskedFilter, index)
    BY <1>1, AskedFilterIs
  <2>2. PICK c \in CandidatesFor(AskedFilter, index) :
           c.morsel = m /\ r \in RowsIn(c) /\ r \in RowsOf(m)
    BY <2>1 DEF CandidateRows
  <2>3. PICK i \in Matching(AskedFilter, index) : \E range \in RangesFor(index.entries[i]) :
           range.morsel = c.morsel /\ r \in RowsIn(range) /\ range \in Postings(index)
    BY <2>1, <2>2, CandidatesAreListed
  <2>4. \A range \in Postings(index) : range.file = ThisFile
    BY <1>1 DEF OneFile
  <2>5. QED
    BY <2>2, <2>3, <2>4 DEF PostedRows
<1>2. Inv => (OneFile(index) => CandidatesTight)
  BY <1>1 DEF CandidatesTight
<1>3. QED
  BY <1>2, InvHolds, PTL

LEMMA AcceptedRowsKept ==
  ASSUME Inv, Plain(index), narrowed, NEW r \in Rows, Accepts(AskedFilter, table[r])
  PROVE  r \in CandidateRows(MorselOf(r))
<1>1. PICK c \in candidates : c.morsel = MorselOf(r) /\ r \in RowsIn(c)
  BY AskedFilterIs, AcceptedRowsAreCandidates
<1>2. r \in RowsOf(MorselOf(r))
  BY RowPlaces
<1>3. QED
  BY <1>1, <1>2 DEF CandidateRows

(***************************************************************************)
(* The lookup loses no row its filter accepts (LookupNeverUnderIncludes)   *)
(* when no posting of the index lies inside another, names no morsel or    *)
(* belongs to an entry of another kind: the "must not under-include" of    *)
(* README.md, which an index that only validates does not ensure.          *)
(***************************************************************************)
THEOREM NothingAcceptedIsLost == Spec => [](Plain(index) => LookupNeverUnderIncludes)
<1>1. Inv => (Plain(index) => LookupNeverUnderIncludes)
  BY AcceptedRowsKept DEF LookupNeverUnderIncludes
<1>2. QED
  BY <1>1, InvHolds, PTL

-----------------------------------------------------------------------------
(***************************************************************************)
(* The rows the scan returns.                                              *)
(***************************************************************************)
Answer == {r \in Rows : Satisfies(r)}
ResultInv ==
    Plain(index) =>
        /\ stage = "scan" => result = {r \in Answer : MorselOf(r) < morsel}
        /\ stage = "done" => result = Answer

LEMMA SatisfyingRowsAccepted ==
  ASSUME Inv, narrowed, NEW r \in Rows, Satisfies(r)
  PROVE  Accepts(AskedFilter, table[r])
BY AskedFilterIs DEF Satisfies

LEMMA ResultStep == Inv /\ ResultInv /\ [Next]_vars => ResultInv'
<1> SUFFICES ASSUME Inv, ResultInv, [Next]_vars, Plain(index')
             PROVE  /\ stage' = "scan" => result' = {r \in Answer' : MorselOf(r) < morsel'}
                    /\ stage' = "done" => result' = Answer'
  BY DEF ResultInv
<1>0. \A r \in Rows : MorselOf(r) \in Nat /\ MorselOf(r) < MorselCount
  BY RowPlaces, CandidateAssumption DEF Morsels
<1>1. CASE BuildIndex \/ SupplyIndex
  BY <1>1 DEF BuildIndex, SupplyIndex
<1>2. CASE Plan
  <2>1. stage' = "scan" /\ result' = {} /\ morsel' = 0
    BY <1>2 DEF Plan, Inv, PlanInv
  <2>2. \A r \in Rows : ~(MorselOf(r) < 0)
    BY <1>0
  <2>3. Answer' \subseteq Rows
    BY DEF Answer
  <2>4. QED
    BY <2>1, <2>2, <2>3
<1>3. ASSUME stage = "scan", UNCHANGED <<table, filters, index>>
      PROVE  /\ Answer' = Answer /\ Plain(index)
             /\ result = {r \in Answer : MorselOf(r) < morsel}
  BY <1>3 DEF ResultInv, Answer, Satisfies
<1>4. CASE SkipFile
  <2>1. stage' = "done" /\ result' = result /\ Answer' = Answer /\ Plain(index)
        /\ result = {r \in Answer : MorselOf(r) < 0} /\ SelectsNoRows
    BY <1>3, <1>4 DEF SkipFile
  <2>2. result' = {}
    BY <1>0, <2>1 DEF Answer
  <2>3. ASSUME NEW r \in Rows, Satisfies(r) PROVE FALSE
    <3>1. CASE narrowed /\ candidates = {}
      BY <2>1, <2>3, <3>1, SatisfyingRowsAccepted, AcceptedRowsKept DEF CandidateRows
    <3>2. CASE \E i \in DOMAIN filters : filters[i].kind = "keys" /\ filters[i].in = {}
      BY <2>3, <3>2 DEF Satisfies, Accepts
    <3>3. QED
      BY <2>1, <3>1, <3>2 DEF SelectsNoRows
  <2>4. Answer = {}
    BY <2>3 DEF Answer
  <2>5. QED
    BY <2>1, <2>2, <2>4
<1>5. ASSUME stage = "scan", NextMorsel,
             result' = result \cup {r \in Answer : MorselOf(r) = morsel}
      PROVE  /\ stage' = "scan" => result' = {r \in Answer' : MorselOf(r) < morsel'}
             /\ stage' = "done" => result' = Answer'
  <2>1. Answer' = Answer /\ result = {r \in Answer : MorselOf(r) < morsel} /\ morsel \in Morsels
        /\ morsel' = morsel + 1
        /\ stage' = IF morsel + 1 = MorselCount THEN "done" ELSE "scan"
    BY <1>3, <1>5 DEF NextMorsel, Inv
  <2>2. \A r \in Answer : MorselOf(r) \in Nat /\ MorselOf(r) < MorselCount
    BY <1>0 DEF Answer
  <2>3. morsel \in Nat
    BY <2>1, CandidateAssumption DEF Morsels
  <2>4. \A r \in Answer : MorselOf(r) < morsel + 1 <=> MorselOf(r) < morsel \/ MorselOf(r) = morsel
    BY <2>2, <2>3
  <2>5. result' = {r \in Answer : MorselOf(r) < morsel + 1}
    BY <1>5, <2>1, <2>4
  <2>6. QED
    BY <2>1, <2>2, <2>5
<1>6. CASE SkipMorsel
  <2>1. stage = "scan" /\ MorselPruned(morsel) /\ NextMorsel /\ result' = result /\ Plain(index)
    BY <1>3, <1>6 DEF SkipMorsel, NextMorsel
  <2>2. ASSUME NEW r \in Answer, MorselOf(r) = morsel PROVE FALSE
    <3>1. r \in Rows /\ Satisfies(r) /\ narrowed
      BY <2>1 DEF Answer, MorselPruned
    <3>2. r \in CandidateRows(morsel)
      BY <2>1, <2>2, <3>1, SatisfyingRowsAccepted, AcceptedRowsKept
    <3>3. PICK c \in candidates : c.morsel = morsel /\ r \in RowsIn(c) \cap RowsOf(morsel)
      BY <3>2 DEF CandidateRows
    <3>4. QED
      BY <2>1, <3>1, <3>3 DEF MorselPruned, Overlaps
  <2>3. result' = result \cup {r \in Answer : MorselOf(r) = morsel}
    BY <2>1, <2>2
  <2>4. QED
    BY <1>5, <2>1, <2>3
<1>7. CASE ScanMorsel
  <2>1. stage = "scan" /\ NextMorsel /\ result' = result \cup Kept(morsel) /\ Plain(index)
        /\ morsel \in Morsels
    BY <1>3, <1>7 DEF ScanMorsel, NextMorsel, Inv
  <2>2. ASSUME NEW r \in Kept(morsel) PROVE r \in Answer /\ MorselOf(r) = morsel
    BY <2>1, RowPlaces DEF Kept, Answer
  <2>3. ASSUME NEW r \in Answer, MorselOf(r) = morsel PROVE r \in Kept(morsel)
    <3>1. r \in Rows /\ Satisfies(r) /\ r \in RowsOf(morsel)
      BY <2>3, RowPlaces DEF Answer
    <3>2. narrowed => r \in CandidateRows(morsel)
      BY <2>1, <2>3, <3>1, SatisfyingRowsAccepted, AcceptedRowsKept
    <3>3. QED
      BY <3>1, <3>2 DEF Kept
  <2>4. result' = result \cup {r \in Answer : MorselOf(r) = morsel}
    BY <2>1, <2>2, <2>3
  <2>5. QED
    BY <1>5, <2>1, <2>4
<1>8. CASE UNCHANGED vars
  BY <1>8 DEF vars, ResultInv, Answer, Satisfies
<1>9. QED
  BY <1>1, <1>2, <1>4, <1>6, <1>7, <1>8 DEF Next, Finished

(***************************************************************************)
(* The index does not change the answer (SameRows): over a plain index,    *)
(* the rows returned are those that satisfy every filter, whichever        *)
(* filter was answered, and however many morsels were skipped (README.md:  *)
(* advisory metadata "must not change query results").                     *)
(***************************************************************************)
THEOREM PlainIndexSameRows == Spec => [](Plain(index) => SameRows)
<1>1. Init => ResultInv
  BY DEF Init, ResultInv
<1>2. Inv /\ ResultInv => (Plain(index) => SameRows)
  BY DEF ResultInv, SameRows, Answer
<1>3. QED
  BY <1>1, <1>2, InvHolds, ResultStep, PTL DEF Spec

(***************************************************************************)
(* The index this writer builds is plain, so the answer is always the      *)
(* table's (SameRows) as long as the valid indexes of other writers are    *)
(* plain too; with none supplied, nothing is assumed (build_column_index,  *)
(* append_row_range).                                                      *)
(***************************************************************************)
THEOREM IndexNeverChangesRows ==
  ASSUME \A x \in ForeignIndexes : ValidIndex(x) => Plain(x)
  PROVE  Spec => []SameRows
<1>1. Init => Plain(index)
  <2>1. SUFFICES ASSUME Init PROVE Plain(index)
    OBVIOUS
  <2>2. index.entries = <<>> /\ DOMAIN <<>> = {}
    BY <2>1 DEF Init
  <2>3. QED
    BY <2>2 DEF Plain, OneFile, Postings
<1>2. Inv /\ Plain(index) /\ [Next]_vars => Plain(index')
  <2>1. SUFFICES ASSUME Inv, Plain(index), [Next]_vars PROVE Plain(index')
    OBVIOUS
  <2>2. CASE BuildIndex
    <3>1. PICK keys \in [1 .. Cardinality(KeysOf(table)) -> KeysOf(table)] :
             /\ \A v \in KeysOf(table) : \E i \in DOMAIN keys : keys[i] = v
             /\ index' = BuiltIndex(table, keys)
      BY <2>2 DEF BuildIndex
    <3>2. table \in [Rows -> Values \cup {Null}]
      BY <2>1 DEF Inv, TypeOK
    <3>3. QED
      BY <3>1, <3>2, BuiltIndexRight
  <2>3. CASE SupplyIndex
    BY <2>1, <2>3 DEF SupplyIndex
  <2>4. CASE UNCHANGED index
    BY <2>1, <2>4
  <2>5. QED
    BY <2>1, <2>2, <2>3, <2>4
       DEF Next, Plan, SkipFile, SkipMorsel, ScanMorsel, NextMorsel, Finished, vars
<1>3. Spec => []Plain(index)
  <2>1. Plain(index)' <=> Plain(index')
    BY DEF Plain, OneFile, Postings
  <2>2. QED
    BY <1>1, <1>2, <2>1, InvHolds, PTL DEF Spec
<1>4. QED
  BY <1>3, PlainIndexSameRows, PTL
=============================================================================
