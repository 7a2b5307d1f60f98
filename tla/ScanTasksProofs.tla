---------------------------- MODULE ScanTasksProofs ----------------------------
(***************************************************************************)
(* Proofs about the task graph: its types, that no hidden row is returned, *)
(* that every partition returns its rows in row order, and which           *)
(* partitions return a visible row: one, or those whose splits claim it;   *)
(* for every dataset and partition size.                                   *)
(***************************************************************************)
EXTENDS ScanTasks, BasicLemmas

------------------------------------------------------------------------------
(* Segments, morsels and rows of one file                                   *)

FilesOK == files \in Datasets
SegRows(seg) == seg.start .. seg.start + seg.rows - 1
SegMorselRows(seg, m) ==
  LET first == seg.start + m * seg.size
  IN  first .. first + MorselRowCount(seg, m) - 1

LEMMA SegmentTyped ==
  ASSUME FilesOK, NEW f \in 1..Len(files)
  PROVE  /\ files[f] \in File
         /\ files[f].segs \in Seq(Segment)
         /\ SegsOf(f) \subseteq Nat
         /\ \A s \in SegsOf(f) :
              /\ files[f].segs[s] \in Segment
              /\ files[f].segs[s].start
                   = IF s = 1 THEN 0 ELSE files[f].segs[s - 1].start + files[f].segs[s - 1].rows
<1>1. files \in Seq(File)
  BY DatasetsTyped DEF FilesOK
<1>2. files[f] \in File
  BY <1>1
<1>3. files[f].segs \in Seq(Segment)
  BY <1>2 DEF File
<1>4. \A s \in SegsOf(f) : files[f].segs[s] \in Segment
  BY <1>3 DEF SegsOf
<1>5. \A s \in SegsOf(f) :
        files[f].segs[s].start
          = IF s = 1 THEN 0 ELSE files[f].segs[s - 1].start + files[f].segs[s - 1].rows
  BY DatasetsWellFormed DEF FilesOK, SegsOf
<1>6. SegsOf(f) \subseteq Nat
  BY <1>3 DEF SegsOf
<1>7. QED
  BY <1>2, <1>3, <1>4, <1>5, <1>6

\* A morsel of a segment is one that starts inside it.
LEMMA MorselStarts ==
  ASSUME NEW seg \in Segment
  PROVE  /\ MorselCount(seg) \in Nat
         /\ \A m \in Nat : m \in 0 .. MorselCount(seg) - 1 <=> m * seg.size < seg.rows
<1>1. seg.rows \in Nat /\ seg.size \in Nat \ {0}
  BY DEF Segment
<1>2. MorselCount(seg) \in Nat
  BY <1>1, ChunkIndex DEF MorselCount
<1>3. ASSUME NEW m \in Nat
      PROVE  m < MorselCount(seg) <=> m * seg.size < seg.rows
  BY <1>1, ChunkIndex DEF MorselCount
<1>4. QED
  BY <1>2, <1>3

\* The rows of a morsel; the last one may be short.
LEMMA MorselBounds ==
  ASSUME NEW seg \in Segment, NEW m \in 0 .. MorselCount(seg) - 1
  PROVE  /\ m \in Nat
         /\ m * seg.size \in Nat
         /\ m * seg.size < seg.rows
         /\ \A r : r \in SegMorselRows(seg, m) <=>
                     /\ r \in Nat
                     /\ r >= seg.start + m * seg.size
                     /\ r < seg.start + m * seg.size + seg.size
                     /\ r < seg.start + seg.rows
<1> DEFINE first == m * seg.size
           last == Least(seg.size, seg.rows - first)
<1>1. seg.start \in Nat /\ seg.rows \in Nat /\ seg.size \in Nat \ {0}
  BY DEF Segment
<1>2. m \in Nat
  BY MorselStarts
<1>3. first \in Nat /\ first < seg.rows
  BY <1>1, <1>2, MorselStarts
<1>4. SegMorselRows(seg, m) = seg.start + first .. seg.start + first + last - 1
  BY DEF SegMorselRows, MorselRowCount
<1> HIDE DEF first
<1>5. /\ last \in Int
      /\ \A x \in Int : x < last <=> x < seg.size /\ x < seg.rows - first
  BY <1>1, <1>3 DEF Least
<1> HIDE DEF last
<1>6. \A r : r \in SegMorselRows(seg, m) <=>
               /\ r \in Nat
               /\ r >= seg.start + first
               /\ r < seg.start + first + seg.size
               /\ r < seg.start + seg.rows
  <2>1. TAKE r
  <2>2. ASSUME r \in Int
        PROVE  r \in SegMorselRows(seg, m) <=>
                 /\ r >= seg.start + first
                 /\ r - seg.start - first < last
    BY <1>1, <1>3, <1>4, <1>5, <2>2
  <2>3. r \in SegMorselRows(seg, m) => r \in Int
    BY <1>4
  <2>4. QED
    BY <1>1, <1>3, <1>5, <2>2, <2>3
<1>7. QED
  BY <1>2, <1>3, <1>6 DEF first

\* The morsels of a segment are its rows, each once, in order.
LEMMA MorselsTileSegment ==
  ASSUME NEW seg \in Segment
  PROVE  /\ \A m \in 0 .. MorselCount(seg) - 1 : SegMorselRows(seg, m) \subseteq SegRows(seg)
         /\ \A r \in SegRows(seg) : \E m \in 0 .. MorselCount(seg) - 1 : r \in SegMorselRows(seg, m)
         /\ \A m, n \in 0 .. MorselCount(seg) - 1 : m < n =>
              \A a \in SegMorselRows(seg, m), b \in SegMorselRows(seg, n) : a < b
<1>1. seg.start \in Nat /\ seg.rows \in Nat /\ seg.size \in Nat \ {0}
  BY DEF Segment
<1>2. \A m \in 0 .. MorselCount(seg) - 1 :
        /\ m \in Nat
        /\ m * seg.size \in Nat
        /\ m * seg.size < seg.rows
        /\ \A r : r \in SegMorselRows(seg, m) <=>
                    /\ r \in Nat
                    /\ r >= seg.start + m * seg.size
                    /\ r < seg.start + m * seg.size + seg.size
                    /\ r < seg.start + seg.rows
  BY MorselBounds
<1>3. \A m \in 0 .. MorselCount(seg) - 1 : SegMorselRows(seg, m) \subseteq SegRows(seg)
  BY <1>1, <1>2 DEF SegRows
<1>4. ASSUME NEW r \in SegRows(seg)
      PROVE  \E m \in 0 .. MorselCount(seg) - 1 : r \in SegMorselRows(seg, m)
  <2> DEFINE d == r - seg.start
             m == d \div seg.size
  <2>1. d \in Nat /\ d < seg.rows /\ r = seg.start + d /\ r \in Nat
    BY <1>1 DEF SegRows
  <2>2. /\ m \in Nat
        /\ m * seg.size <= d
        /\ d < m * seg.size + seg.size
    BY <1>1, <2>1, DivIsQuotient
  <2> HIDE DEF d, m
  <2>3. m * seg.size \in Nat
    BY <1>1, <2>2
  <2>4. m * seg.size < seg.rows
    BY <1>1, <2>1, <2>2, <2>3
  <2>5. m \in 0 .. MorselCount(seg) - 1
    BY <2>2, <2>4, MorselStarts
  <2>6. r \in SegMorselRows(seg, m)
    BY <1>1, <1>2, <2>1, <2>2, <2>3, <2>5
  <2>7. QED
    BY <2>5, <2>6
<1>5. ASSUME NEW m \in 0 .. MorselCount(seg) - 1, NEW n \in 0 .. MorselCount(seg) - 1, m < n,
             NEW a \in SegMorselRows(seg, m), NEW b \in SegMorselRows(seg, n)
      PROVE  a < b
  <2>1. m \in Nat /\ n \in Nat
    BY <1>2
  <2>2. m * seg.size \in Nat /\ n * seg.size \in Nat
    BY <1>2
  <2>3. m * seg.size + seg.size <= n * seg.size
    BY <1>1, <1>5, <2>1, ProductOrder
  <2>4. a \in Nat /\ a < seg.start + m * seg.size + seg.size
    BY <1>2
  <2>5. b \in Nat /\ b >= seg.start + n * seg.size
    BY <1>2
  <2>6. QED
    BY <1>1, <2>2, <2>3, <2>4, <2>5
<1>6. QED
  BY <1>3, <1>4, <1>5

\* Segments lie one after the other.
LEMMA SegmentsInOrder ==
  ASSUME FilesOK, NEW f \in 1..Len(files)
  PROVE  \A s, t \in SegsOf(f) : s < t =>
           files[f].segs[s].start + files[f].segs[s].rows <= files[f].segs[t].start
<1> DEFINE segs == files[f].segs
           end(i) == segs[i].start + segs[i].rows
<1>1. /\ SegsOf(f) = 1..Len(segs) /\ Len(segs) \in Nat
      /\ \A s \in SegsOf(f) : segs[s].start \in Nat /\ segs[s].rows \in Nat
      /\ \A s \in SegsOf(f) : segs[s].start = IF s = 1 THEN 0 ELSE end(s - 1)
  BY SegmentTyped DEF SegsOf, Segment
<1> HIDE DEF segs
<1>2. SUFFICES ASSUME NEW s \in SegsOf(f) PROVE \A t \in SegsOf(f) : s < t => end(s) <= segs[t].start
  BY DEF segs
<1> DEFINE Bad == {t \in SegsOf(f) : s < t /\ ~ (end(s) <= segs[t].start)}
<1>3. SUFFICES ASSUME Bad # {} PROVE FALSE
  OBVIOUS
<1>4. PICK t \in Bad : \A u \in Bad : t <= u
  <2>1. Bad \subseteq Nat
    BY <1>1
  <2>2. QED
    BY <1>3, <2>1, NatMin
<1>5. t \in SegsOf(f) /\ s < t /\ ~ (end(s) <= segs[t].start) /\ t - 1 \notin Bad
  BY <1>1, <1>4
<1>6. t - 1 \in SegsOf(f) /\ s <= t - 1 /\ segs[t].start = end(t - 1)
  BY <1>1, <1>5
<1>7. CASE s = t - 1
  BY <1>1, <1>5, <1>6, <1>7
<1>8. CASE s < t - 1
  <2>1. end(s) <= segs[t - 1].start
    BY <1>5, <1>6, <1>8
  <2>2. QED
    BY <1>1, <1>5, <1>6, <2>1
<1>9. QED
  BY <1>1, <1>6, <1>7, <1>8

\* The place of a morsel before another of the same file.
MorselBefore(p, q) == p[1] < q[1] \/ (p[1] = q[1] /\ p[2] < q[2])
RowsIn(f, p) == MorselRows(f, p[1], p[2])

LEMMA MorselTyped ==
  ASSUME FilesOK, NEW f \in 1..Len(files), NEW p \in Morsels(f)
  PROVE  /\ p = <<p[1], p[2]>>
         /\ p[1] \in SegsOf(f) /\ p[1] \in Nat
         /\ p[2] \in 0 .. MorselCount(files[f].segs[p[1]]) - 1 /\ p[2] \in Nat
         /\ files[f].segs[p[1]] \in Segment
         /\ RowsIn(f, p) = SegMorselRows(files[f].segs[p[1]], p[2])
<1>1. PICK s \in SegsOf(f) : p \in {<<s, m>> : m \in 0 .. MorselCount(files[f].segs[s]) - 1}
  BY DEF Morsels
<1>2. files[f].segs[s] \in Segment /\ s \in Nat
  BY SegmentTyped
<1>3. PICK m \in 0 .. MorselCount(files[f].segs[s]) - 1 : p = <<s, m>>
  BY <1>1
<1>4. m \in Nat
  BY <1>2, MorselStarts
<1>5. RowsIn(f, p) = SegMorselRows(files[f].segs[p[1]], p[2])
  BY DEF RowsIn, MorselRows, SegMorselRows
<1>6. QED
  BY <1>2, <1>3, <1>4, <1>5

\* The morsels of a file are its rows, each once, in the order of the loops.
LEMMA MorselsTileFile ==
  ASSUME FilesOK, NEW f \in 1..Len(files)
  PROVE  /\ RowsOf(f) \subseteq Nat
         /\ \A p \in Morsels(f) : RowsIn(f, p) \subseteq RowsOf(f)
         /\ \A r \in RowsOf(f) : \E p \in Morsels(f) : r \in RowsIn(f, p)
         /\ \A p, q \in Morsels(f) : MorselBefore(p, q) =>
              \A a \in RowsIn(f, p), b \in RowsIn(f, q) : a < b
<1> DEFINE seg(s) == files[f].segs[s]
<1>1. \A s \in SegsOf(f) : /\ seg(s) \in Segment /\ seg(s).start \in Nat /\ seg(s).rows \in Nat
                           /\ s \in Nat
  BY SegmentTyped DEF Segment
<1>2. RowsOf(f) = UNION {SegRows(seg(s)) : s \in SegsOf(f)}
  BY DEF RowsOf, SegRows
<1>3. \A s \in SegsOf(f) : SegRows(seg(s)) \subseteq Nat
  BY <1>1 DEF SegRows
<1>4. \A p \in Morsels(f) : /\ p[1] \in SegsOf(f)
                            /\ p[2] \in 0 .. MorselCount(seg(p[1])) - 1
                            /\ RowsIn(f, p) = SegMorselRows(seg(p[1]), p[2])
                            /\ RowsIn(f, p) \subseteq SegRows(seg(p[1]))
  BY <1>1, MorselTyped, MorselsTileSegment
<1>5. RowsOf(f) \subseteq Nat /\ \A p \in Morsels(f) : RowsIn(f, p) \subseteq RowsOf(f)
  BY <1>2, <1>3, <1>4
<1>6. ASSUME NEW r \in RowsOf(f) PROVE \E p \in Morsels(f) : r \in RowsIn(f, p)
  <2>1. PICK s \in SegsOf(f) : r \in SegRows(seg(s))
    BY <1>2
  <2>2. PICK m \in 0 .. MorselCount(seg(s)) - 1 : r \in SegMorselRows(seg(s), m)
    BY <1>1, <2>1, MorselsTileSegment
  <2>3. <<s, m>> \in Morsels(f)
    BY DEF Morsels
  <2>4. r \in RowsIn(f, <<s, m>>)
    BY <1>4, <2>2, <2>3
  <2>5. QED
    BY <2>3, <2>4
<1>7. ASSUME NEW p \in Morsels(f), NEW q \in Morsels(f), MorselBefore(p, q),
             NEW a \in RowsIn(f, p), NEW b \in RowsIn(f, q)
      PROVE  a < b
  <2>1. CASE p[1] < q[1]
    <3>1. seg(p[1]).start + seg(p[1]).rows <= seg(q[1]).start
      BY <1>4, <2>1, SegmentsInOrder
    <3>2. a \in SegRows(seg(p[1])) /\ b \in SegRows(seg(q[1]))
      BY <1>4
    <3>3. /\ a \in Int /\ a < seg(p[1]).start + seg(p[1]).rows
          /\ b \in Int /\ seg(q[1]).start <= b
      <4>1. p[1] \in SegsOf(f) /\ q[1] \in SegsOf(f)
        BY <1>4
      <4> HIDE DEF seg
      <4>2. QED
        BY <1>1, <3>2, <4>1 DEF SegRows
    <3>4. p[1] \in SegsOf(f) /\ q[1] \in SegsOf(f)
      BY <1>4
    <3> HIDE DEF seg
    <3>5. QED
      BY <1>1, <3>1, <3>3, <3>4
  <2>2. CASE p[1] = q[1] /\ p[2] < q[2]
    BY <1>1, <1>4, <2>2, MorselsTileSegment
  <2>3. QED
    BY <1>7, <2>1, <2>2 DEF MorselBefore
<1>8. QED
  BY <1>5, <1>6, <1>7

\* A row lies in one morsel only.
LEMMA MorselOfRowUnique ==
  ASSUME FilesOK, NEW f \in 1..Len(files), NEW p \in Morsels(f), NEW q \in Morsels(f),
         NEW r, r \in RowsIn(f, p), r \in RowsIn(f, q)
  PROVE  p = q
<1>1. r \in Nat
  BY MorselsTileFile
<1>2. ~ MorselBefore(p, q) /\ ~ MorselBefore(q, p)
  BY <1>1, MorselsTileFile
<1>3. p[1] = q[1] /\ p[2] = q[2]
  BY <1>2, MorselTyped DEF MorselBefore
<1>4. QED
  BY <1>3, MorselTyped

LEMMA MorselsFinite ==
  ASSUME FilesOK, NEW f \in 1..Len(files)
  PROVE  IsFiniteSet(Morsels(f))
<1> DEFINE of(s) == {<<s, m>> : m \in 0 .. MorselCount(files[f].segs[s]) - 1}
<1>1. ASSUME NEW s \in SegsOf(f) PROVE IsFiniteSet(of(s))
  <2> DEFINE I == 0 .. MorselCount(files[f].segs[s]) - 1
           pair == [m \in I |-> <<s, m>>]
  <2>1. IsFiniteSet(I)
    <3>1. MorselCount(files[f].segs[s]) \in Nat
      BY <1>1, SegmentTyped, MorselStarts
    <3>2. QED
      BY <3>1, FiniteInterval
  <2>2. of(s) = {pair[m] : m \in I}
    OBVIOUS
  <2>3. DOMAIN pair = I
    OBVIOUS
  <2> HIDE DEF I, pair, of
  <2>4. QED
    BY <2>1, <2>2, <2>3, FiniteRange
<1>2. IsFiniteSet({of(s) : s \in SegsOf(f)})
  <2> DEFINE g == [s \in SegsOf(f) |-> of(s)]
  <2>1. IsFiniteSet(SegsOf(f))
    <3>1. Len(files[f].segs) \in Nat
      BY SegmentTyped
    <3>2. IsFiniteSet(1..Len(files[f].segs))
      BY <3>1, FiniteInterval
    <3>3. QED
      BY <3>2 DEF SegsOf
  <2>2. {of(s) : s \in SegsOf(f)} = {g[s] : s \in SegsOf(f)} /\ DOMAIN g = SegsOf(f)
    OBVIOUS
  <2> HIDE DEF of, g
  <2>3. QED
    BY <2>1, <2>2, FiniteRange
<1>3. \A T \in {of(s) : s \in SegsOf(f)} : IsFiniteSet(T)
  BY <1>1
<1>4. Morsels(f) = UNION {of(s) : s \in SegsOf(f)}
  BY DEF Morsels
<1>5. QED
  BY <1>2, <1>3, <1>4, FS_UNION

------------------------------------------------------------------------------
(* Tasks                                                                    *)

Place(t) == <<t.seg, t.morsel>>
TaskMorselRows(t) == RowsIn(t.file, Place(t))

\* A task of the graph: a morsel of a file, with the predicate or with the
\* matching rows of the morsel as row references.
TaskOK(t) ==
  /\ t = Task(t.file, t.seg, t.morsel, t.sel)
  /\ t.file \in 1..Len(files)
  /\ Place(t) \in Morsels(t.file)
  /\ t.sel = NoSelection \/ t.sel = TaskMorselRows(t) \cap files[t.file].match

\* Tasks of one partition are of different morsels.
Ordered(T) == \A t, u \in T : t = u \/ Before(t, u) \/ Before(u, t)

LEMMA TaskTyped ==
  ASSUME FilesOK, NEW t, TaskOK(t)
  PROVE  /\ t.file \in Nat /\ t.seg \in Nat /\ t.morsel \in Nat
         /\ TaskMorselRows(t) \subseteq RowsOf(t.file)
         /\ TaskMorselRows(t) \subseteq Nat
         /\ TaskMorselRows(t) = MorselRows(t.file, t.seg, t.morsel)
<1>1. /\ t.file \in 1..Len(files) /\ Place(t) \in Morsels(t.file)
  BY DEF TaskOK
<1>2. t.file \in Nat
  BY <1>1
<1>3. t.seg \in Nat /\ t.morsel \in Nat
  BY <1>1, MorselTyped DEF Place
<1>4. TaskMorselRows(t) \subseteq RowsOf(t.file) /\ RowsOf(t.file) \subseteq Nat
  BY <1>1, MorselsTileFile DEF TaskMorselRows
<1>5. TaskMorselRows(t) = MorselRows(t.file, t.seg, t.morsel)
  BY DEF TaskMorselRows, RowsIn, Place
<1>6. QED
  BY <1>2, <1>3, <1>4, <1>5

\* What a task returns: the visible rows of its morsel.
LEMMA SelectedVisible ==
  ASSUME FilesOK, NEW t, TaskOK(t)
  PROVE  Selected(t) = TaskMorselRows(t) \cap Visible(t.file)
<1>1. /\ TaskMorselRows(t) = MorselRows(t.file, t.seg, t.morsel)
      /\ TaskMorselRows(t) \subseteq Nat
  BY TaskTyped
<1>2. CASE t.sel = NoSelection
  BY <1>1, <1>2 DEF Selected, Visible
<1>3. CASE t.sel # NoSelection
  BY <1>1, <1>3 DEF Selected, Visible, TaskOK
<1>4. QED
  BY <1>2, <1>3

\* The order of tasks is the order of their rows.
RowBefore(a, b) == a[1] < b[1] \/ (a[1] = b[1] /\ a[2] < b[2])

LEMMA TaskOrderIsRowOrder ==
  ASSUME FilesOK, NEW t, TaskOK(t), NEW u, TaskOK(u), Before(t, u),
         NEW a \in TaskMorselRows(t), NEW b \in TaskMorselRows(u)
  PROVE  RowBefore(<<t.file, a>>, <<u.file, b>>)
<1>1. CASE t.file < u.file
  BY <1>1 DEF RowBefore
<1>2. CASE t.file = u.file
  <2>1. /\ t.file \in 1..Len(files)
        /\ Place(t) \in Morsels(t.file) /\ Place(u) \in Morsels(t.file)
    BY <1>2 DEF TaskOK
  <2>2. t.file \in Nat
    BY <2>1
  <2>3. MorselBefore(Place(t), Place(u))
    BY <1>2, <2>2 DEF Before, MorselBefore, Place
  <2>4. a < b
    BY <1>2, <2>1, <2>3, MorselsTileFile DEF TaskMorselRows
  <2>5. QED
    BY <1>2, <2>4 DEF RowBefore
<1>3. QED
  BY <1>1, <1>2, TaskTyped DEF Before

\* A partition with tasks has a first one.
LEMMA FirstOfTasks ==
  ASSUME FilesOK, NEW T, T # {}, \A t \in T : TaskOK(t), Ordered(T)
  PROVE  \E t \in T : \A u \in T : u = t \/ Before(t, u)
<1>1. \A t \in T : t.file \in Nat /\ t.seg \in Nat /\ t.morsel \in Nat
  BY TaskTyped
<1>2. PICK a \in T : \A u \in T : a.file <= u.file
  <2>1. PICK x \in {t.file : t \in T} : \A y \in {t.file : t \in T} : x <= y
    BY <1>1, NatMin
  <2>2. QED
    BY <2>1
<1> DEFINE A == {t \in T : t.file = a.file}
<1>3. PICK b \in A : \A u \in A : b.seg <= u.seg
  <2>1. PICK x \in {t.seg : t \in A} : \A y \in {t.seg : t \in A} : x <= y
    <3>1. {t.seg : t \in A} \subseteq Nat /\ {t.seg : t \in A} # {}
      BY <1>1
    <3>2. QED
      BY <3>1, NatMin
  <2>2. QED
    BY <2>1
<1> DEFINE B == {t \in A : t.seg = b.seg}
<1>4. PICK c \in B : \A u \in B : c.morsel <= u.morsel
  <2>1. PICK x \in {t.morsel : t \in B} : \A y \in {t.morsel : t \in B} : x <= y
    <3>1. {t.morsel : t \in B} \subseteq Nat /\ {t.morsel : t \in B} # {}
      BY <1>1
    <3>2. QED
      BY <3>1, NatMin
  <2>2. QED
    BY <2>1
<1>5. c \in T /\ c.file = a.file /\ c.seg = b.seg
  OBVIOUS
<1>6. ASSUME NEW u \in T PROVE ~ Before(u, c)
  <2>1. a.file <= u.file
    BY <1>2
  <2>2. u.file = a.file => b.seg <= u.seg
    BY <1>3
  <2>3. u.file = a.file /\ u.seg = b.seg => c.morsel <= u.morsel
    BY <1>4
  <2>4. QED
    BY <1>1, <1>5, <2>1, <2>2, <2>3 DEF Before
<1>7. QED
  BY <1>5, <1>6 DEF Ordered

------------------------------------------------------------------------------
(* Planning                                                                 *)

\* A set of tasks with at most one for a morsel.
GoodTasks(T) ==
  /\ \A t \in T : TaskOK(t)
  /\ \A t, u \in T : t.file = u.file /\ Place(t) = Place(u) => t = u

LEMMA GoodTasksOrdered ==
  ASSUME FilesOK, NEW T, GoodTasks(T)
  PROVE  Ordered(T)
<1> SUFFICES ASSUME NEW t \in T, NEW u \in T PROVE t = u \/ Before(t, u) \/ Before(u, t)
  BY DEF Ordered
<1>1. /\ t.file \in Nat /\ t.seg \in Nat /\ t.morsel \in Nat
      /\ u.file \in Nat /\ u.seg \in Nat /\ u.morsel \in Nat
  BY TaskTyped DEF GoodTasks
<1>2. t.file = u.file /\ t.seg = u.seg /\ t.morsel = u.morsel => t = u
  BY DEF GoodTasks, Place
<1>3. QED
  BY <1>1, <1>2 DEF Before

LEMMA GoodTasksFinite ==
  ASSUME FilesOK, NEW T, GoodTasks(T)
  PROVE  IsFiniteSet(T)
<1> DEFINE of(f) == {f} \X Morsels(f)
           g == [f \in 1..Len(files) |-> of(f)]
           Places == UNION {g[f] : f \in 1..Len(files)}
           place == [t \in T |-> <<t.file, Place(t)>>]
<1>1. \A f \in 1..Len(files) : IsFiniteSet(g[f])
  <2> SUFFICES ASSUME NEW f \in 1..Len(files) PROVE IsFiniteSet({f} \X Morsels(f))
    OBVIOUS
  <2>1. IsFiniteSet({f}) /\ IsFiniteSet(Morsels(f))
    BY FS_Singleton, MorselsFinite
  <2>2. QED
    BY <2>1, FS_Product
<1>2. IsFiniteSet(Places)
  <2>1. Len(files) \in Nat
    BY DatasetsTyped DEF FilesOK
  <2>2. IsFiniteSet(1..Len(files))
    BY <2>1, FiniteInterval
  <2>3. DOMAIN g = 1..Len(files)
    OBVIOUS
  <2> HIDE DEF g
  <2>4. IsFiniteSet({g[f] : f \in 1..Len(files)})
    BY <2>2, <2>3, FiniteRange
  <2>5. \A S \in {g[f] : f \in 1..Len(files)} : IsFiniteSet(S)
    BY <1>1
  <2>6. QED
    BY <2>4, <2>5, FS_UNION
<1>3. place \in Injection(T, Places)
  <2>1. ASSUME NEW t \in T PROVE <<t.file, Place(t)>> \in Places
    <3>1. t.file \in 1..Len(files) /\ Place(t) \in Morsels(t.file)
      BY DEF GoodTasks, TaskOK
    <3>2. <<t.file, Place(t)>> \in g[t.file]
      BY <3>1
    <3>3. QED
      BY <3>1, <3>2
  <2> HIDE DEF Places
  <2>2. place \in [T -> Places]
    BY <2>1
  <2>3. IsInjective(place)
    BY DEF IsInjective, GoodTasks
  <2>4. QED
    BY <2>2, <2>3 DEF Injection
<1> HIDE DEF place, Places
<1>4. QED
  BY <1>2, <1>3, FS_Injection

\* Chunking gives every task one partition.
LEMMA ChunksFacts ==
  ASSUME FilesOK, NEW T, GoodTasks(T)
  PROVE  /\ \A k \in DOMAIN Chunks(T) : k[1] = 0 /\ Chunks(T)[k] \subseteq T
         /\ \A t \in T : \E k \in DOMAIN Chunks(T) : t \in Chunks(T)[k]
         /\ \A k, l \in DOMAIN Chunks(T) : Chunks(T)[k] \cap Chunks(T)[l] # {} => k = l
<1> DEFINE D == {<<0, c>> : c \in 0 .. ChunkCount(T) - 1}
<1>1. /\ DOMAIN Chunks(T) = D
      /\ \A k \in D : Chunks(T)[k] = {t \in T : ChunkOf(T, t) = k[2]}
  BY DEF Chunks
<1>2. ASSUME NEW t \in T PROVE ChunkOf(T, t) \in 0 .. ChunkCount(T) - 1
  <2> DEFINE B == {u \in T : Before(u, t)}
             n == Cardinality(T)
             b == Cardinality(B)
             c == b \div Target
  <2>1. IsFiniteSet(T \ {t}) /\ Cardinality(T \ {t}) = n - 1 /\ n \in Nat
    BY GoodTasksFinite, FS_RemoveElement, FS_CardinalityType
  <2>2. ~ Before(t, t)
    BY TaskTyped DEF Before, GoodTasks
  <2>3. B \in SUBSET (T \ {t})
    BY <2>2
  <2>4. IsFiniteSet(B) /\ b <= n - 1 /\ b \in Nat
    BY <2>1, <2>3, FS_Subset, FS_CardinalityType
  <2> HIDE DEF b, n, B
  <2>5. c \in Nat /\ c * Target <= b
    BY <2>4, TargetPositive, DivIsQuotient
  <2>6. c * Target \in Nat
    BY <2>5, TargetPositive
  <2> HIDE DEF c
  <2>7. c * Target < n
    BY <2>1, <2>4, <2>5, <2>6
  <2>8. c < (n + Target - 1) \div Target /\ (n + Target - 1) \div Target \in Nat
    BY <2>1, <2>5, <2>7, TargetPositive, ChunkIndex
  <2>9. ChunkOf(T, t) = c /\ ChunkCount(T) = (n + Target - 1) \div Target
    BY DEF ChunkOf, ChunkCount, c, n, b, B
  <2>10. QED
    BY <2>5, <2>8, <2>9
<1>3. ASSUME NEW t \in T PROVE \E k \in DOMAIN Chunks(T) : t \in Chunks(T)[k]
  <2>1. <<0, ChunkOf(T, t)>> \in D
    BY <1>2
  <2>2. QED
    BY <1>1, <2>1
<1>4. QED
  BY <1>1, <1>3

LEMMA PartitionedFacts ==
  ASSUME FilesOK, NEW T, GoodTasks(T)
  PROVE  /\ DOMAIN Partitioned(T) # {}
         /\ \A k \in DOMAIN Partitioned(T) : k[1] = 0 /\ Partitioned(T)[k] \subseteq T
         /\ \A t \in T : \E k \in DOMAIN Partitioned(T) : t \in Partitioned(T)[k]
         /\ \A k, l \in DOMAIN Partitioned(T) :
              Partitioned(T)[k] \cap Partitioned(T)[l] # {} => k = l
<1>1. CASE T = {}
  <2>1. Partitioned(T) = NoTasks
    BY <1>1 DEF Partitioned
  <2>2. DOMAIN NoTasks = {<<0, 0>>} /\ NoTasks[<<0, 0>>] = {}
    BY DEF NoTasks
  <2>3. QED
    BY <1>1, <2>1, <2>2
<1>2. CASE T # {}
  <2>1. Partitioned(T) = Chunks(T)
    BY <1>2 DEF Partitioned
  <2>2. DOMAIN Chunks(T) # {}
    BY <1>2, ChunksFacts
  <2>3. QED
    BY <2>1, <2>2, ChunksFacts
<1>3. QED
  BY <1>1, <1>2

\* A task for every morsel with a visible row: pruning and the overlay drop no
\* morsel that holds one.
LEMMA PushFacts ==
  ASSUME FilesOK, NEW f \in 1..Len(files), NEW M, M \subseteq Morsels(f)
  PROVE  /\ \A t \in Push(f, M) :
              TaskOK(t) /\ t.sel = NoSelection /\ t.file = f /\ Place(t) \in M
         /\ \A p \in M : RowsIn(f, p) \cap Visible(f) # {} =>
              \E t \in Push(f, M) : t.file = f /\ Place(t) = p
<1>1. ASSUME NEW t \in Push(f, M)
      PROVE  TaskOK(t) /\ t.sel = NoSelection /\ t.file = f /\ Place(t) \in M
  <2>1. PICK p \in M : t = Task(f, p[1], p[2], NoSelection)
    BY DEF Push
  <2>2. p = <<p[1], p[2]>>
    BY MorselTyped
  <2>3. /\ t.file = f /\ t.sel = NoSelection /\ Place(t) = p
        /\ t = Task(t.file, t.seg, t.morsel, t.sel)
    BY <2>1, <2>2 DEF Task, Place
  <2>4. QED
    BY <2>3 DEF TaskOK
<1>2. ASSUME NEW p \in M, RowsIn(f, p) \cap Visible(f) # {}
      PROVE  \E t \in Push(f, M) : t.file = f /\ Place(t) = p
  <2> DEFINE t == Task(f, p[1], p[2], NoSelection)
             seg == files[f].segs[p[1]]
  <2>1. PICK r \in RowsIn(f, p) : r \in files[f].match /\ r \notin files[f].hidden
    BY <1>2 DEF Visible
  <2>2. ~ AllHidden(f, p[1], p[2])
    BY <2>1 DEF AllHidden, RowsIn
  <2>3. p \notin files[f].pruned
    <3>1. SUFFICES ASSUME p \in files[f].pruned PROVE FALSE
      OBVIOUS
    <3>2. \/ r < seg.start + p[2] * seg.size
          \/ r >= seg.start + (p[2] + 1) * seg.size
          \/ r >= seg.start + seg.rows
      BY <2>1, <3>1, DatasetsWellFormed DEF FilesOK
    <3>3. /\ seg \in Segment /\ p[2] \in Nat
          /\ p[2] \in 0 .. MorselCount(seg) - 1
          /\ r \in SegMorselRows(seg, p[2])
      BY <2>1, MorselTyped
    <3>4. /\ r \in Nat
          /\ r >= seg.start + p[2] * seg.size
          /\ r < seg.start + p[2] * seg.size + seg.size
          /\ r < seg.start + seg.rows
      BY <3>3, MorselBounds
    <3>5. (p[2] + 1) * seg.size = p[2] * seg.size + seg.size /\ p[2] * seg.size \in Nat
      <4>1. seg.size \in Nat
        BY <3>3 DEF Segment
      <4> HIDE DEF seg
      <4>2. QED
        BY <3>3, <4>1, NextMultiple
    <3>6. seg.start \in Nat /\ seg.rows \in Nat /\ seg.size \in Nat
      BY <3>3 DEF Segment
    <3> HIDE DEF seg
    <3>7. QED
      BY <3>2, <3>4, <3>5, <3>6
  <2>4. t \in Push(f, M)
    BY <2>2, <2>3, MorselTyped DEF Push
  <2>5. t.file = f /\ Place(t) = p
    BY MorselTyped DEF Task, Place
  <2>6. QED
    BY <2>4, <2>5
<1>3. QED
  BY <1>1, <1>2

LEMMA PlainTasksGood ==
  ASSUME NEW T, \A t \in T : TaskOK(t) /\ t.sel = NoSelection
  PROVE  GoodTasks(T)
BY DEF GoodTasks, TaskOK, Place

\* Some task of T decodes morsel p of file f.
Holds(T, f, p) == \E t \in T : t.file = f /\ Place(t) = p

LEMMA FallbackFacts ==
  ASSUME FilesOK
  PROVE  /\ GoodTasks(FallbackTasks)
         /\ \A t \in FallbackTasks : splits[t.file] = {}
         /\ \A f \in 1..Len(files) : \A p \in Morsels(f) :
              splits[f] = {} /\ RowsIn(f, p) \cap Visible(f) # {} => Holds(FallbackTasks, f, p)
<1>1. ASSUME NEW t \in FallbackTasks
      PROVE  TaskOK(t) /\ t.sel = NoSelection /\ splits[t.file] = {}
  <2>1. PICK f \in 1..Len(files) : splits[f] = {} /\ t \in Push(f, Morsels(f))
    BY DEF FallbackTasks
  <2>2. QED
    BY <2>1, PushFacts
<1>2. ASSUME NEW f \in 1..Len(files), NEW p \in Morsels(f),
             splits[f] = {}, RowsIn(f, p) \cap Visible(f) # {}
      PROVE  Holds(FallbackTasks, f, p)
  <2>1. PICK t \in Push(f, Morsels(f)) : t.file = f /\ Place(t) = p
    BY <1>2, PushFacts
  <2>2. t \in FallbackTasks
    BY <1>2 DEF FallbackTasks
  <2>3. QED
    BY <2>1, <2>2 DEF Holds
<1>3. QED
  BY <1>1, <1>2, PlainTasksGood

LEMMA SplitFacts ==
  ASSUME FilesOK, NEW f \in 1..Len(files), NEW i
  PROVE  /\ GoodTasks(SplitTasks(f, i))
         /\ \A t \in SplitTasks(f, i) :
              /\ t.file = f
              /\ \E index \in splits[f] : Place(t) \in SplitMorsels(f, index[i])
         /\ \A index \in splits[f] : \A p \in SplitMorsels(f, index[i]) :
              RowsIn(f, p) \cap Visible(f) # {} => Holds(SplitTasks(f, i), f, p)
<1>1. \A index : SplitMorsels(f, index[i]) \subseteq Morsels(f)
  BY DEF SplitMorsels
<1>2. ASSUME NEW t \in SplitTasks(f, i)
      PROVE  /\ TaskOK(t) /\ t.sel = NoSelection /\ t.file = f
             /\ \E index \in splits[f] : Place(t) \in SplitMorsels(f, index[i])
  <2>1. PICK index \in splits[f] : t \in Push(f, SplitMorsels(f, index[i]))
    BY DEF SplitTasks
  <2>2. QED
    BY <1>1, <2>1, PushFacts
<1>3. ASSUME NEW index \in splits[f], NEW p \in SplitMorsels(f, index[i]),
             RowsIn(f, p) \cap Visible(f) # {}
      PROVE  Holds(SplitTasks(f, i), f, p)
  <2>1. PICK t \in Push(f, SplitMorsels(f, index[i])) : t.file = f /\ Place(t) = p
    BY <1>1, <1>3, PushFacts
  <2>2. t \in SplitTasks(f, i)
    BY DEF SplitTasks
  <2>3. QED
    BY <2>1, <2>2 DEF Holds
<1>4. QED
  BY <1>2, <1>3, PlainTasksGood

LEMMA RowrefFacts ==
  ASSUME FilesOK
  PROVE  /\ GoodTasks(RowrefTasks)
         /\ \A f \in 1..Len(files) : \A p \in Morsels(f) :
              RowsIn(f, p) \cap Visible(f) # {} => Holds(RowrefTasks, f, p)
<1>1. ASSUME NEW t \in RowrefTasks
      PROVE  TaskOK(t) /\ t.sel = TaskMorselRows(t) \cap files[t.file].match
  <2>1. PICK f \in 1..Len(files) :
          \E p \in Morsels(f) :
            t = Task(f, p[1], p[2], MorselRows(f, p[1], p[2]) \cap files[f].match)
    BY DEF RowrefTasks
  <2>2. PICK p \in Morsels(f) :
          t = Task(f, p[1], p[2], MorselRows(f, p[1], p[2]) \cap files[f].match)
    BY <2>1
  <2>3. p = <<p[1], p[2]>>
    BY MorselTyped
  <2>4. /\ t.file = f /\ Place(t) = p
        /\ t.sel = TaskMorselRows(t) \cap files[t.file].match
        /\ t = Task(t.file, t.seg, t.morsel, t.sel)
    BY <2>2, <2>3 DEF Task, Place, TaskMorselRows, RowsIn
  <2>5. QED
    BY <2>4 DEF TaskOK
<1>2. ASSUME NEW f \in 1..Len(files), NEW p \in Morsels(f), RowsIn(f, p) \cap Visible(f) # {}
      PROVE  Holds(RowrefTasks, f, p)
  <2> DEFINE t == Task(f, p[1], p[2], MorselRows(f, p[1], p[2]) \cap files[f].match)
  <2>1. MorselRows(f, p[1], p[2]) \cap files[f].match # {} /\ ~ AllHidden(f, p[1], p[2])
    BY <1>2 DEF RowsIn, Visible, AllHidden
  <2>2. t \in RowrefTasks
    <3>1. t \in {Task(f, q[1], q[2], MorselRows(f, q[1], q[2]) \cap files[f].match) :
                   q \in {q \in Morsels(f) :
                            /\ MorselRows(f, q[1], q[2]) \cap files[f].match # {}
                            /\ ~ AllHidden(f, q[1], q[2])}}
      BY <2>1
    <3>2. QED
      BY <3>1 DEF RowrefTasks
  <2>3. t.file = f /\ Place(t) = p
    BY MorselTyped DEF Task, Place
  <2>4. QED
    BY <2>2, <2>3 DEF Holds
<1>3. GoodTasks(RowrefTasks)
  BY <1>1 DEF GoodTasks, TaskOK, Place, TaskMorselRows
<1>4. QED
  BY <1>2, <1>3

\* A split partition is named by its file and its place in the file's index.
LEMMA SplitPartitionsFacts ==
  ASSUME FilesOK
  PROVE  /\ \A k \in DOMAIN SplitPartitions :
              /\ k[1] \in 1..Len(files)
              /\ k = <<k[1], k[2]>>
              /\ \E index \in splits[k[1]] : k[2] \in 1..Len(index)
              /\ SplitPartitions[k] = SplitTasks(k[1], k[2])
         /\ \A f \in 1..Len(files) : \A index \in splits[f] : \A i \in 1..Len(index) :
              SplitTasks(f, i) # {} => /\ <<f, i>> \in DOMAIN SplitPartitions
                                       /\ SplitPartitions[<<f, i>>] = SplitTasks(f, i)
<1> DEFINE entries(f) == UNION {{<<f, i>> : i \in 1..Len(index)} : index \in splits[f]}
           D == {k \in UNION {entries(f) : f \in 1..Len(files)} : SplitTasks(k[1], k[2]) # {}}
<1>1. SplitPartitions = [k \in D |-> SplitTasks(k[1], k[2])]
  BY DEF SplitPartitions
<1>2. ASSUME NEW k \in D
      PROVE  /\ k[1] \in 1..Len(files)
             /\ k = <<k[1], k[2]>>
             /\ \E index \in splits[k[1]] : k[2] \in 1..Len(index)
  <2>1. PICK f \in 1..Len(files) : k \in entries(f)
    OBVIOUS
  <2>2. PICK index \in splits[f] : k \in {<<f, i>> : i \in 1..Len(index)}
    BY <2>1
  <2>3. QED
    BY <2>2
<1>3. ASSUME NEW f \in 1..Len(files), NEW index \in splits[f], NEW i \in 1..Len(index),
             SplitTasks(f, i) # {}
      PROVE  <<f, i>> \in D
  <2>1. <<f, i>> \in entries(f)
    OBVIOUS
  <2>2. QED
    BY <1>3, <2>1
<1> HIDE DEF D
<1>4. \A k \in DOMAIN SplitPartitions :
        k \in D /\ SplitPartitions[k] = SplitTasks(k[1], k[2])
  BY <1>1
<1>5. ASSUME NEW f \in 1..Len(files), NEW index \in splits[f], NEW i \in 1..Len(index),
             SplitTasks(f, i) # {}
      PROVE  /\ <<f, i>> \in DOMAIN SplitPartitions
             /\ SplitPartitions[<<f, i>>] = SplitTasks(f, i)
  BY <1>1, <1>3, <1>5
<1>6. QED
  BY <1>2, <1>4, <1>5

\* The partitions of a scan without row references: one for each split with
\* tasks, and the chunks of the files without splits.
LEMMA ScanPartitionsFacts ==
  ASSUME FilesOK
  PROVE  /\ DOMAIN ScanPartitions # {}
         /\ \A k \in DOMAIN ScanPartitions :
              \/ /\ k[1] \in 1..Len(files)
                 /\ k = <<k[1], k[2]>>
                 /\ \E index \in splits[k[1]] : k[2] \in 1..Len(index)
                 /\ ScanPartitions[k] = SplitTasks(k[1], k[2])
              \/ k[1] \notin 1..Len(files) /\ ScanPartitions[k] \subseteq FallbackTasks
         /\ \A t \in FallbackTasks : \E k \in DOMAIN ScanPartitions : t \in ScanPartitions[k]
         /\ \A f \in 1..Len(files) : \A index \in splits[f] : \A i \in 1..Len(index) :
              SplitTasks(f, i) # {} => /\ <<f, i>> \in DOMAIN ScanPartitions
                                       /\ ScanPartitions[<<f, i>>] = SplitTasks(f, i)
         /\ \A k, l \in DOMAIN ScanPartitions :
              /\ k[1] \notin 1..Len(files) /\ l[1] \notin 1..Len(files)
              /\ ScanPartitions[k] \cap ScanPartitions[l] # {}
              => k = l
<1> DEFINE SP == SplitPartitions
           FT == FallbackTasks
           Files == 1..Len(files)
<1>1. GoodTasks(FT)
  BY FallbackFacts
<1>2. /\ \A k \in DOMAIN SP :
           /\ k[1] \in Files
           /\ k = <<k[1], k[2]>>
           /\ \E index \in splits[k[1]] : k[2] \in 1..Len(index)
           /\ SP[k] = SplitTasks(k[1], k[2])
      /\ \A f \in Files : \A index \in splits[f] : \A i \in 1..Len(index) :
           SplitTasks(f, i) # {} => /\ <<f, i>> \in DOMAIN SP
                                    /\ SP[<<f, i>>] = SplitTasks(f, i)
  BY SplitPartitionsFacts
<1>3. 0 \notin Files
  OBVIOUS
<1>4. /\ DOMAIN Partitioned(FT) # {}
      /\ \A k \in DOMAIN Partitioned(FT) : k[1] = 0 /\ Partitioned(FT)[k] \subseteq FT
      /\ \A t \in FT : \E k \in DOMAIN Partitioned(FT) : t \in Partitioned(FT)[k]
      /\ \A k, l \in DOMAIN Partitioned(FT) :
           Partitioned(FT)[k] \cap Partitioned(FT)[l] # {} => k = l
  BY <1>1, PartitionedFacts
<1>5. /\ \A k \in DOMAIN Chunks(FT) : k[1] = 0 /\ Chunks(FT)[k] \subseteq FT
      /\ \A t \in FT : \E k \in DOMAIN Chunks(FT) : t \in Chunks(FT)[k]
      /\ \A k, l \in DOMAIN Chunks(FT) : Chunks(FT)[k] \cap Chunks(FT)[l] # {} => k = l
  BY <1>1, ChunksFacts
<1>6. ScanPartitions = IF DOMAIN SP = {} THEN Partitioned(FT)
                       ELSE IF FT = {} THEN SP ELSE Merged(SP, Chunks(FT))
  BY DEF ScanPartitions
<1> HIDE DEF SP, FT, Files
<1>7. CASE DOMAIN SP = {}
  <2>1. ScanPartitions = Partitioned(FT)
    BY <1>6, <1>7
  <2>2. QED
    BY <1>2, <1>3, <1>4, <1>7, <2>1 DEF FT, Files
<1>8. CASE DOMAIN SP # {} /\ FT = {}
  <2>1. ScanPartitions = SP
    BY <1>6, <1>8
  <2>2. QED
    BY <1>2, <1>8, <2>1 DEF FT, Files
<1>9. CASE DOMAIN SP # {} /\ FT # {}
  <2> DEFINE C == Chunks(FT)
             P == Merged(SP, C)
  <2>1. ScanPartitions = P
    BY <1>6, <1>9
  <2>2. /\ DOMAIN P = DOMAIN SP \cup DOMAIN C
        /\ \A k \in DOMAIN SP : P[k] = SP[k]
        /\ \A k \in DOMAIN C : k \notin DOMAIN SP => P[k] = C[k]
    BY DEF Merged
  <2>3. \A k \in DOMAIN C : k \notin DOMAIN SP /\ k[1] \notin Files
    BY <1>2, <1>3, <1>5
  <2> HIDE DEF P, C
  <2>4. DOMAIN P # {}
    BY <1>9, <2>2
  <2>5. \A k \in DOMAIN P :
          \/ k \in DOMAIN SP /\ k[1] \in Files /\ P[k] = SP[k]
          \/ k \in DOMAIN C /\ k[1] \notin Files /\ P[k] = C[k]
    BY <1>2, <2>2, <2>3
  <2>6. \A k \in DOMAIN C : P[k] = C[k] /\ C[k] \subseteq FT
    BY <1>5, <2>2, <2>3 DEF C
  <2>7. \A t \in FT : \E k \in DOMAIN P : t \in P[k]
    BY <1>5, <2>2, <2>6 DEF C
  <2>8. \A f \in Files : \A index \in splits[f] : \A i \in 1..Len(index) :
          SplitTasks(f, i) # {} => <<f, i>> \in DOMAIN P /\ P[<<f, i>>] = SplitTasks(f, i)
    BY <1>2, <2>2
  <2>9. \A k, l \in DOMAIN P :
          k[1] \notin Files /\ l[1] \notin Files /\ P[k] \cap P[l] # {} => k = l
    BY <1>5, <2>5 DEF C
  <2>10. \A k \in DOMAIN P :
           \/ /\ k[1] \in Files
              /\ k = <<k[1], k[2]>>
              /\ \E index \in splits[k[1]] : k[2] \in 1..Len(index)
              /\ P[k] = SplitTasks(k[1], k[2])
           \/ k[1] \notin Files /\ P[k] \subseteq FT
    BY <1>2, <2>5, <2>6
  <2>11. QED
    BY <2>1, <2>4, <2>7, <2>8, <2>9, <2>10 DEF FT, Files
<1>10. QED
  BY <1>7, <1>8, <1>9

\* The partitions Plan makes.
Planned == IF LookupEligible THEN Partitioned(RowrefTasks) ELSE ScanPartitions

LEMMA PlannedTyped ==
  ASSUME FilesOK
  PROVE  /\ DOMAIN Planned # {}
         /\ \A k \in DOMAIN Planned : GoodTasks(Planned[k])
<1>1. \A T, S : GoodTasks(T) /\ S \subseteq T => GoodTasks(S)
  BY DEF GoodTasks
<1>2. CASE LookupEligible
  <2>1. Planned = Partitioned(RowrefTasks)
    BY <1>2 DEF Planned
  <2>2. QED
    BY <1>1, <2>1, RowrefFacts, PartitionedFacts
<1>3. CASE ~ LookupEligible
  <2>1. Planned = ScanPartitions
    BY <1>3 DEF Planned
  <2>2. ASSUME NEW k \in DOMAIN ScanPartitions PROVE GoodTasks(ScanPartitions[k])
    <3>1. CASE k[1] \in 1..Len(files) /\ ScanPartitions[k] = SplitTasks(k[1], k[2])
      BY <3>1, SplitFacts
    <3>2. CASE ScanPartitions[k] \subseteq FallbackTasks
      BY <1>1, <3>2, FallbackFacts
    <3>3. QED
      BY <3>1, <3>2, ScanPartitionsFacts
  <2>3. QED
    BY <2>1, <2>2, ScanPartitionsFacts
<1>4. QED
  BY <1>2, <1>3

\* A morsel with a visible row, of a file that is not planned by splits, is a task
\* of exactly one partition.
LEMMA PlannedOnce ==
  ASSUME FilesOK, NEW f \in 1..Len(files), LookupEligible \/ splits[f] = {},
         NEW p \in Morsels(f), RowsIn(f, p) \cap Visible(f) # {}
  PROVE  \E k \in DOMAIN Planned :
           /\ Holds(Planned[k], f, p)
           /\ \A l \in DOMAIN Planned : Holds(Planned[l], f, p) => l = k
<1>1. CASE LookupEligible
  <2> DEFINE P == Partitioned(RowrefTasks)
  <2>1. Planned = P
    BY <1>1 DEF Planned
  <2>2. /\ GoodTasks(RowrefTasks)
        /\ Holds(RowrefTasks, f, p)
    BY RowrefFacts
  <2>3. /\ \A k \in DOMAIN P : P[k] \subseteq RowrefTasks
        /\ \A t \in RowrefTasks : \E k \in DOMAIN P : t \in P[k]
        /\ \A k, l \in DOMAIN P : P[k] \cap P[l] # {} => k = l
    BY <2>2, PartitionedFacts
  <2> HIDE DEF P
  <2>4. PICK t \in RowrefTasks : t.file = f /\ Place(t) = p
    BY <2>2 DEF Holds
  <2>5. PICK k \in DOMAIN P : t \in P[k]
    BY <2>3
  <2>6. ASSUME NEW l \in DOMAIN P, Holds(P[l], f, p) PROVE l = k
    <3>1. PICK u \in P[l] : u.file = f /\ Place(u) = p
      BY <2>6 DEF Holds
    <3>2. u = t
      BY <2>2, <2>3, <2>4, <3>1 DEF GoodTasks
    <3>3. QED
      BY <2>3, <2>5, <3>1, <3>2
  <2>7. QED
    BY <2>1, <2>4, <2>5, <2>6 DEF Holds
<1>2. CASE ~ LookupEligible /\ splits[f] = {}
  <2> DEFINE P == ScanPartitions
  <2>1. Planned = P
    BY <1>2 DEF Planned
  <2>2. GoodTasks(FallbackTasks) /\ Holds(FallbackTasks, f, p)
    BY <1>2, FallbackFacts
  <2>3. PICK t \in FallbackTasks : t.file = f /\ Place(t) = p
    BY <2>2 DEF Holds
  <2>4. /\ \E k \in DOMAIN P : t \in P[k]
        /\ \A k, l \in DOMAIN P :
             k[1] \notin 1..Len(files) /\ l[1] \notin 1..Len(files) /\ P[k] \cap P[l] # {} => k = l
    BY ScanPartitionsFacts
  <2>5. ASSUME NEW k \in DOMAIN P, NEW u \in P[k], u.file = f
        PROVE  k[1] \notin 1..Len(files) /\ P[k] \subseteq FallbackTasks
    <3>1. SUFFICES ASSUME /\ k[1] \in 1..Len(files)
                          /\ P[k] = SplitTasks(k[1], k[2])
                          /\ \E index \in splits[k[1]] : k[2] \in 1..Len(index)
                   PROVE  FALSE
      BY ScanPartitionsFacts
    <3>2. u.file = k[1]
      BY <3>1, SplitFacts
    <3>3. QED
      BY <1>2, <2>5, <3>1, <3>2
  <2> HIDE DEF P
  <2>6. PICK k \in DOMAIN P : t \in P[k]
    BY <2>4
  <2>7. ASSUME NEW l \in DOMAIN P, Holds(P[l], f, p) PROVE l = k
    <3>1. PICK u \in P[l] : u.file = f /\ Place(u) = p
      BY <2>7 DEF Holds
    <3>2. u = t
      BY <2>2, <2>3, <2>5, <3>1 DEF GoodTasks
    <3>3. k[1] \notin 1..Len(files) /\ l[1] \notin 1..Len(files)
      BY <2>3, <2>5, <2>6, <3>1
    <3>4. QED
      BY <2>4, <2>6, <3>1, <3>2, <3>3
  <2>8. QED
    BY <2>1, <2>3, <2>6, <2>7 DEF Holds
<1>3. QED
  BY <1>1, <1>2

\* One that a split index plans is a task of each entry whose morsels it is among.
LEMMA PlannedBySplits ==
  ASSUME FilesOK, NEW f \in 1..Len(files), ~ LookupEligible,
         NEW index \in splits[f], \A x \in splits[f] : x = index,
         NEW p \in Morsels(f), RowsIn(f, p) \cap Visible(f) # {}
  PROVE  {k \in DOMAIN Planned : Holds(Planned[k], f, p)}
           = {<<f, i>> : i \in {j \in 1..Len(index) : p \in SplitMorsels(f, index[j])}}
<1> DEFINE P == ScanPartitions
<1>1. Planned = P
  BY DEF Planned
<1>2. ASSUME NEW i \in 1..Len(index), p \in SplitMorsels(f, index[i])
      PROVE  <<f, i>> \in DOMAIN P /\ Holds(P[<<f, i>>], f, p)
  <2>1. Holds(SplitTasks(f, i), f, p)
    BY <1>2, SplitFacts
  <2>2. <<f, i>> \in DOMAIN P /\ P[<<f, i>>] = SplitTasks(f, i)
    BY <2>1, ScanPartitionsFacts DEF Holds
  <2>3. QED
    BY <2>1, <2>2
<1>3. ASSUME NEW l \in DOMAIN P, Holds(P[l], f, p)
      PROVE  \E i \in 1..Len(index) : l = <<f, i>> /\ p \in SplitMorsels(f, index[i])
  <2>1. PICK u \in P[l] : u.file = f /\ Place(u) = p
    BY <1>3 DEF Holds
  <2>2. CASE P[l] \subseteq FallbackTasks
    BY <2>1, <2>2, FallbackFacts
  <2>3. CASE /\ l[1] \in 1..Len(files)
             /\ l = <<l[1], l[2]>>
             /\ \E x \in splits[l[1]] : l[2] \in 1..Len(x)
             /\ P[l] = SplitTasks(l[1], l[2])
    <3>1. l[1] = f /\ \E x \in splits[f] : p \in SplitMorsels(f, x[l[2]])
      BY <2>1, <2>3, SplitFacts
    <3>2. l[2] \in 1..Len(index) /\ p \in SplitMorsels(f, index[l[2]])
      BY <2>3, <3>1
    <3>3. QED
      BY <2>3, <3>1, <3>2
  <2>4. QED
    BY <2>2, <2>3, ScanPartitionsFacts
<1> HIDE DEF P
<1>4. QED
  BY <1>1, <1>2, <1>3

------------------------------------------------------------------------------
(* The inductive invariant of every scan                                    *)

RowOf(fr) == fr[1] \in 1..Len(files) /\ fr[2] \in RowsOf(fr[1]) \cap Visible(fr[1])

\* What partition k has returned, and what it has still to decode: the rows
\* returned are visible rows before all rows of the tasks that are left.
PartitionOK(k) ==
  /\ \A t \in todo[k] : TaskOK(t)
  /\ Ordered(todo[k])
  /\ \A fr \in out[k] : RowOf(fr)
  /\ \A fr \in out[k], t \in todo[k] : \A r \in TaskMorselRows(t) :
       RowBefore(fr, <<t.file, r>>)

ScanInv ==
  /\ FilesOK
  /\ phase \in {"open", "plan", "run"}
  /\ DOMAIN out = DOMAIN todo /\ DOMAIN todo # {}
  /\ \A k \in DOMAIN todo : PartitionOK(k)

LEMMA ScanInvInit == Init => ScanInv
<1> SUFFICES ASSUME Init PROVE ScanInv
  OBVIOUS
<1>1. DOMAIN NoTasks # {} /\ \A k \in DOMAIN NoTasks : NoTasks[k] = {}
  BY DEF NoTasks
<1>2. \A k \in DOMAIN todo : PartitionOK(k)
  BY <1>1 DEF Init, PartitionOK, Ordered
<1>3. QED
  BY <1>1, <1>2 DEF Init, ScanInv, FilesOK

\* The first task is a task, and it is before the others.
LEMMA FirstTaskIsFirst ==
  ASSUME ScanInv, NEW k \in DOMAIN todo, todo[k] # {}
  PROVE  /\ FirstTask(k) \in todo[k]
         /\ \A u \in todo[k] : u = FirstTask(k) \/ Before(FirstTask(k), u)
<1>1. \E t \in todo[k] : \A u \in todo[k] : u = t \/ Before(t, u)
  BY FirstOfTasks DEF ScanInv, PartitionOK
<1>2. QED
  BY <1>1 DEF FirstTask

\* One step of a partition: it returns the visible rows of its first task.
LEMMA DecodeEffect ==
  ASSUME ScanInv, NEW k \in DOMAIN todo, Decode(k)
  PROVE  \E t \in todo[k] :
           /\ TaskOK(t)
           /\ \A u \in todo[k] : u = t \/ Before(t, u)
           /\ DOMAIN todo' = DOMAIN todo /\ DOMAIN out' = DOMAIN out
           /\ todo'[k] = todo[k] \ {t}
           /\ out'[k] = out[k] \cup {<<t.file, r>> : r \in TaskMorselRows(t) \cap Visible(t.file)}
           /\ \A l \in DOMAIN todo : l # k => todo'[l] = todo[l] /\ out'[l] = out[l]
           /\ UNCHANGED <<files, splits, phase>>
<1> DEFINE t == FirstTask(k)
<1>1. t \in todo[k] /\ \A u \in todo[k] : u = t \/ Before(t, u)
  BY FirstTaskIsFirst DEF Decode
<1>2. TaskOK(t)
  BY <1>1 DEF ScanInv, PartitionOK
<1>3. Selected(t) = TaskMorselRows(t) \cap Visible(t.file)
  BY <1>2, SelectedVisible DEF ScanInv
<1>4. /\ todo' = [todo EXCEPT ![k] = @ \ {t}]
      /\ out' = [out EXCEPT ![k] = @ \cup {<<t.file, r>> : r \in Selected(t)}]
      /\ UNCHANGED <<files, splits, phase>>
  BY DEF Decode
<1> HIDE DEF t
<1>5. QED
  BY <1>1, <1>2, <1>3, <1>4 DEF ScanInv

LEMMA ScanInvStep == ScanInv /\ [Next]_vars => ScanInv'
<1> SUFFICES ASSUME ScanInv, [Next]_vars PROVE ScanInv'
  OBVIOUS
<1> USE DEF ScanInv
<1>1. ASSUME UNCHANGED files
      PROVE  /\ FilesOK'
             /\ \A t : TaskOK(t)' <=> TaskOK(t)
             /\ \A fr : RowOf(fr)' <=> RowOf(fr)
             /\ \A t : TaskMorselRows(t)' = TaskMorselRows(t)
  BY <1>1 DEF FilesOK, TaskOK, RowOf, TaskMorselRows, RowsIn, MorselRows, MorselRowCount,
     Morsels, SegsOf, RowsOf, Visible, Place
<1>2. CASE Open
  <2>1. UNCHANGED <<files, todo, out>> /\ phase' = "plan"
    BY <1>2 DEF Open
  <2>2. \A k \in DOMAIN todo : PartitionOK(k)'
    BY <1>1, <2>1 DEF PartitionOK
  <2>3. QED
    BY <1>1, <2>1, <2>2
<1>3. CASE Plan
  <2>1. /\ UNCHANGED <<files, splits>> /\ phase' = "run"
        /\ todo' = Planned
        /\ out' = [k \in DOMAIN todo' |-> {}]
    BY <1>3 DEF Plan, Planned
  <2>2. DOMAIN Planned # {} /\ \A k \in DOMAIN Planned : GoodTasks(Planned[k])
    BY PlannedTyped
  <2>3. ASSUME NEW k \in DOMAIN todo' PROVE PartitionOK(k)'
    <3>1. GoodTasks(todo'[k]) /\ out'[k] = {}
      BY <2>1, <2>2
    <3>2. \A t \in todo'[k] : TaskOK(t)'
      BY <1>1, <2>1, <3>1 DEF GoodTasks
    <3>3. Ordered(todo'[k])
      BY <3>1, GoodTasksOrdered
    <3>4. QED
      BY <3>1, <3>2, <3>3 DEF PartitionOK
  <2>4. QED
    BY <1>1, <2>1, <2>2, <2>3
<1>4. ASSUME NEW k \in DOMAIN todo, Decode(k) PROVE ScanInv'
  <2>1. PICK t \in todo[k] :
           /\ TaskOK(t)
           /\ \A u \in todo[k] : u = t \/ Before(t, u)
           /\ DOMAIN todo' = DOMAIN todo /\ DOMAIN out' = DOMAIN out
           /\ todo'[k] = todo[k] \ {t}
           /\ out'[k] = out[k] \cup {<<t.file, r>> : r \in TaskMorselRows(t) \cap Visible(t.file)}
           /\ \A l \in DOMAIN todo : l # k => todo'[l] = todo[l] /\ out'[l] = out[l]
           /\ UNCHANGED <<files, splits, phase>>
    BY <1>4, DecodeEffect
  <2>2. ASSUME NEW l \in DOMAIN todo, l # k PROVE PartitionOK(l)'
    <3>1. PartitionOK(l) /\ todo'[l] = todo[l] /\ out'[l] = out[l]
      BY <2>1, <2>2
    <3>2. QED
      BY <1>1, <2>1, <3>1 DEF PartitionOK
  <2>3. PartitionOK(k)'
    <3>1. \A u \in todo'[k] : TaskOK(u)'
      BY <1>1, <2>1 DEF PartitionOK
    <3>2. Ordered(todo'[k])
      BY <2>1 DEF PartitionOK, Ordered
    <3>3. \A r \in TaskMorselRows(t) \cap Visible(t.file) : RowOf(<<t.file, r>>)
      BY <2>1, TaskTyped DEF RowOf, TaskOK
    <3>4. \A fr \in out'[k] : RowOf(fr)'
      BY <1>1, <2>1, <3>3 DEF PartitionOK
    <3>5. ASSUME NEW fr \in out'[k], NEW u \in todo'[k], NEW r \in TaskMorselRows(u)
          PROVE  RowBefore(fr, <<u.file, r>>)
      <4>1. u \in todo[k] /\ TaskOK(u) /\ Before(t, u)
        BY <2>1 DEF PartitionOK
      <4>2. CASE fr \in out[k]
        BY <4>1, <4>2 DEF PartitionOK
      <4>3. CASE fr \notin out[k]
        <5>1. PICK a \in TaskMorselRows(t) : fr = <<t.file, a>>
          BY <2>1, <4>3
        <5>2. QED
          BY <2>1, <4>1, <5>1, TaskOrderIsRowOrder
      <4>4. QED
        BY <4>2, <4>3
    <3>6. QED
      BY <1>1, <2>1, <3>1, <3>2, <3>4, <3>5 DEF PartitionOK
  <2>4. QED
    BY <1>1, <2>1, <2>2, <2>3
<1>5. CASE UNCHANGED vars
  <2>1. UNCHANGED <<files, todo, out, phase>>
    BY <1>5 DEF vars
  <2>2. \A k \in DOMAIN todo : PartitionOK(k)'
    BY <1>1, <2>1 DEF PartitionOK
  <2>3. QED
    BY <1>1, <2>1, <2>2
<1>6. QED
  BY <1>2, <1>3, <1>4, <1>5 DEF Next, Terminated

\* Every task names a morsel of its file, selects rows of it only, and every row
\* returned is a row of its file, whatever the dataset, its splits and its
\* lookup indexes (build_task_graph and the decode loop).
THEOREM TypesHold == Spec => []TypeOK
<1>1. ScanInv => TypeOK
  <2> SUFFICES ASSUME ScanInv PROVE TypeOK
    OBVIOUS
  <2>1. ASSUME NEW k \in DOMAIN todo, NEW t \in todo[k]
        PROVE  /\ <<t.seg, t.morsel>> \in Morsels(t.file)
               /\ t.sel = NoSelection \/ t.sel \subseteq MorselRows(t.file, t.seg, t.morsel)
    <3>1. TaskOK(t) /\ TaskMorselRows(t) = MorselRows(t.file, t.seg, t.morsel)
      BY TaskTyped DEF ScanInv, PartitionOK
    <3>2. QED
      BY <3>1 DEF TaskOK, Place
  <2>2. ASSUME NEW k \in DOMAIN todo, NEW fr \in out[k]
        PROVE  fr[1] \in 1..Len(files) /\ fr[2] \in RowsOf(fr[1])
    BY DEF ScanInv, PartitionOK, RowOf
  <2>3. QED
    BY <2>1, <2>2 DEF ScanInv, TypeOK, Partitions, FilesOK
<1>2. QED
  BY <1>1, ScanInvInit, ScanInvStep, PTL DEF Spec

\* No partition ever returns a row the overlay hides, whether the row was
\* selected by the predicate or by a row reference (the overlay is applied to
\* both in the decode loop).
THEOREM HiddenRowsStayHidden == Spec => []HiddenStayHidden
<1>1. ScanInv => HiddenStayHidden
  <2> SUFFICES ASSUME ScanInv, NEW k \in DOMAIN todo, NEW f \in 1..Len(files),
                      NEW r \in files[f].hidden, <<f, r>> \in out[k]
               PROVE  FALSE
    BY DEF HiddenStayHidden, Partitions
  <2>1. RowOf(<<f, r>>)
    BY DEF ScanInv, PartitionOK
  <2>2. QED
    BY <2>1 DEF RowOf, Visible
<1>2. QED
  BY <1>1, ScanInvInit, ScanInvStep, PTL DEF Spec

\* Each partition returns its rows in row order, across morsels, segments and
\* files: a row returned by a step comes after every row returned before
\* (tasks are decoded in the order they were pushed).
THEOREM RowsInOrder == Spec => InRowOrder
<1> DEFINE Later ==
      \A k \in Partitions \cap DOMAIN todo' :
        \A new \in out'[k] \ out[k], old \in out[k] :
          phase = "run" => old[1] < new[1] \/ (old[1] = new[1] /\ old[2] < new[2])
<1>1. ScanInv /\ [Next]_vars => [Later]_vars
  <2> SUFFICES ASSUME ScanInv, Next,
                      NEW k \in DOMAIN todo, k \in DOMAIN todo',
                      NEW new \in out'[k], new \notin out[k], NEW old \in out[k], phase = "run"
               PROVE  RowBefore(old, new)
    BY DEF Partitions, RowBefore
  <2>1. CASE Open \/ Plan
    BY <2>1 DEF Open, Plan
  <2>2. CASE Terminated
    BY <2>2 DEF Terminated, vars
  <2>3. ASSUME NEW l \in DOMAIN todo, Decode(l) PROVE RowBefore(old, new)
    <3>1. PICK t \in todo[l] :
            /\ out'[l] = out[l] \cup {<<t.file, r>> : r \in TaskMorselRows(t) \cap Visible(t.file)}
            /\ \A m \in DOMAIN todo : m # l => out'[m] = out[m]
      BY <2>3, DecodeEffect
    <3>2. k = l
      BY <3>1
    <3>3. PICK r \in TaskMorselRows(t) : new = <<t.file, r>>
      BY <3>1, <3>2
    <3>4. QED
      BY <3>2, <3>3 DEF ScanInv, PartitionOK
  <2>4. QED
    BY <2>1, <2>2, <2>3 DEF Next
<1>2. QED
  BY <1>1, ScanInvInit, ScanInvStep, PTL DEF Spec, InRowOrder

------------------------------------------------------------------------------
(* Who returns a visible row                                                *)

\* A file is opened with one split index at most, one that was validated.
SplitsOK ==
  /\ DOMAIN splits = 1..Len(files)
  /\ \A f \in 1..Len(files) : \A index \in splits[f] :
       /\ index \in Seq(SplitEntry)
       /\ ValidIndex(f, index)
       /\ \A x \in splits[f] : x = index

\* Row r of file f is returned by partition k, now or later.
Owns(k, f, r) ==
  \/ <<f, r>> \in out[k]
  \/ \E t \in todo[k] : t.file = f /\ r \in TaskMorselRows(t)

\* The partitions of the entries among whose morsels, as the planner follows
\* them, the row is.
Following(f, r) ==
  UNION {{<<f, i>> : i \in {j \in 1..Len(index) :
                              \E p \in SplitMorsels(f, index[j]) : r \in RowsIn(f, p)}} :
           index \in splits[f]}

OwnedAsPlanned ==
  \A f \in 1..Len(files) : \A r \in RowsOf(f) \cap Visible(f) :
    IF splits[f] # {} /\ ~ LookupEligible
    THEN {k \in DOMAIN todo : Owns(k, f, r)} = Following(f, r)
    ELSE \E k \in DOMAIN todo : /\ Owns(k, f, r)
                                /\ \A l \in DOMAIN todo : Owns(l, f, r) => l = k

OnceInv ==
  /\ ScanInv
  /\ phase # "open" => SplitsOK
  /\ phase = "run" => OwnedAsPlanned

LEMMA OnceInvInit == Init => OnceInv
BY ScanInvInit DEF Init, OnceInv

LEMMA OpenedSplits ==
  ASSUME FilesOK, Open
  PROVE  SplitsOK'
<1>1. /\ files' = files
      /\ splits' = [f \in 1..Len(files) |-> OpenFile(f)]
  BY DEF Open
<1>2. ASSUME NEW f \in 1..Len(files), NEW index \in OpenFile(f)
      PROVE  /\ index \in Seq(SplitEntry)
             /\ ValidIndex(f, index)
             /\ \A x \in OpenFile(f) : x = index
  <2> DEFINE secs == files[f].sections
             valid == {i \in 1..Len(secs) : ValidIndex(f, secs[i])}
             least == {j \in valid : \A l \in valid : j <= l}
  <2>1. OpenFile(f) = {secs[i] : i \in least}
    BY DEF OpenFile
  <2>2. secs \in Seq(Seq(SplitEntry))
    BY SegmentTyped DEF File
  <2>3. \A i, j \in least : i = j
    BY <2>2
  <2>4. PICK i \in least : index = secs[i]
    BY <2>1
  <2>5. \A x \in OpenFile(f) : x = index
    BY <2>1, <2>3, <2>4
  <2>6. index \in Seq(SplitEntry) /\ ValidIndex(f, index)
    BY <2>2, <2>4
  <2>7. QED
    BY <2>5, <2>6
<1>3. \A f, index : ValidIndex(f, index)' <=> ValidIndex(f, index)
  BY <1>1 DEF ValidIndex, Accepted, Walk, Reach, Morsels, SegsOf, MorselRows
<1>4. QED
  BY <1>1, <1>2, <1>3 DEF SplitsOK

LEMMA OnceInvStep == OnceInv /\ [Next]_vars => OnceInv'
<1> SUFFICES ASSUME OnceInv, [Next]_vars PROVE OnceInv'
  OBVIOUS
<1>1. ScanInv /\ ScanInv'
  BY ScanInvStep DEF OnceInv
<1>2. ASSUME UNCHANGED <<files, splits>>
      PROVE  /\ SplitsOK' <=> SplitsOK
             /\ LookupEligible' <=> LookupEligible
             /\ \A f, r : Following(f, r)' = Following(f, r)
  <2>1. \A f, index : ValidIndex(f, index)' <=> ValidIndex(f, index)
    BY <1>2 DEF ValidIndex, Accepted, Walk, Reach, Morsels, SegsOf, MorselRows
  <2>2. SplitsOK' <=> SplitsOK
    BY <1>2, <2>1 DEF SplitsOK
  <2>3. QED
    BY <1>2, <2>2 DEF LookupEligible, Following, SplitMorsels, Morsels, SegsOf, RowsIn, MorselRows
<1>3. ASSUME UNCHANGED files
      PROVE  /\ \A f : RowsOf(f)' = RowsOf(f) /\ Visible(f)' = Visible(f)
             /\ \A t : TaskMorselRows(t)' = TaskMorselRows(t)
  BY <1>3 DEF TaskMorselRows, RowsIn, MorselRows, MorselRowCount, SegsOf, RowsOf, Visible, Place
<1>4. CASE Open
  BY <1>1, <1>4, OpenedSplits DEF OnceInv, ScanInv, Open
<1>5. CASE Plan
  <2>1. /\ UNCHANGED <<files, splits>> /\ phase = "plan" /\ phase' = "run"
        /\ todo' = Planned
        /\ out' = [k \in DOMAIN todo' |-> {}]
    BY <1>5 DEF Plan, Planned
  <2>2. SplitsOK
    BY <2>1 DEF OnceInv
  <2>3. ASSUME NEW f \in 1..Len(files), NEW r \in RowsOf(f) \cap Visible(f)
        PROVE  IF splits[f] # {} /\ ~ LookupEligible
               THEN {k \in DOMAIN todo' : Owns(k, f, r)'} = Following(f, r)
               ELSE \E k \in DOMAIN todo' : /\ Owns(k, f, r)'
                                            /\ \A l \in DOMAIN todo' : Owns(l, f, r)' => l = k
    <3>1. FilesOK
      BY <1>1 DEF ScanInv
    <3>2. PICK p \in Morsels(f) : r \in RowsIn(f, p)
      BY <3>1, MorselsTileFile
    <3>3. RowsIn(f, p) \cap Visible(f) # {}
      BY <3>2
    <3>4. ASSUME NEW l \in DOMAIN Planned
          PROVE  Owns(l, f, r)' <=> Holds(Planned[l], f, p)
      <4>1. out'[l] = {} /\ todo'[l] = Planned[l]
        BY <2>1
      <4>2. Owns(l, f, r)' <=> \E t \in Planned[l] : t.file = f /\ r \in TaskMorselRows(t)
        BY <1>3, <2>1, <4>1 DEF Owns
      <4>3. ASSUME NEW t \in Planned[l], t.file = f
            PROVE  r \in TaskMorselRows(t) <=> Place(t) = p
        <5>1. Place(t) \in Morsels(f)
          BY <3>1, <4>3, PlannedTyped DEF GoodTasks, TaskOK
        <5>2. TaskMorselRows(t) = RowsIn(f, Place(t))
          BY <4>3 DEF TaskMorselRows
        <5>3. QED
          BY <3>1, <3>2, <5>1, <5>2, MorselOfRowUnique
      <4>4. QED
        BY <4>2, <4>3 DEF Holds
    <3>5. CASE LookupEligible \/ splits[f] = {}
      <4>1. PICK k \in DOMAIN Planned :
               /\ Holds(Planned[k], f, p)
               /\ \A l \in DOMAIN Planned : Holds(Planned[l], f, p) => l = k
        BY <3>1, <3>3, <3>5, PlannedOnce
      <4>2. QED
        BY <2>1, <3>4, <3>5, <4>1
    <3>6. CASE ~ LookupEligible /\ splits[f] # {}
      <4>1. PICK index \in splits[f] : splits[f] = {index}
        BY <2>2, <3>6 DEF SplitsOK
      <4>2. {k \in DOMAIN Planned : Holds(Planned[k], f, p)}
              = {<<f, i>> : i \in {j \in 1..Len(index) : p \in SplitMorsels(f, index[j])}}
        BY <3>1, <3>3, <3>6, <4>1, PlannedBySplits
      <4>3. \A sp : (\E q \in SplitMorsels(f, sp) : r \in RowsIn(f, q)) <=> p \in SplitMorsels(f, sp)
        BY <3>1, <3>2, MorselOfRowUnique DEF SplitMorsels
      <4>4. Following(f, r)
              = {<<f, i>> : i \in {j \in 1..Len(index) : p \in SplitMorsels(f, index[j])}}
        BY <4>1, <4>3 DEF Following
      <4>5. {k \in DOMAIN todo' : Owns(k, f, r)'} = {k \in DOMAIN Planned : Holds(Planned[k], f, p)}
        BY <2>1, <3>4
      <4>6. QED
        BY <3>6, <4>2, <4>4, <4>5
    <3>7. QED
      BY <3>5, <3>6
  <2>4. OwnedAsPlanned'
    BY <1>2, <1>3, <2>1, <2>3 DEF OwnedAsPlanned
  <2>5. QED
    BY <1>1, <1>2, <2>1, <2>2, <2>4 DEF OnceInv
<1>6. ASSUME NEW k \in DOMAIN todo, Decode(k) PROVE OnceInv'
  <2>1. PICK t \in todo[k] :
           /\ DOMAIN todo' = DOMAIN todo
           /\ todo'[k] = todo[k] \ {t}
           /\ out'[k] = out[k] \cup {<<t.file, r>> : r \in TaskMorselRows(t) \cap Visible(t.file)}
           /\ \A l \in DOMAIN todo : l # k => todo'[l] = todo[l] /\ out'[l] = out[l]
           /\ UNCHANGED <<files, splits, phase>>
    BY <1>1, <1>6, DecodeEffect
  <2>2. ASSUME NEW l \in DOMAIN todo, NEW f \in 1..Len(files), NEW r \in Visible(f)
        PROVE  Owns(l, f, r)' <=> Owns(l, f, r)
    <3>1. CASE l # k
      BY <1>3, <2>1, <3>1 DEF Owns
    <3>2. CASE l = k
      <4>1. <<f, r>> \in out'[k] <=> \/ <<f, r>> \in out[k]
                                     \/ t.file = f /\ r \in TaskMorselRows(t)
        BY <2>1
      <4>2. QED
        BY <1>3, <2>1, <3>2, <4>1 DEF Owns
    <3>3. QED
      BY <3>1, <3>2
  <2>3. OwnedAsPlanned => OwnedAsPlanned'
    BY <1>2, <1>3, <2>1, <2>2 DEF OwnedAsPlanned
  <2>4. QED
    BY <1>1, <1>2, <2>1, <2>3 DEF OnceInv
<1>7. CASE UNCHANGED vars
  <2>1. UNCHANGED <<files, splits, todo, out, phase>>
    BY <1>7 DEF vars
  <2>2. \A k, f, r : Owns(k, f, r)' <=> Owns(k, f, r)
    BY <1>3, <2>1 DEF Owns
  <2>3. OwnedAsPlanned => OwnedAsPlanned'
    BY <1>2, <1>3, <2>1, <2>2 DEF OwnedAsPlanned
  <2>4. QED
    BY <1>1, <1>2, <2>1, <2>3 DEF OnceInv
<1>8. QED
  BY <1>4, <1>5, <1>6, <1>7 DEF Next, Terminated

LEMMA RowsReturned ==
  ASSUME OnceInv, Done, NEW f \in 1..Len(files), NEW r \in RowsOf(f)
  PROVE  LET K == {k \in Partitions : <<f, r>> \in out[k]}
         IN  IF r \notin Visible(f) THEN K = {}
             ELSE IF splits[f] # {} /\ ~ LookupEligible THEN K = Following(f, r)
             ELSE \E k : K = {k}
<1> DEFINE K == {k \in Partitions : <<f, r>> \in out[k]}
<1>1. ScanInv /\ OwnedAsPlanned /\ \A k \in DOMAIN todo : todo[k] = {}
  BY DEF OnceInv, Done
<1>2. K = {k \in DOMAIN todo : Owns(k, f, r)}
  BY <1>1 DEF Owns, Partitions
<1>3. CASE r \in Visible(f)
  <2>1. IF splits[f] # {} /\ ~ LookupEligible
        THEN {k \in DOMAIN todo : Owns(k, f, r)} = Following(f, r)
        ELSE \E k \in DOMAIN todo : /\ Owns(k, f, r)
                                    /\ \A l \in DOMAIN todo : Owns(l, f, r) => l = k
    BY <1>1, <1>3 DEF OwnedAsPlanned
  <2>2. CASE splits[f] # {} /\ ~ LookupEligible
    BY <1>2, <1>3, <2>1, <2>2
  <2>3. CASE ~ (splits[f] # {} /\ ~ LookupEligible)
    <3>1. PICK k \in DOMAIN todo : /\ Owns(k, f, r)
                                   /\ \A l \in DOMAIN todo : Owns(l, f, r) => l = k
      BY <2>1, <2>3
    <3>2. K = {k}
      BY <1>2, <3>1
    <3>3. QED
      BY <1>3, <2>3, <3>2
  <2>4. QED
    BY <2>2, <2>3
<1>4. CASE r \notin Visible(f)
  <2>1. \A k \in DOMAIN todo : <<f, r>> \in out[k] => RowOf(<<f, r>>)
    BY <1>1 DEF ScanInv, PartitionOK
  <2>2. K = {}
    BY <1>4, <2>1 DEF RowOf, Partitions
  <2>3. QED
    BY <1>4, <2>2
<1>5. QED
  BY <1>3, <1>4

\* The entries of every split index, as the planner follows them, are the
\* morsels of the file, each once.
SplitsTile ==
  \A f \in 1..Len(files) : \A index \in splits[f] : \A p \in Morsels(f) :
    \E i \in 1..Len(index) :
      /\ p \in SplitMorsels(f, index[i])
      /\ \A j \in 1..Len(index) : p \in SplitMorsels(f, index[j]) => j = i

LEMMA OwnedRowsOnce ==
  ASSUME OnceInv, SplitsTile
  PROVE  SplitsNeverChangeRows
<1> SUFFICES ASSUME Done, NEW f \in 1..Len(files), NEW r \in RowsOf(f)
             PROVE  Cardinality({k \in Partitions : <<f, r>> \in out[k]})
                      = IF r \in Visible(f) THEN 1 ELSE 0
  BY DEF SplitsNeverChangeRows
<1> DEFINE K == {k \in Partitions : <<f, r>> \in out[k]}
<1>1. FilesOK /\ SplitsOK
  BY DEF OnceInv, ScanInv, Done
<1>2. CASE r \notin Visible(f)
  BY <1>2, RowsReturned, FS_EmptySet
<1>3. CASE r \in Visible(f) /\ (splits[f] = {} \/ LookupEligible)
  <2>1. \E k : K = {k}
    BY <1>3, RowsReturned
  <2>2. Cardinality(K) = 1
    <3>1. PICK k : K = {k}
      BY <2>1
    <3>2. QED
      BY <3>1, FS_Singleton
  <2>3. QED
    BY <1>3, <2>2
<1>4. CASE r \in Visible(f) /\ splits[f] # {} /\ ~ LookupEligible
  <2>1. K = Following(f, r)
    BY <1>4, RowsReturned
  <2>2. PICK p \in Morsels(f) : r \in RowsIn(f, p)
    BY <1>1, MorselsTileFile
  <2>3. PICK index \in splits[f] : splits[f] = {index}
    BY <1>1, <1>4 DEF SplitsOK
  <2>4. PICK i \in 1..Len(index) :
          /\ p \in SplitMorsels(f, index[i])
          /\ \A j \in 1..Len(index) : p \in SplitMorsels(f, index[j]) => j = i
    BY DEF SplitsTile
  <2>5. \A sp : (\E q \in SplitMorsels(f, sp) : r \in RowsIn(f, q)) <=> p \in SplitMorsels(f, sp)
    BY <1>1, <2>2, MorselOfRowUnique DEF SplitMorsels
  <2>6. Following(f, r) = {<<f, i>>}
    BY <2>3, <2>4, <2>5 DEF Following
  <2>7. QED
    BY <1>4, <2>1, <2>6, FS_Singleton
<1>5. QED
  BY <1>2, <1>3, <1>4

\* With splits that, as the planner follows them, are the morsels of the file,
\* each once (without splits in particular), every visible row is returned by
\* exactly one partition and no other row by any, however the tasks are
\* selected, pruned and chunked.
THEOREM EveryRowOnce == Spec => [](SplitsTile => SplitsNeverChangeRows)
<1>1. OnceInv => (SplitsTile => SplitsNeverChangeRows)
  BY OwnedRowsOnce
<1>2. QED
  BY <1>1, OnceInvInit, OnceInvStep, PTL DEF Spec

------------------------------------------------------------------------------
(* Splits that stay in one segment, as build_default_scan_split_index makes *)
(* them: the validator's walk is the planner's loop                         *)

OneSegmentSplits ==
  \A f \in DOMAIN splits : \A index \in splits[f] : \A i \in 1..Len(index) : index[i].segs = 1

LEMMA OneSegmentWalk ==
  ASSUME FilesOK, NEW f \in 1..Len(files), NEW sp \in SplitEntry, sp.segs = 1
  PROVE  Walk(f, sp) = SplitMorsels(f, sp)
<1>1. sp.seg \in Nat /\ sp.morsel \in Nat /\ sp.morsels \in Nat
  BY DEF SplitEntry
<1>2. \A p \in Morsels(f) : p = <<p[1], p[2]>> /\ p[1] \in Nat /\ p[2] \in Nat
  BY MorselTyped
<1>3. \A p \in Morsels(f) : p \in Reach(f, sp) <=> p[1] = sp.seg /\ p[2] >= sp.morsel
  BY <1>1, <1>2 DEF Reach
<1>4. ASSUME NEW p \in Morsels(f), p[1] = sp.seg, p[2] >= sp.morsel
      PROVE  Cardinality({q \in Reach(f, sp) : q[1] < p[1] \/ (q[1] = p[1] /\ q[2] < p[2])})
               = p[2] - sp.morsel
  <2> DEFINE I == sp.morsel .. p[2] - 1
             g == [m \in I |-> <<sp.seg, m>>]
             B == {q \in Reach(f, sp) : q[1] < p[1] \/ (q[1] = p[1] /\ q[2] < p[2])}
  <2>1. /\ p[1] \in SegsOf(f)
        /\ p[2] \in 0 .. MorselCount(files[f].segs[p[1]]) - 1
        /\ p[2] \in Nat /\ p[1] \in Nat
        /\ files[f].segs[p[1]] \in Segment
    BY MorselTyped
  <2>2. MorselCount(files[f].segs[p[1]]) \in Nat
    BY <2>1, MorselStarts
  <2>3. ASSUME NEW m \in I PROVE <<sp.seg, m>> \in B
    <3>1. m \in 0 .. MorselCount(files[f].segs[p[1]]) - 1 /\ m >= sp.morsel /\ m < p[2] /\ m \in Nat
      BY <1>1, <2>1, <2>2
    <3>2. <<sp.seg, m>> \in Morsels(f)
      BY <1>4, <2>1, <3>1 DEF Morsels
    <3>3. <<sp.seg, m>> \in Reach(f, sp)
      BY <1>3, <3>1, <3>2
    <3>4. QED
      BY <1>4, <3>1, <3>3
  <2>4. ASSUME NEW q \in B PROVE \E m \in I : q = <<sp.seg, m>>
    <3>1. q \in Morsels(f) /\ q \in Reach(f, sp)
      BY DEF Reach
    <3>2. q[1] = sp.seg /\ q[2] >= sp.morsel /\ q[2] \in Nat /\ q = <<q[1], q[2]>>
      BY <1>2, <1>3, <3>1
    <3>3. q[2] < p[2]
      BY <1>1, <1>4, <3>2
    <3>4. q[2] \in I
      BY <1>1, <2>1, <3>2, <3>3
    <3>5. QED
      BY <3>2, <3>4
  <2>6. IsFiniteSet(I) /\ Cardinality(I) = p[2] - sp.morsel
    <3>1. sp.morsel \in Int /\ p[2] - 1 \in Int
      BY <1>1, <2>1
    <3>2. /\ IsFiniteSet(I)
          /\ Cardinality(I) = IF sp.morsel > p[2] - 1 THEN 0 ELSE p[2] - 1 - sp.morsel + 1
      BY <3>1, FS_Interval
    <3>3. QED
      BY <1>1, <1>4, <2>1, <3>2
  <2>7. /\ \A m \in I : g[m] \in B
        /\ \A q \in B : \E m \in I : g[m] = q
        /\ \A m, n \in I : g[m] = g[n] => m = n
    BY <2>3, <2>4
  <2> HIDE DEF I, g, B
  <2>8. Cardinality(B) = Cardinality(I)
    BY <2>6, <2>7, SameSize
  <2>9. QED
    BY <2>6, <2>8 DEF B
<1>5. ASSUME NEW p \in Morsels(f)
      PROVE  p \in Walk(f, sp) <=> p \in SplitMorsels(f, sp)
  <2>1. p \in SplitMorsels(f, sp) <=> /\ p[1] = sp.seg /\ p[2] >= sp.morsel
                                      /\ p[2] - sp.morsel < sp.morsels
    BY <1>1, <1>2 DEF SplitMorsels
  <2>2. p \in Walk(f, sp) <=>
          /\ p \in Reach(f, sp)
          /\ Cardinality({q \in Reach(f, sp) : q[1] < p[1] \/ (q[1] = p[1] /\ q[2] < p[2])})
               < sp.morsels
    BY DEF Walk
  <2>3. QED
    BY <1>3, <1>4, <2>1, <2>2
<1>6. Walk(f, sp) \subseteq Morsels(f) /\ SplitMorsels(f, sp) \subseteq Morsels(f)
  BY DEF Walk, Reach, SplitMorsels
<1>7. QED
  BY <1>5, <1>6

\* The entries of an index, as the validator walks them, are the whole table,
\* each morsel once.
Covers(f, index) ==
  \A p \in Morsels(f) :
    Cardinality({i \in 1..Len(index) : p \in Walk(f, index[i])}) = 1
SplitsCover == \A f \in DOMAIN splits : \A index \in splits[f] : Covers(f, index)

LEMMA CoveringSplitsTile ==
  ASSUME FilesOK, SplitsOK, OneSegmentSplits, SplitsCover
  PROVE  SplitsTile
<1> SUFFICES ASSUME NEW f \in 1..Len(files), NEW index \in splits[f], NEW p \in Morsels(f)
             PROVE  \E i \in 1..Len(index) :
                      /\ p \in SplitMorsels(f, index[i])
                      /\ \A j \in 1..Len(index) : p \in SplitMorsels(f, index[j]) => j = i
  BY DEF SplitsTile
<1> DEFINE I == {i \in 1..Len(index) : p \in Walk(f, index[i])}
<1>1. index \in Seq(SplitEntry) /\ Len(index) \in Nat
  BY DEF SplitsOK
<1>2. Cardinality(I) = 1
  BY DEF SplitsOK, SplitsCover, Covers
<1>3. IsFiniteSet(I)
  <2>1. IsFiniteSet(1..Len(index))
    BY <1>1, FiniteInterval
  <2>2. QED
    BY <2>1, FS_Subset
<1> HIDE DEF I
<1>4. PICK i : I = {i}
  BY <1>2, <1>3, FS_Singleton
<1>5. \A j \in 1..Len(index) : Walk(f, index[j]) = SplitMorsels(f, index[j])
  <2> SUFFICES ASSUME NEW j \in 1..Len(index) PROVE Walk(f, index[j]) = SplitMorsels(f, index[j])
    OBVIOUS
  <2>1. index[j] \in SplitEntry /\ index[j].segs = 1
    BY <1>1 DEF SplitsOK, OneSegmentSplits
  <2>2. QED
    BY <2>1, OneSegmentWalk
<1>6. QED
  BY <1>4, <1>5 DEF I

\* An accepted split of one segment claims the rows of the morsels the planner
\* takes it for.
LEMMA OneSegmentClaims ==
  ASSUME FilesOK, NEW f \in 1..Len(files), NEW sp \in SplitEntry, sp.segs = 1, Accepted(f, sp),
         NEW p \in Morsels(f), NEW r \in RowsIn(f, p)
  PROVE  p \in SplitMorsels(f, sp) <=> r \in Claimed(sp)
<1> DEFINE seg == files[f].segs[sp.seg]
           first == sp.morsel * seg.size
           last == sp.morsel + sp.morsels
           past == last * seg.size
           end == IF past <= seg.rows THEN past ELSE seg.rows
           U == UNION {MorselRows(f, q[1], q[2]) : q \in Walk(f, sp)}
<1>1. /\ sp.seg \in Nat /\ sp.morsel \in Nat /\ sp.morsels \in Nat /\ sp.morsels > 0
      /\ <<sp.seg, sp.morsel>> \in Morsels(f)
      /\ sp.row = seg.start + first
      /\ sp.rows = Cardinality(U)
  BY DEF SplitEntry, Accepted
<1>2. /\ sp.seg \in SegsOf(f) /\ seg \in Segment
      /\ sp.morsel \in 0 .. MorselCount(seg) - 1
  BY <1>1, MorselTyped
<1>3. seg.start \in Nat /\ seg.rows \in Nat /\ seg.size \in Nat \ {0}
  BY <1>2 DEF Segment
<1> HIDE DEF seg
<1>4. first \in Nat /\ first < seg.rows
  BY <1>2, MorselBounds
<1> HIDE DEF first
<1>a. last \in Nat /\ sp.morsel < last
  BY <1>1
<1> HIDE DEF last
<1>b. past \in Nat
  BY <1>3, <1>a
<1> HIDE DEF past
<1>c. ASSUME NEW m \in Nat
      PROVE  /\ m < sp.morsel => m * seg.size + seg.size <= first
             /\ sp.morsel < m => first + seg.size <= m * seg.size
             /\ m < last => m * seg.size + seg.size <= past
             /\ last < m => past + seg.size <= m * seg.size
  <2>1. m \in Int /\ sp.morsel \in Int /\ last \in Int /\ seg.size \in Nat \ {0}
    BY <1>1, <1>3, <1>a
  <2>2. m < sp.morsel <=> m * seg.size + seg.size <= first
    BY <2>1, ProductOrder, Zenon DEF first
  <2>3. sp.morsel < m <=> first + seg.size <= m * seg.size
    BY <2>1, ProductOrder, Zenon DEF first
  <2>4. m < last <=> m * seg.size + seg.size <= past
    BY <2>1, ProductOrder, Zenon DEF past
  <2>5. last < m <=> past + seg.size <= m * seg.size
    BY <2>1, ProductOrder, Zenon DEF past
  <2>6. QED
    BY <2>2, <2>3, <2>4, <2>5
<1>5. first + seg.size <= past
  <2>1. sp.morsel < last <=> sp.morsel * seg.size + seg.size <= past
    <3>1. sp.morsel \in Int /\ last \in Int /\ seg.size \in Nat \ {0}
      BY <1>1, <1>3, <1>a
    <3>2. QED
      BY <3>1, ProductOrder, Zenon DEF past
  <2>2. QED
    BY <1>a, <2>1 DEF first
<1>6. /\ end \in Nat /\ first < end /\ end <= past /\ end <= seg.rows
      /\ \A x \in Int : x < past /\ x < seg.rows => x < end
  BY <1>3, <1>4, <1>5, <1>b
<1> HIDE DEF end
<1>7. \A q \in Morsels(f) : q \in Walk(f, sp) <=> /\ q[1] = sp.seg /\ q[2] >= sp.morsel
                                               /\ q[2] < last
  <2>1. Walk(f, sp) = SplitMorsels(f, sp)
    BY OneSegmentWalk
  <2>2. \A q \in Morsels(f) : q[1] \in Nat /\ q[2] \in Nat
    BY MorselTyped
  <2>3. QED
    <3>1. ASSUME NEW q \in Morsels(f)
          PROVE  q \in SplitMorsels(f, sp) <=> /\ q[1] = sp.seg /\ q[2] >= sp.morsel
                                               /\ q[2] < last
      BY <1>1, <2>2 DEF SplitMorsels, last
    <3>2. QED
      BY <2>1, <3>1
<1>8. ASSUME NEW q \in Walk(f, sp), NEW x \in MorselRows(f, q[1], q[2])
      PROVE  x \in seg.start + first .. seg.start + end - 1
  <2>1. q \in Morsels(f) /\ q[1] = sp.seg /\ q[2] >= sp.morsel /\ q[2] < last
    BY <1>7 DEF Walk, Reach
  <2>2. /\ q[2] \in 0 .. MorselCount(seg) - 1 /\ q[2] \in Nat
        /\ x \in SegMorselRows(seg, q[2])
    BY <2>1, MorselTyped DEF RowsIn, seg
  <2>3. /\ q[2] * seg.size \in Nat /\ x \in Nat
        /\ x >= seg.start + q[2] * seg.size
        /\ x < seg.start + q[2] * seg.size + seg.size
        /\ x < seg.start + seg.rows
    BY <1>2, <2>2, MorselBounds
  <2>4. first <= q[2] * seg.size
    <3>1. CASE q[2] = sp.morsel
      BY <1>4, <3>1 DEF first
    <3>2. CASE sp.morsel < q[2]
      <4>1. first + seg.size <= q[2] * seg.size
        BY <1>c, <2>2, <3>2
      <4> QED BY <1>3, <1>4, <2>3, <4>1
    <3> QED BY <1>1, <2>1, <2>2, <3>1, <3>2
  <2>5. q[2] * seg.size + seg.size <= past
    BY <1>c, <2>1, <2>2
  <2>6. QED
    <3>1. x - seg.start < end
      BY <1>3, <1>6, <1>b, <2>3, <2>5
    <3>2. QED
      BY <1>3, <1>4, <1>6, <2>3, <2>4, <3>1
<1>9. ASSUME NEW x \in seg.start + first .. seg.start + end - 1
      PROVE  \E q \in Walk(f, sp) : x \in MorselRows(f, q[1], q[2])
  <2>1. x \in SegRows(seg) /\ x \in Nat
    BY <1>3, <1>4, <1>6 DEF SegRows
  <2>0. x - seg.start < past
    BY <1>3, <1>4, <1>6, <1>b
  <2>2. PICK m \in 0 .. MorselCount(seg) - 1 : x \in SegMorselRows(seg, m)
    BY <1>2, <2>1, MorselsTileSegment
  <2>3. /\ m \in Nat /\ m * seg.size \in Nat
        /\ x >= seg.start + m * seg.size
        /\ x < seg.start + m * seg.size + seg.size
    BY <1>2, <2>2, MorselBounds
  <2>4. m >= sp.morsel
    <3>1. CASE m < sp.morsel
      <4>1. m * seg.size + seg.size <= first
        BY <1>c, <2>3, <3>1
      <4> QED BY <1>3, <1>4, <2>1, <2>3, <4>1
    <3> QED BY <1>1, <2>3, <3>1
  <2>5. m < last
    <3>1. CASE last < m
      <4>1. past + seg.size <= m * seg.size
        BY <1>c, <2>3, <3>1
      <4> QED BY <1>3, <1>b, <2>0, <2>1, <2>3, <4>1
    <3>2. CASE m = last
      BY <1>3, <1>b, <2>0, <2>1, <2>3, <3>2 DEF past
    <3> QED BY <1>a, <2>3, <3>1, <3>2
  <2>6. <<sp.seg, m>> \in Morsels(f)
    BY <1>2 DEF Morsels, seg
  <2>7. <<sp.seg, m>> \in Walk(f, sp)
    BY <1>7, <2>4, <2>5, <2>6
  <2>8. x \in MorselRows(f, sp.seg, m)
    BY <2>2 DEF SegMorselRows, MorselRows, seg
  <2>9. QED
    BY <2>7, <2>8
<1>10. U = seg.start + first .. seg.start + end - 1
  BY <1>8, <1>9
<1>11. Claimed(sp) = U
  <2>1. Cardinality(U) = end - first
    <3> DEFINE lo == seg.start + first
               hi == seg.start + end - 1
    <3>1. lo \in Int /\ hi \in Int /\ lo <= hi /\ hi - lo + 1 = end - first
      BY <1>3, <1>4, <1>6
    <3>2. U = lo .. hi
      BY <1>10
    <3> HIDE DEF lo, hi, U
    <3>3. Cardinality(lo .. hi) = IF lo > hi THEN 0 ELSE hi - lo + 1
      BY <3>1, FS_Interval
    <3>4. QED
      BY <3>1, <3>2, <3>3
  <2>2. sp.row + sp.rows - 1 = seg.start + end - 1
    BY <1>1, <1>3, <1>4, <1>6, <2>1
  <2>3. QED
    BY <1>1, <1>10, <2>2 DEF Claimed
<1>12. p \in Walk(f, sp) <=> r \in U
  <2>1. ASSUME NEW q \in Walk(f, sp), r \in MorselRows(f, q[1], q[2]) PROVE p = q
    BY <2>1, MorselOfRowUnique DEF Walk, Reach, RowsIn
  <2>2. QED
    BY <2>1 DEF RowsIn
<1>13. QED
  BY <1>11, <1>12, OneSegmentWalk

\* The partitions that return a visible row are those whose split entries claim
\* it, or one where no splits are followed, for indexes whose splits stay in one
\* segment: an accepted entry means to the planner what it says of its rows.
THEOREM OneSegmentRowsAsClaimed == Spec => [](OneSegmentSplits => RowsAsClaimed)
<1>1. OnceInv => (OneSegmentSplits => RowsAsClaimed)
  <2> SUFFICES ASSUME OnceInv, OneSegmentSplits, Done, NEW f \in 1..Len(files), NEW r \in RowsOf(f)
               PROVE  LET K == {k \in Partitions : <<f, r>> \in out[k]}
                      IN  IF r \notin Visible(f) THEN K = {}
                          ELSE IF splits[f] # {} /\ ~LookupEligible THEN K = Claims(f, r)
                          ELSE Cardinality(K) = 1
    BY DEF RowsAsClaimed
  <2>1. FilesOK /\ SplitsOK
    BY DEF OnceInv, ScanInv, Done
  <2>2. PICK p \in Morsels(f) : r \in RowsIn(f, p)
    BY <2>1, MorselsTileFile
  <2>3. ASSUME NEW index \in splits[f], NEW i \in 1..Len(index)
        PROVE  (\E q \in SplitMorsels(f, index[i]) : r \in RowsIn(f, q)) <=> r \in Claimed(index[i])
    <3>1. index[i] \in SplitEntry /\ index[i].segs = 1 /\ Accepted(f, index[i])
      BY <2>1, <2>3 DEF SplitsOK, OneSegmentSplits, ValidIndex
    <3>2. p \in SplitMorsels(f, index[i]) <=> r \in Claimed(index[i])
      BY <2>1, <2>2, <3>1, OneSegmentClaims
    <3>3. (\E q \in SplitMorsels(f, index[i]) : r \in RowsIn(f, q)) <=> p \in SplitMorsels(f, index[i])
      BY <2>1, <2>2, MorselOfRowUnique DEF SplitMorsels
    <3>4. QED
      BY <3>2, <3>3
  <2>4. Following(f, r) = Claims(f, r)
    BY <2>3 DEF Following, Claims
  <2>5. \A k : Cardinality({k}) = 1
    BY FS_Singleton
  <2>6. QED
    BY <2>4, <2>5, RowsReturned
<1>2. QED
  BY <1>1, OnceInvInit, OnceInvStep, PTL DEF Spec

\* The promise of scan splits ("MUST NOT change logical row order or returned
\* rows") holds for indexes whose splits stay in one segment and whose walks
\* cover the table, the default index in particular: every row is returned
\* once.  Validation asks for neither (run scan_tasks_splits).
THEOREM OneSegmentSplitsNeverChangeRows ==
  Spec => [](OneSegmentSplits /\ SplitsCover => SplitsNeverChangeRows)
<1>1. OnceInv => (OneSegmentSplits /\ SplitsCover => SplitsNeverChangeRows)
  <2> SUFFICES ASSUME OnceInv, OneSegmentSplits, SplitsCover
               PROVE  SplitsNeverChangeRows
    OBVIOUS
  <2>1. CASE Done
    <3>1. FilesOK /\ SplitsOK
      BY <2>1 DEF OnceInv, ScanInv, Done
    <3>2. QED
      BY <3>1, CoveringSplitsTile, OwnedRowsOnce
  <2>2. CASE ~ Done
    BY <2>2 DEF SplitsNeverChangeRows
  <2>3. QED
    BY <2>1, <2>2
<1>2. QED
  BY <1>1, OnceInvInit, OnceInvStep, PTL DEF Spec
================================================================================
