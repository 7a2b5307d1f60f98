--------------------------- MODULE TableReadProofs ---------------------------
(***************************************************************************)
(* Proofs about reading a table. The scan with the filters it pushed down: *)
(* a morsel that is skipped holds no row the query asks for, and over      *)
(* integers the rows that come back are the rows it asks for, for every    *)
(* table, layout, query and metadata. The reads it plans: every caller     *)
(* gets its own bytes, and a read of several ranges stays within its       *)
(* bounds and its cluster, for every list of ranges and clusters. The      *)
(* aggregates answered from metadata: the counts, extremes, sums and       *)
(* averages a scan would find, for every dataset and every aggregate.      *)
(***************************************************************************)
EXTENDS MorselFilters, RangePlan, MetadataAnswers, BasicLemmas

------------------------------------------------------------------------------
(* Numbers and words                                                        *)

LEMMA Remainder ==
  ASSUME NEW w \in Nat \ {0}, NEW v \in Int
  PROVE  /\ 0 <= v /\ v < w => v % w = v
         /\ -w <= v /\ v < 0 => v % w = v + w
  OBVIOUS

LEMMA WordSizes ==
  /\ WordSize \in Nat \ {0} /\ Half \in Nat /\ Quarter \in Nat
  /\ WordSize = 2 * Half /\ Half >= 4
  BY ZoneAssumption DEF Half, Quarter

\* What a word says of an integer: a small word is the integer itself.
LEMMA IntegerWords ==
  ASSUME NEW k \in {"Int64", "UInt64"}, NEW v \in NumbersOfKind(k)
  PROVE  /\ v \in Int /\ v # Null /\ v # NaN
         /\ k = "UInt64" \/ 0 <= v => Word(k, v) = v
         /\ k = "Int64" /\ v < 0 => Word(k, v) >= Half /\ Word(k, v) \in Int
         /\ k = "Int64" => v < Half
<1>1. CASE k = "Int64"
  <2>1. v \in -Half .. Half - 1
    BY <1>1 DEF NumbersOfKind
  <2>2. Word(k, v) = v % WordSize
    BY <1>1 DEF Word
  <2>3. /\ v \in Int /\ -WordSize <= v /\ v < WordSize
        /\ WordSize \in Nat \ {0}
    BY <2>1, WordSizes
  <2>5. /\ 0 <= v => v % WordSize = v
        /\ v < 0 => v % WordSize = v + WordSize
    BY <2>3, Remainder
  <2>4. QED
    BY <1>1, <2>1, <2>2, <2>5, WordSizes, ZoneAssumption
<1>2. CASE k = "UInt64"
  <2>1. v \in 0 .. WordSize - 1
    BY <1>2 DEF NumbersOfKind
  <2>2. Word(k, v) = v % WordSize
    BY <1>2 DEF Word
  <2>3. v % WordSize = v
    BY <2>1, WordSizes, Remainder
  <2>4. QED
    BY <1>2, <2>1, <2>2, <2>3, WordSizes, ZoneAssumption
<1>3. QED
  BY <1>1, <1>2

------------------------------------------------------------------------------
(* What the statistics of a zone prove                                      *)

LEMMA NullsOnlyFields ==
  ASSUME NEW zone
  PROVE  /\ NullsOnly(zone).rows = Cardinality(DOMAIN zone)
         /\ NullsOnly(zone).nulls = NullCount(zone)
         /\ NullsOnly(zone).ranged = FALSE
  BY DEF NullsOnly, NoEntry

LEMMA RangedFields ==
  ASSUME NEW zone, NEW values
  PROVE  /\ Ranged(zone, values).rows = Cardinality(DOMAIN zone)
         /\ Ranged(zone, values).nulls = NullCount(zone)
         /\ Ranged(zone, values).ranged = TRUE
         /\ Ranged(zone, values).low = Min(values)
         /\ Ranged(zone, values).high = Max(values)
         /\ [Ranged(zone, values) EXCEPT !.nan = NaN \in Present(zone)].rows = Cardinality(DOMAIN zone)
         /\ [Ranged(zone, values) EXCEPT !.nan = NaN \in Present(zone)].nulls = NullCount(zone)
         /\ [Ranged(zone, values) EXCEPT !.nan = NaN \in Present(zone)].low = Min(values)
         /\ [Ranged(zone, values) EXCEPT !.nan = NaN \in Present(zone)].high = Max(values)
         /\ [Ranged(zone, values) EXCEPT !.nan = NaN \in Present(zone)].nan = (NaN \in Present(zone))
  BY DEF Ranged, NullsOnly, NoEntry

\* Null counts: as many nulls as rows are all rows, none are none.
LEMMA CountedNulls ==
  ASSUME NEW zone, IsFiniteSet(DOMAIN zone)
  PROVE  /\ NullCount(zone) = Cardinality(DOMAIN zone) => \A r \in DOMAIN zone : zone[r] = Null
         /\ NullCount(zone) = 0 => \A r \in DOMAIN zone : zone[r] # Null
<1> DEFINE Nulls == {r \in DOMAIN zone : zone[r] = Null}
<1>1. Nulls \in SUBSET DOMAIN zone
  OBVIOUS
<1>2. NullCount(zone) = Cardinality(Nulls)
  BY DEF NullCount
<1>3. \A r \in Nulls : zone[r] = Null
  OBVIOUS
<1>4. Nulls = {} => \A r \in DOMAIN zone : zone[r] # Null
  OBVIOUS
<1> HIDE DEF Nulls
<1>5. IsFiniteSet(Nulls)
  BY <1>1, FS_Subset
<1>6. Cardinality(DOMAIN zone) = Cardinality(Nulls) => DOMAIN zone = Nulls
  BY <1>1, FS_Subset
<1>7. Cardinality(Nulls) = 0 => Nulls = {}
  BY <1>5, FS_EmptySet
<1>8. QED
  BY <1>2, <1>3, <1>4, <1>6, <1>7

LEMMA PresentFinite ==
  ASSUME NEW zone, IsFiniteSet(DOMAIN zone)
  PROVE  /\ IsFiniteSet(Present(zone))
         /\ \A r \in DOMAIN zone : zone[r] = Null \/ zone[r] \in Present(zone)
         /\ \A v \in Present(zone) : v # Null /\ \E r \in DOMAIN zone : zone[r] = v
<1>1. IsFiniteSet({zone[r] : r \in DOMAIN zone})
  BY FiniteRange
<1>2. IsFiniteSet({zone[r] : r \in DOMAIN zone} \ {Null})
  BY <1>1, FS_Difference
<1>3. QED
  BY <1>2 DEF Present

Operators == {"Eq", "Lt", "LtEq", "Gt", "GtEq"}

LEMMA DisjointInterval ==
  ASSUME NEW op \in Operators, NEW literal \in Int, NEW v \in Int,
         NEW stats, stats.low \in Int, stats.high \in Int, stats.low <= v, v <= stats.high,
         Disjoint(op, literal, stats)
  PROVE  ~Compare(op, v, literal)
<1>1. CASE op = "Eq"
  BY <1>1 DEF Disjoint, Compare
<1>2. CASE op = "Lt"
  BY <1>2 DEF Disjoint, Compare
<1>3. CASE op = "LtEq"
  BY <1>3 DEF Disjoint, Compare
<1>4. CASE op = "Gt"
  BY <1>4 DEF Disjoint, Compare
<1>5. CASE op = "GtEq"
  BY <1>5 DEF Disjoint, Compare
<1>6. QED
  BY <1>1, <1>2, <1>3, <1>4, <1>5 DEF Operators

\* Statistics of numbers that rule a comparison out are right, with nulls,
\* with NaN and without any number.
LEMMA NumberStatsSound ==
  ASSUME NEW zone, IsFiniteSet(DOMAIN zone),
         \A r \in DOMAIN zone : zone[r] \in Int \cup {Null, NaN},
         NEW op \in Operators, NEW literal \in Int,
         NoNumberMatches(op, literal, NumberStats(zone)),
         NEW r \in DOMAIN zone
  PROVE  zone[r] = Null \/ (zone[r] \in Int /\ ~Compare(op, zone[r], literal))
<1> DEFINE numbers == Present(zone) \ {NaN}
           full == [Ranged(zone, numbers) EXCEPT !.nan = NaN \in Present(zone)]
<1>1. CASE Present(zone) = {}
  BY <1>1, PresentFinite
<1>2. CASE Present(zone) # {} /\ numbers = {}
  <2>1. NumberStats(zone) = NoEntry
    BY <1>2 DEF NumberStats
  <2>2. ~NoNumberMatches(op, literal, NoEntry)
    BY DEF NoNumberMatches, OnlyNulls, Known, NoEntry
  <2>3. QED
    BY <2>1, <2>2
<1>3. CASE Present(zone) # {} /\ numbers # {}
  <2>1. NumberStats(zone) = full
    BY <1>3 DEF NumberStats
  <2>2. /\ full.rows = Cardinality(DOMAIN zone) /\ full.nulls = NullCount(zone)
        /\ full.low = Min(numbers) /\ full.high = Max(numbers)
        /\ full.nan = (NaN \in Present(zone))
    BY RangedFields
  <2>3. numbers \subseteq Int /\ IsFiniteSet(numbers)
    <3>1. IsFiniteSet(numbers)
      BY PresentFinite, FS_Difference
    <3>2. QED
      BY <3>1, PresentFinite
  <2> HIDE DEF numbers
  <2>4. /\ Min(numbers) \in Int /\ Max(numbers) \in Int
        /\ \A v \in numbers : Min(numbers) <= v /\ v <= Max(numbers)
    BY <1>3, <2>3, LeastMember, GreatestMember
  <2> HIDE DEF full
  <2>5. CASE OnlyNulls(full)
    <3>1. NullCount(zone) = Cardinality(DOMAIN zone)
      BY <2>2, <2>5 DEF OnlyNulls
    <3>2. QED
      BY <3>1, CountedNulls
  <2>6. CASE ~full.nan /\ Disjoint(op, literal, full)
    <3>1. zone[r] = Null \/ zone[r] \in numbers
      BY <2>2, <2>6, PresentFinite DEF numbers
    <3>2. ASSUME zone[r] \in numbers PROVE zone[r] \in Int /\ ~Compare(op, zone[r], literal)
      <4>1. zone[r] \in Int /\ full.low <= zone[r] /\ zone[r] <= full.high
        BY <2>2, <2>3, <2>4, <3>2
      <4>2. full.low \in Int /\ full.high \in Int
        BY <2>2, <2>4
      <4>3. QED
        BY <2>6, <4>1, <4>2, DisjointInterval
    <3>3. QED
      BY <3>1, <3>2
  <2>7. QED
    BY <2>1, <2>5, <2>6 DEF NoNumberMatches
<1>4. QED
  BY <1>1, <1>2, <1>3

\* Statistics of file codes that rule a code out are right.
LEMMA CodeStatsSound ==
  ASSUME NEW zone, IsFiniteSet(DOMAIN zone),
         NEW all, IsFiniteSet(all), Present(zone) \subseteq all,
         NEW domain, domain \in {{}, all}, NEW code, code # Null,
         NEW stats, stats = CodeStats(zone, all) \/ stats = NoEntry,
         NoCodeMatches(code, stats, domain),
         NEW r \in DOMAIN zone
  PROVE  zone[r] # code
<1> DEFINE ranks == {Rank(c, all) : c \in Present(zone)}
<1>1. CASE domain # {} /\ code \notin domain
  BY <1>1, PresentFinite
<1>2. CASE stats = NoEntry
  <2>1. ~OnlyNulls(stats) /\ ~stats.ranged
    BY <1>2 DEF OnlyNulls, Known, NoEntry
  <2>2. QED
    BY <1>1, <2>1 DEF NoCodeMatches
<1>3. CASE stats # NoEntry /\ Present(zone) = {}
  BY <1>3, PresentFinite
<1>4. CASE stats # NoEntry /\ Present(zone) # {}
  <2>1. stats = Ranged(zone, ranks)
    BY <1>4 DEF CodeStats
  <2>2. /\ stats.rows = Cardinality(DOMAIN zone) /\ stats.nulls = NullCount(zone)
        /\ stats.low = Min(ranks) /\ stats.high = Max(ranks)
    BY <2>1, RangedFields
  <2>3. CASE OnlyNulls(stats)
    <3>1. NullCount(zone) = Cardinality(DOMAIN zone)
      BY <2>2, <2>3 DEF OnlyNulls
    <3>2. QED
      BY <3>1, CountedNulls
  <2>4. CASE domain # {} /\ Rank(code, domain) \notin stats.low .. stats.high
    <3>1. SUFFICES ASSUME code \in Present(zone) PROVE FALSE
      BY PresentFinite
    <3>2. \A c \in Present(zone) : Rank(c, all) \in Nat
      <4> SUFFICES ASSUME NEW c \in Present(zone) PROVE Rank(c, all) \in Nat
        OBVIOUS
      <4>1. {d \in all : d < c} \in SUBSET all
        OBVIOUS
      <4>2. IsFiniteSet({d \in all : d < c})
        BY <4>1, FS_Subset
      <4>3. QED
        BY <4>2, FS_CardinalityType DEF Rank
    <3>3. ranks \subseteq Int /\ ranks # {} /\ Rank(code, all) \in ranks
      BY <3>1, <3>2
    <3>4. IsFiniteSet(ranks)
      <4> DEFINE f == [c \in Present(zone) |-> Rank(c, all)]
      <4>1. DOMAIN f = Present(zone) /\ {f[c] : c \in Present(zone)} = ranks
        OBVIOUS
      <4> HIDE DEF f
      <4>2. IsFiniteSet({f[c] : c \in Present(zone)})
        BY <4>1, PresentFinite, FiniteRange
      <4>3. QED
        BY <4>1, <4>2
    <3> HIDE DEF ranks
    <3>5. /\ Min(ranks) \in Int /\ Max(ranks) \in Int
          /\ Min(ranks) <= Rank(code, all) /\ Rank(code, all) <= Max(ranks)
          /\ Rank(code, all) \in Int
      BY <3>3, <3>4, LeastMember, GreatestMember
    <3>6. QED
      BY <2>2, <2>4, <3>5
  <2>5. QED
    BY <1>1, <2>3, <2>4 DEF NoCodeMatches
<1>5. QED
  BY <1>2, <1>3, <1>4

\* Whatever the column, an entry counts rows and nulls.
LEMMA StatsCount ==
  ASSUME NEW zone, NEW all, NEW stats,
         stats \in {NumberStats(zone), CodeStats(zone, all), NoEntry},
         IsFiniteSet(DOMAIN zone)
  PROVE  /\ NoNulls(stats) => \A r \in DOMAIN zone : zone[r] # Null
         /\ OnlyNulls(stats) => \A r \in DOMAIN zone : zone[r] = Null
<1> DEFINE Counting(s) == s.rows = Cardinality(DOMAIN zone) /\ s.nulls = NullCount(zone)
<1>1. ~Known(NoEntry)
  BY DEF Known, NoEntry
<1>2. NumberStats(zone) = NoEntry \/ Counting(NumberStats(zone))
  BY NullsOnlyFields, RangedFields DEF NumberStats
<1>3. Counting(CodeStats(zone, all))
  BY NullsOnlyFields, RangedFields DEF CodeStats
<1>4. CASE stats = NoEntry
  BY <1>1, <1>4 DEF NoNulls, OnlyNulls
<1>5. CASE Counting(stats)
  BY <1>5, CountedNulls DEF NoNulls, OnlyNulls
<1>6. QED
  BY <1>2, <1>3, <1>4, <1>5

------------------------------------------------------------------------------
(* Places, and the query as it was given                                    *)

LEMMA Places ==
  /\ Len(Layout) \in Nat /\ Morsels = 1 .. Len(Layout)
  /\ \A m \in Morsels : /\ RowsOf(m) \subseteq TableRows
                        /\ RowsOf(m) \subseteq Nat
                        /\ IsFiniteSet(RowsOf(m))
  /\ IsFiniteSet(TableRows)
<1>1. Len(Layout) \in Nat /\ Morsels = 1 .. Len(Layout)
  BY LayoutAssumption DEF Morsels
<1>2. ASSUME NEW m \in Morsels
      PROVE  RowsOf(m) \subseteq TableRows /\ RowsOf(m) \subseteq Nat /\ IsFiniteSet(RowsOf(m))
  <2> DEFINE Shape == [segment : Nat, morsel : Nat, first : Nat, rows : Nat \ {0}]
  <2>0. Layout[m] \in Shape
    <3>1. Layout \in Seq(Shape) /\ m \in DOMAIN Layout
      BY LayoutAssumption DEF Morsels
    <3> HIDE DEF Shape
    <3>2. QED
      BY <3>1
  <2>1. Layout[m].first \in Nat /\ Layout[m].rows \in Nat
    BY <2>0
  <2>2. IsFiniteSet(RowsOf(m))
    <3>1. Layout[m].first \in Int /\ Layout[m].first + Layout[m].rows - 1 \in Int
      BY <2>1
    <3>2. QED
      BY <3>1, FS_Interval DEF RowsOf
  <2>3. QED
    BY <2>1, <2>2 DEF RowsOf, TableRows
<1>3. IsFiniteSet(TableRows)
  <2> DEFINE f == [m \in Morsels |-> RowsOf(m)]
  <2>1. /\ DOMAIN f = Morsels
        /\ {f[m] : m \in Morsels} = {RowsOf(m) : m \in Morsels}
    OBVIOUS
  <2>2. IsFiniteSet(Morsels)
    BY <1>1, FiniteInterval
  <2> HIDE DEF f
  <2>3. IsFiniteSet({f[m] : m \in Morsels})
    BY <2>1, <2>2, FiniteRange
  <2>4. \A T \in {RowsOf(m) : m \in Morsels} : IsFiniteSet(T)
    BY <1>2
  <2>5. QED
    BY <2>1, <2>3, <2>4, FS_UNION DEF TableRows
<1>4. QED
  BY <1>1, <1>2, <1>3

\* What a query is about does not change.
Given ==
  /\ kind \in Kinds /\ meta \in MetaShape
  /\ table \in [TableRows -> [num : NumbersOfKind(kind) \cup {Null},
                              a : Nat \cup {Null}, b : Nat \cup {Null}]]
  /\ filters \in Seq(FilterOf(kind))

LEMMA NumbersAreNumbers ==
  ASSUME NEW k \in {"Int64", "UInt64", "Float64"}
  PROVE  NumbersOfKind(k) \subseteq Int \cup {NaN}
<1>1. CASE k = "Int64"
  BY <1>1, WordSizes DEF NumbersOfKind
<1>2. CASE k = "UInt64"
  BY <1>2, WordSizes DEF NumbersOfKind
<1>3. CASE k = "Float64"
  BY <1>3, WordSizes DEF NumbersOfKind
<1>4. QED
  BY <1>1, <1>2, <1>3

LEMMA FilterValues ==
  ASSUME Given, NEW r \in TableRows
  PROVE  /\ table[r]["num"] \in NumbersOfKind(kind) \cup {Null}
         /\ \A col \in CodeColumns : table[r][col] \in Nat \cup {Null}
         /\ \A col \in Columns : table[r][col] \in Int \cup {Null, NaN}
<1>1. table[r] \in [num : NumbersOfKind(kind) \cup {Null}, a : Nat \cup {Null}, b : Nat \cup {Null}]
  BY DEF Given
<1>2. /\ table[r]["num"] \in NumbersOfKind(kind) \cup {Null}
      /\ table[r]["a"] \in Nat \cup {Null} /\ table[r]["b"] \in Nat \cup {Null}
  BY <1>1
<1>3. kind \in {"Int64", "UInt64", "Float64"}
  BY QueriesTyped DEF Given
<1>4. QED
  BY <1>2, <1>3, NumbersAreNumbers DEF CodeColumns, Columns

\* The three sorts of filters.
LEMMA FilterSorts ==
  ASSUME Given, NEW i \in DOMAIN filters
  PROVE  \/ /\ filters[i].type = "Numeric" /\ filters[i].col = "num" /\ filters[i].op \in Operators
            /\ filters[i].literal \in NumbersOfKind(kind) /\ filters[i].literal \in Int
         \/ /\ filters[i].type = "FileCodeIn" /\ filters[i].col \in CodeColumns
            /\ filters[i].codes \subseteq Nat
         \/ filters[i].type = "Null" /\ filters[i].col \in Columns /\ filters[i].is \in BOOLEAN
<1>1. filters[i] \in FilterOf(kind)
  BY DEF Given
<1>2. NumbersOfKind(kind) \subseteq Int \cup {NaN}
  BY NumbersAreNumbers, QueriesTyped DEF Given
<1>3. QED
  BY <1>1, <1>2 DEF FilterOf, Operators

\* Rows no filter matches are not wanted.
LEMMA WantedRows ==
  ASSUME NEW r \in Wanted
  PROVE  r \in TableRows /\ \A i \in DOMAIN filters : Matches(filters[i], table[r][filters[i].col])
  BY DEF Wanted

LEMMA ZoneOfMorsel ==
  ASSUME Given, NEW m \in Morsels, NEW col \in Columns
  PROVE  /\ DOMAIN Zone(col, m) = RowsOf(m) /\ IsFiniteSet(DOMAIN Zone(col, m))
         /\ \A r \in RowsOf(m) : Zone(col, m)[r] = table[r][col]
         /\ \A r \in RowsOf(m) : Zone(col, m)[r] \in Int \cup {Null, NaN}
         /\ Present(Zone(col, m)) \subseteq CodesOf(col)
         /\ IsFiniteSet(CodesOf(col))
         /\ \A r \in TableRows : table[r][col] = Null \/ table[r][col] \in CodesOf(col)
<1>1. DOMAIN Zone(col, m) = RowsOf(m) /\ \A r \in RowsOf(m) : Zone(col, m)[r] = table[r][col]
  BY DEF Zone
<1>2. \A r \in RowsOf(m) : Zone(col, m)[r] \in Int \cup {Null, NaN}
  BY <1>1, Places, FilterValues
<1>3. DOMAIN Column(col) = TableRows /\ \A r \in TableRows : Column(col)[r] = table[r][col]
  BY DEF Column
<1>4. IsFiniteSet(CodesOf(col)) /\ \A r \in TableRows : table[r][col] = Null \/ table[r][col] \in CodesOf(col)
  BY <1>3, Places, PresentFinite DEF CodesOf
<1>5. Present(Zone(col, m)) \subseteq CodesOf(col)
  BY <1>1, <1>4, Places, PresentFinite
<1>6. QED
  BY <1>1, <1>2, <1>4, <1>5, Places

LEMMA StatsSort ==
  ASSUME NEW m \in Morsels, NEW col \in Columns
  PROVE  /\ Stats(col, m) \in {NumberStats(Zone(col, m)), CodeStats(Zone(col, m), CodesOf(col)), NoEntry}
         /\ col = "num" => Stats(col, m) \in {NumberStats(Zone(col, m)), NoEntry}
         /\ col # "num" => Stats(col, m) \in {CodeStats(Zone(col, m), CodesOf(col)), NoEntry}
  BY DEF Stats

------------------------------------------------------------------------------
(* Pruning: what is skipped holds nothing the query asks for                *)

LEMMA HasPosting ==
  ASSUME Given, NEW r \in TableRows, NEW col \in CodeColumns, table[r][col] # Null
  PROVE  r \in Postings(col, table[r][col])
<1>1. KeyOf(col, table[r][col]) = table[r][col]
  BY DEF KeyOf, CodeColumns
<1>2. QED
  BY <1>1 DEF Postings

\* Each sort of metadata, asked for one filter.
LEMMA FilterPrunesSound ==
  ASSUME Given, NEW m \in Morsels, NEW i \in DOMAIN filters,
         FilterPrunes(filters[i], m), NEW r \in RowsOf(m)
  PROVE  ~Matches(filters[i], table[r][filters[i].col])
<1> DEFINE f == filters[i]
           v == table[r][f.col]
           zone == Zone(f.col, m)
           stats == Stats(f.col, m)
<1>1. r \in TableRows /\ r \in RowsOf(m)
  BY Places
<1>2. f.col \in Columns
  BY FilterSorts DEF Columns, CodeColumns
<1>3. /\ IsFiniteSet(DOMAIN zone) /\ r \in DOMAIN zone /\ zone[r] = v
      /\ \A x \in DOMAIN zone : zone[x] \in Int \cup {Null, NaN}
  BY <1>1, <1>2, ZoneOfMorsel
<1>4. CASE f.type = "Null"
  <2>1. /\ NoNulls(stats) => v # Null
        /\ OnlyNulls(stats) => v = Null
    <3>1. stats \in {NumberStats(zone), CodeStats(zone, CodesOf(f.col)), NoEntry}
      BY <1>2, StatsSort
    <3> HIDE DEF stats, zone, v
    <3>2. /\ NoNulls(stats) => \A x \in DOMAIN zone : zone[x] # Null
          /\ OnlyNulls(stats) => \A x \in DOMAIN zone : zone[x] = Null
      BY <1>3, <3>1, StatsCount
    <3>3. QED
      BY <1>3, <3>2
  <2>2. IF f.is THEN NoNulls(stats) ELSE OnlyNulls(stats)
    BY <1>4 DEF FilterPrunes
  <2>3. f.is \in BOOLEAN
    BY <1>4, FilterSorts
  <2>4. QED
    BY <1>4, <2>1, <2>2, <2>3 DEF Matches
<1>5. CASE f.type = "Numeric"
  <2>1. f.op \in Operators /\ f.literal \in Int /\ f.col = "num"
    BY <1>5, FilterSorts
  <2>2. NoNumberMatches(f.op, f.literal, stats)
    BY <1>5 DEF FilterPrunes
  <2>3. ~NoNumberMatches(f.op, f.literal, NoEntry)
    BY DEF NoNumberMatches, OnlyNulls, Known, NoEntry
  <2>4. stats = NumberStats(zone)
    BY <1>2, <2>1, <2>2, <2>3, StatsSort
  <2> HIDE DEF zone, stats, f
  <2>5. zone[r] = Null \/ (zone[r] \in Int /\ ~Compare(f.op, zone[r], f.literal))
    BY <1>3, <2>1, <2>2, <2>4, NumberStatsSound
  <2>6. QED
    BY <1>3, <1>5, <2>5, ZoneAssumption DEF Matches, f
<1>6. CASE f.type = "FileCodeIn"
  <2>1. f.col \in CodeColumns /\ f.codes \subseteq Nat
    BY <1>6, FilterSorts
  <2>2. SUFFICES ASSUME v \in f.codes PROVE FALSE
    BY <1>6 DEF Matches
  <2>3. v \in Nat /\ v # Null
    BY <2>1, <2>2, ZoneAssumption
  <2>4. r \in Postings(f.col, v)
    BY <1>1, <2>1, <2>3, HasPosting
  <2>5. CASE LookupPrunes(f, m)
    BY <1>1, <2>2, <2>4, <2>5 DEF LookupPrunes
  <2>6. CASE InvertedPrunes(f, m)
    <3>1. GlobalOrdinal(m) \in InvertedOrdinals(f.col, v)
      BY <1>1, <2>4 DEF InvertedOrdinals
    <3>2. QED
      BY <2>2, <2>6, <3>1 DEF InvertedPrunes
  <2>7. CASE \A code \in f.codes : CodeExcluded(f, code, m)
    <3>1. v \in CodesOf(f.col) /\ IsFiniteSet(CodesOf(f.col)) /\ Present(zone) \subseteq CodesOf(f.col)
      BY <1>1, <1>2, <2>3, ZoneOfMorsel
    <3>2. ~ExcludedBySet(f.col, v) /\ ~ExcludedByBloom(f.col, v)
      BY <3>1 DEF ExcludedBySet, ExcludedByBloom
    <3>3. NoCodeMatches(v, stats, Domain(f.col))
      BY <2>2, <2>7, <3>2 DEF CodeExcluded
    <3>4. stats = CodeStats(zone, CodesOf(f.col)) \/ stats = NoEntry
      BY <1>2, <2>1, StatsSort DEF CodeColumns
    <3>5. Domain(f.col) \in {{}, CodesOf(f.col)}
      BY DEF Domain
    <3> HIDE DEF zone, stats, f, v
    <3>6. zone[r] # v
      BY <1>3, <2>3, <3>1, <3>3, <3>4, <3>5, CodeStatsSound
    <3>7. QED
      BY <1>3, <3>6
  <2>8. QED
    BY <1>6, <2>5, <2>6, <2>7 DEF FilterPrunes
<1>7. QED
  BY <1>4, <1>5, <1>6, FilterSorts

\* Zones that come out even as tuples are read as such, and then a composite
\* index says nothing true (run changed_answers).
ZonesMisread == meta.composite = "Zones" /\ WholeTuples

\* A tuple stands for a row that holds both of its codes.
LEMMA CompositePrunesSound ==
  ASSUME Given, NEW m \in Morsels, ~ZonesMisread, CompositePrunes(m), NEW r \in RowsOf(m)
  PROVE  r \notin Wanted
<1>1. SUFFICES ASSUME r \in Wanted PROVE FALSE
  OBVIOUS
<1>2. meta.composite = "Tuples" /\ \A t \in Tuples : ~TupleMatches(t, m)
  BY DEF CompositePrunes, ZonesMisread
<1>3. ASSUME NEW col \in CodeColumns
      PROVE  table[r][col] \in CodesAsked(col) /\ table[r][col] # Null
  <2>1. FilterOn(col) # {} /\ FilterOn(col) \subseteq Nat
    BY DEF CompositePrunes, FilterOn, Given
  <2>2. PICK i : i = Min(FilterOn(col))
    OBVIOUS
  <2>3. PICK j \in FilterOn(col) : \A y \in FilterOn(col) : j <= y
    BY <2>1, NatMin
  <2>4. i \in FilterOn(col)
    BY <2>2, <2>3 DEF Min
  <2>5. i \in DOMAIN filters /\ filters[i].type = "FileCodeIn" /\ filters[i].col = col
    BY <2>4 DEF FilterOn
  <2>6. Matches(filters[i], table[r][col])
    BY <1>1, <2>5, WantedRows
  <2>7. table[r][col] \in filters[i].codes /\ filters[i].codes \subseteq Nat
    BY <2>5, <2>6, FilterSorts DEF Matches
  <2>8. QED
    BY <2>2, <2>7, ZoneAssumption DEF CodesAsked
<1>4. TupleAt(r, m) \in Tuples
  BY <1>3 DEF Tuples
<1>5. TupleMatches(TupleAt(r, m), m)
  <2>1. TupleWidth = 6 /\ DOMAIN KeyColumns = {1, 2} /\ KeyColumns[1] = "a" /\ KeyColumns[2] = "b"
    BY DEF TupleWidth, KeyColumns
  <2>2. /\ TupleAt(r, m)[1] = table[r]["a"] /\ TupleAt(r, m)[2] = 0
        /\ TupleAt(r, m)[3] = table[r]["b"] /\ TupleAt(r, m)[4] = 0
        /\ TupleAt(r, m)[5] = SegmentOf(m) /\ TupleAt(r, m)[6] = MorselOf(m)
    BY DEF TupleAt
  <2>3. /\ table[r]["a"] \in CodesAsked("a")
        /\ table[r]["b"] \in CodesAsked("b")
    BY <1>3 DEF CodeColumns
  <2>4. \A k \in {1, 2} : /\ TupleAt(r, m)[2 * k] = 0
                          /\ TupleAt(r, m)[2 * k - 1] \in CodesAsked(KeyColumns[k])
    <3>1. /\ TupleAt(r, m)[2 * 1] = 0
          /\ TupleAt(r, m)[2 * 1 - 1] \in CodesAsked(KeyColumns[1])
      BY <2>1, <2>2, <2>3
    <3>2. /\ TupleAt(r, m)[2 * 2] = 0
          /\ TupleAt(r, m)[2 * 2 - 1] \in CodesAsked(KeyColumns[2])
      BY <2>1, <2>2, <2>3
    <3>3. QED
      BY <3>1, <3>2
  <2>5. TupleAt(r, m)[TupleWidth - 1] = SegmentOf(m) /\ TupleAt(r, m)[TupleWidth] = MorselOf(m)
    BY <2>1, <2>2
  <2>6. QED
    BY <2>1, <2>4, <2>5 DEF TupleMatches
<1>6. QED
  BY <1>2, <1>4, <1>5

LEMMA PrunedHoldsNothing ==
  ASSUME Given, NEW m \in Morsels, ~ZonesMisread, MorselPruned(m)
  PROVE  RowsOf(m) \cap Wanted = {}
<1> SUFFICES ASSUME NEW r \in RowsOf(m), r \in Wanted PROVE FALSE
  OBVIOUS
<1>1. CASE CompositePrunes(m)
  BY <1>1, CompositePrunesSound
<1>2. CASE \E i \in DOMAIN filters : FilterPrunes(filters[i], m)
  <2>1. PICK i \in DOMAIN filters : FilterPrunes(filters[i], m)
    BY <1>2
  <2>2. QED
    BY <2>1, FilterPrunesSound, WantedRows
<1>3. CASE \E i \in DOMAIN filters : NullCountPrunes(filters[i], m)
  <2>1. PICK i \in DOMAIN filters : NullCountPrunes(filters[i], m)
    BY <1>3
  <2>2. filters[i].is \in BOOLEAN
    BY <2>1, FilterSorts DEF NullCountPrunes
  <2>3. ~Matches(filters[i], table[r][filters[i].col])
    BY <2>1, <2>2 DEF NullCountPrunes, Matches
  <2>4. QED
    BY <2>3, WantedRows
<1>4. QED
  BY <1>1, <1>2, <1>3 DEF MorselPruned

------------------------------------------------------------------------------
(* Rows of a morsel: the indexes and the kernels say what the filters mean  *)

\* Comparing stored words is comparing integers, where words can be compared.
LEMMA KeepsWhatMatches ==
  ASSUME Given, kind # "Float64", NEW i \in DOMAIN filters, filters[i].type # "Null",
         NEW r \in TableRows,
         filters[i].type = "Numeric" => Comparable(table[r][filters[i].col])
  PROVE  Keeps(filters[i], table[r][filters[i].col]) <=> Matches(filters[i], table[r][filters[i].col])
<1> DEFINE f == filters[i]
           v == table[r][f.col]
<1>1. kind \in {"Int64", "UInt64"}
  BY QueriesTyped DEF Given
<1>2. CASE f.type = "Numeric"
  <2>1. f.col = "num" /\ f.op \in Operators /\ f.literal \in Int /\ v \in NumbersOfKind(kind) \cup {Null}
    BY <1>2, FilterSorts, FilterValues
  <2>2. CASE v = Null
    <3>1. ~Keeps(f, v)
      BY <2>2 DEF Keeps
    <3>2. ~Matches(f, v)
      BY <1>2, <2>2, ZoneAssumption DEF Matches
    <3>3. QED
      BY <3>1, <3>2
  <2>3. CASE v # Null
    <3>1. /\ v \in NumbersOfKind(kind) /\ v \in Int /\ v # Null /\ v # NaN
          /\ kind = "UInt64" \/ 0 <= v => Word(kind, v) = v
          /\ kind = "Int64" /\ v < 0 => Word(kind, v) >= Half /\ Word(kind, v) \in Int
      BY <1>1, <2>1, <2>3, IntegerWords
    <3>2. kind = "Int64" => Word(kind, v) < Half
      BY <1>2, <2>3 DEF Comparable, FitsSigned
    <3>3. Word(kind, v) = v
      BY <1>1, <3>1, <3>2, WordSizes
    <3>4. Keeps(f, v) <=> Compare(f.op, v, f.literal)
      BY <1>2, <2>3, <3>3 DEF Keeps
    <3>5. Matches(f, v) <=> Compare(f.op, v, f.literal)
      BY <1>2, <3>1 DEF Matches
    <3>6. QED
      BY <3>4, <3>5
  <2>4. QED
    BY <2>2, <2>3
<1>3. CASE f.type = "FileCodeIn"
  <2>1. f.codes \subseteq Nat
    BY <1>3, FilterSorts
  <2>2. Keeps(f, v) <=> v # Null /\ v \in f.codes
    BY <1>3 DEF Keeps
  <2>3. Matches(f, v) <=> v \in f.codes
    BY <1>3 DEF Matches
  <2>4. QED
    BY <2>1, <2>2, <2>3, ZoneAssumption
<1>4. QED
  BY <1>2, <1>3, FilterSorts

\* An index has exactly the rows its filter matches.
LEMMA IndexRowsMatch ==
  ASSUME Given, kind # "Float64", NEW i \in DOMAIN filters, Searched(filters[i]), NEW r \in TableRows
  PROVE  r \in IndexRows(filters[i]) <=> Matches(filters[i], table[r][filters[i].col])
<1> DEFINE f == filters[i]
           v == table[r][f.col]
<1>1. r \in IndexRows(f) <=> v # Null /\ KeyOf(f.col, v) \in LookupKeys(f)
  BY DEF IndexRows, Postings
<1>2. CASE f.type = "FileCodeIn"
  <2>1. f.col \in CodeColumns /\ f.codes \subseteq Nat
    BY <1>2, FilterSorts
  <2>2. KeyOf(f.col, v) = v /\ LookupKeys(f) = f.codes
    BY <1>2, <2>1 DEF KeyOf, CodeColumns, LookupKeys
  <2>3. Matches(f, v) <=> v \in f.codes
    BY <1>2 DEF Matches
  <2>4. QED
    BY <1>1, <2>1, <2>2, <2>3, ZoneAssumption
<1>3. CASE f.type = "Numeric"
  <2>1. /\ f.col = "num" /\ f.literal \in NumbersOfKind(kind) /\ f.literal \in Int
        /\ v \in NumbersOfKind(kind) \cup {Null}
    BY <1>3, FilterSorts, FilterValues
  <2>2. f.op = "Eq" /\ LookupKeys(f) = {f.literal} /\ f.literal \in Nat
    BY <1>3 DEF Searched, LookupKeys
  <2>3. KeyOf(f.col, v) = Word(kind, v)
    BY <2>1 DEF KeyOf
  <2>4. kind \in {"Int64", "UInt64"}
    BY QueriesTyped DEF Given
  <2>5. CASE v = Null
    BY <1>1, <1>3, <2>5, ZoneAssumption DEF Matches
  <2>6. CASE v # Null
    <3>1. /\ v \in Int /\ v # NaN
          /\ kind = "UInt64" \/ 0 <= v => Word(kind, v) = v
          /\ kind = "Int64" /\ v < 0 => Word(kind, v) >= Half /\ Word(kind, v) \in Int
      BY <2>1, <2>4, <2>6, IntegerWords
    <3>2. kind = "Int64" => f.literal < Half
      BY <2>1, <2>4, IntegerWords
    <3>3. Word(kind, v) = f.literal <=> v = f.literal
      BY <2>1, <2>2, <2>4, <3>1, <3>2, WordSizes
    <3>4. Matches(f, v) <=> v = f.literal
      BY <1>3, <2>2, <2>6, <3>1 DEF Matches, Compare
    <3>5. QED
      BY <1>1, <2>2, <2>3, <2>6, <3>3, <3>4
  <2>7. QED
    BY <2>5, <2>6
<1>4. CASE f.type = "Null"
  BY <1>4 DEF Searched, LookupKeys
<1>5. QED
  BY <1>2, <1>3, <1>4, FilterSorts

\* What the kernels leave to the indexes, the indexes were asked.
LEMMA CoveredIsSearched ==
  ASSUME Given, ~SelectsNothing, NEW i \in DOMAIN filters, IndexCovered(filters[i])
  PROVE  Searched(filters[i])
<1> DEFINE f == filters[i]
<1>1. CASE f.type = "FileCodeIn"
  <2>1. f.codes # {}
    BY <1>1 DEF SelectsNothing
  <2>2. LookupKeys(f) = f.codes /\ KeyKind(f) = "FileCode"
    BY <1>1 DEF LookupKeys, KeyKind
  <2>3. meta.lookup[f.col] = "FileCode"
    BY <1>1 DEF IndexCovered
  <2>4. QED
    BY <2>1, <2>2, <2>3 DEF Searched
<1>2. CASE f.type = "Numeric"
  <2>1. f.op = "Eq" /\ f.literal \in Nat /\ meta.lookup[f.col] = "NumCode"
    BY <1>2, FilterSorts DEF IndexCovered
  <2>2. LookupKeys(f) = {f.literal} /\ KeyKind(f) = "NumCode"
    BY <1>2, <2>1 DEF LookupKeys, KeyKind
  <2>3. QED
    BY <2>1, <2>2 DEF Searched
<1>3. QED
  BY <1>1, <1>2, FilterSorts DEF IndexCovered

------------------------------------------------------------------------------
(* The types                                                                *)

TypeInv == Given /\ FilterTypeOK /\ (step = 0 => mask = {})

Kept == UNCHANGED <<kind, table, meta, filters>>

LEMMA KeptIsGiven ==
  ASSUME Given, Kept
  PROVE  /\ Given' /\ (Wanted' = Wanted) /\ (ZonesMisread' <=> ZonesMisread)
         /\ (SelectsNothing' <=> SelectsNothing) /\ Len(filters)' = Len(filters)
         /\ \A f : IndexCovered(f)' <=> IndexCovered(f)
<1>1. Given'
  BY DEF Given, Kept
<1>2. Wanted' = Wanted /\ (SelectsNothing' <=> SelectsNothing) /\ Len(filters)' = Len(filters)
  BY DEF Kept, Wanted, SelectsNothing
<1>3. ZonesMisread' <=> ZonesMisread
  BY DEF Kept, ZonesMisread, WholeTuples, ZoneWordCount, ZoneWidth, Zones, ZoneRows, TupleWidth
<1>4. \A f : IndexCovered(f)' <=> IndexCovered(f)
  BY DEF Kept, IndexCovered
<1>5. QED
  BY <1>1, <1>2, <1>3, <1>4

LEMMA FilterInitGiven == FilterInit => Given
<1> SUFFICES ASSUME FilterInit PROVE Given
  OBVIOUS
<1>1. kind \in Kinds /\ meta \in MetaShape
  BY QueriesTyped DEF FilterInit
<1>2. table \in [TableRows -> [num : NumbersOfKind(kind) \cup {Null},
                               a : Nat \cup {Null}, b : Nat \cup {Null}]]
  BY QueriesTyped DEF FilterInit
<1>3. PICK list \in FilterListsOf(kind) : \E order \in [DOMAIN list -> DOMAIN list] :
        filters = [i \in DOMAIN list |-> list[order[i]]]
  BY DEF FilterInit
<1>4. PICK order \in [DOMAIN list -> DOMAIN list] : filters = [i \in DOMAIN list |-> list[order[i]]]
  BY <1>3
<1>5. list \in Seq(FilterOf(kind))
  BY <1>1, <1>3, QueriesTyped
<1> DEFINE F == FilterOf(kind)
<1> HIDE DEF F
<1>6. Len(list) \in Nat /\ DOMAIN list = 1 .. Len(list) /\ \A i \in DOMAIN list : list[i] \in F
  BY <1>5 DEF F
<1>7. filters \in [1 .. Len(list) -> F]
  BY <1>4, <1>6
<1>8. filters \in Seq(F)
  BY <1>6, <1>7
<1>9. QED
  BY <1>1, <1>2, <1>8 DEF Given, F

LEMMA TypeInvInit == FilterInit => TypeInv
<1> SUFFICES ASSUME FilterInit PROVE TypeInv
  OBVIOUS
<1>1. Given
  BY FilterInitGiven
<1>2. Len(filters) \in Nat
  BY <1>1 DEF Given
<1>3. kind \in {"Int64", "UInt64", "Float64"} /\ meta \in MetaShape
  BY <1>1, QueriesTyped DEF Given
<1>4. QED
  BY <1>1, <1>2, <1>3, Places DEF FilterInit, TypeInv, FilterTypeOK

LEMMA TypeInvStep == TypeInv /\ [FilterNext]_filterVars => TypeInv'
<1> SUFFICES ASSUME TypeInv, [FilterNext]_filterVars PROVE TypeInv'
  OBVIOUS
<1>1. /\ Given /\ Len(filters) \in Nat /\ DOMAIN filters = 1 .. Len(filters)
      /\ Len(Layout) \in Nat /\ Morsels = 1 .. Len(Layout)
      /\ morsel \in 1 .. Len(Layout) + 1 /\ step \in 0 .. Len(filters) + 1
      /\ answer \subseteq TableRows /\ skipped \subseteq Morsels
      /\ mask \subseteq IF morsel \in Morsels THEN RowsOf(morsel) ELSE {}
      /\ step = 0 => mask = {}
  BY Places DEF TypeInv, FilterTypeOK, Given
<1>2. Kept
  BY DEF Kept, FilterNext, filterVars, FinishQuery, SkipMorsel, StartRows, SkipFilter, ApplyFilter,
         FailFilter, DeliverRows
<1>3. Given' /\ Len(filters)' = Len(filters) /\ kind' = kind /\ meta' = meta
  BY <1>1, <1>2, KeptIsGiven DEF Kept
<1>4. kind \in {"Int64", "UInt64", "Float64"} /\ meta \in MetaShape
  BY <1>1, QueriesTyped DEF Given
<1> USE DEF TypeInv, FilterTypeOK
<1>5. CASE FinishQuery
  BY <1>3, <1>5 DEF FinishQuery
<1>6. CASE SkipMorsel
  BY <1>1, <1>3, <1>6 DEF SkipMorsel, Scanning
<1>7. CASE StartRows
  <2>1. mask' \subseteq RowsOf(morsel)
    BY <1>7 DEF StartRows, RowsLeft
  <2>2. QED
    BY <1>1, <1>3, <1>7, <2>1 DEF StartRows, Scanning
<1>8. CASE SkipFilter
  BY <1>1, <1>3, <1>8 DEF SkipFilter, Scanning
<1>9. CASE ApplyFilter
  <2>1. mask' \subseteq mask /\ step' = step + 1 /\ step \in DOMAIN filters
        /\ UNCHANGED <<kind, table, meta, filters, morsel, skipped, answer, outcome>>
    BY <1>9 DEF ApplyFilter
  <2>2. QED
    BY <1>1, <1>3, <2>1
<1>10. CASE FailFilter
  BY <1>1, <1>3, <1>10 DEF FailFilter
<1>11. CASE DeliverRows
  <2>1. answer' \subseteq answer \cup mask
    BY <1>11 DEF DeliverRows
  <2>2. mask \subseteq TableRows
    BY <1>1, <1>11, Places DEF DeliverRows, Scanning
  <2>3. QED
    BY <1>1, <1>3, <1>11, <2>1, <2>2 DEF DeliverRows, Scanning
<1>12. CASE UNCHANGED filterVars
  BY <1>1, <1>3, <1>12 DEF filterVars
<1>13. QED
  BY <1>5, <1>6, <1>7, <1>8, <1>9, <1>10, <1>11, <1>12 DEF FilterNext

LEMMA TypeInductive == FilterSpec => []TypeInv
<1>1. FilterInit => TypeInv
  BY TypeInvInit
<1>2. TypeInv /\ [FilterNext]_filterVars => TypeInv'
  BY TypeInvStep
<1>3. QED
  BY <1>1, <1>2, PTL DEF FilterSpec

\* The state of a scan is well typed: the rows selected are of the morsel
\* under way, the rows returned are of the table.
THEOREM FilterTypesHold == FilterSpec => []FilterTypeOK
<1>1. TypeInv => FilterTypeOK
  BY DEF TypeInv
<1>2. QED
  BY <1>1, TypeInductive, PTL

------------------------------------------------------------------------------
(* What the metadata rules out holds nothing the query asks for             *)

PruneInv == TypeInv /\ (~ZonesMisread => SkippedHoldNothing)

LEMMA SkippedChanges ==
  ASSUME FilterNext, ~SkipMorsel
  PROVE  skipped' = skipped
  BY DEF FilterNext, FinishQuery, StartRows, SkipFilter, ApplyFilter, FailFilter, DeliverRows

LEMMA QueryKept ==
  ASSUME [FilterNext]_filterVars
  PROVE  Kept
  BY DEF Kept, FilterNext, filterVars, FinishQuery, SkipMorsel, StartRows, SkipFilter, ApplyFilter,
         FailFilter, DeliverRows

LEMMA PruneInvStep == PruneInv /\ [FilterNext]_filterVars => PruneInv'
<1> SUFFICES ASSUME PruneInv, [FilterNext]_filterVars PROVE PruneInv'
  OBVIOUS
<1>1. TypeInv /\ TypeInv'
  BY TypeInvStep DEF PruneInv
<1>2. /\ Wanted' = Wanted /\ (ZonesMisread' <=> ZonesMisread)
      /\ \A m : RowsOf(m)' = RowsOf(m)
  BY <1>1, QueryKept, KeptIsGiven DEF TypeInv, RowsOf
<1>3. SUFFICES ASSUME ~ZonesMisread PROVE SkippedHoldNothing'
  BY <1>1, <1>2 DEF PruneInv
<1>4. SkippedHoldNothing
  BY <1>3 DEF PruneInv
<1>5. CASE SkipMorsel
  <2>1. morsel \in Morsels /\ MorselPruned(morsel) /\ skipped' = skipped \cup {morsel}
    BY <1>5 DEF SkipMorsel, Scanning
  <2>2. RowsOf(morsel) \cap Wanted = {}
    BY <1>1, <1>3, <2>1, PrunedHoldsNothing DEF TypeInv
  <2>3. QED
    BY <1>2, <1>4, <2>1, <2>2 DEF SkippedHoldNothing
<1>6. CASE ~SkipMorsel
  <2>1. skipped' = skipped
    BY <1>6, SkippedChanges DEF filterVars
  <2>2. QED
    BY <1>2, <1>4, <2>1 DEF SkippedHoldNothing
<1>7. QED
  BY <1>5, <1>6

LEMMA PruneInvInit == FilterInit => PruneInv
<1> SUFFICES ASSUME FilterInit PROVE PruneInv
  OBVIOUS
<1>1. skipped = {}
  BY DEF FilterInit
<1>2. QED
  BY <1>1, TypeInvInit DEF PruneInv, SkippedHoldNothing

\* A morsel skipped on the word of the metadata holds no row the query asks
\* for: zone statistics with nulls and NaN, domains, exact sets, blooms,
\* inverted, lookup and composite indexes, in any combination, for integers,
\* floating point numbers and file codes. Where the composite zones of the
\* converter are read as tuples this is not so (run changed_answers).
THEOREM NothingWantedSkipped == FilterSpec => [](~ZonesMisread => SkippedHoldNothing)
<1>1. PruneInv => (~ZonesMisread => SkippedHoldNothing)
  BY DEF PruneInv
<1>2. QED
  BY <1>1, PruneInvInit, PruneInvStep, PTL DEF FilterSpec

------------------------------------------------------------------------------
(* The rows that come back                                                  *)

Means(i, r) == Matches(filters[i], table[r][filters[i].col])

\* The selection has every wanted row of its morsel, and no row that a filter
\* already applied, or answered by an index, does not match.
MaskRight ==
  step > 0 /\ morsel \in Morsels =>
     /\ ~SelectsNothing
     /\ Wanted \cap RowsOf(morsel) \subseteq mask
     /\ \A i \in DOMAIN filters :
           /\ filters[i].type # "Null"
           /\ i < step \/ (byLookup /\ IndexCovered(filters[i]))
           => \A r \in mask : Means(i, r)

\* What was returned is wanted, and nothing of the morsels behind is missing.
AnswerRight ==
  /\ answer \subseteq Wanted
  /\ \A m \in Morsels : m < morsel => RowsOf(m) \cap Wanted \subseteq answer

DoneRight == outcome = "done" => SelectsNothing \/ morsel \notin Morsels

RowsInv == MaskRight /\ AnswerRight /\ DoneRight

ExactInv == TypeInv /\ (~ZonesMisread /\ kind # "Float64" => RowsInv)

LEMMA WantedMeans ==
  /\ Wanted \subseteq TableRows
  /\ \A r \in TableRows : r \in Wanted <=> \A i \in DOMAIN filters : Means(i, r)
  BY DEF Wanted, Means

LEMMA NothingSelected ==
  ASSUME Given, SelectsNothing
  PROVE  Wanted = {}
<1>1. PICK i \in DOMAIN filters : filters[i].type = "FileCodeIn" /\ filters[i].codes = {}
  BY DEF SelectsNothing
<1>2. ASSUME NEW r \in TableRows PROVE ~Means(i, r)
  BY <1>1 DEF Means, Matches
<1>3. QED
  BY <1>1, <1>2, WantedMeans

LEMMA RowsByIndex ==
  ASSUME Given, kind # "Float64", NEW m \in Morsels, NEW r \in RowsOf(m)
  PROVE  r \in RowsLeft(m, Len(filters) + 1) <=>
           \A i \in DOMAIN filters : Searched(filters[i]) => Means(i, r)
<1>1. Len(filters) \in Nat /\ DOMAIN filters = 1 .. Len(filters)
  BY DEF Given
<1>2. 1 .. (Len(filters) + 1) - 1 = DOMAIN filters
  BY <1>1
<1>3. r \in RowsLeft(m, Len(filters) + 1) <=>
        \A i \in DOMAIN filters : Searched(filters[i]) => r \in IndexRows(filters[i])
  BY <1>2 DEF RowsLeft
<1>4. r \in TableRows
  BY Places
<1>5. QED
  BY <1>3, <1>4, IndexRowsMatch DEF Means

\* The state of the rows after one step of the scan.
LEMMA RowsInvStep ==
  ASSUME TypeInv, TypeInv', RowsInv, ~ZonesMisread, kind # "Float64", FilterNext
  PROVE  RowsInv'
<1>1. /\ Given /\ Len(filters) \in Nat /\ DOMAIN filters = 1 .. Len(filters)
      /\ Len(Layout) \in Nat /\ Morsels = 1 .. Len(Layout)
      /\ morsel \in 1 .. Len(Layout) + 1 /\ step \in 0 .. Len(filters) + 1
      /\ morsel \in Morsels => mask \subseteq RowsOf(morsel) /\ RowsOf(morsel) \subseteq TableRows
  BY Places DEF TypeInv, FilterTypeOK, Given
<1>2. /\ kind' = kind /\ table' = table /\ meta' = meta /\ filters' = filters
      /\ Wanted' = Wanted /\ (SelectsNothing' <=> SelectsNothing)
      /\ \A f : IndexCovered(f)' <=> IndexCovered(f)
      /\ \A i, r : Means(i, r)' <=> Means(i, r)
  BY <1>1, QueryKept, KeptIsGiven DEF Kept, Means
<1>3. ASSUME UNCHANGED <<morsel, step, byLookup, mask>> PROVE MaskRight'
  BY <1>2, <1>3 DEF RowsInv, MaskRight, RowsOf
<1>4. ASSUME UNCHANGED <<morsel, answer>> PROVE AnswerRight'
  BY <1>2, <1>4 DEF RowsInv, AnswerRight, RowsOf
<1>5. ASSUME outcome' # "done" PROVE DoneRight'
  BY <1>5 DEF DoneRight
<1>6. outcome = "scanning" /\ ~FinishQuery => outcome' # "done"
  BY DEF FilterNext, SkipMorsel, StartRows, SkipFilter, ApplyFilter, FailFilter, DeliverRows
<1>7. outcome = "scanning"
  BY DEF FilterNext, FinishQuery, SkipMorsel, StartRows, SkipFilter, ApplyFilter, FailFilter,
         DeliverRows, Scanning
<1>8. CASE FinishQuery
  <2>1. DoneRight'
    BY <1>2, <1>8 DEF FinishQuery, DoneRight
  <2>2. QED
    BY <1>3, <1>4, <1>8, <2>1 DEF FinishQuery, RowsInv
<1>9. CASE SkipMorsel
  <2>1. /\ morsel \in Morsels /\ step = 0 /\ MorselPruned(morsel)
        /\ morsel' = morsel + 1 /\ step' = step /\ answer' = answer /\ outcome' = outcome
    BY <1>9 DEF SkipMorsel, Scanning
  <2>2. RowsOf(morsel) \cap Wanted = {}
    BY <1>1, <2>1, PrunedHoldsNothing
  <2>3. AnswerRight'
    <3>1. \A m \in Morsels : m < morsel + 1 => m < morsel \/ m = morsel
      BY <1>1
    <3>2. QED
      BY <1>2, <2>1, <2>2, <3>1 DEF RowsInv, AnswerRight, RowsOf
  <2>4. MaskRight'
    BY <2>1 DEF MaskRight
  <2>5. QED
    BY <1>5, <1>7, <2>1, <2>3, <2>4 DEF RowsInv
<1>10. CASE StartRows
  <2>1. /\ morsel \in Morsels /\ ~SelectsNothing /\ morsel' = morsel /\ step' = 1
        /\ answer' = answer /\ outcome' = outcome
        /\ mask' = IF byLookup' THEN RowsLeft(morsel, Len(filters) + 1) ELSE RowsOf(morsel)
    BY <1>10 DEF StartRows, Scanning
  <2>2. Wanted \cap RowsOf(morsel) \subseteq mask'
    <3>1. ASSUME NEW r \in Wanted \cap RowsOf(morsel), byLookup' PROVE r \in mask'
      <4>1. \A i \in DOMAIN filters : Means(i, r)
        BY WantedMeans
      <4>2. r \in RowsLeft(morsel, Len(filters) + 1)
        BY <1>1, <2>1, <4>1, RowsByIndex
      <4>3. QED
        BY <2>1, <3>1, <4>2
    <3>2. QED
      BY <2>1, <3>1
  <2>3. ASSUME NEW i \in DOMAIN filters, byLookup', IndexCovered(filters[i]), NEW r \in mask'
        PROVE  Means(i, r)
    <3>1. r \in RowsLeft(morsel, Len(filters) + 1) /\ r \in RowsOf(morsel)
      BY <2>1, <2>3 DEF RowsLeft
    <3>2. Searched(filters[i])
      BY <1>1, <2>1, <2>3, CoveredIsSearched
    <3>3. QED
      BY <1>1, <2>1, <3>1, <3>2, RowsByIndex
  <2>4. MaskRight'
    <3>1. \A i \in DOMAIN filters : ~ (i < 1)
      BY <1>1
    <3>2. QED
      BY <1>2, <2>1, <2>2, <2>3, <3>1 DEF MaskRight, RowsOf
  <2>5. QED
    BY <1>4, <1>5, <1>7, <2>1, <2>4 DEF RowsInv
<1>11. CASE SkipFilter
  <2>1. /\ morsel \in Morsels /\ step \in DOMAIN filters /\ Skipped(filters[step]) /\ step' = step + 1
        /\ UNCHANGED <<morsel, byLookup, mask, answer, outcome>>
    BY <1>11 DEF SkipFilter, Scanning
  <2>2. filters[step].type = "Null" \/ (byLookup /\ IndexCovered(filters[step]))
    BY <2>1 DEF Skipped
  <2>3. MaskRight'
    <3>1. step > 0 /\ \A i \in DOMAIN filters : i < step + 1 => i < step \/ i = step
      BY <1>1, <2>1
    <3>2. QED
      BY <1>2, <2>1, <2>2, <3>1 DEF RowsInv, MaskRight, RowsOf
  <2>4. QED
    BY <1>4, <1>5, <1>7, <2>1, <2>3 DEF RowsInv
<1>12. CASE ApplyFilter
  <2> DEFINE f == filters[step]
  <2>1. /\ morsel \in Morsels /\ step \in DOMAIN filters /\ ~Skipped(f) /\ ~CannotEvaluate(f)
        /\ step' = step + 1 /\ mask' = {r \in mask : Keeps(f, table[r][f.col])}
        /\ UNCHANGED <<morsel, byLookup, answer, outcome>>
    BY <1>12 DEF ApplyFilter, Scanning
  <2>2. step > 0 /\ \A i \in DOMAIN filters : i < step + 1 => i < step \/ i = step
    BY <1>1, <2>1
  <2>3. \A r \in mask : r \in mask' <=> Means(step, r)
    <3> SUFFICES ASSUME NEW r \in mask PROVE r \in mask' <=> Means(step, r)
      OBVIOUS
    <3>1. r \in TableRows /\ f.type # "Null" /\ (f.type = "Numeric" => Comparable(table[r][f.col]))
      BY <1>1, <2>1 DEF Skipped, CannotEvaluate
    <3>2. Keeps(f, table[r][f.col]) <=> Matches(f, table[r][f.col])
      BY <1>1, <2>1, <3>1, KeepsWhatMatches
    <3>3. QED
      BY <2>1, <3>2 DEF Means
  <2>4. mask' \subseteq mask
    BY <2>1
  <2> HIDE DEF f
  <2>5. Wanted \cap RowsOf(morsel) \subseteq mask'
    <3>1. Wanted \cap RowsOf(morsel) \subseteq mask
      BY <2>1, <2>2 DEF RowsInv, MaskRight
    <3>2. \A r \in Wanted : Means(step, r)
      BY <2>1, WantedMeans
    <3>3. QED
      BY <2>3, <3>1, <3>2
  <2>6. MaskRight'
    <3>1. /\ ~SelectsNothing
          /\ \A i \in DOMAIN filters :
                /\ filters[i].type # "Null"
                /\ i < step \/ (byLookup /\ IndexCovered(filters[i]))
                => \A r \in mask : Means(i, r)
      BY <2>1, <2>2 DEF RowsInv, MaskRight
    <3>2. \A i \in DOMAIN filters :
                /\ filters[i].type # "Null"
                /\ i < step + 1 \/ (byLookup /\ IndexCovered(filters[i]))
                => \A r \in mask' : Means(i, r)
      BY <2>2, <2>3, <2>4, <3>1
    <3>3. QED
      BY <1>2, <2>1, <2>5, <3>1, <3>2 DEF MaskRight, RowsOf
  <2>7. QED
    BY <1>4, <1>5, <1>7, <2>1, <2>6 DEF RowsInv
<1>13. CASE FailFilter
  BY <1>3, <1>4, <1>5, <1>13 DEF FailFilter, RowsInv
<1>14. CASE DeliverRows
  <2>1. /\ morsel \in Morsels /\ step > 0 /\ (mask = {} \/ step > Len(filters))
        /\ answer' = answer \cup {r \in mask : Residual(r)} /\ morsel' = morsel + 1 /\ step' = 0
        /\ outcome' = outcome
    BY <1>14 DEF DeliverRows, Scanning
  <2>2. \A r \in mask : Residual(r) <=> r \in Wanted
    <3> SUFFICES ASSUME NEW r \in mask PROVE Residual(r) <=> r \in Wanted
      OBVIOUS
    <3>1. \A i \in DOMAIN filters : i < step
      BY <1>1, <2>1
    <3>2. \A i \in DOMAIN filters : filters[i].type # "Null" => Means(i, r)
      BY <2>1, <3>1 DEF RowsInv, MaskRight
    <3>3. Residual(r) <=> \A i \in DOMAIN filters : filters[i].type = "Null" => Means(i, r)
      BY DEF Residual, Means
    <3>4. r \in TableRows
      BY <1>1, <2>1
    <3>5. QED
      BY <3>2, <3>3, <3>4, WantedMeans
  <2>3. Wanted \cap RowsOf(morsel) \subseteq mask
    BY <2>1 DEF RowsInv, MaskRight
  <2>4. answer' \subseteq Wanted /\ RowsOf(morsel) \cap Wanted \subseteq answer' /\ answer \subseteq answer'
    BY <2>1, <2>2, <2>3 DEF RowsInv, AnswerRight
  <2>5. AnswerRight'
    <3>1. \A m \in Morsels : m < morsel + 1 => m < morsel \/ m = morsel
      BY <1>1
    <3>2. QED
      BY <1>2, <2>1, <2>4, <3>1 DEF RowsInv, AnswerRight, RowsOf
  <2>6. MaskRight'
    BY <2>1 DEF MaskRight
  <2>7. QED
    BY <1>5, <1>7, <2>1, <2>5, <2>6 DEF RowsInv
<1>15. QED
  BY <1>8, <1>9, <1>10, <1>11, <1>12, <1>13, <1>14 DEF FilterNext

LEMMA ExactInvInit == FilterInit => ExactInv
<1> SUFFICES ASSUME FilterInit PROVE ExactInv
  OBVIOUS
<1>1. step = 0 /\ answer = {} /\ morsel = 1 /\ outcome = "scanning"
  BY DEF FilterInit
<1>2. \A m \in Morsels : ~ (m < 1)
  BY Places
<1>3. RowsInv
  BY <1>1, <1>2 DEF RowsInv, MaskRight, AnswerRight, DoneRight
<1>4. QED
  BY <1>3, TypeInvInit DEF ExactInv

LEMMA ExactInvStep == ExactInv /\ [FilterNext]_filterVars => ExactInv'
<1> SUFFICES ASSUME ExactInv, [FilterNext]_filterVars PROVE ExactInv'
  OBVIOUS
<1>1. TypeInv /\ TypeInv'
  BY TypeInvStep DEF ExactInv
<1>2. (ZonesMisread' <=> ZonesMisread) /\ kind' = kind
  BY <1>1, QueryKept, KeptIsGiven DEF TypeInv, Kept
<1>3. SUFFICES ASSUME ~ZonesMisread, kind # "Float64" PROVE RowsInv'
  BY <1>1, <1>2 DEF ExactInv
<1>4. RowsInv
  BY <1>3 DEF ExactInv
<1>5. CASE FilterNext
  BY <1>1, <1>3, <1>4, <1>5, RowsInvStep
<1>6. CASE UNCHANGED filterVars
  <2>1. /\ Wanted' = Wanted /\ (SelectsNothing' <=> SelectsNothing)
        /\ \A f : IndexCovered(f)' <=> IndexCovered(f)
    BY <1>1, QueryKept, KeptIsGiven DEF TypeInv
  <2>2. QED
    BY <1>4, <1>6, <2>1 DEF filterVars, RowsInv, MaskRight, AnswerRight, DoneRight, Means, RowsOf
<1>7. QED
  BY <1>5, <1>6

LEMMA ExactlyWanted ==
  ASSUME ExactInv, ~ZonesMisread
  PROVE  IntegerAnswersExact
<1> SUFFICES ASSUME kind # "Float64", outcome = "done" PROVE answer = Wanted
  BY DEF IntegerAnswersExact, AnswersUnchanged
<1>1. AnswerRight /\ DoneRight /\ Given
  BY DEF ExactInv, RowsInv, TypeInv
<1>2. CASE SelectsNothing
  BY <1>1, <1>2, NothingSelected DEF AnswerRight
<1>3. CASE morsel \notin Morsels
  <2>1. \A m \in Morsels : m < morsel
    BY <1>3, Places DEF ExactInv, TypeInv, FilterTypeOK
  <2>2. Wanted \subseteq UNION {RowsOf(m) : m \in Morsels}
    BY DEF Wanted, TableRows
  <2>3. QED
    BY <1>1, <2>1, <2>2 DEF AnswerRight
<1>4. QED
  BY <1>1, <1>2, <1>3 DEF DoneRight

\* A query over integers and file codes answers with exactly the rows it asks
\* for, whatever metadata the file has, in whatever order its filters are
\* tried, and whichever of them an index answers: what README.md calls
\* advisory metadata does not change the result.
THEOREM IntegerQueriesExact == FilterSpec => [](~ZonesMisread => IntegerAnswersExact)
<1>1. ExactInv => (~ZonesMisread => IntegerAnswersExact)
  BY ExactlyWanted
<1>2. QED
  BY <1>1, ExactInvInit, ExactInvStep, PTL DEF FilterSpec

------------------------------------------------------------------------------
(* Reads: the order of planning                                             *)

StartOf(i) == ranges[i].start
EndOf(i) == ranges[i].end
PlaceOf(i) == <<ranges[i].start, ranges[i].end, i>>

\* Within a cluster: by start, then by end, then as asked for.
Earlier(i, j) ==
  \/ StartOf(i) < StartOf(j)
  \/ StartOf(i) = StartOf(j) /\ EndOf(i) < EndOf(j)
  \/ StartOf(i) = StartOf(j) /\ EndOf(i) = EndOf(j) /\ i < j

InputsOK ==
  /\ ranges \in Seq(ByteRange)
  /\ hints \in Seq(Cluster \cup {NoHint})
  /\ byLayout \in BOOLEAN
  /\ byLayout => Len(hints) = Len(ranges)

LEMMA RangeTyped ==
  ASSUME InputsOK, NEW i \in DOMAIN ranges
  PROVE  /\ i \in Nat /\ StartOf(i) \in Nat /\ EndOf(i) \in Nat
         /\ Hint(i) \in Cluster \cup {NoHint}
         /\ Hint(i) # NoHint => Hint(i).start \in Nat
<1>1. ranges[i] \in ByteRange /\ i \in 1..Len(ranges)
  BY DEF InputsOK
<1>2. Hint(i) \in Cluster \cup {NoHint}
  BY <1>1 DEF InputsOK, Hint
<1>3. QED
  BY <1>1, <1>2 DEF ByteRange, Cluster, StartOf, EndOf

LEMMA LexIsEarlier ==
  ASSUME NEW i, NEW j
  PROVE  (\E n \in 1 .. 3 : /\ PlaceOf(i)[n] < PlaceOf(j)[n]
                            /\ \A m \in 1 .. n - 1 : PlaceOf(i)[m] = PlaceOf(j)[m])
           <=> Earlier(i, j)
<1>1. /\ PlaceOf(i)[1] = StartOf(i) /\ PlaceOf(i)[2] = EndOf(i) /\ PlaceOf(i)[3] = i
      /\ PlaceOf(j)[1] = StartOf(j) /\ PlaceOf(j)[2] = EndOf(j) /\ PlaceOf(j)[3] = j
  BY DEF PlaceOf, StartOf, EndOf
<1> DEFINE L(n) == /\ PlaceOf(i)[n] < PlaceOf(j)[n]
                   /\ \A m \in 1 .. n - 1 : PlaceOf(i)[m] = PlaceOf(j)[m]
<1>2. /\ 1 .. 3 = {1, 2, 3}
      /\ 1 .. 1 - 1 = {} /\ 1 .. 2 - 1 = {1} /\ 1 .. 3 - 1 = {1, 2}
  OBVIOUS
<1>3. /\ L(1) <=> StartOf(i) < StartOf(j)
      /\ L(2) <=> EndOf(i) < EndOf(j) /\ StartOf(i) = StartOf(j)
      /\ L(3) <=> i < j /\ StartOf(i) = StartOf(j) /\ EndOf(i) = EndOf(j)
  BY <1>1, <1>2
<1> HIDE DEF L
<1>4. (\E n \in 1 .. 3 : L(n)) <=> L(1) \/ L(2) \/ L(3)
  BY <1>2
<1>5. QED
  BY <1>3, <1>4 DEF L, Earlier

LEMMA BeforeMeans ==
  ASSUME NEW i, NEW j
  PROVE  Before(i, j) <=>
           \/ Hint(i) = NoHint /\ Hint(j) = NoHint /\ Earlier(i, j)
           \/ Hint(i) # NoHint /\ Hint(j) = NoHint
           \/ /\ Hint(i) # NoHint /\ Hint(j) # NoHint
              /\ \/ Hint(i).start < Hint(j).start
                 \/ Hint(i).start = Hint(j).start /\ Earlier(i, j)
<1> DEFINE less == \E n \in 1 .. 3 : /\ PlaceOf(i)[n] < PlaceOf(j)[n]
                                     /\ \A m \in 1 .. n - 1 : PlaceOf(i)[m] = PlaceOf(j)[m]
<1>1. less <=> Earlier(i, j)
  BY LexIsEarlier
<1>2. Before(i, j) = CASE Hint(i) = NoHint /\ Hint(j) = NoHint -> less
                       [] Hint(i) = NoHint /\ Hint(j) # NoHint -> FALSE
                       [] Hint(i) # NoHint /\ Hint(j) = NoHint -> TRUE
                       [] OTHER -> Hint(i).start < Hint(j).start
                                     \/ (Hint(i).start = Hint(j).start /\ less)
  BY DEF Before, PlaceOf
<1> HIDE DEF less
<1>3. QED
  BY <1>1, <1>2

\* Of ranges that differ in no cluster, one is planned first.
LEMMA EarliestExists ==
  ASSUME InputsOK, NEW W, W # {}, W \subseteq DOMAIN ranges
  PROVE  \E i \in W : \A j \in W \ {i} : Earlier(i, j)
<1>1. \A i \in W : i \in Nat /\ StartOf(i) \in Nat /\ EndOf(i) \in Nat
  BY RangeTyped
<1>2. PICK a \in W : \A j \in W : StartOf(a) <= StartOf(j)
  <2>1. {StartOf(j) : j \in W} \subseteq Nat /\ {StartOf(j) : j \in W} # {}
    BY <1>1
  <2>2. PICK x \in {StartOf(j) : j \in W} : \A y \in {StartOf(j) : j \in W} : x <= y
    BY <2>1, NatMin
  <2>3. QED
    BY <2>2
<1> DEFINE A == {j \in W : StartOf(j) = StartOf(a)}
<1>3. PICK b \in A : \A j \in A : EndOf(b) <= EndOf(j)
  <2>1. {EndOf(j) : j \in A} \subseteq Nat /\ {EndOf(j) : j \in A} # {}
    BY <1>1
  <2>2. PICK x \in {EndOf(j) : j \in A} : \A y \in {EndOf(j) : j \in A} : x <= y
    BY <2>1, NatMin
  <2>3. QED
    BY <2>2
<1> DEFINE B == {j \in A : EndOf(j) = EndOf(b)}
<1>4. PICK c \in B : \A j \in B : c <= j
  <2>1. B \subseteq Nat /\ B # {}
    BY <1>1
  <2>2. QED
    BY <2>1, NatMin
<1>5. c \in W /\ StartOf(c) = StartOf(a) /\ EndOf(c) = EndOf(b)
  OBVIOUS
<1>6. ASSUME NEW j \in W \ {c} PROVE Earlier(c, j)
  <2>1. StartOf(a) <= StartOf(j)
    BY <1>2
  <2>2. StartOf(j) = StartOf(a) => EndOf(b) <= EndOf(j)
    BY <1>3
  <2>3. StartOf(j) = StartOf(a) /\ EndOf(j) = EndOf(b) => c <= j
    BY <1>4
  <2>4. QED
    BY <1>1, <1>5, <2>1, <2>2, <2>3 DEF Earlier
<1>7. QED
  BY <1>5, <1>6

\* While ranges wait, one of them is before all others.
LEMMA NextRangeIsNext ==
  ASSUME InputsOK, Waiting # {}
  PROVE  NextRange \in Waiting /\ \A j \in Waiting \ {NextRange} : Before(NextRange, j)
<1> DEFINE H == {i \in Waiting : Hint(i) # NoHint}
<1>1. Waiting \subseteq DOMAIN ranges
  BY DEF Waiting
<1>2. \A i \in Waiting : /\ Hint(i) \in Cluster \cup {NoHint}
                         /\ Hint(i) # NoHint => Hint(i).start \in Nat
  BY <1>1, RangeTyped
<1>3. CASE H = {}
  <2>1. PICK i \in Waiting : \A j \in Waiting \ {i} : Earlier(i, j)
    BY <1>1, EarliestExists
  <2>2. \A j \in Waiting \ {i} : Before(i, j)
    BY <1>3, <2>1, BeforeMeans
  <2>3. QED
    BY <2>1, <2>2 DEF NextRange
<1>4. CASE H # {}
  <2>1. PICK a \in H : \A j \in H : Hint(a).start <= Hint(j).start
    <3>1. {Hint(j).start : j \in H} \subseteq Nat /\ {Hint(j).start : j \in H} # {}
      BY <1>2, <1>4
    <3>2. PICK x \in {Hint(j).start : j \in H} : \A y \in {Hint(j).start : j \in H} : x <= y
      BY <3>1, NatMin
    <3>3. QED
      BY <3>2
  <2> DEFINE A == {j \in H : Hint(j).start = Hint(a).start}
  <2>2. PICK i \in A : \A j \in A \ {i} : Earlier(i, j)
    <3>1. A # {} /\ A \subseteq DOMAIN ranges
      BY <1>1
    <3> HIDE DEF A
    <3>2. QED
      BY <3>1, EarliestExists
  <2>3. ASSUME NEW j \in Waiting \ {i} PROVE Before(i, j)
    <3>1. CASE j \notin H
      BY <2>2, <3>1, BeforeMeans
    <3>2. CASE j \in H /\ j \notin A
      <4>1. Hint(i).start < Hint(j).start
        BY <1>2, <2>1, <2>2, <3>2
      <4>2. QED
        BY <2>2, <3>2, <4>1, BeforeMeans
    <3>3. CASE j \in A
      BY <2>2, <3>3, <2>3, BeforeMeans
    <3>4. QED
      BY <3>1, <3>2, <3>3
  <2>4. i \in Waiting
    OBVIOUS
  <2>5. QED
    BY <2>3, <2>4 DEF NextRange
<1>5. QED
  BY <1>3, <1>4

\* What a caller is given of a read that contains its range.
LEMMA SliceIsRange ==
  ASSUME NEW read, NEW range, read.start \in Nat, read.end \in Nat,
         range.start \in Nat, range.end \in Nat,
         read.start <= range.start, range.end <= read.end
  PROVE  SliceOf(read, range) = range.start .. (range.end - 1)
<1> DEFINE O == (range.start - read.start) .. (range.end - read.start - 1)
           S == {read.start + o : o \in O} \cap read.start .. (read.end - 1)
<1>1. ASSUME NEW x \in S PROVE x \in range.start .. (range.end - 1)
  <2>1. PICK o \in O : x = read.start + o
    OBVIOUS
  <2>2. QED
    BY <2>1
<1>2. ASSUME NEW x \in range.start .. (range.end - 1) PROVE x \in S
  <2>1. x - read.start \in O /\ x = read.start + (x - read.start)
    OBVIOUS
  <2>2. x \in read.start .. (read.end - 1)
    OBVIOUS
  <2>3. QED
    BY <2>1, <2>2
<1> HIDE DEF S
<1>3. QED
  BY <1>1, <1>2 DEF S, SliceOf

------------------------------------------------------------------------------
(* Reads: the inductive invariant                                           *)

Read == [start : Nat, end : Nat, members : SUBSET Nat]

\* A read holds ranges of one cluster, wholly, and starts with one of them; of
\* several, it keeps to the largest span and to the cluster.
ReadOK(read) ==
  /\ read.members # {} /\ read.members \subseteq DOMAIN ranges
  /\ \A i \in read.members : read.start <= StartOf(i) /\ EndOf(i) <= read.end
  /\ \E i \in read.members : read.start = StartOf(i)
  /\ \A i, j \in read.members : Hint(i) = Hint(j)
  /\ \/ \E i : read.members = {i}
     \/ /\ read.end - read.start <= MaxSpan
        /\ \A i \in read.members : Within(read, Hint(i))

\* Reads are planned in order: what is in one comes before what waits.
PlanOK ==
  /\ groups \in Seq(Read)
  /\ \A g \in DOMAIN groups : ReadOK(groups[g])
  /\ \A g, h \in DOMAIN groups : g # h => groups[g].members \cap groups[h].members = {}
  /\ \A i \in Grouped, j \in Waiting : Before(i, j)

RangeInv ==
  /\ InputsOK
  /\ planning \in {"idle", "grouping", "done", "failed"}
  /\ PlanOK
  /\ OwnBytes

LEMMA RangeInvInit == RangeInit => RangeInv
<1> SUFFICES ASSUME RangeInit PROVE RangeInv
  OBVIOUS
<1>1. ranges \in Seq(ByteRange) /\ hints \in Seq(Cluster \cup {NoHint})
  BY RangeAssumption DEF RangeInit
<1>2. InputsOK
  BY <1>1 DEF RangeInit, InputsOK
<1>3. groups = <<>> /\ Grouped = {}
  BY DEF RangeInit, Grouped
<1>4. PlanOK
  BY <1>3 DEF PlanOK
<1>5. QED
  BY <1>2, <1>4 DEF RangeInit, RangeInv, OwnBytes

LEMMA LastGroupTyped ==
  ASSUME PlanOK, groups # <<>>
  PROVE  /\ Len(groups) \in DOMAIN groups
         /\ LastGroup \in Read /\ ReadOK(LastGroup)
<1>1. groups \in Seq(Read)
  BY DEF PlanOK
<1>2. Len(groups) \in DOMAIN groups
  BY <1>1
<1>3. QED
  BY <1>1, <1>2 DEF PlanOK, LastGroup

\* A range that joins comes after the first of the read, so the read still
\* starts with it; it ends with the range that ends last.
LEMMA MergedOK ==
  ASSUME InputsOK, PlanOK, NEW i \in Waiting, Joins(i), ranges[i].start <= ranges[i].end
  PROVE  /\ Merged(i) \in Read /\ ReadOK(Merged(i))
         /\ Merged(i).members = LastGroup.members \cup {i}
<1> DEFINE last == LastGroup
           new == Merged(i)
<1>1. groups # <<>> /\ HintOfLast = Hint(i) /\ Within(new, Hint(i))
      /\ new.end - new.start <= SpanOf(Hint(i))
  BY DEF Joins
<1>2. last \in Read /\ ReadOK(last) /\ Len(groups) \in DOMAIN groups
  BY <1>1, LastGroupTyped
<1>3. i \in DOMAIN ranges /\ i \in Nat /\ StartOf(i) \in Nat /\ EndOf(i) \in Nat
  BY RangeTyped DEF Waiting
<1>4. /\ new \in Read
      /\ new.start = last.start
      /\ new.end = Larger(last.end, EndOf(i))
      /\ new.members = last.members \cup {i}
  BY <1>2, <1>3 DEF Merged, Read, Larger, EndOf
<1>5. \A j \in last.members : Hint(j) = Hint(i)
  <2>1. (CHOOSE j \in last.members : TRUE) \in last.members
    BY <1>2 DEF ReadOK
  <2>2. QED
    BY <1>1, <1>2, <2>1 DEF HintOfLast, ReadOK
<1>6. PICK first \in last.members : last.start = StartOf(first)
  BY <1>2 DEF ReadOK
<1>7. first \in DOMAIN ranges /\ StartOf(first) \in Nat /\ EndOf(first) \in Nat
  BY <1>2, RangeTyped DEF ReadOK
<1>8. StartOf(first) <= StartOf(i)
  <2>1. Before(first, i)
    BY <1>2 DEF PlanOK, Grouped, LastGroup
  <2>2. Hint(first) = Hint(i) /\ (Hint(i) # NoHint => Hint(i).start \in Nat)
    BY <1>3, <1>5, RangeTyped
  <2>3. Earlier(first, i)
    BY <2>1, <2>2, BeforeMeans
  <2>4. QED
    BY <1>3, <1>7, <2>3 DEF Earlier
<1>9. ASSUME NEW j \in new.members PROVE new.start <= StartOf(j) /\ EndOf(j) <= new.end
  <2>1. last.start \in Nat /\ last.end \in Nat
    BY <1>2 DEF Read
  <2>2. CASE j = i
    BY <1>3, <1>4, <1>6, <1>7, <1>8, <2>1, <2>2 DEF Larger
  <2>3. CASE j \in last.members
    <3>1. last.start <= StartOf(j) /\ EndOf(j) <= last.end /\ j \in DOMAIN ranges
      BY <1>2, <2>3 DEF ReadOK
    <3>2. EndOf(j) \in Nat
      BY <3>1, RangeTyped
    <3>3. QED
      BY <1>3, <1>4, <2>1, <3>1, <3>2 DEF Larger
  <2>4. QED
    BY <1>4, <2>2, <2>3
<1>10. new.end - new.start <= MaxSpan
  <2>1. Hint(i) \in Cluster \cup {NoHint} /\ MaxSpan \in Nat
    BY <1>3, RangeTyped, RangeAssumption
  <2>2. SpanOf(Hint(i)) \in Int /\ SpanOf(Hint(i)) <= MaxSpan
    BY <2>1 DEF SpanOf, Smaller, Cluster
  <2>3. new.end \in Nat /\ new.start \in Nat
    BY <1>4 DEF Read
  <2>4. QED
    BY <1>1, <2>1, <2>2, <2>3
<1>11. new.members # {} /\ new.members \subseteq DOMAIN ranges
  BY <1>2, <1>3, <1>4 DEF ReadOK
<1>12. \A j \in new.members : Hint(j) = Hint(i)
  BY <1>4, <1>5
<1>13. \E j \in new.members : new.start = StartOf(j)
  BY <1>4, <1>6
<1> HIDE DEF new
<1>14. ReadOK(new)
  BY <1>1, <1>9, <1>10, <1>11, <1>12, <1>13 DEF ReadOK
<1>15. QED
  BY <1>4, <1>14 DEF new

\* One more range is in a read, the rest of the plan is as it was.
LEMMA NewReadOK ==
  ASSUME InputsOK, PlanOK, NEW i \in Waiting, \A j \in Waiting \ {i} : Before(i, j),
         UNCHANGED <<ranges, hints, byLayout>>,
         groups' \in Seq(Read),
         NEW last \in DOMAIN groups',
         DOMAIN groups' = DOMAIN groups \cup {last},
         ReadOK(groups'[last]),
         groups'[last].members = {i} \cup (IF last \in DOMAIN groups THEN groups[last].members ELSE {}),
         \A g \in DOMAIN groups : g # last => groups'[g] = groups[g]
  PROVE  PlanOK'
<1>1. /\ \A j : Hint(j)' = Hint(j) /\ StartOf(j)' = StartOf(j) /\ EndOf(j)' = EndOf(j)
      /\ \A j, k : Before(j, k)' <=> Before(j, k)
  BY DEF Hint, StartOf, EndOf, Before
<1>2. \A read : ReadOK(read)' <=> ReadOK(read)
  BY <1>1 DEF ReadOK, Within
<1>3. \A g \in DOMAIN groups' : ReadOK(groups'[g])
  BY DEF PlanOK
<1>4. i \in DOMAIN ranges /\ \A g \in DOMAIN groups : i \notin groups[g].members
  BY DEF Waiting, Grouped
<1>5. \A g \in DOMAIN groups' :
        groups'[g].members = (IF g \in DOMAIN groups THEN groups[g].members ELSE {})
                               \cup (IF g = last THEN {i} ELSE {})
  OBVIOUS
<1>6. ASSUME NEW g \in DOMAIN groups', NEW h \in DOMAIN groups', g # h
      PROVE  groups'[g].members \cap groups'[h].members = {}
  BY <1>4, <1>5, <1>6 DEF PlanOK
<1>7. Grouped' = Grouped \cup {i}
  BY <1>5 DEF Grouped
<1>8. Waiting' = Waiting \ {i}
  BY <1>7 DEF Waiting
<1>9. \A j \in Grouped', k \in Waiting' : Before(j, k)'
  BY <1>1, <1>7, <1>8 DEF PlanOK
<1>10. QED
  BY <1>2, <1>3, <1>6, <1>9 DEF PlanOK

LEMMA RangeInvStep == RangeInv /\ [RangeNext]_rangeVars => RangeInv'
<1> SUFFICES ASSUME RangeInv, [RangeNext]_rangeVars PROVE RangeInv'
  OBVIOUS
<1>1. InputsOK /\ PlanOK
  BY DEF RangeInv
<1>2. ASSUME UNCHANGED <<ranges, hints, byLayout>> PROVE InputsOK'
  BY <1>1, <1>2 DEF InputsOK
<1>3. ASSUME UNCHANGED <<ranges, hints, byLayout, groups>> PROVE PlanOK'
  <2>1. /\ \A j : Hint(j)' = Hint(j) /\ StartOf(j)' = StartOf(j) /\ EndOf(j)' = EndOf(j)
        /\ \A j, k : Before(j, k)' <=> Before(j, k)
    BY <1>3 DEF Hint, StartOf, EndOf, Before
  <2>2. \A read : ReadOK(read)' <=> ReadOK(read)
    BY <1>3, <2>1 DEF ReadOK, Within
  <2>3. Grouped' = Grouped /\ Waiting' = Waiting
    BY <1>3 DEF Grouped, Waiting
  <2>4. QED
    BY <1>1, <1>3, <2>1, <2>2, <2>3 DEF PlanOK
<1> DEFINE i == NextRange
<1>4. ASSUME Grouping
      PROVE  /\ i \in Waiting /\ \A j \in Waiting \ {i} : Before(i, j)
             /\ ranges[i].start <= ranges[i].end
             /\ ranges[i] \in ByteRange /\ i \in Nat
             /\ planning = "grouping"
  <2>1. i \in Waiting /\ \A j \in Waiting \ {i} : Before(i, j)
    BY <1>1, <1>4, NextRangeIsNext DEF Grouping
  <2>2. i \in DOMAIN ranges /\ ranges[i] \in ByteRange /\ i \in Nat
    BY <1>1, <2>1 DEF Waiting, InputsOK
  <2>3. ranges[i].start <= ranges[i].end
    BY <1>4, <2>2 DEF Grouping, Backwards, ByteRange
  <2>4. QED
    BY <1>4, <2>1, <2>2, <2>3 DEF Grouping
<1>5. CASE RejectRange
  BY <1>2, <1>3, <1>5 DEF RejectRange, RangeInv, OwnBytes
<1>6. CASE ForgetLayout
  <2>1. /\ UNCHANGED <<ranges, hints, slices, planning>>
        /\ byLayout' = FALSE /\ groups' = <<>> /\ Grouping
    BY <1>6 DEF ForgetLayout
  <2>2. InputsOK'
    BY <1>1, <2>1 DEF InputsOK
  <2>3. Grouped' = {}
    BY <2>1 DEF Grouped
  <2>4. PlanOK'
    BY <2>1, <2>3 DEF PlanOK
  <2>5. QED
    BY <1>4, <2>1, <2>2, <2>4 DEF RangeInv, OwnBytes
<1>7. CASE JoinRead
  <2> DEFINE last == Len(groups)
  <2>1. /\ UNCHANGED <<ranges, hints, byLayout, slices, planning>>
        /\ groups' = [groups EXCEPT ![last] = Merged(i)]
        /\ Grouping /\ Joins(i)
    BY <1>7 DEF JoinRead
  <2>2. /\ Merged(i) \in Read /\ ReadOK(Merged(i))
        /\ Merged(i).members = LastGroup.members \cup {i}
    BY <1>1, <1>4, <2>1, MergedOK
  <2>3. groups \in Seq(Read) /\ last \in DOMAIN groups
    BY <1>1, <2>1, LastGroupTyped DEF PlanOK, Joins
  <2>4. /\ groups' \in Seq(Read) /\ DOMAIN groups' = DOMAIN groups
        /\ groups'[last] = Merged(i)
        /\ \A g \in DOMAIN groups : g # last => groups'[g] = groups[g]
    BY <2>1, <2>2, <2>3
  <2>5. LastGroup = groups[last]
    BY DEF LastGroup
  <2> HIDE DEF last, i
  <2>6. PlanOK'
    BY <1>1, <1>4, <2>1, <2>2, <2>3, <2>4, <2>5, NewReadOK
  <2>7. QED
    BY <1>2, <1>4, <2>1, <2>6 DEF RangeInv, OwnBytes
<1>8. CASE StartRead
  <2> DEFINE last == Len(groups) + 1
             new == [start |-> ranges[i].start, end |-> ranges[i].end, members |-> {i}]
  <2>1. /\ UNCHANGED <<ranges, hints, byLayout, slices, planning>>
        /\ groups' = Append(groups, new)
        /\ Grouping
    BY <1>8 DEF StartRead
  <2>2. new \in Read /\ new.members = {i} /\ new.start = StartOf(i) /\ new.end = EndOf(i)
    BY <1>4, <2>1 DEF Read, ByteRange, StartOf, EndOf
  <2>3. i \in DOMAIN ranges /\ StartOf(i) \in Nat /\ EndOf(i) \in Nat
    BY <1>1, <1>4, <2>1, RangeTyped DEF Waiting
  <2> HIDE DEF new, i
  <2>4. ReadOK(new)
    BY <2>2, <2>3 DEF ReadOK
  <2>5. groups \in Seq(Read)
    BY <1>1 DEF PlanOK
  <2>6. /\ groups' \in Seq(Read) /\ last \in DOMAIN groups'
        /\ DOMAIN groups' = DOMAIN groups \cup {last} /\ last \notin DOMAIN groups
        /\ groups'[last] = new
        /\ \A g \in DOMAIN groups : g # last => groups'[g] = groups[g]
    BY <2>1, <2>2, <2>5
  <2> HIDE DEF last
  <2>7. PlanOK'
    BY <1>1, <1>4, <2>1, <2>2, <2>4, <2>6, NewReadOK
  <2>8. QED
    BY <1>2, <1>4, <2>1, <2>7 DEF RangeInv, OwnBytes
<1>9. CASE SliceReads
  <2>1. /\ UNCHANGED <<ranges, hints, byLayout, groups>> /\ planning' = "done"
        /\ Waiting = {}
        /\ slices' = [r \in DOMAIN ranges |->
                        LET g == CHOOSE g \in DOMAIN groups : r \in groups[g].members
                        IN  SliceOf(groups[g], ranges[r])]
    BY <1>9 DEF SliceReads
  <2>2. ASSUME NEW r \in DOMAIN ranges
        PROVE  slices'[r] = ranges[r].start .. (ranges[r].end - 1)
    <3> DEFINE g == CHOOSE g \in DOMAIN groups : r \in groups[g].members
    <3>1. slices'[r] = SliceOf(groups[g], ranges[r])
      BY <2>1
    <3>2. g \in DOMAIN groups /\ r \in groups[g].members
      BY <2>1 DEF Waiting, Grouped
    <3> HIDE DEF g
    <3>3. groups[g] \in Read /\ ReadOK(groups[g])
      BY <1>1, <3>2 DEF PlanOK
    <3>4. /\ groups[g].start \in Nat /\ groups[g].end \in Nat
          /\ groups[g].start <= ranges[r].start /\ ranges[r].end <= groups[g].end
      BY <3>2, <3>3 DEF Read, ReadOK, StartOf, EndOf
    <3>5. ranges[r].start \in Nat /\ ranges[r].end \in Nat
      BY <1>1, RangeTyped DEF StartOf, EndOf
    <3>6. QED
      BY <3>1, <3>4, <3>5, SliceIsRange
  <2>3. OwnBytes'
    BY <2>1, <2>2 DEF OwnBytes
  <2>4. QED
    BY <1>2, <1>3, <2>1, <2>3 DEF RangeInv
<1>10. CASE UNCHANGED rangeVars
  BY <1>2, <1>3, <1>10 DEF rangeVars, RangeInv, OwnBytes
<1>11. QED
  BY <1>5, <1>6, <1>7, <1>8, <1>9, <1>10 DEF RangeNext

------------------------------------------------------------------------------
(* Reads: theorems                                                          *)

LEMMA RangeInvTyped == RangeInv => RangeTypeOK
  BY DEF RangeInv, RangeTypeOK, PlanOK, InputsOK, ReadOK, Grouped

\* Reads keep to their types: no range is in two reads, and only ranges asked
\* for are in any (build_layout_aware_coalesced_range_plan places each once).
THEOREM RangeTypesHold == RangeSpec => []RangeTypeOK
  BY RangeInvTyped, RangeInvInit, RangeInvStep, PTL DEF RangeSpec

\* Every caller gets the bytes it asked for, whatever was read together with
\* them and whether or not the clusters were given up half-way (the slicing in
\* read_coalesced_range_buffers_for_plan stays within the read).
THEOREM EveryCallerOwnBytes == RangeSpec => []OwnBytes
<1>1. RangeInv => OwnBytes
  BY DEF RangeInv
<1>2. QED
  BY <1>1, RangeInvInit, RangeInvStep, PTL DEF RangeSpec

\* A read with several members was put together within the limits.
LEMMA ReadsAreBounded == RangeInv => ReadsBounded
<1> SUFFICES ASSUME RangeInv, NEW g \in DOMAIN groups, Cardinality(groups[g].members) > 1
             PROVE  /\ groups[g].end - groups[g].start <= MaxSpan
                    /\ \A i, j \in groups[g].members : Hint(i) = Hint(j)
                    /\ \A i \in groups[g].members : Within(groups[g], Hint(i))
  BY DEF ReadsBounded
<1>1. ReadOK(groups[g])
  BY DEF RangeInv, PlanOK
<1>2. ~ \E i : groups[g].members = {i}
  <2>1. SUFFICES ASSUME NEW i, groups[g].members = {i} PROVE FALSE
    OBVIOUS
  <2>2. Cardinality({i}) = 1
    BY FS_Singleton
  <2>3. QED
    BY <2>1, <2>2
<1>3. QED
  BY <1>1, <1>2 DEF ReadOK

\* A read of several ranges keeps to the largest span, joins ranges of one
\* cluster only and stays inside it, also after the clusters are given up
\* half-way (the limits hold for the whole read, not for the last range joined).
THEOREM JoinedReadsBounded == RangeSpec => []ReadsBounded
  BY ReadsAreBounded, RangeInvInit, RangeInvStep, PTL DEF RangeSpec

------------------------------------------------------------------------------
(* Sums over finite sets, in any order                                      *)

\* g gives every subset of S the sum of the weights w of its members: nothing
\* for the empty set, and the weight of a member more with than without it.
IsTotal(S, w, g) ==
    /\ g \in [SUBSET S -> Int]
    /\ g[{}] = 0
    /\ \A T \in SUBSET S : \A x \in S \ T : g[T \cup {x}] = w[x] + g[T]

\* A finite set of weights has sums: by its smallest subset that has none.
LEMMA TotalExists ==
  ASSUME NEW S, IsFiniteSet(S), NEW w, \A x \in S : w[x] \in Int
  PROVE  \E g : IsTotal(S, w, g)
<1> DEFINE Bad == {Cardinality(T) : T \in {T \in SUBSET S : ~ \E g : IsTotal(T, w, g)}}
<1>1. \A T \in SUBSET S : IsFiniteSet(T) /\ Cardinality(T) \in Nat
  BY FS_Subset, FS_CardinalityType
<1>2. ASSUME Bad # {} PROVE FALSE
  <2>1. Bad \subseteq Nat
    BY <1>1
  <2>2. PICK n \in Bad : \A k \in Bad : n <= k
    BY <1>2, <2>1, NatMin
  <2>3. PICK T \in SUBSET S : n = Cardinality(T) /\ ~ \E g : IsTotal(T, w, g)
    OBVIOUS
  <2>4. T # {}
    <3>1. IsTotal({}, w, [A \in SUBSET {} |-> 0])
      BY DEF IsTotal
    <3>2. QED
      BY <2>3, <3>1
  <2>5. PICK x \in T : TRUE
    BY <2>4
  <2> DEFINE U == T \ {x}
  <2>6. IsFiniteSet(T) /\ IsFiniteSet(U) /\ Cardinality(U) = n - 1
    BY <1>1, <2>3, FS_RemoveElement
  <2>7. \E g : IsTotal(U, w, g)
    <3>1. Cardinality(U) \notin Bad
      BY <2>1, <2>2, <2>6
    <3>2. QED
      BY <3>1
  <2>8. PICK h : IsTotal(U, w, h)
    BY <2>7
  <2> DEFINE g == [A \in SUBSET T |-> IF x \in A THEN w[x] + h[A \ {x}] ELSE h[A]]
  <2>9. ASSUME NEW A \in SUBSET T
        PROVE /\ x \in A => A \ {x} \in SUBSET U /\ g[A] = w[x] + h[A \ {x}]
              /\ x \notin A => A \in SUBSET U /\ g[A] = h[A]
              /\ g[A] \in Int
    BY <2>3, <2>8 DEF IsTotal
  <2>10. g \in [SUBSET T -> Int]
    BY <2>9
  <2>11. g[{}] = 0
    BY <2>8, <2>9 DEF IsTotal
  <2>12. ASSUME NEW A \in SUBSET T, NEW y \in T \ A
         PROVE  g[A \cup {y}] = w[y] + g[A]
    <3>1. A \cup {y} \in SUBSET T
      OBVIOUS
    <3>2. CASE y = x
      <4>1. (A \cup {y}) \ {x} = A
        BY <3>2, <2>12
      <4>2. QED
        BY <3>1, <3>2, <4>1, <2>9
    <3>3. CASE y # x /\ x \in A
      <4>1. (A \cup {y}) \ {x} = (A \ {x}) \cup {y}
        BY <3>3
      <4>2. A \ {x} \in SUBSET U /\ y \in U \ (A \ {x})
        BY <3>3, <2>12
      <4>3. h[(A \ {x}) \cup {y}] = w[y] + h[A \ {x}] /\ h[A \ {x}] \in Int
        BY <4>2, <2>8 DEF IsTotal
      <4>4. w[x] \in Int /\ w[y] \in Int
        BY <2>3
      <4>5. g[A] = w[x] + h[A \ {x}]
        BY <3>3, <2>9
      <4>6. g[A \cup {y}] = w[x] + h[(A \cup {y}) \ {x}]
        BY <3>1, <3>3, <2>9
      <4> DEFINE rest == h[A \ {x}]
                 both == h[(A \cup {y}) \ {x}]
                 more == g[A \cup {y}]
                 less == g[A]
      <4>7. both = w[y] + rest /\ rest \in Int /\ less = w[x] + rest /\ more = w[x] + both
        BY <4>1, <4>3, <4>5, <4>6
      <4> HIDE DEF rest, both, more, less
      <4>8. more = w[y] + less
        BY <4>4, <4>7
      <4>9. QED
        BY <4>8 DEF more, less
    <3>4. CASE y # x /\ x \notin A
      <4>1. A \in SUBSET U /\ y \in U \ A
        BY <3>4, <2>12
      <4>2. h[A \cup {y}] = w[y] + h[A]
        BY <4>1, <2>8 DEF IsTotal
      <4>3. QED
        BY <3>1, <3>4, <4>2, <2>9
    <3>5. QED
      BY <3>2, <3>3, <3>4
  <2>13. IsTotal(T, w, g)
    <3> HIDE DEF g
    <3>1. QED
      BY <2>10, <2>11, <2>12 DEF IsTotal
  <2>14. QED
    BY <2>3, <2>13
<1>3. S \in SUBSET S /\ Bad = {}
  BY <1>2
<1>4. QED
  BY <1>3

\* Two totals of the same weights are one.
LEMMA TotalUnique ==
  ASSUME NEW S, IsFiniteSet(S), NEW w, NEW g, NEW h, IsTotal(S, w, g),
         h[{}] = 0,
         \A T \in SUBSET S : T # {} => \E x \in T : h[T] = w[x] + h[T \ {x}]
  PROVE  \A T \in SUBSET S : h[T] = g[T]
<1> DEFINE Bad == {Cardinality(T) : T \in {T \in SUBSET S : h[T] # g[T]}}
<1>1. \A T \in SUBSET S : IsFiniteSet(T) /\ Cardinality(T) \in Nat
  BY FS_Subset, FS_CardinalityType
<1>2. ASSUME Bad # {} PROVE FALSE
  <2>1. Bad \subseteq Nat
    BY <1>1
  <2>2. PICK n \in Bad : \A k \in Bad : n <= k
    BY <1>2, <2>1, NatMin
  <2>3. PICK T \in SUBSET S : n = Cardinality(T) /\ h[T] # g[T]
    OBVIOUS
  <2>4. T # {}
    BY <2>3 DEF IsTotal
  <2>5. PICK x \in T : h[T] = w[x] + h[T \ {x}]
    BY <2>4
  <2>6. IsFiniteSet(T \ {x}) /\ Cardinality(T \ {x}) = n - 1
    BY <1>1, <2>3, FS_RemoveElement
  <2>7. h[T \ {x}] = g[T \ {x}]
    <3>1. Cardinality(T \ {x}) \notin Bad
      <4> HIDE DEF Bad
      <4>1. n \in Nat
        BY <2>1
      <4>2. QED
        BY <4>1, <2>2, <2>6
    <3>2. QED
      BY <3>1
  <2>8. g[T] = w[x] + g[T \ {x}]
    <3>1. T = (T \ {x}) \cup {x} /\ T \ {x} \in SUBSET S /\ x \in S \ (T \ {x})
      OBVIOUS
    <3>2. QED
      BY <3>1 DEF IsTotal
  <2>9. QED
    BY <2>3, <2>5, <2>7, <2>8
<1>3. QED
  BY <1>2

\* SumFunction is the total of all of its domain.
LEMMA SumIsTotal ==
  ASSUME NEW S, IsFiniteSet(S), NEW w, DOMAIN w = S, NEW g, IsTotal(S, w, g)
  PROVE  SumFunction(w) = g[S]
<1> DEFINE pick(T) == CHOOSE x \in T : TRUE
           Sums(it) == it = [s \in SUBSET S |-> IF s = {} THEN 0 ELSE w[pick(s)] + it[s \ {pick(s)}]]
           h == CHOOSE it : Sums(it)
<1>1. SumFunction(w) = h[S]
  BY DEF SumFunction, SumFunctionOnSet, FoldFunctionOnSet, MapThenFoldSet
<1>2. \A T : T # {} => pick(T) \in T
  OBVIOUS
<1>3. ASSUME NEW T \in SUBSET S, T # {}
      PROVE  g[T] = w[pick(T)] + g[T \ {pick(T)}]
  <2> HIDE DEF pick
  <2>1. T = (T \ {pick(T)}) \cup {pick(T)} /\ T \ {pick(T)} \in SUBSET S /\ pick(T) \in S \ (T \ {pick(T)})
    BY <1>2, <1>3
  <2>2. QED
    BY <2>1 DEF IsTotal
<1>4. Sums(g)
  <2> HIDE DEF pick
  <2>1. g = [s \in SUBSET S |-> g[s]] /\ g[{}] = 0
    BY DEF IsTotal
  <2>2. QED
    BY <1>3, <2>1
<1>5. Sums(h)
  <2> HIDE DEF Sums
  <2>1. QED
    BY <1>4
<1>6. h[{}] = 0
  BY <1>5
<1>7. \A T \in SUBSET S : T # {} => \E x \in T : h[T] = w[x] + h[T \ {x}]
  <2> HIDE DEF pick
  <2>1. ASSUME NEW T \in SUBSET S, T # {} PROVE h[T] = w[pick(T)] + h[T \ {pick(T)}]
    <3> HIDE DEF h
    <3>1. QED
      BY <1>5, <2>1
  <2> HIDE DEF h
  <2>2. QED
    BY <2>1, <1>2
<1>8. \A T \in SUBSET S : h[T] = g[T]
  <2> HIDE DEF h
  <2>1. QED
    BY <1>6, <1>7, TotalUnique
<1>9. QED
  BY <1>1, <1>8

\* Sums of disjoint sets add up.
LEMMA TotalOfUnion ==
  ASSUME NEW S, IsFiniteSet(S), NEW w, \A x \in S : w[x] \in Int, NEW g, IsTotal(S, w, g),
         NEW A \in SUBSET S, NEW B \in SUBSET S, A \cap B = {}
  PROVE  g[A \cup B] = g[A] + g[B]
<1> DEFINE u == [T \in SUBSET B |-> g[A \cup T] - g[A]]
           v == [T \in SUBSET B |-> g[T]]
<1>1. IsFiniteSet(B)
  BY FS_Subset
<1>2. IsTotal(B, w, u)
  <2>1. ASSUME NEW T \in SUBSET B
        PROVE  g[A \cup T] \in Int /\ g[A] \in Int /\ u[T] = g[A \cup T] - g[A] /\ u[T] \in Int
    BY DEF IsTotal
  <2>2. u \in [SUBSET B -> Int]
    BY <2>1
  <2>3. u[{}] = 0
    <3>1. A \cup {} = A
      OBVIOUS
    <3>2. u[{}] = g[A \cup {}] - g[A] /\ g[A] \in Int
      BY <2>1
    <3> HIDE DEF u
    <3>3. QED
      BY <3>1, <3>2
  <2>4. ASSUME NEW T \in SUBSET B, NEW x \in B \ T PROVE u[T \cup {x}] = w[x] + u[T]
    <3>1. A \cup (T \cup {x}) = (A \cup T) \cup {x} /\ A \cup T \in SUBSET S /\ x \in S \ (A \cup T)
      OBVIOUS
    <3>2. g[A \cup (T \cup {x})] = w[x] + g[A \cup T] /\ w[x] \in Int
      BY <3>1 DEF IsTotal
    <3>3. T \cup {x} \in SUBSET B
      OBVIOUS
    <3>4. /\ u[T] = g[A \cup T] - g[A]
          /\ u[T \cup {x}] = g[A \cup (T \cup {x})] - g[A]
          /\ g[A \cup T] \in Int /\ g[A] \in Int
      BY <2>1, <3>3
    <3> DEFINE a == g[A]
               b == g[A \cup T]
               c == g[A \cup (T \cup {x})]
               d == u[T \cup {x}]
    <3>5. c = w[x] + b /\ w[x] \in Int /\ d = c - a /\ u[T] = b - a /\ a \in Int /\ b \in Int
      BY <3>2, <3>4
    <3> HIDE DEF a, b, c, d, u
    <3>6. d = w[x] + u[T]
      BY <3>5
    <3>7. QED
      BY <3>6 DEF d
  <2> HIDE DEF u
  <2>5. QED
    BY <2>2, <2>3, <2>4 DEF IsTotal
<1>3. IsTotal(B, w, v)
  <2>1. v \in [SUBSET B -> Int] /\ v[{}] = 0
    BY DEF IsTotal
  <2>2. ASSUME NEW T \in SUBSET B, NEW x \in B \ T PROVE v[T \cup {x}] = w[x] + v[T]
    <3>1. T \in SUBSET S /\ x \in S \ T /\ T \cup {x} \in SUBSET B
      OBVIOUS
    <3>2. QED
      BY <3>1 DEF IsTotal
  <2> HIDE DEF v
  <2>3. QED
    BY <2>1, <2>2 DEF IsTotal
<1>4. v[{}] = 0 /\ \A T \in SUBSET B : T # {} => \E x \in T : v[T] = w[x] + v[T \ {x}]
  <2> HIDE DEF v
  <2>1. ASSUME NEW T \in SUBSET B, NEW x \in T PROVE v[T] = w[x] + v[T \ {x}]
    <3>1. T = (T \ {x}) \cup {x} /\ T \ {x} \in SUBSET B /\ x \in B \ (T \ {x})
      OBVIOUS
    <3>2. QED
      BY <3>1, <1>3 DEF IsTotal
  <2>2. QED
    BY <2>1, <1>3 DEF IsTotal
<1>5. v[B] = u[B]
  <2> HIDE DEF u, v
  <2>1. QED
    BY <1>1, <1>2, <1>4, TotalUnique
<1>6. g[A] \in Int /\ g[A \cup B] \in Int
  BY DEF IsTotal
<1>7. QED
  BY <1>5, <1>6

\* The sum of the totals of disjoint sets is the total of all of them.
LEMMA SumOfTotals ==
  ASSUME NEW U, IsFiniteSet(U), NEW v, \A x \in U : v[x] \in Int, NEW g, IsTotal(U, v, g),
         NEW S, IsFiniteSet(S), NEW F, \A x \in S : F[x] \in SUBSET U,
         \A x, y \in S : x = y \/ F[x] \cap F[y] = {},
         NEW w, DOMAIN w = S, \A x \in S : w[x] = g[F[x]],
         NEW W, \A z : z \in W <=> \E x \in S : z \in F[x]
  PROVE  SumFunction(w) = g[W]
<1> DEFINE All(T) == UNION {F[x] : x \in T}
           h == [T \in SUBSET S |-> g[All(T)]]
<1>1. ASSUME NEW T \in SUBSET S
      PROVE  All(T) \in SUBSET U /\ h[T] = g[All(T)] /\ h[T] \in Int
  <2>1. All(T) \in SUBSET U
    OBVIOUS
  <2> HIDE DEF All
  <2>2. QED
    BY <2>1 DEF IsTotal
<1>2. h \in [SUBSET S -> Int]
  BY <1>1
<1>3. h[{}] = 0
  <2>1. All({}) = {}
    OBVIOUS
  <2> HIDE DEF All
  <2>2. QED
    BY <2>1 DEF IsTotal
<1>4. ASSUME NEW T \in SUBSET S, NEW x \in S \ T
      PROVE  h[T \cup {x}] = w[x] + h[T]
  <2>1. T \cup {x} \in SUBSET S
    OBVIOUS
  <2>2. All(T \cup {x}) = All(T) \cup F[x]
    OBVIOUS
  <2>3. All(T) \cap F[x] = {}
    OBVIOUS
  <2>4. F[x] \in SUBSET U
    OBVIOUS
  <2> HIDE DEF All
  <2>5. g[All(T) \cup F[x]] = g[All(T)] + g[F[x]]
    <3>1. All(T) \in SUBSET U
      BY <1>1
    <3> DEFINE A == All(T)
               B == F[x]
    <3>2. A \in SUBSET U /\ B \in SUBSET U /\ A \cap B = {}
      BY <3>1, <2>3, <2>4
    <3> HIDE DEF A, B
    <3>3. g[A \cup B] = g[A] + g[B]
      BY <3>2, TotalOfUnion
    <3>4. QED
      BY <3>3 DEF A, B
  <2>6. g[F[x]] \in Int /\ g[All(T)] \in Int
    BY <1>1, <2>4 DEF IsTotal
  <2>7. h[T \cup {x}] = g[All(T)] + g[F[x]] /\ h[T] = g[All(T)] /\ w[x] = g[F[x]]
    BY <2>1, <2>2, <2>5, <1>1
  <2> HIDE DEF h
  <2>8. QED
    BY <2>6, <2>7
<1>5. IsTotal(S, w, h)
  <2> HIDE DEF h
  <2>1. QED
    BY <1>2, <1>3, <1>4 DEF IsTotal
<1>6. SumFunction(w) = h[S]
  <2> HIDE DEF h
  <2>1. QED
    BY <1>5, SumIsTotal
<1>7. All(S) = W
  OBVIOUS
<1>8. h[S] = g[All(S)]
  BY <1>1
<1>9. QED
  BY <1>6, <1>7, <1>8

\* The sum of the sizes of disjoint finite sets is the size of all of them.
LEMMA SumOfSizes ==
  ASSUME NEW S, IsFiniteSet(S), NEW F, DOMAIN F = S, \A x \in S : IsFiniteSet(F[x]),
         \A x, y \in S : x = y \/ F[x] \cap F[y] = {},
         NEW w, DOMAIN w = S, \A x \in S : w[x] = Cardinality(F[x]),
         NEW U, \A z : z \in U <=> \E x \in S : z \in F[x]
  PROVE  SumFunction(w) = Cardinality(U)
<1>1. IsFiniteSet(U)
  <2>1. IsFiniteSet({F[x] : x \in S})
    BY FiniteRange
  <2>2. QED
    <3>1. IsFiniteSet(UNION {F[x] : x \in S})
      BY <2>1, FS_UNION
    <3>2. U = UNION {F[x] : x \in S}
      OBVIOUS
    <3>3. QED
      BY <3>1, <3>2
<1>2. \A x \in S : F[x] \in SUBSET U
  OBVIOUS
<1>3. ASSUME NEW T \in SUBSET U PROVE IsFiniteSet(T) /\ Cardinality(T) \in Nat
  BY <1>1, FS_Subset, FS_CardinalityType
<1>4. PICK v, g : v = [x \in U |-> 1] /\ g = [T \in SUBSET U |-> Cardinality(T)]
  OBVIOUS
<1>5. IsTotal(U, v, g)
  <2>1. g \in [SUBSET U -> Int]
    <3>1. ASSUME NEW T \in SUBSET U PROVE g[T] \in Int
      BY <1>3, <1>4
    <3>2. QED
      BY <3>1, <1>4
  <2>2. g[{}] = 0
    BY <1>4, FS_EmptySet
  <2>3. ASSUME NEW T \in SUBSET U, NEW x \in U \ T PROVE g[T \cup {x}] = v[x] + g[T]
    <3>1. Cardinality(T \cup {x}) = Cardinality(T) + 1
      BY <1>3, FS_AddElement
    <3>2. T \cup {x} \in SUBSET U /\ v[x] = 1
      BY <1>4
    <3>3. g[T] = Cardinality(T) /\ g[T \cup {x}] = Cardinality(T \cup {x}) /\ Cardinality(T) \in Nat
      BY <1>3, <1>4, <3>2
    <3>4. QED
      BY <3>1, <3>2, <3>3
  <2>4. QED
    BY <2>1, <2>2, <2>3 DEF IsTotal
<1>6. (\A x \in U : v[x] \in Int) /\ \A x \in S : w[x] = g[F[x]]
  BY <1>2, <1>4
<1>7. SumFunction(w) = g[U]
  BY <1>1, <1>2, <1>5, <1>6, SumOfTotals
<1>8. QED
  BY <1>4, <1>7

\* The weights of a function have a total, which SumFunction computes.
LEMMA SumTyped ==
  ASSUME NEW w, IsFiniteSet(DOMAIN w), \A x \in DOMAIN w : w[x] \in Int
  PROVE  SumFunction(w) \in Int
<1>1. ASSUME NEW S, S = DOMAIN w PROVE SumFunction(w) \in Int
  <2>1. IsFiniteSet(S) /\ \A x \in S : w[x] \in Int
    BY <1>1
  <2>2. PICK g : IsTotal(S, w, g)
    BY <2>1, TotalExists
  <2>3. SumFunction(w) = g[S] /\ S \in SUBSET S
    BY <1>1, <2>1, <2>2, SumIsTotal
  <2>4. QED
    BY <2>2, <2>3 DEF IsTotal
<1>2. QED
  BY <1>1

------------------------------------------------------------------------------
(* Aggregates from metadata: the rows of a dataset                          *)

\* The rows of the dataset, deleted ones too, and those of the files before the
\* n-th: what a tally stands for when the n-th file is next.
AllRows == UNION {{<<f, r>> : r \in Ordinals(files[f])} : f \in DOMAIN files}
RowsBefore(rows, n) == {row \in rows : row[1] < n}

\* A file of a dataset is a well-formed one.
LEMMA DatasetTyped ==
  ASSUME files \in FileLists
  PROVE  /\ Len(files) \in Nat /\ DOMAIN files = 1 .. Len(files)
         /\ \A f \in DOMAIN files : FileTyped(files[f])
<1> DEFINE F == {f \in Range(files) : FileTyped(f)}
<1>1. files \in Seq(F)
  BY AnswerAssumption
<1>2. /\ Len(files) \in Nat /\ DOMAIN files = 1 .. Len(files)
      /\ \A f \in DOMAIN files : files[f] \in F
  <2> HIDE DEF F
  <2>1. QED
    BY <1>1
<1>3. QED
  BY <1>2

\* The rows of a file, and the cells in them.
LEMMA FileFacts ==
  ASSUME NEW x, FileTyped(x)
  PROVE  /\ IsFiniteSet(Ordinals(x)) /\ IsFiniteSet(x.visible) /\ x.visible \subseteq Ordinals(x)
         /\ \A r \in Ordinals(x) : x.rows[r].num \in {Null} \cup Int
         /\ ~x.nullable => \A r \in Ordinals(x) : x.rows[r].num # Null /\ x.rows[r].cat # Null
         /\ UNION x.segments = Ordinals(x)
<1>1. PICK Rows : Rows = [num : {Null} \cup Int, cat : {Null} \cup Values]
  OBVIOUS
<1>2. /\ Len(x.rows) \in Nat /\ Ordinals(x) = 1 .. Len(x.rows)
      /\ \A r \in Ordinals(x) : x.rows[r] \in Rows
  <2>1. x.rows \in Seq(Rows)
    BY <1>1 DEF FileTyped
  <2>2. QED
    BY <2>1 DEF Ordinals
<1>3. IsFiniteSet(Ordinals(x))
  BY <1>2, FiniteInterval
<1>4. QED
  BY <1>1, <1>2, <1>3, FS_Subset DEF FileTyped, Convertible

\* Rows by their file and their place in it.
LEMMA RowMembers ==
  /\ \A row : row \in AllRows <=> \E f \in DOMAIN files : \E r \in Ordinals(files[f]) : row = <<f, r>>
  /\ \A row : row \in VisibleRows <=> \E f \in DOMAIN files : \E r \in files[f].visible : row = <<f, r>>
  /\ \A f, r : <<f, r>> \in AllRows <=> f \in DOMAIN files /\ r \in Ordinals(files[f])
  /\ \A f, r : <<f, r>> \in VisibleRows <=> f \in DOMAIN files /\ r \in files[f].visible
<1>1. \A row : row \in AllRows <=> \E f \in DOMAIN files : \E r \in Ordinals(files[f]) : row = <<f, r>>
  BY DEF AllRows
<1>2. \A row : row \in VisibleRows <=> \E f \in DOMAIN files : \E r \in files[f].visible : row = <<f, r>>
  BY DEF VisibleRows
<1>3. QED
  BY <1>1, <1>2

\* A dataset has finitely many rows.
LEMMA AllRowsFinite ==
  ASSUME files \in FileLists
  PROVE  IsFiniteSet(AllRows) /\ VisibleRows \subseteq AllRows /\ IsFiniteSet(DOMAIN files)
<1>1. PICK rowsOf : rowsOf = [f \in DOMAIN files |-> {<<f, r>> : r \in Ordinals(files[f])}]
  OBVIOUS
<1>2. IsFiniteSet(DOMAIN files) /\ \A f \in DOMAIN files : FileTyped(files[f])
  BY DatasetTyped, FiniteInterval
<1>3. ASSUME NEW f \in DOMAIN files PROVE IsFiniteSet(rowsOf[f])
  <2>1. PICK pairs : pairs = [r \in Ordinals(files[f]) |-> <<f, r>>]
    OBVIOUS
  <2>2. IsFiniteSet({pairs[r] : r \in Ordinals(files[f])})
    BY <1>2, <2>1, FileFacts, FiniteRange
  <2>3. rowsOf[f] = {pairs[r] : r \in Ordinals(files[f])}
    BY <1>1, <2>1
  <2>4. QED
    BY <2>2, <2>3
<1>4. IsFiniteSet({rowsOf[f] : f \in DOMAIN files})
  <2>1. DOMAIN rowsOf = DOMAIN files /\ IsFiniteSet(DOMAIN rowsOf)
    BY <1>1, <1>2
  <2>2. IsFiniteSet({rowsOf[f] : f \in DOMAIN rowsOf})
    BY <2>1, FiniteRange
  <2>3. QED
    BY <2>1, <2>2
<1>5. IsFiniteSet(UNION {rowsOf[f] : f \in DOMAIN files})
  BY <1>3, <1>4, FS_UNION
<1>6. AllRows = UNION {rowsOf[f] : f \in DOMAIN files}
  BY <1>1 DEF AllRows
<1>7. VisibleRows \subseteq AllRows
  BY <1>2, FileFacts, RowMembers
<1>8. QED
  BY <1>2, <1>5, <1>6, <1>7

\* Going on to the next file adds its rows to those before.
LEMMA RowsOfFile ==
  ASSUME files \in FileLists, NEW f \in DOMAIN files, NEW P \in SUBSET AllRows,
         NEW R \in SUBSET Ordinals(files[f]),
         \A r \in Ordinals(files[f]) : r \in R <=> <<f, r>> \in P,
         NEW H, \A row : row \in H <=> \E r \in R : row = <<f, r>>
  PROVE  /\ IsFiniteSet(P) /\ IsFiniteSet(R) /\ Cardinality(R) \in Nat
         /\ RowsBefore(P, f + 1) = RowsBefore(P, f) \cup H
         /\ RowsBefore(P, f) \cap H = {}
         /\ Cardinality(H) = Cardinality(R)
         /\ Cardinality(RowsBefore(P, f)) \in Nat
         /\ Cardinality(RowsBefore(P, f + 1)) = Cardinality(RowsBefore(P, f)) + Cardinality(R)
<1>1. PICK B, N : B = RowsBefore(P, f) /\ N = RowsBefore(P, f + 1)
  OBVIOUS
<1>2. f \in Nat /\ DOMAIN files \subseteq Nat
  BY DatasetTyped
<1>3. IsFiniteSet(P)
  BY AllRowsFinite, FS_Subset
<1>4. IsFiniteSet(R) /\ Cardinality(R) \in Nat
  BY DatasetTyped, FileFacts, FS_Subset, FS_CardinalityType
<1>5. PICK pairs : pairs = [r \in R |-> <<f, r>>]
  OBVIOUS
<1>6. Cardinality(H) = Cardinality(R) /\ IsFiniteSet(H)
  <2>1. /\ \A r \in R : pairs[r] \in H
        /\ \A t \in H : \E r \in R : pairs[r] = t
        /\ \A r, s \in R : pairs[r] = pairs[s] => r = s
    BY <1>1, <1>5
  <2>2. QED
    BY <1>4, <2>1, SameSize
<1>7. ASSUME NEW row PROVE row \in N <=> row \in B \/ row \in H
  <2>1. row \in P => \E g \in DOMAIN files : \E r \in Ordinals(files[g]) : row = <<g, r>>
    BY RowMembers
  <2>2. row \in H <=> \E r \in Ordinals(files[f]) : row = <<f, r>> /\ row \in P
    BY <1>1
  <2>3. row \in N => row \in B \/ row \in H
    BY <1>1, <1>2, <2>1, <2>2 DEF RowsBefore
  <2>4. row \in B \/ row \in H => row \in N
    BY <1>1, <1>2, <2>1, <2>2 DEF RowsBefore
  <2>5. QED
    BY <2>3, <2>4
<1>8. N = B \cup H
  BY <1>7
<1>9. B \cap H = {}
  BY <1>1, <1>2 DEF RowsBefore
<1>10. IsFiniteSet(B) /\ Cardinality(B) \in Nat
  BY <1>1, <1>3, FS_Subset, FS_CardinalityType DEF RowsBefore
<1>11. Cardinality(N) = Cardinality(B) + Cardinality(H)
  <2>1. Cardinality(B \cup H) = Cardinality(B) + Cardinality(H) - Cardinality(B \cap H)
    BY <1>6, <1>10, FS_Union
  <2>2. Cardinality(B \cap H) = 0
    BY <1>9, FS_EmptySet
  <2>3. QED
    BY <1>4, <1>6, <1>8, <1>10, <2>1, <2>2
<1>12. QED
  BY <1>1, <1>3, <1>4, <1>6, <1>8, <1>9, <1>10, <1>11

\* The rows up to a file are those before it and its own.
LEMMA RowsCounted ==
  ASSUME files \in FileLists, NEW f \in DOMAIN files, NEW P \in SUBSET AllRows,
         NEW R \in SUBSET Ordinals(files[f]),
         \A r \in Ordinals(files[f]) : r \in R <=> <<f, r>> \in P
  PROVE  Cardinality(RowsBefore(P, f + 1)) = Cardinality(RowsBefore(P, f)) + Cardinality(R)
<1>1. PICK H : \A row : row \in H <=> \E r \in R : row = <<f, r>>
  <2>1. PICK G : G = {<<f, r>> : r \in R}
    OBVIOUS
  <2>2. \A row : row \in G <=> \E r \in R : row = <<f, r>>
    BY <2>1
  <2>3. QED
    BY <2>2
<1>2. QED
  BY <1>1, RowsOfFile, ZenonT(90)

\* No row is before the first file, every one before the end.
LEMMA RowsBounds ==
  ASSUME files \in FileLists, NEW P \in SUBSET AllRows
  PROVE  RowsBefore(P, 1) = {} /\ RowsBefore(P, Len(files) + 1) = P
<1>1. ASSUME NEW row \in P PROVE row[1] \in 1 .. Len(files)
  BY RowMembers, DatasetTyped
<1>2. Len(files) \in Nat
  BY DatasetTyped
<1>3. QED
  BY <1>1, <1>2 DEF RowsBefore

------------------------------------------------------------------------------
(* Counts                                                                   *)

\* The count of a file is the count of its visible rows with a value.
LEMMA FileCountRight ==
  ASSUME NEW x, FileTyped(x), NEW col \in {"*", "num", "cat"}, FileCount(x, col) # <<>>
  PROVE  /\ FileCount(x, col)[1] = Cardinality({r \in x.visible : col = "*" \/ x.rows[r][col] # Null})
         /\ col = "cat" /\ x.visible # {} => ~x.redacted
<1> DEFINE R == {r \in x.visible : col = "*" \/ x.rows[r][col] # Null}
<1>1. CASE x.visible = {} \/ col = "*"
  <2>1. R = x.visible
    BY <1>1
  <2>2. FileCount(x, col) = <<Cardinality(x.visible)>>
    BY <1>1 DEF FileCount
  <2>3. QED
    BY <1>1, <2>1, <2>2
<1>2. CASE x.visible # {} /\ col # "*" /\ ~(col = "cat" /\ x.redacted) /\ ~x.nullable
  <2>1. R = x.visible
    <3>1. \A r \in x.visible : x.rows[r].num # Null /\ x.rows[r].cat # Null
      BY <1>2, FileFacts
    <3>2. QED
      BY <3>1, <1>2
  <2>2. FileCount(x, col) = <<Cardinality(x.visible)>>
    BY <1>2 DEF FileCount
  <2>3. QED
    BY <1>2, <2>1, <2>2
<1>3. CASE x.visible # {} /\ col # "*" /\ ~(col = "cat" /\ x.redacted) /\ x.nullable
  <2>1. FileCount(x, col) = IF AllVisible(x) THEN ColumnCount(x, col) ELSE <<>>
    BY <1>3 DEF FileCount
  <2>2. AllVisible(x) /\ ColumnCount(x, col) # <<>>
    BY <2>1
  <2>3. ColumnCount(x, col) = <<Cardinality(NotNull(x, col, Ordinals(x)))>>
    BY <2>2 DEF ColumnCount
  <2>4. R = NotNull(x, col, Ordinals(x))
    BY <1>3, <2>2 DEF AllVisible, NotNull
  <2>5. QED
    BY <1>3, <2>1, <2>2, <2>3, <2>4
<1>4. CASE x.visible # {} /\ col = "cat" /\ x.redacted
  BY <1>4 DEF FileCount
<1>5. QED
  BY <1>1, <1>2, <1>3, <1>4

\* The codes of the asked values are the codes of the rows with these values.
LEMMA WithCodesRight ==
  ASSUME NEW x, FileTyped(x), NEW values, NEW rows \in SUBSET Ordinals(x)
  PROVE  WithCodes(x, CodesIn(x, values), rows) =
           {r \in rows : x.rows[r].cat # Null /\ x.rows[r].cat \in values}
<1>1. ASSUME NEW r \in rows, x.rows[r].cat # Null
      PROVE  x.codes[x.rows[r].cat] \in CodesIn(x, values) <=> x.rows[r].cat \in values
  <2>1. x.rows[r].cat \in DOMAIN x.codes
    BY <1>1 DEF FileTyped, NotNull
  <2>2. \A v, w \in DOMAIN x.codes : x.codes[v] = x.codes[w] => v = w
    BY DEF FileTyped
  <2>3. QED
    BY <2>1, <2>2 DEF CodesIn
<1>2. QED
  BY <1>1 DEF WithCodes, NotNull

\* Columns asked for are columns of the table.
LEMMA AskedColumns ==
  ASSUME request \in Aggregates
  PROVE  /\ request.type = "Counts" => \A c \in DOMAIN request.cols : request.cols[c] \in {"*", "num", "cat"}
         /\ request.type = "Distinct" => request.col \in {"num", "cat"}
<1>1. AggregateTyped(request)
  BY AnswerAssumption
<1>2. ASSUME request.type = "Counts", NEW c \in DOMAIN request.cols
      PROVE  request.cols[c] \in {"*", "num", "cat"}
  <2>1. request.cols \in Seq({"*", "num", "cat"})
    BY <1>1, <1>2 DEF AggregateTyped
  <2>2. QED
    BY <2>1
<1>3. QED
  BY <1>1, <1>2 DEF AggregateTyped

\* The visible rows with a value in a column.
LEMMA PresentMembers ==
  ASSUME NEW col
  PROVE  /\ PresentRows(col) \in SUBSET VisibleRows
         /\ \A f, r : <<f, r>> \in PresentRows(col) <=>
              f \in DOMAIN files /\ r \in files[f].visible /\ (col = "*" \/ files[f].rows[r][col] # Null)
BY RowMembers DEF PresentRows, CellOf

\* COUNT: each column's rows so far, none of the files' values being redacted.
CountsInv(t, n) ==
    /\ t = [c \in DOMAIN request.cols |-> Cardinality(RowsBefore(PresentRows(request.cols[c]), n))]
    /\ \A f \in DOMAIN files, c \in DOMAIN request.cols :
          f < n /\ request.cols[c] = "cat" /\ files[f].visible # {} => ~files[f].redacted

\* A file that can be counted adds its own rows to every count.
LEMMA CountFileKeeps ==
  ASSUME files \in FileLists, request \in Aggregates, request.type = "Counts", file \in DOMAIN files,
         CountsInv(tally, file), \A c \in DOMAIN request.cols : FileCount(Here, request.cols[c]) # <<>>
  PROVE  CountsInv([c \in DOMAIN request.cols |-> tally[c] + FileCount(Here, request.cols[c])[1]], file + 1)
<1>1. FileTyped(files[file]) /\ file \in Nat /\ DOMAIN files \subseteq Nat
  BY DatasetTyped
<1>2. ASSUME NEW c \in DOMAIN request.cols
      PROVE  /\ tally[c] + FileCount(Here, request.cols[c])[1] =
                  Cardinality(RowsBefore(PresentRows(request.cols[c]), file + 1))
             /\ request.cols[c] = "cat" /\ files[file].visible # {} => ~files[file].redacted
  <2>1. PICK col : col = request.cols[c]
    OBVIOUS
  <2>2. col \in {"*", "num", "cat"} /\ FileCount(files[file], col) # <<>>
    BY <2>1, AskedColumns DEF Here
  <2>3. PICK R : R = {r \in files[file].visible : col = "*" \/ files[file].rows[r][col] # Null}
    OBVIOUS
  <2>4. FileCount(files[file], col)[1] = Cardinality(R)
    BY <1>1, <2>2, <2>3, FileCountRight
  <2>5. col = "cat" /\ files[file].visible # {} => ~files[file].redacted
    BY <1>1, <2>2, FileCountRight
  <2>6. R \in SUBSET Ordinals(files[file]) /\ PresentRows(col) \in SUBSET AllRows
    BY <1>1, <2>3, FileFacts, PresentMembers, AllRowsFinite
  <2>7. \A r \in Ordinals(files[file]) : r \in R <=> <<file, r>> \in PresentRows(col)
    BY <2>3, PresentMembers
  <2>8. Cardinality(RowsBefore(PresentRows(col), file + 1)) =
           Cardinality(RowsBefore(PresentRows(col), file)) + Cardinality(R)
    <3>1. PICK P : P = PresentRows(col)
      OBVIOUS
    <3>2. P \in SUBSET AllRows /\ \A r \in Ordinals(files[file]) : r \in R <=> <<file, r>> \in P
      BY <2>6, <2>7, <3>1
    <3>3. Cardinality(RowsBefore(P, file + 1)) = Cardinality(RowsBefore(P, file)) + Cardinality(R)
      BY <2>6, <3>2, RowsCounted
    <3>4. QED
      BY <3>1, <3>3
  <2>9. tally[c] = Cardinality(RowsBefore(PresentRows(col), file))
    BY <2>1 DEF CountsInv
  <2>10. QED
    BY <2>1, <2>4, <2>5, <2>8, <2>9 DEF Here
<1>3. ASSUME NEW f \in DOMAIN files, NEW c \in DOMAIN request.cols,
             f < file + 1, request.cols[c] = "cat", files[f].visible # {}
      PROVE  ~files[f].redacted
  <2>1. f < file \/ f = file
    BY <1>1, <1>3
  <2>2. QED
    BY <1>2, <1>3, <2>1 DEF CountsInv
<1>4. QED
  BY <1>2, <1>3 DEF CountsInv

\* All files counted: the counts of a scan.
LEMMA CountsDone ==
  ASSUME files \in FileLists, request \in Aggregates, request.type = "Counts",
         CountsInv(tally, Len(files) + 1)
  PROVE  ~NeedsRedacted /\ CountsRight
<1>1. ASSUME NEW col PROVE RowsBefore(PresentRows(col), Len(files) + 1) = PresentRows(col)
  BY PresentMembers, AllRowsFinite, RowsBounds
<1>2. CountsRight
  BY <1>1 DEF CountsInv, CountsRight
<1>3. ASSUME NEW f \in DOMAIN files PROVE f < Len(files) + 1
  BY DatasetTyped
<1>4. ~NeedsRedacted
  BY <1>3 DEF CountsInv, NeedsRedacted
<1>5. QED
  BY <1>2, <1>4

\* One file without deletions has all its rows.
LEMMA OneFile ==
  ASSUME files \in FileLists, Sidecar
  PROVE  /\ DOMAIN files = {1} /\ FileTyped(files[1]) /\ ~files[1].redacted
         /\ files[1].visible = Ordinals(files[1])
         /\ \A row : row \in VisibleRows <=> \E r \in Ordinals(files[1]) : row = <<1, r>>
<1>1. DOMAIN files = {1} /\ FileTyped(files[1])
  BY DatasetTyped DEF Sidecar
<1>2. files[1].visible = Ordinals(files[1]) /\ ~files[1].redacted
  BY DEF Sidecar, AllVisible
<1>3. QED
  BY <1>1, <1>2, RowMembers

\* The dataset of one file with an index: its rows are the index's.
LEMMA OneFileCount ==
  ASSUME files \in FileLists, Sidecar, NEW col
  PROVE  /\ Cardinality(PresentRows(col)) =
              Cardinality({r \in Ordinals(files[1]) : col = "*" \/ files[1].rows[r][col] # Null})
         /\ \A row : row \in PresentRows(col) <=>
              \E r \in Ordinals(files[1]) : row = <<1, r>> /\ (col = "*" \/ files[1].rows[r][col] # Null)
<1>1. PICK R : R = {r \in Ordinals(files[1]) : col = "*" \/ files[1].rows[r][col] # Null}
  OBVIOUS
<1>2. IsFiniteSet(R)
  BY <1>1, OneFile, FileFacts, FS_Subset
<1>3. \A row : row \in PresentRows(col) <=> \E r \in R : row = <<1, r>>
  BY <1>1, OneFile DEF PresentRows, CellOf
<1>4. PICK pairs : pairs = [r \in R |-> <<1, r>>]
  OBVIOUS
<1>5. /\ \A r \in R : pairs[r] \in PresentRows(col)
      /\ \A t \in PresentRows(col) : \E r \in R : pairs[r] = t
      /\ \A r, s \in R : pairs[r] = pairs[s] => r = s
  BY <1>3, <1>4
<1>6. Cardinality(PresentRows(col)) = Cardinality(R)
  BY <1>2, <1>5, SameSize
<1>7. QED
  BY <1>1, <1>3, <1>6

------------------------------------------------------------------------------
(* Rows of values, by histograms and by lookups                             *)

\* Entries are about different rows of the file.
LEMMA EntryFacts ==
  ASSUME NEW x, FileTyped(x), NEW kindOf, NEW S, S = SegmentEntries(x, kindOf)
  PROVE  /\ IsFiniteSet(S)
         /\ \A e \in S : e \in SUBSET Ordinals(x) /\ IsFiniteSet(e)
         /\ UNION S \in SUBSET Ordinals(x)
         /\ \A e, d \in S : e = d \/ e \cap d = {}
<1>1. S \subseteq x.segments
  BY DEF SegmentEntries, FileTyped
<1>2. \A e \in x.segments : e \in SUBSET Ordinals(x)
  <2>1. UNION x.segments = Ordinals(x)
    BY FileFacts
  <2>2. QED
    BY <2>1
<1>3. IsFiniteSet(Ordinals(x)) /\ IsFiniteSet(SUBSET Ordinals(x))
  BY FileFacts, FS_SUBSET
<1>4. S \subseteq SUBSET Ordinals(x)
  BY <1>1, <1>2
<1>5. IsFiniteSet(S)
  BY <1>3, <1>4, FS_Subset
<1>6. \A e \in S : IsFiniteSet(e)
  BY <1>3, <1>4, FS_Subset
<1>7. \A e, d \in S : e = d \/ e \cap d = {}
  BY <1>1 DEF FileTyped
<1>8. QED
  BY <1>4, <1>5, <1>6, <1>7

\* Without deletions and redactions a scan finds all rows.
LEMMA AllFilesSafe ==
  ASSUME files \in FileLists, ~Unsafe, request.type # "Counts"
  PROVE  /\ \A f \in DOMAIN files : files[f].visible = Ordinals(files[f]) /\ ~files[f].redacted
         /\ VisibleRows = AllRows
         /\ ~NeedsRedacted
<1>1. \A f \in DOMAIN files : AllVisible(files[f]) /\ ~files[f].redacted
  BY DEF Unsafe
<1>2. QED
  BY <1>1 DEF AllVisible, VisibleRows, AllRows, NeedsRedacted

\* COUNT of the rows whose value is one of those asked for.
FilteredRows == {row \in PresentRows("cat") : CellOf(row, "cat") \in request.values}
FilteredInv(t, n) == t = Cardinality(RowsBefore(FilteredRows, n))

\* The rows of the asked values, and how a file adds its own.
LEMMA FilteredFile ==
  ASSUME files \in FileLists, ~Unsafe, request.type = "Filtered", file \in DOMAIN files,
         FilteredInv(tally, file),
         NEW R, R = WithCodes(Here, CodesIn(Here, request.values), Ordinals(Here))
  PROVE  FilteredInv(tally + Cardinality(R), file + 1)
<1>1. FileTyped(files[file])
  BY DatasetTyped
<1>2. R = {r \in Ordinals(files[file]) :
              files[file].rows[r].cat # Null /\ files[file].rows[r].cat \in request.values}
  BY <1>1, WithCodesRight DEF Here
<1>3. PICK P : P = FilteredRows
  OBVIOUS
<1>4. \A f, r : <<f, r>> \in P <=>
         <<f, r>> \in PresentRows("cat") /\ files[f].rows[r]["cat"] \in request.values
  BY <1>3 DEF FilteredRows, CellOf
<1>5. P \in SUBSET AllRows
  BY <1>3, PresentMembers, AllRowsFinite DEF FilteredRows
<1>6. \A r \in Ordinals(files[file]) : r \in R <=> <<file, r>> \in P
  BY <1>2, <1>4, PresentMembers, AllFilesSafe
<1>7. Cardinality(RowsBefore(P, file + 1)) = Cardinality(RowsBefore(P, file)) + Cardinality(R)
  <2>1. R \in SUBSET Ordinals(files[file])
    BY <1>2
  <2>2. QED
    BY <1>5, <1>6, <2>1, RowsCounted
<1>8. QED
  BY <1>3, <1>7 DEF FilteredInv

\* Histograms that cover the file count all of its rows.
LEMMA HistogramsCount ==
  ASSUME files \in FileLists, file \in DOMAIN files, HasHistograms, NEW codes
  PROVE  SumFunction([e \in Histograms |-> Cardinality(WithCodes(Here, codes, e))]) =
            Cardinality(WithCodes(Here, codes, Ordinals(Here)))
<1>1. PICK x : x = Here
  OBVIOUS
<1>2. FileTyped(x)
  BY <1>1, DatasetTyped DEF Here
<1>3. PICK S : S = Histograms
  OBVIOUS
<1>4. UNION S = Ordinals(x)
  BY <1>1, <1>3 DEF HasHistograms, Covered
<1>5. /\ IsFiniteSet(S)
      /\ \A e \in S : e \in SUBSET Ordinals(x) /\ IsFiniteSet(e)
      /\ \A e, d \in S : e = d \/ e \cap d = {}
  BY <1>1, <1>2, <1>3, EntryFacts DEF Histograms
<1>6. PICK F, w, U : /\ F = [e \in S |-> WithCodes(x, codes, e)]
                     /\ w = [e \in S |-> Cardinality(WithCodes(x, codes, e))]
                     /\ U = WithCodes(x, codes, Ordinals(x))
  OBVIOUS
<1>7. \A r : r \in U <=> \E e \in S : r \in F[e]
  BY <1>4, <1>6 DEF WithCodes, NotNull
<1>8. /\ DOMAIN F = S /\ DOMAIN w = S
      /\ \A e \in S : w[e] = Cardinality(F[e])
  BY <1>6
<1>9. ASSUME NEW e \in S PROVE IsFiniteSet(F[e]) /\ F[e] \subseteq e
  <2>1. F[e] \subseteq e
    BY <1>6 DEF WithCodes, NotNull
  <2>2. QED
    BY <2>1, <1>5, FS_Subset
<1>10. \A e, d \in S : e = d \/ F[e] \cap F[d] = {}
  BY <1>5, <1>9
<1>11. SumFunction(w) = Cardinality(U)
  BY <1>5, <1>7, <1>8, <1>9, <1>10, SumOfSizes
<1>12. QED
  BY <1>1, <1>3, <1>6, <1>11

\* After the last file: the rows of a scan.
LEMMA FilteredDone ==
  ASSUME files \in FileLists, ~Unsafe, request.type = "Filtered", FilteredInv(tally, Len(files) + 1)
  PROVE  ~NeedsRedacted /\ CountsRight
<1>1. FilteredRows \in SUBSET AllRows
  BY PresentMembers, AllRowsFinite DEF FilteredRows
<1>2. RowsBefore(FilteredRows, Len(files) + 1) = FilteredRows
  BY <1>1, RowsBounds
<1>3. CountsRight
  BY <1>2 DEF FilteredInv, CountsRight, FilteredRows
<1>4. QED
  BY <1>3, AllFilesSafe

\* COUNT in groups: the group of each value so far, and no nulls.
RowsOfValue(v) == {row \in VisibleRows : CellOf(row, "cat") = v}
GroupsInv(t, n) ==
    /\ t = [v \in Values |-> Cardinality(RowsBefore(RowsOfValue(v), n))]
    /\ \A row \in RowsBefore(VisibleRows, n) : CellOf(row, "cat") # Null

\* Each group gets the rows of its value, in a file without nulls.
LEMMA GroupsFile ==
  ASSUME files \in FileLists, ~Unsafe, request.type = "Groups", file \in DOMAIN files,
         GroupsInv(tally, file), ~HasNulls
  PROVE  GroupsInv(AddedToGroups(Ordinals(Here)), file + 1)
<1>1. FileTyped(files[file])
  BY DatasetTyped
<1>2. ASSUME NEW v \in Values
      PROVE  AddedToGroups(Ordinals(Here))[v] = Cardinality(RowsBefore(RowsOfValue(v), file + 1))
  <2>1. PICK P, R : P = RowsOfValue(v) /\ R = {r \in Ordinals(files[file]) : files[file].rows[r].cat = v}
    OBVIOUS
  <2>2. \A f, r : <<f, r>> \in P <=> <<f, r>> \in VisibleRows /\ files[f].rows[r]["cat"] = v
    BY <2>1 DEF RowsOfValue, CellOf
  <2>3. P \in SUBSET AllRows
    BY <2>1, AllRowsFinite DEF RowsOfValue
  <2>4. \A r \in Ordinals(files[file]) : r \in R <=> <<file, r>> \in P
    BY <2>1, <2>2, RowMembers, AllFilesSafe
  <2>5. Cardinality(RowsBefore(P, file + 1)) = Cardinality(RowsBefore(P, file)) + Cardinality(R)
    <3>1. R \in SUBSET Ordinals(files[file])
      BY <2>1
    <3>2. QED
      BY <2>3, <2>4, <3>1, RowsCounted
  <2>6. tally[v] = Cardinality(RowsBefore(P, file))
    BY <2>1 DEF GroupsInv
  <2>7. QED
    BY <2>1, <2>5, <2>6 DEF AddedToGroups, Here
<1>3. ASSUME NEW row \in RowsBefore(VisibleRows, file + 1) PROVE CellOf(row, "cat") # Null
  <2>1. PICK f, r : f \in DOMAIN files /\ r \in files[f].visible /\ row = <<f, r>>
    BY RowMembers DEF RowsBefore
  <2>2. f < file + 1 /\ file \in Nat /\ f \in Nat
    BY <2>1, DatasetTyped DEF RowsBefore
  <2>3. CASE f < file
    BY <2>1, <2>3 DEF RowsBefore, GroupsInv
  <2>4. CASE f = file
    <3>1. r \in Ordinals(files[file])
      BY <2>1, <2>4, <1>1, FileFacts
    <3>2. files[file].rows[r]["cat"] # Null
      BY <3>1 DEF HasNulls, NotNull, Here
    <3>3. QED
      BY <2>1, <2>4, <3>2 DEF CellOf
  <2>5. QED
    BY <2>2, <2>3, <2>4
<1>4. QED
  BY <1>2, <1>3 DEF GroupsInv, AddedToGroups

\* After the last file: the groups of a scan.
LEMMA GroupsDone ==
  ASSUME files \in FileLists, ~Unsafe, request.type = "Groups", GroupsInv(tally, Len(files) + 1)
  PROVE  ~NeedsRedacted /\ CountsRight
<1>1. ASSUME NEW P \in SUBSET AllRows PROVE RowsBefore(P, Len(files) + 1) = P
  BY RowsBounds
<1>2. VisibleRows \in SUBSET AllRows /\ \A v : RowsOfValue(v) \in SUBSET AllRows
  BY AllRowsFinite DEF RowsOfValue
<1>3. PresentRows("cat") = VisibleRows
  BY <1>1, <1>2 DEF GroupsInv, PresentRows
<1>4. tally = [v \in Values |-> Cardinality(RowsOfValue(v))]
  BY <1>1, <1>2 DEF GroupsInv
<1>5. CountsRight
  BY <1>3, <1>4 DEF CountsRight, RowsOfValue
<1>6. QED
  BY <1>5, AllFilesSafe

------------------------------------------------------------------------------
(* Numbers: sums and extremes                                               *)

\* Part of the weights have part of the total.
LEMMA SumOfPart ==
  ASSUME NEW U, IsFiniteSet(U), NEW v, \A x \in U : v[x] \in Int, NEW g, IsTotal(U, v, g),
         NEW A \in SUBSET U, NEW w, DOMAIN w = A, \A x \in A : w[x] = v[x]
  PROVE  SumFunction(w) = g[A]
<1>1. PICK F : F = [x \in A |-> {x}]
  OBVIOUS
<1>2. /\ \A x \in A : F[x] \in SUBSET U
      /\ \A x, y \in A : x = y \/ F[x] \cap F[y] = {}
      /\ \A z : z \in A <=> \E x \in A : z \in F[x]
  BY <1>1
<1>3. ASSUME NEW x \in A PROVE w[x] = g[F[x]]
  <2>1. g[{} \cup {x}] = v[x] + g[{}] /\ g[{}] = 0 /\ v[x] \in Int
    BY DEF IsTotal
  <2>2. g[{} \cup {x}] = v[x]
    BY <2>1
  <2>3. {} \cup {x} = F[x]
    BY <1>1
  <2>4. QED
    BY <2>2, <2>3
<1>4. IsFiniteSet(A)
  BY FS_Subset
<1>5. QED
  BY <1>2, <1>3, <1>4, SumOfTotals

\* Two numbers, neither of them the greater.
LEMMA NoLessNoMore ==
  ASSUME NEW a \in Int, NEW b \in Int, a <= b, b <= a
  PROVE  a = b
OBVIOUS

\* Numbers with the least and the greatest of a set have its extremes.
LEMMA ExtremesRight ==
  ASSUME NEW S \in SUBSET Int, IsFiniteSet(S), NEW E \in SUBSET S,
         \A n \in S : \E lo, hi \in E : lo <= n /\ n <= hi
  PROVE  IF S = {} THEN E = {} ELSE Min(E) = Min(S) /\ Max(E) = Max(S)
<1>1. ASSUME S # {} PROVE Min(E) = Min(S) /\ Max(E) = Max(S)
  <2>1. E # {} /\ E \subseteq Int /\ IsFiniteSet(E)
    BY <1>1, FS_Subset
  <2>2. Min(S) \in S /\ (\A y \in S : Min(S) <= y) /\ Max(S) \in S /\ \A y \in S : y <= Max(S)
    BY <1>1, LeastMember, GreatestMember
  <2>3. Min(E) \in E /\ (\A y \in E : Min(E) <= y) /\ Max(E) \in E /\ \A y \in E : y <= Max(E)
    BY <2>1, LeastMember, GreatestMember
  <2>4. PICK lo \in E : lo <= Min(S)
    BY <2>2
  <2>5. PICK hi \in E : Max(S) <= hi
    BY <2>2
  <2>6. /\ Min(S) \in Int /\ Min(E) \in Int /\ Max(S) \in Int /\ Max(E) \in Int
        /\ lo \in Int /\ hi \in Int
    BY <2>1, <2>2, <2>3
  <2>7. Min(E) <= lo /\ hi <= Max(E) /\ Min(S) <= Min(E) /\ Max(E) <= Max(S)
    BY <2>2, <2>3
  <2>8. Min(E) <= Min(S) /\ Max(S) <= Max(E)
    BY <2>4, <2>5, <2>6, <2>7
  <2>9. QED
    BY <2>6, <2>7, <2>8, NoLessNoMore, Zenon
<1>2. QED
  BY <1>1

\* The rows that entries are about, and those of them that have a number. An
\* answer's tally is about these; only a whole tally is about all rows.
CoveredRows == {row \in AllRows : row[2] \in UNION SegmentEntries(files[row[1]], KindOf)}
NumberedRows == {row \in CoveredRows : CellOf(row, "num") # Null}
RowSum(rows) == SumFunction([row \in rows |-> CellOf(row, "num")])

\* What the synopses of the files before n come to.
SynopsisInv(t, n) ==
    LET rows == RowsBefore(NumberedRows, n)
    IN  /\ t = [rows |-> Cardinality(RowsBefore(CoveredRows, n)), present |-> Cardinality(rows),
                total |-> RowSum(rows), extremes |-> t.extremes]
        /\ t.extremes \subseteq {CellOf(row, "num") : row \in rows}
        /\ \A row \in rows : \E lo, hi \in t.extremes :
              lo <= CellOf(row, "num") /\ CellOf(row, "num") <= hi

\* Covered rows by their file and their place in it.
LEMMA NumberedMembers ==
  ASSUME files \in FileLists
  PROVE  /\ CoveredRows \in SUBSET AllRows /\ NumberedRows \in SUBSET AllRows
         /\ IsFiniteSet(NumberedRows)
         /\ \A row \in NumberedRows : CellOf(row, "num") \in Int
         /\ \A f, r : <<f, r>> \in CoveredRows <=>
              f \in DOMAIN files /\ r \in Ordinals(files[f]) /\ r \in UNION SegmentEntries(files[f], KindOf)
         /\ \A f, r : <<f, r>> \in NumberedRows <=>
              <<f, r>> \in CoveredRows /\ files[f].rows[r].num # Null
<1>1. CoveredRows \in SUBSET AllRows /\ NumberedRows \in SUBSET AllRows
  BY DEF CoveredRows, NumberedRows
<1>2. IsFiniteSet(NumberedRows)
  BY <1>1, AllRowsFinite, FS_Subset
<1>3. ASSUME NEW row \in NumberedRows PROVE CellOf(row, "num") \in Int
  <2>1. PICK f, r : f \in DOMAIN files /\ r \in Ordinals(files[f]) /\ row = <<f, r>>
    BY <1>1, RowMembers
  <2>2. files[f].rows[r].num \in {Null} \cup Int
    BY <2>1, DatasetTyped, FileFacts
  <2>3. QED
    BY <2>1, <2>2 DEF NumberedRows, CellOf
<1>4. \A f, r : <<f, r>> \in CoveredRows <=>
         f \in DOMAIN files /\ r \in Ordinals(files[f]) /\ r \in UNION SegmentEntries(files[f], KindOf)
  BY RowMembers DEF CoveredRows
<1>5. \A f, r : <<f, r>> \in NumberedRows <=> <<f, r>> \in CoveredRows /\ files[f].rows[r].num # Null
  BY DEF NumberedRows, CellOf
<1>6. QED
  BY <1>1, <1>2, <1>3, <1>4, <1>5

\* What the entries of one file come to.
LEMMA EntriesOfFile ==
  ASSUME files \in FileLists, file \in DOMAIN files,
         NEW R, R = UNION ValueEntries, NEW N, N = NotNull(Here, "num", R)
  PROVE  /\ R \in SUBSET Ordinals(files[file]) /\ N \in SUBSET Ordinals(files[file])
         /\ \A r \in Ordinals(files[file]) : r \in R <=> <<file, r>> \in CoveredRows
         /\ \A r \in Ordinals(files[file]) : r \in N <=> <<file, r>> \in NumberedRows
<1>1. R = UNION SegmentEntries(files[file], KindOf)
  BY DEF ValueEntries, Here
<1>2. R \in SUBSET Ordinals(files[file])
  BY <1>1, DatasetTyped, EntryFacts
<1>3. N = {r \in R : files[file].rows[r].num # Null}
  BY DEF NotNull, Here
<1>4. QED
  BY <1>1, <1>2, <1>3, NumberedMembers

\* The row counts of a file's entries come to the rows they are about.
LEMMA RowsOfEntries ==
  ASSUME files \in FileLists, file \in DOMAIN files
  PROVE  SumFunction([e \in ValueEntries |-> Cardinality(e)]) = Cardinality(UNION ValueEntries)
<1>1. PICK S : S = ValueEntries
  OBVIOUS
<1>2. /\ IsFiniteSet(S) /\ \A e \in S : IsFiniteSet(e)
      /\ \A e, d \in S : e = d \/ e \cap d = {}
  BY <1>1, DatasetTyped, EntryFacts DEF ValueEntries, Here
<1>3. PICK F, w, U : F = [e \in S |-> e] /\ w = [e \in S |-> Cardinality(e)] /\ U = UNION S
  OBVIOUS
<1>4. /\ DOMAIN F = S /\ DOMAIN w = S
      /\ \A e \in S : IsFiniteSet(F[e]) /\ w[e] = Cardinality(F[e])
      /\ \A e, d \in S : e = d \/ F[e] \cap F[d] = {}
      /\ \A z : z \in U <=> \E e \in S : z \in F[e]
  BY <1>2, <1>3
<1>5. SumFunction(w) = Cardinality(U)
  BY <1>2, <1>4, SumOfSizes
<1>6. QED
  BY <1>1, <1>3, <1>5

\* The sum over the entries of a file is the sum over its numbers.
LEMMA SumOfEntries ==
  ASSUME files \in FileLists, file \in DOMAIN files,
         NEW v, v = [row \in NumberedRows |-> CellOf(row, "num")],
         NEW g, IsTotal(NumberedRows, v, g),
         NEW H, H = {<<file, r>> : r \in NotNull(Here, "num", UNION ValueEntries)}
  PROVE  SumFunction([e \in ValueEntries |-> SumOf(Here, e)]) = g[H]
<1>1. PICK S, U, x : S = ValueEntries /\ U = NumberedRows /\ x = files[file]
  OBVIOUS
<1>2. /\ IsFiniteSet(S) /\ \A e \in S : IsFiniteSet(e)
      /\ \A e, d \in S : e = d \/ e \cap d = {}
  BY <1>1, DatasetTyped, EntryFacts DEF ValueEntries, Here
<1>3. IsFiniteSet(U) /\ IsTotal(U, v, g) /\ \A row \in U : v[row] \in Int
  BY <1>1, NumberedMembers
<1>4. \A r \in NotNull(x, "num", UNION S) : <<file, r>> \in U
  BY <1>1, EntriesOfFile DEF Here
<1>5. ASSUME NEW e \in S, NEW G, G = {<<file, r>> : r \in NotNull(x, "num", e)}
      PROVE  SumOf(x, e) = g[G] /\ G \in SUBSET U
  <2>1. PICK T, F, w : /\ T = NotNull(x, "num", e)
                       /\ F = [r \in T |-> {<<file, r>>}]
                       /\ w = [r \in T |-> x.rows[r].num]
    OBVIOUS
  <2>2. IsFiniteSet(T)
    <3>1. T \subseteq e
      BY <2>1 DEF NotNull
    <3>2. QED
      BY <1>2, <3>1, FS_Subset
  <2>3. \A r \in T : <<file, r>> \in U
    BY <1>4, <2>1 DEF NotNull
  <2>4. \A r \in T : F[r] \in SUBSET U
    BY <2>1, <2>3
  <2>5. \A r, q \in T : r = q \/ F[r] \cap F[q] = {}
    BY <2>1
  <2>6. ASSUME NEW r \in T PROVE w[r] = g[F[r]]
    <3>1. PICK row : row = <<file, r>>
      OBVIOUS
    <3>2. row \in U /\ v[row] = x.rows[r].num /\ v[row] \in Int
      BY <1>1, <1>3, <2>3, <3>1 DEF CellOf
    <3>3. g[{} \cup {row}] = v[row] + g[{}] /\ g[{}] = 0
      BY <1>3, <3>2 DEF IsTotal
    <3>4. g[{} \cup {row}] = v[row]
      BY <3>2, <3>3
    <3>5. {} \cup {row} = F[r]
      BY <2>1, <3>1
    <3>6. w[r] = v[row]
      BY <2>1, <3>2
    <3>7. QED
      BY <3>4, <3>5, <3>6
  <2>7. DOMAIN w = T /\ \A z : z \in G <=> \E r \in T : z \in F[r]
    BY <1>5, <2>1
  <2>8. SumFunction(w) = g[G]
    BY <1>3, <2>2, <2>4, <2>5, <2>6, <2>7, SumOfTotals
  <2>9. G \in SUBSET U
    BY <1>5, <2>1, <2>3
  <2>10. QED
    BY <2>1, <2>8, <2>9 DEF SumOf
<1>6. PICK F, w : /\ F = [e \in S |-> {<<file, r>> : r \in NotNull(x, "num", e)}]
                  /\ w = [e \in S |-> SumOf(x, e)]
  OBVIOUS
<1>7. ASSUME NEW e \in S PROVE w[e] = g[F[e]] /\ F[e] \in SUBSET U
  BY <1>5, <1>6
<1>8. \A e, d \in S : e = d \/ F[e] \cap F[d] = {}
  BY <1>2, <1>6 DEF NotNull
<1>9. DOMAIN w = S /\ \A z : z \in H <=> \E e \in S : z \in F[e]
  BY <1>1, <1>6 DEF NotNull, Here
<1>10. SumFunction(w) = g[H]
  <2>1. (\A e \in S : F[e] \in SUBSET U) /\ \A e \in S : w[e] = g[F[e]]
    BY <1>7
  <2>2. PICK W : W = H
    OBVIOUS
  <2>3. \A z : z \in W <=> \E e \in S : z \in F[e]
    BY <1>9, <2>2
  <2>4. SumFunction(w) = g[W]
    BY <1>2, <1>3, <1>8, <1>9, <2>1, <2>3, SumOfTotals
  <2>5. QED
    BY <2>2, <2>4
<1>11. QED
  BY <1>1, <1>6, <1>10 DEF Here

\* The record that stands for the files up to this one.
Added ==
    [rows |-> tally.rows + SumFunction([e \in ValueEntries |-> Cardinality(e)]),
     present |-> tally.present + Cardinality(NotNull(Here, "num", UNION ValueEntries)),
     total |-> tally.total + SumFunction([e \in ValueEntries |-> SumOf(Here, e)]),
     extremes |-> tally.extremes \cup UNION {Extremes(e) : e \in ValueEntries}]

\* The extremes of an entry are numbers of its rows and bound all of them.
LEMMA ExtremesOfEntry ==
  ASSUME files \in FileLists, file \in DOMAIN files, NEW e \in ValueEntries
  PROVE  /\ \A n \in Extremes(e) : \E r \in NotNull(Here, "num", e) : n = Here.rows[r].num
         /\ \A r \in NotNull(Here, "num", e) : \E lo, hi \in Extremes(e) :
              lo <= Here.rows[r].num /\ Here.rows[r].num <= hi
<1>1. PICK x, T : x = Here /\ T = NotNull(x, "num", e)
  OBVIOUS
<1>2. FileTyped(x) /\ e \in SUBSET Ordinals(x) /\ IsFiniteSet(e)
  BY <1>1, DatasetTyped, EntryFacts DEF ValueEntries, Here
<1>3. T \subseteq e /\ \A r \in T : x.rows[r].num \in Int
  BY <1>1, <1>2, FileFacts DEF NotNull
<1>4. IsFiniteSet(T)
  BY <1>2, <1>3, FS_Subset
<1>5. PICK S : S = Numbers(e)
  OBVIOUS
<1>6. S = {x.rows[r].num : r \in T}
  BY <1>1, <1>5 DEF Numbers
<1>7. S \subseteq Int /\ IsFiniteSet(S)
  <2>1. PICK num : num = [r \in T |-> x.rows[r].num]
    OBVIOUS
  <2>2. IsFiniteSet({num[r] : r \in T})
    BY <1>4, <2>1, FiniteRange
  <2>3. S = {num[r] : r \in T}
    BY <1>6, <2>1
  <2>4. QED
    BY <1>3, <1>6, <2>2, <2>3
<1>8. Extremes(e) = IF S = {} THEN {} ELSE {Min(S), Max(S)}
  BY <1>5 DEF Extremes
<1>9. S # {} => /\ Min(S) \in S /\ \A y \in S : Min(S) <= y
                /\ Max(S) \in S /\ \A y \in S : y <= Max(S)
  BY <1>7, LeastMember, GreatestMember
<1>10. \A n \in Extremes(e) : n \in S
  BY <1>8, <1>9
<1>11. \A n \in S : \E lo, hi \in Extremes(e) : lo <= n /\ n <= hi
  BY <1>8, <1>9
<1>12. QED
  BY <1>1, <1>6, <1>10, <1>11

\* The synopsis entries of a file are added to those of the files before.
LEMMA SynopsisFile ==
  ASSUME files \in FileLists, file \in DOMAIN files, SynopsisInv(tally, file)
  PROVE  SynopsisInv(Added, file + 1)
<1>1. PICK R, N : R = UNION ValueEntries /\ N = NotNull(Here, "num", R)
  OBVIOUS
<1>2. PICK H : H = {<<file, r>> : r \in N}
  OBVIOUS
<1>3. PICK C, P, B : C = CoveredRows /\ P = NumberedRows /\ B = RowsBefore(P, file)
  OBVIOUS
<1>4. PICK v : v = [row \in P |-> CellOf(row, "num")]
  OBVIOUS
<1>5. /\ R \in SUBSET Ordinals(files[file]) /\ N \in SUBSET Ordinals(files[file])
      /\ \A r \in Ordinals(files[file]) : r \in R <=> <<file, r>> \in C
      /\ \A r \in Ordinals(files[file]) : r \in N <=> <<file, r>> \in P
  BY <1>1, <1>3, EntriesOfFile
<1>6. /\ C \in SUBSET AllRows /\ P \in SUBSET AllRows /\ IsFiniteSet(P)
      /\ \A row \in P : CellOf(row, "num") \in Int
  BY <1>3, NumberedMembers
<1>7. Cardinality(RowsBefore(C, file + 1)) = Cardinality(RowsBefore(C, file)) + Cardinality(R)
  BY <1>5, <1>6, RowsCounted
<1>8. /\ RowsBefore(P, file + 1) = B \cup H
      /\ B \cap H = {}
      /\ Cardinality(RowsBefore(P, file + 1)) = Cardinality(B) + Cardinality(N)
  <2>1. PICK W : W = H
    OBVIOUS
  <2>2. \A row : row \in W <=> \E r \in N : row = <<file, r>>
    BY <1>2, <2>1
  <2>3. /\ RowsBefore(P, file + 1) = RowsBefore(P, file) \cup W
        /\ RowsBefore(P, file) \cap W = {}
        /\ Cardinality(RowsBefore(P, file + 1)) = Cardinality(RowsBefore(P, file)) + Cardinality(N)
    BY <1>5, <1>6, <2>2, RowsOfFile
  <2>4. QED
    BY <1>3, <2>1, <2>3
<1>9. B \in SUBSET P /\ H \in SUBSET P
  BY <1>2, <1>3, <1>5 DEF RowsBefore
<1>10. \A row \in P : v[row] \in Int
  BY <1>4, <1>6
<1>11. PICK g : IsTotal(P, v, g)
  BY <1>6, <1>10, TotalExists
<1>12. ASSUME NEW A \in SUBSET P PROVE RowSum(A) = g[A]
  <2>1. PICK w : w = [row \in A |-> CellOf(row, "num")]
    OBVIOUS
  <2>2. DOMAIN w = A /\ \A row \in A : w[row] = v[row]
    BY <1>4, <2>1
  <2>3. SumFunction(w) = g[A]
    BY <1>6, <1>10, <1>11, <2>2, SumOfPart
  <2>4. QED
    BY <2>1, <2>3 DEF RowSum
<1>13. RowSum(B \cup H) = RowSum(B) + g[H]
  <2>1. g[B \cup H] = g[B] + g[H]
    BY <1>6, <1>8, <1>9, <1>10, <1>11, TotalOfUnion
  <2>2. B \cup H \in SUBSET P
    BY <1>9
  <2>3. QED
    BY <1>9, <1>12, <2>1, <2>2
<1>14. SumFunction([e \in ValueEntries |-> SumOf(Here, e)]) = g[H]
  BY <1>1, <1>2, <1>3, <1>4, <1>11, SumOfEntries
<1>15. SumFunction([e \in ValueEntries |-> Cardinality(e)]) = Cardinality(R)
  BY <1>1, RowsOfEntries
<1>16. /\ tally.rows = Cardinality(RowsBefore(C, file)) /\ tally.present = Cardinality(B)
       /\ tally.total = RowSum(B)
       /\ tally.extremes \subseteq {CellOf(row, "num") : row \in B}
       /\ \A row \in B : \E lo, hi \in tally.extremes :
             lo <= CellOf(row, "num") /\ CellOf(row, "num") <= hi
  BY <1>3 DEF SynopsisInv
<1>17. PICK X : X = UNION {Extremes(e) : e \in ValueEntries}
  OBVIOUS
<1>18. \A n \in X : \E row \in H : n = CellOf(row, "num")
  <2>1. ASSUME NEW e \in ValueEntries, NEW n \in Extremes(e)
        PROVE  \E row \in H : n = CellOf(row, "num")
    <3>1. PICK r \in NotNull(Here, "num", e) : n = Here.rows[r].num
      BY <2>1, ExtremesOfEntry
    <3>2. r \in N
      BY <1>1, <2>1 DEF NotNull
    <3>3. <<file, r>> \in H /\ n = CellOf(<<file, r>>, "num")
      BY <1>2, <3>1, <3>2 DEF CellOf, Here
    <3>4. QED
      BY <3>3
  <2>2. QED
    BY <1>17, <2>1
<1>19. ASSUME NEW row \in H
       PROVE  \E lo, hi \in X : lo <= CellOf(row, "num") /\ CellOf(row, "num") <= hi
  <2>1. PICK r \in N : row = <<file, r>>
    BY <1>2
  <2>2. PICK e \in ValueEntries : r \in e
    BY <1>1 DEF NotNull
  <2>3. r \in NotNull(Here, "num", e)
    BY <1>1, <2>2 DEF NotNull
  <2>4. PICK lo, hi \in Extremes(e) : lo <= Here.rows[r].num /\ Here.rows[r].num <= hi
    BY <2>2, <2>3, ExtremesOfEntry
  <2>5. lo \in X /\ hi \in X
    BY <1>17, <2>2, <2>4
  <2>6. CellOf(row, "num") = Here.rows[r].num
    BY <2>1 DEF CellOf, Here
  <2>7. QED
    BY <2>4, <2>5, <2>6
<1>20. PICK t : t = Added
  OBVIOUS
<1>21. /\ t = [rows |-> Cardinality(RowsBefore(C, file + 1)),
               present |-> Cardinality(RowsBefore(P, file + 1)),
               total |-> RowSum(RowsBefore(P, file + 1)), extremes |-> t.extremes]
       /\ t.extremes = tally.extremes \cup X
  BY <1>1, <1>7, <1>8, <1>13, <1>14, <1>15, <1>16, <1>17, <1>20 DEF Added
<1>22. t.extremes \subseteq {CellOf(row, "num") : row \in B \cup H}
  BY <1>16, <1>18, <1>21
<1>23. ASSUME NEW row \in B \cup H
       PROVE  \E lo, hi \in t.extremes : lo <= CellOf(row, "num") /\ CellOf(row, "num") <= hi
  BY <1>16, <1>19, <1>21
<1>24. SynopsisInv(t, file + 1)
  BY <1>3, <1>8, <1>21, <1>22, <1>23 DEF SynopsisInv
<1>25. QED
  BY <1>20, <1>24

\* The files' row counts come to all rows.
LEMMA RowCounts ==
  ASSUME files \in FileLists
  PROVE  SumFunction([f \in DOMAIN files |-> RowCount(files[f])]) = Cardinality(AllRows)
<1>1. PICK S, U : S = DOMAIN files /\ U = AllRows
  OBVIOUS
<1>2. PICK F, w : /\ F = [f \in S |-> {<<f, r>> : r \in Ordinals(files[f])}]
                  /\ w = [f \in S |-> RowCount(files[f])]
  OBVIOUS
<1>3. IsFiniteSet(S)
  BY <1>1, AllRowsFinite
<1>4. ASSUME NEW f \in S PROVE IsFiniteSet(F[f]) /\ w[f] = Cardinality(F[f])
  <2>1. PICK R, T, pairs : /\ R = Ordinals(files[f]) /\ T = F[f]
                           /\ pairs = [r \in R |-> <<f, r>>]
    OBVIOUS
  <2>2. IsFiniteSet(R)
    BY <1>1, <2>1, DatasetTyped, FileFacts
  <2>3. /\ \A r \in R : pairs[r] \in T
        /\ \A t \in T : \E r \in R : pairs[r] = t
        /\ \A r, s \in R : pairs[r] = pairs[s] => r = s
    BY <1>2, <2>1
  <2>4. IsFiniteSet(T) /\ Cardinality(T) = Cardinality(R)
    BY <2>2, <2>3, SameSize
  <2>5. w[f] = Cardinality(R)
    BY <1>2, <2>1 DEF RowCount
  <2>6. QED
    BY <2>1, <2>4, <2>5
<1>5. \A f, g \in S : f = g \/ F[f] \cap F[g] = {}
  BY <1>2
<1>6. \A row : row \in U <=> \E f \in S : row \in F[f]
  BY <1>1, <1>2, RowMembers
<1>7. DOMAIN F = S /\ DOMAIN w = S
  BY <1>2
<1>8. (\A f \in S : IsFiniteSet(F[f])) /\ \A f \in S : w[f] = Cardinality(F[f])
  BY <1>4
<1>9. SumFunction(w) = Cardinality(U)
  BY <1>3, <1>5, <1>6, <1>7, <1>8, SumOfSizes
<1>10. QED
  BY <1>1, <1>2, <1>9

\* The numbers a scan finds are finitely many integers.
ScannedFinite == IsFiniteSet(ScannedNumbers) /\ ScannedNumbers \in SUBSET Int

LEMMA NumbersScanned ==
  ASSUME files \in FileLists
  PROVE  ScannedFinite
<1>1. PICK P : P = PresentRows("num")
  OBVIOUS
<1>2. P \in SUBSET AllRows /\ IsFiniteSet(P)
  BY <1>1, PresentMembers, AllRowsFinite, FS_Subset
<1>3. ASSUME NEW row \in P PROVE CellOf(row, "num") \in Int
  <2>1. PICK f, r : f \in DOMAIN files /\ r \in Ordinals(files[f]) /\ row = <<f, r>>
    BY <1>2, RowMembers
  <2>2. files[f].rows[r].num \in {Null} \cup Int
    BY <2>1, DatasetTyped, FileFacts
  <2>3. files[f].rows[r]["num"] # Null
    BY <1>1, <2>1, PresentMembers
  <2>4. QED
    BY <2>1, <2>2, <2>3 DEF CellOf
<1>4. PICK num : num = [row \in P |-> CellOf(row, "num")]
  OBVIOUS
<1>5. IsFiniteSet({num[row] : row \in P})
  BY <1>2, <1>4, FiniteRange
<1>6. ScannedNumbers = {num[row] : row \in P}
  BY <1>1, <1>4 DEF ScannedNumbers
<1>7. QED
  BY <1>3, <1>4, <1>5, <1>6 DEF ScannedFinite

\* What MetadataValuesExact says of a tally, by its parts.
ExtremesOf(E) ==
    IF ScannedNumbers = {} THEN E = {}
    ELSE Min(E) = Min(ScannedNumbers) /\ Max(E) = Max(ScannedNumbers)

ValuesRight ==
    /\ tally.present = Cardinality(PresentRows("num"))
    /\ request.type \in {"Sum", "Avg"} => tally.total = RowSum(PresentRows("num"))
    /\ request.type \in {"Min", "Max"} => ExtremesOf(tally.extremes)

\* Scanned numbers below and above every one of them are the extremes.
LEMMA ExtremesScanned ==
  ASSUME files \in FileLists, NEW E \in SUBSET ScannedNumbers,
         \A n \in ScannedNumbers : \E lo, hi \in E : lo <= n /\ n <= hi
  PROVE  ExtremesOf(E)
<1>1. PICK S : S = ScannedNumbers
  OBVIOUS
<1>2. S \in SUBSET Int /\ IsFiniteSet(S)
  BY <1>1, NumbersScanned DEF ScannedFinite
<1>3. IF S = {} THEN E = {} ELSE Min(E) = Min(S) /\ Max(E) = Max(S)
  BY <1>1, <1>2, ExtremesRight
<1>4. QED
  BY <1>1, <1>3 DEF ExtremesOf

\* Entries of all rows: the values of a scan.
LEMMA SynopsisDone ==
  ASSUME files \in FileLists, ~Unsafe, request.type # "Counts",
         SynopsisInv(tally, Len(files) + 1), CoversAll
  PROVE  ValuesRight
<1>1. PICK A, C, N, P : A = AllRows /\ C = CoveredRows /\ N = NumberedRows /\ P = PresentRows("num")
  OBVIOUS
<1>2. C \in SUBSET A /\ N \in SUBSET A /\ IsFiniteSet(A)
  BY <1>1, NumberedMembers, AllRowsFinite
<1>3. RowsBefore(C, Len(files) + 1) = C /\ RowsBefore(N, Len(files) + 1) = N
  BY <1>1, <1>2, RowsBounds
<1>4. Cardinality(C) = Cardinality(A)
  BY <1>1, <1>3, RowCounts DEF SynopsisInv, CoversAll
<1>5. C = A
  BY <1>2, <1>4, FS_Subset
<1>6. N = P
  BY <1>1, <1>5, AllFilesSafe DEF NumberedRows, PresentRows
<1>7. /\ tally.present = Cardinality(P) /\ tally.total = RowSum(P)
      /\ tally.extremes \subseteq {CellOf(row, "num") : row \in P}
      /\ \A row \in P : \E lo, hi \in tally.extremes :
            lo <= CellOf(row, "num") /\ CellOf(row, "num") <= hi
  BY <1>1, <1>3, <1>6 DEF SynopsisInv
<1>8. ScannedNumbers = {CellOf(row, "num") : row \in P}
  BY <1>1 DEF ScannedNumbers
<1>9. ExtremesOf(tally.extremes)
  <2>1. tally.extremes \in SUBSET ScannedNumbers
    BY <1>7, <1>8
  <2>2. \A n \in ScannedNumbers : \E lo, hi \in tally.extremes : lo <= n /\ n <= hi
    BY <1>7, <1>8
  <2>3. QED
    BY <2>1, <2>2, ExtremesScanned
<1>10. QED
  BY <1>1, <1>7, <1>9 DEF ValuesRight

\* The index of the one file has the extremes of its numbers.
LEMMA IndexedExtremes ==
  ASSUME files \in FileLists, Sidecar, request.type \in {"Min", "Max"},
         NEW found, found = {files[1].rows[r].num : r \in Indexed}
  PROVE  /\ Cardinality(Indexed) = Cardinality(PresentRows("num"))
         /\ ExtremesOf({n \in found : n \in {Min(found), Max(found)}})
<1>1. PICK I : I = Indexed
  OBVIOUS
<1>2. I = {r \in Ordinals(files[1]) : files[1].rows[r].num # Null}
  BY <1>1 DEF Indexed, IndexColumn, NotNull
<1>3. Cardinality(I) = Cardinality(PresentRows("num"))
  BY <1>2, OneFileCount
<1>4. \A row : row \in PresentRows("num") <=>
         \E r \in Ordinals(files[1]) : row = <<1, r>> /\ files[1].rows[r]["num"] # Null
  BY OneFileCount
<1>5. found = ScannedNumbers
  <2>1. \A n \in found : \E r \in I : n = files[1].rows[r].num
    BY <1>1
  <2>2. \A n \in ScannedNumbers : \E r \in I : n = files[1].rows[r].num
    BY <1>2, <1>4 DEF ScannedNumbers, CellOf
  <2>3. ASSUME NEW r \in I PROVE files[1].rows[r].num \in ScannedNumbers
    <3>1. <<1, r>> \in PresentRows("num") /\ CellOf(<<1, r>>, "num") = files[1].rows[r].num
      BY <1>2, <1>4 DEF CellOf
    <3>2. QED
      BY <3>1 DEF ScannedNumbers
  <2>4. QED
    BY <1>1, <2>1, <2>2, <2>3
<1>6. PICK E : E = {n \in found : n \in {Min(found), Max(found)}}
  OBVIOUS
<1>7. \A n \in found : \E lo, hi \in E : lo <= n /\ n <= hi
  <2>1. found \subseteq Int /\ IsFiniteSet(found)
    BY <1>5, NumbersScanned DEF ScannedFinite
  <2>2. found # {} => /\ Min(found) \in found /\ \A y \in found : Min(found) <= y
                      /\ Max(found) \in found /\ \A y \in found : y <= Max(found)
    BY <2>1, LeastMember, GreatestMember
  <2>3. QED
    BY <1>6, <2>2
<1>8. ExtremesOf(E)
  <2>1. E \in SUBSET ScannedNumbers
    BY <1>5, <1>6
  <2>2. \A n \in ScannedNumbers : \E lo, hi \in E : lo <= n /\ n <= hi
    BY <1>5, <1>7
  <2>3. QED
    BY <2>1, <2>2, ExtremesScanned
<1>9. QED
  BY <1>1, <1>3, <1>6, <1>8

------------------------------------------------------------------------------
(* The inductive invariant of the aggregates                                *)

\* What the tally stands for while the aggregate is being asked for.
AskingInv ==
    /\ Asking("Counts") => CountsInv(tally, file)
    /\ Asking("Filtered") => FilteredInv(tally, file)
    /\ Asking("Groups") => GroupsInv(tally, file)
    /\ IsValue => \/ path = "synopsis" /\ SynopsisInv(tally, file)
                  \/ path = "index" /\ request.type \in {"Min", "Max"} /\ tally = Zero(request)

\* The dataset and the aggregate are the ones asked about.
AskedInv == files \in FileLists /\ request \in Aggregates /\ AnswerTypeOK

\* The inductive invariant: the tally stands for the files before the next, and
\* an answer is right.
AnswerInv == AskedInv /\ AskingInv /\ MetadataCountsExact /\ MetadataValuesExact

\* The two properties say what is so once an answer is there.
MetadataRight ==
    /\ ~NeedsRedacted /\ CountsRight
    /\ request.type \in {"Min", "Max", "Sum", "Avg"} => ValuesRight

\* Both properties at once.
LEMMA RightAnswers ==
  (reply = "answered" => MetadataRight) <=> MetadataCountsExact /\ MetadataValuesExact
BY DEF MetadataRight, MetadataCountsExact, MetadataValuesExact, ValuesRight, ExtremesOf, RowSum

\* Before the first file every tally is right.
LEMMA NothingCounted ==
  ASSUME files \in FileLists, request \in Aggregates
  PROVE  /\ request.type = "Counts" => CountsInv(Zero(request), 1)
         /\ request.type = "Filtered" => FilteredInv(Zero(request), 1)
         /\ request.type = "Groups" => GroupsInv(Zero(request), 1)
         /\ request.type \in {"Min", "Max", "Sum", "Avg"} => SynopsisInv(Zero(request), 1)
<1>1. ASSUME NEW P \in SUBSET AllRows PROVE RowsBefore(P, 1) = {} /\ Cardinality(RowsBefore(P, 1)) = 0
  BY RowsBounds, FS_EmptySet
<1>2. DOMAIN files \subseteq Nat \ {0}
  BY DatasetTyped
<1>3. ASSUME request.type = "Counts" PROVE CountsInv(Zero(request), 1)
  <2>1. Zero(request) = [c \in DOMAIN request.cols |-> 0]
    BY <1>3 DEF Zero
  <2>2. ASSUME NEW col PROVE Cardinality(RowsBefore(PresentRows(col), 1)) = 0
    BY <1>1, PresentMembers, AllRowsFinite
  <2>3. \A f \in DOMAIN files : ~(f < 1)
    BY <1>2
  <2>4. QED
    BY <2>1, <2>2, <2>3 DEF CountsInv
<1>4. ASSUME request.type = "Filtered" PROVE FilteredInv(Zero(request), 1)
  <2>1. FilteredRows \in SUBSET AllRows
    BY PresentMembers, AllRowsFinite DEF FilteredRows
  <2>2. QED
    BY <1>1, <1>4, <2>1 DEF FilteredInv, Zero
<1>5. ASSUME request.type = "Groups" PROVE GroupsInv(Zero(request), 1)
  <2>1. Zero(request) = [v \in Values |-> 0]
    BY <1>5 DEF Zero
  <2>2. ASSUME NEW v PROVE Cardinality(RowsBefore(RowsOfValue(v), 1)) = 0
    <3>1. RowsOfValue(v) \in SUBSET AllRows
      BY AllRowsFinite DEF RowsOfValue
    <3>2. QED
      BY <1>1, <3>1
  <2>3. RowsBefore(VisibleRows, 1) = {}
    BY <1>1, AllRowsFinite
  <2>4. QED
    BY <2>1, <2>2, <2>3 DEF GroupsInv
<1>6. ASSUME request.type \in {"Min", "Max", "Sum", "Avg"} PROVE SynopsisInv(Zero(request), 1)
  <2>1. Zero(request) = [rows |-> 0, present |-> 0, total |-> 0, extremes |-> {}]
    BY <1>6 DEF Zero
  <2>2. /\ RowsBefore(CoveredRows, 1) = {} /\ Cardinality(RowsBefore(CoveredRows, 1)) = 0
        /\ RowsBefore(NumberedRows, 1) = {} /\ Cardinality(RowsBefore(NumberedRows, 1)) = 0
    BY <1>1, NumberedMembers
  <2>3. RowSum({}) = 0
    <3>1. PICK w, g : w = [row \in {} |-> CellOf(row, "num")] /\ g = [A \in SUBSET {} |-> 0]
      OBVIOUS
    <3>2. IsTotal({}, w, g) /\ DOMAIN w = {} /\ IsFiniteSet({})
      BY <3>1, FS_EmptySet DEF IsTotal
    <3>3. SumFunction(w) = g[{}]
      BY <3>2, SumIsTotal
    <3>4. QED
      BY <3>1, <3>3 DEF RowSum
  <2>4. QED
    BY <2>1, <2>2, <2>3 DEF SynopsisInv
<1>7. QED
  BY <1>3, <1>4, <1>5, <1>6

\* An attempt begins with nothing counted.
LEMMA AnswerInvInit == AnswerInit => AnswerInv
<1>1. SUFFICES ASSUME AnswerInit PROVE AnswerInv
  OBVIOUS
<1>2. files \in FileLists /\ request \in Aggregates /\ reply = "asking"
      /\ path = "synopsis" /\ file = 1 /\ tally = Zero(request)
  BY <1>1 DEF AnswerInit
<1>3. AskedInv
  BY <1>2, DatasetTyped DEF AskedInv, AnswerTypeOK
<1>4. AskingInv
  BY <1>2, NothingCounted DEF AskingInv, Asking, IsValue
<1>5. QED
  BY <1>2, <1>3, <1>4 DEF AnswerInv, MetadataCountsExact, MetadataValuesExact

\* The request and the dataset stay, and with them the meaning of a tally.
LEMMA MeaningKept ==
  ASSUME files' = files, request' = request
  PROVE  /\ CountsInv(tally', file') => CountsInv(tally, file)'
         /\ FilteredInv(tally', file') => FilteredInv(tally, file)'
         /\ GroupsInv(tally', file') => GroupsInv(tally, file)'
         /\ SynopsisInv(tally', file') => SynopsisInv(tally, file)'
<1>1. VisibleRows' = VisibleRows /\ AllRows' = AllRows
  BY DEF VisibleRows, AllRows, Ordinals
<1>2. CountsInv(tally', file') => CountsInv(tally, file)'
  BY DEF CountsInv, RowsBefore, PresentRows, VisibleRows, CellOf
<1>3. FilteredInv(tally', file') => FilteredInv(tally, file)'
  BY DEF FilteredInv, FilteredRows, RowsBefore, PresentRows, VisibleRows, CellOf
<1>4. GroupsInv(tally', file') => GroupsInv(tally, file)'
  BY DEF GroupsInv, RowsOfValue, RowsBefore, VisibleRows, CellOf
<1>5. SynopsisInv(tally', file') => SynopsisInv(tally, file)'
  <2>1. KindOf' = KindOf
    BY DEF KindOf
  <2>2. CoveredRows' = CoveredRows
    BY <1>1, <2>1 DEF CoveredRows, SegmentEntries
  <2>3. NumberedRows' = NumberedRows
    BY <2>2 DEF NumberedRows, CellOf
  <2>4. QED
    BY <2>2, <2>3 DEF SynopsisInv, RowSum, RowsBefore, CellOf
<1>6. QED
  BY <1>2, <1>3, <1>4, <1>5

\* No step changes the dataset or the aggregate.
LEMMA AskedKept ==
  ASSUME AskedInv, files' = files, request' = request, path' \in {"synopsis", "lookup", "index"},
         file' \in 1 .. Len(files) + 1,
         reply' \in {"idle", "asking", "answered", "scan", "failed"}
  PROVE  AskedInv'
BY DEF AskedInv, AnswerTypeOK

\* An aggregate left to the scan, or failed, is over.
LEMMA NoAnswer ==
  ASSUME AnswerInv, reply' \in {"scan", "failed"}, UNCHANGED <<files, request, path, file, tally>>
  PROVE  AnswerInv'
<1>1. AskedInv'
  BY AskedKept DEF AnswerInv, AskedInv, AnswerTypeOK
<1>2. reply' # "asking" /\ reply' # "answered"
  OBVIOUS
<1>3. AskingInv'
  BY <1>2 DEF AskingInv, Asking, IsValue
<1>4. QED
  BY <1>1, <1>2, <1>3 DEF AnswerInv, MetadataCountsExact, MetadataValuesExact

\* A step that goes on keeps the invariant when its tally is right.
LEMMA StillAsking ==
  ASSUME AnswerInv, files' = files, request' = request, reply' = "asking",
         path' \in {"synopsis", "lookup", "index"}, file' \in 1 .. Len(files) + 1,
         request.type = "Counts" => CountsInv(tally', file'),
         request.type = "Filtered" => FilteredInv(tally', file'),
         request.type = "Groups" => GroupsInv(tally', file'),
         request.type \in {"Min", "Max", "Sum", "Avg"} =>
            \/ path' = "synopsis" /\ SynopsisInv(tally', file')
            \/ path' = "index" /\ request.type \in {"Min", "Max"} /\ tally' = Zero(request)
  PROVE  AnswerInv'
<1>1. AskedInv'
  BY AskedKept DEF AnswerInv
<1>2. Asking("Counts")' => CountsInv(tally, file)'
  BY MeaningKept DEF Asking
<1>3. Asking("Filtered")' => FilteredInv(tally, file)'
  BY MeaningKept DEF Asking
<1>4. Asking("Groups")' => GroupsInv(tally, file)'
  BY MeaningKept DEF Asking
<1>5. ASSUME IsValue'
      PROVE  \/ path' = "synopsis" /\ SynopsisInv(tally, file)'
             \/ path' = "index" /\ request'.type \in {"Min", "Max"} /\ tally' = Zero(request)'
  <2>1. request.type \in {"Min", "Max", "Sum", "Avg"}
    BY <1>5 DEF IsValue
  <2>2. CASE path' = "synopsis" /\ SynopsisInv(tally', file')
    BY <2>2, MeaningKept
  <2>3. CASE path' = "index" /\ request.type \in {"Min", "Max"} /\ tally' = Zero(request)
    BY <2>3 DEF Zero
  <2>4. QED
    BY <2>1, <2>2, <2>3
<1>6. AskingInv'
  BY <1>2, <1>3, <1>4, <1>5 DEF AskingInv
<1>7. QED
  BY <1>1, <1>6 DEF AnswerInv, MetadataCountsExact, MetadataValuesExact

\* A step that answers keeps the invariant when its tally is right.
LEMMA Answered ==
  ASSUME AnswerInv, reply' = "answered", UNCHANGED <<files, request, path, file>>, MetadataRight'
  PROVE  AnswerInv'
<1>1. AskedInv'
  BY AskedKept DEF AnswerInv, AskedInv, AnswerTypeOK
<1>2. AskingInv'
  BY DEF AskingInv, Asking, IsValue
<1>3. MetadataCountsExact' /\ MetadataValuesExact'
  BY DEF MetadataRight, MetadataCountsExact, MetadataValuesExact, ValuesRight, ExtremesOf, RowSum
<1>4. QED
  BY <1>1, <1>2, <1>3 DEF AnswerInv

\* The file to look at is one of the dataset or its end.
LEMMA FileInRange ==
  ASSUME AskedInv
  PROVE  /\ InFiles => file \in DOMAIN files /\ file + 1 \in 1 .. Len(files) + 1
         /\ ~InFiles => file = Len(files) + 1
         /\ 1 \in 1 .. Len(files) + 1
BY DatasetTyped DEF AskedInv, AnswerTypeOK, InFiles

\* Only an index of the one file answers.
LEMMA IndexOfSidecar ==
  ASSUME NEW cols, NEW aggregate, FromIndex(cols, aggregate) = "answer"
  PROVE  Sidecar
BY DEF FromIndex

\* Nothing redacted in the one file of a sidecar.
LEMMA SidecarReadable ==
  ASSUME files \in FileLists, Sidecar
  PROVE  ~NeedsRedacted
BY OneFile DEF NeedsRedacted

\* Counts that grow by the next file.
LEMMA CountStep ==
  ASSUME AnswerInv, CountFile \/ CountByHistogram \/ CountByLookup \/ GroupByHistogram \/ GroupByLookup
  PROVE  AnswerInv'
<1>1. files \in FileLists /\ request \in Aggregates /\ AskedInv /\ AskingInv
      /\ path \in {"synopsis", "lookup", "index"}
  BY DEF AnswerInv, AskedInv, AnswerTypeOK
<1>2. ASSUME CountFile PROVE AnswerInv'
  <2>1. /\ request.type = "Counts" /\ file \in DOMAIN files /\ CountsInv(tally, file)
        /\ file + 1 \in 1 .. Len(files) + 1
    BY <1>1, <1>2, FileInRange DEF CountFile, AskingInv, Asking
  <2>2. /\ file' = file + 1
        /\ tally' = [c \in DOMAIN request.cols |-> tally[c] + FileCount(Here, request.cols[c])[1]]
        /\ files' = files /\ request' = request /\ path' = path /\ reply' = "asking"
    BY <1>2 DEF CountFile, Advance, Asking
  <2>3. CountsInv(tally', file')
    BY <1>1, <1>2, <2>1, <2>2, CountFileKeeps DEF CountFile
  <2>4. QED
    BY <1>1, <2>1, <2>2, <2>3, StillAsking
<1>3. ASSUME CountByHistogram \/ CountByLookup PROVE AnswerInv'
  <2>1. /\ request.type = "Filtered" /\ file \in DOMAIN files /\ FilteredInv(tally, file) /\ ~Unsafe
        /\ file + 1 \in 1 .. Len(files) + 1
    BY <1>1, <1>3, FileInRange DEF CountByHistogram, CountByLookup, AskingInv, Asking
  <2>2. PICK R : R = WithCodes(Here, CodesIn(Here, request.values), Ordinals(Here))
    OBVIOUS
  <2>3. /\ file' = file + 1 /\ tally' = tally + Cardinality(R)
        /\ files' = files /\ request' = request /\ path' = path /\ reply' = "asking"
    <3>1. CASE CountByHistogram
      <4>1. HasHistograms
        BY <3>1 DEF CountByHistogram
      <4>2. ASSUME NEW codes
            PROVE  SumFunction([e \in Histograms |-> Cardinality(WithCodes(Here, codes, e))]) =
                      Cardinality(WithCodes(Here, codes, Ordinals(Here)))
        BY <1>1, <2>1, <4>1, HistogramsCount
      <4>3. QED
        BY <2>2, <3>1, <4>2 DEF CountByHistogram, Advance, Asking
    <3>2. CASE CountByLookup
      BY <2>2, <3>2 DEF CountByLookup, Advance, Asking
    <3>3. QED
      BY <1>3, <3>1, <3>2
  <2>4. FilteredInv(tally', file')
    BY <1>1, <2>1, <2>2, <2>3, FilteredFile
  <2>5. QED
    BY <1>1, <2>1, <2>3, <2>4, StillAsking
<1>4. ASSUME GroupByHistogram \/ GroupByLookup PROVE AnswerInv'
  <2>1. /\ request.type = "Groups" /\ file \in DOMAIN files /\ GroupsInv(tally, file) /\ ~Unsafe
        /\ file + 1 \in 1 .. Len(files) + 1 /\ ~HasNulls
    BY <1>1, <1>4, FileInRange DEF GroupByHistogram, GroupByLookup, AskingInv, Asking
  <2>2. /\ file' = file + 1 /\ tally' = AddedToGroups(Ordinals(Here))
        /\ files' = files /\ request' = request /\ path' = path /\ reply' = "asking"
    <3>1. CASE GroupByHistogram
      <4>1. UNION Histograms = Ordinals(Here)
        BY <3>1 DEF GroupByHistogram, HasHistograms, Covered
      <4>2. QED
        BY <3>1, <4>1 DEF GroupByHistogram, Advance, Asking
    <3>2. CASE GroupByLookup
      BY <3>2 DEF GroupByLookup, Advance, Asking
    <3>3. QED
      BY <1>4, <3>1, <3>2
  <2>3. GroupsInv(tally', file')
    BY <1>1, <2>1, <2>2, GroupsFile
  <2>4. QED
    BY <1>1, <2>1, <2>2, <2>3, StillAsking
<1>5. QED
  BY <1>2, <1>3, <1>4

\* Values that grow by the entries of the next file, and attempts that begin anew.
LEMMA ValueStep ==
  ASSUME AnswerInv, AddFile \/ TryLookups \/ NoEntries \/ ValueIncomplete
  PROVE  AnswerInv'
<1>1. files \in FileLists /\ request \in Aggregates /\ AskedInv /\ AskingInv
      /\ path \in {"synopsis", "lookup", "index"} /\ file \in 1 .. Len(files) + 1
  BY DEF AnswerInv, AskedInv, AnswerTypeOK
<1>2. ASSUME AddFile PROVE AnswerInv'
  <2>1. /\ request.type \in {"Min", "Max", "Sum", "Avg"} /\ file \in DOMAIN files
        /\ SynopsisInv(tally, file) /\ file + 1 \in 1 .. Len(files) + 1
    BY <1>1, <1>2, FileInRange DEF AddFile, AskingInv, IsValue
  <2>2. /\ file' = file + 1 /\ tally' = Added
        /\ files' = files /\ request' = request /\ path' = "synopsis" /\ reply' = "asking"
    BY <1>2 DEF AddFile, Advance, IsValue, Added
  <2>3. SynopsisInv(tally', file')
    BY <1>1, <2>1, <2>2, SynopsisFile
  <2>4. QED
    BY <1>1, <2>1, <2>2, <2>3, StillAsking
<1>3. ASSUME TryLookups PROVE AnswerInv'
  <2>1. /\ request.type \in {"Filtered", "Groups"} /\ file' = 1 /\ tally' = Zero(request)
        /\ files' = files /\ request' = request /\ path' = "lookup" /\ reply' = "asking"
    BY <1>3 DEF TryLookups
  <2>2. /\ request.type = "Filtered" => FilteredInv(tally', file')
        /\ request.type = "Groups" => GroupsInv(tally', file')
    BY <1>1, <2>1, NothingCounted
  <2>3. QED
    BY <1>1, <2>1, <2>2, FileInRange, StillAsking
<1>4. ASSUME NoEntries \/ ValueIncomplete PROVE AnswerInv'
  <2>1. LeaveSynopses /\ IsValue
    BY <1>4 DEF NoEntries, ValueIncomplete
  <2>2. CASE KindOf = "MinMax"
    <3>1. /\ request.type \in {"Min", "Max"} /\ tally' = Zero(request) /\ file' = file
          /\ files' = files /\ request' = request /\ path' = "index" /\ reply' = "asking"
      BY <2>1, <2>2 DEF LeaveSynopses, IsValue, KindOf
    <3>2. QED
      BY <1>1, <3>1, StillAsking
  <2>3. CASE KindOf # "MinMax"
    <3>1. reply' = "scan" /\ UNCHANGED <<files, request, path, file, tally>>
      BY <2>1, <2>3 DEF LeaveSynopses, Conclude
    <3>2. QED
      BY <3>1, NoAnswer
  <2>4. QED
    BY <2>2, <2>3
<1>5. QED
  BY <1>2, <1>3, <1>4

\* What a scan finds depends on the files alone.
LEMMA RowsKept ==
  ASSUME files' = files
  PROVE  /\ VisibleRows' = VisibleRows /\ ScannedNumbers' = ScannedNumbers
         /\ \A col : PresentRows(col)' = PresentRows(col)
         /\ \A row, col : CellOf(row, col)' = CellOf(row, col)
         /\ RowSum(PresentRows("num"))' = RowSum(PresentRows("num"))
<1>1. VisibleRows' = VisibleRows
  BY DEF VisibleRows
<1>2. \A row, col : CellOf(row, col)' = CellOf(row, col)
  BY DEF CellOf
<1>3. \A col : PresentRows(col)' = PresentRows(col)
  BY <1>1 DEF PresentRows, CellOf
<1>4. PresentRows("num")' = PresentRows("num")
  BY <1>1 DEF PresentRows, CellOf
<1>5. ScannedNumbers' = ScannedNumbers
  BY <1>4 DEF ScannedNumbers, CellOf
<1>6. RowSum(PresentRows("num"))' = RowSum(PresentRows("num"))
  BY <1>4 DEF RowSum, CellOf
<1>7. QED
  BY <1>1, <1>2, <1>3, <1>5, <1>6

\* A tally that was right stays right.
LEMMA RightKept ==
  ASSUME MetadataRight, files' = files, request' = request, tally' = tally
  PROVE  MetadataRight'
<1>1. NeedsRedacted' = NeedsRedacted
  BY DEF NeedsRedacted
<1>2. VisibleRows' = VisibleRows /\ ScannedNumbers' = ScannedNumbers
  BY RowsKept
<1>3. CountsRight'
  <2>1. CountsRight
    BY DEF MetadataRight
  <2>2. CASE request.type = "Counts"
    BY <1>2, <2>1, <2>2 DEF CountsRight, PresentRows, CellOf
  <2>3. CASE request.type = "Filtered"
    BY <1>2, <2>1, <2>3 DEF CountsRight, PresentRows, CellOf
  <2>4. CASE request.type = "Groups"
    BY <1>2, <2>1, <2>4 DEF CountsRight, PresentRows, CellOf
  <2>5. CASE request.type = "Distinct"
    BY <1>2, <2>1, <2>5 DEF CountsRight, PresentRows, CellOf
  <2>6. CASE request.type \notin {"Counts", "Filtered", "Groups", "Distinct"}
    BY <2>6 DEF CountsRight
  <2>7. QED
    BY <2>2, <2>3, <2>4, <2>5, <2>6
<1>4. ASSUME ValuesRight PROVE ValuesRight'
  <2>1. PresentRows("num")' = PresentRows("num")
    BY <1>2 DEF PresentRows, CellOf
  <2>2. RowSum(PresentRows("num"))' = RowSum(PresentRows("num"))
    BY RowsKept
  <2>3. ExtremesOf(tally.extremes)' <=> ExtremesOf(tally.extremes)
    BY <1>2 DEF ExtremesOf
  <2>4. QED
    BY <1>4, <2>1, <2>2, <2>3 DEF ValuesRight
<1>5. QED
  BY <1>1, <1>3, <1>4 DEF MetadataRight

\* An answer from the files' own metadata, once all files are in it.
LEMMA TalliedAnswer ==
  ASSUME AnswerInv, AnswerCount \/ AnswerValue
  PROVE  AnswerInv'
<1>1. files \in FileLists /\ request \in Aggregates /\ AskedInv /\ AskingInv
  BY DEF AnswerInv, AskedInv
<1>2. file = Len(files) + 1 /\ ~Unsafe /\ reply = "asking"
  BY <1>1, FileInRange DEF AnswerCount, AnswerValue, IsValue
<1>3. reply' = "answered" /\ UNCHANGED <<files, request, path, file, tally>>
  BY DEF AnswerCount, AnswerValue, Conclude
<1>4. ASSUME AnswerCount PROVE MetadataRight
  <2>1. request.type \in {"Counts", "Filtered", "Groups"}
    BY <1>4 DEF AnswerCount
  <2>2. ~NeedsRedacted /\ CountsRight
    <3>1. CASE request.type = "Counts"
      BY <1>1, <1>2, <3>1, CountsDone DEF AskingInv, Asking
    <3>2. CASE request.type = "Filtered"
      BY <1>1, <1>2, <3>2, FilteredDone DEF AskingInv, Asking
    <3>3. CASE request.type = "Groups"
      BY <1>1, <1>2, <3>3, GroupsDone DEF AskingInv, Asking
    <3>4. QED
      BY <2>1, <3>1, <3>2, <3>3
  <2>3. QED
    BY <2>1, <2>2 DEF MetadataRight
<1>5. ASSUME AnswerValue PROVE MetadataRight
  <2>1. request.type \in {"Min", "Max", "Sum", "Avg"} /\ SynopsisInv(tally, file) /\ CoversAll
    BY <1>1, <1>5 DEF AnswerValue, AskingInv, IsValue
  <2>2. ValuesRight
    BY <1>1, <1>2, <2>1, SynopsisDone
  <2>3. ~NeedsRedacted
    BY <1>1, <1>2, <2>1, AllFilesSafe
  <2>4. CountsRight
    BY <2>1 DEF CountsRight
  <2>5. QED
    BY <2>2, <2>3, <2>4 DEF MetadataRight
<1>6. MetadataRight
  BY <1>4, <1>5
<1>7. MetadataRight'
  BY <1>3, <1>6, RightKept
<1>8. QED
  BY <1>3, <1>7, Answered

\* So what a right answer is depends on the tally alone.
LEMMA ScanKept ==
  ASSUME files' = files, request' = request
  PROVE  /\ NeedsRedacted' = NeedsRedacted
         /\ request.type = "Counts" =>
              (CountsRight' <=> tally' = [c \in DOMAIN request.cols |->
                                            Cardinality(PresentRows(request.cols[c]))])
         /\ request.type = "Distinct" =>
              (CountsRight' <=> tally' = Cardinality({CellOf(row, request.col) :
                                                       row \in PresentRows(request.col)}))
         /\ request.type \in {"Min", "Max"} =>
              (ValuesRight' <=> /\ tally'.present = Cardinality(PresentRows("num"))
                                /\ ExtremesOf(tally'.extremes))
<1>1. NeedsRedacted' = NeedsRedacted
  BY DEF NeedsRedacted
<1>2. ASSUME request.type = "Counts"
      PROVE  CountsRight' <=> tally' = [c \in DOMAIN request.cols |->
                                           Cardinality(PresentRows(request.cols[c]))]
  BY <1>2 DEF CountsRight, PresentRows, VisibleRows, CellOf
<1>3. ASSUME request.type = "Distinct"
      PROVE  CountsRight' <=> tally' = Cardinality({CellOf(row, request.col) :
                                                      row \in PresentRows(request.col)})
  BY <1>3 DEF CountsRight, PresentRows, VisibleRows, CellOf
<1>4. ASSUME request.type \in {"Min", "Max"}
      PROVE  ValuesRight' <=> /\ tally'.present = Cardinality(PresentRows("num"))
                              /\ ExtremesOf(tally'.extremes)
  <2>1. PresentRows("num")' = PresentRows("num")
    BY DEF PresentRows, VisibleRows, CellOf
  <2>2. ScannedNumbers' = ScannedNumbers
    BY RowsKept
  <2>3. ExtremesOf(tally.extremes)' <=> ExtremesOf(tally'.extremes)
    BY <2>2 DEF ExtremesOf
  <2>4. QED
    BY <1>4, <2>1, <2>3 DEF ValuesRight
<1>5. QED
  BY <1>1, <1>2, <1>3, <1>4

\* An answer from the sidecar index of the one file.
LEMMA IndexAnswer ==
  ASSUME AnswerInv, CountByIndex \/ DistinctByIndex \/ ExtremesByIndex
  PROVE  AnswerInv'
<1>1. files \in FileLists /\ request \in Aggregates /\ AskedInv /\ AskingInv
  BY DEF AnswerInv, AskedInv
<1>2. reply' = "answered" /\ UNCHANGED <<files, request, path, file>> /\ Sidecar
  BY IndexOfSidecar DEF CountByIndex, DistinctByIndex, ExtremesByIndex
<1>3. ~NeedsRedacted'
  BY <1>1, <1>2, SidecarReadable, ScanKept
<1>4. ASSUME CountByIndex PROVE MetadataRight'
  <2>1. request.type = "Counts" /\ DOMAIN files = {1}
    BY <1>1, <1>2, <1>4, OneFile DEF CountByIndex, Asking
  <2>2. ASSUME NEW c \in DOMAIN request.cols
        PROVE  (IF request.cols[c] = "*" THEN RowCount(files[1])
                ELSE Cardinality(NotNull(files[1], request.cols[c], Ordinals(files[1])))) =
                  Cardinality(PresentRows(request.cols[c]))
    <3>1. PICK col, R : /\ col = request.cols[c]
                        /\ R = {r \in Ordinals(files[1]) : col = "*" \/ files[1].rows[r][col] # Null}
      OBVIOUS
    <3>2. Cardinality(PresentRows(col)) = Cardinality(R)
      BY <1>1, <1>2, <3>1, OneFileCount
    <3>3. R = IF col = "*" THEN Ordinals(files[1]) ELSE NotNull(files[1], col, Ordinals(files[1]))
      BY <3>1 DEF NotNull
    <3>4. QED
      BY <3>1, <3>2, <3>3 DEF RowCount
  <2>3. tally' = [c \in DOMAIN request.cols |-> Cardinality(PresentRows(request.cols[c]))]
    BY <1>4, <2>2 DEF CountByIndex
  <2>4. CountsRight'
    BY <1>2, <2>1, <2>3, ScanKept
  <2>5. QED
    BY <1>2, <1>3, <2>1, <2>4 DEF MetadataRight
<1>5. ASSUME DistinctByIndex PROVE MetadataRight'
  <2>1. request.type = "Distinct" /\ request.col \in {"num", "cat"}
    BY <1>1, <1>5, AskedColumns DEF DistinctByIndex, Asking
  <2>2. PICK col : col = request.col
    OBVIOUS
  <2>3. Indexed = {r \in Ordinals(files[1]) : files[1].rows[r][col] # Null}
    BY <2>1, <2>2 DEF Indexed, IndexColumn, NotNull
  <2>4. \A row : row \in PresentRows(col) <=>
           \E r \in Ordinals(files[1]) : row = <<1, r>> /\ (col = "*" \/ files[1].rows[r][col] # Null)
    BY <1>1, <1>2, OneFileCount
  <2>5. PICK X, Y : /\ X = {files[1].rows[r][col] : r \in Indexed}
                    /\ Y = {CellOf(row, col) : row \in PresentRows(col)}
    OBVIOUS
  <2>6. X = Y
    <3>1. ASSUME NEW r \in Indexed PROVE files[1].rows[r][col] \in Y
      <4>1. <<1, r>> \in PresentRows(col) /\ CellOf(<<1, r>>, col) = files[1].rows[r][col]
        BY <2>3, <2>4 DEF CellOf
      <4>2. QED
        BY <2>5, <4>1
    <3>2. ASSUME NEW row \in PresentRows(col) PROVE CellOf(row, col) \in X
      <4>1. PICK r \in Ordinals(files[1]) : row = <<1, r>> /\ (col = "*" \/ files[1].rows[r][col] # Null)
        BY <2>4
      <4>2. CellOf(row, col) = files[1].rows[r][col] /\ r \in Indexed
        BY <2>1, <2>2, <2>3, <4>1 DEF CellOf
      <4>3. QED
        BY <2>5, <4>2
    <3>3. QED
      BY <2>5, <3>1, <3>2
  <2>7. tally' = Cardinality(Y)
    BY <1>5, <2>2, <2>5, <2>6 DEF DistinctByIndex
  <2>8. CountsRight'
    BY <1>2, <2>1, <2>2, <2>5, <2>7, ScanKept
  <2>9. QED
    BY <1>2, <1>3, <2>1, <2>8 DEF MetadataRight
<1>6. ASSUME ExtremesByIndex PROVE MetadataRight'
  <2>1. request.type \in {"Min", "Max"} /\ tally = Zero(request)
    BY <1>1, <1>6 DEF ExtremesByIndex, AskingInv
  <2>2. tally = [rows |-> 0, present |-> 0, total |-> 0, extremes |-> {}]
    BY <2>1 DEF Zero
  <2>3. PICK found, E : /\ found = {files[1].rows[r].num : r \in Indexed}
                        /\ E = {n \in found : n \in {Min(found), Max(found)}}
    OBVIOUS
  <2>4. tally'.present = Cardinality(Indexed) /\ tally'.extremes = E
    BY <1>6, <2>2, <2>3 DEF ExtremesByIndex
  <2>5. Cardinality(Indexed) = Cardinality(PresentRows("num")) /\ ExtremesOf(E)
    BY <1>1, <1>2, <2>1, <2>3, IndexedExtremes
  <2>6. ValuesRight'
    BY <1>2, <2>1, <2>4, <2>5, ScanKept
  <2>7. CountsRight'
    BY <1>2, <2>1 DEF CountsRight
  <2>8. QED
    BY <1>3, <2>6, <2>7 DEF MetadataRight
<1>7. MetadataRight'
  BY <1>4, <1>5, <1>6
<1>8. QED
  BY <1>2, <1>7, Answered

\* Every step keeps the invariant.
LEMMA AnswerInvStep == AnswerInv /\ [AnswerNext]_answerVars => AnswerInv'
<1>1. SUFFICES ASSUME AnswerInv, [AnswerNext]_answerVars PROVE AnswerInv'
  OBVIOUS
<1>2. ASSUME LeaveToScan \/ CannotCount \/ NoLookups \/ UnreadableExtremes \/ NotInIndex
             \/ InexactIndex \/ SumOverflows
      PROVE  AnswerInv'
  <2>1. reply' \in {"scan", "failed"} /\ UNCHANGED <<files, request, path, file, tally>>
    BY <1>2 DEF LeaveToScan, CannotCount, NoLookups, UnreadableExtremes, NotInIndex,
         InexactIndex, SumOverflows, Conclude
  <2>2. QED
    BY <1>1, <2>1, NoAnswer
<1>3. ASSUME UNCHANGED answerVars PROVE AnswerInv'
  <2>1. UNCHANGED <<files, request, path, file, tally, reply>>
    BY <1>3 DEF answerVars
  <2>2. CASE reply = "asking"
    <3>1. /\ files' = files /\ request' = request /\ reply' = "asking" /\ path' = path
          /\ file' = file /\ tally' = tally
      BY <2>1, <2>2
    <3>2. /\ path \in {"synopsis", "lookup", "index"} /\ file \in 1 .. Len(files) + 1
      BY <1>1 DEF AnswerInv, AskedInv, AnswerTypeOK
    <3>3. /\ request.type = "Counts" => CountsInv(tally, file)
          /\ request.type = "Filtered" => FilteredInv(tally, file)
          /\ request.type = "Groups" => GroupsInv(tally, file)
          /\ request.type \in {"Min", "Max", "Sum", "Avg"} =>
                \/ path = "synopsis" /\ SynopsisInv(tally, file)
                \/ path = "index" /\ request.type \in {"Min", "Max"} /\ tally = Zero(request)
      BY <1>1, <2>2 DEF AnswerInv, AskingInv, Asking, IsValue
    <3>4. QED
      BY <1>1, <3>1, <3>2, <3>3, StillAsking
  <2>3. CASE reply = "answered"
    <3>1. MetadataRight
      BY <1>1, <2>3, RightAnswers DEF AnswerInv
    <3>2. MetadataRight'
      BY <2>1, <3>1, RightKept
    <3>3. QED
      BY <1>1, <2>1, <2>3, <3>2, Answered
  <2>4. CASE reply \notin {"asking", "answered"}
    <3>1. AskedInv'
      BY <1>1, <2>1, AskedKept DEF AnswerInv, AskedInv, AnswerTypeOK
    <3>2. QED
      BY <2>1, <2>4, <3>1
         DEF AnswerInv, AskingInv, Asking, IsValue, MetadataCountsExact, MetadataValuesExact
  <2>5. QED
    BY <2>2, <2>3, <2>4
<1>4. QED
  BY <1>1, <1>2, <1>3, CountStep, ValueStep, TalliedAnswer, IndexAnswer DEF AnswerNext

\* An attempt goes through the files in order, by synopses, by lookups or by
\* the sidecar index, and ends in an answer, in a failure or with the scan
\* (metadata_aggregate.rs tries them one after the other).
THEOREM AnswerTypesHold == AnswerSpec => []AnswerTypeOK
<1>1. AnswerInv => AnswerTypeOK
  BY DEF AnswerInv, AskedInv
<1>2. QED
  BY <1>1, AnswerInvInit, AnswerInvStep, PTL DEF AnswerSpec

\* COUNT answered without a scan is right: the counts, the rows of given values,
\* the groups and the number of different values that pruning.rs puts together
\* from segment and morsel counts, histograms, lookups or an index of one file
\* are those of the visible rows of all files, however the codes of the files
\* differ, and nothing is answered about redacted values.
THEOREM CountsFromMetadata == AnswerSpec => []MetadataCountsExact
<1>1. AnswerInv => MetadataCountsExact
  BY DEF AnswerInv
<1>2. QED
  BY <1>1, AnswerInvInit, AnswerInvStep, PTL DEF AnswerSpec

\* MIN, MAX, SUM and AVG answered without a scan are those of the present
\* numbers in the visible rows: the entries the answer adds up (pruning.rs) are
\* known to be about every row only because their row counts come to the rows
\* of the files.
THEOREM ValuesFromMetadata == AnswerSpec => []MetadataValuesExact
<1>1. AnswerInv => MetadataValuesExact
  BY DEF AnswerInv
<1>2. QED
  BY <1>1, AnswerInvInit, AnswerInvStep, PTL DEF AnswerSpec

==============================================================================
