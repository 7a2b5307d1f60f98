---------------------------- MODULE MorselFilters ----------------------------
(***************************************************************************)
(* How a scan uses the filters it pushed down: which morsels it skips on   *)
(* the word of the file's metadata (cove-datafusion/src/prune.rs) and      *)
(* which rows of the others it selects, first through the lookup indexes   *)
(* (decode/predicates.rs) and then by comparing the encoded values of a    *)
(* page (decode/pruning.rs). A filter the provider called exact is not     *)
(* applied again by the engine; a filter on nulls only prunes, and the     *)
(* engine applies it to what the scan returns.                             *)
(*                                                                         *)
(* The table has a column of numbers, "num", and two columns of file       *)
(* codes, "a" and "b". The metadata is what the converter writes of it     *)
(* (cove-arrow/src/parquet.rs), as far as the file has it.                 *)
(***************************************************************************)
EXTENDS ZoneStatistics, Sequences

CONSTANTS Layout,          \* the morsels of the table: [segment, morsel, first, rows]
          Kinds,           \* logical types the column of numbers may have
          TablesOf(_),     \* kind -> tables to read: functions from rows to records
          FilterListsOf(_),\* kind -> filters of a query, as the query lists them
          Metas,           \* metadata a file may have
          FalsePositives   \* codes a bloom filter holds without a row having them

-----------------------------------------------------------------------------
(***************************************************************************)
(* Places. A morsel has its number in its segment, both from 0; a row is   *)
(* known by its ordinal in the table. Inverted indexes number the morsels  *)
(* through the segments (global_morsel_ordinal).                           *)
(***************************************************************************)
Morsels == DOMAIN Layout
RowsOf(m) == Layout[m].first .. Layout[m].first + Layout[m].rows - 1
TableRows == UNION {RowsOf(m) : m \in Morsels}

SegmentOf(m) == Layout[m].segment
MorselOf(m) == Layout[m].morsel

\* The next morsel of a segment, or the first one of the next segment.
Follows(next, m) ==
    /\ next.first = m.first + m.rows
    /\ \/ next.segment = m.segment /\ next.morsel = m.morsel + 1
       \/ next.segment = m.segment + 1 /\ next.morsel = 0

ASSUME LayoutAssumption ==
    /\ Layout \in Seq([segment : Nat, morsel : Nat, first : Nat, rows : Nat \ {0}])
    /\ Layout # <<>>
    /\ Layout[1].segment = 0 /\ Layout[1].morsel = 0 /\ Layout[1].first = 0
    /\ \A m \in 1 .. Len(Layout) - 1 : Follows(Layout[m + 1], Layout[m])

GlobalOrdinal(m) == Cardinality({n \in Morsels : SegmentOf(n) < SegmentOf(m)}) + MorselOf(m)

CodeColumns == {"a", "b"}
Columns == CodeColumns \cup {"num"}

MetaShape ==
    [zones : BOOLEAN, domains : BOOLEAN, exactSets : BOOLEAN, inverted : BOOLEAN,
     bloom : BOOLEAN, lookup : [Columns -> {"None", "FileCode", "NumCode"}],
     composite : {"None", "Tuples", "Zones"}]

\* The numbers of a type that words tell apart: of the floating point numbers,
\* those the words of ZoneStatistics leave room for.
NumbersOfKind(k) ==
    CASE k = "Int64"   -> -Half .. Half - 1
      [] k = "UInt64"  -> 0 .. WordSize - 1
      [] k = "Float64" -> (2 - Quarter .. Quarter - 2) \cup {NaN}

\* The filters a planner makes: of numbers, of file codes, of nulls.
FilterOf(k) ==
    [type : {"Numeric"}, col : {"num"}, op : {"Eq", "Lt", "LtEq", "Gt", "GtEq"},
     literal : NumbersOfKind(k) \ {NaN}]
    \cup [type : {"FileCodeIn"}, col : CodeColumns, codes : SUBSET Nat]
    \cup [type : {"Null"}, col : Columns, is : BOOLEAN]

ASSUME QueriesTyped ==
    /\ Kinds \subseteq {"Int64", "UInt64", "Float64"}
    /\ Metas \subseteq MetaShape /\ Metas # {}
    /\ \A k \in Kinds :
          /\ \A t \in TablesOf(k) :
                t \in [TableRows -> [num : NumbersOfKind(k) \cup {Null},
                                     a : Nat \cup {Null}, b : Nat \cup {Null}]]
          /\ \A list \in FilterListsOf(k) : list \in Seq(FilterOf(k))

VARIABLES
    kind,      \* logical type of the numbers
    table,     \* what the file holds
    meta,      \* which metadata it has
    filters,   \* the filters of the query, in the order the scan tries them
    morsel,    \* the morsel under way
    step,      \* 0, or the filter to apply next to its rows
    byLookup,  \* the lookup indexes answered for the filters they cover
    mask,      \* rows of the morsel still selected
    skipped,   \* morsels the metadata ruled out
    answer,    \* rows the query returns
    outcome    \* idle, scanning, done, failed

filterVars == <<kind, table, meta, filters, morsel, step, byLookup, mask, skipped, answer, outcome>>

-----------------------------------------------------------------------------
(***************************************************************************)
(* Filters. The engine's order of floating point numbers puts NaN above    *)
(* every other number; as a literal the planner refuses it.                *)
(***************************************************************************)
Numeric(op, literal) == [type |-> "Numeric", col |-> "num", op |-> op, literal |-> literal]
FileCodeIn(col, codes) == [type |-> "FileCodeIn", col |-> col, codes |-> codes]
NullTest(col, is) == [type |-> "Null", col |-> col, is |-> is]

Matches(filter, value) ==
    CASE filter.type = "Null" -> filter.is = (value = Null)
      [] filter.type = "FileCodeIn" -> value \in filter.codes
      [] OTHER -> IF value \in {Null, NaN} THEN value = NaN /\ filter.op \in {"Gt", "GtEq"}
                                           ELSE Compare(filter.op, value, filter.literal)

\* The rows the query asks for, whatever the metadata says.
Wanted == {r \in TableRows : \A i \in DOMAIN filters : Matches(filters[i], table[r][filters[i].col])}

\* Exact filters first, numbers before codes; sorting is stable.
Cost(filter) ==
    CASE filter.type = "Numeric" -> 1
      [] filter.type = "FileCodeIn" -> 2
      [] OTHER -> 3

InScanOrder(list, order) ==
    \A i, j \in DOMAIN list : i < j =>
       \/ Cost(list[order[i]]) < Cost(list[order[j]])
       \/ Cost(list[order[i]]) = Cost(list[order[j]]) /\ order[i] < order[j]

SelectsNothing == \E i \in DOMAIN filters : filters[i].type = "FileCodeIn" /\ filters[i].codes = {}
HasRowPredicate == \E i \in DOMAIN filters : filters[i].type # "Null"

-----------------------------------------------------------------------------
(***************************************************************************)
(* What the file's metadata says of the table.                             *)
(***************************************************************************)
Column(col) == [r \in TableRows |-> table[r][col]]
Zone(col, m) == [r \in RowsOf(m) |-> table[r][col]]
CodesOf(col) == Present(Column(col))

Stats(col, m) ==
    CASE ~meta.zones  -> NoEntry
      [] meta.zones /\ col = "num" -> NumberStats(Zone(col, m))
      [] OTHER -> CodeStats(Zone(col, m), CodesOf(col))

Domain(col) == IF meta.domains THEN CodesOf(col) ELSE {}

\* The exact set of the column excludes a code, or its bloom filter does.
ExcludedBySet(col, code) == meta.exactSets /\ code \notin CodesOf(col)
ExcludedByBloom(col, code) == meta.bloom /\ code \notin CodesOf(col) \cup FalsePositives

\* Key of a value in the index of its column: its code, or its word.
KeyOf(col, value) == IF col = "num" THEN Word(kind, value) ELSE value

Postings(col, key) ==
    {r \in TableRows : table[r][col] # Null /\ KeyOf(col, table[r][col]) = key}

\* Global ordinals of the morsels that hold a code.
InvertedOrdinals(col, code) ==
    {GlobalOrdinal(m) : m \in {n \in Morsels : Postings(col, code) \cap RowsOf(n) # {}}}

(***************************************************************************)
(* The composite index over a and b, as 4-byte words. The reader takes it  *)
(* for tuples: two 8-byte codes, segment, morsel. The converter writes     *)
(* zones: ordinal, first row, row count, and the 8-byte minimum and        *)
(* maximum of each column, zero when the zone has no value of it.          *)
(***************************************************************************)
KeyColumns == <<"a", "b">>
WideWord(v) == <<v, 0>>

TupleWidth == 2 * Len(KeyColumns) + 2
TupleAt(r, m) == <<table[r].a, 0, table[r].b, 0, SegmentOf(m), MorselOf(m)>>

Tuples ==
    UNION {{TupleAt(r, m) : r \in {s \in RowsOf(m) : \A col \in CodeColumns : table[s][col] # Null}} :
             m \in Morsels}

\* The converter cuts zones through the table, wherever segments end.
ZoneRows == Max({Layout[m].rows : m \in Morsels})
Zones == 0 .. Max(TableRows) \div ZoneRows
InZone(z) == {r \in TableRows : r \div ZoneRows = z}

ZoneBounds(col, z) ==
    LET codes == Present([r \in InZone(z) |-> table[r][col]])
    IN  IF codes = {} THEN WideWord(0) \o WideWord(0)
                      ELSE WideWord(Min(codes)) \o WideWord(Max(codes))

ZoneEntry(z) ==
    <<z, z * ZoneRows, Cardinality(InZone(z))>> \o ZoneBounds("a", z) \o ZoneBounds("b", z)

\* The words of all zones in a row, from 0, and the tuples the reader sees in
\* them: it reads none unless they come out even.
ZoneWidth == 3 + 4 * Len(KeyColumns)
ZoneWord(i) == ZoneEntry(i \div ZoneWidth)[(i % ZoneWidth) + 1]
ZoneWordCount == Cardinality(Zones) * ZoneWidth
WholeTuples == ZoneWordCount % TupleWidth = 0

MisreadZones ==
    {[i \in 1 .. TupleWidth |-> ZoneWord(e * TupleWidth + i - 1)] :
        e \in 0 .. (ZoneWordCount \div TupleWidth) - 1}

\* The codes the first filter on each key column asks for.
FilterOn(col) == {i \in DOMAIN filters : filters[i].type = "FileCodeIn" /\ filters[i].col = col}
CodesAsked(col) == filters[Min(FilterOn(col))].codes

TupleMatches(tuple, m) ==
    /\ tuple[TupleWidth - 1] = SegmentOf(m)
    /\ tuple[TupleWidth] = MorselOf(m)
    /\ \A k \in DOMAIN KeyColumns :
          tuple[2 * k] = 0 /\ tuple[2 * k - 1] \in CodesAsked(KeyColumns[k])

CompositePrunes(m) ==
    /\ \A col \in CodeColumns : FilterOn(col) # {}
    /\ \/ meta.composite = "Tuples" /\ \A t \in Tuples : ~TupleMatches(t, m)
       \/ meta.composite = "Zones" /\ WholeTuples /\ \A t \in MisreadZones : ~TupleMatches(t, m)

-----------------------------------------------------------------------------
(***************************************************************************)
(* Pruning a morsel (morsel_pruned).                                       *)
(***************************************************************************)
LookupPrunes(filter, m) ==
    /\ meta.lookup[filter.col] = "FileCode"
    /\ \A code \in filter.codes : Postings(filter.col, code) \cap RowsOf(m) = {}

\* Mutation for the checks: the ordinal of the morsel within its segment.
InvertedPrunesLocal(filter, m) ==
    /\ meta.inverted
    /\ \A code \in filter.codes : MorselOf(m) \notin InvertedOrdinals(filter.col, code)

InvertedPrunes(filter, m) ==
    /\ meta.inverted
    /\ \A code \in filter.codes : GlobalOrdinal(m) \notin InvertedOrdinals(filter.col, code)

CodeExcluded(filter, code, m) ==
    \/ NoCodeMatches(code, Stats(filter.col, m), Domain(filter.col))
    \/ ExcludedBySet(filter.col, code)
    \/ ExcludedByBloom(filter.col, code)

FilterPrunes(filter, m) ==
    CASE filter.type = "Null" ->
           IF filter.is THEN NoNulls(Stats(filter.col, m)) ELSE OnlyNulls(Stats(filter.col, m))
      [] filter.type = "Numeric" ->
           NoNumberMatches(filter.op, filter.literal, Stats(filter.col, m))
      [] OTHER ->
           \/ LookupPrunes(filter, m)
           \/ InvertedPrunes(filter, m)
           \/ \A code \in filter.codes : CodeExcluded(filter, code, m)

\* Every page counts its nulls and its values, with or without statistics.
NullCountPrunes(filter, m) ==
    /\ filter.type = "Null"
    /\ \A r \in RowsOf(m) : (table[r][filter.col] = Null) # filter.is

\* A composite index goes before the filters, which are tried in their order, and
\* their pages after that.
MorselPruned(m) ==
    \/ CompositePrunes(m)
    \/ \E i \in DOMAIN filters : FilterPrunes(filters[i], m)
    \/ \E i \in DOMAIN filters : NullCountPrunes(filters[i], m)

-----------------------------------------------------------------------------
(***************************************************************************)
(* Rows by the lookup indexes (lookup_selection_for_morsel). A literal is  *)
(* a key when it is a whole number that is not negative. The filters are   *)
(* searched for in their order, until no row is left; the rows found are   *)
(* used when some filter was searched for and none made the search give    *)
(* up.                                                                     *)
(***************************************************************************)
LookupKeys(filter) ==
    CASE filter.type = "FileCodeIn" -> filter.codes
      [] filter.type = "Numeric" /\ filter.op = "Eq" -> {filter.literal} \cap Nat
      [] OTHER -> {}

KeyKind(filter) == IF filter.type = "FileCodeIn" THEN "FileCode" ELSE "NumCode"
Searched(filter) == LookupKeys(filter) # {} /\ meta.lookup[filter.col] = KeyKind(filter)

IndexRows(filter) == UNION {Postings(filter.col, key) : key \in LookupKeys(filter)}

\* The rows left by the searches before filter i.
RowsLeft(m, i) ==
    {r \in RowsOf(m) : \A j \in 1 .. i - 1 : Searched(filters[j]) => r \in IndexRows(filters[j])}

\* An index of the wrong keys, or none after another filter had one.
GivesUp(m, i) ==
    /\ RowsLeft(m, i) # {} /\ LookupKeys(filters[i]) # {} /\ ~Searched(filters[i])
    /\ \/ meta.lookup[filters[i].col] # "None"
       \/ filters[i].type = "FileCodeIn" /\ \E j \in 1 .. i - 1 : Searched(filters[j])

LookupAnswers(m) ==
    /\ HasRowPredicate /\ \E i \in DOMAIN filters : Searched(filters[i])
    /\ \A i \in DOMAIN filters : ~GivesUp(m, i)

\* Mutation for the checks: a filter without a key counts as answered.
CoveredByKind(filter) == meta.lookup[filter.col] = KeyKind(filter)

\* The filters the kernels leave to the indexes.
IndexCovered(filter) ==
    \/ filter.type = "FileCodeIn" /\ meta.lookup[filter.col] = "FileCode"
    \/ /\ filter.type = "Numeric" /\ filter.op = "Eq" /\ filter.literal >= 0
       /\ meta.lookup[filter.col] = "NumCode"

-----------------------------------------------------------------------------
(***************************************************************************)
(* Rows by their encoded values: a number is compared as the word it is    *)
(* stored as, converted to the type of the literal. A word too large for   *)
(* a signed integer cannot be compared.                                    *)
(***************************************************************************)
Comparable(value) == kind = "Int64" /\ value # Null => FitsSigned(Word(kind, value))

CannotEvaluate(filter) ==
    filter.type = "Numeric" /\ \E r \in mask : ~Comparable(table[r][filter.col])

Keeps(filter, value) ==
    /\ value # Null
    /\ IF filter.type = "Numeric"
       THEN Compare(filter.op, Word(kind, value), filter.literal)
       ELSE value \in filter.codes

-----------------------------------------------------------------------------
(***************************************************************************)
(* The scan, morsel by morsel.                                             *)
(***************************************************************************)
FilterTypeOK ==
    /\ meta \in MetaShape
    /\ kind \in {"Int64", "UInt64", "Float64"}
    /\ morsel \in 1 .. Len(Layout) + 1 /\ step \in 0 .. Len(filters) + 1
    /\ mask \subseteq IF morsel \in Morsels THEN RowsOf(morsel) ELSE {}
    /\ answer \subseteq TableRows /\ skipped \subseteq Morsels
    /\ outcome \in {"idle", "scanning", "done", "failed"}

NoQuery ==
    /\ kind = "Int64" /\ table = <<>> /\ meta = (CHOOSE m \in Metas : TRUE) /\ filters = <<>>
    /\ morsel = 1 /\ step = 0 /\ byLookup = FALSE
    /\ mask = {} /\ skipped = {} /\ answer = {} /\ outcome = "idle"

FilterInit ==
    /\ kind \in Kinds
    /\ table \in TablesOf(kind)
    /\ meta \in Metas
    /\ \E list \in FilterListsOf(kind) : \E order \in [DOMAIN list -> DOMAIN list] :
          InScanOrder(list, order) /\ filters = [i \in DOMAIN list |-> list[order[i]]]
    /\ morsel = 1 /\ step = 0 /\ byLookup = FALSE
    /\ mask = {} /\ skipped = {} /\ answer = {} /\ outcome = "scanning"

Scanning == outcome = "scanning" /\ morsel \in Morsels /\ ~SelectsNothing

\* A filter without codes, or the end of the table.
FinishQuery ==
    /\ outcome = "scanning"
    /\ SelectsNothing \/ morsel \notin Morsels
    /\ outcome' = "done"
    /\ UNCHANGED <<kind, table, meta, filters, morsel, step, byLookup, mask, skipped, answer>>

SkipMorsel ==
    /\ Scanning /\ step = 0
    /\ MorselPruned(morsel)
    /\ skipped' = skipped \cup {morsel}
    /\ morsel' = morsel + 1
    /\ UNCHANGED <<kind, table, meta, filters, step, byLookup, mask, answer, outcome>>

StartRows ==
    /\ Scanning /\ step = 0
    /\ ~MorselPruned(morsel)
    /\ byLookup' = LookupAnswers(morsel)
    /\ mask' = IF byLookup' THEN RowsLeft(morsel, Len(filters) + 1) ELSE RowsOf(morsel)
    /\ step' = 1
    /\ UNCHANGED <<kind, table, meta, filters, morsel, skipped, answer, outcome>>

\* Null filters are left to the engine, covered ones were answered.
Skipped(filter) == filter.type = "Null" \/ (byLookup /\ IndexCovered(filter))

SkipFilter ==
    /\ Scanning /\ step \in DOMAIN filters /\ mask # {}
    /\ Skipped(filters[step])
    /\ step' = step + 1
    /\ UNCHANGED <<kind, table, meta, filters, morsel, byLookup, mask, skipped, answer, outcome>>

ApplyFilter ==
    /\ Scanning /\ step \in DOMAIN filters /\ mask # {}
    /\ ~Skipped(filters[step]) /\ ~CannotEvaluate(filters[step])
    /\ mask' = {r \in mask : Keeps(filters[step], table[r][filters[step].col])}
    /\ step' = step + 1
    /\ UNCHANGED <<kind, table, meta, filters, morsel, byLookup, skipped, answer, outcome>>

\* An exact filter that cannot be evaluated fails the query.
FailFilter ==
    /\ Scanning /\ step \in DOMAIN filters /\ mask # {}
    /\ ~Skipped(filters[step]) /\ CannotEvaluate(filters[step])
    /\ outcome' = "failed"
    /\ UNCHANGED <<kind, table, meta, filters, morsel, step, byLookup, mask, skipped, answer>>

\* The engine applies the filters that were not exact to the rows it gets.
Residual(r) ==
    \A i \in DOMAIN filters : filters[i].type = "Null" => Matches(filters[i], table[r][filters[i].col])

\* Mutation for the checks: the selection is left for the next morsel.
DeliverKeeping ==
    /\ Scanning /\ step > 0
    /\ mask = {} \/ step > Len(filters)
    /\ answer' = answer \cup {r \in mask : Residual(r)}
    /\ morsel' = morsel + 1
    /\ step' = 0 /\ byLookup' = FALSE
    /\ UNCHANGED <<kind, table, meta, filters, mask, skipped, outcome>>

DeliverRows ==
    /\ Scanning /\ step > 0
    /\ mask = {} \/ step > Len(filters)
    /\ answer' = answer \cup {r \in mask : Residual(r)}
    /\ morsel' = morsel + 1
    /\ step' = 0 /\ byLookup' = FALSE /\ mask' = {}
    /\ UNCHANGED <<kind, table, meta, filters, skipped, outcome>>

FilterNext ==
    \/ FinishQuery \/ SkipMorsel \/ StartRows \/ SkipFilter \/ ApplyFilter
    \/ FailFilter \/ DeliverRows

FilterSpec == FilterInit /\ [][FilterNext]_filterVars

-----------------------------------------------------------------------------
(***************************************************************************)
(* Properties.                                                             *)
(***************************************************************************)

\* A query answers with the rows it asks for, whatever metadata the file has
\* and in whichever order the filters are tried: README.md says advisory
\* metadata must not change results. It may fail instead (on a word that cannot
\* be compared), but never answer with other rows.
AnswersUnchanged == outcome = "done" => answer = Wanted

\* The same for columns of integers.
IntegerAnswersExact == kind # "Float64" => AnswersUnchanged

\* What the metadata rules out holds no row the query asks for, also when the
\* column holds NaN, nulls only, or floating point numbers.
SkippedHoldNothing == \A m \in skipped : RowsOf(m) \cap Wanted = {}

\* What a consumer gets of a query that is answered, rows or their number:
\* the rows it asks for, and for the number that adapter_v53/exec.rs reports
\* as exact, all visible rows of the table, how many these are. README.md says
\* advisory metadata must not change query results.
ReportedRows == Cardinality(TableRows)
EngineAnswersRight == AnswersUnchanged /\ (outcome = "done" => ReportedRows = Cardinality(Wanted))

=============================================================================
