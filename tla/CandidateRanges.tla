--------------------------- MODULE CandidateRanges ---------------------------
(***************************************************************************)
(* A lookup in a COVE-I sidecar index, from the index to the rows the scan *)
(* of one file returns:                                                    *)
(*                                                                         *)
(*   - the index: built from the table by cove-index/src/build.rs, or      *)
(*     supplied by another writer and accepted by the validation           *)
(*     (cove-index/src/lib.rs, execution.rs);                              *)
(*   - the lookup (execution.rs): the row ranges of the entries whose key  *)
(*     matches, put in order and merged;                                   *)
(*   - the planner (cove-datafusion/src/planner.rs): the first filter the  *)
(*     index answers gives the candidates, put in order and merged again,  *)
(*     this time without the file they belong to;                          *)
(*   - the scan (cove-datafusion/src/decode/pruning.rs): a morsel without  *)
(*     a candidate is skipped, and in the others only candidate rows are   *)
(*     kept.                                                               *)
(*                                                                         *)
(* One table of one segment: the row number is the absolute one the code   *)
(* uses, and a morsel holds MorselRows consecutive rows.                   *)
(***************************************************************************)
EXTENDS Integers, FiniteSets, Sequences

CONSTANTS Values,          \* the values of the indexed column, numbers: the order is the keys'
          Null,            \* a missing value
          MorselRows,      \* rows of a morsel
          MorselCount,     \* morsels of the segment
          Tables,          \* the tables to scan: functions from rows to Values \cup {Null}
          FilterLists,     \* the conjunctions of filters a query may bring
          ForeignIndexes   \* indexes supplied by other writers

Rows == 0 .. (MorselRows * MorselCount - 1)
Morsels == 0 .. (MorselCount - 1)
RowsOf(m) == (m * MorselRows) .. (m * MorselRows + MorselRows - 1)
MorselOf(r) == r \div MorselRows

ASSUME CandidateAssumption ==
    /\ Values \subseteq Nat
    /\ Null \notin Values
    /\ MorselRows \in Nat \ {0}
    /\ MorselCount \in Nat \ {0}

\* A posting; the lists of an index are sets of them, being in order.
Posting == [file : Nat, morsel : 0 .. MorselCount, start : Nat, count : Nat]
IndexEntry == [key : Values, kind : {"RowRangeList", "Other"}, ranges : SUBSET Posting]

\* A filter on keys is one the index may answer: equality or an IN list.
Filter == [kind : {"keys"}, in : SUBSET Values]
          \cup [kind : {"other"}, in : SUBSET (Values \cup {Null})]

ASSUME InputsTyped ==
    /\ Tables \subseteq [Rows -> Values \cup {Null}]
    /\ FilterLists \subseteq Seq(Filter)
    /\ \A x \in ForeignIndexes :
          /\ x.ops \subseteq {"Eq", "Membership"}
          /\ x.entries \in Seq(IndexEntry)
          /\ \A i \in DOMAIN x.entries : IsFiniteSet(x.entries[i].ranges)

ThisFile == 0              \* the file_ref the builder writes, and the file under scan
NoMorsel == MorselCount    \* stands for u32::MAX: a range that names no morsel

VARIABLES table,           \* the column, row by row
          filters,         \* the filters of the query, in the order of the plan
          index,           \* the sidecar: its entries and the lookups it supports
          candidates,      \* the ranges the plan carries; none unless "narrowed"
          narrowed,        \* an index lookup narrowed the plan (Some rather than None)
          stage,           \* "index", "plan", "scan" or "done"
          morsel,          \* the next morsel to scan
          result           \* the rows returned

vars == <<table, filters, index, candidates, narrowed, stage, morsel, result>>

(***************************************************************************)
(* Ranges. What a lookup lists has the number of its entry, because the    *)
(* sorts are stable.                                                       *)
(***************************************************************************)
EndOf(r) == r.start + r.count
RowsIn(r) == r.start .. (EndOf(r) - 1)

\* Mutation for the checks: ranges joined across morsels.
AnyMorsel(byFile, a, b) == a.morsel <= b.morsel

\* The lookup keeps files apart, the planner has dropped them.
SameScope(byFile, a, b) == a.morsel = b.morsel /\ (byFile => a.file = b.file)

ListedBefore(a, b) == a.file < b.file \/ (a.file = b.file /\ a.entry < b.entry)

Before(byFile, a, b) ==
    \/ byFile /\ a.file < b.file
    \/ a.morsel < b.morsel /\ (byFile => a.file = b.file)
    \/ a.morsel = b.morsel /\ (byFile => a.file = b.file) /\ a.start < b.start
    \/ a.morsel = b.morsel /\ (byFile => a.file = b.file) /\ a.start = b.start /\ ListedBefore(a, b)

\* Mutations for the checks: an off-by-one in the adjacency test, and in the
\* number of joined rows.
TouchesNearby(last, r) == r.start <= EndOf(last) + 1
JoinShort(first, last) == [first EXCEPT !.count = EndOf(last) - 1 - first.start]

\* A range that starts inside or at the end of the one before it is joined to
\* it; what is joined ends where the last one ends.
Touches(last, r) == r.start <= EndOf(last)
Join(first, last) == [first EXCEPT !.count = EndOf(last) - first.start]

\* In the sorted list, b comes right after a and is joined to it.
Continues(byFile, s, a, b) ==
    /\ Before(byFile, a, b)
    /\ ~ \E c \in s : Before(byFile, a, c) /\ Before(byFile, c, b)
    /\ SameScope(byFile, a, b) /\ Touches(a, b)

\* All from the first to the last are joined, and neither end to any other.
Run(byFile, s, first, last) ==
    /\ first = last \/ Before(byFile, first, last)
    /\ ~ \E a \in s : Continues(byFile, s, a, first)
    /\ ~ \E b \in s : Continues(byFile, s, last, b)
    /\ \A b \in s : Before(byFile, first, b) /\ ~Before(byFile, last, b) =>
          \E a \in s : Continues(byFile, s, a, b)

Merged(byFile, s) ==
    {Join(p[1], p[2]) : p \in {q \in s \X s : Run(byFile, s, q[1], q[2])}}

(***************************************************************************)
(* The index the writer builds: one entry for each value, in their order,  *)
(* with the longest stretches of rows of one morsel that hold it.          *)
(***************************************************************************)
Holds(t, v, m, r) == r \in RowsOf(m) /\ t[r] = v

Stretch(t, v, first, last) ==
    LET m == MorselOf(first)
    IN  /\ first <= last /\ \A r \in first .. last : Holds(t, v, m, r)
        /\ ~Holds(t, v, m, first - 1) /\ ~Holds(t, v, m, last + 1)

RangesOf(t, v) ==
    {[file |-> ThisFile, morsel |-> MorselOf(p[1]), start |-> p[1], count |-> p[2] - p[1] + 1] :
        p \in {q \in Rows \X Rows : Stretch(t, v, q[1], q[2])}}

KeysOf(t) == {t[r] : r \in Rows} \ {Null}

BuiltIndex(t, keys) ==
    [ops     |-> {"Eq", "Membership"},
     entries |-> [i \in DOMAIN keys |->
                    [key |-> keys[i], kind |-> "RowRangeList", ranges |-> RangesOf(t, keys[i])]]]

\* What the reader accepts of an index it did not build: within one entry the
\* ranges are not empty, and a gap lies between two of one morsel. Keys are in
\* order; two entries may share one (a chain of duplicates).
ValidRanges(s) ==
    \A a, b \in s :
       /\ a.count > 0
       /\ a # b /\ SameScope(TRUE, a, b) /\ a.start <= b.start => EndOf(a) < b.start
ValidIndex(x) ==
    /\ \A i \in DOMAIN x.entries : ValidRanges(x.entries[i].ranges)
    /\ \A i \in 1 .. (Len(x.entries) - 1) : x.entries[i].key <= x.entries[i + 1].key

(***************************************************************************)
(* The lookup, and what the planner keeps of it.                           *)
(***************************************************************************)
\* A filter keeps the rows whose value is one of "in". The index is asked
\* about filters of kind "keys" (equality and IN lists), not about "other".
Accepts(f, v) == v \in f.in
Op(f) == IF Cardinality(f.in) = 1 THEN "Eq" ELSE "Membership"
Answered(f, x) == f.kind = "keys" /\ f.in # {} /\ Op(f) \in x.ops

Matching(f, x) == {i \in DOMAIN x.entries : x.entries[i].key \in f.in}
RangesFor(e) == IF e.kind = "RowRangeList" THEN e.ranges ELSE {}
Listed(r, i) ==
    [file |-> r.file, morsel |-> r.morsel, start |-> r.start, count |-> r.count, entry |-> i]
Listing(f, x) ==
    UNION {{Listed(r, i) : r \in RangesFor(x.entries[i])} : i \in Matching(f, x)}
Lookup(f, x) == Merged(TRUE, Listing(f, x))

AsCandidate(r) == [morsel |-> r.morsel, start |-> r.start, count |-> r.count]
CandidatesFor(f, x) == {AsCandidate(r) : r \in Merged(FALSE, Lookup(f, x))}

FirstAnswered(fs, x) ==
    LET asked == {i \in DOMAIN fs : Answered(fs[i], x)}
    IN  IF asked = {} THEN 0 ELSE CHOOSE i \in asked : \A j \in asked : i <= j

(***************************************************************************)
(* The scan.                                                               *)
(***************************************************************************)
SelectsNoRows ==
    \/ narrowed /\ candidates = {}
    \/ \E i \in DOMAIN filters : filters[i].kind = "keys" /\ filters[i].in = {}

Overlaps(c, m) == c.morsel = m /\ RowsIn(c) \cap RowsOf(m) # {}
MorselPruned(m) == narrowed /\ \A c \in candidates : ~Overlaps(c, m)

CandidateRows(m) ==
    UNION {RowsIn(c) \cap RowsOf(m) : c \in {d \in candidates : d.morsel = m}}

Satisfies(r) == \A i \in DOMAIN filters : Accepts(filters[i], table[r])
Kept(m) ==
    {r \in RowsOf(m) : Satisfies(r) /\ (narrowed => r \in CandidateRows(m))}

-----------------------------------------------------------------------------
Init ==
    /\ table \in Tables
    /\ filters \in FilterLists
    /\ index = [ops |-> {}, entries |-> <<>>]
    /\ candidates = {}
    /\ narrowed = FALSE
    /\ stage = "index"
    /\ morsel = 0
    /\ result = {}

\* Every row of the file that holds a key is in a range of an entry for it:
\* what a writer owes ("MUST NOT under-include"). More rows may be there.
Promises(x, t) ==
    \A r \in Rows : t[r] # Null =>
        \E i \in DOMAIN x.entries :
            /\ x.entries[i].key = t[r]
            /\ \E range \in x.entries[i].ranges :
                 /\ range.file = ThisFile
                 /\ r \in RowsIn(range)
                 /\ range.morsel \in {MorselOf(r), NoMorsel}

BuildIndex ==
    /\ stage = "index"
    /\ \E keys \in [1 .. Cardinality(KeysOf(table)) -> KeysOf(table)] :
         /\ \A v \in KeysOf(table) : \E i \in DOMAIN keys : keys[i] = v
         /\ \A i, j \in DOMAIN keys : i < j => keys[i] < keys[j]
         /\ index' = BuiltIndex(table, keys)
    /\ stage' = "plan"
    /\ UNCHANGED <<table, filters, candidates, narrowed, morsel, result>>

\* The sidecar of another writer. One that does not validate is left aside,
\* which is a plan without an index.
SupplyIndex ==
    /\ stage = "index"
    /\ \E x \in ForeignIndexes :
         /\ Promises(x, table)
         /\ index' = IF ValidIndex(x) THEN x ELSE index
    /\ stage' = "plan"
    /\ UNCHANGED <<table, filters, candidates, narrowed, morsel, result>>

Plan ==
    /\ stage = "plan"
    /\ LET i == FirstAnswered(filters, index)
       IN  /\ narrowed' = (i # 0)
           /\ candidates' = IF i = 0 THEN {} ELSE CandidatesFor(filters[i], index)
    /\ stage' = "scan"
    /\ UNCHANGED <<table, filters, index, morsel, result>>

SkipFile ==
    /\ stage = "scan" /\ morsel = 0
    /\ SelectsNoRows
    /\ stage' = "done"
    /\ UNCHANGED <<table, filters, index, candidates, narrowed, morsel, result>>

NextMorsel ==
    /\ morsel' = morsel + 1
    /\ stage' = IF morsel + 1 = MorselCount THEN "done" ELSE "scan"
    /\ UNCHANGED <<table, filters, index, candidates, narrowed>>

SkipMorsel ==
    /\ stage = "scan" /\ ~SelectsNoRows
    /\ MorselPruned(morsel)
    /\ UNCHANGED result
    /\ NextMorsel

ScanMorsel ==
    /\ stage = "scan" /\ ~SelectsNoRows
    /\ ~MorselPruned(morsel)
    /\ result' = result \cup Kept(morsel)
    /\ NextMorsel

Finished == stage = "done" /\ UNCHANGED vars

Next ==
    \/ BuildIndex
    \/ SupplyIndex
    \/ Plan
    \/ SkipFile
    \/ SkipMorsel
    \/ ScanMorsel
    \/ Finished

Spec == Init /\ [][Next]_vars

-----------------------------------------------------------------------------
(***************************************************************************)
(* Types. Candidates are never empty and never end before they start: the  *)
(* code's checked arithmetic would turn either into an error.              *)
(***************************************************************************)
TypeOK ==
    /\ table \in [Rows -> Values \cup {Null}]
    /\ index.entries \in Seq(IndexEntry)
    /\ candidates \subseteq [morsel : 0 .. MorselCount, start : Nat, count : Nat \ {0}]
    /\ narrowed \in BOOLEAN
    /\ stage \in {"index", "plan", "scan", "done"}
    /\ morsel \in 0 .. MorselCount
    /\ result \subseteq Rows

(***************************************************************************)
(* The index does not change the answer: with whatever part of it was      *)
(* used, the scan returns the rows that satisfy every filter (README.md:   *)
(* "Advisory metadata can help planning, but it must not change query      *)
(* results"). Building, lookup, two normalisations and two prunings stand  *)
(* between the table and the rows.                                         *)
(***************************************************************************)
SameRows ==
    stage = "done" => result = {r \in Rows : Satisfies(r)}

AskedFilter == filters[FirstAnswered(filters, index)]
PostedRows(m) ==
    {r \in RowsOf(m) : \E i \in Matching(AskedFilter, index) :
        \E range \in RangesFor(index.entries[i]) :
            range.file = ThisFile /\ range.morsel = m /\ r \in RowsIn(range)}

(***************************************************************************)
(* Joining ranges invents no candidate: a row the plan keeps is in a range *)
(* of an entry that matched, or the index would prune less than it claims  *)
(* (normalize_row_ranges and normalize_scan_candidate_ranges).             *)
(***************************************************************************)
CandidatesTight ==
    narrowed => \A m \in Morsels : CandidateRows(m) \subseteq PostedRows(m)

(***************************************************************************)
(* Joining ranges loses no candidate: every row of a matching entry that   *)
(* its filter accepts stays a candidate ("a coverage provider may          *)
(* over-include data, but it must not under-include", README.md). Holds of *)
(* the built index; a valid index with a range inside another refutes it.  *)
(***************************************************************************)
LookupNeverUnderIncludes ==
    narrowed => \A r \in Rows :
        Accepts(AskedFilter, table[r]) => r \in CandidateRows(MorselOf(r))

=============================================================================
