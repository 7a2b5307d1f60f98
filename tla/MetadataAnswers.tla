--------------------------- MODULE MetadataAnswers ---------------------------
(***************************************************************************)
(* Aggregates answered from metadata. The optimizer replaces an aggregate  *)
(* over a COVE table by constants when the files' metadata prove them      *)
(* (cove-datafusion/src/adapter_v53/optimizer.rs, metadata_aggregate.rs,   *)
(* dataset_state/pruning.rs); otherwise it leaves the aggregate to a scan. *)
(* The metadata is what the converter writes: one synopsis entry for each  *)
(* segment and kind (cove-arrow/src/parquet.rs), lookup indexes, and the   *)
(* dictionary of each file, whose codes are the file's own. A sidecar index *)
(* (COVE-I) may have the answers of its file (cove-index/src/build.rs).    *)
(*                                                                         *)
(* A file is a record of its rows (with the columns "num", of integers,    *)
(* and "cat", of codes), the ordinals of its segments, its visible rows,   *)
(* and the metadata it has. Counts may also come for the whole file or     *)
(* for each morsel, which the reader accepts from other writers.           *)
(***************************************************************************)
EXTENDS ZoneStatistics, Sequences, SequencesExt

CONSTANTS FileLists,       \* datasets: sequences of files
          Aggregates,      \* aggregates asked for
          Values           \* values of the column of codes

VARIABLES
    files,     \* the files of the dataset
    request,   \* the aggregate asked for
    path,      \* which metadata is being tried: synopsis, lookup, index
    file,      \* the file to look at next
    tally,     \* what the files looked at come to
    reply      \* idle, asking, answered, scan, failed

answerVars == <<files, request, path, file, tally, reply>>

-----------------------------------------------------------------------------
Ordinals(f) == DOMAIN f.rows
RowCount(f) == Cardinality(Ordinals(f))
AllVisible(f) == f.visible = Ordinals(f)
NotNull(f, col, rows) == {r \in rows : f.rows[r][col] # Null}
SumOf(f, rows) == SumFunction([r \in NotNull(f, "num", rows) |-> f.rows[r].num])

SignedWord(n) == n \in -Half .. Half - 1

\* The converter refuses a segment whose sum is no signed word.
Convertible(f) ==
    /\ UNION f.segments = Ordinals(f)
    /\ ~f.nullable => \A r \in Ordinals(f) : f.rows[r].num # Null /\ f.rows[r].cat # Null
    /\ "Sum" \in f.kinds => \A s \in f.segments : SignedWord(SumOf(f, s))

(***************************************************************************)
(* Files and aggregates are well formed: a row is in one segment, the      *)
(* entries are about segments, and the dictionary of a file has a code of  *)
(* its own for each value in its rows.                                     *)
(***************************************************************************)
FileTyped(f) ==
    /\ f.rows \in Seq([num : {Null} \cup Int, cat : {Null} \cup Values])
    /\ f.visible \subseteq Ordinals(f)
    /\ \A s, t \in f.segments : s = t \/ s \cap t = {}
    /\ f.covered \subseteq f.segments
    /\ \A r \in NotNull(f, "cat", Ordinals(f)) : f.rows[r].cat \in DOMAIN f.codes
    /\ \A v, w \in DOMAIN f.codes : f.codes[v] = f.codes[w] => v = w
    /\ Convertible(f)

AggregateTyped(a) ==
    /\ a.type \in {"Counts", "Filtered", "Groups", "Distinct", "Min", "Max", "Sum", "Avg"}
    /\ a.type = "Counts" => a.cols \in Seq({"*", "num", "cat"})
    /\ a.type = "Distinct" => a.col \in {"num", "cat"}

ASSUME AnswerAssumption ==
    /\ \A list \in FileLists : list \in Seq({f \in Range(list) : FileTyped(f)})
    /\ \A a \in Aggregates : AggregateTyped(a)

(***************************************************************************)
(* Synopsis entries, each named by the rows it is about. Min, max, sum and *)
(* histogram entries stand for segments; some may be missing ("covered"    *)
(* holds the segments that have theirs).                                   *)
(***************************************************************************)
SegmentEntries(f, kindOf) == IF kindOf \in f.kinds THEN f.covered ELSE {}

Covered(f, entries) == UNION entries = Ordinals(f)

\* A count of the whole file first, then segments, then morsels of one row;
\* a scope counts only when its entries cover the file.
ColumnCount(f, col) ==
    LET segments == IF "Segment" \in f.scopes THEN f.covered ELSE {}
        morsels  == IF "Morsel" \in f.scopes THEN {{r} : r \in Ordinals(f)} ELSE {}
        known    == \/ "File" \in f.scopes
                    \/ segments # {} /\ Covered(f, segments)
                    \/ morsels # {} /\ Covered(f, morsels)
    IN  IF known THEN <<Cardinality(NotNull(f, col, Ordinals(f)))>> ELSE <<>>

\* COUNT of a column, or of rows ("*"), in one file: none, or one number.
FileCount(f, col) ==
    LET visible == <<Cardinality(f.visible)>>
    IN  CASE f.visible = {} \/ col = "*" -> visible
          [] f.visible # {} /\ col = "cat" /\ f.redacted -> <<>>
          [] f.visible # {} /\ col # "*" /\ ~(col = "cat" /\ f.redacted) /\ ~f.nullable -> visible
          [] OTHER -> IF AllVisible(f) THEN ColumnCount(f, col) ELSE <<>>

\* Mutation for the checks: the codes of the dataset's first file for all.
CodesInFirst(f, values) == {files[1].codes[v] : v \in values \cap DOMAIN files[1].codes}

\* The codes of the asked values; a value the file has no code for has no rows.
CodesIn(f, values) == {f.codes[v] : v \in values \cap DOMAIN f.codes}

WithCodes(f, codes, rows) == {r \in NotNull(f, "cat", rows) : f.codes[f.rows[r].cat] \in codes}

-----------------------------------------------------------------------------
(***************************************************************************)
(* The answers in a sidecar index: a record of the indexed columns, the    *)
(* aggregates it has, whether they are exact, and whether a value carries  *)
(* the tag of its key. This repository's writer tags values and names the  *)
(* block of answers in its entries only when counts are in it.             *)
(***************************************************************************)
Validates(index) == index.tagged /\ index.answers # {} => "Count" \in index.answers

\* An index is about one whole file.
Sidecar ==
    Len(files) = 1 /\ AllVisible(files[1]) /\ ~files[1].redacted /\ Validates(files[1].index)

\* What the index says of an aggregate of some columns, asked one by one. A
\* column without a root ends the asking, an inexact index is an error.
FromIndex(cols, aggregate) ==
    LET index == files[1].index
        root(c) == IF cols[c] = "*" THEN index.cols # {} ELSE cols[c] \in index.cols
    IN  IF ~Sidecar \/ index.answers = {} \/ ~root(1) THEN "nothing"
        ELSE IF ~index.exact THEN "error"
        ELSE IF aggregate \in index.answers /\ \A c \in DOMAIN cols : root(c) THEN "answer"
        ELSE "nothing"

-----------------------------------------------------------------------------
AnswerTypeOK ==
    /\ reply \in {"idle", "asking", "answered", "scan", "failed"}
    /\ path \in {"synopsis", "lookup", "index"}
    /\ file \in 1 .. Len(files) + 1

NoAggregate ==
    /\ files = <<>> /\ request = [type |-> "Counts", cols |-> <<>>] /\ path = "synopsis"
    /\ file = 1 /\ tally = 0 /\ reply = "idle"

Zero(asked) ==
    CASE asked.type = "Counts" -> [c \in DOMAIN asked.cols |-> 0]
      [] asked.type \in {"Filtered", "Distinct"} -> 0
      [] asked.type = "Groups" -> [v \in Values |-> 0]
      [] OTHER -> [rows |-> 0, present |-> 0, total |-> 0, extremes |-> {}]

AnswerInit ==
    /\ files \in FileLists
    /\ request \in Aggregates
    /\ path = "synopsis" /\ file = 1 /\ tally = Zero(request) /\ reply = "asking"

Asking(type) == reply = "asking" /\ request.type = type
Here == files[file]
InFiles == file <= Len(files)

Conclude(how) == reply' = how /\ UNCHANGED <<files, request, path, file, tally>>
Advance(sum) == file' = file + 1 /\ tally' = sum /\ UNCHANGED <<files, request, path, reply>>

\* Neither synopses nor lookups know of deleted or redacted rows. Counting rows
\* alone is left to the scan, since the table has a column of codes.
Unsafe ==
    CASE request.type = "Counts" -> \A c \in DOMAIN request.cols : request.cols[c] = "*"
      [] request.type = "Filtered" /\ request.values = {} -> TRUE
      [] OTHER -> \E f \in DOMAIN files : ~AllVisible(files[f]) \/ files[f].redacted

LeaveToScan ==
    /\ reply = "asking" /\ file = 1 /\ path = "synopsis"
    /\ Unsafe
    /\ Conclude("scan")

CountByIndex ==
    /\ Asking("Counts") /\ ~Unsafe /\ file = 1 /\ FromIndex(request.cols, "Count") = "answer"
    /\ reply' = "answered"
    /\ tally' = [c \in DOMAIN request.cols |->
                   IF request.cols[c] = "*" THEN RowCount(files[1])
                   ELSE Cardinality(NotNull(files[1], request.cols[c], Ordinals(files[1])))]
    /\ UNCHANGED <<files, request, path, file>>

CountFile ==
    /\ Asking("Counts") /\ ~Unsafe /\ InFiles
    /\ FromIndex(request.cols, "Count") = "nothing"
    /\ \A c \in DOMAIN request.cols : FileCount(Here, request.cols[c]) # <<>>
    /\ Advance([c \in DOMAIN request.cols |-> tally[c] + FileCount(Here, request.cols[c])[1]])

CannotCount ==
    /\ Asking("Counts") /\ ~Unsafe /\ InFiles
    /\ FromIndex(request.cols, "Count") = "nothing"
    /\ \E c \in DOMAIN request.cols : FileCount(Here, request.cols[c]) = <<>>
    /\ Conclude("scan")

\* Histograms: those of a file must cover it.
Histograms == SegmentEntries(Here, "Histogram")
HasHistograms == Histograms # {} /\ Covered(Here, Histograms)

CountByHistogram ==
    /\ Asking("Filtered") /\ ~Unsafe /\ InFiles /\ path = "synopsis"
    /\ HasHistograms
    /\ LET codes == CodesIn(Here, request.values)
       IN  Advance(tally + SumFunction([e \in Histograms |-> Cardinality(WithCodes(Here, codes, e))]))

CountByLookup ==
    /\ Asking("Filtered") /\ ~Unsafe /\ InFiles /\ path = "lookup"
    /\ Here.lookup
    /\ Advance(tally + Cardinality(WithCodes(Here, CodesIn(Here, request.values), Ordinals(Here))))

\* Rows of a value, added to the groups of the files before.
AddedToGroups(rows) ==
    [v \in Values |-> tally[v] + Cardinality({r \in rows : Here.rows[r].cat = v})]

HasNulls == NotNull(Here, "cat", Ordinals(Here)) # Ordinals(Here)

\* Neither a histogram nor a lookup has the group of the nulls.
GroupByHistogram ==
    /\ Asking("Groups") /\ ~Unsafe /\ InFiles /\ path = "synopsis"
    /\ HasHistograms /\ ~HasNulls
    /\ Advance(AddedToGroups(UNION Histograms))

GroupByLookup ==
    /\ Asking("Groups") /\ ~Unsafe /\ InFiles /\ path = "lookup"
    /\ Here.lookup /\ ~HasNulls
    /\ Advance(AddedToGroups(Ordinals(Here)))

\* One file without usable histograms: all files are counted by lookups.
TryLookups ==
    /\ reply = "asking" /\ request.type \in {"Filtered", "Groups"} /\ ~Unsafe
    /\ InFiles /\ path = "synopsis"
    /\ ~HasHistograms \/ (request.type = "Groups" /\ HasNulls)
    /\ path' = "lookup" /\ file' = 1 /\ tally' = Zero(request)
    /\ UNCHANGED <<files, request, reply>>

NoLookups ==
    /\ reply = "asking" /\ request.type \in {"Filtered", "Groups"} /\ ~Unsafe
    /\ InFiles /\ path = "lookup"
    /\ ~Here.lookup \/ (request.type = "Groups" /\ HasNulls)
    /\ Conclude("scan")

-----------------------------------------------------------------------------
(***************************************************************************)
(* Minimum, maximum, sum and average of the numbers.                       *)
(***************************************************************************)
IsValue == reply = "asking" /\ request.type \in {"Min", "Max", "Sum", "Avg"}
KindOf == IF request.type \in {"Min", "Max"} THEN "MinMax" ELSE "Sum"
ValueEntries == SegmentEntries(Here, KindOf)

Numbers(rows) == {Here.rows[r].num : r \in NotNull(Here, "num", rows)}
Extremes(rows) == IF Numbers(rows) = {} THEN {} ELSE {Min(Numbers(rows)), Max(Numbers(rows))}

AddFile ==
    /\ IsValue /\ path = "synopsis" /\ ~Unsafe /\ InFiles /\ ValueEntries # {}
    /\ Advance([rows |-> tally.rows + SumFunction([e \in ValueEntries |-> Cardinality(e)]),
                present |-> tally.present + Cardinality(NotNull(Here, "num", UNION ValueEntries)),
                total |-> tally.total + SumFunction([e \in ValueEntries |-> SumOf(Here, e)]),
                extremes |-> tally.extremes \cup UNION {Extremes(e) : e \in ValueEntries}])

\* Only the extremes may be in an index.
LeaveSynopses ==
    IF KindOf = "MinMax"
    THEN path' = "index" /\ tally' = Zero(request) /\ UNCHANGED <<files, request, file, reply>>
    ELSE Conclude("scan")

NoEntries ==
    /\ IsValue /\ path = "synopsis" /\ ~Unsafe /\ InFiles /\ ValueEntries = {}
    /\ LeaveSynopses

\* Mutation for the checks: entries that miss a segment are enough.
CoversAnything == TRUE

\* The entries of all files together have the rows of all files.
CoversAll == tally.rows = SumFunction([f \in DOMAIN files |-> RowCount(files[f])])

ValueIncomplete ==
    /\ IsValue /\ path = "synopsis" /\ ~Unsafe /\ ~InFiles /\ ~CoversAll
    /\ LeaveSynopses

Overflows == request.type = "Sum" /\ ~SignedWord(tally.total)

SumOverflows ==
    /\ IsValue /\ path = "synopsis" /\ ~Unsafe /\ ~InFiles /\ CoversAll /\ Overflows
    /\ Conclude("failed")

AnswerValue ==
    /\ IsValue /\ path = "synopsis" /\ ~Unsafe /\ ~InFiles /\ CoversAll /\ ~Overflows
    /\ Conclude("answered")

AnswerCount ==
    /\ reply = "asking" /\ request.type \in {"Counts", "Filtered", "Groups"} /\ ~Unsafe /\ ~InFiles
    /\ Conclude("answered")

-----------------------------------------------------------------------------
(***************************************************************************)
(* The extremes and the number of different values, from the index.        *)
(***************************************************************************)
IndexAsked == Asking("Distinct") \/ (IsValue /\ path = "index")
IndexColumn == IF request.type = "Distinct" THEN request.col ELSE "num"
IndexAggregate == IF request.type = "Distinct" THEN "Distinct" ELSE "Extremes"
Indexed == NotNull(files[1], IndexColumn, Ordinals(files[1]))

\* A value with its tag is no value of the column's type.
ReadableValue == Indexed = {} \/ ~files[1].index.tagged

DistinctByIndex ==
    /\ Asking("Distinct") /\ ~Unsafe /\ FromIndex(<<request.col>>, "Distinct") = "answer"
    /\ reply' = "answered"
    /\ tally' = Cardinality({files[1].rows[r][request.col] : r \in Indexed})
    /\ UNCHANGED <<files, request, path, file>>

ExtremesByIndex ==
    /\ IsValue /\ path = "index" /\ FromIndex(<<"num">>, "Extremes") = "answer"
    /\ ReadableValue
    /\ reply' = "answered"
    /\ tally' = [tally EXCEPT !.present = Cardinality(Indexed),
                              !.extremes = LET found == {files[1].rows[r].num : r \in Indexed}
                                           IN  {n \in found : n \in {Min(found), Max(found)}}]
    /\ UNCHANGED <<files, request, path, file>>

UnreadableExtremes ==
    /\ IsValue /\ path = "index" /\ FromIndex(<<"num">>, "Extremes") = "answer"
    /\ ~ReadableValue
    /\ Conclude("failed")

NotInIndex ==
    /\ IndexAsked /\ ~Unsafe /\ FromIndex(<<IndexColumn>>, IndexAggregate) = "nothing"
    /\ Conclude("scan")

InexactIndex ==
    /\ ~Unsafe
    /\ \/ Asking("Counts") /\ file = 1 /\ FromIndex(request.cols, "Count") = "error"
       \/ IndexAsked /\ FromIndex(<<IndexColumn>>, IndexAggregate) = "error"
    /\ Conclude("failed")

AnswerNext ==
    \/ LeaveToScan \/ CountFile \/ CannotCount \/ CountByHistogram \/ CountByLookup
    \/ GroupByHistogram \/ GroupByLookup \/ TryLookups \/ NoLookups
    \/ CountByIndex \/ DistinctByIndex \/ ExtremesByIndex \/ UnreadableExtremes
    \/ NotInIndex \/ InexactIndex
    \/ AddFile \/ NoEntries \/ ValueIncomplete \/ SumOverflows \/ AnswerValue \/ AnswerCount

AnswerSpec == AnswerInit /\ [][AnswerNext]_answerVars

-----------------------------------------------------------------------------
(***************************************************************************)
(* Properties.                                                             *)
(***************************************************************************)

\* What a scan finds: the visible rows of all files.
VisibleRows == UNION {{<<f, r>> : r \in files[f].visible} : f \in DOMAIN files}
CellOf(row, col) == files[row[1]].rows[row[2]][col]
PresentRows(col) == {row \in VisibleRows : col = "*" \/ CellOf(row, col) # Null}
ScannedNumbers == {CellOf(row, "num") : row \in PresentRows("num")}

\* A value of "cat" in a file with redactions cannot be read by a scan either.
NeedsRedacted ==
    /\ \E f \in DOMAIN files : files[f].redacted /\ files[f].visible # {}
    /\ \/ request.type \in {"Filtered", "Groups"}
       \/ request.type = "Distinct" /\ request.col = "cat"
       \/ request.type = "Counts" /\ \E c \in DOMAIN request.cols : request.cols[c] = "cat"

CountsRight ==
    CASE request.type = "Counts" ->
           tally = [c \in DOMAIN request.cols |-> Cardinality(PresentRows(request.cols[c]))]
      [] request.type = "Filtered" ->
           tally = Cardinality({row \in PresentRows("cat") : CellOf(row, "cat") \in request.values})
      [] request.type = "Groups" ->
           /\ PresentRows("cat") = VisibleRows
           /\ tally = [v \in Values |-> Cardinality({row \in VisibleRows : CellOf(row, "cat") = v})]
      [] request.type = "Distinct" ->
           tally = Cardinality({CellOf(row, request.col) : row \in PresentRows(request.col)})
      [] OTHER -> TRUE

\* A count answered from metadata is the count a scan of the visible rows gives,
\* whichever index proved it and however codes differ between files.
MetadataCountsExact == reply = "answered" => ~NeedsRedacted /\ CountsRight

\* The same of minimum, maximum, sum and average, nulls left out; none of them
\* has a value when every number is null. Metadata that covers part of the rows
\* answers nothing.
MetadataValuesExact ==
    reply = "answered" /\ request.type \in {"Min", "Max", "Sum", "Avg"} =>
        /\ tally.present = Cardinality(PresentRows("num"))
        /\ request.type \in {"Sum", "Avg"} =>
              tally.total = SumFunction([row \in PresentRows("num") |-> CellOf(row, "num")])
        /\ request.type \in {"Min", "Max"} =>
              IF ScannedNumbers = {}
              THEN tally.extremes = {}
              ELSE /\ Min(tally.extremes) = Min(ScannedNumbers)
                   /\ Max(tally.extremes) = Max(ScannedNumbers)

=============================================================================
