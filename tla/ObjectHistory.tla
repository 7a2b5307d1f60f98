---------------------------- MODULE ObjectHistory ----------------------------
(***************************************************************************)
(* The object profile of a COVE file (COVE-O): records of what happened to *)
(* objects, in segments of one object type each, and the state of the      *)
(* objects read back from them.                                            *)
(*                                                                         *)
(* COVE-MAP (cove-map/src/lib.rs) settles the values that rows of several  *)
(* sources give one object and writes one segment for each type. Another   *)
(* writer may spread the records of an object over segments. A reader      *)
(* validates the file (profile_validators.rs), and then reconstructs the   *)
(* objects as they were at a cut (cove_o/readback.rs), which a projection  *)
(* does once more in its own way (cove-map/src/project.rs).                *)
(*                                                                         *)
(* A type, branch, object, record id, time and commit number is a number.  *)
(* A file is the set of its records, which name their segment and row.     *)
(***************************************************************************)
EXTENDS Integers, Sequences, FiniteSetsExt

CONSTANTS NullValue,
          Properties,    \* properties an object may have
          SourceLists,   \* conversions: [policy, batch], a batch being lists of source rows
          CommitLists,   \* files of another writer, as sequences of commits
          MaxCut         \* bound of times and commit numbers to cut at

RecordKinds == {"Baseline", "Snapshot", "Delta", "Tombstone"}

(***************************************************************************)
(* What comes in: rows of the sources, from any of them; commits of one    *)
(* writer, whose clock does not go back.                                   *)
(***************************************************************************)
SourceRowTyped(row) ==
    /\ DOMAIN row = {"type", "goid", "source", "index", "record", "kind", "values"}
    /\ {row.type, row.goid, row.source, row.index, row.record} \subseteq Nat
    /\ row.kind \in RecordKinds /\ DOMAIN row.values = Properties

CommitsTyped(commits) ==
    /\ commits \in Seq([chain : Nat \X Nat \X Nat, kind : RecordKinds, segment : Nat, time : Nat,
                        refs : BOOLEAN])
    /\ \A i, j \in DOMAIN commits : i < j => commits[i].time <= commits[j].time

SourceRowLists == UNION {Range(conversion.batch) : conversion \in SourceLists}

ASSUME HistoryAssumption ==
    /\ MaxCut \in Nat /\ Properties # {}
    /\ \A commits \in CommitLists : CommitsTyped(commits)
    /\ \A conversion \in SourceLists :
          conversion.policy \in {"reject", "priority"} /\ conversion.batch \in Seq(SourceRowLists)
    /\ \A rows \in SourceRowLists : rows \in Seq({row \in Range(rows) : SourceRowTyped(row)})

Full(record) == record.kind \in {"Baseline", "Snapshot"}

\* A record refers to the one before by segment, row and kind of target.
NoRef == [segment |-> -1, row |-> -1, target |-> 0]
RefTo(record, target) == [segment |-> record.segment, row |-> record.row, target |-> target]
SamePlace(ref, record) == ref.segment = record.segment /\ ref.row = record.row

Chain(record) == <<record.type, record.branch, record.goid>>

VARIABLES
    policy,    \* reject or priority: whose value an object gets
    batch,     \* lists of source rows still to convert
    settled,   \* rows of the conversion under way, their conflicts settled
    records,   \* the file
    history,   \* when each of its records was committed
    cut,       \* latest, or up to a time or a commit number
    states,    \* objects read back
    projected, \* objects the projection finds
    results,   \* what came of the files: [settled, opened, cut, states]
    stage      \* idle, convert, written, open, read, projected, closed

historyVars ==
    <<policy, batch, settled, records, history, cut, states, projected, results, stage>>

-----------------------------------------------------------------------------
(***************************************************************************)
(* Lexicographic order of tuples of numbers.                               *)
(***************************************************************************)
Precedes(x, y) ==
    \E i \in DOMAIN x : x[i] < y[i] /\ \A j \in 1 .. i - 1 : x[j] = y[j]

-----------------------------------------------------------------------------
(***************************************************************************)
(* The writer. A source row is [type, goid, source, index, record, kind,   *)
(* values]; a source's number is its priority.                             *)
(***************************************************************************)
Candidates(rows, i, p) ==
    {j \in DOMAIN rows : rows[j].goid = rows[i].goid /\ rows[j].values[p] # NullValue}

Conflict(rows) ==
    /\ policy = "reject"
    /\ \E i \in DOMAIN rows, p \in Properties :
          Cardinality({rows[j].values[p] : j \in Candidates(rows, i, p)}) > 1

Wins(rows, i, p) ==
    \A j \in Candidates(rows, i, p) \ {i} :
       Precedes(<<rows[i].source, rows[i].index, i>>, <<rows[j].source, rows[j].index, j>>)

\* The losing values are taken from their rows.
Settle(rows) ==
    [i \in DOMAIN rows |->
       [rows[i] EXCEPT !.values =
          [p \in Properties |-> IF policy = "reject" \/ Wins(rows, i, p) THEN @[p] ELSE NullValue]]]

\* There is a segment for each type, its rows sorted; rows that tie stay as
\* they were.
SegmentId(rows, i) ==
    Cardinality({t \in {rows[j].type : j \in DOMAIN rows} : t < rows[i].type})

WriteOrder(rows, i) == <<rows[i].index, rows[i].goid, rows[i].record, i>>

EarlierRows(rows, i) ==
    {j \in DOMAIN rows : rows[j].type = rows[i].type /\ Precedes(WriteOrder(rows, j), WriteOrder(rows, i))}

RowOf(rows, i) == Cardinality(EarlierRows(rows, i))

\* A baseline refers to nothing, another record to the row before of its
\* object; the target is always called delta-like.
PrevRef(rows, i) ==
    LET earlier == {j \in EarlierRows(rows, i) : rows[j].goid = rows[i].goid}
    IN  IF rows[i].kind = "Baseline" \/ earlier = {} THEN NoRef
        ELSE [segment |-> SegmentId(rows, i), row |-> Max({RowOf(rows, j) : j \in earlier}), target |-> 0]

\* Every property has a column, and every row a value in it.
RecordOfRow(rows, i) ==
    [type |-> rows[i].type, branch |-> 0, goid |-> rows[i].goid, record |-> rows[i].record,
     kind |-> rows[i].kind, time |-> 0, csn |-> RowOf(rows, i), values |-> rows[i].values,
     segment |-> SegmentId(rows, i), row |-> RowOf(rows, i), prev |-> PrevRef(rows, i)]

WrittenRecords(rows) == {RecordOfRow(rows, i) : i \in DOMAIN rows}

-----------------------------------------------------------------------------
(***************************************************************************)
(* Another writer, taken at its word: a commit is [chain, kind, segment,   *)
(* time, refs]; its values tell which commit gave them, in the columns the *)
(* segment has. A row refers to the record before, with its kind.          *)
(***************************************************************************)
ColumnsOf(id) == IF id = 0 THEN Properties ELSE {CHOOSE p \in Properties : TRUE}

RowInSegment(commits, i) == Cardinality({j \in 1 .. i - 1 : commits[j].segment = commits[i].segment})

EarlierCommits(commits, i) == {j \in 1 .. i - 1 : commits[j].chain = commits[i].chain}

RefOfCommit(commits, i) ==
    IF ~commits[i].refs \/ EarlierCommits(commits, i) = {} THEN NoRef
    ELSE LET j == Max(EarlierCommits(commits, i))
         IN  [segment |-> commits[j].segment, row |-> RowInSegment(commits, j),
              target |-> IF Full(commits[j]) THEN 1 ELSE 0]

RecordOfCommit(commits, i) ==
    [type |-> commits[i].chain[1], branch |-> commits[i].chain[2], goid |-> commits[i].chain[3],
     record |-> i, kind |-> commits[i].kind, time |-> commits[i].time, csn |-> i,
     values |-> [p \in ColumnsOf(commits[i].segment) |-> i],
     segment |-> commits[i].segment, row |-> RowInSegment(commits, i),
     prev |-> RefOfCommit(commits, i)]

Committed(commits) == {RecordOfCommit(commits, i) : i \in DOMAIN commits}

-----------------------------------------------------------------------------
(***************************************************************************)
(* Validation. Segments are sorted, references point backwards in the file *)
(* to a record of the kind they name. (A chain of such references ends, so *)
(* it is always anchored.)                                                 *)
(***************************************************************************)
RowKey(r) == <<r.time, r.csn, r.branch, r.goid, r.record>>

SegmentsSorted ==
    \A r, s \in records : r.segment = s.segment /\ r.row < s.row =>
       ~Precedes(RowKey(s), RowKey(r)) /\ r.csn <= s.csn

RefPointsBack(r) ==
    /\ r.prev.segment <= r.segment
    /\ r.prev.segment = r.segment => r.prev.row < r.row

TargetKind(r) == IF Full(r) THEN 1 ELSE 0

TargetKindValid(r) ==
    r.prev # NoRef =>
       \E t \in records : SamePlace(r.prev, t) /\ r.prev.target = TargetKind(t)

FileValid == SegmentsSorted /\ \A r \in records : RefPointsBack(r) /\ TargetKindValid(r)

(***************************************************************************)
(* Reading the objects back (reconstruct_object_states). Every reference   *)
(* is looked up among all records of the file, the cut or not; the records *)
(* of an object are then sorted and applied one by one.                    *)
(***************************************************************************)
Latest == [by |-> "latest"]
Cuts == {Latest} \cup [by : {"time", "csn"}, upTo : 0 .. MaxCut]

VisibleAt(r, c) ==
    \/ c = Latest
    \/ c.by = "time" /\ r.time <= c.upTo
    \/ c.by = "csn" /\ r.csn <= c.upTo

\* Mutation for the checks: the records as the file holds them.
SortKeyByPlace(r) == <<r.segment, r.row, r.time, r.csn, r.record>>

SortKey(r) == <<r.time, r.csn, r.segment, r.row, r.record>>

PrevRefValid(r) ==
    r.prev # NoRef =>
       \E p \in records :
          SamePlace(r.prev, p) /\ Chain(p) = Chain(r) /\ Precedes(SortKey(p), SortKey(r))

Chains(c) == {Chain(r) : r \in {x \in records : VisibleAt(x, c)}}
RecordsOf(chain, c) == {r \in records : Chain(r) = chain /\ VisibleAt(r, c)}

\* The record that is sorted behind the others.
LastSorted(found) == CHOOSE r \in found : \A s \in found \ {r} : Precedes(SortKey(s), SortKey(r))

NoState == [chain |-> <<>>, at |-> NoRef, values |-> <<>>, gone |-> FALSE, valid |-> TRUE]

FromFull(r) ==
    [chain |-> Chain(r), at |-> RefTo(r, 0), values |-> r.values,
     gone |-> r.kind = "Tombstone", valid |-> TRUE]

Changed(values, by) ==
    [p \in DOMAIN values \cup DOMAIN by |-> IF p \in DOMAIN by THEN by[p] ELSE values[p]]

\* A record must follow the one it refers to. A delta sets the properties it
\* has a value for, and the object lives again.
ApplyRecord(state, r) ==
    IF ~state.valid \/ (r.prev # NoRef /\ ~SamePlace(r.prev, state.at))
    THEN [state EXCEPT !.valid = FALSE]
    ELSE IF Full(r) \/ state = NoState THEN FromFull(r)
    ELSE IF r.kind = "Delta"
    THEN [state EXCEPT !.at = RefTo(r, 0), !.values = Changed(@, r.values), !.gone = FALSE]
    ELSE [state EXCEPT !.at = RefTo(r, 0), !.gone = TRUE]

Failed == {[failed |-> TRUE]}

\* The records of an object, one after the other.
StateOf(chain, c) ==
    MapThenFoldSet(LAMBDA r, state : ApplyRecord(state, r), NoState, LAMBDA r : r, LastSorted,
                   RecordsOf(chain, c))

\* The objects at a cut, those that are gone included.
Reconstructed(c) ==
    LET found == {StateOf(chain, c) : chain \in Chains(c)}
    IN  IF (\A r \in records : PrevRefValid(r)) /\ (\A s \in found : s.valid)
        THEN {[chain |-> s.chain, at |-> s.at, values |-> s.values, gone |-> s.gone] : s \in found}
        ELSE Failed

(***************************************************************************)
(* The projection's own way (reconstruct_projection_rows_at_cut): nothing  *)
(* is left of an object after a tombstone, and references are not read.    *)
(* The latest state it takes from the reader.                              *)
(***************************************************************************)
\* Mutation for the checks: a tombstone is one more row.
ProjectRecordKeeping(row, r) ==
    IF r.kind = "Delta" /\ row # NoState
    THEN [row EXCEPT !.at = RefTo(r, 0), !.values = Changed(@, r.values)]
    ELSE [FromFull(r) EXCEPT !.gone = FALSE]

ProjectRecord(row, r) ==
    CASE Full(r) -> FromFull(r)
      [] r.kind = "Delta" /\ row = NoState -> FromFull(r)
      [] r.kind = "Delta" /\ row # NoState ->
           [row EXCEPT !.at = RefTo(r, 0), !.values = Changed(@, r.values)]
      [] r.kind = "Tombstone" -> NoState

RowAt(chain, c) ==
    MapThenFoldSet(LAMBDA r, row : ProjectRecord(row, r), NoState, LAMBDA r : r, LastSorted,
                   RecordsOf(chain, c))

Live(objects) == {[chain |-> o.chain, at |-> o.at, values |-> o.values] : o \in {x \in objects : ~x.gone}}

Projected(c) ==
    IF c = Latest THEN Live(states) ELSE Live({RowAt(chain, c) : chain \in Chains(c)} \ {NoState})

-----------------------------------------------------------------------------
HistoryTypeOK ==
    /\ policy \in {"reject", "priority"}
    /\ \A r \in records : /\ r.kind \in RecordKinds /\ r.row \in Nat /\ r.segment \in Nat
                          /\ DOMAIN r.values \subseteq Properties
    /\ DOMAIN history = records
    /\ cut \in Cuts
    /\ stage \in {"idle", "convert", "written", "open", "read", "projected", "closed"}

NoHistory ==
    /\ policy = "reject" /\ batch = <<>> /\ settled = <<>> /\ records = {} /\ history = <<>>
    /\ cut = Latest /\ states = {} /\ projected = {} /\ results = <<>> /\ stage = "idle"

NothingRead == cut = Latest /\ states = {} /\ projected = {} /\ results = <<>>

HistoryInit ==
    \/ /\ \E conversion \in SourceLists : policy = conversion.policy /\ batch = conversion.batch
       /\ settled = <<>> /\ records = {} /\ history = <<>> /\ NothingRead /\ stage = "convert"
    \/ /\ \E commits \in CommitLists :
             records = Committed(commits) /\ history = [r \in Committed(commits) |-> r.record]
       /\ policy = "reject" /\ batch = <<>> /\ settled = <<>> /\ NothingRead /\ stage = "written"

\* The bytes of a file, from the rows of the sources.
Convert ==
    /\ stage = "convert" /\ batch # <<>>
    /\ ~Conflict(Head(batch))
    /\ settled' = Settle(Head(batch))
    /\ records' = WrittenRecords(settled')
    /\ history' = [r \in records' |-> r.row]
    /\ batch' = Tail(batch) /\ stage' = "written"
    /\ UNCHANGED <<policy, cut, states, projected, results>>

\* Two sources disagree: there is no file.
RejectConversion ==
    /\ stage = "convert" /\ batch # <<>>
    /\ Conflict(Head(batch))
    /\ batch' = Tail(batch)
    /\ UNCHANGED <<policy, settled, records, history, cut, states, projected, results, stage>>

OpenFile ==
    /\ stage = "written" /\ FileValid
    /\ stage' = "open"
    /\ UNCHANGED <<policy, batch, settled, records, history, cut, states, projected, results>>

RefuseFile ==
    /\ stage = "written" /\ ~FileValid
    /\ stage' = "closed"
    /\ results' = Append(results, [settled |-> settled, opened |-> FALSE, cut |-> Latest, states |-> {}])
    /\ UNCHANGED <<policy, batch, settled, records, history, cut, states, projected>>

ReconstructObjects ==
    /\ stage = "open"
    /\ cut' \in Cuts
    /\ states' = Reconstructed(cut')
    /\ results' = Append(results, [settled |-> settled, opened |-> TRUE, cut |-> cut', states |-> states'])
    /\ stage' = "read"
    /\ UNCHANGED <<policy, batch, settled, records, history, projected>>

Project ==
    /\ stage = "read" /\ states # Failed
    /\ projected' = Projected(cut)
    /\ stage' = "projected"
    /\ UNCHANGED <<policy, batch, settled, records, history, cut, states, results>>

\* The next conversion of the batch, with a file of its own.
NextConversion ==
    /\ stage \in {"projected", "closed"} /\ batch # <<>>
    /\ stage' = "convert" /\ settled' = <<>> /\ records' = {} /\ history' = <<>>
    /\ cut' = Latest /\ states' = {} /\ projected' = {}
    /\ UNCHANGED <<policy, batch, results>>

HistoryNext ==
    \/ Convert \/ RejectConversion \/ OpenFile \/ RefuseFile \/ ReconstructObjects
    \/ Project \/ NextConversion

HistorySpec == HistoryInit /\ [][HistoryNext]_historyVars

-----------------------------------------------------------------------------
(***************************************************************************)
(* What an object is at a cut, from the order of the commits: the values   *)
(* its last full record gave it (or its first, if there is none), changed  *)
(* by the deltas since; gone if the last of all is a tombstone.            *)
(***************************************************************************)
FirstOf(told) == CHOOSE r \in told : \A s \in told : history[r] <= history[s]
LastOf(told) == CHOOSE r \in told : \A s \in told : history[s] <= history[r]

Base(told) ==
    LET fulls == {r \in told : Full(r)} IN IF fulls = {} THEN FirstOf(told) ELSE LastOf(fulls)

Givers(told, p) ==
    {r \in told : /\ r = Base(told) \/ (history[r] > history[Base(told)] /\ r.kind = "Delta")
                  /\ p \in DOMAIN r.values}

ObjectOf(chain, told) ==
    [chain |-> chain, at |-> RefTo(LastOf(told), 0),
     values |-> [p \in {q \in Properties : Givers(told, q) # {}} |-> LastOf(Givers(told, p)).values[p]],
     gone |-> LastOf(told).kind = "Tombstone"]

ObjectsAt(c) == {ObjectOf(chain, RecordsOf(chain, c)) : chain \in Chains(c)}

\* Reading back never fails on a file that passed validation, and gives the
\* objects as their records made them, at whichever cut and however the
\* records lie in segments: the sort by time and commit number recovers the
\* order of the commits (spec 58.3), and a cut leaves no reference dangling.
StateIsItsHistory == stage = "read" => states = ObjectsAt(cut)

\* The projection's own reconstruction at a cut finds the objects, and the
\* values, that the reader finds at that cut, in files whose segments have all
\* columns (as the repository's writer makes them).
Dense == \A r \in records : DOMAIN r.values = Properties
ProjectionAgrees == stage = "projected" /\ Dense => projected = Live(states)

\* A batch of conversions read back at the latest state: every file opens
\* (spec.md:8095), and a value that was settled for an object that still lives
\* is in its state; docs/covemap-json-schema-v1.md:52 says that nulls do not
\* overwrite other values.
HasValue(objects, row, p) ==
    \A o \in Live(objects) :
       o.chain = <<row.type, 0, row.goid>> => p \in DOMAIN o.values /\ o.values[p] = row.values[p]

SettledValuesSurvive ==
    batch = <<>> /\ stage \in {"projected", "closed"} =>
       \A n \in {m \in DOMAIN results : results[m].cut = Latest} :
          /\ results[n].opened
          /\ \A i \in DOMAIN results[n].settled, p \in Properties :
                results[n].settled[i].values[p] # NullValue =>
                   HasValue(results[n].states, results[n].settled[i], p)

=============================================================================
