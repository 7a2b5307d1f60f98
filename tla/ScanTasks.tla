------------------------------- MODULE ScanTasks -------------------------------
(***************************************************************************)
(* From segments to partitions: which morsels a scan decodes, and which    *)
(* partition decodes each.  build_task_graph of task_graph.rs enumerates   *)
(* the morsels of every file, or follows the file's scan splits, or the    *)
(* row references of exact lookup indexes; partitions are then decoded     *)
(* independently, each task filtered by its predicate or its row           *)
(* references and by the overlay.  Scan splits come from optional sections *)
(* that are validated when the file is opened (cove-layout).               *)
(*                                                                         *)
(* A file is a record:                                                     *)
(*   segs      its segments, <<[start, rows, size]>>: first row, rows, and *)
(*             rows per morsel; segment i has the identifier i             *)
(*   match     the rows that satisfy the filters                           *)
(*   hidden    the rows the overlay hides                                  *)
(*   pruned    the <<segment, morsel>> pairs that statistics, indexes or   *)
(*             zone maps prove empty                                       *)
(*   lookup    "absent", "exact" or "dangling" (a reference past a morsel) *)
(*   sections  its scan split indexes, each a sequence of splits           *)
(***************************************************************************)
EXTENDS Integers, Sequences, FiniteSets

CONSTANTS Datasets,   \* the sequences of files to choose from
          Target      \* target_morsels_per_partition, at least 1

Segment == [start : Nat, rows : Nat, size : Nat \ {0}]
SplitEntry == [id : Nat, seg : Nat, segs : Nat, morsel : Nat, morsels : Nat,
               row : Nat, rows : Nat]
File == [segs : Seq(Segment), match : SUBSET Nat, hidden : SUBSET Nat,
         pruned : SUBSET (Nat \X Nat), lookup : {"absent", "exact", "dangling"},
         sections : Seq(Seq(SplitEntry))]

ASSUME DatasetsTyped == Datasets \subseteq Seq(File)

\* Pruning is conservative and segments lie one after the other.
ASSUME DatasetsWellFormed ==
  \A d \in Datasets : \A i \in 1..Len(d) :
     /\ \A s \in 1..Len(d[i].segs) :
          d[i].segs[s].start = IF s = 1 THEN 0
                               ELSE d[i].segs[s - 1].start + d[i].segs[s - 1].rows
     /\ \A p \in d[i].pruned :
          LET seg == d[i].segs[p[1]]
          IN  \A r \in d[i].match : r < seg.start + p[2] * seg.size
                                    \/ r >= seg.start + (p[2] + 1) * seg.size
                                    \/ r >= seg.start + seg.rows
ASSUME TargetPositive == Target \in Nat \ {0}

VARIABLES files,   \* the dataset
          splits,  \* per file, the split index it was opened with: {} or {index}
          phase,   \* "open", "plan" or "run"
          todo,    \* the tasks each partition has still to decode
          out      \* the rows each partition has returned

vars == <<files, splits, phase, todo, out>>

------------------------------------------------------------------------------
(* Segments and morsels                                                     *)

SegsOf(f) == 1..Len(files[f].segs)
Least(a, b) == IF a <= b THEN a ELSE b
MorselCount(seg) == (seg.rows + seg.size - 1) \div seg.size

\* morsel_row_count_for: the last morsel of a segment may be short.
MorselRowCount(seg, m) == Least(seg.size, seg.rows - m * seg.size)

MorselRows(f, s, m) ==
  LET seg == files[f].segs[s]
      first == seg.start + m * seg.size
  IN  first .. first + MorselRowCount(seg, m) - 1

Morsels(f) ==
  UNION {{<<s, m>> : m \in 0 .. MorselCount(files[f].segs[s]) - 1} : s \in SegsOf(f)}

\* The order of the loops: by file, then segment, then morsel.
Before(a, b) == \/ a.file < b.file
                \/ a.file = b.file /\ a.seg < b.seg
                \/ a.file = b.file /\ a.seg = b.seg /\ a.morsel < b.morsel

------------------------------------------------------------------------------
(* Opening: validate_scan_split_authority                                   *)

\* The validator walks `morsels` morsels from the first one on, through the
\* split's segments; later segments are entered at their first morsel.
Reach(f, sp) ==
  {p \in Morsels(f) : /\ p[1] \in sp.seg .. sp.seg + sp.segs - 1
                      /\ p[1] = sp.seg => p[2] >= sp.morsel}
Walk(f, sp) ==
  {p \in Reach(f, sp) :
     Cardinality({q \in Reach(f, sp) : q[1] < p[1] \/ (q[1] = p[1] /\ q[2] < p[2])})
        < sp.morsels}

Accepted(f, sp) ==
  /\ sp.segs > 0 /\ sp.morsels > 0
  /\ <<sp.seg, sp.morsel>> \in Morsels(f)
  /\ Cardinality(Walk(f, sp)) = sp.morsels
  /\ \A p \in Walk(f, sp) : \A s \in sp.seg .. p[1] : MorselCount(files[f].segs[s]) > 0
  /\ sp.row = files[f].segs[sp.seg].start + sp.morsel * files[f].segs[sp.seg].size
  /\ sp.rows = Cardinality(UNION {MorselRows(f, p[1], p[2]) : p \in Walk(f, sp)})

\* Mutation: the index is taken as it was parsed.
ValidIndexUnchecked(f, index) == TRUE

\* Every entry is checked, on its own, and the identifiers differ.
ValidIndex(f, index) ==
  /\ \A i \in 1..Len(index) : Accepted(f, index[i])
  /\ \A i, j \in 1..Len(index) : index[i].id = index[j].id => i = j

\* The first section that validates is kept, the others are ignored.
OpenFile(f) ==
  LET valid == {i \in 1..Len(files[f].sections) : ValidIndex(f, files[f].sections[i])}
  IN  {files[f].sections[i] : i \in {j \in valid : \A l \in valid : j <= l}}

Open ==
  /\ phase = "open"
  /\ splits' = [f \in 1..Len(files) |-> OpenFile(f)]
  /\ phase' = "plan"
  /\ UNCHANGED <<files, todo, out>>

------------------------------------------------------------------------------
(* Planning: build_task_graph                                               *)

AllHidden(f, s, m) == MorselRows(f, s, m) \subseteq files[f].hidden

Task(f, s, m, sel) == [file |-> f, seg |-> s, morsel |-> m, sel |-> sel]
NoSelection == {-1}

\* maybe_push_task: what the overlay hides or pruning excludes is no task.
Push(f, morsels) ==
  {Task(f, p[1], p[2], NoSelection) :
     p \in {q \in morsels : ~AllHidden(f, q[1], q[2]) /\ q \notin files[f].pruned}}

\* The split loop: the same range of morsels in each segment of the split.
SplitMorsels(f, sp) ==
  {p \in Morsels(f) : /\ p[1] \in sp.seg .. sp.seg + sp.segs - 1
                      /\ p[2] \in sp.morsel .. sp.morsel + sp.morsels - 1}

\* chunks(target) of tasks in loop order; the last chunk may be short.
ChunkOf(tasks, t) == Cardinality({u \in tasks : Before(u, t)}) \div Target
ChunkCount(tasks) == (Cardinality(tasks) + Target - 1) \div Target

\* Partitions are named <<0, chunk>> or <<file, split>>; a scan without a task
\* has one empty partition.
Chunks(tasks) ==
  [k \in {<<0, c>> : c \in 0 .. ChunkCount(tasks) - 1} |->
     {t \in tasks : ChunkOf(tasks, t) = k[2]}]
NoTasks == [k \in {<<0, 0>>} |-> {}]

\* Mutation: a scan without a task has no partition.
PartitionedOnly(tasks) == Chunks(tasks)

Partitioned(tasks) == IF tasks = {} THEN NoTasks ELSE Chunks(tasks)

SplitTasks(f, i) ==
  UNION {Push(f, SplitMorsels(f, index[i])) : index \in splits[f]}

SplitPartitions ==
  LET entries(f) == UNION {{<<f, i>> : i \in 1..Len(index)} : index \in splits[f]}
      nonempty == {k \in UNION {entries(f) : f \in 1..Len(files)} :
                     SplitTasks(k[1], k[2]) # {}}
  IN  [k \in nonempty |-> SplitTasks(k[1], k[2])]

FallbackTasks ==
  UNION {Push(f, Morsels(f)) : f \in {g \in 1..Len(files) : splits[g] = {}}}

Merged(a, b) == [k \in DOMAIN a \cup DOMAIN b |-> IF k \in DOMAIN a THEN a[k] ELSE b[k]]

ScanPartitions ==
  IF DOMAIN SplitPartitions = {} THEN Partitioned(FallbackTasks)
  ELSE IF FallbackTasks = {} THEN SplitPartitions
  ELSE Merged(SplitPartitions, Chunks(FallbackTasks))

\* build_lookup_rowref_task_graph: every file must have a usable index, else
\* the whole graph is built the other way.
LookupEligible == \A f \in 1..Len(files) : files[f].lookup = "exact"
RowrefTasks ==
  UNION {{Task(f, p[1], p[2], MorselRows(f, p[1], p[2]) \cap files[f].match) :
            p \in {q \in Morsels(f) :
                     /\ MorselRows(f, q[1], q[2]) \cap files[f].match # {}
                     /\ ~AllHidden(f, q[1], q[2])}} : f \in 1..Len(files)}

Plan ==
  /\ phase = "plan"
  /\ todo' = IF LookupEligible THEN Partitioned(RowrefTasks) ELSE ScanPartitions
  /\ out' = [k \in DOMAIN todo' |-> {}]
  /\ phase' = "run"
  /\ UNCHANGED <<files, splits>>

------------------------------------------------------------------------------
(* Decoding                                                                 *)

\* Mutation: row references are taken as they are.
SelectedRowrefs(t) ==
  IF t.sel = NoSelection
  THEN (MorselRows(t.file, t.seg, t.morsel) \cap files[t.file].match)
         \ files[t.file].hidden
  ELSE t.sel

\* The rows of a task: its row references, or the rows of the predicate; the
\* overlay is applied to both.
Selected(t) ==
  (IF t.sel = NoSelection
   THEN MorselRows(t.file, t.seg, t.morsel) \cap files[t.file].match
   ELSE t.sel) \ files[t.file].hidden

\* Mutation: tasks are popped from the end.
LastTask(k) == CHOOSE t \in todo[k] : \A u \in todo[k] : u = t \/ Before(u, t)

\* The next task of the partition, in the order they were pushed.
FirstTask(k) == CHOOSE t \in todo[k] : \A u \in todo[k] : u = t \/ Before(t, u)

Decode(k) ==
  /\ phase = "run" /\ todo[k] # {}
  /\ LET t == FirstTask(k)
     IN  /\ todo' = [todo EXCEPT ![k] = @ \ {t}]
         /\ out' = [out EXCEPT ![k] = @ \cup {<<t.file, r>> : r \in Selected(t)}]
  /\ UNCHANGED <<files, splits, phase>>

Done == phase = "run" /\ \A k \in DOMAIN todo : todo[k] = {}
Terminated == Done /\ UNCHANGED vars

Init ==
  /\ files \in Datasets
  /\ splits = <<>> /\ phase = "open"
  /\ todo = NoTasks /\ out = NoTasks

Next == Open \/ Plan \/ (\E k \in DOMAIN todo : Decode(k)) \/ Terminated

Spec == Init /\ [][Next]_vars

------------------------------------------------------------------------------
(* Properties                                                               *)

Visible(f) == files[f].match \ files[f].hidden
RowsOf(f) ==
  UNION {files[f].segs[s].start .. files[f].segs[s].start + files[f].segs[s].rows - 1 :
           s \in SegsOf(f)}
Partitions == DOMAIN todo

\* The names of partitions, and tasks and rows that exist.
TypeOK ==
  /\ files \in Datasets
  /\ phase \in {"open", "plan", "run"}
  /\ DOMAIN out = Partitions /\ Partitions # {}
  /\ \A k \in Partitions :
       /\ \A t \in todo[k] : /\ <<t.seg, t.morsel>> \in Morsels(t.file)
                             /\ t.sel = NoSelection
                                \/ t.sel \subseteq MorselRows(t.file, t.seg, t.morsel)
       /\ \A fr \in out[k] : fr[1] \in 1..Len(files) /\ fr[2] \in RowsOf(fr[1])

\* The rows an entry of an index claims, and the partitions of a file whose
\* entries claim a row.
Claimed(sp) == sp.row .. sp.row + sp.rows - 1
Claims(f, r) ==
  UNION {{<<f, i>> : i \in {j \in 1..Len(index) : r \in Claimed(index[j])}} :
           index \in splits[f]}

\* Every row that satisfies the filters and that the overlay shows is returned:
\* in a file planned by an accepted split index, by the partition of each entry
\* that claims the row and by no other; in a file whose indexes were refused,
\* that has none, or that is read by row references, by exactly one partition.
\* No other row is returned by any, whatever is pruned and however tasks are
\* chunked.
RowsAsClaimed ==
  Done => \A f \in 1..Len(files) : \A r \in RowsOf(f) :
    LET returning == {k \in Partitions : <<f, r>> \in out[k]}
    IN  IF r \notin Visible(f) THEN returning = {}
        ELSE IF splits[f] # {} /\ ~LookupEligible THEN returning = Claims(f, r)
        ELSE Cardinality(returning) = 1

\* A partition returns its rows in row order, across morsels, segments and files:
\* decode.rs "emits rows in segment order and morsel order".
InRowOrder ==
  [][\A k \in Partitions \cap DOMAIN todo' :
       \A new \in out'[k] \ out[k], old \in out[k] :
         phase = "run" => old[1] < new[1] \/ (old[1] = new[1] /\ old[2] < new[2])]_vars

\* At no time has a partition returned a row the overlay hides, whichever way
\* the row was selected.
HiddenStayHidden ==
  \A k \in Partitions, f \in 1..Len(files) :
    \A r \in files[f].hidden : <<f, r>> \notin out[k]

\* Scan splits "MUST NOT change logical row order or returned rows": whatever
\* index passed its validation, each row that satisfies the filters and that the
\* overlay shows is returned by exactly one partition, no other row by any.
SplitsNeverChangeRows ==
  Done => \A f \in 1..Len(files) : \A r \in RowsOf(f) :
            Cardinality({k \in Partitions : <<f, r>> \in out[k]})
              = IF r \in Visible(f) THEN 1 ELSE 0
================================================================================
