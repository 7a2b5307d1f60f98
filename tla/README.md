# COVE in TLA+

This directory specifies parts of COVE (Data-Quay-Format) in TLA+: an
immutable columnar file format, its sidecar indexes, and the DataFusion adapter
that scans it. The modules model the code of `src/v2/crates`; TLC checks them on
small instances and TLAPS proves, for every value of their constants, the safety
properties the checks find to hold (one of them, `RowsAsClaimed`, for splits of one
segment only), and that the three components with an abstract
specification implement it. `PROJECT.json` says which lines each definition models, which
runs check what, and which hazards of the code have a property that covers them.

    tlc -workers 2 -config DurableReplace.cfg DurableReplace     # a check
    tlapm DurableReplaceProofs.tla                               # a proof

Contents: [1 the system](#1-the-system) · [2 the modules](#2-the-modules) ·
[3 the runs](#3-the-runs) · [4 the proofs](#4-the-proofs) ·
[5 what the checks found](#5-what-the-checks-found) ·
[6 what is not modelled](#6-what-is-not-modelled) · [7 the plan](#7-the-plan)

## 1 The system

A COVE file is written once and never modified. A conversion builds it in
memory and *publishes* it with a durable replace; a sidecar index (COVE-I, or
COVX) and a manifest (COVM) are published beside it. A query engine opens a
dataset of files (bootstrap), plans a scan from filters, statistics and
indexes, cuts it into tasks of one *morsel* each, and decodes partitions of
tasks concurrently, each into a stream of record batches. Every acceleration
(pruning, lookup, splits, caches, metadata answers) is advisory: the README's
rule is that "advisory metadata can help planning, but it must not change query
results". Most correctness properties here are instances of that sentence.

| component | state it keeps | operations | what is hard |
|---|---|---|---|
| durable publisher `cove-core/durable.rs` | the directory and the disk, a process-wide counter | `durable_replace`, `durable_replace_with_writer` | crash between any two steps, a failing step and its cleanup, concurrent publishers, reused names |
| record batch stream `cove-datafusion/adapter_v53/stream.rs` | a bounded channel, a join handle, metrics | `poll_next`, `new_streaming`, `new_buffered`, drop | a blocking thread against a polled stream, a dropped receiver, errors and panics in mid-stream |
| decode loops and sinks `cove-datafusion/decode.rs` | the limit that remains, statistics | decode each file, task and batch | stopping early in the right place, order of pruning, overlay and filters |
| task graph `task_graph.rs` | tasks and partitions | `build_task_graph` | three ways to enumerate morsels that must agree |
| scan splits `cove-layout/lib.rs` | a section of the file | validate | the validator's reading must be the planner's |
| planner `planner.rs`, `scan_program.rs` | one plan per scan | `plan_scan` | exact filters are removed from the engine's plan |
| row selection `decode/pruning.rs`, `decode/predicates.rs` | a selection per morsel | lookup masks, candidate masks, encoded kernels | a fallback that forgets what was already filtered |
| sidecar index `cove-index` | index, key, entry and postings blocks | build, validate, look up | ranges merged twice, foreign writers |
| overlay `overlay.rs` | hidden rows, three representations | is a row or a morsel hidden | applied on each path exactly once |
| caches `decode/cache.rs` | segment metadata, readers, UTF-8 proofs (LRU) | look up or build | shared by partitions |
| range reader `range_reader.rs` | cached byte ranges | coalesce, fetch, slice | off-by-one in slices |
| provider and execution plan `adapter_v53/exec.rs`, `table_provider.rs` | pushed filters and limit | `execute`, statistics, partitioning | statistics called exact |
| metadata answers `metadata_aggregate.rs`, `dataset_state/pruning.rs` | synopses | count, sum, min, max | a missing part must make the answer unknown |
| bootstrap `bootstrap/*.rs` | dataset state | open files, accept or refuse sidecars | sidecars of another version |
| object history `cove-core/profile/cove_o`, `cove-map` | records of objects in segments | plan identities and associations, settle conflicts, write segments, validate, reconstruct at a cut, project | which rows are one object whatever the order of the sources; order, cuts, deltas and tombstones over segments; two reconstructions that must agree |
| pruning algebra `predicate.rs`, `zone_stats.rs` | statistics of a zone | three-valued outcomes | NaN, nulls, truncated bounds |

How they interact: the *publisher* writes what the *bootstrap* opens. The
bootstrap hands the *planner* a dataset state; the planner asks the *sidecar
index* for candidates, the *task graph* for partitions. `CoveExec::execute`
starts one *stream* for each partition, which spawns a blocking *decode task*;
that task calls row selection for each morsel and pushes batches through the
*sinks* into the channel. Caches are shared by the tasks. The engine polls the
stream, may drop it at any time, and reads its metrics.

What makes them correct, in one line each: the path always holds a whole file
and Ok means durable; a stream is a prefix of the partition's rows and ends
honestly; tasks partition the rows; an index, a split, a statistic or a cache
never changes the rows; an answer from metadata equals the answer from the rows;
a reconstructed object is the state its records describe.

## 2 The modules

| module | models | lines |
|---|---|---|
| `PublishedFile` | abstract: the promise of the publisher | the contract at the head of `durable.rs` |
| `DurableReplace` | the publisher and the file system under it | `durable.rs` |
| `DurableReplaceProofs` | its theorems | |
| `RowStream` | abstract: the promise of one partition's stream | `Stream` as `poll_next` implements it |
| `ScanStream`, `MCScanStream` | decode task, sinks, channel, polled stream | `stream.rs`, `decode.rs`, `exec.rs` |
| `ScanStreamProofs` | its theorems | |
| `ScanTasks`, `MCScanTasks` | splits, task graph, partitions, overlay | `task_graph.rs`, `cove-layout/lib.rs`, `decode.rs` |
| `ScanTasksProofs` | their theorems | |
| `CandidateRanges`, `MCCandidateRanges` | index build, validation, lookup, planner, scan | `cove-index`, `planner.rs`, `pruning.rs` |
| `CandidateRangesProofs` | their theorems | |
| `SnapshotRead` | abstract: what scans of a file that may be replaced promise | `bootstrap`, `decode.rs` |
| `ConversionOutput` | the files one conversion publishes, in order; crashes | `cove-convert-parquet/cli.rs` |
| `SharedFile`, `MCSharedFile` | bootstrap, partitions and their caches over those files | `bootstrap/*.rs`, `decode.rs`, `decode/cache.rs` |
| `SharedFileProofs` | their theorems | |
| `ZoneStatistics` | the three-valued pruning algebra | `predicate.rs`, `zone_stats.rs` |
| `MorselFilters` | skipping morsels and selecting rows of one file | `scan_program.rs`, `prune.rs`, `decode/pruning.rs`, `decode/predicates.rs` |
| `MetadataAnswers` | aggregates answered without a scan; scan statistics | `metadata_aggregate.rs`, `dataset_state/pruning.rs`, `exec.rs` |
| `RangePlan` | coalesced reads and slices | `range_reader.rs`, `cove-layout` |
| `TableReadProofs` | theorems about `MorselFilters`, `RangePlan` and `MetadataAnswers` | |
| `ObjectHistory` | writing, validating and reading back object records | `cove-map`, `cove_o/*.rs`, `profile_validators.rs` |
| `IdentityPlan` | which objects the rows of a mapping's sources are, and what associations connect | `cove-map/identity.rs`, `cove-map/lib.rs`, `cove-map/input.rs` |
| `MCQueryAnswers` | `MorselFilters` to `IdentityPlan`, composed with their small inputs | |
| `QueryAnswersProofs` | theorems about `IdentityPlan`, `ObjectHistory` and the composition | |
| `BasicLemmas` | facts about numbers and finite sets that several proofs need: least and greatest members, images, sizes | |

### DurableReplace

One final path, any number of publisher calls in any number of processes. A
call *is* the inode it creates and the payload it writes, so `final` (what a
reader opens) and `content` (none, partial, complete) are enough to say what a
reader gets. Each has a twin on the disk (`dfinal`, `dcontent`, `ddir`). The
actions of a call are its system calls, one each: `TempPathFor` (process id,
clock, counter), `CreateNew`, `Write`, `SyncFile`, `Rename`, `SyncParentDir`;
`StepFails` is any of them returning an error and `RemoveFile` the cleanup, whose
own error the code drops. A failed write leaves the file `partial`. The two entry
points differ in `SyncFile` only (an open handle against a path opened again):
the handle cannot fail for a missing entry, the path can, and `StepFails` allows
both. The Windows variant of the rename has the same contract and is not told
apart; its parent sync does nothing, and that platform's write-through rename
is what makes its Ok true.

The environment (mapped as external): `Kill` ends a process, whose id may be
used again with a counter that starts at zero; `Crash` reverts everything to the
disk; `WriteBackData` and `WriteBackEntry` are the kernel writing back when it
pleases, so data and entries reach the disk in any order; `DeleteTemporary` is
whoever cleans temporaries up. `installs`, `stamp` and `left` are history
variables. A sync of a directory is taken to persist all its entries at once,
and a write-back a whole inode or a whole entry.

### ScanStream

One partition. A scan is given by its row totals: task *i* selects the rows
after `ends[i-1]` up to `ends[i]`; a batch is an interval of them. The decode
task is the program counter `prod` (`files` and `decode` are the two nested loops, `send` a
batch in hand, `sendFinished` and `sendFailed` the last event, `exit` the closure
gone, `joined` the join handle ready). `remaining` and `stopped` are
`FetchLimitedDecodeSink`; `queue` is the channel in streaming mode and the
collected vector in buffered mode. `Poll` is `poll_next`, one disjunct for each
arm; a poll that returns Pending changes nothing. `DropStream` closes and empties
the channel, and a later send is refused, which the sink turns into Stop.
`DecodeError` and `Panic` may strike between any two batches.

### ScanTasks

Up to two files with segments and morsels. `Open` validates the optional split
sections in order and keeps the first that passes; `Plan` follows exact lookup
references, splits, or the loops over segments and morsels, as `build_task_graph`
does, drops morsels that are pruned or hidden, and cuts the tasks into chunks of
`Target`. `Decode(k)` is one task of one partition; partitions interleave. Pruning
is a set of morsels assumed to hold no matching row (`DatasetsWellFormed`); how it
is derived is another module's business.

### CandidateRanges

One table, one column, one query from the index to the rows. `BuildIndex` is the
repository's writer; `SupplyIndex` a sidecar of another writer, which owes what
`Promises` says and is left aside if it does not validate. `Plan` takes the first
filter the index answers, `Lookup` merges the ranges of the matching entries, the planner
drops the file and merges again, `SkipFile`, `SkipMorsel` and `ScanMorsel` are the three
uses of the result. Both merges are `Merged`: the code sorts and then walks the list, joining a range to the
one before it if it starts inside or right behind it; the module says which pairs of the sorted list are neighbours
(`Before`, `Continues`), which stretches of neighbours are joined (`Run`) and what each becomes (`Join`). The sort is stable,
so what a lookup lists carries the number of its entry (`ListedBefore`). The lists the writer makes row by row are described in the same way: the
longest stretches of rows of one morsel that hold a value (`Stretch`). A morsel number of `MorselCount` stands for `u32::MAX`, a range that names
none. Filters are sets of accepted values: what the kernels do with encodings is
the business of `MorselFilters`.

### ConversionOutput, SharedFile, SnapshotRead

A conversion publishes the data file, then its COVX, then its COVM, each with a
durable replace that may fail or be cut short by a crash. `ConversionOutput`
holds, for each path, the version readers see and the version the disk has; a
version stands for the bytes of a file, and `LengthOf`, `ShapeOf` and the digest
for what the sidecars record of them. The COVE-I index is published by another
program, at any time.

`SharedFile` puts a session on top: `StatFile`, `ReadMetadata`, `ReadIndex` and
`ValidateIndex` are the steps of a bootstrap, between any of which a conversion
may replace the file. Scans then run with two partitions that interleave: each
decodes its tasks (`Decode`: look up the reader, the segment metadata, the
dictionary, the proof that a text page is UTF-8) in the steps between which the
code takes and releases the locks of the caches. The caches are shared by the partitions
and belong to one scan, but the proofs outlive it, an LRU of `Capacity` entries whose insertion
and eviction are under one lock. A scan chooses which rows it wants of each page (`query`), and only those are
validated (`SelectedAreText`), though the proof that is then recorded is of the page. `ProofKey` gives the key of a
page, any function of the page: the code's has the page's place in its segment and not the segment, so two pages may
share one. `VerifyPages` is the page checksum policy, off by default, as in the run; the proofs are for both. `SnapshotRead` is the abstract promise: all rows of a scan
are of one version, the one at the path when the scan first looked.

### ZoneStatistics, MorselFilters, MetadataAnswers, RangePlan, ObjectHistory, IdentityPlan

`ZoneStatistics` is pure: an interval of values with a count of nulls, and the
three outcomes of a filter on it. `MorselFilters` is one scan of one file: each
morsel goes through the steps of the scan program (zone statistics, domains,
exact sets, composite index, bloom, inverted index; the null counts of its pages; then the lookup masks, then the filters one by one, the
query failing on one that cannot be evaluated), and its rows are
delivered. Numbers are words of `WordSize` values, signed, unsigned or floating
point (a sign and an order, and NaN), so a comparison by the wrong type is
visible. `MetadataAnswers` is one aggregate over a dataset of files: an answer
from synopses, lookup indexes and the aggregate answers of a COVE-I sidecar, or give up and scan. `RangePlan` merges the byte ranges of a read under a
gap, a span and hints of page clusters, and slices the answers out again.

`ObjectHistory` has two sources of files: `Convert`, which is COVE-MAP (settle the
conflicts of the source rows, one segment for each type, references to the row before), and any
other writer, as a list of commits spread over segments. A file is the set of its
records, each of which names its segment and its row there. `OpenFile` validates,
`ReconstructObjects` reads the objects back at a cut, `Project` does what the
projection does at the same cut: both take the records of an object in sorted order
(`LastSorted`) and apply them one by one. The reference definition `ObjectOf` knows when
each record was committed (`history`), which the reader does not and has to
recover from times and commit numbers, and says what the object is without replaying anything: the last full
record, and for each property the last delta since that gives it.

`IdentityPlan` is what comes before: a mapping is run (`StartConversion`, `CheckInputs`,
`PlanIdentities`, `MaterializeAssociations`, or `RefuseConversion` at whichever of them fails), its sources
grow (`SourceGrows`), and it is run again, with the files given in another order. A key is what is hashed
into a digest, so digests are injective; the union-find is its equivalence classes, named after an
anchor. An association is an object too, named after its binding and its ends, and its properties tell the row it is from: two
rows that make the same one conflict, and the conversion is refused (`AssociationsConflict`). `SameObject` says from the rule's class alone when two rows, of one conversion or of two, are about
one object. It and `ObjectHistory` share no state: the rows that `Convert` settles come with any objects.

## 3 The runs

| run | module, configuration | expects | checks |
|---|---|---|---|
| `durable_replace` | `DurableReplace`, `DurableReplace.cfg` | pass, 362,328 states | `TypeOK`, `FinalAlwaysComplete`, `AckedNeverLost`, `TemporariesAccounted`, `PublishedNeverModified`, `PublisherReturns`, `KeepsPromise` |
| `durable_replace_old` | `DurableReplace`, `DurableReplaceOld.cfg` | violation | `OldStaysAuthoritative` |
| `scan_stream` | `MCScanStream`, `ScanStream.cfg` | pass, 3,859 states | `TypeOK`, `InOrder`, `Backpressure`, `MetricsAtEof`, `ErrorAfterRows`, `StopsDecoding`, `StreamEnds`, `TaskEnds`, `KeepsPromise` |
| `scan_tasks` | `MCScanTasks`, `ScanTasks.cfg` | pass, 21,208 states | `TypeOK`, `RowsAsClaimed`, `HiddenStayHidden`, `InRowOrder` |
| `scan_tasks_splits` | `MCScanTasks`, `ScanTasksSplits.cfg` | violation | `SplitsNeverChangeRows` |
| `candidate_ranges` | `MCCandidateRanges`, `CandidateRanges.cfg` | pass, 66,980 states | `TypeOK`, `SameRows`, `CandidatesTight` |
| `candidate_ranges_foreign` | `MCCandidateRanges`, `CandidateRangesForeign.cfg` | violation | `LookupNeverUnderIncludes` |
| `shared_file` | `MCSharedFile`, `SharedFile.cfg` | pass, 455,740 states | `TypeOK`, `SidecarsNeverAhead`, `UnreplacedScanIsConsistent`, `TextCheckedOrProven`, `OneDictionary`, `ReadsOneSnapshot`, `ScanEnds` |
| `shared_file_text` | `MCSharedFile`, `SharedFileText.cfg` | violation | `BadTextNeverDelivered` |
| `query_answers` | `MCQueryAnswers`, `QueryAnswers.cfg` | pass, 2,557,120 states | `TypeOK`, `IntegerAnswersExact`, `SkippedHoldNothing`, `MetadataCountsExact`, `MetadataValuesExact`, `OwnBytes`, `ReadsBounded`, `StateIsItsHistory`, `ProjectionAgrees`, `IdentitiesDeterministic` |
| `changed_answers` | `MCQueryAnswers`, `ChangedAnswers.cfg` | violation | `EngineAnswersRight` |
| `settled_values` | `MCQueryAnswers`, `SettledValues.cfg` | violation | `SettledValuesSurvive` |

**durable_replace.** Two calls, two process ids, one clock reading, a counter
bound of 2 (`MaxCounter`), one machine crash (`MaxCrashes`), any number of kills. With a single clock
reading names collide exactly when a process id is reused, which is the case that
matters; two calls give every order of two renames around a directory sync and a
crash; a crash leaves calls that have not begun, which then run after it. Shown:
the path holds a whole file, now and after a crash; what was acknowledged is never
lost, not even to another call's older rename; a file left behind is accounted
for; a file at the path is never written again; every call returns; and the whole
implements `PublishedFile`. Deadlock is not checked: the system ends when every
call has returned. The theorems of section 4 lift the bounds.

**scan_stream.** Six partitions of up to four tasks in one file or two (empty, all tasks
empty, empty first, middle and last tasks), every limit from 0 to past
the end and none, the code's capacity of 2. More tasks than the channel holds make
the decode task wait; limits fall on, before and after the ends of batches and files.

**scan_tasks.** A file of two segments (two morsels, the last one short, and one morsel),
alone or with a second file of two segments of one morsel, five combinations of
matches, overlay and pruning, three kinds of lookup index, twelve lists of split
sections (none, the default one, four that must be refused, each alone and before
a good one, one that is accepted although it leaves a segment out, one that claims a morsel twice), chunks of two tasks. `RowsAsClaimed` is
what holds of all of them: a row comes from the partitions of the splits that claim it. That this is each row once is `SplitsNeverChangeRows`,
which `scan_tasks_splits` refutes for two indexes the validator accepts. Enough for a partition to cross a
segment and a file and for a chunk to end short.

**candidate_ranges.** All 729 tables of six rows over two values and null, two morsels,
nine filter lists (none, equality, IN, the empty IN, filters the index does
not answer, two filters), the writer's index and four foreign ones: with
over-included rows, with overlapping ranges, with duplicate keys and equality only, and one that does
not validate. Three rows are what a range strictly inside another needs.

**shared_file.** Two conversions, one of a file of the same length and shape as the old one (the
replacement hardest to notice) and one longer; two partitions, two segments, two scans in one
session; pages of two rows, of the first segment's one row wanted and of the second's both; two proof keys for the four pages, so
that pages of two segments and of two partitions share one; rows that are not UTF-8, wanted and unwanted, in two versions; a proof cache of one entry, so
that eviction happens; one crash. While a session is under way at
most one conversion has begun, it is at its data file, and no crash came before (`Calm`): a session
reads neither COVX nor COVM here, and one that starts after a crash starts from nothing. The
conversions alone interleave in full. Two scans are what a proof that outlives its scan needs,
two partitions every race on a cell or a cache entry. Everything ends, so deadlock is not checked.

**shared_file_text.** One partition and one scan of two pages with one key. In the first page the row that nobody wants is not UTF-8,
in the second one that is wanted: the trace records a proof of the first after its wanted row passed, and hands over
the second without looking.

**query_answers.** Five kinds of behaviour that share no state, in one run. *Scans*: all tables of
four rows from small sets of cells in morsels of 2, 1 and 1 rows in two segments, columns of three numeric
types, six combinations of metadata, up to thirty filter lists; words of 16 values, so that
a signed, an unsigned and a floating point reading of a word differ. *Aggregates*: datasets of
one or two files of three rows, each with eight variants of synopses, visibility and redaction, single files with five sidecar indexes, and twelve aggregates.
*Reads*: every list of three ranges over ten bytes and every hint from four. *Histories*:
conversions of three source rows about two objects with every record kind and both policies,
batches of three conversions, and commits of another writer: three on two branches or four about
one object, over two segments, with and without references, read back at the latest state and at every time and
number up to 3. Three records are what a full record, a change and an end need; the fourth lets an object return.
*Mappings*: two identity rules over one and two columns, of every merge class and candidate, with and without a
canonicalization and null rejection; row rules that merge two sources, or give a row two objects;
associations both ways, skipped or refused when an end or a validity is missing; a do-not-merge pair; a pinned source.
Three rows of one key, of another spelling of it or without one, that arrive before, between or after two
conversions: two rows are what merging needs, the third shows that a later row changes nothing.

**Fairness.** `PublisherReturns` needs that a thread inside a system call returns
(`WF` of each call's `Step`): nothing is assumed of crashes or write-back.
`StreamEnds` and `TaskEnds` need that the blocking pool runs the task and that an
engine which has not dropped the stream polls it again (`WF` of `Producer` and
of `Poll`): that is the contract of `Stream`, whose waker the channel and the join handle
ring. `ScanEnds` needs that the blocking thread of a partition keeps running (`WF` of each
partition's `Decode`); nothing is assumed of publishers, so it shows that no partition waits for
a lock that another keeps. Nothing is assumed of errors, panics or drops. The other modules have no
liveness property: their loops run over finite sets fixed in advance.

Every property of a passing run has a mutant in `PROJECT.json`: a change to one
definition, of a sort a programmer could make, under which TLC finds the
property violated by the same configuration. The mutated forms stand just above
the definitions they replace, marked "Mutation".

## 4 The proofs

Each `...Proofs` module proves, for any constants that satisfy the named assumptions of
the module it is about, every safety property its runs check and pass, and, where there is an abstract
specification, the refinement. The assumptions are typing of the inputs and what the code establishes
before; TLC evaluates them on every run. Every proof has the same shape: an inductive invariant, one
lemma that the initial states have it, one for each action that keeps it, one that it gives the property.

The library's induction theorems are out of reach (see the end of this section). `BasicLemmas` has what stands in
for them: `<` on numbers is well-founded, so a non-empty set of numbers has a least member (`NatMin`), and a statement about
all numbers is proved by looking at the least one it fails for. That is how segments are shown to tile a file, morsels a segment,
chunks a list of tasks, and how a lookup index is found to have answered every filter before the one looked at. A fold over a finite set is opened
up in the same way: a function over the subsets that follows the fold's rule exists, because there is no least size of a subset
up to which there is none (`TotalExists`, `ReplayExists`), and the fold, which chooses such a function, has its value.

**DurableReplace** assumes only that calls, the old file and "no file" are
different things (`FilesDistinct`) and that the bounds are natural numbers. The
properties are not inductive. The strengthening `IInv` adds:

- `NamesOwned`: an active call's temporary name was made from a counter value its
  process has moved past, and no other active call has it;
- `LinksOwned`: where a call's inode may be linked, in memory and on the disk, and that
  a call between `create_new` and the rename finds under its name its own inode or nothing;
- `ContentsReady`: what is written at each step, and that before the rename and
  in every file that was ever installed the data is complete on the disk;
- `Installed`: the file at the path was installed, and the stamps order what is
  on the disk, what readers see and what callers were told.

A name that is taken when `create_new` runs belongs to a call that is gone, so the
entry a call renames is the inode it wrote and synced itself; `create_new` gives
`LinksOwned`, the sync before the rename `ContentsReady`, and `AckedNeverLost`
follows because a directory sync copies the newest stamp. Nothing is assumed of the clock.

| theorem | states |
|---|---|
| `TypeCorrect`, `FinalComplete`, `AckedSurvives`, `NoOrphans` | `Spec => []` of `TypeOK`, `FinalAlwaysComplete`, `AckedNeverLost`, `TemporariesAccounted` |
| `NeverModified` | `Spec => PublishedNeverModified` |
| `Implements` | `Spec => KeepsPromise`: each step is a step of `PublishedFile` or a stutter |

**ScanStream** assumes that row totals grow (`ScansWellFormed`), limits are numbers and
the capacity is positive. `IInv` follows a row from the task to the engine: `WhereTheTaskStands` (all rows of
the tasks done are materialized, unless the sink stopped, and the batch in hand
continues them up to the cut), `WhatTheLimitKeeps` (while there is a reader, what remains
is the limit less what was materialized), `WhatTheQueueHolds` (the last event is the
last element, and the batches end where materialization stands) and
`WhatTheStreamSaid` (an end is said only when the task is at its exit and all
that was materialized is delivered).

| theorem | states |
|---|---|
| `TypeCorrect`, `RowsInOrder`, `ChannelBounded`, `MetricsTrue`, `ErrorsHonest` | `Spec => []` of `TypeOK`, `InOrder`, `Backpressure`, `MetricsAtEof`, `ErrorAfterRows` |
| `NoWastedTask` | `Spec => StopsDecoding` |
| `Implements` | `Spec => KeepsPromise`: the stream implements `RowStream` |

**ScanTasks** assumes that datasets are typed (`DatasetsTyped`), that the segments of a file follow each other and pruned
morsels hold no match (`DatasetsWellFormed`), and that a partition takes at least one task (`TargetPositive`). Segments
may be empty, the last morsel of one short, the sections of splits anything. The invariant `ScanInv` says that each
partition's tasks to do are morsels of their file, one after the other, and that what it returned are visible rows before all of
these. `OnceInv` adds who owns a row, `Owns(k, f, r)`: partition *k* has returned it or has the task that will select it;
while the tasks run, each matching visible row has exactly one owner and no other row has any (`OwnedOnce`).
The task graph establishes it: `Chunks` cuts a list of tasks into partitions without losing one, and references, splits and loops
each list every morsel once (`PlannedOnce`).

That last step is where a hypothesis is needed. `EveryRowOnce` is about datasets where every kept split index,
as the *planner* reads it, has each morsel in one split (`SplitsTile`): what the *validator* accepts does not give that when
a split crosses a segment or the splits leave morsels out or share them, which are findings 2 and 3. For indexes whose splits stay within one segment, as
the repository's writer makes them, the two readings agree, so that each row comes from the partitions of the splits that claim it
(`OneSegmentRowsAsClaimed`), and if these cover each row once (`SplitsCover`), `OneSegmentSplitsNeverChangeRows` has the property the run finds violated.

| theorem | states |
|---|---|
| `TypesHold`, `HiddenRowsStayHidden` | `Spec => []` of `TypeOK`, `HiddenStayHidden` |
| `RowsInOrder` | `Spec => InRowOrder` |
| `EveryRowOnce` | `Spec => [](SplitsTile => SplitsNeverChangeRows)` |
| `OneSegmentRowsAsClaimed` | `Spec => [](OneSegmentSplits => RowsAsClaimed)` |
| `OneSegmentSplitsNeverChangeRows` | `Spec => [](OneSegmentSplits /\ SplitsCover => SplitsNeverChangeRows)` |

**SharedFile** assumes that there is a number of segments (`SegsNat`) and of crashes
(`CrashesNat`), that lengths are numbers (`LengthsNat`), that the proof cache holds at least one (`CapacityPositive`), that
"nothing" is no value and the old version no conversion (`NoneIsNothing`,
`OldIsNoConversion`), that a checksum policy is on or off (`PolicyBoolean`) and that a scan selects rows of every page (`QueriesSelect`); nothing of
shapes, digests, texts or proof keys. `IInv` has three parts:

- `OutputsInOrder`: a conversion past its data file has that file or a later one on the disk, and one
  not past it has no sidecar anywhere;
- `ReadersAgree`: the partitions of a scan use one reader, the only one with an open file, and the
  metadata and pages a partition holds are of that reader's version;
- `CellKept`: a partition that builds the dictionary holds its cell and found it empty.

A reader keeps its descriptor, so every version a partition meets is the reader's; that gives
`ReadsOneSnapshot`, and, as an index is kept only if it names the bootstrapped version,
`UnreplacedScanIsConsistent`.
`SidecarsNeverAhead` uses that a publish waits for the directory sync.

`TextInv` is for the proofs that a page is UTF-8, which outlive the scan that made them and do not name a version. Each was earned by a page
of the bootstrapped version with that key (`Earned`) while a partition may still meet that version (`InReach`: it is at the path, or open in a reader), and
once it is out of reach it does not come back, because a conversion publishes its data file once (`PublishedOnce`). Without that part
`TextCheckedOrProven` is not inductive: a cache could hold a proof made from the new file and a scan then find the old one.

That a proof was earned does not make the text that is trusted for it UTF-8 (findings 4 and 5). `TextDelivered` says what is missing: if keys told the pages of
a version apart (`KeysTellPages`) and scans selected whole pages (`WholePages`), `BadTextNeverDelivered`, which `shared_file_text` refutes, would
hold, with everything else as it is.

| theorem | states |
|---|---|
| `TypesHold`, `SidecarsBehind`, `ConsistentScan`, `DictionaryShared`, `TrustEarned` | `Spec => []` of `TypeOK`, `SidecarsNeverAhead`, `UnreplacedScanIsConsistent`, `OneDictionary`, `TextCheckedOrProven` |
| `TextDelivered` | `Spec => [](KeysTellPages /\ WholePages => BadTextNeverDelivered)` |
| `Implements` | `Spec => ReadsOneSnapshot`: bootstrap, scans and publishers together implement `SnapshotRead` |

**CandidateRanges** assumes that values are numbers and there are rows (`CandidateAssumption`), and that tables, filters and
the indexes of other writers are typed (`InputsTyped`). No sequence is walked in the proof: `FirstAndLast` (a finite list has a first and a
last range) finds the run a range is joined into (`RunOf`), shows that runs start in order and stay in their scope (`RunIsOrdered`), that
merging invents no row (`MergedInventsNothing`), leaves a gap between what it joined (`MergedApart`), and loses no row of a list in which no range
lies inside another (`MergedLosesNothing`, for lists that are `Flat`). `Inv` says that the index in use is valid and keeps its promise
to the table and that the candidates are those of the filter asked; `ResultInv`, that the rows returned are the answer of the morsels before.

Two conditions on an index stand in the theorems, because findings 6 and 7 refute the properties without them: `OneFile`, all postings
are of the file under scan, and `Plain`, besides, no posting lies inside another, names no morsel, or belongs to an entry that lists no ranges. A gap between
the ranges of one entry is all that validation gives; `Plain` is about all entries, as a lookup of several keys merges them. The second merge needs
no condition of its own: with one file the first has left gaps. The repository's writer satisfies both (`BuiltIndexRight`: two stretches that hold different
values cannot overlap), so for it `IndexNeverChangesRows` assumes nothing; its hypothesis is about the indexes of others, and the
run's are of that sort.

| theorem | states |
|---|---|
| `TypesHold` | `Spec => []TypeOK` |
| `JoiningInventsNothing` | `Spec => [](OneFile(index) => CandidatesTight)` |
| `NothingAcceptedIsLost` | `Spec => [](Plain(index) => LookupNeverUnderIncludes)` |
| `PlainIndexSameRows` | `Spec => [](Plain(index) => SameRows)` |
| `IndexNeverChangesRows` | `Spec => []SameRows`, if the valid indexes of other writers are `Plain` |

**MorselFilters** (in `TableReadProofs`) assumes that morsels and segments follow each other (`LayoutAssumption`), that tables and filters are
of their logical type (`QueriesTyped`) and that a word has room for a sign and an exponent (`ZoneAssumption`). Tables, filters, their
number and order, the words of a bloom filter's false positives and the metadata a file has are any.
`PruneInv` says that what was skipped holds no wanted row; its core is one lemma for each kind of metadata
(`FilterPrunesSound`, `CompositePrunesSound`). `ExactInv` says what the selection is between two filters:

- `MaskRight`: the rows of the morsel that every filter tried so far means, those left to the engine or to an index aside, and, if the
  indexes answered, that the covered ones mean too;
- `AnswerRight`: what is returned is what is wanted of the morsels before;
- `DoneRight`: at the end that is the whole table.

Two things carry the weight. A comparison of words is a comparison of numbers where the words of a column of integers can be
compared at all (`KeepsWhatMatches`): for floating point numbers it is not, and the theorem does not speak of them (finding 8). And a search that
answered at all answered every filter the kernels then leave out (`CoveredIsSearched`): `LookupAnswers` gives up at a filter it has no index
for, but not at one it does not reach because no row is left. Both theorems except the files whose composite zones
happen to have the length of whole tuples (`ZonesMisread`), which is finding 9.

| theorem | states |
|---|---|
| `FilterTypesHold` | `FilterSpec => []FilterTypeOK` |
| `NothingWantedSkipped` | `FilterSpec => [](~ZonesMisread => SkippedHoldNothing)` |
| `IntegerQueriesExact` | `FilterSpec => [](~ZonesMisread => IntegerAnswersExact)` |

**RangePlan** (in `TableReadProofs`) assumes typed ranges and clusters and natural bounds (`RangeAssumption`), not that ranges fit their clusters or begin
before they end. `PlanOK` says of every read that its members lie in it, that it begins where one of them begins, that each member is in that
read only, that a joined read keeps the limits, and that what is grouped comes before what waits. The next range is the earliest not
grouped yet (`NextRangeIsNext`), which is why a read never has to grow to the left. Giving up the clusters half-way starts over with no read.

| theorem | states |
|---|---|
| `RangeTypesHold`, `EveryCallerOwnBytes`, `JoinedReadsBounded` | `RangeSpec => []` of `RangeTypeOK`, `OwnBytes`, `ReadsBounded` |

**MetadataAnswers** (in `TableReadProofs`) assumes of a file what the converter that wrote it guarantees (`AnswerAssumption`): a
row is in one segment, the entries are about segments, a dictionary has a code of its own for each value in the rows, a
column declared without nulls has none, and a segment's sum is a signed word where sums are written at all, since it refuses the others. How many files there are, which
metadata, deletions, redactions and sidecar answers each has, and which entries are missing, is left open. `AnswerInv`
says what the tally stands for while the files are looked at one after the other (`AskingInv`): the counts of the rows of the files
before, their groups, or the rows, the present numbers, the sum and the extremes of the entries added up (`SynopsisInv`).

Three arguments carry it. The entries of a file are disjoint, so their sizes and sums add up to those of their union (`SumOfSizes`,
`SumOfEntries`; a sum over a finite set does not depend on the order, `TotalUnique`). The entries may cover a file in part, and yet
an answer is given only if their rows come to the rows of *all* files: then nothing is missing anywhere, because no file can have
more rows in its entries than it has (`NoLessNoMore`, `SynopsisDone`). And codes are a file's own: those of the values asked for select the rows with these
values in that file only (`WithCodesRight`), which is why the codes are looked up again for each.

| theorem | states |
|---|---|
| `AnswerTypesHold`, `CountsFromMetadata`, `ValuesFromMetadata` | `AnswerSpec => []` of `AnswerTypeOK`, `MetadataCountsExact`, `MetadataValuesExact` |

**ObjectHistory** (in `QueryAnswersProofs`) assumes that rows of sources are typed and have a value or null for every property, of which there is one at least, and that the
commits of another writer have times that do not go back (`HistoryAssumption`). It does not assume that the file is valid, that records refer to
anything, how they lie in segments, or how many there are. `RecordsInv` is what every writer owes the reader: of two records of one object the later one has the higher
commit number and no earlier time, and a record refers to nothing or to the one right before it. Another writer's
commits are so by their numbering (`CommitsInOrder`). For COVE-MAP it is a consequence of the order it writes in, whose position is the row and the commit number
(`RowsSorted`, `RowsCountUp`, `WrittenInOrder`), and settling conflicts changes values only (`SettledRows`).

Given that, sorting by time, commit number and place is sorting by commit (`SortedByTime`, `SortedLastIsLast`), and no reference is
left dangling by a cut, since a cut takes an object's records from the beginning (`RefsValid`). What a prefix of an
object's records comes to is then compared with `ObjectOf` of the same prefix, by the smallest prefix where they differ: its last record
either starts afresh or changes what the others gave (`AppliedRight`). The projection drops what it had at a tombstone where the reader keeps
the values and a mark (`ProjectedNext`), so the two agree on live objects only where a delta has every property (`Dense`): that
is how `ProjectionAgrees` reads, and why. `HistoryInv` adds that what was read at the cut is `ObjectsAt(cut)`.

| theorem | states |
|---|---|
| `HistoryTypesHold`, `StatesAreTheirHistory`, `ProjectionsAgree` | `HistorySpec => []` of `HistoryTypeOK`, `StateIsItsHistory`, `ProjectionAgrees` |

**IdentityPlan** (in `QueryAnswersProofs`) assumes that rows, orders and rules are typed (`MappingsTyped`). `IdentityInv` says of the
conversion under way that its identities and associations are a function of the data, whatever order the sources were given in
(`IdentitiesFrom`, `LinksFrom`), and of every conversion done that what it has is right for its data, which the present data have grown
from (`Grown`: a row keeps its place). The class of a key and its name depend on the keys alone (`OneNameOneObject`, `ObjectsKeptApart`), so two
conversions agree on what their rules fix (`RightIsDeterministic`).

| theorem | states |
|---|---|
| `IdentityTypesHold`, `SameDataSameObjects` | `IdentitySpec => []` of `IdentityTypeOK`, `IdentitiesDeterministic` |

**MCQueryAnswers**, the specification the run `query_answers` checks, puts the five parts beside each other. `QueryInv` says that each is idle or has
the invariant of its own proof; an idle part cannot step, so `EveryAnswerRight` has all of the above of every behaviour of the
composition, its `TypeOK` included. It keeps the hypothesis about composite zones; the run needs none, since its table has no zones of that length. Beyond the
assumptions of the parts it needs that there is some kind of metadata (`Metas # {}`), for an idle scan to have one.

| theorem | states |
|---|---|
| `EveryAnswerRight` | `MCSpec => []` of `TypeOK` and of the nine other properties of the run, `IntegerAnswersExact` and `SkippedHoldNothing` if `~ZonesMisread` |

**Only model-checked.** The liveness properties `PublisherReturns`, `StreamEnds`, `TaskEnds` and `ScanEnds`: fairness
and ENABLED are beyond the prover. What a module defines by sets where the code has a loop is argued in its comments and not proved:
that the sets of `CandidateRanges` are what the merging loops compute, or that `LastSorted` takes records in the order of the code's sort. The six properties
that runs find violated are false as they stand; `OneSegmentSplitsNeverChangeRows`, `TextDelivered`, `NothingAcceptedIsLost` and `IntegerQueriesExact` are
what is left of four of them, under the condition a finding names. `RowsAsClaimed` is proved for splits of one segment only; the run has an index
with a split over two.

## 5 What the checks found

Six runs expect a violation; the quotations stand in `PROJECT.json`.

1. **A failed publish may have published** (`durable_replace_old`). `spec.md:8361`: "If any step
   fails, the old file remains authoritative." The rename precedes the parent
   sync, so when that sync fails the call returns an error for a file that is
   in place, as the code's own comment says. A bare file name as the output path
   meets this each time: its `parent()` is the empty path, which cannot be opened.
2. **A split that crosses a segment loses rows** (`scan_tasks_splits`). The validator reads
   `first_morsel_id` and `morsel_count` as one walk over the split's segments, the planner as
   the same range of morsels in each segment. The repository's writer makes one split per
   segment, where both agree.
3. **Splits that are not the table lose and repeat rows** (`scan_tasks_splits`). Each split is validated on its own. What no split claims
   is not planned, what two claim is planned twice: an index of another writer, or an out-of-date one whose splits still fit.
4. **Pages of two segments share a proof** (`shared_file_text`). `Utf8ProofKey` has a page's offset in its segment and not the segment
   (nor the table), so a page is trusted for the proof that another one earned.
5. **A proof of a page is recorded for the rows that were selected** (`shared_file_text`). Only these are validated, and a later, wider scan
   of the page trusts the rest. Pages of one segment suffice; the run's one scan needs finding 4 besides.
6. **A nested range loses candidates** (`candidate_ranges_foreign`). Both merges set the end of the
   joined range to the end of the later one. The repository's writer never nests ranges, and with
   it `SameRows` holds; over-inclusive indexes, and exact indexes of several files once the file is dropped, do.
7. **A posting that is no range of one morsel empties the scan** (`candidate_ranges_foreign`). The
   planner keeps only row ranges with a morsel number and takes the rest of the
   answer as nothing.
8. **Floating point numbers are compared as the integers their bits spell** (`changed_answers`). The exact
   filter kernels see a NumCode and not its column's type: -1.0 < 2 is false there. For
   columns of integers `IntegerAnswersExact` holds; note that it allows a query to fail, which is what an exact
   filter on a negative Int64 makes it do (`predicates.rs:415`).
9. **Composite zones are read as tuples** (`changed_answers`). The converter writes zones of
   two minima and maxima, the pruning reads the same bytes as tuples of a segment and a morsel, so that
   morsels with matching rows are pruned.
10. **A filtered scan reports the table's row count as exact** (`changed_answers`). Whoever takes the count from the statistics, as the engine
    may for `COUNT(*)`, gets the rows of the table: `EngineAnswersRight` is about the rows a query returns and about that number.
11. **A delta written by COVE-MAP makes a file the reader refuses** (`settled_values`). The writer sets the
   target kind of every reference to delta-like, validation demands that it names the kind of the record before.
12. **A later row without a value erases a settled value** (`settled_values`). A full record
   replaces all columns, the null ones too.

Five things no property forbids, and a reader should know. The writer of COVE-I stores the
minimum and the maximum with the tag of their key (`build.rs:743`), where `spec.md:4290` has a canonical
value and `exact_covi_unfiltered_min_max` reads one: over integers such a query, which would succeed
as a scan, fails (`UnreadableExtremes`), unless a synopsis answers it first; and an index with these answers but no counts
does not validate (`Validates`). A data file replaced between
the bootstrap and a scan by one of the same length and shape is scanned with the old state: `ReadsOneSnapshot` still
holds, as the rows are all of the new version, and `UnreplacedScanIsConsistent` speaks of
scans that find the old one. And `ProjectionAgrees` is about files whose segments have
every column, as COVE-MAP writes them: in others a delta after a tombstone brings the properties of before back
in the reader and not in the projection. An association to an object that is not merged over all sources may lead elsewhere
once a source has grown: of several objects with the key its row gives, the table of keys
(`cove-map/lib.rs:162`) has the last, so `IdentitiesDeterministic` fixes the rule and the key of an end, and the
object only where the rule merges globally (or the data are the same). Last, what a conversion that merges rows writes about
it does not pass its own validation: the equivalence index pairs the alias of an anchor with that of a member
(`cove-map/lib.rs:1109`), which are one and the same, and `normalize_pair` (`cove_map/embedded.rs:1706`) refuses equal
names; the assertion log keeps one assertion for each object (`cove-map/lib.rs:350`), where every row's evidence must find its own.
The sections are optional, so the file is readable (`profile_validators.rs:1564`). These
sections are not modelled.

## 6 What is not modelled

Whole parts. Byte layouts, checksums, codecs, Arrow and Parquet conversion: sequential, without
state, and a matter of bytes. The descriptors of the engine cache,
runtime and io crates, the command line and the conformance corpus: no protocol of their own. The
format's version 1: an older copy of the design. The trust chain and its signatures.

In the modelled components:

- *files*: a file's length and footer checksum identify its version, and no version returns; files are
  replaced, never deleted. Object-store and memory-mapped readers run the same decode loops over
  another reader. A panic that poisons a lock is left out of `SharedFile` (`ScanStream` has panics).
- *filters*: combinations with OR, filters on variable-length bytes, coverage proofs and sketches. A filter that
  matches all rows of a zone is not told apart from one that cannot be decided: the code skips on "none" only.
- *indexes*: answers of COVE-I about strings; page clusters and zero-copy maps of
  COVE-L, of which `RangePlan` has the hints only.
- *objects*: property expressions, evidence and assertion logs of COVE-MAP, which rows have object records besides their
  identity (`row_rule_materializes_object`), the bloom indexes over
  objects. Segment ids are those of one object type: validation allows two types to share an id, where the reader's map
  of references (`readback.rs:702`) keeps one of the two records.

## 7 The plan

Done: every module of section 2, and the theorems of section 4; no safety property of a passing run is without one (`RowsAsClaimed` has one for splits of one segment). What remains is to model more,
in this order:

1. Filters with OR and over variable-length bytes in `MorselFilters`, with their kernels.
2. The evidence and equivalence sections of COVE-MAP beside `IdentityPlan`, whose validation the writer does not meet (section 5).
3. The other coverage providers of the planner, on the pattern of `CandidateRanges`.
