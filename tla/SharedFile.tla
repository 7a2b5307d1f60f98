------------------------------ MODULE SharedFile ------------------------------
(***************************************************************************)
(* A reader of cove-datafusion at work on a file that conversions replace  *)
(* and index builders describe meanwhile (ConversionOutput).  A session    *)
(* bootstraps the file once into an immutable DatasetState; each execution *)
(* of a scan then opens the path again, and its partitions, which are      *)
(* threads, share the caches of decode/cache.rs: the reader with its open  *)
(* descriptor, the segment metadata, the Arrow dictionary values, and,     *)
(* across the scans of the session, the proofs that a page is UTF-8.       *)
(* A partition has one morsel, so one page of text, in each segment; a     *)
(* scan's filters select some of the rows of each page.                    *)
(*                                                                         *)
(* A version stands for its bytes; its length and footer checksum tell it  *)
(* from every other.  All that reading a version in place of another can   *)
(* notice is its length, at bootstrap, and the shape of its segments.      *)
(***************************************************************************)
EXTENDS ConversionOutput

CONSTANTS Parts,      \* the partitions of the scan
          NSegs,      \* each partition reads morsels of the segments 1..NSegs
          Length,     \* version -> length of the file
          Shape,      \* version -> ids, row counts, offsets of its segments
          PageRows,   \* the rows of a page of text
          BadRows,    \* the <<version, partition, segment, row>> not UTF-8
          ProofKey,   \* <<version, partition, segment>> -> key of its proof
          Queries,    \* what a scan may select: page -> rows of the page
          VerifyPages,\* whether page checksums are compared (default: not)
          Capacity,   \* capacity of the proof cache
          MaxScans,   \* bound on the scans of the session
          None        \* nothing there

ASSUME LengthsNat == Length \in [Versions -> Nat]
ASSUME SegsNat == NSegs \in Nat \ {0}
ASSUME NoneIsNothing == None \notin Versions /\ None \notin Parts
                        /\ None \notin Queries
ASSUME CapacityPositive == Capacity \in Nat \ {0} /\ MaxScans \in Nat \ {0}

ASSUME PolicyBoolean == VerifyPages \in BOOLEAN

Segs == 1..NSegs
Pages == Parts \X Segs

\* A page of which a scan selects nothing is not read.
ASSUME QueriesSelect == Queries \subseteq [Pages -> SUBSET PageRows \ {{}}]

VARIABLES session,    \* how far bootstrap has come
          len,        \* the length fs::metadata returned
          state,      \* the version the DatasetState was built from
          covi,       \* the version the accepted index describes, or None
          scans,      \* scans begun so far
          query,      \* what the scan selects of each page
          pc,         \* where each partition stands
          seg,        \* the segment each partition is at
          shared,     \* cache: the partition whose reader everybody uses
          mine,       \* the reader each partition got, named by who made it
          fd,         \* the version each reader has open, None before
          segCache,   \* cache: segment -> the version its metadata is from
          segMeta,    \* the segment metadata each partition goes by
          holder,     \* who holds the lock of the dictionary cell
          cell,       \* the dictionary values in the cell, named by who built
          values,     \* the dictionary values each partition goes by
          trusts,     \* the partitions that found a proof for their page
          proofs,     \* the proof cache: keys by the epoch of their last use
          rows,       \* history: what the rows of this scan were made from
          builds,     \* history: dictionary builds that succeeded
          validated   \* history: the <<version, partition, segment>> validated

sessionVars == <<session, len, state, covi>>
readerVars == <<shared, mine, fd>>
metaVars == <<segCache, segMeta>>
dictVars == <<holder, cell, values, builds>>
proofVars == <<trusts, proofs, validated>>
askedVars == <<scans, query>>
scanVars == <<askedVars, pc, seg, readerVars, metaVars, dictVars, proofVars, rows>>
vars == <<outputVars, sessionVars, scanVars>>

Init ==
  /\ OutputInit
  /\ session = "new" /\ len = 0 /\ state = None /\ covi = None
  /\ scans = 0 /\ query = None
  /\ pc = [p \in Parts |-> "idle"]
  /\ seg = [p \in Parts |-> 1]
  /\ shared = None
  /\ mine = [p \in Parts |-> None]
  /\ fd = mine
  /\ segCache = [s \in Segs |-> None]
  /\ segMeta = mine
  /\ holder = None /\ cell = None
  /\ values = mine
  /\ trusts = {} /\ proofs = <<>>
  /\ rows = {} /\ builds = 0 /\ validated = {}

goto(p, l) == pc' = [pc EXCEPT ![p] = l]

------------------------------------------------------------------------------
(* Bootstrap: bootstrap_local_path_with_options looks at the path three     *)
(* times, and validate_covi_for_file at the index in between.               *)

StatFile ==
  /\ session = "new"
  /\ len' = Length[visible["cove"]]
  /\ session' = "metadata"
  /\ UNCHANGED <<outputVars, state, covi, scanVars>>

\* Everything in the state is read through one descriptor; a postscript that
\* is not where the length says, or says another length, is an error.
ReadMetadata ==
  /\ session = "metadata"
  /\ IF Length[visible["cove"]] = len
       THEN state' = visible["cove"] /\ session' = "index"
       ELSE session' = "failed" /\ UNCHANGED state
  /\ UNCHANGED <<outputVars, len, covi, scanVars>>

\* The sidecar's bytes are kept until they can be validated.
ReadIndex ==
  /\ session = "index"
  /\ covi' = visible["covi"]
  /\ session' = "digest"
  /\ UNCHANGED <<outputVars, len, state, scanVars>>

\* Mutation: a declared digest is all the index is held against.
ValidateDigestOnly ==
  /\ session = "digest"
  /\ \E declaresDigest \in BOOLEAN :
        covi' = IF declaresDigest => covi = visible["cove"] THEN covi ELSE None
  /\ session' = "ready"
  /\ UNCHANGED <<outputVars, len, state, scanVars>>

\* The index must name the identity in the state and, if it declares a
\* digest, the digest of what is at the path by now; else it is stale.
ValidateIndex ==
  /\ session = "digest"
  /\ \E declaresDigest \in BOOLEAN :
        covi' = IF covi = state /\ (declaresDigest => covi = visible["cove"])
                THEN covi ELSE None
  /\ session' = "ready"
  /\ UNCHANGED <<outputVars, len, state, scanVars>>

------------------------------------------------------------------------------
(* One execution of a scan.  A new CoveExec has a new ScanExecutionCache.   *)

ScanOver == \A p \in Parts : pc[p] \in {"idle", "done", "err"}

NewScanCache ==
  /\ seg' = [p \in Parts |-> 1]
  /\ shared' = None
  /\ mine' = [p \in Parts |-> None]
  /\ fd' = mine'
  /\ segCache' = [s \in Segs |-> None]
  /\ segMeta' = mine'
  /\ holder' = None /\ cell' = None
  /\ values' = mine'
  /\ trusts' = {}
  /\ rows' = {} /\ builds' = 0

StartScan ==
  /\ session = "ready"
  /\ scans < MaxScans
  /\ ScanOver
  /\ scans' = scans + 1
  /\ query' \in Queries
  /\ pc' = [p \in Parts |-> "reader"]
  /\ NewScanCache
  /\ UNCHANGED <<outputVars, sessionVars, proofs, validated>>

\* Mutation: a reader for each partition.
OwnReader(p) ==
  /\ pc[p] = "reader"
  /\ shared' = p
  /\ mine' = [mine EXCEPT ![p] = p]
  /\ goto(p, "segment")
  /\ UNCHANGED <<outputVars, sessionVars, askedVars, seg, fd, metaVars, dictVars,
                 proofVars, rows>>

\* local_reader: entry().or_insert_with() under the lock of the map.
LocalReader(p) ==
  /\ pc[p] = "reader"
  /\ shared' = IF shared = None THEN p ELSE shared
  /\ mine' = [mine EXCEPT ![p] = shared']
  /\ goto(p, "segment")
  /\ UNCHANGED <<outputVars, sessionVars, askedVars, seg, fd, metaVars, dictVars,
                 proofVars, rows>>

\* get_segment_metadata: what another partition read will do.
GetSegment(p) ==
  /\ pc[p] = "segment"
  /\ IF segCache[seg[p]] # None
       THEN /\ segMeta' = [segMeta EXCEPT ![p] = segCache[seg[p]]]
            /\ goto(p, "page")
       ELSE goto(p, "header") /\ UNCHANGED segMeta
  /\ UNCHANGED <<outputVars, sessionVars, askedVars, seg, readerVars, segCache,
                 dictVars, proofVars, rows>>

\* The version a reader reads: the one it holds, or else the one at the path.
Opened(r) == IF fd[r] = None THEN visible["cove"] ELSE fd[r]

\* read_segment_metadata: the first read opens the file.  The header must
\* agree with the segment reference in the state; the metadata is then taken
\* from the file as it is.
ReadHeader(p) ==
  /\ pc[p] = "header"
  /\ fd' = [fd EXCEPT ![mine[p]] = Opened(mine[p])]
  /\ IF Shape[Opened(mine[p])] = Shape[state]
       THEN /\ segMeta' = [segMeta EXCEPT ![p] = Opened(mine[p])]
            /\ goto(p, "insert")
       ELSE goto(p, "err") /\ UNCHANGED segMeta
  /\ UNCHANGED <<outputVars, sessionVars, askedVars, seg, shared, mine, segCache,
                 dictVars, proofVars, rows>>

\* insert_segment_metadata: the first one stays, and everybody goes by it.
InsertSegment(p) ==
  /\ pc[p] = "insert"
  /\ segCache' = [segCache EXCEPT ![seg[p]] = IF @ = None THEN segMeta[p] ELSE @]
  /\ segMeta' = [segMeta EXCEPT ![p] = segCache'[seg[p]]]
  /\ goto(p, "page")
  /\ UNCHANGED <<outputVars, sessionVars, askedVars, seg, readerVars, dictVars,
                 proofVars, rows>>

\* Under PagePayloadValidationPolicy::Strict the page's bytes must have the
\* checksum its segment metadata declares; under Trusted they are taken.
ReadPage(p) ==
  /\ pc[p] = "page"
  /\ fd' = [fd EXCEPT ![mine[p]] = Opened(mine[p])]
  /\ goto(p, IF VerifyPages /\ fd'[mine[p]] # segMeta[p] THEN "err" ELSE "text")
  /\ UNCHANGED <<outputVars, sessionVars, askedVars, seg, shared, mine, metaVars,
                 dictVars, proofVars, rows>>

------------------------------------------------------------------------------
(* The text column.  Utf8ProofKey names a page by the identity of the       *)
(* state's file and by what the segment's metadata says of the page: column,*)
(* counts, length, and offset within the segment.  Nothing in it names the  *)
(* segment, so pages of two segments may have one key.  Entries are kept in *)
(* the order of their epochs.                                               *)

Key(p) == ProofKey[<<segMeta[p], p, seg[p]>>]
\* The rows the scan wants of the page a partition is at are text.
SelectedAreText(p) ==
  \A r \in query[<<p, seg[p]>>] : <<fd[mine[p]], p, seg[p], r>> \notin BadRows

Proven(k) == \E i \in DOMAIN proofs : proofs[i] = k
\* A key has one entry at most.
Without(k) ==
  LET i == CHOOSE i \in DOMAIN proofs : proofs[i] = k
  IN IF Proven(k) THEN SubSeq(proofs, 1, i - 1) \o SubSeq(proofs, i + 1, Len(proofs))
     ELSE proofs

\* Utf8ProofCache::contains renews the epoch of what it finds.
LookupProof(p) ==
  /\ pc[p] = "text"
  /\ IF Proven(Key(p))
       THEN /\ trusts' = trusts \cup {p}
            /\ proofs' = Append(Without(Key(p)), Key(p))
            /\ goto(p, "cell")
       ELSE goto(p, "validate") /\ UNCHANGED <<trusts, proofs>>
  /\ UNCHANGED <<outputVars, sessionVars, askedVars, seg, readerVars, metaVars,
                 dictVars, validated, rows>>

\* Mutation: nothing is evicted.
InsertedUnbounded(k) == Append(Without(k), k)

\* Utf8ProofCache::insert evicts the oldest of one entry too many.
Inserted(k) == LET kept == Append(Without(k), k)
               IN IF Len(kept) > Capacity THEN Tail(kept) ELSE kept

\* Mutation: the proof is recorded before the page is validated.
ProveFirst(p) ==
  /\ pc[p] = "validate"
  /\ proofs' = Inserted(Key(p))
  /\ IF SelectedAreText(p)
       THEN /\ validated' = validated \cup {<<fd[mine[p]], p, seg[p]>>}
            /\ goto(p, "cell")
       ELSE goto(p, "err") /\ UNCHANGED validated
  /\ UNCHANGED <<outputVars, sessionVars, askedVars, seg, readerVars, metaVars,
                 dictVars, trusts, rows>>

\* Of a page with no proof the rows that are exported are validated; a proof
\* is recorded, of the whole page, only if they pass.
ValidateText(p) ==
  /\ pc[p] = "validate"
  /\ IF SelectedAreText(p)
       THEN /\ proofs' = Inserted(Key(p))
            /\ validated' = validated \cup {<<fd[mine[p]], p, seg[p]>>}
            /\ goto(p, "cell")
       ELSE goto(p, "err") /\ UNCHANGED <<proofs, validated>>
  /\ UNCHANGED <<outputVars, sessionVars, askedVars, seg, readerVars, metaVars,
                 dictVars, trusts, rows>>

------------------------------------------------------------------------------
(* The dictionary column: get_or_build_arrow_dictionary_values.             *)

\* Mutation: the cell is looked at without being held through the build.
PeekCell(p) ==
  /\ pc[p] = "cell"
  /\ IF cell # None
       THEN /\ values' = [values EXCEPT ![p] = cell]
            /\ goto(p, "emit")
       ELSE goto(p, "build") /\ UNCHANGED values
  /\ UNCHANGED <<outputVars, sessionVars, askedVars, seg, readerVars, metaVars,
                 holder, cell, builds, proofVars, rows>>

\* One partition at a time has the cell; one that finds values lets it go.
LockCell(p) ==
  /\ pc[p] = "cell"
  /\ holder = None
  /\ IF cell # None
       THEN /\ values' = [values EXCEPT ![p] = cell]
            /\ goto(p, "emit")
            /\ UNCHANGED holder
       ELSE holder' = p /\ goto(p, "build") /\ UNCHANGED values
  /\ UNCHANGED <<outputVars, sessionVars, askedVars, seg, readerVars, metaVars,
                 cell, builds, proofVars, rows>>

BuildValues(p) ==
  /\ pc[p] = "build"
  /\ cell' = p
  /\ values' = [values EXCEPT ![p] = p]
  /\ builds' = builds + 1
  /\ holder' = None
  /\ goto(p, "emit")
  /\ UNCHANGED <<outputVars, sessionVars, askedVars, seg, readerVars, metaVars,
                 proofVars, rows>>

\* Mutation: the guard is not released on the error path.
BuildFailsHolding(p) ==
  /\ pc[p] = "build"
  /\ goto(p, "err")
  /\ UNCHANGED <<outputVars, sessionVars, askedVars, seg, readerVars, metaVars,
                 dictVars, proofVars, rows>>

\* The build's error is the partition's; the cell stays empty for the next.
BuildFails(p) ==
  /\ pc[p] = "build"
  /\ holder' = None
  /\ goto(p, "err")
  /\ UNCHANGED <<outputVars, sessionVars, askedVars, seg, readerVars, metaVars,
                 cell, values, builds, proofVars, rows>>

------------------------------------------------------------------------------
\* What a row was made from.
Made(p) == [part |-> p, seg |-> seg[p], state |-> state, covi |-> covi,
            meta |-> segMeta[p], page |-> fd[mine[p]], values |-> values[p],
            trusted |-> p \in trusts]

\* A batch of the morsel is handed over; the partition goes on.
EmitBatch(p) ==
  /\ pc[p] = "emit"
  /\ rows' = rows \cup {Made(p)}
  /\ trusts' = trusts \ {p}
  /\ IF seg[p] = NSegs
       THEN goto(p, "done") /\ UNCHANGED seg
       ELSE /\ seg' = [seg EXCEPT ![p] = @ + 1]
            /\ goto(p, "segment")
  /\ UNCHANGED <<outputVars, sessionVars, askedVars, readerVars, metaVars,
                 dictVars, proofs, validated>>

Bootstrap == StatFile \/ ReadMetadata \/ ReadIndex \/ ValidateIndex

Decode(p) == \/ LocalReader(p) \/ GetSegment(p) \/ ReadHeader(p)
             \/ InsertSegment(p) \/ ReadPage(p) \/ LookupProof(p)
             \/ ValidateText(p) \/ LockCell(p) \/ BuildValues(p)
             \/ BuildFails(p) \/ EmitBatch(p)

\* A machine crash takes the process and all it holds in memory; what is
\* bootstrapped after it starts from nothing.
Crash ==
  /\ MachineCrash
  /\ session' = "new" /\ len' = 0 /\ state' = None /\ covi' = None
  /\ scans' = 0 /\ query' = None
  /\ proofs' = <<>> /\ validated' = {}
  /\ pc' = [p \in Parts |-> "idle"]
  /\ NewScanCache

Publish == Publishing /\ UNCHANGED <<sessionVars, scanVars>>

Next == \/ Publish \/ Crash
        \/ Bootstrap \/ StartScan \/ \E p \in Parts : Decode(p)

Spec == Init /\ [][Next]_vars
\* A decode task, once spawned, is kept running by its blocking thread.
FairSpec == Spec /\ \A p \in Parts : WF_vars(Decode(p))

------------------------------------------------------------------------------
Keys == {ProofKey[g] : g \in Versions \X Parts \X Segs}

TypeOK ==
  /\ OutputTypeOK
  /\ session \in {"new", "metadata", "index", "digest", "ready", "failed"}
  /\ len \in Nat
  /\ state \in Versions \cup {None} /\ covi \in Versions \cup {None}
  /\ scans \in 0..MaxScans /\ query \in Queries \cup {None}
  /\ pc \in [Parts -> {"idle", "reader", "segment", "header", "insert", "page",
                       "text", "validate", "cell", "build", "emit", "done",
                       "err"}]
  /\ seg \in [Parts -> Segs]
  /\ shared \in Parts \cup {None}
  /\ mine \in [Parts -> Parts \cup {None}]
  /\ fd \in [Parts -> Versions \cup {None}]
  /\ segCache \in [Segs -> Versions \cup {None}]
  /\ segMeta \in [Parts -> Versions \cup {None}]
  /\ holder \in Parts \cup {None} /\ cell \in Parts \cup {None}
  /\ values \in [Parts -> Parts \cup {None}]
  /\ builds \in Nat
  /\ trusts \subseteq Parts
  /\ proofs \in Seq(Keys) /\ Len(proofs) <= Capacity
  /\ validated \subseteq Versions \X Parts \X Segs
  /\ rows \subseteq [part : Parts, seg : Segs, state : Versions,
                     covi : Versions \cup {None}, meta : Versions,
                     page : Versions, values : Parts, trusted : BOOLEAN]

(* A scan that finds the bootstrapped version at the path reads pages,      *)
(* segment metadata and index of that version only, however often the data  *)
(* file and the index were replaced while bootstrap looked at them one by   *)
(* one, and whichever partition filled a cache.                             *)
UnreplacedScanIsConsistent ==
  \A r \in rows : r.page = r.state =>
     r.meta = r.state /\ r.covi \in {None, r.state}

(* Text of the bootstrapped file that is handed over was validated, or is   *)
(* trusted for a proof that a page of that file with the same key earned by *)
(* passing, in this scan or an earlier one, by this partition or another:   *)
(* never for one recorded although validation failed, nor for one earned by *)
(* the page of a file that had taken its place.                             *)
TextCheckedOrProven ==
  \A r \in rows : r.page = r.state =>
     IF r.trusted
       THEN \E g \in Pages :
              /\ <<r.state, g[1], g[2]>> \in validated
              /\ ProofKey[<<r.state, g[1], g[2]>>]
                   = ProofKey[<<r.state, r.part, r.seg>>]
       ELSE \A i \in query[<<r.part, r.seg>>] :
              <<r.state, r.part, r.seg, i>> \notin BadRows

(* No row of the bootstrapped file that is handed over is other than UTF-8  *)
(* (ArrowStringValidationPolicy: a page is trusted for an exact page-level  *)
(* proof that every non-null row slice is valid UTF-8).                     *)
BadTextNeverDelivered ==
  \A r \in rows : r.page = r.state =>
     \A i \in query[<<r.part, r.seg>>] :
        <<r.state, r.part, r.seg, i>> \notin BadRows

(* The partitions of a scan share one array of dictionary values, built     *)
(* once, even when the first build fails and when several arrive together.  *)
OneDictionary ==
  /\ builds <= 1
  /\ \A r, t \in rows : r.values = t.values

(* A scan reads one version, the one it found when it first looked, in all  *)
(* its partitions and segments (the INVARIANT of LocalFileRangeReader).     *)
Snapshot == INSTANCE SnapshotRead
              WITH NoFile <- None, Places <- Parts \X Segs,
                   path <- visible["cove"],
                   snapshot <- IF shared = None THEN None ELSE fd[shared],
                   rows <- {<<<<r.part, r.seg>>, r.page>> : r \in rows}
ReadsOneSnapshot == Snapshot!Spec

(* Every partition that began ends, with its rows or with an error: nobody  *)
(* keeps a lock that another waits for.                                     *)
ScanEnds ==
  \A p \in Parts : pc[p] = "reader" ~> pc[p] \in {"idle", "done", "err"}
==============================================================================
