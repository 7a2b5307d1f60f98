--------------------------- MODULE SharedFileProofs ---------------------------
(***************************************************************************)
(* ConversionOutput and SharedFile for any conversions, partitions,        *)
(* segments, lengths and shapes: sidecars are never ahead of their file,   *)
(* the partitions of a scan share one array of dictionary values, rows of  *)
(* the bootstrapped version come with its metadata, text is checked or     *)
(* found in the proof cache before it is delivered, and a scan implements  *)
(* SnapshotRead.                                                           *)
(*                                                                         *)
(* The inductive invariant has three parts that hardly touch: what the     *)
(* conversions left (OutputsInOrder), which reader and which metadata the  *)
(* partitions go by (ReadersAgree), and who has the dictionary cell        *)
(* (CellKept).                                                             *)
(***************************************************************************)
EXTENDS SharedFile, TLAPS

(***************************************************************************)
(* The conversions. One that is past its data file has that file, or a     *)
(* later one, on the disk; one that is not has no sidecar anywhere.        *)
(***************************************************************************)
OutputsInOrder ==
  /\ OutputTypeOK
  /\ \A v \in Versions : stamp[v] <= installs
  /\ stamp[durable["cove"]] <= stamp[visible["cove"]]
  /\ \A v \in Conversions :
       /\ turn[v] = 1 /\ conv[v] = "sync" => stamp[v] <= stamp[visible["cove"]]
       /\ turn[v] > 1 => stamp[v] <= stamp[durable["cove"]]
       /\ turn[v] = 1 => \A s \in Sidecars : visible[s] # v /\ durable[s] # v

(***************************************************************************)
(* The readers. All partitions read through one, the only one that opens a *)
(* file, and the metadata they cache and go by is of the file it opened,   *)
(* whether or not page checksums are compared.                             *)
(***************************************************************************)
Places == {"idle", "reader", "segment", "header", "insert", "page", "text",
           "validate", "cell", "build", "emit", "done", "err"}
HasReader == {"segment", "header", "insert", "page", "text", "validate",
              "cell", "build", "emit"}
HasPage == {"insert", "page", "text", "validate", "cell", "build", "emit"}

ReaderTypes ==
  /\ session \in {"new", "metadata", "index", "digest", "ready", "failed"}
  /\ pc \in [Parts -> Places]
  /\ seg \in [Parts -> Segs]
  /\ shared \in Parts \cup {None}
  /\ mine \in [Parts -> Parts \cup {None}]
  /\ fd \in [Parts -> Versions \cup {None}]
  /\ segCache \in [Segs -> Versions \cup {None}]
  /\ segMeta \in [Parts -> Versions \cup {None}]

ReadersAgree ==
  /\ ReaderTypes
  /\ (\E p \in Parts : pc[p] # "idle") => session = "ready"
  /\ session = "ready" => covi \in {None, state}
  /\ \A p \in Parts : pc[p] \in HasReader => shared # None /\ mine[p] = shared
  /\ \A q \in Parts : fd[q] # None => q = shared
  /\ \A p \in Parts : pc[p] \in HasPage => fd[shared] # None /\ fd[shared] = segMeta[p]
  /\ \A s \in Segs : segCache[s] # None => shared # None /\ segCache[s] = fd[shared]
  /\ \A r \in rows : /\ r.part \in Parts /\ r.seg \in Segs
                     /\ r.covi \in {None, r.state}
                     /\ r.meta = r.page
                     /\ shared # None /\ fd[shared] # None /\ r.page = fd[shared]

(***************************************************************************)
(* The dictionary cell. Whoever builds holds it, and finds it empty.       *)
(***************************************************************************)
CellKept ==
  /\ pc \in [Parts -> Places]
  /\ values \in [Parts -> Parts \cup {None}]
  /\ holder \in Parts \cup {None} /\ cell \in Parts \cup {None}
  /\ builds = IF cell = None THEN 0 ELSE 1
  /\ \A p \in Parts : pc[p] = "build" <=> holder = p
  /\ holder # None => cell = None
  /\ \A p \in Parts : pc[p] = "emit" => cell # None /\ values[p] = cell
  /\ \A r \in rows : cell # None /\ r.values = cell

IInv == OutputsInOrder /\ SidecarsNeverAhead /\ ReadersAgree /\ CellKept

-----------------------------------------------------------------------------
LEMMA OutputNames ==
  /\ DOMAIN Outputs = 1..3 /\ Len(Outputs) = 3
  /\ Outputs[1] = "cove" /\ Outputs[2] = "covx" /\ Outputs[3] = "covm"
  /\ "cove" \in Names /\ "cove" \notin Sidecars
  /\ "covi" \in Names /\ "covi" \notin Sidecars /\ "covi" # "cove"
  /\ Sidecars \subseteq Names
  /\ \A i \in 2..3 : Outputs[i] \in Sidecars
BY DEF Outputs, Sidecars, Names

LEMMA OutputsStart ==
  ASSUME OutputInit
  PROVE  OutputsInOrder /\ SidecarsNeverAhead
BY OutputNames, OldIsNoConversion, CrashesNat
   DEF OutputInit, OutputsInOrder, OutputTypeOK, SidecarsNeverAhead, Versions

\* A conversion, an index builder, the kernel or a crash keeps the order.
LEMMA OutputsStep ==
  ASSUME OutputsInOrder, SidecarsNeverAhead,
         Publishing \/ MachineCrash \/ UNCHANGED outputVars
  PROVE  OutputsInOrder' /\ SidecarsNeverAhead'
<1> USE OutputNames, OldIsNoConversion, CrashesNat
    DEF OutputsInOrder, OutputTypeOK, SidecarsNeverAhead, Versions
<1>1. CASE UNCHANGED outputVars
  BY <1>1 DEF outputVars
<1>2. CASE MachineCrash
  BY <1>2 DEF MachineCrash, Running
<1>3. ASSUME NEW v \in Conversions, Begin(v) PROVE OutputsInOrder' /\ SidecarsNeverAhead'
  BY <1>3 DEF Begin, Running
<1>4. ASSUME NEW v \in Conversions, ConversionFails(v)
      PROVE  OutputsInOrder' /\ SidecarsNeverAhead'
  BY <1>4 DEF ConversionFails, Running
<1>5. ASSUME NEW v \in Conversions, RenameOutput(v)
      PROVE  OutputsInOrder' /\ SidecarsNeverAhead'
  <2>1. CASE turn[v] = 1
    BY <1>5, <2>1 DEF RenameOutput, Running, Name
  <2>2. CASE turn[v] # 1
    <3>1. Name(v) \in Sidecars /\ Name(v) # "cove" /\ turn[v] > 1
      BY <2>2 DEF Name
    <3>2. stamp' = stamp /\ installs' = installs /\ visible'["cove"] = visible["cove"]
      BY <1>5, <3>1 DEF RenameOutput
    <3> QED BY <1>5, <3>1, <3>2 DEF RenameOutput, Running
  <2> QED BY <2>1, <2>2
<1>6. ASSUME NEW v \in Conversions, SyncOutput(v)
      PROVE  OutputsInOrder' /\ SidecarsNeverAhead'
  BY <1>6 DEF SyncOutput, Advance, Running
<1>7. ASSUME NEW v \in Versions, BuildIndex(v)
      PROVE  OutputsInOrder' /\ SidecarsNeverAhead'
  BY <1>7 DEF BuildIndex
<1>8. ASSUME NEW n \in Names, WriteBackName(n)
      PROVE  OutputsInOrder' /\ SidecarsNeverAhead'
  <2>1. CASE n = "cove" BY <1>8, <2>1 DEF WriteBackName
  <2>2. CASE n # "cove" BY <1>8, <2>2 DEF WriteBackName
  <2> QED BY <2>1, <2>2
<1> QED BY <1>1, <1>2, <1>3, <1>4, <1>5, <1>6, <1>7, <1>8 DEF Publishing

-----------------------------------------------------------------------------
\* Readers and dictionary before anything happened, and at the start of a scan.
LEMMA ReadersStart == ASSUME Init PROVE ReadersAgree /\ CellKept
BY SegsNat, NoneIsNothing
   DEF Init, ReadersAgree, ReaderTypes, CellKept, Places, HasReader, HasPage, Segs

LEMMA FreshScan ==
  ASSUME NewScanCache, NEW l \in {"idle", "reader"}, pc' = [p \in Parts |-> l],
         session' \in {"new", "ready"}, l = "reader" => session' = "ready",
         session' = "ready" => covi' \in {None, state'}
  PROVE  ReadersAgree' /\ CellKept'
BY SegsNat, NoneIsNothing
   DEF NewScanCache, ReadersAgree, ReaderTypes, CellKept, Places, HasReader, HasPage, Segs

\* A step of one partition keeps the readers together.
LEMMA ReadersDecode ==
  ASSUME ReadersAgree, OutputsInOrder, NEW p \in Parts, Decode(p)
  PROVE  ReadersAgree'
<1> USE SegsNat, NoneIsNothing
    DEF ReadersAgree, ReaderTypes, Places, HasReader, HasPage, goto, sessionVars
<1>1. CASE LocalReader(p)
  BY <1>1 DEF LocalReader, metaVars
<1>2. CASE GetSegment(p)
  BY <1>2 DEF GetSegment, readerVars
<1>3. CASE ReadHeader(p)
  <2>1. shared \in Parts /\ mine[p] = shared /\ Opened(shared) \in Versions
    BY <1>3, OutputNames DEF ReadHeader, Opened, OutputsInOrder, OutputTypeOK
  <2>2. /\ fd' = [fd EXCEPT ![shared] = Opened(shared)]
        /\ fd[shared] # None => fd' = fd
    BY <1>3, <2>1 DEF ReadHeader, Opened
  <2> QED BY <1>3, <2>1, <2>2 DEF ReadHeader
<1>4. CASE InsertSegment(p)
  BY <1>4 DEF InsertSegment, readerVars
<1>5. CASE ReadPage(p)
  <2>1. shared \in Parts /\ mine[p] = shared /\ Opened(shared) \in Versions
    BY <1>5, OutputNames DEF ReadPage, Opened, OutputsInOrder, OutputTypeOK
  <2>2. /\ fd' = [fd EXCEPT ![shared] = Opened(shared)]
        /\ fd[shared] # None => fd' = fd
    BY <1>5, <2>1 DEF ReadPage, Opened
  <2> QED BY <1>5, <2>1, <2>2 DEF ReadPage, metaVars
<1>6. CASE LookupProof(p)
  BY <1>6 DEF LookupProof, readerVars, metaVars
<1>7. CASE ValidateText(p)
  BY <1>7 DEF ValidateText, readerVars, metaVars
<1>8. CASE LockCell(p) \/ BuildValues(p) \/ BuildFails(p)
  BY <1>8 DEF LockCell, BuildValues, BuildFails, readerVars, metaVars
<1>9. CASE EmitBatch(p)
  <2>1. \A r \in rows' : r \in rows \/ r = Made(p)
    BY <1>9 DEF EmitBatch
  <2>2. /\ Made(p).part = p /\ Made(p).seg = seg[p] /\ Made(p).state = state
        /\ Made(p).covi = covi /\ Made(p).meta = segMeta[p] /\ Made(p).page = fd[mine[p]]
    BY DEF Made
  <2>3. pc[p] = "emit" /\ fd' = fd /\ shared' = shared /\ mine' = mine
    BY <1>9 DEF EmitBatch, readerVars
  <2>4. \A r \in rows' : /\ r.part \in Parts /\ r.seg \in Segs
                         /\ r.covi \in {None, r.state}
                         /\ r.meta = r.page
                         /\ shared # None /\ fd[shared] # None /\ r.page = fd[shared]
    BY <2>1, <2>2, <2>3
  <2>5. seg' \in [Parts -> Segs] /\ pc' \in [Parts -> Places]
    <3>1. CASE seg[p] = NSegs
      BY <1>9, <3>1 DEF EmitBatch
    <3>2. CASE seg[p] # NSegs
      <4>1. seg[p] \in Segs /\ seg[p] + 1 \in Segs
        BY <3>2 DEF Segs
      <4> QED BY <1>9, <3>2, <4>1 DEF EmitBatch
    <3> QED BY <3>1, <3>2
  <2>6. \A q \in Parts : /\ pc'[q] \in HasReader => pc[q] \in HasReader
                         /\ pc'[q] \in HasPage => pc[q] \in HasPage
                         /\ pc'[q] # "idle" => pc[q] # "idle"
    BY <1>9 DEF EmitBatch
  <2> QED BY <1>9, <2>3, <2>4, <2>5, <2>6 DEF EmitBatch, readerVars, metaVars
<1> QED BY <1>1, <1>2, <1>3, <1>4, <1>5, <1>6, <1>7, <1>8, <1>9 DEF Decode

\* A step of one partition keeps the dictionary cell.
LEMMA CellDecode ==
  ASSUME CellKept, NEW p \in Parts, Decode(p)
  PROVE  CellKept'
<1> USE NoneIsNothing DEF CellKept, Places, goto
<1>1. CASE \/ LocalReader(p) \/ GetSegment(p) \/ ReadHeader(p) \/ InsertSegment(p)
           \/ ReadPage(p) \/ LookupProof(p) \/ ValidateText(p)
  <2>1. UNCHANGED <<dictVars, rows>>
    BY <1>1 DEF LocalReader, GetSegment, ReadHeader, InsertSegment, ReadPage,
                LookupProof, ValidateText
  <2>2. \E l \in Places \ {"build", "emit"} :
          pc[p] # "build" /\ pc' = [pc EXCEPT ![p] = l]
    BY <1>1 DEF LocalReader, GetSegment, ReadHeader, InsertSegment, ReadPage,
                LookupProof, ValidateText
  <2> QED BY <2>1, <2>2 DEF dictVars
<1>2. CASE LockCell(p)
  BY <1>2 DEF LockCell
<1>3. CASE BuildValues(p)
  BY <1>3 DEF BuildValues
<1>4. CASE BuildFails(p)
  BY <1>4 DEF BuildFails
<1>5. CASE EmitBatch(p)
  <2>1. UNCHANGED dictVars /\ pc[p] = "emit"
    BY <1>5 DEF EmitBatch
  <2>2. \A r \in rows' : cell # None /\ r.values = cell
    BY <1>5, <2>1 DEF EmitBatch, Made
  <2>3. \E l \in {"done", "segment"} : pc' = [pc EXCEPT ![p] = l]
    BY <1>5 DEF EmitBatch
  <2> QED BY <2>1, <2>2, <2>3 DEF dictVars
<1> QED BY <1>1, <1>2, <1>3, <1>4, <1>5 DEF Decode

\* So does whatever is not a step of a partition.
LEMMA ReadersStep ==
  ASSUME IInv, [Next]_vars
  PROVE  ReadersAgree' /\ CellKept'
<1>1. CASE UNCHANGED scanVars /\ UNCHANGED sessionVars
  BY <1>1 DEF IInv, scanVars, sessionVars, readerVars, metaVars, dictVars,
              ReadersAgree, ReaderTypes, CellKept
<1>2. CASE Bootstrap
  BY <1>2 DEF Bootstrap, StatFile, ReadMetadata, ReadIndex, ValidateIndex, IInv, scanVars,
              readerVars, metaVars, dictVars, ReadersAgree, ReaderTypes, CellKept, HasReader,
              HasPage
<1>3. CASE StartScan
  BY <1>3, FreshScan DEF StartScan, sessionVars, IInv, ReadersAgree
<1>4. CASE Crash
  BY <1>4, FreshScan DEF Crash
<1>5. ASSUME NEW p \in Parts, Decode(p) PROVE ReadersAgree' /\ CellKept'
  BY <1>5, ReadersDecode, CellDecode DEF IInv
<1> QED BY <1>1, <1>2, <1>3, <1>4, <1>5 DEF Next, Publish, vars

\* What a session or a scan does, it does to files nobody publishes to.
LEMMA Environment ==
  ASSUME [Next]_vars
  PROVE  Publishing \/ MachineCrash \/ UNCHANGED outputVars
BY DEF Next, vars, Publish, Crash, Bootstrap, StatFile, ReadMetadata, ReadIndex, ValidateIndex,
       StartScan, Decode, LocalReader, GetSegment, ReadHeader, InsertSegment, ReadPage,
       LookupProof, ValidateText, LockCell, BuildValues, BuildFails, EmitBatch

\* IInv is an invariant.
THEOREM Inductive == Spec => []IInv
<1>1. Init => IInv
  BY OutputsStart, ReadersStart DEF Init, IInv
<1>2. IInv /\ [Next]_vars => IInv'
  BY OutputsStep, ReadersStep, Environment DEF IInv
<1> QED BY <1>1, <1>2, PTL DEF Spec

-----------------------------------------------------------------------------
\* A sidecar or a manifest never describes a data file newer than the one on
\* the disk, whatever conversions interleave and wherever they stop
\* (publish_conversion_result publishes the data file first and waits for it).
THEOREM SidecarsBehind == Spec => []SidecarsNeverAhead
<1>1. IInv => SidecarsNeverAhead
  BY DEF IInv
<1> QED BY <1>1, Inductive, PTL

\* The rows of a scan that finds the bootstrapped version are decoded with that
\* version's metadata and pruned with its index, whatever was replaced between the
\* looks of bootstrap and whichever partition filled a cache.
THEOREM ConsistentScan == Spec => []UnreplacedScanIsConsistent
<1>1. IInv => UnreplacedScanIsConsistent
  BY DEF IInv, ReadersAgree, UnreplacedScanIsConsistent
<1> QED BY <1>1, Inductive, PTL

\* The partitions of a scan share one array of dictionary values, built once, even
\* when builds fail (get_or_build_arrow_dictionary_values).
THEOREM DictionaryShared == Spec => []OneDictionary
<1>1. IInv => OneDictionary
  BY DEF IInv, CellKept, OneDictionary
<1> QED BY <1>1, Inductive, PTL

-----------------------------------------------------------------------------
(***************************************************************************)
(* The refinement. Opening the file is the look at the path, a batch is    *)
(* the delivery of a row; a new scan or a crash is the next scan.          *)
(***************************************************************************)
SnapshotOf == IF shared = None THEN None ELSE fd[shared]
Delivered == {<<<<r.part, r.seg>>, r.page>> : r \in rows}

LEMMA SnapshotStart == ASSUME Init PROVE Snapshot!Init
BY OutputNames DEF Init, OutputInit, Snapshot!Init, Versions

\* Steps that neither open the file nor deliver.
LEMMA SnapshotStutter ==
  ASSUME UNCHANGED rows, SnapshotOf' = SnapshotOf, visible'["cove"] \in Versions
  PROVE  [Snapshot!Next]_(Snapshot!vars)
BY DEF SnapshotOf, Snapshot!Next, Snapshot!Replace, Snapshot!vars

LEMMA SnapshotDecode ==
  ASSUME IInv, NEW p \in Parts, Decode(p)
  PROVE  [Snapshot!Next]_(Snapshot!vars)
<1>0. UNCHANGED visible /\ visible["cove"] \in Versions
  BY OutputNames DEF IInv, OutputsInOrder, OutputTypeOK, Decode, LocalReader, GetSegment,
     ReadHeader, InsertSegment, ReadPage, LookupProof, ValidateText, LockCell, BuildValues,
     BuildFails, EmitBatch, outputVars
<1>1. CASE LocalReader(p)
  <2>1. UNCHANGED rows /\ UNCHANGED fd /\ (shared # None => shared' = shared)
    BY <1>1 DEF LocalReader
  <2>2. shared = None => SnapshotOf = None /\ SnapshotOf' = None
    BY <1>1, <2>1, NoneIsNothing DEF LocalReader, SnapshotOf, IInv, ReadersAgree, ReaderTypes
  <2> QED BY <1>0, <2>1, <2>2, SnapshotStutter DEF SnapshotOf
<1>2. CASE ReadHeader(p) \/ ReadPage(p)
  <2>1. /\ shared \in Parts /\ mine[p] = shared /\ UNCHANGED <<rows, shared>>
        /\ fd \in [Parts -> Versions \cup {None}]
    BY <1>2 DEF ReadHeader, ReadPage, IInv, ReadersAgree, ReaderTypes, HasReader
  <2>2. fd' = [fd EXCEPT ![shared] = Opened(shared)]
    BY <1>2, <2>1 DEF ReadHeader, ReadPage
  <2>3. CASE fd[shared] = None
    <3>1. SnapshotOf = None /\ SnapshotOf' = visible["cove"]
      BY <2>1, <2>2, <2>3, NoneIsNothing DEF SnapshotOf, Opened
    <3> QED BY <1>0, <2>1, <3>1 DEF SnapshotOf, Snapshot!Next, Snapshot!Look
  <2>4. CASE fd[shared] # None
    <3>1. SnapshotOf' = SnapshotOf
      BY <2>1, <2>2, <2>4 DEF SnapshotOf, Opened
    <3> QED BY <1>0, <2>1, <3>1, SnapshotStutter
  <2> QED BY <2>3, <2>4
<1>3. CASE \/ GetSegment(p) \/ InsertSegment(p) \/ LookupProof(p) \/ ValidateText(p)
           \/ LockCell(p) \/ BuildValues(p) \/ BuildFails(p)
  BY <1>0, <1>3, SnapshotStutter DEF GetSegment, InsertSegment, LookupProof, ValidateText,
     LockCell, BuildValues, BuildFails, readerVars, SnapshotOf
<1>4. CASE EmitBatch(p)
  <2>1. UNCHANGED <<shared, fd>> /\ rows' = rows \cup {Made(p)} /\ pc[p] = "emit"
    BY <1>4 DEF EmitBatch, readerVars
  <2>2. shared # None /\ fd[shared] # None /\ mine[p] = shared /\ seg[p] \in Segs
    BY <2>1 DEF IInv, ReadersAgree, ReaderTypes, HasReader, HasPage
  <2>3. Made(p).part = p /\ Made(p).seg = seg[p] /\ Made(p).page = fd[shared]
    BY <2>2 DEF Made
  <2>4. Delivered' = Delivered \cup {<<<<p, seg[p]>>, fd[shared]>>}
    BY <2>1, <2>3 DEF Delivered
  <2>5. <<p, seg[p]>> \in Parts \X Segs
    BY <2>2
  <2> QED BY <1>0, <2>1, <2>2, <2>4, <2>5
         DEF Delivered, Snapshot!Next, Snapshot!Deliver
<1> QED BY <1>1, <1>2, <1>3, <1>4 DEF Decode

LEMMA SnapshotStep ==
  ASSUME IInv, IInv', [Next]_vars
  PROVE  [Snapshot!Next]_(Snapshot!vars)
<1>0. visible'["cove"] \in Versions
  BY OutputNames DEF IInv, OutputsInOrder, OutputTypeOK, Versions
<1>1. CASE UNCHANGED scanVars
  BY <1>0, <1>1, SnapshotStutter DEF scanVars, readerVars, SnapshotOf
<1>2. CASE StartScan \/ Crash
  <2>1. shared' = None /\ rows' = {}
    BY <1>2 DEF StartScan, Crash, NewScanCache
  <2> QED BY <1>0, <2>1 DEF Snapshot!Next, Snapshot!NextScan
<1>3. ASSUME NEW p \in Parts, Decode(p) PROVE [Snapshot!Next]_(Snapshot!vars)
  BY <1>3, SnapshotDecode
<1> QED BY <1>1, <1>2, <1>3 DEF Next, vars, Publish, Bootstrap, StatFile, ReadMetadata,
           ReadIndex, ValidateIndex

\* All partitions and segments of a scan read one version of the file, the one
\* at the path when the scan first looked (LocalFileRangeReader's invariant).
THEOREM Implements == Spec => ReadsOneSnapshot
<1>1. Init => Snapshot!Init
  BY SnapshotStart
<1>2. IInv /\ IInv' /\ [Next]_vars => [Snapshot!Next]_(Snapshot!vars)
  BY SnapshotStep
<1> QED BY <1>1, <1>2, Inductive, PTL DEF Spec, ReadsOneSnapshot, Snapshot!Spec

-----------------------------------------------------------------------------
(***************************************************************************)
(* The proofs that a page is text. They are of the bootstrapped file as    *)
(* long as it is at the path or a scan reads it, because what replaced it  *)
(* is never replaced by it in turn: a conversion publishes once.           *)
(***************************************************************************)
Fresh(v) == turn[v] = 1 /\ conv[v] \in {"idle", "rename"}

PublishedOnce ==
  \A v \in Conversions : Fresh(v) =>
     /\ visible["cove"] # v /\ durable["cove"] # v /\ state # v
     /\ \A q \in Parts : fd[q] # v

\* The bootstrapped file is within reach of the partitions.
InReach == visible["cove"] = state \/ \E q \in Parts : fd[q] = state

SessionTypes ==
  /\ len \in Nat
  /\ state \in Versions \cup {None} /\ covi \in Versions \cup {None}
  /\ session \in {"index", "digest", "ready"} => state # None
  /\ scans \in 0..MaxScans
  /\ trusts \subseteq Parts
  /\ validated \subseteq Versions \X Parts \X Segs
  /\ query \in Queries \cup {None}

ProofTypes == proofs \in Seq(Keys) /\ Len(proofs) <= Capacity

\* A page of the bootstrapped file with that key passed validation.
Earned(k) == \E g \in Pages : /\ <<state, g[1], g[2]>> \in validated
                              /\ ProofKey[<<state, g[1], g[2]>>] = k

\* What is selected of a page of the bootstrapped file is text.
SelectedOf(p, s) == \A i \in query[<<p, s>>] : <<state, p, s, i>> \notin BadRows

TextChecked ==
  /\ session # "ready" => proofs = <<>> /\ rows = {} /\ \A q \in Parts : fd[q] = None
  /\ visible["cove"] = state => \A q \in Parts : fd[q] \in {None, state}
  /\ InReach => \A i \in DOMAIN proofs : Earned(proofs[i])
  /\ \A p \in Parts : p \in trusts => pc[p] \in {"cell", "build", "emit", "err"}
  /\ \A p \in Parts : pc[p] \in {"cell", "build", "emit"} /\ fd[shared] = state =>
        IF p \in trusts THEN Earned(ProofKey[<<state, p, seg[p]>>])
                        ELSE SelectedOf(p, seg[p])
  /\ \A r \in rows : r.state = state
  /\ TextCheckedOrProven

TextInv == PublishedOnce /\ SessionTypes /\ ProofTypes /\ TextChecked

LEMMA WithoutPage ==
  ASSUME ProofTypes, NEW k
  PROVE  /\ Without(k) \in Seq(Keys)
         /\ Len(Without(k)) = IF Proven(k) THEN Len(proofs) - 1 ELSE Len(proofs)
         /\ \A i \in DOMAIN Without(k) : \E j \in DOMAIN proofs : proofs[j] = Without(k)[i]
<1>1. CASE ~ Proven(k)
  BY <1>1 DEF Without, ProofTypes
<1>2. CASE Proven(k)
  <2> DEFINE i == CHOOSE i \in DOMAIN proofs : proofs[i] = k
             a == SubSeq(proofs, 1, i - 1)
             b == SubSeq(proofs, i + 1, Len(proofs))
  <2>1. i \in 1 .. Len(proofs) /\ proofs \in Seq(Keys)
    BY <1>2 DEF Proven, ProofTypes
  <2>2. Without(k) = a \o b
    BY <1>2 DEF Without
  <2> HIDE DEF i
  <2>3. /\ a \in Seq(Keys) /\ Len(a) = i - 1
        /\ \A j \in 1 .. Len(a) : a[j] = proofs[j]
    BY <2>1
  <2>4. /\ b \in Seq(Keys) /\ Len(b) = Len(proofs) - i
        /\ \A j \in 1 .. Len(b) : b[j] = proofs[j + i]
    BY <2>1
  <2> HIDE DEF a, b
  <2>5. /\ a \o b \in Seq(Keys) /\ Len(a \o b) = Len(proofs) - 1
        /\ \A j \in 1 .. Len(a \o b) : (a \o b)[j] = IF j <= Len(a) THEN a[j] ELSE b[j - Len(a)]
    <3>1. /\ a \o b \in Seq(Keys) /\ Len(a \o b) = Len(a) + Len(b)
          /\ \A j \in 1 .. Len(a) + Len(b) :
               (a \o b)[j] = IF j <= Len(a) THEN a[j] ELSE b[j - Len(a)]
      BY <2>3, <2>4
    <3>2. Len(a) + Len(b) = Len(proofs) - 1
      BY <2>1, <2>3, <2>4
    <3> QED BY <3>1, <3>2
  <2>6. ASSUME NEW j \in DOMAIN Without(k) PROVE \E n \in DOMAIN proofs : proofs[n] = Without(k)[j]
    <3>1. CASE j <= Len(a)
      BY <2>1, <2>2, <2>3, <2>5, <3>1
    <3>2. CASE j > Len(a)
      <4>1. j - Len(a) \in 1 .. Len(b) /\ Without(k)[j] = b[j - Len(a)]
        BY <2>1, <2>2, <2>3, <2>4, <2>5, <3>2
      <4>2. Without(k)[j] = proofs[j - Len(a) + i] /\ j - Len(a) + i \in 1 .. Len(proofs)
        BY <2>1, <2>3, <2>4, <4>1
      <4> QED BY <2>1, <4>2
    <3> QED BY <2>1, <2>2, <2>3, <2>5, <3>1, <3>2
  <2> QED BY <1>2, <2>2, <2>5, <2>6
<1> QED BY <1>1, <1>2

\* What is proven after a lookup or an insertion was proven before, or is the key.
LEMMA ProofsRenewed ==
  ASSUME ProofTypes, NEW k \in Keys
  PROVE  /\ Append(Without(k), k) \in Seq(Keys) /\ Inserted(k) \in Seq(Keys)
         /\ Proven(k) => Len(Append(Without(k), k)) <= Capacity
         /\ Len(Inserted(k)) <= Capacity
         /\ \A i \in DOMAIN Append(Without(k), k) :
               \/ Append(Without(k), k)[i] = k
               \/ \E j \in DOMAIN proofs : proofs[j] = Append(Without(k), k)[i]
         /\ \A i \in DOMAIN Inserted(k) :
               Inserted(k)[i] = k \/ \E j \in DOMAIN proofs : proofs[j] = Inserted(k)[i]
<1> DEFINE w == Without(k)
           q == Append(w, k)
<1>1. /\ w \in Seq(Keys) /\ Len(w) <= Len(proofs)
      /\ Proven(k) => Len(w) < Len(proofs)
      /\ \A i \in DOMAIN w : \E j \in DOMAIN proofs : proofs[j] = w[i]
  BY WithoutPage DEF ProofTypes
<1> HIDE DEF w
<1>2. /\ q \in Seq(Keys) /\ Len(q) = Len(w) + 1 /\ Len(q) \in Nat
      /\ \A i \in 1 .. Len(w) : q[i] = w[i]
      /\ q[Len(w) + 1] = k
  BY <1>1
<1>3. \A i \in DOMAIN q : q[i] = k \/ \E j \in DOMAIN proofs : proofs[j] = q[i]
  BY <1>1, <1>2
<1> HIDE DEF q
<1>4. Inserted(k) = IF Len(q) > Capacity THEN Tail(q) ELSE q
  BY DEF Inserted, q, w
<1>5. Len(proofs) \in Nat /\ Len(proofs) <= Capacity /\ Capacity \in Nat \ {0} /\ Len(w) \in Nat
  BY <1>1, CapacityPositive DEF ProofTypes
<1>6. ASSUME Len(q) > Capacity
      PROVE  /\ Inserted(k) \in Seq(Keys) /\ Len(Inserted(k)) <= Capacity
             /\ \A i \in DOMAIN Inserted(k) :
                   Inserted(k)[i] = k \/ \E j \in DOMAIN proofs : proofs[j] = Inserted(k)[i]
  <2>1. /\ Tail(q) \in Seq(Keys) /\ Len(Tail(q)) = Len(q) - 1
        /\ \A i \in DOMAIN Tail(q) : i + 1 \in DOMAIN q /\ Tail(q)[i] = q[i + 1]
    BY <1>2, <1>5, <1>6
  <2>2. Inserted(k) \in Seq(Keys) /\ Len(Inserted(k)) <= Capacity
    BY <1>1, <1>2, <1>4, <1>5, <1>6, <2>1
  <2>3. \A i \in DOMAIN Inserted(k) :
          Inserted(k)[i] = k \/ \E j \in DOMAIN proofs : proofs[j] = Inserted(k)[i]
    BY <1>3, <1>4, <1>6, <2>1
  <2> QED BY <2>2, <2>3
<1>7. ASSUME ~ (Len(q) > Capacity)
      PROVE  /\ Inserted(k) \in Seq(Keys) /\ Len(Inserted(k)) <= Capacity
             /\ \A i \in DOMAIN Inserted(k) :
                   Inserted(k)[i] = k \/ \E j \in DOMAIN proofs : proofs[j] = Inserted(k)[i]
  BY <1>2, <1>3, <1>4, <1>5, <1>7
<1>8. Proven(k) => Len(q) <= Capacity
  BY <1>1, <1>2, <1>5
<1> QED BY <1>2, <1>3, <1>6, <1>7, <1>8 DEF q, w


LEMMA TextStart == ASSUME Init PROVE TextInv
<1> USE OldIsNoConversion, NoneIsNothing, CapacityPositive, SegsNat, CrashesNat
<1>1. PublishedOnce
  BY OutputNames DEF Init, OutputInit, PublishedOnce, Versions
<1>2. SessionTypes /\ ProofTypes
  BY DEF Init, SessionTypes, ProofTypes
<1>3. TextChecked
  BY DEF Init, TextChecked, TextCheckedOrProven
<1> QED BY <1>1, <1>2, <1>3 DEF TextInv

\* What partitions and conversions do to descriptors and names.
LEMMA FilesOpened ==
  ASSUME IInv, NEW p \in Parts, Decode(p)
  PROVE  /\ UNCHANGED <<outputVars, sessionVars>> /\ session = "ready"
         /\ fd' \in [Parts -> Versions \cup {None}]
         /\ \A q \in Parts : fd'[q] = fd[q] \/ (fd[q] = None /\ fd'[q] = visible["cove"])
<1> USE NoneIsNothing DEF IInv
<1>1. pc[p] # "idle" /\ session = "ready"
  BY DEF Decode, LocalReader, GetSegment, ReadHeader, InsertSegment, ReadPage, LookupProof,
         ValidateText, LockCell, BuildValues, BuildFails, EmitBatch, ReadersAgree
<1>2. UNCHANGED <<outputVars, sessionVars>>
  BY DEF Decode, LocalReader, GetSegment, ReadHeader, InsertSegment, ReadPage, LookupProof,
         ValidateText, LockCell, BuildValues, BuildFails, EmitBatch
<1>3. fd \in [Parts -> Versions \cup {None}] /\ visible["cove"] \in Versions
  BY OutputNames DEF ReadersAgree, ReaderTypes, OutputsInOrder, OutputTypeOK
<1>4. CASE ReadHeader(p) \/ ReadPage(p)
  <2>1. mine[p] \in Parts /\ fd' = [fd EXCEPT ![mine[p]] = Opened(mine[p])]
    BY <1>4 DEF ReadHeader, ReadPage, ReadersAgree, ReaderTypes, HasReader
  <2> QED BY <1>1, <1>2, <1>3, <2>1 DEF Opened
<1>5. CASE ~ (ReadHeader(p) \/ ReadPage(p))
  <2>1. fd' = fd
    BY <1>5 DEF Decode, LocalReader, GetSegment, InsertSegment, LookupProof,
         ValidateText, LockCell, BuildValues, BuildFails, EmitBatch, readerVars
  <2> QED BY <1>1, <1>2, <1>3, <2>1
<1> QED BY <1>4, <1>5

\* What a session sees of the files is what conversions published.
LEMMA PublishedStep ==
  ASSUME IInv, TextInv, [Next]_vars
  PROVE  PublishedOnce'
<1> USE OutputNames, OldIsNoConversion, NoneIsNothing DEF PublishedOnce, Fresh, Versions
<1>0. /\ PublishedOnce
      /\ conv \in [Conversions -> Running \cup {"idle", "ok", "err", "dead"}]
      /\ turn \in [Conversions -> 1..3]
      /\ visible \in [Names -> Versions] /\ durable \in [Names -> Versions]
  BY DEF TextInv, IInv, OutputsInOrder, OutputTypeOK
<1>1. CASE Publish
  <2>1. UNCHANGED <<state, fd>>
    BY <1>1 DEF Publish, sessionVars, scanVars, readerVars
  <2>2. ASSUME NEW v \in Conversions, Begin(v) \/ ConversionFails(v) PROVE PublishedOnce'
    BY <1>0, <2>1, <2>2 DEF Begin, ConversionFails, Running
  <2>3. ASSUME NEW v \in Conversions, RenameOutput(v) PROVE PublishedOnce'
    <3>1. \A w \in Conversions : Fresh(w)' => Fresh(w) /\ w # v
      BY <1>0, <2>3 DEF RenameOutput, Running
    <3>2. visible'["cove"] \in {visible["cove"], v} /\ durable' = durable
      BY <1>0, <2>3 DEF RenameOutput
    <3> QED BY <1>0, <2>1, <3>1, <3>2
  <2>4. ASSUME NEW v \in Conversions, SyncOutput(v) PROVE PublishedOnce'
    <3>1. \A w \in Conversions : Fresh(w)' => Fresh(w)
      BY <1>0, <2>4 DEF SyncOutput, Advance, Running
    <3> QED BY <1>0, <2>1, <2>4, <3>1 DEF SyncOutput
  <2>5. ASSUME NEW v \in Versions, BuildIndex(v) PROVE PublishedOnce'
    BY <1>0, <2>1, <2>5 DEF BuildIndex
  <2>6. ASSUME NEW n \in Names, WriteBackName(n) PROVE PublishedOnce'
    BY <1>0, <2>1, <2>6 DEF WriteBackName
  <2> QED BY <1>1, <2>2, <2>3, <2>4, <2>5, <2>6 DEF Publish, Publishing
<1>2. CASE Crash
  <2>1. /\ visible' = durable /\ durable' = durable /\ state' = None
        /\ \A q \in Parts : fd'[q] = None
    BY <1>2 DEF Crash, MachineCrash, NewScanCache
  <2>2. \A w \in Conversions : Fresh(w)' => Fresh(w)
    BY <1>0, <1>2 DEF Crash, MachineCrash, Running
  <2> QED BY <1>0, <2>1, <2>2
<1>3. CASE Bootstrap
  BY <1>0, <1>3 DEF Bootstrap, StatFile, ReadMetadata, ReadIndex, ValidateIndex, outputVars,
                    scanVars, readerVars
<1>4. CASE StartScan
  BY <1>0, <1>4 DEF StartScan, NewScanCache, outputVars, sessionVars
<1>5. ASSUME NEW p \in Parts, Decode(p) PROVE PublishedOnce'
  BY <1>0, <1>5, FilesOpened DEF outputVars, sessionVars
<1>6. CASE UNCHANGED vars
  BY <1>0, <1>6 DEF vars, outputVars, sessionVars, scanVars, readerVars
<1> QED BY <1>1, <1>2, <1>3, <1>4, <1>5, <1>6 DEF Next


\* The key of the page a partition is at, by the metadata of the file it reads.
LEMMA KeyTyped ==
  ASSUME IInv, NEW p \in Parts, pc[p] \in {"text", "validate"}
  PROVE  /\ fd[mine[p]] \in Versions /\ segMeta[p] = fd[mine[p]] /\ seg[p] \in Segs
         /\ Key(p) \in Keys
<1>1. fd[mine[p]] \in Versions /\ segMeta[p] = fd[mine[p]] /\ seg[p] \in Segs
  BY NoneIsNothing DEF IInv, ReadersAgree, ReaderTypes, HasReader, HasPage
<1>2. <<segMeta[p], p, seg[p]>> \in Versions \X Parts \X Segs
  BY <1>1
<1>3. Key(p) \in Keys
  BY <1>2, Zenon DEF Key, Keys
<1> QED BY <1>1, <1>3

\* A step of a partition changes what it proves of its page, and no more of it.
LEMMA SessionDecode ==
  ASSUME IInv, TextInv, NEW p \in Parts, Decode(p)
  PROVE  SessionTypes' /\ ProofTypes'
<1> USE DEF SessionTypes, ProofTypes
<1>0. SessionTypes /\ ProofTypes /\ seg[p] \in Segs
  BY DEF TextInv, IInv, ReadersAgree, ReaderTypes
<1>1. UNCHANGED <<sessionVars, askedVars>>
  BY FilesOpened DEF Decode, LocalReader, GetSegment, ReadHeader, InsertSegment, ReadPage,
     LookupProof, ValidateText, LockCell, BuildValues, BuildFails, EmitBatch
<1>2. CASE LookupProof(p)
  <2>1. Key(p) \in Keys
    BY <1>2, KeyTyped DEF LookupProof
  <2> QED BY <1>0, <1>1, <1>2, <2>1, ProofsRenewed DEF LookupProof, sessionVars, askedVars
<1>3. CASE ValidateText(p)
  <2>1. Key(p) \in Keys /\ fd[mine[p]] \in Versions
    BY <1>3, KeyTyped DEF ValidateText
  <2> QED BY <1>0, <1>1, <1>3, <2>1, ProofsRenewed DEF ValidateText, sessionVars, askedVars
<1>4. CASE EmitBatch(p)
  BY <1>0, <1>1, <1>4 DEF EmitBatch, sessionVars, askedVars
<1>5. CASE ~ (LookupProof(p) \/ ValidateText(p) \/ EmitBatch(p))
  <2>1. UNCHANGED proofVars
    BY <1>5 DEF Decode, LocalReader, GetSegment, ReadHeader, InsertSegment, ReadPage,
       LockCell, BuildValues, BuildFails
  <2> QED BY <1>0, <1>1, <2>1 DEF sessionVars, proofVars, askedVars
<1> QED BY <1>2, <1>3, <1>4, <1>5

LEMMA SessionStep ==
  ASSUME IInv, TextInv, [Next]_vars
  PROVE  SessionTypes' /\ ProofTypes'
<1> USE CapacityPositive, LengthsNat, NoneIsNothing DEF SessionTypes, ProofTypes
<1>0. /\ SessionTypes /\ ProofTypes
      /\ visible["cove"] \in Versions /\ visible["covi"] \in Versions
  BY OutputNames DEF TextInv, IInv, OutputsInOrder, OutputTypeOK
<1>1. CASE UNCHANGED <<sessionVars, scanVars>>
  BY <1>0, <1>1 DEF sessionVars, scanVars, proofVars, askedVars
<1>2. CASE Bootstrap
  <2>1. UNCHANGED <<scans, query, trusts, proofs, validated>>
    BY <1>2 DEF Bootstrap, StatFile, ReadMetadata, ReadIndex, ValidateIndex, scanVars, proofVars, askedVars
  <2>2. CASE StatFile
    BY <1>0, <2>1, <2>2 DEF StatFile
  <2>3. CASE ReadMetadata
    BY <1>0, <2>1, <2>3 DEF ReadMetadata
  <2>4. CASE ReadIndex \/ ValidateIndex
    BY <1>0, <2>1, <2>4 DEF ReadIndex, ValidateIndex
  <2> QED BY <1>2, <2>2, <2>3, <2>4 DEF Bootstrap
<1>3. CASE StartScan
  BY <1>0, <1>3 DEF StartScan, NewScanCache, sessionVars
<1>4. CASE Crash
  BY <1>0, <1>4 DEF Crash, NewScanCache
<1>5. ASSUME NEW p \in Parts, Decode(p) PROVE SessionTypes' /\ ProofTypes'
  BY <1>5, SessionDecode
<1> QED BY <1>1, <1>2, <1>3, <1>4, <1>5 DEF Next, Publish, vars


LEMMA TextDecode ==
  ASSUME IInv, TextInv, NEW p \in Parts, Decode(p)
  PROVE  TextChecked'
<1> DEFINE Reading == {"cell", "build", "emit"}
           \* Earned, once the step is taken.
           Stays(k) == \E g \in Pages : /\ <<state, g[1], g[2]>> \in validated'
                                        /\ ProofKey[<<state, g[1], g[2]>>] = k
<1> USE NoneIsNothing
<1>1. /\ UNCHANGED <<outputVars, sessionVars>> /\ session = "ready" /\ state # None
      /\ fd' \in [Parts -> Versions \cup {None}] /\ fd \in [Parts -> Versions \cup {None}]
      /\ \A q \in Parts : fd'[q] = fd[q] \/ (fd[q] = None /\ fd'[q] = visible["cove"])
      /\ UNCHANGED <<session, state>> /\ UNCHANGED visible
  BY FilesOpened DEF TextInv, SessionTypes, IInv, ReadersAgree, ReaderTypes, outputVars, sessionVars
<1>2. /\ TextChecked /\ ProofTypes /\ seg \in [Parts -> Segs] /\ pc \in [Parts -> Places]
      /\ \A q \in Parts : pc[q] \in HasReader => shared \in Parts /\ mine[q] = shared
      /\ \A q \in Parts : fd[q] # None => q = shared
      /\ \A q \in Parts : pc[q] \in HasPage => fd[shared] # None
  BY DEF TextInv, IInv, ReadersAgree, ReaderTypes
<1>3. Reading \subseteq HasPage /\ HasPage \subseteq HasReader
  BY DEF HasPage, HasReader
<1>4. visible["cove"] = state => \A q \in Parts : fd'[q] \in {None, state}
  BY <1>1, <1>2 DEF TextChecked
<1>5. InReach' => InReach
  BY <1>1 DEF InReach
<1>6. ASSUME NEW q \in Parts, pc[q] \in HasPage, InReach
      PROVE  fd[mine[q]] = state
  BY <1>1, <1>2, <1>3, <1>6 DEF InReach, TextChecked
<1>7. validated \subseteq validated' /\ UNCHANGED <<state, query>>
  BY <1>1 DEF Decode, LocalReader, GetSegment, ReadHeader, InsertSegment, ReadPage, LookupProof,
     ValidateText, LockCell, BuildValues, BuildFails, EmitBatch, proofVars, askedVars, sessionVars
<1>8. \A k : Earned(k) => Stays(k)
  BY <1>7 DEF Earned
<1>9. ASSUME pc[p] \in {"text", "validate"}
      PROVE  /\ Key(p) \in Keys /\ pc[p] \in HasPage /\ seg[p] \in Segs
             /\ InReach => fd[mine[p]] = state /\ Key(p) = ProofKey[<<state, p, seg[p]>>]
  BY <1>6, <1>9, KeyTyped DEF Key, HasPage
<1>10. ASSUME ValidateText(p), InReach, SelectedAreText(p)
       PROVE  Stays(Key(p)) /\ SelectedOf(p, seg[p])
  <2>1. /\ fd[mine[p]] = state /\ Key(p) = ProofKey[<<state, p, seg[p]>>] /\ seg[p] \in Segs
    BY <1>9, <1>10 DEF ValidateText
  <2>2. <<state, p, seg[p]>> \in validated'
    BY <1>10, <2>1 DEF ValidateText
  <2>3. \E g \in Pages : g[1] = p /\ g[2] = seg[p]
    <3>1. <<p, seg[p]>> \in Pages
      BY <2>1 DEF Pages
    <3> QED BY <3>1
  <2> QED BY <1>10, <2>1, <2>2, <2>3 DEF SelectedOf, SelectedAreText
<1>11. ASSUME InReach', NEW i \in DOMAIN proofs' PROVE Stays(proofs'[i])
  <2>1. InReach /\ \A j \in DOMAIN proofs : Stays(proofs[j])
    BY <1>2, <1>5, <1>8, <1>11 DEF TextChecked
  <2>2. CASE LookupProof(p)
    <3>1. CASE ~ Proven(Key(p))
      BY <1>11, <2>1, <2>2, <3>1 DEF LookupProof
    <3>2. CASE Proven(Key(p))
      <4>1. proofs' = Append(Without(Key(p)), Key(p)) /\ Key(p) \in Keys
        BY <1>9, <2>2, <3>2 DEF LookupProof
      <4>2. \A n \in DOMAIN Append(Without(Key(p)), Key(p)) :
               \/ Append(Without(Key(p)), Key(p))[n] = Key(p)
               \/ \E j \in DOMAIN proofs : proofs[j] = Append(Without(Key(p)), Key(p))[n]
        BY <1>2, <4>1, ProofsRenewed
      <4>3. proofs'[i] = Key(p) \/ \E j \in DOMAIN proofs : proofs[j] = proofs'[i]
        BY <1>11, <4>1, <4>2, Zenon
      <4>4. \E j \in DOMAIN proofs : proofs[j] = proofs'[i]
        BY <3>2, <4>3 DEF Proven
      <4> QED BY <2>1, <4>4
    <3> QED BY <3>1, <3>2
  <2>3. CASE ValidateText(p)
    <3>1. CASE ~ SelectedAreText(p)
      BY <1>11, <2>1, <2>3, <3>1 DEF ValidateText
    <3>2. CASE SelectedAreText(p)
      <4>1. proofs' = Inserted(Key(p)) /\ Key(p) \in Keys
        BY <1>9, <2>3, <3>2 DEF ValidateText
      <4>2. \A n \in DOMAIN Inserted(Key(p)) :
               \/ Inserted(Key(p))[n] = Key(p)
               \/ \E j \in DOMAIN proofs : proofs[j] = Inserted(Key(p))[n]
        BY <1>2, <4>1, ProofsRenewed
      <4>3. proofs'[i] = Key(p) \/ \E j \in DOMAIN proofs : proofs[j] = proofs'[i]
        BY <1>11, <4>1, <4>2, Zenon
      <4>4. Stays(Key(p))
        BY <1>10, <2>1, <2>3, <3>2
      <4> QED BY <2>1, <4>3, <4>4
    <3> QED BY <3>1, <3>2
  <2>4. CASE ~ (LookupProof(p) \/ ValidateText(p))
    <3>1. proofs' = proofs
      BY <2>4 DEF Decode, LocalReader, GetSegment, ReadHeader, InsertSegment, ReadPage,
         LockCell, BuildValues, BuildFails, EmitBatch, proofVars
    <3> QED BY <1>11, <2>1, <3>1
  <2> QED BY <2>2, <2>3, <2>4
<1>12. ASSUME NEW q \in Parts, pc'[q] \in Reading, fd'[shared'] = state
       PROVE  IF q \in trusts' THEN Stays(ProofKey[<<state, q, seg'[q]>>])
                                ELSE SelectedOf(q, seg'[q])
  <2>1. CASE pc[q] \in Reading
    <3>1. pc[q] \in HasPage /\ shared \in Parts /\ fd[shared] # None
      BY <1>2, <1>3, <2>1
    <3>2. fd'[shared] = fd[shared]
      BY <1>1, <3>1
    <3>3. shared' = shared
      BY <3>1 DEF Decode, LocalReader, GetSegment, ReadHeader, InsertSegment, ReadPage,
         LookupProof, ValidateText, LockCell, BuildValues, BuildFails, EmitBatch, readerVars
    <3>4. seg'[q] = seg[q] /\ (q \in trusts' <=> q \in trusts)
      BY <1>2, <1>12, <2>1 DEF Decode, LocalReader, GetSegment, ReadHeader, InsertSegment,
         ReadPage, LookupProof, ValidateText, LockCell, BuildValues, BuildFails, EmitBatch,
         goto, proofVars
    <3>5. IF q \in trusts THEN Earned(ProofKey[<<state, q, seg[q]>>]) ELSE SelectedOf(q, seg[q])
      BY <1>2, <1>12, <2>1, <3>2, <3>3 DEF TextChecked
    <3> QED BY <1>8, <3>4, <3>5
  <2>2. CASE pc[q] \notin Reading
    <3>1. q = p /\ (LookupProof(p) \/ ValidateText(p))
      BY <1>2, <1>12, <2>2 DEF Decode, LocalReader, GetSegment, ReadHeader, InsertSegment,
         ReadPage, LookupProof, ValidateText, LockCell, BuildValues, BuildFails, EmitBatch, goto
    <3>2. UNCHANGED <<seg, fd, shared, mine>> /\ pc[p] \in {"text", "validate"}
      BY <3>1 DEF LookupProof, ValidateText, readerVars
    <3>3. shared \in Parts /\ fd[shared] = state /\ InReach
      BY <1>2, <1>3, <1>9, <1>12, <3>2 DEF InReach
    <3>4. Key(p) = ProofKey[<<state, p, seg[p]>>]
      BY <1>9, <3>2, <3>3
    <3>5. CASE LookupProof(p)
      <4>1. Proven(Key(p)) /\ trusts' = trusts \cup {p} /\ validated' = validated
        BY <1>2, <1>12, <3>1, <3>5 DEF LookupProof, goto
      <4>2. Earned(ProofKey[<<state, p, seg[p]>>])
        BY <1>2, <3>3, <3>4, <4>1 DEF TextChecked, Proven
      <4> QED BY <1>8, <3>1, <3>2, <4>1, <4>2
    <3>6. CASE ValidateText(p)
      <4>1. SelectedAreText(p) /\ trusts' = trusts
        BY <1>2, <1>12, <3>1, <3>6 DEF ValidateText, goto
      <4>2. p \notin trusts
        BY <1>2, <3>6 DEF TextChecked, ValidateText
      <4> QED BY <1>10, <3>1, <3>2, <3>3, <3>6, <4>1, <4>2
    <3> QED BY <3>1, <3>5, <3>6
  <2> QED BY <2>1, <2>2
<1>13. \A q \in Parts : q \in trusts' => pc'[q] \in {"cell", "build", "emit", "err"}
  BY <1>2 DEF Decode, LocalReader, GetSegment, ReadHeader, InsertSegment, ReadPage, LookupProof,
     ValidateText, LockCell, BuildValues, BuildFails, EmitBatch, goto, proofVars, TextChecked
<1>14. TextCheckedOrProven' /\ \A r \in rows' : r.state = state
  <2>0. ASSUME NEW r \in rows, r.page = r.state
        PROVE  IF r.trusted THEN Stays(ProofKey[<<state, r.part, r.seg>>])
                            ELSE SelectedOf(r.part, r.seg)
    <3>1. r.state = state
      BY <1>2, <2>0 DEF TextChecked
    <3>2. CASE r.trusted
      <4>1. Earned(ProofKey[<<state, r.part, r.seg>>])
        BY <1>2, <2>0, <3>1, <3>2 DEF TextChecked, TextCheckedOrProven, Earned
      <4> QED BY <1>8, <3>2, <4>1
    <3>3. CASE ~ r.trusted
      BY <1>2, <2>0, <3>1, <3>3 DEF TextChecked, TextCheckedOrProven, SelectedOf
    <3> QED BY <3>2, <3>3
  <2>1. CASE EmitBatch(p)
    <3>1. pc[p] = "emit" /\ rows' = rows \cup {Made(p)} /\ validated' = validated
      BY <2>1 DEF EmitBatch
    <3>2. /\ Made(p).page = fd[shared] /\ Made(p).state = state /\ Made(p).seg = seg[p]
          /\ Made(p).part = p /\ Made(p).trusted = (p \in trusts)
      BY <1>2, <3>1 DEF Made, HasReader
    <3>3. fd[shared] = state => IF p \in trusts THEN Earned(ProofKey[<<state, p, seg[p]>>])
                                                ELSE SelectedOf(p, seg[p])
      BY <1>2, <3>1 DEF TextChecked
    <3>4. ASSUME NEW r \in rows', r.page = r.state
          PROVE  /\ r.state = state
                 /\ IF r.trusted THEN Stays(ProofKey[<<state, r.part, r.seg>>])
                                 ELSE SelectedOf(r.part, r.seg)
      <4>1. CASE r \in rows
        BY <1>2, <2>0, <3>4, <4>1 DEF TextChecked
      <4>2. CASE r = Made(p)
        BY <1>8, <3>1, <3>2, <3>3, <3>4, <4>2
      <4> QED BY <3>1, <4>1, <4>2
    <3>5. \A r \in rows' : r.state = state
      BY <1>2, <3>1, <3>2 DEF TextChecked
    <3> QED BY <1>7, <3>4, <3>5 DEF TextCheckedOrProven, SelectedOf
  <2>2. CASE ~ EmitBatch(p)
    <3>1. rows' = rows
      BY <2>2 DEF Decode, LocalReader, GetSegment, ReadHeader, InsertSegment, ReadPage,
         LookupProof, ValidateText, LockCell, BuildValues, BuildFails
    <3>2. \A r \in rows : r.state = state
      BY <1>2 DEF TextChecked
    <3> QED BY <1>7, <2>0, <3>1, <3>2 DEF TextCheckedOrProven, SelectedOf
  <2> QED BY <2>1, <2>2
<1>15. InReach' => (\A i \in DOMAIN proofs : Earned(proofs[i]))'
  BY <1>7, <1>11 DEF Earned
<1>16. (\A q \in Parts : pc[q] \in Reading /\ fd[shared] = state =>
          IF q \in trusts THEN Earned(ProofKey[<<state, q, seg[q]>>])
                          ELSE SelectedOf(q, seg[q]))'
  BY <1>7, <1>12 DEF Earned, SelectedOf
<1> QED BY <1>1, <1>4, <1>7, <1>13, <1>14, <1>15, <1>16 DEF TextChecked

LEMMA TextStep ==
  ASSUME IInv, TextInv, [Next]_vars
  PROVE  TextChecked'
<1> USE NoneIsNothing
<1>0. /\ TextChecked /\ SessionTypes /\ PublishedOnce
      /\ session # "ready" => \A p \in Parts : pc[p] = "idle"
      /\ pc \in [Parts -> Places] /\ fd \in [Parts -> Versions \cup {None}]
      /\ visible["cove"] \in Versions
  BY OutputNames DEF TextInv, IInv, ReadersAgree, ReaderTypes, OutputsInOrder, OutputTypeOK
<1>1. CASE Publish
  <2>1. UNCHANGED <<session, state, query, pc, seg, shared, fd, trusts, proofs, validated, rows>>
    BY <1>1 DEF Publish, sessionVars, scanVars, readerVars, proofVars, askedVars
  <2>2. visible'["cove"] # visible["cove"] => visible'["cove"] # state
    <3>1. ASSUME NEW v \in Conversions, RenameOutput(v), visible'["cove"] # visible["cove"]
          PROVE  visible'["cove"] # state
      <4>1. visible \in [Names -> Versions] /\ turn \in [Conversions -> 1..3]
        BY OutputNames DEF IInv, OutputsInOrder, OutputTypeOK
      <4>2. turn[v] = 1 /\ conv[v] = "rename" /\ visible'["cove"] = v
        BY <3>1, <4>1, OutputNames DEF RenameOutput, Name
      <4> QED BY <1>0, <4>2 DEF PublishedOnce, Fresh
    <3>2. ASSUME NEW v \in Versions, BuildIndex(v) PROVE visible'["cove"] = visible["cove"]
      BY <3>2, OutputNames DEF BuildIndex, IInv, OutputsInOrder, OutputTypeOK
    <3> QED BY <1>1, <3>1, <3>2
            DEF Publish, Publishing, Begin, ConversionFails, SyncOutput, WriteBackName
  <2> QED BY <1>0, <2>1, <2>2 DEF TextChecked, InReach, TextCheckedOrProven, Earned, SelectedOf
<1>2. CASE Crash
  BY <1>2 DEF Crash, NewScanCache, TextChecked, TextCheckedOrProven
<1>3. CASE Bootstrap
  <2>1. /\ session # "ready" /\ UNCHANGED <<outputVars, pc, seg, shared, fd, trusts, proofs, rows>>
        /\ UNCHANGED visible
    BY <1>3 DEF Bootstrap, StatFile, ReadMetadata, ReadIndex, ValidateIndex, scanVars, readerVars,
                proofVars, outputVars
  <2>2. proofs = <<>> /\ rows = {} /\ \A q \in Parts : fd[q] = None /\ pc[q] = "idle"
    BY <1>0, <2>1 DEF TextChecked
  <2>3. \A q \in Parts : q \notin trusts'
    BY <1>0, <2>1, <2>2 DEF TextChecked
  <2>4. rows' = {} /\ DOMAIN proofs' = {} /\ \A q \in Parts : fd'[q] = None /\ pc'[q] = "idle"
    BY <2>1, <2>2
  <2>5. TextCheckedOrProven' /\ \A r \in rows' : r.state = state'
    BY <2>4 DEF TextCheckedOrProven
  <2> QED BY <2>1, <2>2, <2>3, <2>4, <2>5 DEF TextChecked
<1>4. CASE StartScan
  <2>1. /\ session = "ready" /\ UNCHANGED <<session, state, visible, proofs, validated>> /\ trusts' = {}
        /\ rows' = {} /\ shared' = None
        /\ \A q \in Parts : fd'[q] = None /\ pc'[q] = "reader"
    BY <1>4 DEF StartScan, NewScanCache, sessionVars, outputVars
  <2>2. state # None
    BY <1>0, <2>1 DEF SessionTypes
  <2>3. (InReach => \A i \in DOMAIN proofs : Earned(proofs[i]))'
    BY <1>0, <2>1, <2>2 DEF TextChecked, InReach, Earned
  <2>4. TextCheckedOrProven' /\ \A r \in rows' : r.state = state'
    BY <2>1 DEF TextCheckedOrProven
  <2> QED BY <2>1, <2>3, <2>4 DEF TextChecked
<1>5. ASSUME NEW p \in Parts, Decode(p) PROVE TextChecked'
  BY <1>5, TextDecode
<1>6. CASE UNCHANGED vars
  BY <1>0, <1>6 DEF vars, outputVars, sessionVars, scanVars, readerVars, proofVars,
                    TextChecked, InReach, TextCheckedOrProven, Earned, SelectedOf, askedVars
<1> QED BY <1>1, <1>2, <1>3, <1>4, <1>5, <1>6 DEF Next

THEOREM TextInductive == Spec => []TextInv
<1>1. Init => TextInv
  BY TextStart
<1>2. IInv /\ TextInv /\ [Next]_vars => TextInv'
  BY PublishedStep, SessionStep, TextStep DEF TextInv
<1> QED BY <1>1, <1>2, Inductive, PTL DEF Spec

-----------------------------------------------------------------------------
\* What rows are made of is there when they are made.
RowsTyped ==
  rows \subseteq [part : Parts, seg : Segs, state : Versions, covi : Versions \cup {None},
                  meta : Versions, page : Versions, values : Parts, trusted : BOOLEAN]

LEMMA RowsStep ==
  ASSUME IInv, TextInv, RowsTyped, [Next]_vars
  PROVE  RowsTyped'
<1>1. CASE UNCHANGED rows \/ rows' = {}
  BY <1>1 DEF RowsTyped
<1>2. ASSUME NEW p \in Parts, EmitBatch(p) PROVE RowsTyped'
  <2>1. pc[p] = "emit" /\ rows' = rows \cup {Made(p)}
    BY <1>2 DEF EmitBatch
  <2>2. state \in Versions /\ covi \in Versions \cup {None} /\ seg[p] \in Segs
    BY <2>1 DEF IInv, ReadersAgree, ReaderTypes, TextInv, SessionTypes
  <2>3. segMeta[p] \in Versions /\ fd[mine[p]] \in Versions
    BY <2>1 DEF IInv, ReadersAgree, ReaderTypes, HasReader, HasPage
  <2>4. values[p] \in Parts
    BY <2>1 DEF IInv, CellKept
  <2>5. Made(p) \in [part : Parts, seg : Segs, state : Versions, covi : Versions \cup {None},
                     meta : Versions, page : Versions, values : Parts, trusted : BOOLEAN]
    BY <2>2, <2>3, <2>4 DEF Made
  <2> QED BY <2>1, <2>5 DEF RowsTyped
<1>3. ASSUME NEW p \in Parts, Decode(p), ~ EmitBatch(p) PROVE UNCHANGED rows
  BY <1>3 DEF Decode, LocalReader, GetSegment, ReadHeader, InsertSegment, ReadPage,
     LookupProof, ValidateText, LockCell, BuildValues, BuildFails
<1> QED BY <1>1, <1>2, <1>3 DEF Next, vars, scanVars, Publish, Crash, StartScan, NewScanCache,
           Bootstrap, StatFile, ReadMetadata, ReadIndex, ValidateIndex

LEMMA RowsKept == Spec => []RowsTyped
<1>1. Init => RowsTyped
  BY DEF Init, RowsTyped
<1>2. IInv /\ TextInv /\ RowsTyped /\ [Next]_vars => RowsTyped'
  BY RowsStep
<1> QED BY <1>1, <1>2, Inductive, TextInductive, PTL DEF Spec

-----------------------------------------------------------------------------
\* Text handed over from the bootstrapped file was validated, or is trusted for a
\* proof that a page of that file with the same key earned, whatever partition or
\* earlier scan earned it and whatever replaced the file (Utf8ProofCache).
THEOREM TrustEarned == Spec => []TextCheckedOrProven
<1>1. TextInv => TextCheckedOrProven
  BY DEF TextInv, TextChecked
<1> QED BY <1>1, TextInductive, PTL

\* What the code would have to do for a proof to be an exact page-level one.
KeysTellPages ==
  \A v \in Versions, g, h \in Pages :
     ProofKey[<<v, g[1], g[2]>>] = ProofKey[<<v, h[1], h[2]>>] => g = h
WholePages == \A q \in Queries, g \in Pages : q[g] = PageRows

\* A scan under way was asked something, and pages read whole are checked whole.
PagesChecked ==
  /\ query = None => rows = {} /\ \A p \in Parts : pc[p] = "idle"
  /\ WholePages => \A v \in Versions, g \in Pages : <<v, g[1], g[2]>> \in validated =>
        \A i \in PageRows : <<v, g[1], g[2], i>> \notin BadRows

LEMMA PagesStep ==
  ASSUME IInv, TextInv, PagesChecked, [Next]_vars
  PROVE  PagesChecked'
<1> USE NoneIsNothing
<1>0. query \in Queries \cup {None} /\ query' \in Queries \cup {None}
  BY SessionStep DEF TextInv, SessionTypes
<1>1. CASE Publish \/ UNCHANGED vars
  BY <1>1 DEF Publish, vars, scanVars, askedVars, proofVars, PagesChecked
<1>2. CASE Crash \/ StartScan
  BY <1>2 DEF Crash, StartScan, NewScanCache, PagesChecked
<1>3. CASE Bootstrap
  BY <1>3 DEF Bootstrap, StatFile, ReadMetadata, ReadIndex, ValidateIndex, scanVars, askedVars,
              proofVars, PagesChecked
<1>4. ASSUME NEW p \in Parts, Decode(p) PROVE PagesChecked'
  <2>1. pc[p] # "idle" /\ query' = query
    BY <1>4 DEF Decode, LocalReader, GetSegment, ReadHeader, InsertSegment, ReadPage, LookupProof,
       ValidateText, LockCell, BuildValues, BuildFails, EmitBatch, askedVars
  <2>2. query \in Queries
    BY <1>0, <2>1 DEF PagesChecked
  <2>3. CASE ValidateText(p) /\ SelectedAreText(p) /\ WholePages
    <3>1. /\ fd[mine[p]] \in Versions /\ seg[p] \in Segs
          /\ validated' = validated \cup {<<fd[mine[p]], p, seg[p]>>}
      BY <2>3, KeyTyped DEF ValidateText
    <3>2. query[<<p, seg[p]>>] = PageRows
      <4>1. <<p, seg[p]>> \in Pages
        BY <3>1 DEF Pages
      <4> QED BY <2>2, <2>3, <4>1 DEF WholePages
    <3>3. \A i \in PageRows : <<fd[mine[p]], p, seg[p], i>> \notin BadRows
      BY <2>3, <3>2 DEF SelectedAreText
    <3>4. ASSUME NEW v \in Versions, NEW g \in Pages, <<v, g[1], g[2]>> \in validated',
                 NEW i \in PageRows
          PROVE  <<v, g[1], g[2], i>> \notin BadRows
      <4>1. CASE <<v, g[1], g[2]>> \in validated
        BY <2>3, <3>4, <4>1 DEF PagesChecked
      <4>2. CASE <<v, g[1], g[2]>> = <<fd[mine[p]], p, seg[p]>>
        <5>1. v = fd[mine[p]] /\ g[1] = p /\ g[2] = seg[p]
          BY <4>2
        <5> QED BY <3>3, <5>1
      <4> QED BY <3>1, <3>4, <4>1, <4>2
    <3> QED BY <2>1, <2>2, <3>4 DEF PagesChecked
  <2>4. CASE ~ WholePages
    BY <2>1, <2>2, <2>4 DEF PagesChecked
  <2>5. CASE ~ (ValidateText(p) /\ SelectedAreText(p))
    <3>1. validated' = validated
      BY <1>4, <2>5 DEF Decode, LocalReader, GetSegment, ReadHeader, InsertSegment, ReadPage,
         LookupProof, ValidateText, LockCell, BuildValues, BuildFails, EmitBatch, proofVars
    <3> QED BY <2>1, <2>2, <3>1 DEF PagesChecked
  <2> QED BY <2>3, <2>4, <2>5
<1> QED BY <1>1, <1>2, <1>3, <1>4 DEF Next

\* If proof keys told the pages of a file apart, and a scan exported pages whole, no
\* row other than UTF-8 would be handed over: these two are all that is missing.
THEOREM TextDelivered == Spec => [](KeysTellPages /\ WholePages => BadTextNeverDelivered)
<1>1. Init => PagesChecked
  BY DEF Init, PagesChecked
<1>2. IInv /\ TextInv /\ PagesChecked /\ [Next]_vars => PagesChecked'
  BY PagesStep
<1>3. IInv /\ TextInv /\ PagesChecked /\ RowsTyped => (KeysTellPages /\ WholePages => BadTextNeverDelivered)
  <2> SUFFICES ASSUME IInv, TextInv, PagesChecked, RowsTyped, KeysTellPages, WholePages,
                      NEW r \in rows, r.page = r.state, NEW i \in query[<<r.part, r.seg>>]
               PROVE  <<r.state, r.part, r.seg, i>> \notin BadRows
    BY DEF BadTextNeverDelivered
  <2>1. r.part \in Parts /\ r.seg \in Segs /\ r.state \in Versions
    BY DEF RowsTyped
  <2>2. <<r.part, r.seg>> \in Pages /\ query \in Queries
    BY <2>1 DEF Pages, PagesChecked, TextInv, SessionTypes
  <2>3. i \in PageRows
    BY <2>2 DEF WholePages
  <2>4. CASE ~ r.trusted
    BY <2>4 DEF TextInv, TextChecked, TextCheckedOrProven
  <2>5. CASE r.trusted
    <3>1. PICK g \in Pages : /\ <<r.state, g[1], g[2]>> \in validated
                             /\ ProofKey[<<r.state, g[1], g[2]>>]
                                  = ProofKey[<<r.state, r.part, r.seg>>]
      BY <2>5 DEF TextInv, TextChecked, TextCheckedOrProven
    <3>2. g = <<r.part, r.seg>>
      <4> DEFINE h == <<r.part, r.seg>>
      <4>1. h \in Pages /\ h[1] = r.part /\ h[2] = r.seg
        BY <2>2
      <4>2. ProofKey[<<r.state, g[1], g[2]>>] = ProofKey[<<r.state, h[1], h[2]>>]
        BY <3>1, <4>1
      <4> HIDE DEF h
      <4>3. g = h
        BY <2>1, <4>1, <4>2 DEF KeysTellPages
      <4> QED BY <4>3 DEF h
    <3>3. \A j \in PageRows : <<r.state, g[1], g[2], j>> \notin BadRows
      BY <2>1, <3>1 DEF PagesChecked
    <3> QED BY <2>3, <3>2, <3>3
  <2> QED BY <2>4, <2>5
<1> QED BY <1>1, <1>2, <1>3, Inductive, TextInductive, RowsKept, PTL DEF Spec

-----------------------------------------------------------------------------
\* Caches, readers and rows keep to their types; the proof cache never holds more
\* than its capacity (Utf8ProofCache).
THEOREM TypesHold == Spec => []TypeOK
<1>1. IInv /\ TextInv /\ RowsTyped => TypeOK
  <2>1. IInv => builds \in Nat
    BY DEF IInv, CellKept
  <2> QED BY <2>1 DEF IInv, OutputsInOrder, ReadersAgree, ReaderTypes, Places, CellKept, TextInv,
             SessionTypes, ProofTypes, RowsTyped, TypeOK
<1> QED BY <1>1, Inductive, TextInductive, RowsKept, PTL

==============================================================================
