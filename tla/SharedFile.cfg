\* Two conversions, two partitions, two scans of two segments.
CONSTANTS
  a = a
  b = b
  p1 = p1
  p2 = p2
  Old = Old
  None = None
  Conversions = {a, b}
  Parts = {p1, p2}
  NSegs = 2
  Length <- MCLength
  Shape <- MCShape
  PageRows <- MCPageRows
  BadRows <- MCBadRows
  ProofKey <- MCProofKey
  Queries <- MCQueries
  VerifyPages = FALSE
  Capacity = 1
  MaxScans = 2
  MaxCrashes = 1
SPECIFICATION MCSpec
INVARIANTS
  TypeOK
  SidecarsNeverAhead
  UnreplacedScanIsConsistent
  TextCheckedOrProven
  OneDictionary
PROPERTIES
  ReadsOneSnapshot
  ScanEnds
\* Everything published, every scan over: the end.
CHECK_DEADLOCK FALSE
