\* Partitions of up to four tasks and every limit up to past their end.
CONSTANTS
  Scans <- MCScans
  Limits = {0, 1, 2, 3, 4, 5, 6}
  NoLimit = NoLimit
  Capacity = 2
SPECIFICATION FairSpec
INVARIANTS
  TypeOK
  InOrder
  Backpressure
  MetricsAtEof
  ErrorAfterRows
PROPERTIES
  StopsDecoding
  StreamEnds
  TaskEnds
  KeepsPromise
