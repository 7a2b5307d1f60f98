CONSTANTS
  Null = Null
  NaN = NaN
  WordSize = 16
  Layout <- TwoSegments
  Kinds = {"Int64", "UInt64", "Float64"}
  TablesOf <- SmallTables
  FilterListsOf <- SmallFilterLists
  Metas <- SmallMetas
  FalsePositives = {3}
  FileLists <- SmallDatasets
  Aggregates <- SmallAggregates
  Values = {"x", "y"}
  RangeLists <- SmallRangeLists
  HintLists <- SmallHintLists
  NoHint = NoHint
  MaxGap = 1
  MaxSpan = 7
  NullValue = NullValue
  Properties = {"p", "q"}
  SourceLists <- SmallSourceLists
  CommitLists <- SmallCommitLists
  MaxCut = 3
  Absent = Absent
  MappingCases <- SmallMappingCases

SPECIFICATION MCSpec

INVARIANTS
  TypeOK
  IntegerAnswersExact
  SkippedHoldNothing
  MetadataCountsExact
  MetadataValuesExact
  OwnBytes
  ReadsBounded
  StateIsItsHistory
  ProjectionAgrees
  IdentitiesDeterministic

\* A query that is answered is over.
CHECK_DEADLOCK FALSE
