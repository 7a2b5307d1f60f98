CONSTANTS
  Null = Null
  NaN = NaN
  WordSize = 16
  Layout <- SixMorsels
  Kinds = {"Float64"}
  TablesOf <- NegativeTables
  FilterListsOf <- NegativeFilters
  Metas <- ZoneMetas
  FalsePositives = {3}
  FileLists <- SmallDatasets
  Aggregates <- SmallAggregates
  Values = {"x", "y"}
  RangeLists <- SmallRangeLists
  HintLists <- SmallHintLists
  NoHint = NoHint
  MaxGap = 1
  MaxSpan = 7
  NullValue = NullValue
  Properties = {"p", "q"}
  SourceLists <- NoSourceLists
  CommitLists <- NoCommitLists
  MaxCut = 3
  Absent = Absent
  MappingCases <- NoMappingCases

SPECIFICATION ScanOnly

INVARIANT
  EngineAnswersRight

\* A query that is answered is over.
CHECK_DEADLOCK FALSE
