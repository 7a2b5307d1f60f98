SPECIFICATION Spec
CONSTANTS
  Values = {1, 2}
  Null = Null
  MorselRows = 3
  MorselCount = 2
  Tables <- MCTables
  FilterLists <- MCFilterLists
  ForeignIndexes <- MCForeign
INVARIANTS
  TypeOK
  SameRows
  CandidatesTight
