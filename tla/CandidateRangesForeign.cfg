SPECIFICATION Spec
CONSTANTS
  Values = {1, 2}
  Null = Null
  MorselRows = 3
  MorselCount = 2
  Tables <- OneTable
  FilterLists <- AllKeys
  ForeignIndexes <- MCLegal
INVARIANTS
  LookupNeverUnderIncludes
