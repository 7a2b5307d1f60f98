\* One or two files, partitions of up to two tasks.
CONSTANTS
  Datasets <- MCDatasets
  Target = 2
SPECIFICATION Spec
INVARIANTS
  TypeOK
  RowsAsClaimed
  HiddenStayHidden
PROPERTIES
  InRowOrder
