\* Two files with split indexes that the validator accepts.
CONSTANTS
  Datasets <- MCAccepted
  Target = 2
SPECIFICATION Spec
INVARIANTS
  SplitsNeverChangeRows
