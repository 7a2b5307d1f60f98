\* One partition, one scan of two segments whose pages share a proof key.
CONSTANTS
  a = a
  b = b
  p1 = p1
  p2 = p2
  Old = Old
  None = None
  Conversions = {a, b}
  Parts = {p1}
  NSegs = 2
  Length <- MCLength
  Shape <- MCShape
  PageRows <- MCPageRows
  BadRows <- UnwantedThenWanted
  ProofKey <- MCProofKey
  Queries <- FirstRows
  VerifyPages = FALSE
  Capacity = 1
  MaxScans = 1
  MaxCrashes = 1
SPECIFICATION MCSpec
INVARIANTS
  BadTextNeverDelivered
CHECK_DEADLOCK FALSE
