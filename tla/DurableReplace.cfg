\* Two calls, in one process or in two, that may reuse a name after a crash.
CONSTANTS
  Calls = {c1, c2}
  Old = Old
  NoFile = NoFile
  Procs = {p1, p2}
  Clocks = {0}
  MaxCounter = 2
  MaxCrashes = 1
SPECIFICATION FairSpec
INVARIANTS
  TypeOK
  FinalAlwaysComplete
  AckedNeverLost
  TemporariesAccounted
PROPERTIES
  PublishedNeverModified
  PublisherReturns
  KeepsPromise
\* Every call returned and nothing is left to write back: the end.
CHECK_DEADLOCK FALSE
