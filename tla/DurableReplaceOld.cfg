\* One failed call is enough to contradict section 75.
CONSTANTS
  Calls = {c1}
  Old = Old
  NoFile = NoFile
  Procs = {p1}
  Clocks = {0}
  MaxCounter = 2
  MaxCrashes = 1
SPECIFICATION Spec
INVARIANT OldStaysAuthoritative
CHECK_DEADLOCK FALSE
