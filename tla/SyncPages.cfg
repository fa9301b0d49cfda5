SPECIFICATION PullSpec
CONSTANTS
  BucketSpan = 1
  Msgs = {1, 2}
  PageLimit = 1
  MaxLocal = 2
  DbFaults = FALSE
  Slots = {k1}
  MaxTime = 2
SYMMETRY Symmetry
INVARIANTS
  PagesComplete
