SPECIFICATION FairSpec
CONSTANTS
  Nodes = {1, 2, 3}
  CounterMax = 1
  OverflowChecks = FALSE
  MaxLog = 2
  MaxAppends = 3
  MaxTime = 1
CHECK_DEADLOCK FALSE
INVARIANTS
  TypeOK
  StampsUnique
  ClockDominates
  MergeLaws
PROPERTIES
  AppendOnly
  Converges
