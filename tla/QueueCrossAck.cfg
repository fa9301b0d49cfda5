SPECIFICATION Spec
CONSTANTS
  BucketSpan = 1
  Channels = {c1, c2}
  Msgs = {m1, m2}
  MaxQueue = 2
  DrainBatch = 2
  MaxSends = 1
  Slots = {k1}
  MaxTime = 0
SYMMETRY Symmetry
INVARIANTS
  NoSilentLoss
