SPECIFICATION Spec
CONSTANTS
  BucketSpan = 1
  Channels = {c1, c2}
  Msgs = {m1, m2, m3}
  MaxQueue = 2
  DrainBatch = 2
  MaxSends = 2
  Slots = {k1}
  MaxTime = 1
CONSTRAINT Composed
SYMMETRY Symmetry
INVARIANTS
  TypeOK
  AccountedFor
  NoLossAlone
