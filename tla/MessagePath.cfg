SPECIFICATION MCSpec
CONSTANTS
  None = None
  Garbage = Garbage
  Failed = Failed
  Raised = Raised
  NoBytes = NoBytes
  NoName = NoName
  a1 = a1
  a2 = a2
  b1 = b1
  ann = ann
  bob = bob
  Tenant = tenant
  Channel = channel
  Conns = {a1, a2, b1}
  Users = {ann, bob}
  UserOf <- MCUserOf
  BucketSpan = 2
  IdSize = 16
  MaxContent = 4
  MaxName = 2
  MaxMembers = 2
  MaxPackages = 1
  MaxBucket = 1
  MaxInt = 0
  Drafts <- MCDrafts
  Overhead = 2
  MaxFrame = 4
  Rate = 2
  Window = 2
  MaxTime = 3
  MaxSends = 4
  MaxEvents = 1
  Faults = TRUE
CHECK_DEADLOCK FALSE
INVARIANTS
  TypeOK
  Authentic
  RefusedLeavesNoTrace
  AtMostRate
  ValidatorsAgree
PROPERTIES
  Delivered
