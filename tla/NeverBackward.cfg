SPECIFICATION Spec
CONSTANTS
  None = None
  Garbage = Garbage
  Failed = Failed
  Raised = Raised
  NoBytes = NoBytes
  NoName = NoName
  a1 = a1
  m1 = m1
  adm = adm
  mem = mem
  Tenant = tenant
  Procs = {a1, m1}
  Users = {adm, mem}
  UserOf <- MCUserOf
  Admins = {adm}
  Start = {{}, {adm, mem}}
  Msgs = {1, 2}
  Older = {1}
  Limits = {1, 2}
  NewType = 1
  NewName <- MCName
  MaxOps = 2
  Faults = FALSE
  BucketSpan = 2
  IdSize = 16
  MaxContent = 4
  MaxName = 2
  MaxMembers = 2
  MaxPackages = 1
  MaxBucket = 1
  MaxInt = 0
CHECK_DEADLOCK FALSE
PROPERTIES
  NeverBackward
