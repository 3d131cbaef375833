SPECIFICATION FairSpec
CONSTANTS
  i1 = i1
  i2 = i2
  p1 = p1
  p2 = p2
  r1 = r1
  r2 = r2
  r3 = r3
  k1 = k1
  k2 = k2
  k3 = k3
  None = None
  Identifiers = {i1}
  Passwords = {p1, p2}
  Requests = {r1, r2}
  Slots = {k1, k2}
  Window = 1
  MaxFailures = 1
  MaxJobs = 1
  Batch = 1
  MaxTime = 3
INVARIANTS
  TypeOK
  FailureLimit
  OneRegistrant
  PermitsConserved
PROPERTIES
  NoForgetting
  LockoutEnds
  SaturationEnds
