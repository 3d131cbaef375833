SPECIFICATION Spec
CONSTANTS
  t1 = t1
  t2 = t2
  Tabs = {t1}
  None = None
  Idle = 2
  Absolute = 3
  Interval = 1
  MaxSessions = 1
  MaxQueue = 1
  MaxStray = 1
  MaxTime = 2
INVARIANTS
  SignInAfterLoss
