SPECIFICATION Spec
CONSTANTS
  read = read
  issue = issue
  k1 = k1
  t1 = t1
  r1 = r1
  r2 = r2
  None = None
  Never = Never
  Permissions = {read, issue}
  Issue = issue
  Asked <- TwoIntents
  Keys = {k1}
  Tokens = {t1}
  Requests = {r1, r2}
  MaxTtl = 1
  AssertionTtl = 1
  MaxTime = 2
SYMMETRY Symmetry
INVARIANTS
  OneTokenPerKey
  WithinSession
  AcceptedWhileLive
