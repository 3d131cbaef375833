SPECIFICATION Spec
CONSTANTS
  p1 = p1
  p2 = p2
  a1 = a1
  a2 = a2
  r1 = r1
  r2 = r2
  None = None
  Configs <- TwoConfigs
  Plans = {p1, p2}
  Admins = {a1, a2}
  Requests = {r1, r2}
  ControlTtl = 2
  MaxEvents = 3
  MaxTime = 3
SYMMETRY Symmetry
INVARIANTS
  ActiveIsAudited
  SettledHonestly
  NoneHonouredAfterDenial
PROPERTIES
  CleanStaysClean
  ImplementsLifecycle
