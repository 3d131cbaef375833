SPECIFICATION Spec
CONSTANTS
  f1 = f1
  f2 = f2
  c1 = c1
  c2 = c2
  k1 = k1
  k2 = k2
  u1 = u1
  u2 = u2
  r1 = r1
  r2 = r2
  None = None
  Flows = {f1, f2}
  Codes = {c1, c2}
  Sessions = {k1, k2}
  People = {u1, u2}
  Requests = {r1, r2}
  Oidc = Oidc
  OAuth = OAuth
  FlowTtl = 1
  CodeTtl = 1
  MaxTime = 1
SYMMETRY Symmetry
INVARIANTS
  LoginIsOwn
PROPERTIES
  ImplementsOneShot
