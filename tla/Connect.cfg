SPECIFICATION Spec
CONSTANTS
  i1 = i1
  i2 = i2
  i3 = i3
  n1 = n1
  n2 = n2
  c1 = c1
  c2 = c2
  g1 = g1
  g2 = g2
  r1 = r1
  r2 = r2
  None = None
  Ids = {i1, i2, i3}
  Nonces = {n1, n2}
  Users = {c1, c2}
  Grants = {g1, g2}
  Requests = {r1, r2}
  Ttl = 1
  MaxAttempts = 2
  MaxTime = 2
SYMMETRY Symmetry
INVARIANTS
  TypeOK
  OneGrant
  ConsentedGrant
  GrantDeliverable
PROPERTIES
  DeliveredOwn
