SPECIFICATION Spec
CONSTANTS
  u1 = u1
  u2 = u2
  s1 = s1
  s2 = s2
  s3 = s3
  d1 = d1
  d2 = d2
  d3 = d3
  d4 = d4
  r1 = r1
  r2 = r2
  r3 = r3
  None = None
  NoPolicy = NoPolicy
  Subjects = {u1}
  Externals = {"x1"}
  Sessions = {s1}
  Digests = {d1}
  Requests = {r1}
  Calls = {"ensure", "issue"}
  Policies <- Legacy
  Lifetimes = {1}
  AssertionTtl = 1
  GrantLimit = 2
  MaxTime = 2
SYMMETRY Symmetry
PROPERTIES
  DisableSubjectDisables
