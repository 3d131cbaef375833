SPECIFICATION FairSpec
CONSTANTS
  u1 = u1
  u2 = u2
  s1 = s1
  s2 = s2
  s3 = s3
  d1 = d1
  d2 = d2
  d3 = d3
  d4 = d4
  r1 = r1
  r2 = r2
  r3 = r3
  None = None
  NoPolicy = NoPolicy
  Subjects = {u1}
  Externals = {"x1"}
  Sessions = {s1}
  Digests = {d1, d2, d3, d4}
  Requests = {r1}
  Calls = {"ensure", "issue_managed", "renew"}
  Policies <- TwoDeployments
  Lifetimes = {2}
  AssertionTtl = 1
  GrantLimit = 2
  MaxTime = 5
PROPERTIES
  ManagedSessionsEnd
