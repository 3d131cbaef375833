SPECIFICATION Spec
CONSTANTS
  p1 = p1
  p2 = p2
  s1 = s1
  s2 = s2
  c1 = c1
  c2 = c2
  r1 = r1
  r2 = r2
  None = None
  Never = Never
  Phones = {p1, p2}
  Sources = {s1, s2}
  Challenges = {c1, c2}
  Requests = {r1, r2}
  Ttl = 1
  Cooldown = 1
  Window = 1
  MaxStarts = 1
  MaxAttempts = 1
  MaxTime = 2
SYMMETRY Symmetry
INVARIANTS
  TypeOK
  StartLimit
  OtpOnce
