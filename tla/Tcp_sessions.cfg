CONSTANTS
  User = {u1}
  IP = {i1, i2, i3}
  Session = {s1, s2, s3}
  Addr = {a1, a2, a3}
  Port = {p1, p2}
  a1 = a1
  p1 = p1
  Policy <- TargetPolicies
  MaxAccepts = 3
  EnforceForbidden = TRUE
  EnforceConnLimit = TRUE
  MaxGen = 2
SYMMETRY Symm
SPECIFICATION Spec
INVARIANTS TypeOK NothingLeaks DeviceCap ForbiddenNeverReached
PROPERTY SetsPersist
