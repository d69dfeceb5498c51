CONSTANTS
  User = {u1}
  IP = {i1, i2}
  Session = {s1, s2}
  Addr = {a1}
  Port = {p1}
  a1 = a1
  p1 = p1
  Policy <- LimitPolicies
  MaxAccepts = 2
  EnforceForbidden = TRUE
  EnforceConnLimit = TRUE
  MaxGen = 1
SPECIFICATION Spec
PROPERTY NewDeviceWithinLimit
