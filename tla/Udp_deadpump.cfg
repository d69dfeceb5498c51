CONSTANTS
  User = {o}
  Owner = o
  Carrier = {o}
  Key = {m}
  Master = m
  Peer = {i1}
  Addr = {a1}
  Port = {p1}
  a1 = a1
  p1 = p1
  Policy <- NoPolicies
  EnforceForbidden = TRUE
  Ttl = 2
  MaxAssociations = 1
  MaxTime = 1
  MaxPumps = 2
SYMMETRY Symm
SPECIFICATION Spec
CHECK_DEADLOCK FALSE
PROPERTY AnswersPumped
