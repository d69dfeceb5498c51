CONSTANTS
  User = {o, u1}
  Owner = o
  Carrier = {}
  Key = {m}
  Master = m
  Peer = {i1, i2}
  Addr = {a1, a2}
  Port = {p1, p2}
  a1 = a1
  p1 = p1
  Policy <- Policies
  EnforceForbidden = TRUE
  Ttl = 2
  MaxAssociations = 2
  MaxTime = 2
  MaxPumps = 3
SYMMETRY Symm
SPECIFICATION Spec
CHECK_DEADLOCK FALSE
INVARIANTS TypeOK PumpsOwned ForbiddenNeverSent
PROPERTY AssociationsKept
