CONSTANTS
  p1 = p1
  p2 = p2
  c1 = c1
  c2 = c2
  bad = bad
  Port = {p1}
  Config = {c1, c2}
  Unsupported = {}
  Listings <- RotatingCarrier
  Proto = {"tcp", "udp"}
  MaxTasks = 4
  MaxFaults = 0
SPECIFICATION CooperativeSpec
CHECK_DEADLOCK FALSE
PROPERTY RebindSucceeds
