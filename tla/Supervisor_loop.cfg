CONSTANTS
  p1 = p1
  p2 = p2
  c1 = c1
  c2 = c2
  bad = bad
  Port = {p1, p2}
  Config = {c1, c2, bad}
  Unsupported = {bad}
  Listings <- CarrierListings
  Proto = {"tcp", "udp"}
  MaxTasks = 6
  MaxFaults = 1
SPECIFICATION FairSpec
CHECK_DEADLOCK FALSE
INVARIANTS TypeOK NoForgottenListener SyncConverges NoNeedlessRestart
PROPERTY HandlersReturn
