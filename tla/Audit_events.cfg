CONSTANTS
  User = {u1, u2}
  IP = {i1}
  Rule = {r1}
  Source = {k1}
  Capacity = 2
  MaxSessions = 1
  MaxAlive = 1
  MaxDetect = 1
  SessionTtl = 1
  AliveTtl = 2
  DetectTtl = 2
  MaxTime = 2
  MaxEvents = 4
  MaxFail = 1
SPECIFICATION FairSpec
INVARIANTS TypeOK MemoryBounded AliveSinceLastReport
PROPERTIES DetectKeptUntilReported EventsSettle
