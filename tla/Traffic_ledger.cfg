CONSTANTS
  User = {u1}
  Session = {s1}
  MaxUsers = 1
  MaxChunk = 2
  MaxBytes = 2
  MaxGen = 2
  MaxFail = 1
SPECIFICATION FairSpec
INVARIANTS TypeOK Conservation PublishedCountersReported
PROPERTIES CheckpointMonotone EveryByteSettles BillingKept
