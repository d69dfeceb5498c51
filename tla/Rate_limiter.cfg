CONSTANTS
  Session = {s1, s2}
  Rate = {0, 1, 3}
  Chunk = {1, 4}
  MinBurst = 2
  MaxAge = 2
  MaxGen = 2
  MaxChanges = 2
SPECIFICATION FairSpec
INVARIANTS TypeOK RateKept PublishedBucketUpdated
PROPERTIES WaitersProgress
