SPECIFICATION Spec
CONSTANTS
  s1 = s1
  s2 = s2
  s3 = s3
  s4 = s4
  Signals = {s1, s2, s3, s4}
  Load <- Batches
  Today = 3
  Stamp <- Stamps
  Old = {1, 2}
  Expired = {1}
  MaxTears = 1
  MaxCrashes = 1
  MaxArchives = 2
  MaxRestores = 1
INVARIANTS ListedIsThere LossBounded
CHECK_DEADLOCK FALSE
