SPECIFICATION FairSpec
CONSTANTS
  p1 = p1
  p2 = p2
  s1 = s1
  s2 = s2
  s3 = s3
  s4 = s4
  Signals = {s1, s2, s3, s4}
  Publishers = {p1, p2}
  Load <- LoadTwo
  Subscribers = {b1}
  Match <- Filters
  Capacity = 1
INVARIANTS NoPanic TailInOrder
PROPERTIES PublishReturns NoLeak
CHECK_DEADLOCK FALSE
