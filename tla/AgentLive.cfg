SPECIFICATION FairSpec
CONSTANTS
  p1 = p1
  w1 = w1
  w2 = w2
  s1 = s1
  s2 = s2
  s3 = s3
  Signals = {s1, s3}
  Apps = {p1}
  Load <- LoadFirst
  Rounds <- Collected
  Workers = {w1, w2}
  NumTransports = 2
  Targets <- ByLevel
  Skipped = {}
  Reliable = {s3}
  Flaky = {2}
  CtxAware = {1}
  Hanging = {2}
  Syncers = {}
  Closer = closer
  Collector = collector
  QueueSize = 1
  NoSignal = NoSignal
PROPERTIES QueuedIsTried CloseReturns
CHECK_DEADLOCK FALSE
