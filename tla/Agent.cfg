SPECIFICATION Spec
CONSTANTS
  p1 = p1
  w1 = w1
  w2 = w2
  s1 = s1
  s2 = s2
  s3 = s3
  Signals = {s1, s2}
  Apps = {p1}
  Load <- LoadTwo
  Rounds <- NoRounds
  Workers = {w1, w2}
  NumTransports = 3
  Targets <- ByLevel
  Skipped = {s1}
  Reliable = {s2}
  Flaky = {1, 2, 3}
  CtxAware = {1, 3}
  Hanging = {2}
  Syncers = {y1}
  Closer = closer
  Collector = collector
  QueueSize = 1
  NoSignal = NoSignal
SYMMETRY WorkerSymmetry
INVARIANTS TypeOK InflightExact ReliableTriesAll ClosedIsQuiet DrainAttemptsAll SyncEmptiesQueue
CHECK_DEADLOCK FALSE
