SPECIFICATION FairSpec
CONSTANTS
  c1 = c1
  c2 = c2
  s1 = s1
  s2 = s2
  s3 = s3
  s4 = s4
  Callers = {c1, c2}
  Signals = {s1, s2, s3, s4}
  Load <- LoadTwo
  BatchCallers = {c2}
  Processors <- ChainFilter
  NumOutputs = 2
  CtxAware = {2}
  QueueSize = 2
  BatchSize = 2
INVARIANTS TypeOK Conservation Isolation StopIsFinal
PROPERTIES ImplementsLog QueuedIsHandled LoopExits
CHECK_DEADLOCK FALSE
