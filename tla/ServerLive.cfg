SPECIFICATION FairServerSpec
CONSTANTS
  h1 = h1
  t1 = t1
  g1 = g1
  d1 = d1
  k1 = k1
  s1 = s1
  s3 = s3
  s4 = s4
  Callers = {h1, t1, d1}
  Signals = {s1, s3}
  Load <- LoadOne
  BatchCallers = {}
  Processors <- Keep
  NumOutputs = 1
  CtxAware = {1}
  QueueSize = 1
  BatchSize = 2
  Kind <- KindAll
  Inputs <- TcpUdp
PROPERTY TerminationExits
CHECK_DEADLOCK FALSE
