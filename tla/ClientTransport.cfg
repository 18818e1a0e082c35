SPECIFICATION Spec
CONSTANTS
  w1 = w1
  w2 = w2
  p1 = p1
  p2 = p2
  p3 = p3
  p4 = p4
  Kinds = {"tcp", "ws", "grpc", "udp", "http"}
  Senders = {w1, w2}
  Payloads = {p1, p2, p3, p4}
  Large = {p3}
  Loads <- AllLoads
  MaxConns = 4
  NoSender = NoSender
INVARIANTS WholeFrames NoOrphan LeaksBounded HealsSoon NilNeverUsed
CHECK_DEADLOCK FALSE
