SPECIFICATION Spec
CONSTANTS
  m1 = m1
  f1 = f1
  f2 = f2
  Bufs = {b1, b2}
  Own = {m1}
  Relayed = {f2}
  RoutersOnly = {}
  Kind <- MCKind
  Originator <- MCOriginator
  BttSize = 2
  BrrtSize = 1
  WaitSize = 2
  MaxRetries = 2
  Lifetime = 0
  MaxCalls = 2
  CanLeave = TRUE
CHECK_DEADLOCK FALSE
INVARIANTS RetransmissionSound
PROPERTIES BroadcastEnds
