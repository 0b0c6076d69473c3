SPECIFICATION Spec
CONSTANTS
  Bufs = {b1, b2}
  MaxReq = 2
  N = 2
  Retries = 2
  Outstanding = 2
  CounterMod = 2
  AckQSize = 1
  DupClock = 1
  MaxCopies = 1
INVARIANTS TableSound
PROPERTIES RequestEnds ImplementsService
CHECK_DEADLOCK FALSE
