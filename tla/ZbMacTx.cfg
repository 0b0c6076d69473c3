SPECIFICATION Spec
CONSTANTS
  Bufs = {b1, b2, b3}
  ShortAddrs = {"s"}
  LongAddrs = {"l"}
  PendingSize = 2
  TxQSize = 2
  NoBuf = NoBuf
INVARIANTS BuffersSound TransmissionsRight
PROPERTIES TxNeverStuck
CHECK_DEADLOCK FALSE
