SPECIFICATION MCSpec
CONSTANTS
  Bufs = {b1, b2}
  Dests = {d1}
  TableSize = 2
  PendingSize = 1
  DiscExpiry = 1
  PendExpiry = 1
  IdMod = 1
  MaxWait = 2
  Me = me
  Other = other
  NoAddr = none
  Payloads = {0, 40, 79, 82, 100}
  MaxResend = 2
  MaxHops = 2
CHECK_DEADLOCK FALSE
INVARIANTS WaitingSound FrameRight
PROPERTIES FrameEnds
