SPECIFICATION Spec
CONSTANTS
  p1 = p1
  p2 = p2
  Parents = {p1, p2}
  NoParent = NoParent
  Capacity <- MCCapacity
  Devices <- MCDevices
  Buf <- MCBuf
  NoBuf = 0
  Channels = 1
  Attempts = 2
  MaxFails = 2
  MaxTroubles = 1
CHECK_DEADLOCK FALSE
INVARIANTS JoiningSound
PROPERTIES RejoinEnds Announced
