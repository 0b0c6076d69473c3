SPECIFICATION PanIdSpec
CONSTANTS
  Coord = "c"
  Routers = {"r1"}
  PanIds = {1, 2}
  Presets = {0, 1}
  Channels = {11, 22}
  Rivals = {1}
  MaxChanges = 2
CHECK_DEADLOCK FALSE
INVARIANTS OnePan
PROPERTIES ConflictEnds
