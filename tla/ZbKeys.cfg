SPECIFICATION Spec
CONSTANTS
  Dev = {"c", "r", "e"}
  TC = "c"
  Parent <- MCParent
  EndDevices = {"e"}
  Restarting = {"e"}
  MaxSwitches = 1
  MaxJoins = 3
  MaxTalks = 1
  MaxBusy = 1
CHECK_DEADLOCK FALSE
INVARIANTS KeysSound
PROPERTIES CountersGrow AuthEnds
