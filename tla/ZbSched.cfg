SPECIFICATION Spec
CONSTANTS
  TornReads = FALSE
  TimeMod = 10
  ByteMod = 4
  Funcs = {"f"}
  Params = {"p", "q"}
  CbQSize = 1
  TmQSize = 2
  RunAfter = {1}
  MaxLate = 1
  MaxPass = 1
  IdleTimeout = 2
INVARIANTS EntriesConserved QueueInDueOrder
PROPERTIES NoEarlyAlarm EverythingServed
