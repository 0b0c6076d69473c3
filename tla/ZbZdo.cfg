SPECIFICATION Spec
CONSTANTS
  Reqs = {r1, r2, r3}
  NoReq = NoReq
  Kinds = {"ieee_addr", "server", "update"}
  Counts = {1, 2}
  TranSize = 2
  TsnMod = 2
  RespMod = 4
  Hash <- MCHash
  Bufs = {b1, b2}
  PendingSize = 2
  MaxOps = 3
CHECK_DEADLOCK FALSE
INVARIANTS AnswerIsForRequest PendingIsUnderWay
PROPERTIES LeavesAsAsked
