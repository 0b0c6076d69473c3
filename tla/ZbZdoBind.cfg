CONSTANTS
  a = a
  b = b
  u = u
  group = group
  a1 = a1
  a2 = a2
  b1 = b1
  b2 = b2
  u1 = u1
  bad = bad
  None = None
  Devs = {a, b, u}
  Dsts = {a, b, u}
  Srcs = {1, 2}
  BindReqs = {a1, a2, b1, b2, u1, bad}
  Ask <- MCAsk
  Unsupporting = {u}
  SrcSize = 2
  DstSize = 3
  MaxOps = 1
SPECIFICATION BindSpec
INVARIANTS OneAnswerInTime
PROPERTIES TablesAreSets SessionToggles SlotsFreed
CHECK_DEADLOCK FALSE
