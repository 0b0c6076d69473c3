SPECIFICATION ParentSpec
CONSTANTS
  d1 = d1
  Dev = {d1}
  Routers = {90}
  Strangers = {91}
  MaxLeaving = 1
  Types <- MCTypes
  Foreign <- MCForeign
  Refs <- MCRefs
  NbtSize = 4
  NbrBytes = 14
  ExtBytes = 14
  MaxChildren = 1
  MaxRouters = 1
  CSkip = 2
  RejoinSize = 2
  Secured = TRUE
  NoDev = NoDev
  NoSlot = NoSlot
CHECK_DEADLOCK FALSE
INVARIANTS ChildrenSound PermitAlarmOwn
