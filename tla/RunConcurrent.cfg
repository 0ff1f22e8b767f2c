SPECIFICATION FairSpec
CONSTANTS
  Addr <- ConAddr
  Entry = 0
  Succ <- ConSucc
  FallThrough <- ConFallThrough
  Exits = {}
  MRets = {2}
  Vector = 2
  BpAddrs = {0}
  ApAddrs = {0}
  PcWrites = {0}
  AsyncHalt = TRUE
  Interrupts = TRUE
  MayDestroy = TRUE
  Polls = FALSE
  ClearsPending = TRUE
  MaxStep = 1
INVARIANTS
  ActivePointsAreArmed
  StoppedAtBreakpoint
PROPERTIES
  HaltStopsTheRun
  WaiterIsWoken
  DestructorOutlastsTheLoop
CHECK_DEADLOCK FALSE
