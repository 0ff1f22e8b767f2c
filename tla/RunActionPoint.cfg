SPECIFICATION Spec
CONSTANTS
  Addr <- SeqAddr
  Entry = 0
  Succ <- SeqSucc
  FallThrough <- SeqFallThrough
  Exits = {2}
  MRets = {4}
  Vector = 4
  BpAddrs = {}
  ApAddrs = {0}
  PcWrites = {}
  AsyncHalt = FALSE
  Interrupts = FALSE
  MayDestroy = FALSE
  Polls = FALSE
  ClearsPending = FALSE
  MaxStep = 2
INVARIANTS
  ProgramOrder
