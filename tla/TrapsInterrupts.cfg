SPECIFICATION Spec
CONSTANTS
  Codes = {1, 3, 7, 9}
  StatusWrites <- MCStatusWrites
  DelegWrites <- MCDelegWrites
  EDelegWrites <- MCEDelegWrites
  Lines = {3, 7}
  TimerLines = {7}
  AsyncLines = {3}
  Xlen = 64
INVARIANTS
  TypeOK
  MachineInterruptNotMissed
PROPERTIES
  TakenInterruptIsDue
  UndisturbedTrapsKeepPrivilege
  MachineStatusIsolated
  ReturnRestoresContext
