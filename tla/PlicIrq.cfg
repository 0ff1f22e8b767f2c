SPECIFICATION Spec
CONSTANTS
  Sources = {1, 2, 3}
  Contexts = {0, 1}
  Level = {1}
  ConfiguredPriority <- MCPriority
  ConfiguredThreshold <- MCThreshold
  Configured <- MCConfigured
  ConfiguredOn <- MCOn
  Priorities = {0, 1, 2}
  Thresholds = {0, 1}
  EnableWrites <- MCEnableWrites
  SoftwarePending = {1}
  Nesting = FALSE
  DisablesServed = TRUE
PROPERTIES
  IrqHighWhilePending
