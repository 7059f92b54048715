SPECIFICATION Spec
CONSTANTS
  AutoRestore = TRUE
  MacroEnabled = FALSE
  Keys = {"a", "s"}
  MaxKeys = 3
  BufferCap = 2
  Faults = {"unreachable", "deactivate"}
  MaxLost = 0
  TimelyDelivery = TRUE
  QuietBackspace = TRUE
  ClientPreedit = TRUE
PROPERTIES
  DeactivateKeepsText
CHECK_DEADLOCK FALSE
