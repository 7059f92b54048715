SPECIFICATION Spec
CONSTANTS
  AutoRestore = TRUE
  MacroEnabled = FALSE
  Keys = {"a", "s", "R"}
  MaxKeys = 4
  BufferCap = 4
  Faults = {}
  MaxLost = 0
  TimelyDelivery = TRUE
  QuietBackspace = TRUE
  ClientPreedit = TRUE
PROPERTIES
  FunctionKeyAfterText
CHECK_DEADLOCK FALSE
