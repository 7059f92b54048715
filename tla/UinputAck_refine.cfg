SPECIFICATION Spec
CONSTANTS
  AutoRestore = FALSE
  MacroEnabled = TRUE
  Keys = {"a", "s", "_", "B", "T"}
  MaxKeys = 6
  BufferCap = 6
  Faults = {"unreachable"}
  MaxLost = 0
  TimelyDelivery = TRUE
  QuietBackspace = TRUE
  ClientPreedit = TRUE
PROPERTIES
  AtomicEdits
CHECK_DEADLOCK FALSE
