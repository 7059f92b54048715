SPECIFICATION Spec
CONSTANTS
  AutoRestore = TRUE
  MacroEnabled = FALSE
  Keys = {"a", "s", "R", "B"}
  MaxKeys = 5
  BufferCap = 2
  Faults = {"timeout", "loss", "reset", "deactivate", "unreachable", "restart"}
  MaxLost = 2
  TimelyDelivery = FALSE
  QuietBackspace = FALSE
  ClientPreedit = TRUE
INVARIANTS
  TypeOK
  ChainWellFormed
  NothingStranded
  SegmentNeedsLink
  DebtIsCovered
PROPERTIES
  ForwardAfterText
  BufferIsFifo
CHECK_DEADLOCK FALSE
