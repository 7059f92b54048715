SPECIFICATION FairSpec
CONSTANTS
  AutoRestore = TRUE
  MacroEnabled = FALSE
  Keys = {"a", "s", "R", "B"}
  MaxKeys = 4
  BufferCap = 2
  Faults = {"timeout", "loss", "unreachable"}
  MaxLost = 1
  TimelyDelivery = TRUE
  QuietBackspace = FALSE
  ClientPreedit = TRUE
INVARIANTS
  NoExtraBackspace
PROPERTIES
  ChainEnds
  BufferDrains
  TimeoutFreesKeyboard
CHECK_DEADLOCK FALSE
