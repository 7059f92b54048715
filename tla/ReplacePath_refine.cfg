SPECIFICATION Spec
CONSTANTS
  AutoRestore = TRUE
  MacroEnabled = FALSE
  Keys = {"a", "s", "_", "B", "R"}
  MaxKeys = 5
  Apps = {"editor", "lazy"}
  HoldsText = FALSE
  StaleReports = FALSE
  ReportFirst = {"erase", "empty", "repeat"}
  Happenings = {}
  ClientPreedit = TRUE
INVARIANTS
  NoFalseDivergence
PROPERTIES
  AtomicEdits
CHECK_DEADLOCK FALSE
