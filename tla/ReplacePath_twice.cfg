SPECIFICATION Spec
CONSTANTS
  AutoRestore = TRUE
  MacroEnabled = FALSE
  Keys = {"a", "s"}
  MaxKeys = 3
  Apps = {"editor"}
  HoldsText = FALSE
  StaleReports = FALSE
  ReportFirst = {}
  Happenings = {"select", "switch"}
  ClientPreedit = TRUE
PROPERTIES
  NothingTwice
CHECK_DEADLOCK FALSE
