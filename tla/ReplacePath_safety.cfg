SPECIFICATION Spec
CONSTANTS
  AutoRestore = TRUE
  MacroEnabled = FALSE
  Keys = {"a", "s", "B", "V", "_"}
  MaxKeys = 3
  Apps = {"lazy", "shy", "terminal"}
  HoldsText = TRUE
  StaleReports = TRUE
  ReportFirst = {}
  Happenings = {"move", "select", "reset", "focus", "switch"}
  ClientPreedit = TRUE
INVARIANTS
  EveryDeletionLands
  ShownOnce
  LatchedTracksNothing
PROPERTIES
  OwnTextOnly
CHECK_DEADLOCK FALSE
