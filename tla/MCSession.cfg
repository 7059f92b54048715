SPECIFICATION FairSpec
CONSTANTS
  Writers = {w1}
  Configs <- MCConfigs
  Missing = Missing
  Bad = Bad
  Torn = Torn
  MaxWrites = 3
  Contexts = {c1, c2}
  Fields = {"im"}
  Default <- MCDefault
  NoValue = NoValue
  MaxData = 2
  Edits <- MCEdits
INVARIANTS
  TypeOK
  NothingMissed
  MenuChoiceHolds
  SegmentOfThisConfig
PROPERTIES
  SavesAtomically
  SavedIsUsed
CHECK_DEADLOCK FALSE
