SPECIFICATION Spec
CONSTANTS
  Configs <- MCConfigs
  EmojiOne <- MCEmojiOne
  CodePoint <- MCCodePoint
  Hex <- MCHex
  PageSize = 2
  MaxFound = 5
  RecentCap = 2
INVARIANTS
  TypeOK
  ShownIsComposed
  LastToneInPlace
  LookupIsAlone
PROPERTIES
  KeysKept
  BackspaceTakesLastLetter
  CapitalStartsSentence
  CommitsWhatIsShown
  OnlyWordsKeepMarks
  SpaceKeepsText
  LookupLeavesText
  PickIsShown
CHECK_DEADLOCK FALSE
