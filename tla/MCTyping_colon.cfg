SPECIFICATION Spec
CONSTANTS
  Configs <- ColonConfigs
  EmojiOne <- MCEmojiOne
  CodePoint <- MCCodePoint
  Hex <- MCHex
  PageSize = 2
  MaxFound = 5
  RecentCap = 2
PROPERTY ColonStays
CHECK_DEADLOCK FALSE
