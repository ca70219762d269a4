SPECIFICATION Spec
CONSTANTS
  COLS = 3
  ROWS = 2
  UINT8 = 8
  MAX_CMD_LENGTH = 3
  PromptLengths = {1, 4}
  ClockWidth = 1
  BannerWidth = 1
  Letters = {"a"}
  MaxQueue = 2
  MaxOutput = 3
  EarlyKeys = FALSE
INVARIANTS
  TypeOK
  LineShown
  OneStaleCharacter
PROPERTIES
  KeyboardListens
  KeysAreTaken
CHECK_DEADLOCK FALSE
