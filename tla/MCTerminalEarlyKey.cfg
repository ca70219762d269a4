SPECIFICATION Spec
CONSTANTS
  COLS = 2
  ROWS = 3
  UINT8 = 8
  MAX_CMD_LENGTH = 4
  PromptLengths = {1}
  ClockWidth = 1
  BannerWidth = 1
  Letters = {"a"}
  MaxQueue = 2
  MaxOutput = 2
  EarlyKeys = TRUE
PROPERTIES
  KeyboardListens
CHECK_DEADLOCK FALSE
