SPECIFICATION Spec
CONSTANTS
  first = first
  second = second
  root = root
  i1 = i1
  i2 = i2
  Shells = {first, second}
  Ids = {root, i1, i2}
  Root = root
  CAPACITY = 9
  FOLDER_SIZE = 4
  Paths <- MCPaths
  Commands <- MCCommands
  FileNames = {"testcat", "f"}
  DirNames = {"d", "e", "longname"}
  UpNames = {"..x"}
  NameLength <- MCNameLength
  NAME_SIZE = 8
  MAX_CMD_LENGTH = 16
SYMMETRY Symmetry
INVARIANTS
  TypeOK
  PathSpellsDirectory
  FileCommandsStay
PROPERTIES
  CdGoesWhereItSays
  FoldersStay
  MovesKeepContents
CHECK_DEADLOCK FALSE
