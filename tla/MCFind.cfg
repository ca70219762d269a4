SPECIFICATION Spec
CONSTANTS
  root = root
  i1 = i1
  i2 = i2
  Ids = {root, i1, i2}
  Root = root
  CAPACITY = 5
  FOLDER_SIZE = 3
  FileNames = {"d"}
  DirNames = {"d", "e"}
  LongNames = {"e"}
  Targets <- MCTargets
  StackFrames = 4
  MaxChanges = 4
INVARIANTS
  TypeOK
PROPERTIES
  FindComplete
  FindListsOnce
  FindEnds
CHECK_DEADLOCK FALSE
