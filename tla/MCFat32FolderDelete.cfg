SPECIFICATION AnySpec
CONSTANTS
  CLUSTER_MAP_SIZE = 6
  DIR_SLOTS = 4
  FAT_BLOCK = 4
  MaxSize = 2
  Names <- MCNames
  Exts <- MCExts
PROPERTIES
  OnlyEmptyFoldersDeleted
CHECK_DEADLOCK FALSE
