SPECIFICATION Spec
CONSTANTS
  CLUSTER_MAP_SIZE = 5
  DIR_SLOTS = 4
  FAT_BLOCK = 4
  MaxSize = 2
  Names <- MCNames
  Exts <- MCExts
INVARIANT FormatWritesTable
