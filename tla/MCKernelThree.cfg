SPECIFICATION FairSpec
CONSTANTS
  PAGE_FRAME_MAX_COUNT = 8
  PAGING_DIRECTORY_TABLE_MAX_COUNT = 4
  PROCESS_PAGE_FRAME_COUNT_MAX = 2
  PROCESS_COUNT_MAX = 3
  PAGE_FRAME_SIZE = 4
  UINT32 = 64
  BufferSizes <- MCBufferSizes
  KERNEL_VIRTUAL_ADDRESS_BASE = 8
  Entrypoints <- MCEntrypoints
  KillTexts <- MCKillTexts
  RADIX = 10
INVARIANTS
  ProcessMemory
  FrameIsolation
  KernelStaysMapped
  AShellLives
  ExitFindsNext
PROPERTIES
  BystandersUntouched
  HaltCauses
  ImplementsProcessTable
  NoStarvation
CHECK_DEADLOCK FALSE
