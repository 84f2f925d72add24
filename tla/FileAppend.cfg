SPECIFICATION Spec
CONSTANTS
  BUFFER_SIZE = 3
  WORD = 2
  Room = 4
  MaxSize = 2
  Paths <- PathsUsed
  Entries <- EntriesUsed
  Faults = {}
INVARIANT OtherFilesKept
CHECK_DEADLOCK FALSE
