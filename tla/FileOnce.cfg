SPECIFICATION Spec
CONSTANTS
  BUFFER_SIZE = 3
  WORD = 2
  Room = 4
  MaxSize = 4
  Paths <- PathsUsed
  Entries <- EntriesUsed
  Faults = {}
INVARIANT WrittenOnce
CHECK_DEADLOCK FALSE
