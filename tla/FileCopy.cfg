SPECIFICATION FairSpec
CONSTANTS
  BUFFER_SIZE = 4
  WORD = 3
  Room = 4
  MaxSize = 6
  Paths <- PathsUsed
  Entries <- EntriesUsed
  Faults = {"kill", "change"}
INVARIANTS
  TypeOK
  AllInOrder
  CopiesAreNear
  StepsOfTransfer
PROPERTIES
  KeepsInbox
  TransferEnds
  SenderFinishes
CHECK_DEADLOCK FALSE
