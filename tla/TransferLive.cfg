SPECIFICATION FairSpec
CONSTANTS
  Clients = {"ann", "bob"}
  Names = {"ann", "bob"}
  NoName = "none"
  Holders = {"ann", "bob"}
  Big = {"ann"}
  Cap = 2
  MaxLines = 3
  Faults = {}
INVARIANTS
  WaitsLeadOn
PROPERTY
  WaitEnds
CHECK_DEADLOCK FALSE
