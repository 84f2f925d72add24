SPECIFICATION Spec
CONSTANTS
  Clients = {"ann", "bob", "cal"}
  Names = {"ann", "bob", "cal", "zoe"}
  NoName = "none"
  Holders = {"ann", "bob", "cal"}
  Big = {}
  Cap = 2
  MaxLines = 3
  Faults = {"rename"}
INVARIANT CallerIsAsker
CHECK_DEADLOCK FALSE
