SPECIFICATION Spec
CONSTANTS
  Clients = {"ann", "bob"}
  Names = {"ann", "bob", "zoe"}
  NoName = "none"
  Holders = {"ann", "bob"}
  Big = {}
  Cap = 2
  MaxLines = 2
  Faults = {"short", "rename", "kill", "restart"}
INVARIANTS
  TypeOK
  OneCaller
  PromptShowsNick
PROPERTY
  ImplementsHandshake
CHECK_DEADLOCK FALSE
