SPECIFICATION Spec
CONSTANTS
  BUFFER_SIZE = 47
  Blank = Blank
  Newline = Newline
  Nul = Nul
  Unknown = Unknown
  Letters = {"c", "s", "r", "f", "d", "p", "i", "0"}
  MaxNick = 6
  MaxName = 7
  MaxDigits = 2
  PortLength = 2
  AddressLength = 2
  MaxLine = 7
  Typed = {"c", "f"}
INVARIANTS
  ArgsAreFields
  InsideUntilLast
  SameName
  AskedAboutTheFile
  CalledBack
  AnswerReachesLongNames
  SizeNeedsLongName
CHECK_DEADLOCK FALSE
