SPECIFICATION Spec
CONSTANTS
  MAX_CL = 2
  Fds = {4, 5, 6}
  Faults = {"crowd", "close", "reset"}
  Guest = Guest
  NoGroup = NoGroup
  Nicks = {Guest, n1, n2, blank, long}
  GuestNicks = {Guest}
  BlankNicks = {blank}
  LongNicks = {long}
  EdgeNicks = {}
  GroupNames = {g1, g2}
SYMMETRY Symmetry
INVARIANTS
  TypeOK
  TablesAgree
  SockTabFits
  ReadyIsReadable
  NoDanglingChannel
  NoStaleMember
  RelayReachesChannel
  RoomForEveryone
  NicksDistinct
  NeverFatal
PROPERTIES
  ChannelLifetime
  ImplementsChat
