SPECIFICATION FairSpec
CONSTANTS
  MAX_CL = 2
  Fds = {4, 5, 6}
  Faults = {"close"}
  Guest = Guest
  NoGroup = NoGroup
  Nicks = {Guest, n1, n2}
  GuestNicks = {Guest}
  BlankNicks = {}
  LongNicks = {}
  EdgeNicks = {}
  GroupNames = {g1}
PROPERTIES
  LinesServed
  GonePeersReleased
