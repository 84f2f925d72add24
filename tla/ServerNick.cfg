SPECIFICATION Spec
CONSTANTS
  MAX_CL = 2
  Fds = {4, 5, 6}
  Faults = {}
  Guest = Guest
  NoGroup = NoGroup
  Nicks = {Guest, n1, edge}
  GuestNicks = {Guest}
  BlankNicks = {}
  LongNicks = {}
  EdgeNicks = {edge}
  GroupNames = {g1}
PROPERTY NickKeepsChannel
