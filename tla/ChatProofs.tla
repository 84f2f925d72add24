----------------------------- MODULE ChatProofs -----------------------------
(***************************************************************************)
(* Module Server implements module Chat, for any number of clients and       *)
(* channels, and a channel lives as long as it has members.                  *)
(*                                                                         *)
(* The mapping of ChatRefinement reads rooms from the channels' arrays and    *)
(* names from the clients' records.  Memberships, which says that the two     *)
(* agree, makes it a function: a client is in one array at most.             *)
(***************************************************************************)
EXTENDS ServerProofs, ChatRefinement

Rooms == [f \in Fds |-> RoomOf(f)]

LEMMA HoldingIn == \A f, g : g \in Holding(f) <=> g \in GroupNames /\ In(groups, f, g)
BY DEF Holding, In

(* What the mapping reads, in terms of In and Knows. *)
Mapped ==
  /\ Logged \subseteq Fds /\ \A f \in Fds : f \in Logged <=> Knows(clients, f)
  /\ \A f \in Fds :
       /\ RoomOf(f) \in GroupNames \cup {NoGroup}
       /\ \A g \in GroupNames : RoomOf(f) = g <=> In(groups, f, g)

LEMMA MappedIsRead == Memberships => Mapped
<1> SUFFICES ASSUME Memberships PROVE Mapped
  OBVIOUS
<1>1. \A k \in DOMAIN clients : clients[k].fd \in Fds
  <2>1. \A k \in DOMAIN clients : clients[k] \in Client(Fds)
    BY ListTypes, LenProperties, ElementOfSeq DEF Memberships, Channels
  <2>2. QED BY <2>1 DEF Client
<1>2. Logged \subseteq Fds /\ \A f \in Fds : f \in Logged <=> Knows(clients, f)
  BY <1>1 DEF Logged, Knows
<1>3. ASSUME NEW f \in Fds
      PROVE  /\ RoomOf(f) \in GroupNames \cup {NoGroup}
             /\ \A g \in GroupNames : RoomOf(f) = g <=> In(groups, f, g)
  <2>1. \A g, h \in GroupNames : In(groups, f, g) /\ In(groups, f, h) => g = h
    <3>1. \A g, h \in GroupNames : At(clients, f, g) /\ At(clients, f, h) => g = h
      BY ListTypes DEF At, OneRecordEach, Memberships, Channels
    <3>2. QED BY <3>1 DEF Memberships, NoStale
  <2>2. CASE Holding(f) = {}
    BY <2>2, HoldingIn, NamesAssumption DEF RoomOf
  <2>3. CASE Holding(f) # {}
    <3>1. RoomOf(f) \in Holding(f)
      BY <2>3 DEF RoomOf
    <3>2. QED BY <2>1, <3>1, HoldingIn
  <2>4. QED BY <2>2, <2>3
<1>4. QED BY <1>2, <1>3 DEF Mapped

(* Where a user is after a step, from the arrays after it. *)
LEMMA RoomAfter ==
  ASSUME Mapped', NEW f \in Fds, NEW r \in GroupNames \cup {NoGroup},
         \A g \in GroupNames : In(groups', f, g) <=> r = g
  PROVE  RoomOf(f)' = r
BY NamesAssumption DEF Mapped

LEMMA RoomKept ==
  ASSUME Mapped, Mapped', NEW f \in Fds,
         \A g \in GroupNames : In(groups', f, g) <=> In(groups, f, g)
  PROVE  RoomOf(f)' = RoomOf(f)
BY RoomAfter DEF Mapped

(* The steps that only relay, answer or move the connections. *)
LEMMA NothingHappens ==
  ASSUME TypeOK, PeersKept, UNCHANGED <<clients, groups>>
  PROVE  UNCHANGED C!vars
<1>1. Connected' = Connected
  BY DEF PeersKept, Connected
<1>2. Logged' = Logged
  BY DEF Logged
<1>3. \A f \in Fds : RoomOf(f)' = RoomOf(f)
  BY DEF RoomOf, Holding
<1>4. QED BY <1>1, <1>2, <1>3 DEF C!vars

LEMMA AcceptArrives ==
  ASSUME Memberships, Memberships', Accept
  PROVE  \E u \in Fds : C!Arrive(u)
<1>1. PICK fd \in Fds, st \in PeerStates :
        /\ peer[fd] = "closed" /\ st \in {"open", "eof", "reset"}
        /\ clients' = add_client_to_list(clients, fd)
        /\ peer' = [peer EXCEPT ![fd] = IF st = "eof" THEN "eof_written" ELSE st]
  BY DEF Accept, Accepted
<1>2. groups' = groups
  BY DEF Accept
<1>3. Mapped /\ Mapped'
  BY MappedIsRead, PTL
<1>4. Connected' = Connected \cup {fd} /\ fd \notin Connected
  BY <1>1 DEF Connected, Memberships, Channels, Connections, TypeOK
<1>5. Logged' = Logged
  <2>1. \A f \in Fds : Knows(clients', f) <=> Knows(clients, f)
    BY <1>1, ListTypes, AddClientAt DEF Memberships, Channels
  <2>2. QED BY <1>3, <2>1 DEF Mapped
<1>6. \A f \in Fds : RoomOf(f)' = RoomOf(f)
  BY <1>2, <1>3, RoomKept
<1>7. UNCHANGED {groups[k].name : k \in DOMAIN groups}
  BY <1>2
<1>8. QED BY <1>4, <1>5, <1>6, <1>7 DEF C!Arrive
(* The client whose line is served is connected; its record says whether it   *)
(* may speak and where it is.                                               *)
LEMMA SpeakerUser ==
  ASSUME Memberships, NEW i \in Slots, i \in ready
  PROVE  /\ fds[i] \in Fds /\ fds[i] \in Connected
         /\ fds[i] \in Logged <=> Speaker(i).hasNick
         /\ RoomOf(fds[i]) = Speaker(i).group
<1>1. fds[i] \in Fds /\ fds[i] \in Connected
  BY SpeakerKnown DEF Memberships, Channels, Connected
<1>2. Mapped
  BY MappedIsRead
<1>3. fds[i] \in Logged <=> Speaker(i).hasNick
  BY <1>1, <1>2, SpeakerAt DEF Mapped, Memberships, Channels
<1>4. Speaker(i).group \in GroupNames \cup {NoGroup}
  BY SpeakerAt DEF Memberships, Channels
<1>5. \A g \in GroupNames : In(groups, fds[i], g) <=> Speaker(i).group = g
  <2>1. \A g \in GroupNames : At(clients, fds[i], g) <=> Speaker(i).group = g
    BY SpeakerAt DEF Memberships, Channels
  <2>2. QED BY <1>1, <2>1 DEF Memberships, Channels, NoDangling, NoStale
<1>6. QED BY <1>1, <1>2, <1>3, <1>4, <1>5, NamesAssumption DEF Mapped

(* A handler that serves a client opens and closes no connection unless it is *)
(* QUIT.                                                                    *)
LEMMA ConnectedKept == ASSUME PeersKept PROVE Connected' = Connected
BY DEF PeersKept, Connected

LEMMA NICKLogsIn ==
  ASSUME Memberships, Memberships', NEW i \in Slots, NEW n \in Nicks, NICK(i, n)
  PROVE  C!Login(fds[i]) \/ UNCHANGED C!vars
<1>1. i \in ready /\ groups' = groups
  BY DEF NICK, Line, Served, Reaches
<1>2. TypeOK /\ PeersKept
  BY WriteKeepsPeers DEF NICK, Memberships, Channels, Connections
<1>3. CASE UNCHANGED clients
  BY <1>1, <1>2, <1>3, NothingHappens
<1>4. CASE clients' = set_nick(clients, fds[i], n)
  <2>1. \E k \in DOMAIN clients : clients[k].fd = fds[i]
    BY <1>1, SpeakerAt DEF Memberships, Channels
  <2>2. \A f \in Fds : Knows(clients', f) <=> f = fds[i] \/ Knows(clients, f)
    BY <1>4, <2>1, ListTypes, SetNickKnows DEF Memberships, Channels
  <2>3. Mapped /\ Mapped'
    BY MappedIsRead, PTL
  <2>4. fds[i] \in Fds /\ fds[i] \in Connected
    BY <1>1, SpeakerUser
  <2>5. Logged' = Logged \cup {fds[i]}
    BY <2>2, <2>3, <2>4 DEF Mapped
  <2>6. \A f \in Fds : RoomOf(f)' = RoomOf(f)
    BY <1>1, <2>3, RoomKept
  <2>7. Connected' = Connected
    BY <1>2, ConnectedKept
  <2>8. QED BY <1>1, <2>4, <2>5, <2>6, <2>7 DEF C!Login
<1>5. QED BY <1>3, <1>4 DEF NICK

LEMMA CREATEOpens ==
  ASSUME Memberships, Memberships', NEW i \in Slots, NEW g \in GroupNames, CREATE(i, g)
  PROVE  C!Open(fds[i], g)
<1>1. i \in ready /\ Speaker(i).hasNick /\ clients' = clients
  BY DEF CREATE, Command, Line, Served, Reaches
<1>2. PeersKept
  BY WriteKeepsPeers DEF CREATE, Memberships, Channels, Connections
<1>3. groups' = create_group(groups, g)
  BY DEF CREATE
<1>4. \A f, h : In(groups', f, h) <=> In(groups, f, h)
  BY <1>3, ListTypes, CreateGroupIn DEF Memberships, Channels
<1>5. NamesOf(groups') = NamesOf(groups) \cup {g}
  BY <1>3, ListTypes, CreateGroupNames DEF Memberships, Channels
<1>6. Mapped /\ Mapped'
  BY MappedIsRead, PTL
<1>7. \A f \in Fds : RoomOf(f)' = RoomOf(f)
  BY <1>4, <1>6, RoomKept
<1>8. Connected' = Connected /\ Logged' = Logged
  BY <1>1, <1>2, ConnectedKept DEF Logged
<1>9. fds[i] \in Logged
  BY <1>1, SpeakerUser
<1>10. QED BY <1>5, <1>7, <1>8, <1>9 DEF C!Open, NamesOf

(* /join of a channel that exists by a client that is in none. *)
LEMMA JOINEnters ==
  ASSUME Memberships, Memberships', NEW i \in Slots, NEW g \in GroupNames, JOIN(i, g)
  PROVE  (\E u \in Fds : C!Enter(u, g)) \/ UNCHANGED C!vars
<1>1. i \in ready /\ Speaker(i).hasNick
  BY DEF JOIN, Command, Line, Served, Reaches
<1>0. PICK fd \in Fds : fd = fds[i]
  BY <1>1, SpeakerUser
<1> DEFINE res == JoinResult(groups, fd, g)
<1>2. TypeOK /\ PeersKept
  BY WriteKeepsPeers DEF JOIN, Memberships, Channels, Connections
<1>3. fd \in Logged /\ RoomOf(fd) = Speaker(i).group
  BY <1>0, <1>1, SpeakerUser
<1>4. CASE UNCHANGED <<clients, groups>>
  BY <1>2, <1>4, NothingHappens
<1>5. CASE /\ Speaker(i).group = NoGroup
           /\ groups' = add_client_in_group(groups, fd, g)
           /\ clients' = IF res \in {0, -3} THEN change_group(clients, g, fd) ELSE clients
  <2>1. /\ \A f, h : In(groups', f, h) <=> In(groups, f, h) \/ (res = 0 /\ f = fd /\ h = g)
        /\ res = -3 => In(groups, fd, g)
    BY <1>3, <1>5, ListTypes, AddMemberIn, NotADescriptor DEF Memberships, Channels
  <2>2. Mapped /\ Mapped'
    BY MappedIsRead, PTL
  <2>3. \A h \in GroupNames : ~In(groups, fd, h)
    BY <1>3, <1>5, <2>2, NamesAssumption DEF Mapped
  <2>4. res # -3
    BY <2>1, <2>3
  <2>5. CASE res = 0
    <3>1. \A f \in Fds : Knows(clients', f) <=> Knows(clients, f)
      <4>1. \E k \in DOMAIN clients : clients[k].fd = fd
        BY <1>0, <1>1, SpeakerAt DEF Memberships, Channels
      <4>2. clients' = change_group(clients, g, fd)
        BY <1>5, <2>5
      <4>3. QED BY <4>1, <4>2, ListTypes, ChangeGroupAt DEF Memberships, Channels
    <3>2. Logged' = Logged
      BY <2>2, <3>1 DEF Mapped
    <3>3. g \in NamesOf(groups)
      BY <2>5, ListTypes, GroupByName, LenProperties
         DEF JoinResult, group_exist, NamesOf, Memberships, Channels
    <3>4. NamesOf(groups') = NamesOf(groups)
      BY <1>3, <1>5, ListTypes, AddMemberNames, NotADescriptor DEF Memberships, Channels
    <3> HIDE DEF res
    <3>5. RoomOf(fd)' = g
      <4>1. \A h \in GroupNames : In(groups', fd, h) <=> g = h
        BY <2>1, <2>3, <2>5
      <4>2. QED BY <1>3, <2>2, <4>1, RoomAfter
    <3>6. \A f \in Fds : f # fd => RoomOf(f)' = RoomOf(f)
      BY <2>1, <2>2, RoomKept
    <3>7. Connected' = Connected
      BY <1>2, ConnectedKept
    <3>8. C!Enter(fd, g)
      <4>1. Rooms[fd] = NoGroup
        BY <1>3, <1>5 DEF Rooms
      <4>2. Rooms' = [Rooms EXCEPT ![fd] = g]
        BY <1>3, <3>5, <3>6 DEF Rooms
      <4>3. QED BY <1>3, <3>2, <3>3, <3>4, <3>7, <4>1, <4>2 DEF C!Enter, NamesOf, Rooms
    <3>9. QED BY <3>8
  <2>6. CASE res # 0
    <3>1. groups' = groups /\ clients' = clients
      BY <1>5, <2>4, <2>6 DEF add_client_in_group
    <3>2. QED BY <1>2, <3>1, NothingHappens
  <2>7. QED BY <2>5, <2>6
<1>6. QED BY <1>0, <1>4, <1>5 DEF JOIN
(* After a client has left, its channel goes if nobody else is in it. *)
LEMMA LeftNames ==
  ASSUME groups \in Seq(Group(GroupNames, Fds)), WellFormed(groups),
         NEW fd \in Fds, NEW g, InGroup(groups, fd, g)
  PROVE  NamesOf(Left(fd, g)) =
           IF \E f \in Fds \ {fd} : In(groups, f, g)
           THEN NamesOf(groups) ELSE NamesOf(groups) \ {g}
<1> DEFINE rest == remove_client_in_group(groups, fd, g)
           k == get_group_by_name(groups, g)
<1>1. /\ rest \in Seq(Group(GroupNames, Fds))
      /\ k \in DOMAIN groups /\ DOMAIN rest = DOMAIN groups
      /\ \A j \in DOMAIN groups : j # k => rest[j] = groups[j]
      /\ rest[k].name = groups[k].name
      /\ members(rest[k].fd) = members(groups[k].fd) \ {fd}
      /\ OneCellEach(rest[k].fd)
  BY DropMember, NotADescriptor DEF WellFormed
<1>2. groups[k].name = g /\ DOMAIN groups = 1 .. Len(groups) /\ Len(groups) \in Nat
  BY <1>1, GroupByName, LenProperties
<1>3. NamesOf(rest) = NamesOf(groups)
  BY DropMemberNames, NotADescriptor
<1> HIDE DEF rest, k
<1>4. OneGroupEach(rest)
  BY <1>1 DEF WellFormed, OneGroupEach
<1>5. group_exist(rest, g) /\ get_group_by_name(rest, g) = k
  BY <1>1, <1>2, <1>4, GroupByName, LenProperties DEF group_exist, OneGroupEach
<1>6. Left(fd, g) = IF group_is_empty(rest[k].fd) THEN remove_group(rest, g) ELSE rest
  BY <1>5 DEF Left, rest
<1>7. rest[k].fd \in [Cells -> Fds \cup {-1}] /\ groups[k].fd \in [Cells -> Fds \cup {-1}]
  <2>1. rest[k] \in Group(GroupNames, Fds) /\ groups[k] \in Group(GroupNames, Fds)
    BY <1>1, <1>2, LenProperties, ElementOfSeq
  <2>2. QED BY <2>1 DEF Group
<1>8. group_is_empty(rest[k].fd) <=> members(rest[k].fd) = {}
  BY <1>7 DEF group_is_empty, members
<1>9. members(groups[k].fd) \subseteq Fds
  BY <1>7 DEF members
<1>10. \A f \in Fds : In(groups, f, g) <=> f \in members(groups[k].fd)
  BY <1>1, <1>2 DEF In, WellFormed, OneGroupEach
<1>11. group_is_empty(rest[k].fd) <=> ~\E f \in Fds \ {fd} : In(groups, f, g)
  BY <1>1, <1>8, <1>9, <1>10
<1>12. NamesOf(remove_group(rest, g)) = NamesOf(groups) \ {g}
  BY <1>1, <1>3, <1>4, <1>5, RemoveGroupNames
<1>13. QED BY <1>3, <1>6, <1>11, <1>12

(* What Left does to rooms and channels is Vacate. *)
LEMMA LeftVacates ==
  ASSUME Memberships, Memberships', NEW fd \in Fds, NEW g \in GroupNames,
         InGroup(groups, fd, g), groups' = Left(fd, g)
  PROVE  RoomOf(fd) = g /\ C!Vacate(fd)
<1>1. Mapped /\ Mapped'
  BY MappedIsRead, PTL
<1>2. \A f \in Fds : \A h : In(groups', f, h) <=> In(groups, f, h) /\ ~(f = fd /\ h = g)
  BY ListTypes, LeftIn DEF Memberships, Channels
<1>3. In(groups, fd, g)
  BY ListTypes, InGroupMeaning, NotADescriptor DEF Memberships, Channels, WellFormed
<1>4. RoomOf(fd) = g
  BY <1>1, <1>3 DEF Mapped
<1>5. RoomOf(fd)' = NoGroup
  <2>1. \A h \in GroupNames : ~In(groups', fd, h)
    BY <1>1, <1>2, <1>4 DEF Mapped
  <2>2. QED BY <1>1, <2>1, NamesAssumption DEF Mapped
<1>6. \A f \in Fds : f # fd => RoomOf(f)' = RoomOf(f)
  BY <1>1, <1>2, RoomKept
<1>7. Rooms' = [Rooms EXCEPT ![fd] = NoGroup]
  BY <1>5, <1>6 DEF Rooms
<1>8. NamesOf(groups') = IF \E f \in Fds \ {fd} : In(groups, f, g)
                         THEN NamesOf(groups) ELSE NamesOf(groups) \ {g}
  BY ListTypes, LeftNames DEF Memberships, Channels
<1>9. \A f \in Fds : In(groups, f, g) <=> Rooms[f] = Rooms[fd]
  BY <1>1, <1>4 DEF Mapped, Rooms
<1>10. QED BY <1>4, <1>7, <1>8, <1>9 DEF C!Vacate, NamesOf, Rooms

LEMMA LEAVEExits ==
  ASSUME Memberships, Memberships', NEW i \in Slots, NEW g \in GroupNames, LEAVE(i, g)
  PROVE  (\E u \in Fds : C!Exit(u)) \/ UNCHANGED C!vars
<1>1. i \in ready
  BY DEF LEAVE, Command, Line, Served, Reaches
<1>2. PICK fd \in Fds : fd = fds[i]
  BY <1>1, SpeakerUser
<1>3. TypeOK /\ PeersKept
  BY WriteKeepsPeers DEF LEAVE, Memberships, Channels, Connections
<1>4. CASE UNCHANGED <<clients, groups>>
  BY <1>3, <1>4, NothingHappens
<1>5. CASE /\ InGroup(groups, fd, g)
           /\ groups' = Left(fd, g)
           /\ clients' = change_group(clients, NoGroup, fd)
  <2>1. Mapped /\ Mapped'
    BY MappedIsRead, PTL
  <2>2. \A f \in Fds : Knows(clients', f) <=> Knows(clients, f)
    <3>1. \E k \in DOMAIN clients : clients[k].fd = fd
      BY <1>1, <1>2, SpeakerAt DEF Memberships, Channels
    <3>2. QED BY <1>5, <3>1, ListTypes, ChangeGroupAt DEF Memberships, Channels
  <2>3. Logged' = Logged
    BY <2>1, <2>2 DEF Mapped
  <2>4. RoomOf(fd) = g /\ C!Vacate(fd)
    BY <1>5, LeftVacates
  <2>5. Connected' = Connected
    BY <1>3, ConnectedKept
  <2>6. C!Exit(fd)
    BY <2>3, <2>4, <2>5, NamesAssumption DEF C!Exit
  <2>7. QED BY <2>6
<1>6. QED BY <1>2, <1>4, <1>5 DEF LEAVE

LEMMA QUITDeparts ==
  ASSUME Memberships, Memberships', NEW i \in Slots, QUIT(i)
  PROVE  \E u \in Fds : C!Depart(u)
<1>1. i \in ready
  BY DEF QUIT, Served, Reaches
<1>2. PICK fd \in Fds : fd = fds[i]
  BY <1>1, SpeakerUser
<1> DEFINE c == Speaker(i)
<1>3. /\ groups' = QuitChannels(fd, c)
      /\ clients' = remove_client(clients, fd)
      /\ peer' = [peer EXCEPT ![fd] = "closed"]
  BY <1>2 DEF QUIT
<1>4. fd \in Connected /\ RoomOf(fd) = c.group
  BY <1>1, <1>2, SpeakerUser
<1>5. Mapped /\ Mapped'
  BY MappedIsRead, PTL
<1>6. Connected' = Connected \ {fd}
  BY <1>3 DEF Connected, Memberships, Channels, Connections, TypeOK
<1>7. Logged' = Logged \ {fd}
  <2>1. \A f \in Fds : Knows(clients', f) <=> f # fd /\ Knows(clients, f)
    BY <1>3, ListTypes, RemoveClientAt DEF Memberships, Channels
  <2>2. QED BY <1>5, <2>1 DEF Mapped
<1>8. CASE RoomOf(fd) = NoGroup
  <2>1. groups' = groups
    BY <1>3, <1>4, <1>8 DEF QuitChannels
  <2>2. \A f \in Fds : RoomOf(f)' = RoomOf(f)
    BY <1>5, <2>1, RoomKept
  <2>3. C!Depart(fd)
    BY <1>4, <1>6, <1>7, <1>8, <2>1, <2>2 DEF C!Depart
  <2>4. QED BY <2>3
<1>9. CASE RoomOf(fd) # NoGroup
  <2>1. c.group \in GroupNames
    BY <1>4, <1>5, <1>9 DEF Mapped
  <2>2. In(groups, fd, c.group)
    BY <1>4, <1>5, <2>1 DEF Mapped
  <2>3. InGroup(groups, fd, c.group)
    BY <2>2, ListTypes, InGroupMeaning, NotADescriptor DEF Memberships, Channels, WellFormed
  <2>4. c.hasNick
    <3>1. At(clients, fd, c.group)
      BY <2>1, <2>2 DEF Memberships, NoStale
    <3>2. Knows(clients, fd)
      BY <2>1, <3>1 DEF Memberships, Channels, InsidersNamed
    <3>3. QED BY <1>1, <1>2, <3>2, SpeakerAt DEF Memberships, Channels
  <2>5. groups' = Left(fd, c.group)
    BY <1>3, <1>4, <1>9, <2>3, <2>4 DEF QuitChannels
  <2>6. PICK g \in GroupNames : g = c.group
    BY <2>1
  <2>7. C!Vacate(fd)
    BY <2>3, <2>5, <2>6, LeftVacates
  <2>8. C!Depart(fd)
    BY <1>4, <1>6, <1>7, <1>9, <2>7 DEF C!Depart
  <2>9. QED BY <2>8
<1>10. QED BY <1>8, <1>9
-----------------------------------------------------------------------------
(* Each step of the server is a step of Chat, or one Chat does not see.      *)
LEMMA ChatInit == Init => C!Init
<1> SUFFICES ASSUME Init PROVE C!Init
  OBVIOUS
<1>1. Connected = {} /\ Logged = {} /\ {groups[k].name : k \in DOMAIN groups} = {}
  BY DEF Init, Connected, Logged
<1>2. \A f \in Fds : RoomOf(f) = NoGroup
  BY DEF Init, RoomOf, Holding
<1>3. QED BY <1>1, <1>2 DEF C!Init

LEMMA ChatStep ==
  Memberships /\ Memberships' /\ [Next]_vars => C!Next \/ UNCHANGED C!vars
<1> SUFFICES ASSUME Memberships, Memberships', [Next]_vars
             PROVE  C!Next \/ UNCHANGED C!vars
  OBVIOUS
<1>1. TypeOK
  BY DEF Memberships, Channels, Connections
<1>2. CASE Poll \/ Stdin \/ Refuse \/ Peers \/ Halted \/ \E i \in Slots : Fault(i)
  BY <1>1, <1>2, OtherSteps, NothingHappens
<1>3. CASE Accept
  BY <1>3, AcceptArrives DEF C!Next
<1>4. ASSUME NEW i \in Slots, Answers(i) PROVE UNCHANGED C!vars
  BY <1>1, <1>4, AnswersStep, NothingHappens
<1>5. ASSUME NEW i \in Slots, QUIT(i) PROVE C!Next
  BY <1>5, QUITDeparts DEF C!Next
<1>6. ASSUME NEW i \in Slots, NEW n \in Nicks, NICK(i, n)
      PROVE  C!Next \/ UNCHANGED C!vars
  <2>1. fds[i] \in Fds
    BY <1>6, SpeakerUser DEF NICK, Line, Served, Reaches
  <2>2. QED BY <1>6, <2>1, NICKLogsIn DEF C!Next
<1>7. ASSUME NEW i \in Slots, NEW g \in GroupNames, CREATE(i, g) PROVE C!Next
  <2>1. fds[i] \in Fds
    BY <1>7, SpeakerUser DEF CREATE, Command, Line, Served, Reaches
  <2>2. QED BY <1>7, <2>1, CREATEOpens DEF C!Next
<1>8. ASSUME NEW i \in Slots, NEW g \in GroupNames, JOIN(i, g)
      PROVE  C!Next \/ UNCHANGED C!vars
  BY <1>8, JOINEnters DEF C!Next
<1>9. ASSUME NEW i \in Slots, NEW g \in GroupNames, LEAVE(i, g)
      PROVE  C!Next \/ UNCHANGED C!vars
  BY <1>9, LEAVEExits DEF C!Next
<1>10. CASE UNCHANGED vars
  <2>1. PeersKept
    BY <1>1, <1>10 DEF TypeOK, PeersKept, vars
  <2>2. QED BY <1>1, <1>10, <2>1, NothingHappens DEF vars, table
<1>11. QED
  BY <1>2, <1>3, <1>4, <1>5, <1>6, <1>7, <1>8, <1>9, <1>10
     DEF Next, Loop, Serve, Answers

(* To its users the server is Chat: arriving, choosing a nickname, opening,   *)
(* entering and leaving a channel, departing, each in one step of one handler, *)
(* whatever else that handler does and whoever else is connected.           *)
THEOREM ServerImplementsChat ==
  ASSUME EdgeNicks = {}
  PROVE  Spec => ImplementsChat
<1>1. Spec => []Memberships
  BY MembershipsInvariant
<1>2. QED BY <1>1, ChatInit, ChatStep, PTL DEF Spec, C!Spec, ImplementsChat
-----------------------------------------------------------------------------
(* A channel's life, read off the steps of Chat. *)

LEMMA InsideIsRoom ==
  ASSUME Memberships, NEW g \in GroupNames
  PROVE  Inside(g) = {f \in Fds : RoomOf(f) = g}
<1>1. Mapped
  BY MappedIsRead
<1>2. Inside(g) \subseteq Fds
  <2>1. \A l \in DOMAIN clients : clients[l] \in Client(Fds)
    BY ListTypes, LenProperties, ElementOfSeq DEF Memberships, Channels
  <2>2. QED BY <2>1 DEF Inside, Client
<1>3. \A f \in Fds : f \in Inside(g) <=> At(clients, f, g)
  BY DEF Inside, At
<1>4. \A f \in Fds : At(clients, f, g) <=> RoomOf(f) = g
  BY <1>1 DEF Mapped, Memberships, Channels, NoDangling, NoStale
<1>5. QED BY <1>2, <1>3, <1>4

Population(g) == {f \in Fds : RoomOf(f) = g}

(* In Chat a channel goes exactly when its last member does. *)
LEMMA ChannelGoesWithMembers ==
  ASSUME Memberships, Memberships', C!Next \/ UNCHANGED C!vars,
         NEW g \in GroupNames, g \in ChannelNames
  PROVE  Population(g) # {} /\ Population(g)' = {} <=> g \notin ChannelNames'
<1>1. \A f \in Fds : RoomOf(f) = Rooms[f] /\ RoomOf(f)' = Rooms'[f]
  BY DEF Rooms
<1>2. Population(g) = {f \in Fds : Rooms[f] = g}
  BY <1>1 DEF Population
<1>3. Population(g)' = {f \in Fds : Rooms'[f] = g}
  BY <1>1 DEF Population
<1>4. \A f \in Fds : Rooms[f] # NoGroup => Rooms[f] \in NamesOf(groups)
  <2>1. Mapped
    BY MappedIsRead
  <2>2. QED BY <2>1 DEF Mapped, In, Rooms, NamesOf
<1>5. CASE UNCHANGED <<Rooms, NamesOf(groups)>>
  BY <1>2, <1>3, <1>5 DEF ChannelNames, NamesOf
<1>6. ASSUME NEW u \in Fds, NEW h \in GroupNames, C!Enter(u, h)
      PROVE  Population(g) # {} /\ Population(g)' = {} <=> g \notin ChannelNames'
  <2>1. /\ Rooms[u] = NoGroup /\ Rooms' = [Rooms EXCEPT ![u] = h]
        /\ ChannelNames' = ChannelNames
    BY <1>6 DEF C!Enter, Rooms, ChannelNames
  <2>2. \A f \in Fds : Rooms[f] = g => Rooms'[f] = g
    BY <2>1, NamesAssumption DEF Rooms
  <2>3. QED BY <1>2, <1>3, <2>1, <2>2
<1>7. ASSUME NEW u \in Fds, NEW h \in GroupNames, C!Open(u, h)
      PROVE  Population(g) # {} /\ Population(g)' = {} <=> g \notin ChannelNames'
  <2>1. Rooms' = Rooms /\ ChannelNames' = ChannelNames \cup {h}
    BY <1>7 DEF C!Open, Rooms, ChannelNames
  <2>2. QED BY <1>2, <1>3, <2>1
<1>8. ASSUME NEW u \in Fds, C!Vacate(u), Rooms[u] # NoGroup
      PROVE  Population(g) # {} /\ Population(g)' = {} <=> g \notin ChannelNames'
  <2>1. /\ Rooms' = [Rooms EXCEPT ![u] = NoGroup]
        /\ ChannelNames' = IF \E v \in Fds \ {u} : Rooms[v] = Rooms[u]
                           THEN ChannelNames ELSE ChannelNames \ {Rooms[u]}
    BY <1>8 DEF C!Vacate, Rooms, ChannelNames
  <2>2. \A f \in Fds : Rooms'[f] = IF f = u THEN NoGroup ELSE Rooms[f]
    BY <2>1 DEF Rooms
  <2>3. CASE Rooms[u] = g
    BY <1>2, <1>3, <2>1, <2>2, <2>3, NamesAssumption
  <2>4. CASE Rooms[u] # g
    <3>1. ChannelNames' = ChannelNames \/ ChannelNames' = ChannelNames \ {Rooms[u]}
      BY <2>1
    <3>2. g \in ChannelNames'
      BY <2>4, <3>1
    <3>3. Population(g)' = Population(g)
      BY <1>2, <1>3, <2>2, <2>4, NamesAssumption
    <3>4. QED BY <3>2, <3>3
  <2>5. QED BY <2>3, <2>4
<1>9. ASSUME NEW u \in Fds, C!Exit(u)
      PROVE  Population(g) # {} /\ Population(g)' = {} <=> g \notin ChannelNames'
  BY <1>8, <1>9 DEF C!Exit, Rooms
<1>10. ASSUME NEW u \in Fds, C!Depart(u)
       PROVE  Population(g) # {} /\ Population(g)' = {} <=> g \notin ChannelNames'
  <2>1. CASE Rooms[u] = NoGroup
    BY <1>5, <1>10, <2>1 DEF C!Depart, Rooms, NamesOf
  <2>2. CASE Rooms[u] # NoGroup
    BY <1>8, <1>10, <2>2 DEF C!Depart, Rooms
  <2>3. QED BY <2>1, <2>2
<1>11. ASSUME NEW u \in Fds, C!Arrive(u) \/ C!Login(u)
       PROVE  Population(g) # {} /\ Population(g)' = {} <=> g \notin ChannelNames'
  BY <1>5, <1>11 DEF C!Arrive, C!Login, Rooms, NamesOf
<1>12. CASE UNCHANGED C!vars
  BY <1>5, <1>12 DEF C!vars, Rooms, NamesOf
<1>13. QED BY <1>6, <1>7, <1>9, <1>10, <1>11, <1>12 DEF C!Next

(* A channel disappears in the step in which its last member leaves, by       *)
(* /quit <channel>, /quit or the end of its connection, and in no other.     *)
THEOREM ChannelsLiveWithMembers ==
  ASSUME EdgeNicks = {}
  PROVE  Spec => ChannelLifetime
<1> DEFINE Kept == \A g \in GroupNames :
             LET emptied == Inside(g) # {} /\ Inside(g)' = {}
             IN  g \in ChannelNames => (emptied <=> g \notin ChannelNames')
<1>1. Memberships /\ Memberships' /\ [Next]_vars => [Kept]_vars
  <2> SUFFICES ASSUME Memberships, Memberships', [Next]_vars,
                      NEW g \in GroupNames, g \in ChannelNames
               PROVE  Inside(g) # {} /\ Inside(g)' = {} <=> g \notin ChannelNames'
    OBVIOUS
  <2>1. Inside(g) = Population(g)
    BY InsideIsRoom DEF Population
  <2>2. (Memberships => Inside(g) = Population(g))'
    BY InsideIsRoom, PTL DEF Population
  <2>3. QED BY <2>1, <2>2, ChatStep, ChannelGoesWithMembers
<1>2. QED BY <1>1, MembershipsInvariant, PTL DEF Spec, ChannelLifetime
=============================================================================
