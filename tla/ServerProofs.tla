---------------------------- MODULE ServerProofs ----------------------------
(***************************************************************************)
(* Theorems about module Server, for any number of clients, descriptors,    *)
(* names and channels.                                                      *)
(***************************************************************************)
EXTENDS ServerProperties, ListProofs, FiniteSetTheorems

LEMMA NotADescriptor == -1 \notin Fds /\ Slots \subseteq Nat \ {0, 1}
  BY ServerAssumption, MaxClAssumption DEF Slots
-----------------------------------------------------------------------------
(* The connections: TypeOK, TablesAgree and ReadyIsReadable are inductive    *)
(* together.  A handler that reads slot i relies on ReadyIsReadable to find   *)
(* an open socket there, and on TablesAgree to find its client; freeing a     *)
(* slot keeps ReadyIsReadable because no other slot has that socket.        *)

Connections == TypeOK /\ TablesAgree /\ ReadyIsReadable

(* TablesAgree, descriptor by descriptor. *)
Agreement ==
  /\ \A i, j \in Slots : fds[i] = fds[j] => i = j \/ fds[i] = -1
  /\ OneRecordEach(clients)
  /\ \A f \in Fds :
       /\ peer[f] # "closed" <=> \E i \in Slots : fds[i] = f
       /\ peer[f] # "closed" <=> \E k \in DOMAIN clients : clients[k].fd = f

LEMMA AgreementIsTablesAgree == TypeOK => (TablesAgree <=> Agreement)
<1> SUFFICES ASSUME TypeOK PROVE TablesAgree <=> Agreement
  OBVIOUS
<1> DEFINE polled == {fds[i] : i \in Slots} \ {-1}
           listed == get_fd_client(clients)
           open   == {f \in Fds : peer[f] # "closed"}
<1>1. polled \subseteq Fds /\ \A f \in Fds : f \in polled <=> \E i \in Slots : fds[i] = f
  BY NotADescriptor DEF TypeOK
<1>2. listed \subseteq Fds /\ \A f \in Fds : f \in listed <=> \E k \in DOMAIN clients : clients[k].fd = f
  <2>1. \A k \in DOMAIN clients : clients[k] \in Client(Fds)
    BY LenProperties, ElementOfSeq DEF TypeOK
  <2>2. \A k \in DOMAIN clients : clients[k].fd \in Fds
    BY <2>1 DEF Client
  <2>3. QED BY <2>2 DEF get_fd_client
<1>3. (polled = listed /\ listed = open) <=>
      \A f \in Fds : (f \in open <=> f \in polled) /\ (f \in open <=> f \in listed)
  BY <1>1, <1>2
<1>4. (polled = listed /\ listed = open) <=>
      \A f \in Fds :
        /\ peer[f] # "closed" <=> \E i \in Slots : fds[i] = f
        /\ peer[f] # "closed" <=> \E k \in DOMAIN clients : clients[k].fd = f
  BY <1>1, <1>2, <1>3
<1>5. QED BY <1>4 DEF TablesAgree, Agreement, OneRecordEach

(* The slot the loop reaches holds the socket of a client of the list. *)
LEMMA SpeakerKnown ==
  ASSUME Connections, NEW i \in Slots, i \in ready
  PROVE  /\ fds[i] \in Fds /\ peer[fds[i]] # "closed"
         /\ get_client_by_fd(clients, fds[i]) \in DOMAIN clients
         /\ Speaker(i) \in Client(Fds)
         /\ Speaker(i).fd = fds[i]
<1>1. fds[i] \in Fds
  BY DEF Connections, ReadyIsReadable, TypeOK
<1>2. Agreement
  BY AgreementIsTablesAgree DEF Connections
<1>3. peer[fds[i]] # "closed" /\ \E k \in DOMAIN clients : clients[k].fd = fds[i]
  BY <1>1, <1>2 DEF Agreement
<1>4. clients \in Seq(Client(Fds)) /\ DOMAIN clients = 1 .. Len(clients) /\ Len(clients) \in Nat
  BY LenProperties DEF Connections, TypeOK
<1>5. /\ get_client_by_fd(clients, fds[i]) \in DOMAIN clients
      /\ clients[get_client_by_fd(clients, fds[i])].fd = fds[i]
  BY <1>3, <1>4, ClientByFd
<1>6. QED BY <1>1, <1>3, <1>4, <1>5, ElementOfSeq DEF Speaker

(* What writing does to the connections: none is opened or closed, and one   *)
(* that was at its end stays readable.                                      *)
PeersKept ==
  /\ peer' \in [Fds -> PeerStates]
  /\ \A f \in Fds :
       /\ peer'[f] = "closed" <=> peer[f] = "closed"
       /\ peer[f] \in AtEof \cup {"reset"} => peer'[f] \in AtEof \cup {"reset"}

LEMMA WriteKeepsPeers ==
  ASSUME TypeOK, NEW ts, Write(ts)
  PROVE  PeersKept /\ status' \in Statuses
BY DEF TypeOK, Write, PeersKept, PeerStates, AtEof, Statuses

(* A step that serves slot i and leaves every socket open keeps Connections. *)
LEMMA ServedKeepsConnections ==
  ASSUME Connections, NEW i \in Slots, Served(i), UNCHANGED fds,
         PeersKept, status' \in Statuses,
         clients' \in Seq(Client(Fds)), Len(clients') = Len(clients),
         \A k \in 1 .. Len(clients) : clients'[k].fd = clients[k].fd,
         groups' \in Seq(Group(GroupNames, Fds))
  PROVE  Connections'
<1>1. i \in ready /\ ready' = ready \ {i} /\ fds[i] \in Fds
  BY SpeakerKnown DEF Served, Reaches
<1>2. /\ unread' \in [Fds -> BOOLEAN]
      /\ \A f \in Fds : f # fds[i] => unread'[f] = unread[f]
  BY <1>1 DEF Served, Connections, TypeOK
<1>3. TypeOK'
  BY <1>1, <1>2 DEF Served, Connections, TypeOK, PeersKept
<1>4. Agreement
  BY AgreementIsTablesAgree DEF Connections
<1>5. DOMAIN clients' = DOMAIN clients /\ DOMAIN clients = 1 .. Len(clients)
  BY LenProperties DEF Connections, TypeOK
<1>6. Agreement'
  BY <1>4, <1>5 DEF Agreement, PeersKept, OneRecordEach
<1>7. ReadyIsReadable'
  <2> SUFFICES ASSUME NEW j \in ready \cap Slots, j # i
               PROVE  fds[j] # -1 /\ Readable(fds[j])'
    BY <1>1 DEF ReadyIsReadable
  <2>1. fds[j] \in Fds /\ Readable(fds[j]) /\ fds[j] # fds[i]
    BY <1>1, <1>4 DEF Connections, ReadyIsReadable, TypeOK, Agreement
  <2>2. QED BY <1>2, <2>1, NotADescriptor DEF Readable, PeersKept
<1>8. (TypeOK => (TablesAgree <=> Agreement))'
  BY AgreementIsTablesAgree, PTL
<1>9. QED BY <1>3, <1>6, <1>7, <1>8 DEF Connections

(* The handlers that change no table: they write, and that is all. *)
Answers(i) ==
  \/ LoginFirst(i)
  \/ GROUP(i) \/ WHO(i) \/ WHOIS(i) \/ HELP(i) \/ FTSUCCESS(i)
  \/ MSG(i) \/ MSGALL(i)
  \/ \E n \in Nicks : MSGW(i, n) \/ SEND(i, n) \/ FTREQ(i, n) \/ CONN_INFO(i, n)

LEMMA AnswersStep ==
  ASSUME TypeOK, NEW i \in Slots, Answers(i)
  PROVE  /\ Served(i) /\ UNCHANGED <<fds, clients, groups>>
         /\ PeersKept /\ status' \in Statuses
<1>1. Served(i) /\ UNCHANGED <<fds, clients, groups>>
  BY DEF Answers, LoginFirst, GROUP, WHO, WHOIS, HELP, FTSUCCESS, MSG, MSGALL,
         MSGW, SEND, FTREQ, CONN_INFO, Answer, Command, Line
<1>2. (\E ts : Write(ts)) \/ (status' = "fatal" /\ UNCHANGED peer)
  BY DEF Answers, LoginFirst, GROUP, WHO, WHOIS, HELP, FTSUCCESS, MSG, MSGALL,
         MSGW, SEND, FTREQ, CONN_INFO, Answer
<1>3. CASE \E ts : Write(ts)
  BY <1>1, <1>3, WriteKeepsPeers
<1>4. CASE status' = "fatal" /\ UNCHANGED peer
  BY <1>1, <1>4 DEF TypeOK, PeersKept, Statuses
<1>5. QED BY <1>2, <1>3, <1>4

LEMMA AnswersConnections ==
  ASSUME Connections, NEW i \in Slots, Answers(i)
  PROVE  Connections'
<1>1. /\ Served(i) /\ UNCHANGED <<fds, clients, groups>>
      /\ PeersKept /\ status' \in Statuses
  BY AnswersStep DEF Connections
<1>2. QED BY <1>1, ServedKeepsConnections DEF Connections, TypeOK

LEMMA NICKConnections ==
  ASSUME Connections, NEW i \in Slots, NEW n \in Nicks, NICK(i, n)
  PROVE  Connections'
<1>1. /\ Served(i) /\ UNCHANGED <<fds, groups>>
      /\ UNCHANGED clients \/ clients' = set_nick(clients, fds[i], n)
  BY DEF NICK, Line
<1>2. PeersKept /\ status' \in Statuses
  BY WriteKeepsPeers DEF NICK, Connections
<1>3. clients \in Seq(Client(Fds)) /\ groups \in Seq(Group(GroupNames, Fds))
  BY DEF Connections, TypeOK
<1>4. CASE UNCHANGED clients
  BY <1>1, <1>2, <1>3, <1>4, ServedKeepsConnections
<1>5. CASE clients' = set_nick(clients, fds[i], n)
  <2>1. /\ clients' \in Seq(Client(Fds)) /\ Len(clients') = Len(clients)
        /\ \A k \in 1 .. Len(clients) : clients'[k].fd = clients[k].fd
    BY <1>3, <1>5, SetNick
  <2>2. QED BY <1>1, <1>2, <1>3, <2>1, ServedKeepsConnections
<1>6. QED BY <1>1, <1>4, <1>5

LEMMA CREATEConnections ==
  ASSUME Connections, NEW i \in Slots, NEW g \in GroupNames, CREATE(i, g)
  PROVE  Connections'
<1>1. /\ Served(i) /\ UNCHANGED <<fds, clients>>
      /\ groups' = create_group(groups, g)
  BY DEF CREATE, Command, Line
<1>2. PeersKept /\ status' \in Statuses
  BY WriteKeepsPeers DEF CREATE, Connections
<1>3. clients \in Seq(Client(Fds)) /\ groups \in Seq(Group(GroupNames, Fds))
  BY DEF Connections, TypeOK
<1>4. groups' \in Seq(Group(GroupNames, Fds))
  BY <1>1, <1>3, CreateGroup
<1>5. QED BY <1>1, <1>2, <1>3, <1>4, ServedKeepsConnections

LEMMA JOINConnections ==
  ASSUME Connections, NEW i \in Slots, NEW g \in GroupNames, JOIN(i, g)
  PROVE  Connections'
<1>1. /\ Served(i) /\ UNCHANGED fds
      /\ UNCHANGED clients \/ clients' = change_group(clients, g, fds[i])
      /\ UNCHANGED groups \/ groups' = add_client_in_group(groups, fds[i], g)
  BY DEF JOIN, Command, Line
<1>2. PeersKept /\ status' \in Statuses
  BY WriteKeepsPeers DEF JOIN, Connections
<1>3. clients \in Seq(Client(Fds)) /\ groups \in Seq(Group(GroupNames, Fds))
  BY DEF Connections, TypeOK
<1>4. fds[i] \in Fds
  BY <1>1, SpeakerKnown DEF Served, Reaches
<1>5. groups' \in Seq(Group(GroupNames, Fds))
  BY <1>1, <1>3, <1>4, AddMember, NotADescriptor
<1>6. /\ clients' \in Seq(Client(Fds)) /\ Len(clients') = Len(clients)
      /\ \A k \in 1 .. Len(clients) : clients'[k].fd = clients[k].fd
  BY <1>1, <1>3, ChangeGroup
<1>7. QED BY <1>1, <1>2, <1>5, <1>6, ServedKeepsConnections

(* Leaving a channel keeps the list of channels a list of channels. *)
LEMMA LeftType ==
  ASSUME groups \in Seq(Group(GroupNames, Fds)), NEW fd \in Fds, NEW g,
         InGroup(groups, fd, g)
  PROVE  Left(fd, g) \in Seq(Group(GroupNames, Fds))
<1> DEFINE rest == remove_client_in_group(groups, fd, g)
           k == get_group_by_name(groups, g)
<1>1. /\ rest \in Seq(Group(GroupNames, Fds))
      /\ k \in DOMAIN groups /\ DOMAIN rest = DOMAIN groups
      /\ rest[k].name = groups[k].name
  BY DropMember, NotADescriptor
<1>2. groups[k].name = g /\ DOMAIN groups = 1 .. Len(groups) /\ Len(groups) \in Nat
  BY <1>1, GroupByName, LenProperties
<1> HIDE DEF rest
<1>3. group_exist(rest, g)
  BY <1>1, <1>2, GroupByName, LenProperties DEF group_exist
<1>4. remove_group(rest, g) \in Seq(Group(GroupNames, Fds))
  BY <1>1, <1>3, RemoveGroup
<1>5. QED BY <1>1, <1>4 DEF Left, rest

LEMMA LEAVEConnections ==
  ASSUME Connections, NEW i \in Slots, NEW g \in GroupNames, LEAVE(i, g)
  PROVE  Connections'
<1>1. /\ Served(i) /\ UNCHANGED fds
      /\ \/ UNCHANGED <<clients, groups>>
         \/ /\ InGroup(groups, fds[i], g)
            /\ groups' = Left(fds[i], g)
            /\ clients' = change_group(clients, NoGroup, fds[i])
  BY DEF LEAVE, Command, Line
<1>2. PeersKept /\ status' \in Statuses
  BY WriteKeepsPeers DEF LEAVE, Connections
<1>3. clients \in Seq(Client(Fds)) /\ groups \in Seq(Group(GroupNames, Fds))
  BY DEF Connections, TypeOK
<1>4. fds[i] \in Fds
  BY <1>1, SpeakerKnown DEF Served, Reaches
<1>5. groups' \in Seq(Group(GroupNames, Fds))
  BY <1>1, <1>3, <1>4, LeftType
<1>6. /\ clients' \in Seq(Client(Fds)) /\ Len(clients') = Len(clients)
      /\ \A k \in 1 .. Len(clients) : clients'[k].fd = clients[k].fd
  BY <1>1, <1>3, ChangeGroup
<1>7. QED BY <1>1, <1>2, <1>5, <1>6, ServedKeepsConnections

(* Leaving the server frees one slot, one record and one descriptor. *)
LEMMA QUITConnections ==
  ASSUME Connections, NEW i \in Slots, QUIT(i)
  PROVE  Connections'
<1> DEFINE fd == fds[i]
<1>1. i \in ready /\ ready' = ready \ {i} /\ fd \in Fds /\ fd # -1
  BY SpeakerKnown, NotADescriptor DEF QUIT, Served, Reaches
<1>2. /\ fds' = [fds EXCEPT ![i] = -1]
      /\ clients' = remove_client(clients, fd)
      /\ peer' = [peer EXCEPT ![fd] = "closed"]
      /\ unread' = [unread EXCEPT ![fd] = FALSE]
      /\ wild' = wild /\ status' \in {"killed", "running"}
      /\ groups' = groups \/ \E g : InGroup(groups, fd, g) /\ groups' = Left(fd, g)
  BY DEF QUIT, QuitChannels, Served
<1>3. clients \in Seq(Client(Fds)) /\ groups \in Seq(Group(GroupNames, Fds))
  BY DEF Connections, TypeOK
<1>4. groups' \in Seq(Group(GroupNames, Fds))
  BY <1>1, <1>2, <1>3, LeftType
<1>5. Agreement
  BY AgreementIsTablesAgree DEF Connections
<1>6. /\ clients' \in Seq(Client(Fds))
      /\ OneRecordEach(clients')
      /\ \A j \in DOMAIN clients' :
           clients'[j].fd # fd /\ \E l \in DOMAIN clients : clients'[j] = clients[l]
      /\ \A l \in DOMAIN clients :
           clients[l].fd # fd => \E j \in DOMAIN clients' : clients'[j] = clients[l]
  BY <1>2, <1>3, <1>5, RemoveClient DEF Agreement
<1> HIDE DEF fd
<1>7. TypeOK'
  BY <1>1, <1>2, <1>4, <1>6 DEF Connections, TypeOK, PeerStates, Statuses
<1>8. \A f \in Fds : /\ peer'[f] = IF f = fd THEN "closed" ELSE peer[f]
                     /\ f # fd => unread'[f] = unread[f]
  BY <1>1, <1>2 DEF Connections, TypeOK
<1>9. \A j \in Slots : fds'[j] = IF j = i THEN -1 ELSE fds[j]
  BY <1>2 DEF Connections, TypeOK
<1>10. \A j \in Slots : j # i => fds[j] # fd
  BY <1>1, <1>5 DEF Agreement, fd
<1>11. Agreement'
  <2>1. \A j, m \in Slots : fds'[j] = fds'[m] => j = m \/ fds'[j] = -1
    BY <1>5, <1>9 DEF Agreement
  <2>2. ASSUME NEW f \in Fds
        PROVE  peer'[f] # "closed" <=> \E j \in Slots : fds'[j] = f
    BY <1>1, <1>5, <1>8, <1>9, <1>10, NotADescriptor DEF Agreement, fd
  <2>3. ASSUME NEW f \in Fds
        PROVE  peer'[f] # "closed" <=> \E k \in DOMAIN clients' : clients'[k].fd = f
    <3>1. CASE f = fd
      BY <1>6, <1>8, <3>1
    <3>2. CASE f # fd
      <4>1. peer'[f] # "closed" <=> \E k \in DOMAIN clients : clients[k].fd = f
        BY <1>5, <1>8, <3>2 DEF Agreement
      <4>2. (\E k \in DOMAIN clients : clients[k].fd = f)
              <=> (\E k \in DOMAIN clients' : clients'[k].fd = f)
        BY <1>6, <3>2
      <4>3. QED BY <4>1, <4>2
    <3>3. QED BY <3>1, <3>2
  <2>4. QED BY <1>6, <2>1, <2>2, <2>3 DEF Agreement
<1>12. ReadyIsReadable'
  BY <1>1, <1>8, <1>9, <1>10, NotADescriptor
     DEF Connections, ReadyIsReadable, Readable, TypeOK
<1>13. (TypeOK => (TablesAgree <=> Agreement))'
  BY AgreementIsTablesAgree, PTL
<1>14. QED BY <1>7, <1>11, <1>12, <1>13 DEF Connections

LEMMA FreeSlot ==
  get_available_fd_index # -1 =>
    get_available_fd_index \in Slots /\ fds[get_available_fd_index] = -1
<1> DEFINE I == {i \in Slots : fds[i] = -1}
<1>1. get_available_fd_index = IF \E i \in Slots : fds[i] = -1 THEN Min(I) ELSE -1
  BY DEF get_available_fd_index
<1>2. I \subseteq Nat
  BY NotADescriptor
<1>3. I # {} => Min(I) \in I
  BY <1>2, MinIsLeast
<1>4. QED BY <1>1, <1>3

(* Accepting a client takes a slot, a record and a descriptor nobody has. *)
LEMMA AcceptConnections ==
  ASSUME Connections, Accept
  PROVE  Connections'
<1> DEFINE s == get_available_fd_index
<1>1. s \in Slots /\ fds[s] = -1
  BY FreeSlot DEF Accept
<1>2. PICK fd \in Fds, st \in PeerStates, data \in BOOLEAN :
        /\ peer[fd] = "closed" /\ st \in {"open", "eof", "reset"}
        /\ fds' = [fds EXCEPT ![s] = fd]
        /\ clients' = add_client_to_list(clients, fd)
        /\ unread' = [unread EXCEPT ![fd] = data]
        /\ peer' = [peer EXCEPT ![fd] = IF st = "eof" THEN "eof_written" ELSE st]
        /\ status' = IF st = "reset" THEN "killed" ELSE "running"
  BY DEF Accept, Accepted
<1>3. ready' = ready \ {1} /\ UNCHANGED <<groups, wild>>
  BY DEF Accept, Reaches
<1> HIDE DEF s
<1>4. clients \in Seq(Client(Fds)) /\ DOMAIN clients = 1 .. Len(clients) /\ Len(clients) \in Nat
  BY LenProperties DEF Connections, TypeOK
<1>5. /\ clients' \in Seq(Client(Fds)) /\ DOMAIN clients' = 1 .. Len(clients) + 1
      /\ clients'[1].fd = fd
      /\ \A j \in 2 .. Len(clients) + 1 : clients'[j] = clients[j - 1]
  <2>1. /\ clients' \in Seq(Client(Fds)) /\ Len(clients') = Len(clients) + 1
        /\ clients'[1].fd = fd
        /\ \A j \in 2 .. Len(clients) + 1 : clients'[j] = clients[j - 1]
    BY <1>2, <1>4, AddClient
  <2>2. QED BY <2>1, LenProperties
<1>6. TypeOK'
  BY <1>1, <1>2, <1>3, <1>5 DEF Connections, TypeOK, PeerStates, Statuses
<1>7. Agreement
  BY AgreementIsTablesAgree DEF Connections
<1>8. /\ \A j \in Slots : fds[j] # fd
      /\ \A k \in DOMAIN clients : clients[k].fd # fd
  BY <1>2, <1>7 DEF Agreement
<1>9. \A f \in Fds : /\ f = fd => peer'[f] # "closed"
                     /\ f # fd => peer'[f] = peer[f] /\ unread'[f] = unread[f]
  BY <1>2 DEF Connections, TypeOK
<1>10. \A j \in Slots : fds'[j] = IF j = s THEN fd ELSE fds[j]
  BY <1>1, <1>2 DEF Connections, TypeOK
<1>11. \A f : (\E k \in DOMAIN clients' : clients'[k].fd = f)
                <=> f = fd \/ (\E k \in DOMAIN clients : clients[k].fd = f)
  <2> TAKE f
  <2>1. ASSUME NEW k \in DOMAIN clients', clients'[k].fd = f
        PROVE  f = fd \/ \E l \in DOMAIN clients : clients[l].fd = f
    <3>1. CASE k = 1
      BY <1>5, <2>1, <3>1
    <3>2. CASE k # 1
      <4>1. k - 1 \in DOMAIN clients /\ clients'[k] = clients[k - 1]
        BY <1>4, <1>5, <3>2
      <4>2. QED BY <2>1, <4>1
    <3>3. QED BY <3>1, <3>2
  <2>2. ASSUME NEW l \in DOMAIN clients, clients[l].fd = f
        PROVE  \E k \in DOMAIN clients' : clients'[k].fd = f
    <3>1. l + 1 \in DOMAIN clients' /\ clients'[l + 1] = clients[l]
      BY <1>4, <1>5
    <3>2. QED BY <2>2, <3>1
  <2>3. 1 \in DOMAIN clients'
    BY <1>4, <1>5
  <2>4. QED BY <1>5, <2>1, <2>2, <2>3
<1>12. OneRecordEach(clients')
  <2> SUFFICES ASSUME NEW k \in DOMAIN clients', NEW l \in DOMAIN clients',
                      clients'[k].fd = clients'[l].fd
               PROVE  k = l
    BY DEF OneRecordEach
  <2>1. \A j \in DOMAIN clients' :
          \/ j = 1 /\ clients'[j].fd = fd
          \/ /\ j - 1 \in DOMAIN clients /\ clients'[j].fd = clients[j - 1].fd
             /\ clients'[j].fd # fd
    BY <1>4, <1>5, <1>8
  <2>2. CASE k = 1 \/ l = 1
    BY <1>5, <2>1, <2>2
  <2>3. CASE k # 1 /\ l # 1
    <3>1. k - 1 \in DOMAIN clients /\ l - 1 \in DOMAIN clients
      BY <2>1, <2>3
    <3>2. clients[k - 1].fd = clients[l - 1].fd
      BY <2>1, <2>3
    <3>3. k - 1 = l - 1
      BY <1>7, <3>1, <3>2 DEF Agreement, OneRecordEach
    <3>4. QED BY <1>4, <1>5, <3>3
  <2>4. QED BY <2>2, <2>3
<1>13. Agreement'
  <2>1. \A j, m \in Slots : fds'[j] = fds'[m] => j = m \/ fds'[j] = -1
    BY <1>7, <1>8, <1>10 DEF Agreement
  <2>2. ASSUME NEW f \in Fds
        PROVE  peer'[f] # "closed" <=> \E j \in Slots : fds'[j] = f
    BY <1>1, <1>7, <1>9, <1>10, NotADescriptor DEF Agreement
  <2>3. ASSUME NEW f \in Fds
        PROVE  peer'[f] # "closed" <=> \E k \in DOMAIN clients' : clients'[k].fd = f
    BY <1>7, <1>8, <1>9, <1>11 DEF Agreement
  <2>4. QED BY <1>12, <2>1, <2>2, <2>3 DEF Agreement
<1>14. ReadyIsReadable'
  <2> SUFFICES ASSUME NEW j \in ready \cap Slots
               PROVE  fds'[j] # -1 /\ Readable(fds[j])'
    BY <1>3 DEF ReadyIsReadable
  <2>1. fds[j] \in Fds /\ fds[j] # -1 /\ Readable(fds[j]) /\ fds[j] # fd
    BY <1>8 DEF Connections, ReadyIsReadable, TypeOK
  <2>2. fds'[j] = fds[j]
    BY <1>1, <1>10, <2>1
  <2>3. QED BY <1>9, <2>1, <2>2 DEF Readable
<1>15. (TypeOK => (TablesAgree <=> Agreement))'
  BY AgreementIsTablesAgree, PTL
<1>16. QED BY <1>6, <1>13, <1>14, <1>15 DEF Connections

(* The steps that touch neither the tables nor which connections are open. *)
LEMMA OtherSteps ==
  ASSUME TypeOK,
         \/ Poll \/ Stdin \/ Refuse \/ Peers \/ Halted
         \/ \E i \in Slots : Fault(i)
  PROVE  PeersKept /\ UNCHANGED <<fds, clients, groups>>
<1>1. UNCHANGED <<fds, clients, groups>>
  BY DEF Poll, Stdin, Refuse, Peers, PeerWrites, PeerEnds, ResetArrives, Halted,
         Fault, table, vars
<1>2. PeersKept
  BY DEF TypeOK, PeersKept, PeerStates, AtEof, Poll, Stdin, Refuse,
         Peers, PeerWrites, PeerEnds, ResetArrives, Halted, Fault, table, vars
<1>3. QED BY <1>1, <1>2

LEMMA OtherConnections ==
  ASSUME Connections,
         \/ Poll \/ Stdin \/ Refuse \/ Peers \/ Halted
         \/ \E i \in Slots : Fault(i)
  PROVE  Connections'
<1>1. UNCHANGED <<fds, clients, groups>>
  BY OtherSteps DEF Connections
<1>2. /\ status' \in Statuses /\ wild' \in BOOLEAN
      /\ unread' \in [Fds -> BOOLEAN]
      /\ \A f \in Fds : unread[f] => unread'[f]
  BY DEF Connections, TypeOK, Statuses, Poll, Stdin, Refuse, Peers, PeerWrites,
         PeerEnds, ResetArrives, Halted, Fault, table, vars
<1>3. PeersKept
  BY OtherSteps DEF Connections
<1>4. /\ ready' \subseteq {0, 1} \cup Slots
      /\ \A i \in ready' \cap Slots : i \in ready \/ (fds[i] # -1 /\ Readable(fds[i]))
  BY NotADescriptor
     DEF Connections, TypeOK, Poll, PollIn, Stdin, Refuse, Reaches, Peers, PeerWrites,
         PeerEnds, ResetArrives, Halted, Fault, table, vars
<1>5. TypeOK'
  BY <1>1, <1>2, <1>3, <1>4 DEF Connections, TypeOK, PeersKept
<1>6. Agreement'
  <2>1. Agreement
    BY AgreementIsTablesAgree DEF Connections
  <2>2. QED BY <1>1, <1>3, <2>1 DEF Agreement, PeersKept, OneRecordEach
<1>7. ReadyIsReadable'
  <2> SUFFICES ASSUME NEW i \in ready' \cap Slots
               PROVE  fds[i] # -1 /\ Readable(fds[i])'
    BY <1>1 DEF ReadyIsReadable
  <2>1. fds[i] # -1 /\ fds[i] \in Fds /\ Readable(fds[i])
    BY <1>4 DEF Connections, ReadyIsReadable, TypeOK
  <2>2. QED BY <1>1, <1>2, <1>3, <2>1 DEF Readable, PeersKept
<1>8. (TypeOK => (TablesAgree <=> Agreement))'
  BY AgreementIsTablesAgree, PTL
<1>9. QED BY <1>5, <1>6, <1>7, <1>8 DEF Connections

LEMMA ConnectionsInit == Init => Connections
<1> SUFFICES ASSUME Init PROVE Connections
  OBVIOUS
<1>1. TypeOK
  BY EmptySeq DEF Init, TypeOK, Statuses, PeerStates
<1>2. Agreement
  BY NotADescriptor DEF Init, Agreement, OneRecordEach
<1>3. ReadyIsReadable
  BY DEF Init, ReadyIsReadable
<1>4. QED BY <1>1, <1>2, <1>3, AgreementIsTablesAgree DEF Connections

LEMMA ConnectionsStep == Connections /\ [Next]_vars => Connections'
<1> SUFFICES ASSUME Connections, [Next]_vars PROVE Connections'
  OBVIOUS
<1>1. CASE Poll \/ Stdin \/ Refuse \/ Peers \/ Halted \/ \E i \in Slots : Fault(i)
  BY <1>1, OtherConnections
<1>2. CASE Accept
  BY <1>2, AcceptConnections
<1>3. ASSUME NEW i \in Slots, Answers(i) PROVE Connections'
  BY <1>3, AnswersConnections
<1>4. ASSUME NEW i \in Slots, QUIT(i) PROVE Connections'
  BY <1>4, QUITConnections
<1>5. ASSUME NEW i \in Slots, NEW n \in Nicks, NICK(i, n) PROVE Connections'
  BY <1>5, NICKConnections
<1>6. ASSUME NEW i \in Slots, NEW g \in GroupNames, CREATE(i, g) PROVE Connections'
  BY <1>6, CREATEConnections
<1>7. ASSUME NEW i \in Slots, NEW g \in GroupNames, JOIN(i, g) PROVE Connections'
  BY <1>7, JOINConnections
<1>8. ASSUME NEW i \in Slots, NEW g \in GroupNames, LEAVE(i, g) PROVE Connections'
  BY <1>8, LEAVEConnections
<1>9. CASE UNCHANGED vars
  <2>1. UNCHANGED <<status, ready, peer, unread, fds, clients, groups, wild>>
    BY <1>9 DEF vars, table
  <2>2. TypeOK'
    BY <2>1 DEF Connections, TypeOK
  <2>3. TablesAgree'
    BY <2>1 DEF Connections, TablesAgree
  <2>4. ReadyIsReadable'
    BY <2>1 DEF Connections, ReadyIsReadable, Readable
  <2>5. QED BY <2>2, <2>3, <2>4 DEF Connections
<1>10. QED
  BY <1>1, <1>2, <1>3, <1>4, <1>5, <1>6, <1>7, <1>8, <1>9
     DEF Next, Loop, Serve, Answers

LEMMA ConnectionsInvariant == Spec => []Connections
  BY ConnectionsInit, ConnectionsStep, PTL DEF Spec

(* Every variable keeps its type. *)
THEOREM TypeCorrectness == Spec => []TypeOK
<1>1. Connections => TypeOK
  BY DEF Connections
<1>2. QED BY <1>1, ConnectionsInvariant, PTL

(* The poll slots, the list of clients and the kernel always name the same   *)
(* connections, each once.                                                  *)
THEOREM ConnectionsAgree == Spec => []TablesAgree
<1>1. Connections => TablesAgree
  BY DEF Connections
<1>2. QED BY <1>1, ConnectionsInvariant, PTL

(* The loop never reads a slot that is unused or has nothing to read. *)
THEOREM NeverBlocksInRead == Spec => []ReadyIsReadable
<1>1. Connections => ReadyIsReadable
  BY DEF Connections
<1>2. QED BY <1>1, ConnectionsInvariant, PTL
-----------------------------------------------------------------------------
(* The channels.  A client that believes it is in a channel is in its array   *)
(* because every handler that writes one of the two writes the other; the     *)
(* array survives the others' departures because a channel is destroyed only  *)
(* when it is empty.  Channels adds to that what removing one member, or one  *)
(* channel, needs (a name occurs once in the list and a descriptor once in an *)
(* array) and what QUIT needs to leave the channel (its LEAVE serves clients  *)
(* with a nickname only).                                                   *)

NoDangling == \A f \in Fds, g \in GroupNames : At(clients, f, g) => In(groups, f, g)
NoStale    == \A f \in Fds, g \in GroupNames : In(groups, f, g) => At(clients, f, g)
InsidersNamed == \A f \in Fds, g \in GroupNames : At(clients, f, g) => Knows(clients, f)

Channels == Connections /\ WellFormed(groups) /\ NoDangling /\ InsidersNamed

(* What a step keeps: the last conjunct needs that no nickname fills its     *)
(* array.                                                                   *)
ChannelsKept ==
  /\ WellFormed(groups') /\ NoDangling' /\ InsidersNamed'
  /\ EdgeNicks = {} /\ NoStale => NoStale'

LEMMA NoDanglingMeaning ==
  TypeOK /\ WellFormed(groups) => (NoDanglingChannel <=> NoDangling)
<1> SUFFICES ASSUME TypeOK, WellFormed(groups)
             PROVE  NoDanglingChannel <=> NoDangling
  OBVIOUS
<1>1. \A k \in DOMAIN clients : /\ clients[k].fd \in Fds
                                /\ clients[k].group \in GroupNames \cup {NoGroup}
  <2>1. \A k \in DOMAIN clients : clients[k] \in Client(Fds)
    BY LenProperties, ElementOfSeq DEF TypeOK
  <2>2. QED BY <2>1 DEF Client
<1>2. \A f \in Fds, g \in GroupNames : InGroup(groups, f, g) <=> In(groups, f, g)
  BY InGroupMeaning, NotADescriptor DEF TypeOK, WellFormed
<1>3. QED BY <1>1, <1>2, NamesAssumption DEF NoDanglingChannel, NoDangling, At

LEMMA NoStaleMeaning == TypeOK => (NoStaleMember <=> NoStale)
<1> SUFFICES ASSUME TypeOK PROVE NoStaleMember <=> NoStale
  OBVIOUS
<1>1. \A k \in DOMAIN groups : groups[k] \in Group(GroupNames, Fds)
  BY LenProperties, ElementOfSeq DEF TypeOK
<1>2. \A k \in DOMAIN groups : /\ groups[k].name \in GroupNames
                               /\ members(groups[k].fd) \subseteq Fds
  BY <1>1 DEF Group, members
<1>3. NoStaleMember => NoStale
  BY DEF NoStaleMember, NoStale, In, At
<1>4. NoStale => NoStaleMember
  <2> SUFFICES ASSUME NoStale, NEW k \in DOMAIN groups, NEW f \in members(groups[k].fd)
               PROVE  At(clients, f, groups[k].name)
    BY DEF NoStaleMember, At
  <2>1. In(groups, f, groups[k].name)
    BY DEF In
  <2>2. QED BY <1>2, <2>1 DEF NoStale
<1>5. QED BY <1>3, <1>4

(* After fd has left g, the others are where they were. *)
LEMMA LeftIn ==
  ASSUME groups \in Seq(Group(GroupNames, Fds)), WellFormed(groups),
         NEW fd \in Fds, NEW g, InGroup(groups, fd, g)
  PROVE  /\ WellFormed(Left(fd, g))
         /\ \A f \in Fds : \A h : In(Left(fd, g), f, h) <=>
                                In(groups, f, h) /\ ~(f = fd /\ h = g)
<1> DEFINE rest == remove_client_in_group(groups, fd, g)
           k == get_group_by_name(groups, g)
           m == get_group_by_name(rest, g)
<1>1. /\ rest \in Seq(Group(GroupNames, Fds))
      /\ k \in DOMAIN groups /\ DOMAIN rest = DOMAIN groups
      /\ \A j \in DOMAIN groups : j # k => rest[j] = groups[j]
      /\ rest[k].name = groups[k].name
      /\ members(rest[k].fd) = members(groups[k].fd) \ {fd}
      /\ OneCellEach(rest[k].fd)
  BY DropMember, NotADescriptor DEF WellFormed
<1>2. groups[k].name = g /\ DOMAIN groups = 1 .. Len(groups) /\ Len(groups) \in Nat
  BY <1>1, GroupByName, LenProperties
<1> HIDE DEF rest, k
<1>3. WellFormed(rest)
  BY <1>1 DEF WellFormed, OneGroupEach
<1>4. \A f, h : In(rest, f, h) <=> In(groups, f, h) /\ ~(f = fd /\ h = g)
  BY <1>1, <1>2, <1>3 DEF In, WellFormed, OneGroupEach
<1>5. DOMAIN rest = 1 .. Len(rest)
  BY <1>1, LenProperties
<1>6. group_exist(rest, g) /\ m = k
  BY <1>1, <1>2, <1>3, <1>5, GroupByName DEF group_exist, WellFormed, OneGroupEach
<1>7. Left(fd, g) = IF group_is_empty(rest[k].fd) THEN remove_group(rest, g) ELSE rest
  BY <1>6 DEF Left, rest
<1>8. CASE group_is_empty(rest[k].fd)
  <2> DEFINE r == remove_group(rest, g)
  <2>1. members(rest[k].fd) = {}
    BY <1>8 DEF group_is_empty, members
  <2>2. /\ OneGroupEach(r)
        /\ \A j \in DOMAIN r : r[j].name # g /\ \E l \in DOMAIN rest : r[j] = rest[l]
        /\ \A l \in DOMAIN rest : rest[l].name # g => \E j \in DOMAIN r : r[j] = rest[l]
    BY <1>1, <1>3, <1>6, RemoveGroup DEF WellFormed
  <2>3. \A f : ~In(rest, f, g)
    BY <1>1, <1>2, <1>3, <2>1 DEF In, WellFormed, OneGroupEach
  <2> HIDE DEF r
  <2>4. WellFormed(r)
    BY <1>3, <2>2 DEF WellFormed
  <2>5. \A f, h : In(r, f, h) <=> In(rest, f, h)
    <3> TAKE f, h
    <3>1. In(r, f, h) => In(rest, f, h)
      BY <2>2 DEF In
    <3>2. In(rest, f, h) => In(r, f, h)
      BY <2>2, <2>3 DEF In
    <3>3. QED BY <3>1, <3>2
  <2>6. QED BY <1>4, <1>7, <1>8, <2>4, <2>5 DEF r
<1>9. CASE ~group_is_empty(rest[k].fd)
  BY <1>3, <1>4, <1>7, <1>9
<1>10. QED BY <1>8, <1>9

LEMMA ListTypes ==
  ASSUME Connections
  PROVE  /\ clients \in Seq(Client(Fds)) /\ OneRecordEach(clients)
         /\ groups \in Seq(Group(GroupNames, Fds))
BY DEF Connections, TypeOK, TablesAgree, OneRecordEach

(* At and Knows, of the client that speaks. *)
LEMMA SpeakerAt ==
  ASSUME Connections, NEW i \in Slots, i \in ready
  PROVE  /\ \E k \in DOMAIN clients : clients[k].fd = fds[i]
         /\ \A g : At(clients, fds[i], g) <=> Speaker(i).group = g
         /\ Knows(clients, fds[i]) <=> Speaker(i).hasNick
         /\ Speaker(i).group \in GroupNames \cup {NoGroup}
<1> DEFINE k == get_client_by_fd(clients, fds[i])
<1>1. k \in DOMAIN clients /\ clients[k].fd = fds[i] /\ Speaker(i) = clients[k]
  BY SpeakerKnown DEF Speaker
<1>2. OneRecordEach(clients)
  BY ListTypes
<1>3. Speaker(i).group \in GroupNames \cup {NoGroup}
  BY SpeakerKnown DEF Client
<1> HIDE DEF k
<1>4. QED BY <1>1, <1>2, <1>3 DEF At, Knows, OneRecordEach

LEMMA UnchangedChannels ==
  ASSUME Channels, UNCHANGED <<clients, groups>>
  PROVE  ChannelsKept
BY DEF Channels, ChannelsKept, NoDangling, InsidersNamed, NoStale

LEMMA AcceptChannels ==
  ASSUME Channels, Accept
  PROVE  ChannelsKept
<1>1. PICK fd \in Fds : clients' = add_client_to_list(clients, fd)
  BY DEF Accept
<1>2. groups' = groups
  BY DEF Accept
<1>3. \A f \in Fds, g \in GroupNames : /\ At(clients', f, g) <=> At(clients, f, g)
                                       /\ Knows(clients, f) => Knows(clients', f)
  BY <1>1, ListTypes, AddClientAt, NamesAssumption DEF Channels
<1>4. QED BY <1>2, <1>3 DEF Channels, ChannelsKept, NoDangling, InsidersNamed, NoStale

LEMMA NICKChannels ==
  ASSUME Channels, NEW i \in Slots, NEW n \in Nicks, NICK(i, n)
  PROVE  ChannelsKept
<1>1. UNCHANGED groups
  BY DEF NICK
<1>2. CASE UNCHANGED clients
  BY <1>1, <1>2, UnchangedChannels
<1>3. CASE clients' = set_nick(clients, fds[i], n)
  <2>1. \A f \in Fds, g \in GroupNames :
          /\ At(clients', f, g) => At(clients, f, g)
          /\ EdgeNicks = {} => (At(clients, f, g) => At(clients', f, g))
          /\ Knows(clients, f) => Knows(clients', f)
    BY <1>3, ListTypes, SetNickAt DEF Channels
  <2>2. QED BY <1>1, <2>1 DEF Channels, ChannelsKept, NoDangling, InsidersNamed, NoStale
<1>4. QED BY <1>2, <1>3 DEF NICK

LEMMA CREATEChannels ==
  ASSUME Channels, NEW i \in Slots, NEW g \in GroupNames, CREATE(i, g)
  PROVE  ChannelsKept
<1>1. UNCHANGED clients /\ groups' = create_group(groups, g)
  BY DEF CREATE
<1>2. /\ WellFormed(groups')
      /\ \A f, h : In(groups', f, h) <=> In(groups, f, h)
  BY <1>1, ListTypes, CreateGroupIn DEF Channels
<1>3. QED BY <1>1, <1>2 DEF Channels, ChannelsKept, NoDangling, InsidersNamed, NoStale

(* The client that joins was in no channel: so, when arrays and records      *)
(* agree, it was in no array and is now in one.                             *)
LEMMA JOINChannels ==
  ASSUME Channels, NEW i \in Slots, NEW g \in GroupNames, JOIN(i, g)
  PROVE  ChannelsKept
<1> DEFINE fd == fds[i]
           res == JoinResult(groups, fd, g)
<1>1. i \in ready /\ Speaker(i).hasNick
  BY DEF JOIN, Command, Line, Served, Reaches
<1>2. fd \in Fds
  BY <1>1, SpeakerKnown DEF Channels
<1>3. CASE UNCHANGED <<clients, groups>>
  BY <1>3, UnchangedChannels
<1>4. CASE /\ Speaker(i).group = NoGroup
           /\ groups' = add_client_in_group(groups, fd, g)
           /\ clients' = IF res \in {0, -3} THEN change_group(clients, g, fd) ELSE clients
  <2>1. /\ WellFormed(groups')
        /\ \A f, h : In(groups', f, h) <=> In(groups, f, h) \/ (res = 0 /\ f = fd /\ h = g)
        /\ res = -3 => In(groups, fd, g)
    BY <1>2, <1>4, ListTypes, AddMemberIn, NotADescriptor DEF Channels
  <2>2. Knows(clients, fd) /\ \A h \in GroupNames : ~At(clients, fd, h)
    BY <1>1, <1>4, SpeakerAt, NamesAssumption DEF Channels
  <2>3. CASE res \in {0, -3}
    <3>1. \A f, h : /\ At(clients', f, h) <=> IF f = fd THEN h = g ELSE At(clients, f, h)
                    /\ Knows(clients', f) <=> Knows(clients, f)
      <4>1. clients' = change_group(clients, g, fd)
        BY <1>4, <2>3
      <4>2. QED BY <1>1, <4>1, ListTypes, SpeakerAt, ChangeGroupAt DEF Channels
    <3> HIDE DEF fd, res
    <3>2. NoDangling'
      BY <2>1, <2>3, <3>1 DEF Channels, NoDangling
    <3>3. InsidersNamed'
      BY <2>2, <3>1 DEF Channels, InsidersNamed
    <3>4. NoStale => NoStale'
      BY <1>2, <2>1, <2>2, <3>1 DEF NoStale
    <3>5. QED BY <2>1, <3>2, <3>3, <3>4 DEF ChannelsKept
  <2>4. CASE res \notin {0, -3}
    <3>1. clients' = clients /\ \A f, h : In(groups', f, h) <=> In(groups, f, h)
      BY <1>4, <2>1, <2>4
    <3>2. QED BY <2>1, <3>1 DEF Channels, ChannelsKept, NoDangling, InsidersNamed, NoStale
  <2>5. QED BY <2>3, <2>4
<1>5. QED BY <1>3, <1>4 DEF JOIN

(* The client that leaves a channel may have named another one than its own:  *)
(* when arrays and records agree, it is in no other.                        *)
LEMMA LEAVEChannels ==
  ASSUME Channels, NEW i \in Slots, NEW g \in GroupNames, LEAVE(i, g)
  PROVE  ChannelsKept
<1> DEFINE fd == fds[i]
<1>1. i \in ready /\ Speaker(i).hasNick
  BY DEF LEAVE, Command, Line, Served, Reaches
<1>2. fd \in Fds
  BY <1>1, SpeakerKnown DEF Channels
<1>3. CASE UNCHANGED <<clients, groups>>
  BY <1>3, UnchangedChannels
<1>4. CASE /\ InGroup(groups, fd, g)
           /\ groups' = Left(fd, g)
           /\ clients' = change_group(clients, NoGroup, fd)
  <2>1. /\ WellFormed(groups')
        /\ \A f \in Fds : \A h : In(groups', f, h) <=> In(groups, f, h) /\ ~(f = fd /\ h = g)
    BY <1>2, <1>4, ListTypes, LeftIn DEF Channels
  <2>2. \A f, h : /\ At(clients', f, h) <=> IF f = fd THEN h = NoGroup ELSE At(clients, f, h)
                  /\ Knows(clients', f) <=> Knows(clients, f)
    BY <1>1, <1>4, ListTypes, SpeakerAt, ChangeGroupAt DEF Channels
  <2>3. In(groups, fd, g)
    BY <1>2, <1>4, ListTypes, InGroupMeaning, NotADescriptor DEF Channels, WellFormed
  <2>4. \A h, hh \in GroupNames : At(clients, fd, h) /\ At(clients, fd, hh) => h = hh
    BY <1>1, SpeakerAt DEF Channels
  <2> HIDE DEF fd
  <2>5. NoDangling'
    BY <2>1, <2>2, NamesAssumption DEF Channels, NoDangling
  <2>6. InsidersNamed'
    BY <2>2, NamesAssumption DEF Channels, InsidersNamed
  <2>7. NoStale => NoStale'
    BY <1>2, <2>1, <2>2, <2>3, <2>4 DEF NoStale
  <2>8. QED BY <2>1, <2>5, <2>6, <2>7 DEF ChannelsKept
<1>5. QED BY <1>3, <1>4 DEF LEAVE

(* The client that quits leaves the channel it believes it is in. *)
LEMMA QUITChannels ==
  ASSUME Channels, NEW i \in Slots, QUIT(i)
  PROVE  ChannelsKept
<1> DEFINE fd == fds[i]
           c == Speaker(i)
           leaves == c.group # NoGroup /\ c.hasNick /\ InGroup(groups, fd, c.group)
<1>1. i \in ready
  BY DEF QUIT, Served, Reaches
<1>2. fd \in Fds
  BY <1>1, SpeakerKnown DEF Channels
<1>3. /\ groups' = IF leaves THEN Left(fd, c.group) ELSE groups
      /\ clients' = remove_client(clients, fd)
  BY DEF QUIT, QuitChannels
<1>4. /\ WellFormed(groups')
      /\ \A f \in Fds : \A h : In(groups', f, h) <=>
           In(groups, f, h) /\ ~(leaves /\ f = fd /\ h = c.group)
  <2>1. CASE leaves
    BY <1>2, <1>3, <2>1, ListTypes, LeftIn DEF Channels
  <2>2. CASE ~leaves
    BY <1>3, <2>2 DEF Channels
  <2>3. QED BY <2>1, <2>2
<1>5. \A f, h : /\ At(clients', f, h) <=> f # fd /\ At(clients, f, h)
                /\ f # fd => (Knows(clients, f) => Knows(clients', f))
  BY <1>3, ListTypes, RemoveClientAt DEF Channels
<1>6. \A h : At(clients, fd, h) <=> c.group = h
  BY <1>1, SpeakerAt DEF Channels
<1>7. \A h \in GroupNames : At(clients, fd, h) => leaves
  <2> SUFFICES ASSUME NEW h \in GroupNames, At(clients, fd, h) PROVE leaves
    OBVIOUS
  <2>1. c.group = h /\ h # NoGroup
    BY <1>6, NamesAssumption
  <2>2. c.hasNick
    BY <1>1, <1>2, SpeakerAt DEF Channels, InsidersNamed
  <2>3. InGroup(groups, fd, h)
    BY <1>2, ListTypes, InGroupMeaning, NotADescriptor DEF Channels, NoDangling, WellFormed
  <2>4. QED BY <2>1, <2>2, <2>3
<1> HIDE DEF fd, c, leaves
<1>8. NoDangling'
  BY <1>4, <1>5 DEF Channels, NoDangling
<1>9. InsidersNamed'
  BY <1>5 DEF Channels, InsidersNamed
<1>10. NoStale => NoStale'
  <2> SUFFICES ASSUME NoStale, NEW f \in Fds, NEW g \in GroupNames, In(groups', f, g)
               PROVE  At(clients', f, g)
    BY DEF NoStale
  <2>1. In(groups, f, g) /\ At(clients, f, g)
    BY <1>4 DEF NoStale
  <2>2. f # fd
    BY <1>2, <1>4, <1>6, <1>7, <2>1
  <2>3. QED BY <1>5, <2>1, <2>2
<1>11. QED BY <1>4, <1>8, <1>9, <1>10 DEF ChannelsKept

LEMMA ChannelsInit == Init => Channels /\ NoStale
<1> SUFFICES ASSUME Init PROVE Channels /\ NoStale
  OBVIOUS
<1>1. Connections
  BY ConnectionsInit
<1>2. clients = <<>> /\ groups = <<>>
  BY DEF Init
<1>3. QED BY <1>1, <1>2 DEF Channels, WellFormed, OneGroupEach, NoDangling,
                            InsidersNamed, NoStale, At, In

LEMMA ChannelsStep == Channels /\ [Next]_vars => ChannelsKept
<1> SUFFICES ASSUME Channels, [Next]_vars PROVE ChannelsKept
  OBVIOUS
<1>1. CASE Poll \/ Stdin \/ Refuse \/ Peers \/ Halted \/ \E i \in Slots : Fault(i)
  <2>1. UNCHANGED <<clients, groups>>
    BY <1>1 DEF Poll, Stdin, Refuse, Peers, PeerWrites, PeerEnds, ResetArrives,
                Halted, Fault, table, vars
  <2>2. QED BY <2>1, UnchangedChannels
<1>2. CASE Accept
  BY <1>2, AcceptChannels
<1>3. ASSUME NEW i \in Slots, Answers(i) PROVE ChannelsKept
  BY <1>3, AnswersStep, UnchangedChannels DEF Channels, Connections
<1>4. ASSUME NEW i \in Slots, QUIT(i) PROVE ChannelsKept
  BY <1>4, QUITChannels
<1>5. ASSUME NEW i \in Slots, NEW n \in Nicks, NICK(i, n) PROVE ChannelsKept
  BY <1>5, NICKChannels
<1>6. ASSUME NEW i \in Slots, NEW g \in GroupNames, CREATE(i, g) PROVE ChannelsKept
  BY <1>6, CREATEChannels
<1>7. ASSUME NEW i \in Slots, NEW g \in GroupNames, JOIN(i, g) PROVE ChannelsKept
  BY <1>7, JOINChannels
<1>8. ASSUME NEW i \in Slots, NEW g \in GroupNames, LEAVE(i, g) PROVE ChannelsKept
  BY <1>8, LEAVEChannels
<1>9. CASE UNCHANGED vars
  BY <1>9, UnchangedChannels DEF vars, table
<1>10. QED
  BY <1>1, <1>2, <1>3, <1>4, <1>5, <1>6, <1>7, <1>8, <1>9
     DEF Next, Loop, Serve, Answers

LEMMA ChannelsInvariant == Spec => []Channels
<1>1. Channels /\ [Next]_vars => Channels'
  BY ChannelsStep, ConnectionsStep DEF Channels, ChannelsKept
<1>2. QED BY <1>1, ChannelsInit, PTL DEF Spec

(* Whatever nicknames there are, a client that believes it is in a channel is *)
(* in its array: pop_of_group and write_in_group never meet a channel that is *)
(* gone.                                                                    *)
THEOREM ChannelsNeverDangle == Spec => []NoDanglingChannel
<1>1. Channels => NoDanglingChannel
  BY NoDanglingMeaning DEF Channels, Connections
<1>2. QED BY <1>1, ChannelsInvariant, PTL

(* When no nickname fills its array, arrays hold members only: a descriptor   *)
(* that is closed, and given to somebody else, is in none.                  *)
Memberships == Channels /\ NoStale

LEMMA MembershipsInvariant ==
  ASSUME EdgeNicks = {}
  PROVE  Spec => []Memberships
<1>1. Init => Memberships
  BY ChannelsInit DEF Memberships
<1>2. Memberships /\ [Next]_vars => Memberships'
  BY ChannelsStep, ConnectionsStep DEF Memberships, Channels, ChannelsKept
<1>3. QED BY <1>1, <1>2, PTL DEF Spec

THEOREM MembersAreCurrent ==
  ASSUME EdgeNicks = {}
  PROVE  Spec => []NoStaleMember
<1>1. Memberships => NoStaleMember
  BY NoStaleMeaning DEF Memberships, Channels, Connections
<1>2. QED BY <1>1, MembershipsInvariant, PTL

(* A line said in a channel reaches exactly the clients that believe they are *)
(* in it.                                                                   *)
THEOREM RelayIsExact ==
  ASSUME EdgeNicks = {}
  PROVE  Spec => []RelayReachesChannel
<1>1. Memberships => RelayReachesChannel
  <2> SUFFICES ASSUME Memberships, NEW k \in DOMAIN clients,
                      clients[k].group # NoGroup
               PROVE  write_in_group(groups, clients[k].group, clients[k].fd)
                        = Inside(clients[k].group) \ {clients[k].fd}
    BY DEF RelayReachesChannel
  <2> DEFINE g == clients[k].group
             j == get_group_by_name(groups, g)
  <2>1. clients[k].fd \in Fds /\ g \in GroupNames
    <3>1. clients[k] \in Client(Fds)
      BY ListTypes, LenProperties, ElementOfSeq DEF Memberships, Channels
    <3>2. QED BY <3>1 DEF Client
  <2>2. InGroup(groups, clients[k].fd, g)
    BY <2>1, ListTypes, InGroupMeaning, NotADescriptor
       DEF Memberships, Channels, NoDangling, WellFormed, At
  <2>3. j \in DOMAIN groups /\ groups[j].name = g
    BY <2>2, ListTypes, GroupByName, LenProperties
       DEF InGroup, group_exist, Memberships, Channels
  <2>4. groups[j] \in Group(GroupNames, Fds)
    BY <2>3, ListTypes, LenProperties, ElementOfSeq DEF Memberships, Channels
  <2>5. members(groups[j].fd) \subseteq Fds
    BY <2>4 DEF Group, members
  <2>6. Inside(g) \subseteq Fds
    <3>1. \A l \in DOMAIN clients : clients[l] \in Client(Fds)
      BY ListTypes, LenProperties, ElementOfSeq DEF Memberships, Channels
    <3>2. QED BY <3>1 DEF Inside, Client
  <2> HIDE DEF g, j
  <2>7. \A f \in Fds : f \in members(groups[j].fd) <=> In(groups, f, g)
    BY <2>3 DEF In, Memberships, Channels, WellFormed, OneGroupEach
  <2>8. \A f \in Fds : f \in Inside(g) <=> At(clients, f, g)
    BY DEF Inside, At
  <2>9. \A f \in Fds : In(groups, f, g) <=> At(clients, f, g)
    BY <2>1 DEF Memberships, Channels, NoDangling, NoStale, g
  <2>10. members(groups[j].fd) = Inside(g)
    BY <2>5, <2>6, <2>7, <2>8, <2>9
  <2>11. QED BY <2>10 DEF write_in_group, g, j
<1>2. QED BY <1>1, MembershipsInvariant, PTL
-----------------------------------------------------------------------------
(* Every write goes to an open descriptor, so the only ends of the process    *)
(* are the operator's, a peer's departure and the overwritten pointer.       *)

Alive == {f \in Fds : peer[f] # "closed"}

LEMMA WriteToAlive ==
  ASSUME NEW ts, ts \subseteq Alive, Write(ts)
  PROVE  status' # "fatal"
BY DEF Write, Alive

LEMMA ListedAlive ==
  ASSUME Connections
  PROVE  /\ get_fd_client(clients) \subseteq Alive
         /\ \A n : Named(n) \subseteq Alive
<1>1. get_fd_client(clients) = Alive
  BY DEF Connections, TablesAgree, Alive
<1>2. ASSUME NEW n PROVE Named(n) \subseteq get_fd_client(clients)
  <2> DEFINE I == {k \in 1 .. Len(clients) :
                     clients[k].hasNick /\ Nickname(clients[k]) = n}
  <2>1. get_client_by_nick(clients, n) = IF I # {} THEN Min(I) ELSE 0
    BY DEF get_client_by_nick, SelectInSeq
  <2>2. DOMAIN clients = 1 .. Len(clients) /\ Len(clients) \in Nat
    BY ListTypes, LenProperties
  <2>3. I # {} => Min(I) \in I
    <3>1. I \subseteq Nat
      BY <2>2
    <3> HIDE DEF I
    <3>2. QED BY <3>1, MinIsLeast
  <2> HIDE DEF I
  <2>4. get_client_by_nick(clients, n) \in DOMAIN clients \/ get_client_by_nick(clients, n) = 0
    BY <2>1, <2>2, <2>3 DEF I
  <2>5. QED BY <2>4 DEF Named, get_fd_client
<1>3. QED BY <1>1, <1>2

LEMMA MembersAlive ==
  ASSUME Memberships, NEW g, group_exist(groups, g)
  PROVE  members(groups[get_group_by_name(groups, g)].fd) \subseteq Alive
<1> DEFINE j == get_group_by_name(groups, g)
<1>1. j \in DOMAIN groups /\ groups[j].name = g
  BY ListTypes, GroupByName, LenProperties DEF group_exist, Memberships, Channels
<1>2. groups[j] \in Group(GroupNames, Fds)
  BY <1>1, ListTypes, LenProperties, ElementOfSeq DEF Memberships, Channels
<1> HIDE DEF j
<1>3. g \in GroupNames /\ members(groups[j].fd) \subseteq Fds
  BY <1>1, <1>2 DEF Group, members
<1>4. \A f \in members(groups[j].fd) : f \in get_fd_client(clients)
  BY <1>1, <1>3 DEF Memberships, NoStale, In, At, get_fd_client
<1>5. QED BY <1>4, ListedAlive DEF Memberships, Channels, j

(* The handlers that write to others. *)
LEMMA RelaysNotFatal ==
  ASSUME Memberships, NEW i \in Slots,
         MSG(i) \/ MSGALL(i)
           \/ \E n \in Nicks : MSGW(i, n) \/ SEND(i, n) \/ FTREQ(i, n) \/ CONN_INFO(i, n)
  PROVE  status' # "fatal"
<1> DEFINE g == Speaker(i).group
<1>1. i \in ready
  BY DEF MSG, MSGALL, MSGW, SEND, FTREQ, CONN_INFO, Command, Line, Served, Reaches
<1>2. fds[i] \in Alive
  BY <1>1, SpeakerKnown DEF Alive, Memberships, Channels
<1>3. CASE MSG(i)
  <2>1. g = NoGroup \/ group_exist(groups, g)
    <3>1. g # NoGroup => At(clients, fds[i], g) /\ g \in GroupNames
      BY <1>1, SpeakerAt DEF Memberships, Channels
    <3>2. g # NoGroup => InGroup(groups, fds[i], g)
      BY <1>2, <3>1, ListTypes, InGroupMeaning, NotADescriptor
         DEF Memberships, Channels, NoDangling, WellFormed, Alive
    <3>3. QED BY <3>2 DEF InGroup
  <2>2. g # NoGroup => write_in_group(groups, g, fds[i]) \subseteq Alive
    BY <2>1, MembersAlive DEF write_in_group
  <2>3. PICK ts : Write(ts) /\ ts \subseteq {fds[i]} \cup
                     (IF g = NoGroup THEN {} ELSE write_in_group(groups, g, fds[i]))
    BY <1>3, <2>1 DEF MSG
  <2>4. ts \subseteq Alive
    BY <1>2, <2>2, <2>3
  <2>5. QED BY <2>3, <2>4, WriteToAlive
<1>4. CASE ~MSG(i)
  <2>1. PICK ts : Write(ts) /\ ts \subseteq {fds[i]} \cup get_fd_client(clients)
                                            \cup UNION {Named(n) : n \in Nicks}
    BY <1>4 DEF MSGALL, MSGW, SEND, FTREQ, CONN_INFO
  <2>2. ts \subseteq Alive
    BY <1>2, <2>1, ListedAlive DEF Memberships, Channels
  <2>3. QED BY <2>1, <2>2, WriteToAlive
<1>5. QED BY <1>3, <1>4

(* The server never finds its own tables in disagreement. *)
THEOREM TablesNeverFatal ==
  ASSUME EdgeNicks = {}
  PROVE  Spec => []NeverFatal
<1>1. Init => NeverFatal
  BY DEF Init, NeverFatal
<1>2. Memberships /\ NeverFatal /\ [Next]_vars => NeverFatal'
  <2> SUFFICES ASSUME Memberships, status # "fatal", [Next]_vars
               PROVE  status' # "fatal"
    BY DEF NeverFatal
  <2>1. ASSUME NEW i \in Slots, i \in ready, Write({fds[i]}) \/ Write({})
        PROVE  status' # "fatal"
    <3>1. fds[i] \in Alive
      BY <2>1, SpeakerKnown DEF Alive, Memberships, Channels
    <3>2. QED BY <2>1, <3>1, WriteToAlive
  <2>2. CASE Loop
    <3>1. CASE Poll \/ Stdin \/ Accept \/ Refuse \/ \E i \in Slots : Fault(i) \/ QUIT(i)
      BY <3>1 DEF Poll, Stdin, Accept, Refuse, Fault, QUIT
    <3>2. ASSUME NEW i \in Slots,
                 \/ LoginFirst(i) \/ GROUP(i) \/ WHO(i) \/ WHOIS(i) \/ HELP(i)
                 \/ FTSUCCESS(i)
                 \/ \E n \in Nicks : NICK(i, n)
                 \/ \E g \in GroupNames : CREATE(i, g) \/ JOIN(i, g) \/ LEAVE(i, g)
          PROVE  status' # "fatal"
      <4>1. i \in ready /\ (Write({fds[i]}) \/ Write({}))
        BY <3>2 DEF LoginFirst, GROUP, WHO, WHOIS, HELP, FTSUCCESS, NICK, CREATE,
                    JOIN, LEAVE, Answer, Command, Line, Served, Reaches
      <4>2. QED BY <2>1, <4>1
    <3>3. ASSUME NEW i \in Slots,
                 MSG(i) \/ MSGALL(i) \/ \E n \in Nicks :
                   MSGW(i, n) \/ SEND(i, n) \/ FTREQ(i, n) \/ CONN_INFO(i, n)
          PROVE  status' # "fatal"
      BY <3>3, RelaysNotFatal
    <3>4. QED BY <2>2, <3>1, <3>2, <3>3 DEF Loop, Serve
  <2>3. CASE Peers \/ Halted \/ UNCHANGED vars
    BY <2>3 DEF Peers, PeerWrites, PeerEnds, ResetArrives, Halted, vars
  <2>4. QED BY <2>2, <2>3 DEF Next
<1>3. QED BY <1>1, <1>2, MembershipsInvariant, PTL DEF Spec
-----------------------------------------------------------------------------
(* The limits: arrays that have room for everyone, nicknames that are taken     *)
(* once, and what can end the process.                                       *)

(* No more descriptors are open than there are slots to poll them.          *)
LEMMA OpenFit ==
  ASSUME Connections, NEW n \in Nat, NEW h \in [1 .. n -> Fds],
         \A j \in 1 .. n : peer[h[j]] # "closed",
         \A j, k \in 1 .. n : h[j] = h[k] => j = k
  PROVE  n <= MAX_CL
<1> DEFINE slot == [j \in 1 .. n |-> CHOOSE i \in Slots : fds[i] = h[j]]
<1>1. \A j \in 1 .. n : \E i \in Slots : fds[i] = h[j]
  BY AgreementIsTablesAgree DEF Connections, Agreement
<1>2. \A j \in 1 .. n : slot[j] \in Slots /\ fds[slot[j]] = h[j]
  BY <1>1
<1> HIDE DEF slot
<1>3. slot \in Injection(1 .. n, Slots)
  <2>1. slot \in [1 .. n -> Slots]
    BY <1>2 DEF slot
  <2>2. IsInjective(slot)
    BY <1>2, <2>1 DEF IsInjective
  <2>3. QED BY <2>1, <2>2 DEF Injection
<1>4. IsFiniteSet(Slots) /\ Cardinality(Slots) = MAX_CL
  BY FS_Interval, MaxClAssumption DEF Slots
<1>5. Cardinality(1 .. n) = n
  BY FS_Interval
<1>6. Cardinality(1 .. n) <= Cardinality(Slots)
  BY <1>3, <1>4, FS_Injection
<1>7. QED BY <1>4, <1>5, <1>6

(* The list of clients is never longer than the array MSGALL copies it to. *)
THEOREM ClientsFit == Spec => []SockTabFits
<1>1. Connections => SockTabFits
  <2> SUFFICES ASSUME Connections PROVE Len(clients) <= MAX_CL
    BY DEF SockTabFits
  <2> DEFINE h == [k \in 1 .. Len(clients) |-> clients[k].fd]
  <2>1. Len(clients) \in Nat /\ DOMAIN clients = 1 .. Len(clients)
    BY ListTypes, LenProperties
  <2>2. \A k \in 1 .. Len(clients) : clients[k].fd \in get_fd_client(clients)
    BY <2>1 DEF get_fd_client
  <2>3. \A k \in 1 .. Len(clients) :
          clients[k].fd \in Fds /\ peer[clients[k].fd] # "closed"
    BY <2>2 DEF Connections, TablesAgree
  <2>4. h \in [1 .. Len(clients) -> Fds]
    BY <2>3
  <2>5. \A j, k \in 1 .. Len(clients) : h[j] = h[k] => j = k
    BY <2>1, ListTypes DEF OneRecordEach
  <2>6. \A j \in 1 .. Len(clients) : peer[h[j]] # "closed"
    BY <2>3
  <2> HIDE DEF h
  <2>7. QED BY <2>1, <2>4, <2>5, <2>6, OpenFit
<1>2. QED BY <1>1, ConnectionsInvariant, PTL

(* A client in no channel finds a free cell in each: were the array full of   *)
(* members, they and the client would be one more than there are slots.      *)
LEMMA CellForNewcomer ==
  ASSUME Memberships, NEW fd \in Fds, peer[fd] # "closed",
         NEW j \in DOMAIN groups, ~In(groups, fd, groups[j].name)
  PROVE  fd_in_tab(groups[j].fd, -1) # -1
<1> DEFINE tab == groups[j].fd
<1> SUFFICES ASSUME fd_in_tab(tab, -1) = -1 PROVE FALSE
  OBVIOUS
<1>1. groups[j] \in Group(GroupNames, Fds)
  BY ListTypes, LenProperties, ElementOfSeq DEF Memberships, Channels
<1>2. tab \in [Cells -> Fds \cup {-1}] /\ groups[j].name \in GroupNames
  BY <1>1 DEF Group
<1>3. \A c \in Cells : tab[c] # -1
  BY FdInTab
<1>4. \A c \in Cells : tab[c] \in Fds /\ In(groups, tab[c], groups[j].name)
  BY <1>2, <1>3 DEF In, members
<1>5. \A c \in Cells : peer[tab[c]] # "closed"
  <2>1. \A c \in Cells : At(clients, tab[c], groups[j].name)
    BY <1>2, <1>4 DEF Memberships, NoStale
  <2>2. Agreement
    BY AgreementIsTablesAgree DEF Memberships, Channels, Connections
  <2>3. QED BY <1>4, <2>1, <2>2 DEF Agreement, At
<1>6. OneCellEach(tab)
  BY DEF Memberships, Channels, WellFormed
<1>7. MAX_CL \in Nat /\ Cells = 0 .. MAX_CL - 1
  BY MaxClAssumption DEF Cells
<1> DEFINE h == [c \in 1 .. MAX_CL + 1 |-> IF c = MAX_CL + 1 THEN fd ELSE tab[c - 1]]
<1>8. \A c \in 1 .. MAX_CL : c - 1 \in Cells
  BY <1>7
<1>9. \A c \in Cells : tab[c] # fd
  BY <1>4
<1> HIDE DEF tab
<1>10. \A c \in 1 .. MAX_CL + 1 : h[c] \in Fds /\ peer[h[c]] # "closed"
  BY <1>4, <1>5, <1>7, <1>8
<1>11. \A c, d \in 1 .. MAX_CL + 1 : h[c] = h[d] => c = d
  <2> SUFFICES ASSUME NEW c \in 1 .. MAX_CL + 1, NEW d \in 1 .. MAX_CL + 1, h[c] = h[d]
               PROVE  c = d
    OBVIOUS
  <2>1. CASE c = MAX_CL + 1 \/ d = MAX_CL + 1
    BY <1>7, <1>8, <1>9, <2>1
  <2>2. CASE c # MAX_CL + 1 /\ d # MAX_CL + 1
    <3>1. c - 1 \in Cells /\ d - 1 \in Cells /\ tab[c - 1] = tab[d - 1]
      BY <1>7, <1>8, <2>2
    <3>2. c - 1 = d - 1
      BY <1>3, <1>6, <3>1 DEF OneCellEach, tab
    <3>3. QED BY <1>7, <3>2
  <2>3. QED BY <2>1, <2>2
<1>12. h \in [1 .. MAX_CL + 1 -> Fds]
  BY <1>10
<1> HIDE DEF h
<1>13. MAX_CL + 1 <= MAX_CL
  BY <1>7, <1>10, <1>11, <1>12, OpenFit DEF Memberships, Channels
<1>14. QED BY <1>7, <1>13

(* No client that may join a channel is told that it is full. *)
THEOREM ChannelsHaveRoom ==
  ASSUME EdgeNicks = {}
  PROVE  Spec => []RoomForEveryone
<1>1. Memberships => RoomForEveryone
  <2> SUFFICES ASSUME Memberships, NEW k \in DOMAIN clients, NEW j \in DOMAIN groups,
                      clients[k].group = NoGroup
               PROVE  JoinResult(groups, clients[k].fd, groups[j].name) = 0
    BY DEF RoomForEveryone
  <2> DEFINE fd == clients[k].fd
             g  == groups[j].name
  <2>1. groups \in Seq(Group(GroupNames, Fds)) /\ OneGroupEach(groups)
    BY ListTypes DEF Memberships, Channels, WellFormed
  <2>2. g \in GroupNames
    <3>1. groups[j] \in Group(GroupNames, Fds)
      BY <2>1, LenProperties, ElementOfSeq
    <3>2. QED BY <3>1 DEF Group
  <2>3. fd \in Fds /\ peer[fd] # "closed"
    <3>1. fd \in get_fd_client(clients)
      BY DEF get_fd_client
    <3>2. QED BY <3>1 DEF Memberships, Channels, Connections, TablesAgree
  <2>4. ~At(clients, fd, g)
    <3>1. OneRecordEach(clients)
      BY ListTypes DEF Memberships, Channels
    <3>2. QED BY <2>2, <3>1, NamesAssumption DEF At, OneRecordEach
  <2>5. ~In(groups, fd, g)
    BY <2>2, <2>3, <2>4 DEF Memberships, NoStale
  <2>6. get_group_by_name(groups, g) = j
    BY <2>1, GroupByName, LenProperties DEF OneGroupEach
  <2>7. fd_in_tab(groups[j].fd, fd) = -1
    <3>1. ~InGroup(groups, fd, g)
      BY <2>1, <2>3, <2>5, InGroupMeaning, NotADescriptor
    <3>2. j # 0
      BY <2>1, LenProperties
    <3>3. QED BY <2>6, <3>1, <3>2 DEF InGroup, group_exist
  <2>8. fd_in_tab(groups[j].fd, -1) # -1
    BY <2>3, <2>5, CellForNewcomer
  <2>9. j # 0
    BY <2>1, LenProperties
  <2>10. QED BY <2>6, <2>7, <2>8, <2>9
             DEF JoinResult, group_exist, get_available_fd_index2
<1>2. QED BY <1>1, MembershipsInvariant, PTL
-----------------------------------------------------------------------------
(* The nicknames.  set_nick looks only at clients that have one; the others    *)
(* all have the name they came with, which nobody may choose.               *)

NamesDiffer ==
  \A k, l \in DOMAIN clients :
    clients[k].nickname = clients[l].nickname => k = l \/ clients[k].nickname = Guest

NewcomersAreGuests ==
  \A k \in DOMAIN clients : ~clients[k].hasNick => clients[k].nickname = Guest

NickTable == Connections /\ NamesDiffer /\ NewcomersAreGuests

(* Steps that add no name: each record has the name and mark of an old one.   *)
LEMMA SameNames ==
  ASSUME NickTable,
         NEW old \in [DOMAIN clients' -> DOMAIN clients],
         \A j, k \in DOMAIN clients' : old[j] = old[k] => j = k,
         \A j \in DOMAIN clients' :
           /\ clients'[j].nickname = clients[old[j]].nickname
           /\ clients[old[j]].hasNick => clients'[j].hasNick
  PROVE  NamesDiffer' /\ NewcomersAreGuests'
<1>1. \A j \in DOMAIN clients' : old[j] \in DOMAIN clients
  OBVIOUS
<1>2. NamesDiffer'
  BY <1>1 DEF NickTable, NamesDiffer
<1>3. NewcomersAreGuests'
  BY <1>1 DEF NickTable, NewcomersAreGuests
<1>4. QED BY <1>2, <1>3

LEMMA AcceptNames ==
  ASSUME NickTable, Accept
  PROVE  NamesDiffer' /\ NewcomersAreGuests'
<1>1. PICK fd \in Fds : clients' = add_client_to_list(clients, fd)
  BY DEF Accept
<1>2. clients \in Seq(Client(Fds)) /\ DOMAIN clients = 1 .. Len(clients) /\ Len(clients) \in Nat
  BY ListTypes, LenProperties DEF NickTable
<1>3. /\ clients' \in Seq(Client(Fds)) /\ Len(clients') = Len(clients) + 1
      /\ clients'[1].nickname = Guest
      /\ \A j \in 2 .. Len(clients) + 1 : clients'[j] = clients[j - 1]
  BY <1>1, <1>2, AddClient
<1>4. DOMAIN clients' = 1 .. Len(clients) + 1
  BY <1>3, LenProperties
<1>5. \A j \in DOMAIN clients' :
        \/ j = 1 /\ clients'[j].nickname = Guest
        \/ j - 1 \in DOMAIN clients /\ clients'[j] = clients[j - 1]
  BY <1>2, <1>3, <1>4
<1>6. NamesDiffer'
  <2> SUFFICES ASSUME NEW k \in DOMAIN clients', NEW l \in DOMAIN clients',
                      clients'[k].nickname = clients'[l].nickname,
                      clients'[k].nickname # Guest
               PROVE  k = l
    BY DEF NamesDiffer
  <2>1. /\ k - 1 \in DOMAIN clients /\ clients'[k] = clients[k - 1]
        /\ l - 1 \in DOMAIN clients /\ clients'[l] = clients[l - 1]
    BY <1>5
  <2>2. k - 1 = l - 1
    BY <2>1 DEF NickTable, NamesDiffer
  <2>3. QED BY <1>2, <1>4, <2>2
<1>7. NewcomersAreGuests'
  BY <1>5 DEF NickTable, NewcomersAreGuests
<1>8. QED BY <1>6, <1>7

LEMMA QUITNames ==
  ASSUME NickTable, NEW i \in Slots, QUIT(i)
  PROVE  NamesDiffer' /\ NewcomersAreGuests'
<1> DEFINE k == get_client_by_fd(clients, fds[i])
<1>1. clients' = IF k = 0 THEN clients ELSE RemoveAt(clients, k)
  BY DEF QUIT, remove_client
<1>2. i \in ready
  BY DEF QUIT, Served, Reaches
<1>3. k \in DOMAIN clients
  BY <1>2, SpeakerKnown DEF NickTable
<1>4. clients \in Seq(Client(Fds)) /\ DOMAIN clients = 1 .. Len(clients) /\ Len(clients) \in Nat
  BY ListTypes, LenProperties DEF NickTable
<1> HIDE DEF k
<1>5. clients' = RemoveAt(clients, k) /\ k \in 1 .. Len(clients)
  BY <1>1, <1>3, <1>4
<1>6. PICK old \in [DOMAIN clients' -> DOMAIN clients \ {k}] :
        /\ \A j \in DOMAIN clients' : clients'[j] = clients[old[j]]
        /\ \A j, m \in DOMAIN clients' : old[j] = old[m] => j = m
  BY <1>4, <1>5, RemoveAtElements
<1>7. old \in [DOMAIN clients' -> DOMAIN clients]
  BY <1>6
<1>8. QED BY <1>6, <1>7, SameNames

LEMMA NICKNames ==
  ASSUME EdgeNicks = {}, NickTable, NEW i \in Slots, NEW n \in Nicks, NICK(i, n)
  PROVE  NamesDiffer' /\ NewcomersAreGuests'
<1>1. clients \in Seq(Client(Fds)) /\ DOMAIN clients = 1 .. Len(clients) /\ Len(clients) \in Nat
  BY ListTypes, LenProperties DEF NickTable
<1>2. CASE UNCHANGED clients
  BY <1>2 DEF NickTable, NamesDiffer, NewcomersAreGuests
<1>3. CASE ~NickRefused(clients, n) /\ clients' = set_nick(clients, fds[i], n)
  <2> DEFINE k == get_client_by_fd(clients, fds[i])
  <2>1. /\ clients' \in Seq(Client(Fds)) /\ Len(clients') = Len(clients)
        /\ \A j \in 1 .. Len(clients) :
             /\ clients'[j].hasNick <=> clients[j].hasNick \/ j = k
             /\ clients'[j].nickname = IF j = k /\ n \notin BlankNicks
                                       THEN n ELSE clients[j].nickname
    BY <1>1, <1>3, SetNick
  <2>2. DOMAIN clients' = DOMAIN clients
    BY <1>1, <2>1, LenProperties
  <2>3. n # Guest
    BY <1>3, NamesAssumption DEF NickRefused
  <2>4. \A j \in DOMAIN clients : ~(clients[j].hasNick /\ clients[j].nickname = n)
    <3>1. \A j \in 1 .. Len(clients) : ~(clients[j].hasNick /\ Nickname(clients[j]) = n)
      BY <1>1, <1>3, ClientByNick DEF NickRefused
    <3>2. QED BY <1>1, <3>1 DEF Nickname
  <2>5. \A j \in DOMAIN clients : clients[j].nickname # n
    BY <2>3, <2>4 DEF NickTable, NewcomersAreGuests
  <2> HIDE DEF k
  <2>6. NamesDiffer'
    BY <1>1, <2>1, <2>2, <2>5 DEF NickTable, NamesDiffer
  <2>7. NewcomersAreGuests'
    <3> SUFFICES ASSUME NEW j \in DOMAIN clients, ~clients'[j].hasNick
                 PROVE  clients'[j].nickname = Guest
      BY <2>2 DEF NewcomersAreGuests
    <3>1. j # k /\ ~clients[j].hasNick /\ clients'[j].nickname = clients[j].nickname
      BY <1>1, <2>1
    <3>2. QED BY <3>1 DEF NickTable, NewcomersAreGuests
  <2>8. QED BY <2>6, <2>7
<1>4. QED BY <1>2, <1>3 DEF NICK

(* Two clients that may speak never have the same nickname. *)
THEOREM NicknamesDiffer ==
  ASSUME EdgeNicks = {}
  PROVE  Spec => []NicksDistinct
<1>1. Init => NickTable
  BY ConnectionsInit DEF Init, NickTable, NamesDiffer, NewcomersAreGuests
<1>2. NickTable /\ [Next]_vars => NickTable'
  <2> SUFFICES ASSUME NickTable, [Next]_vars PROVE NamesDiffer' /\ NewcomersAreGuests'
    BY ConnectionsStep DEF NickTable
  <2>1. CASE UNCHANGED clients
    BY <2>1 DEF NickTable, NamesDiffer, NewcomersAreGuests
  <2>2. ASSUME NEW h \in GroupNames \cup {NoGroup}, NEW fd,
               clients' = change_group(clients, h, fd)
        PROVE  NamesDiffer' /\ NewcomersAreGuests'
    <3>1. clients \in Seq(Client(Fds)) /\ DOMAIN clients = 1 .. Len(clients)
      BY ListTypes, LenProperties DEF NickTable
    <3>2. /\ clients' \in Seq(Client(Fds)) /\ Len(clients') = Len(clients)
          /\ \A j \in 1 .. Len(clients) : /\ clients'[j].hasNick = clients[j].hasNick
                                         /\ clients'[j].nickname = clients[j].nickname
      BY <2>2, <3>1, ChangeGroup
    <3>3. DOMAIN clients' = DOMAIN clients
      BY <3>1, <3>2, LenProperties
    <3>4. QED BY <3>1, <3>2, <3>3 DEF NickTable, NamesDiffer, NewcomersAreGuests
  <2>3. CASE Accept
    BY <2>3, AcceptNames
  <2>4. ASSUME NEW i \in Slots, Answers(i) PROVE UNCHANGED clients
    BY <2>4, AnswersStep DEF NickTable, Connections
  <2>5. ASSUME NEW i \in Slots, QUIT(i) PROVE NamesDiffer' /\ NewcomersAreGuests'
    BY <2>5, QUITNames
  <2>6. ASSUME NEW i \in Slots, NEW n \in Nicks, NICK(i, n)
        PROVE  NamesDiffer' /\ NewcomersAreGuests'
    BY <2>6, NICKNames
  <2>7. ASSUME NEW i \in Slots, NEW g \in GroupNames, CREATE(i, g) \/ JOIN(i, g) \/ LEAVE(i, g)
        PROVE  NamesDiffer' /\ NewcomersAreGuests'
    BY <2>1, <2>2, <2>7 DEF CREATE, JOIN, LEAVE
  <2>8. CASE Poll \/ Stdin \/ Refuse \/ Peers \/ Halted \/ (\E i \in Slots : Fault(i)) \/ UNCHANGED vars
    BY <2>1, <2>8 DEF Poll, Stdin, Refuse, Peers, PeerWrites, PeerEnds, ResetArrives,
                      Halted, Fault, table, vars
  <2>9. QED BY <2>1, <2>3, <2>4, <2>5, <2>6, <2>7, <2>8 DEF Next, Loop, Serve, Answers
<1>3. NickTable => NicksDistinct
  BY DEF NickTable, NamesDiffer, NicksDistinct, Nickname
<1>4. QED BY <1>1, <1>2, <1>3, PTL DEF Spec
-----------------------------------------------------------------------------
(* Whose fault it is when an overwritten pointer is followed. *)

(* Connections come while a slot is free: one that poll() reported as pending  *)
(* still has a slot when the loop accepts it, for only stdin comes before it.  *)
Roomy ==
  status # "fault" /\ ~wild /\ (1 \in ready => get_available_fd_index # -1)

(* No descriptor but the clients' is written to. *)
LEMMA WritesToDescriptors ==
  ASSUME Connections, NEW i \in Slots, i \in ready
  PROVE  /\ fds[i] \in Fds
         /\ \A g \in GroupNames :
              group_exist(groups, g) => write_in_group(groups, g, fds[i]) \subseteq Fds
         /\ get_fd_client(clients) \subseteq Fds
         /\ \A n : Named(n) \subseteq Fds
<1>1. fds[i] \in Fds
  BY SpeakerKnown
<1>2. get_fd_client(clients) \subseteq Fds /\ \A n : Named(n) \subseteq Fds
  BY ListedAlive DEF Alive
<1>3. ASSUME NEW g \in GroupNames, group_exist(groups, g)
      PROVE  write_in_group(groups, g, fds[i]) \subseteq Fds
  <2>1. get_group_by_name(groups, g) \in DOMAIN groups
    BY <1>3, ListTypes, GroupByName, LenProperties DEF group_exist
  <2>2. groups[get_group_by_name(groups, g)] \in Group(GroupNames, Fds)
    BY <2>1, ListTypes, LenProperties, ElementOfSeq
  <2>3. QED BY <2>2 DEF Group, members, write_in_group
<1>4. QED BY <1>1, <1>2, <1>3
(* The handlers that leave the connection open. *)
Stays(i) ==
  \/ Answers(i)
  \/ \E n \in Nicks : NICK(i, n)
  \/ \E g \in GroupNames : CREATE(i, g) \/ JOIN(i, g) \/ LEAVE(i, g)

(* Whatever a handler writes, it writes to descriptors; one that finds the     *)
(* tables in disagreement writes nothing more.                               *)
LEMMA HandlersWrite ==
  ASSUME Connections, NEW i \in Slots, Stays(i)
  PROVE  (\E ts \in SUBSET Fds : Write(ts)) \/ (status' = "fatal" /\ UNCHANGED peer)
<1> SUFFICES ASSUME ~(status' = "fatal" /\ UNCHANGED peer) PROVE \E ts \in SUBSET Fds : Write(ts)
  OBVIOUS
<1>1. i \in ready
  BY DEF Stays, Answers, LoginFirst, GROUP, WHO, WHOIS, HELP, FTSUCCESS, MSG, MSGALL,
         MSGW, SEND, FTREQ, CONN_INFO, NICK, CREATE, JOIN, LEAVE, Answer, Command, Line,
         Served, Reaches
<1>2. fds[i] \in Fds /\ {fds[i]} \in SUBSET Fds /\ {} \in SUBSET Fds
  BY <1>1, WritesToDescriptors
<1>3. CASE MSG(i)
  <2> DEFINE h == Speaker(i).group
  <2>1. h \in GroupNames \cup {NoGroup}
    BY <1>1, SpeakerAt
  <2>2. h = NoGroup \/ group_exist(groups, h)
    BY <1>3 DEF MSG
  <2>3. h # NoGroup => write_in_group(groups, h, fds[i]) \subseteq Fds
    BY <1>1, <2>1, <2>2, WritesToDescriptors
  <2>4. PICK ts : Write(ts) /\ ts \subseteq {fds[i]} \cup
                     (IF h = NoGroup THEN {} ELSE write_in_group(groups, h, fds[i]))
    BY <1>3, <2>2 DEF MSG
  <2>5. QED BY <1>2, <2>3, <2>4
<1>4. CASE MSGALL(i) \/ \E m \in Nicks : MSGW(i, m) \/ SEND(i, m) \/ FTREQ(i, m) \/ CONN_INFO(i, m)
  <2>1. PICK ts : Write(ts) /\ ts \subseteq {fds[i]} \cup get_fd_client(clients)
                                            \cup UNION {Named(m) : m \in Nicks}
    BY <1>4 DEF MSGALL, MSGW, SEND, FTREQ, CONN_INFO
  <2>2. ts \subseteq Fds
    BY <1>1, <1>2, <2>1, WritesToDescriptors
  <2>3. QED BY <2>1, <2>2
<1>5. CASE \/ LoginFirst(i) \/ GROUP(i) \/ WHO(i) \/ WHOIS(i) \/ HELP(i) \/ FTSUCCESS(i)
           \/ \E n \in Nicks : NICK(i, n)
           \/ \E g \in GroupNames : CREATE(i, g) \/ JOIN(i, g) \/ LEAVE(i, g)
  BY <1>2, <1>5 DEF LoginFirst, GROUP, WHO, WHOIS, HELP, FTSUCCESS, NICK, CREATE, JOIN,
                    LEAVE, Answer
<1>6. QED BY <1>3, <1>4, <1>5 DEF Stays, Answers

(* A handler that serves a slot comes after the listening socket's turn. *)
LEMMA ServedIsLater ==
  ASSUME TypeOK, NEW i \in Slots, Served(i)
  PROVE  1 \notin ready /\ ready' \subseteq ready
BY NotADescriptor DEF Served, Reaches, TypeOK, Slots

LEMMA HandlersSpare ==
  ASSUME Connections, NEW i \in Slots, Stays(i)
  PROVE  1 \notin ready' /\ wild' = wild /\ status' # "fault"
<1>1. TypeOK
  BY DEF Connections
<1>2. Served(i)
  BY <1>1, AnswersStep DEF Stays, NICK, CREATE, JOIN, LEAVE, Command, Line
<1>3. 1 \notin ready' /\ wild' = wild
  BY <1>1, <1>2, ServedIsLater DEF Served
<1>4. status' # "fault"
  BY <1>1, HandlersWrite DEF Write
<1>5. QED BY <1>3, <1>4

(* When no connection arrives while every slot is taken, the server does not    *)
(* follow an overwritten pointer, whatever else its peers and users do.       *)
THEOREM OnlyCrowdFaults ==
  ASSUME "crowd" \notin Faults
  PROVE  Spec => []SurvivesRefusal
<1>1. Init => Roomy
  BY DEF Init, Roomy
<1>2. Connections /\ Roomy /\ [Next]_vars => Roomy'
  <2> SUFFICES ASSUME Connections, Roomy, [Next]_vars PROVE Roomy'
    OBVIOUS
  <2>0. TypeOK
    BY DEF Connections
  <2>1. ASSUME UNCHANGED <<fds, wild>>, status' # "fault",
               1 \in ready' => 1 \in ready \/ get_available_fd_index # -1
        PROVE  Roomy'
    BY <2>1 DEF Roomy, get_available_fd_index
  <2>2. CASE Poll
    <3>1. 1 \in ready' => get_available_fd_index # -1
      BY <2>2, NotADescriptor DEF Poll, PollIn
    <3>2. UNCHANGED <<fds, wild, status>>
      BY <2>2 DEF Poll, table
    <3>3. QED BY <2>1, <3>1, <3>2 DEF Roomy
  <2>3. CASE Stdin \/ Peers \/ Halted \/ UNCHANGED vars
    BY <2>1, <2>3 DEF Stdin, Peers, PeerWrites, PeerEnds, ResetArrives, Halted, Reaches,
                      Roomy, table, vars
  <2>4. CASE Accept
    BY <2>4 DEF Accept, Reaches, Roomy
  <2>5. ~Refuse
    BY DEF Refuse, Reaches, Roomy
  <2>6. ASSUME NEW i \in Slots, Fault(i) PROVE Roomy'
    BY <2>1, <2>6 DEF Fault, Reaches, Roomy, table
  <2>7. ASSUME NEW i \in Slots, QUIT(i) PROVE Roomy'
    BY <2>0, <2>7, ServedIsLater DEF QUIT, Served, Roomy
  <2>8. ASSUME NEW i \in Slots, Stays(i) PROVE Roomy'
    BY <2>8, HandlersSpare DEF Roomy
  <2>9. QED
    BY <2>2, <2>3, <2>4, <2>5, <2>6, <2>7, <2>8 DEF Next, Loop, Serve, Stays, Answers
<1>3. Roomy => SurvivesRefusal
  BY DEF Roomy, SurvivesRefusal
<1>4. QED BY <1>1, <1>2, <1>3, ConnectionsInvariant, PTL DEF Spec

(* A /nick leaves every client's channel alone, unless the new name is of the   *)
(* one length whose terminator falls into the channel's field.               *)
THEOREM NickLeavesChannel ==
  ASSUME EdgeNicks = {}
  PROVE  Spec => NickKeepsChannel
<1>1. ASSUME Connections, NEW i \in Slots, NEW n \in Nicks, NICK(i, n), NEW k \in DOMAIN clients
      PROVE  clients'[k].group = clients[k].group
  <2>1. clients \in Seq(Client(Fds)) /\ DOMAIN clients = 1 .. Len(clients)
    BY <1>1, ListTypes, LenProperties DEF Connections
  <2>2. CASE clients' = set_nick(clients, fds[i], n)
    BY <1>1, <2>1, <2>2, SetNick
  <2>3. QED BY <1>1, <2>2 DEF NICK
<1>2. Connections /\ [Next]_vars
        => [\A i \in Slots, n \in Nicks : NICK(i, n) =>
              \A k \in DOMAIN clients : clients'[k].group = clients[k].group]_vars
  BY <1>1
<1>3. QED BY <1>2, ConnectionsInvariant, PTL DEF Spec, NickKeepsChannel
=============================================================================
