-------------------------- MODULE ServerProperties --------------------------
(***************************************************************************)
(* What module Server promises.                                            *)
(***************************************************************************)
EXTENDS Server

(* Type correctness of the server's tables and of the kernel's view of the   *)
(* connections.                                                             *)
TypeOK ==
  /\ status \in Statuses
  /\ fds \in [Slots -> Fds \cup {-1}]
  /\ clients \in Seq(Client(Fds))
  /\ groups \in Seq(Group(GroupNames, Fds))
  /\ ready \subseteq {0, 1} \cup Slots
  /\ wild \in BOOLEAN
  /\ peer \in [Fds -> PeerStates]
  /\ unread \in [Fds -> BOOLEAN]

ChannelNames == {groups[k].name : k \in DOMAIN groups}

(* Descriptors of the clients whose own record says they are in g. *)
Inside(g) == {clients[k].fd : k \in {x \in DOMAIN clients : clients[x].group = g}}
-----------------------------------------------------------------------------
(* The three places that say who is connected agree: each open connection has *)
(* one poll slot and one record in the list, and nothing else has.  So       *)
(* command() always finds the speaker, and closing a socket forgets it       *)
(* everywhere before the kernel gives its number to the next client.         *)
TablesAgree ==
  /\ \A i, j \in Slots : fds[i] = fds[j] => i = j \/ fds[i] = -1
  /\ \A k, l \in DOMAIN clients : clients[k].fd = clients[l].fd => k = l
  /\ {fds[i] : i \in Slots} \ {-1} = get_fd_client(clients)
  /\ get_fd_client(clients) = {f \in Fds : peer[f] # "closed"}

(* MSGALL copies every descriptor of the list into sock_tab, an array of     *)
(* MAX_CL cells: the list is never longer.                                  *)
SockTabFits == Len(clients) <= MAX_CL

(* A position poll() reported still has an open, readable socket when the    *)
(* loop reaches it, whatever the handlers before it in the same turn and the *)
(* peers have done: the single thread never blocks in read().                *)
ReadyIsReadable ==
  \A i \in ready \cap Slots : fds[i] # -1 /\ Readable(fds[i])

(* A client that believes it is in a channel is in that channel's array, so   *)
(* pop_of_group and write_in_group never meet a channel that is gone.        *)
NoDanglingChannel ==
  \A k \in DOMAIN clients :
    clients[k].group # NoGroup => InGroup(groups, clients[k].fd, clients[k].group)

(* A descriptor in a channel's array belongs to a connected client whose own  *)
(* record names that channel.  Otherwise the next client to be given the      *)
(* number would be sent what is said there.                                 *)
NoStaleMember ==
  \A k \in DOMAIN groups : \A f \in members(groups[k].fd) :
    \E l \in DOMAIN clients : clients[l].fd = f /\ clients[l].group = groups[k].name

(* A line said in a channel goes to exactly the other clients whose own       *)
(* record names it (write_in_group works from the channel's array).          *)
RelayReachesChannel ==
  \A k \in DOMAIN clients : clients[k].group # NoGroup =>
    write_in_group(groups, clients[k].group, clients[k].fd)
      = Inside(clients[k].group) \ {clients[k].fd}

(* A channel always has a cell for one more connected client: the answer      *)
(* "Channel is full" is never given.                                        *)
RoomForEveryone ==
  \A k \in DOMAIN clients, j \in DOMAIN groups : clients[k].group = NoGroup =>
    JoinResult(groups, clients[k].fd, groups[j].name) = 0

(* Two clients that may speak never share a nickname, except the one they     *)
(* both had before choosing (a refused /nick can leave a client with it).    *)
NicksDistinct ==
  \A k, l \in DOMAIN clients :
    /\ clients[k].hasNick /\ clients[l].hasNick
    /\ Nickname(clients[k]) = Nickname(clients[l])
    => k = l \/ clients[k].nickname = Guest

(* The process never ends because its own tables disagree: pop_of_group finds *)
(* the channel, and every write is to an open descriptor.                    *)
NeverFatal == status # "fatal"
-----------------------------------------------------------------------------
(* A channel disappears in the step in which its last member leaves, whether  *)
(* by /quit <channel>, by /quit or by closing the connection, and in no       *)
(* other: one that was created and not yet joined stays.                     *)
ChannelLifetime ==
  [][\A g \in GroupNames :
       LET emptied == Inside(g) # {} /\ Inside(g)' = {}
       IN  g \in ChannelNames => (emptied <=> g \notin ChannelNames')]_vars

(* Every line a client has sent is read, as long as the process runs: no      *)
(* other client can starve it.                                              *)
LinesServed ==
  \A f \in Fds : unread[f] ~> (~unread[f] \/ status # "running")

(* The slot and descriptor of a peer that has closed are freed.              *)
GonePeersReleased ==
  \A f \in Fds : peer[f] \in AtEof ~> (peer[f] = "closed" \/ status # "running")
-----------------------------------------------------------------------------
(* Statements made in the repository, to compare with the code.             *)

(* server.c:511, "we want to ignore this fd next loops": after refusing a     *)
(* connection the server goes on serving the clients it has.                 *)
SurvivesRefusal == status # "fault"

(* server.c:34, "s_read = 0 probably means client has closed socket": a client  *)
(* that has closed is handled as QUIT, like one that says so, and the server  *)
(* goes on without it.                                                      *)
DepartureIsHandled == [][\A i \in Slots : QUIT(i) => status' # "killed"]_vars

(* list.h:18, set_nick "sets name of corresponding client": it leaves the     *)
(* client's channel alone.                                                  *)
NickKeepsChannel ==
  [][\A i \in Slots, n \in Nicks : NICK(i, n) =>
       \A k \in DOMAIN clients : clients'[k].group = clients[k].group]_vars
=============================================================================
