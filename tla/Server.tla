------------------------------- MODULE Server -------------------------------
(***************************************************************************)
(* The chat server (src/RE216/server.c): one thread that polls its sockets *)
(* and runs the handler of each one that is ready, in the order of the     *)
(* pollfd array, before it polls again.                                     *)
(*                                                                         *)
(* A handler is one action.  It is atomic with respect to the other handlers *)
(* (there is one thread) but not to the world outside: peers write, close    *)
(* and reset their connections between any two handlers, in particular       *)
(* between poll(), which reports a socket ready, and the handler that reads  *)
(* it.                                                                      *)
(***************************************************************************)
EXTENDS ClientList, GroupList

CONSTANTS
  Fds,      (* descriptor numbers the kernel can give to client sockets    *)
  Faults    (* what the peers may do: "crowd", connect when no slot is     *)
            (* free; "close" and "reset", end a connection either way      *)

ASSUME ServerAssumption ==
  /\ Fds \subseteq Nat
  /\ IsFiniteSet(Fds)
  /\ Cardinality(Fds) > MAX_CL
  /\ Faults \subseteq {"crowd", "close", "reset"}

Slots == 2 .. MAX_CL + 1   (* fds[0] is stdin and fds[1] the listening socket *)

VARIABLES
  status,   (* "running", or how the process has ended                     *)
  fds,      (* slot -> descriptor polled there, -1 when unused             *)
  clients,  (* the list of module ClientList                               *)
  groups,   (* the list of module GroupList                                *)
  ready,    (* pollfd positions with POLLIN not yet looked at in this turn *)
  wild,     (* the pointer `clients` has been overwritten (see Refuse)     *)
  peer,     (* descriptor -> state of its connection, as the kernel has it *)
  unread    (* descriptor -> whether received bytes wait to be read        *)

table == <<fds, clients, groups, wild>>
vars  == <<status, ready, peer, unread, table>>

(* "eof": the peer has closed.  The first write after that succeeds but     *)
(* makes the peer's kernel answer with a reset ("eof_written"), after which  *)
(* reads still give end of file and writes fail ("eof_reset").  "reset": the *)
(* peer ended the connection with unread bytes on its side; reads and writes *)
(* both fail.                                                               *)
PeerStates == {"closed", "open", "eof", "eof_written", "eof_reset", "reset"}
AtEof      == {"eof", "eof_written", "eof_reset"}

(* "stopped": the operator's /quit.  "killed": SIGPIPE, or error() after a   *)
(* read or a write failed on a connection the peer has reset.  "fault": an   *)
(* overwritten pointer was followed.  "fatal": error() because the server's  *)
(* own tables disagree.                                                     *)
Statuses == {"running", "stopped", "killed", "fault", "fatal"}

Init ==
  /\ status  = "running"
  /\ fds     = [i \in Slots |-> -1]
  /\ clients = <<>>
  /\ groups  = <<>>
  /\ ready   = {}
  /\ wild    = FALSE
  /\ peer    = [f \in Fds |-> "closed"]
  /\ unread  = [f \in Fds |-> FALSE]
-----------------------------------------------------------------------------
(* The main loop. *)

get_available_fd_index ==
  IF \E i \in Slots : fds[i] = -1 THEN Min({i \in Slots : fds[i] = -1}) ELSE -1

Readable(f) == unread[f] \/ peer[f] \in AtEof \cup {"reset"}

(* Mutants of PollIn: POLLIN is not tested; the last slot is not polled.     *)
PollInUntested == {i \in Slots : fds[i] # -1}
PollInShort == {i \in Slots \ {MAX_CL + 1} : fds[i] # -1 /\ Readable(fds[i])}

PollIn == {i \in Slots : fds[i] # -1 /\ Readable(fds[i])}

(* poll() returns: the operator may have typed a line, a connection may be   *)
(* pending, and every slot whose socket is readable is reported.            *)
Poll ==
  /\ status = "running"
  /\ ready = {}
  /\ \E stdin \in SUBSET {0}, listen \in SUBSET {1} :
       /\ listen = {} \/ "crowd" \in Faults \/ get_available_fd_index # -1
       /\ ready' = stdin \cup listen \cup PollIn
  /\ ready' # {}
  /\ UNCHANGED <<status, peer, unread, table>>

(* Position i is the next one the loop finds ready. *)
Reaches(i) ==
  /\ status = "running"
  /\ i \in ready
  /\ \A j \in ready : i <= j
  /\ ready' = ready \ {i}

(* writeline to each descriptor of ts.  What a handler would still do after  *)
(* a write that ends the process cannot be observed.                        *)
Write(ts) ==
  /\ status' = IF \E f \in ts : peer[f] = "closed" THEN "fatal"
               ELSE IF \E f \in ts : peer[f] \in {"eof_reset", "reset"}
                    THEN "killed" ELSE "running"
  /\ peer' = [f \in Fds |-> IF f \in ts /\ peer[f] = "eof"
                            THEN "eof_written" ELSE peer[f]]

(* A line on stdin: /quit leaves the loop, anything else is ignored. *)
Stdin ==
  /\ Reaches(0)
  /\ status' \in {"running", "stopped"}
  /\ UNCHANGED <<peer, unread, table>>

(* accept() gives the lowest free descriptor.  By then the peer may already  *)
(* have left.                                                               *)
Accepted(fd, st) ==
  /\ peer[fd] = "closed"
  /\ \A g \in Fds : peer[g] = "closed" => fd <= g
  /\ \/ st = "open"
     \/ st = "eof" /\ "close" \in Faults
     \/ st = "reset" /\ "reset" \in Faults

Accept ==
  /\ Reaches(1)
  /\ get_available_fd_index # -1
  /\ \E fd \in Fds, st \in PeerStates, data \in BOOLEAN :
       /\ Accepted(fd, st)
       /\ fds' = [fds EXCEPT ![get_available_fd_index] = fd]
       /\ clients' = add_client_to_list(clients, fd)
       /\ unread' = [unread EXCEPT ![fd] = data]
       /\ peer' = [peer EXCEPT ![fd] = IF st = "eof" THEN "eof_written" ELSE st]
       /\ status' = IF st = "reset" THEN "killed" ELSE "running"
  /\ UNCHANGED <<groups, wild>>

(* No slot is free: the connection is accepted, told so and closed.  On the  *)
(* way get_available_fd_index() = -1 is used as an index, and so is          *)
(* i = MAX_CL+2: the first store is outside fds and, in the layout of the    *)
(* Debug build, hits the pointer `clients`; another layout may be luckier.   *)
Refuse ==
  /\ Reaches(1)
  /\ get_available_fd_index = -1
  /\ \E fd \in Fds, st \in PeerStates :
       /\ Accepted(fd, st)
       /\ status' = IF st = "reset" THEN "killed" ELSE "running"
  /\ wild' \in {wild, TRUE}
  /\ UNCHANGED <<fds, clients, groups, peer, unread>>
-----------------------------------------------------------------------------
(* Serving a client: readline, get_command, command. *)

Speaker(i) == clients[get_client_by_fd(clients, fds[i])]

(* read() fails, or a handler walks the list from an overwritten head. *)
Fault(i) ==
  /\ Reaches(i)
  /\ \/ /\ ~unread[fds[i]] /\ peer[fds[i]] = "reset"
        /\ status' = "killed"
     \/ /\ wild
        /\ unread[fds[i]] \/ peer[fds[i]] # "reset"
        /\ status' = "fault"
  /\ UNCHANGED <<peer, unread, table>>

Served(i) ==
  /\ Reaches(i)
  /\ ~wild
  /\ unread' = [unread EXCEPT ![fds[i]] = FALSE]
  /\ UNCHANGED wild

Line(i) == Served(i) /\ unread[fds[i]] /\ UNCHANGED fds

(* Only /nick and /quit are open to a client that has no nickname. *)
LoginFirst(i) ==
  /\ Line(i)
  /\ ~Speaker(i).hasNick
  /\ Write({fds[i]})
  /\ UNCHANGED <<clients, groups>>

Command(i) == Line(i) /\ Speaker(i).hasNick

(* Commands whose handler only answers the speaker. *)
Answer(i) == Command(i) /\ Write({fds[i]}) /\ UNCHANGED <<clients, groups>>

GROUP(i) == Answer(i)
WHO(i)   == Answer(i)
WHOIS(i) == Answer(i)
HELP(i)  == Answer(i)

(* A command get_command knows and command() has no case for. *)
FTSUCCESS(i) == Command(i) /\ Write({}) /\ UNCHANGED <<clients, groups>>
-----------------------------------------------------------------------------
(* Nickname and channels. *)

NICK(i, n) ==
  /\ Line(i)
  /\ \/ /\ n \in LongNicks               \* refused without an answer
        /\ Write({}) /\ UNCHANGED clients
     \/ /\ n \notin LongNicks /\ NickRefused(clients, n)
        /\ Write({fds[i]}) /\ UNCHANGED clients
     \/ /\ n \notin LongNicks /\ ~NickRefused(clients, n)
        /\ clients' = set_nick(clients, fds[i], n)
        /\ Write({fds[i]})
  /\ UNCHANGED groups

CREATE(i, g) ==
  /\ Command(i)
  /\ groups' = create_group(groups, g)
  /\ Write({fds[i]})
  /\ UNCHANGED clients

(* Results 0 and -3 put the channel's name into the client; -1 and -2 only   *)
(* produce a message.                                                       *)
JOIN(i, g) ==
  /\ Command(i)
  /\ \/ /\ Speaker(i).group # NoGroup
        /\ UNCHANGED <<clients, groups>>
     \/ /\ Speaker(i).group = NoGroup
        /\ groups' = add_client_in_group(groups, fds[i], g)
        /\ clients' = IF JoinResult(groups, fds[i], g) \in {0, -3}
                      THEN change_group(clients, g, fds[i])
                      ELSE clients
  /\ Write({fds[i]})

(* Mutant of Left: an empty channel is kept. *)
LeftUndestroyed(fd, g) == remove_client_in_group(groups, fd, g)

(* The channels after fd has left g: one that this empties is destroyed.    *)
Left(fd, g) ==
  LET rest == remove_client_in_group(groups, fd, g)
  IN  IF group_is_empty(rest[get_group_by_name(rest, g)].fd)
      THEN remove_group(rest, g) ELSE rest

(* /quit <channel>: the channel is the one named on the line, which need not *)
(* be the client's.                                                         *)
LEAVE(i, g) ==
  /\ Command(i)
  /\ \/ /\ Speaker(i).group = NoGroup \/ ~InGroup(groups, fds[i], g)
        /\ UNCHANGED <<clients, groups>>
     \/ /\ Speaker(i).group # NoGroup /\ InGroup(groups, fds[i], g)
        /\ groups' = Left(fds[i], g)
        /\ clients' = change_group(clients, NoGroup, fds[i])
  /\ Write({fds[i]})

(* Mutant of QuitChannels: /quit does not leave the channel. *)
QuitStays(fd, c) == groups

(* The channels after the LEAVE that /quit runs for the client's channel; a   *)
(* client without a nickname is only asked to log in.                       *)
QuitChannels(fd, c) ==
  IF c.group # NoGroup /\ c.hasNick /\ InGroup(groups, fd, c.group)
  THEN Left(fd, c.group) ELSE groups

(* /quit, or end of file.  The handler runs LEAVE if the client has a         *)
(* channel, its answer included, then forgets the client and closes the       *)
(* socket.                                                                  *)
QUIT(i) ==
  LET fd == fds[i]
      c  == Speaker(i)
  IN  /\ Served(i)
      /\ unread[fd] \/ peer[fd] \in AtEof
      /\ groups' = QuitChannels(fd, c)
      /\ clients' = remove_client(clients, fd)
      /\ fds' = [fds EXCEPT ![i] = -1]
      /\ peer' = [peer EXCEPT ![fd] = "closed"]
      /\ status' = IF c.group # NoGroup /\ peer[fd] \in {"eof_reset", "reset"}
                   THEN "killed" ELSE "running"
-----------------------------------------------------------------------------
(* Relaying. *)

(* A line that is no command goes to the others in the speaker's channel.    *)
(* pop_of_group ends the process when there is no channel of that name.      *)
MSG(i) ==
  LET g   == Speaker(i).group
      tab == groups[get_group_by_name(groups, g)].fd
  IN  /\ Command(i)
      /\ IF g # NoGroup /\ ~group_exist(groups, g)
         THEN status' = "fatal" /\ UNCHANGED peer
         ELSE Write({fds[i]} \cup
                    IF g = NoGroup \/ nb_client_in_group(tab) = 1 THEN {}
                    ELSE write_in_group(groups, g, fds[i]))
      /\ UNCHANGED <<clients, groups>>

MSGALL(i) ==
  /\ Command(i)
  /\ Write({fds[i]} \cup get_fd_client(clients))
  /\ UNCHANGED <<clients, groups>>

(* The descriptor of the client a line names: {} when there is none.        *)
Named(n) ==
  LET k == get_client_by_nick(clients, n) IN IF k = 0 THEN {} ELSE {clients[k].fd}

(* MSGW and SEND write to the client named on the line and to the speaker.  *)
MSGW(i, n) ==
  /\ Command(i)
  /\ Write({fds[i]} \cup Named(n))
  /\ UNCHANGED <<clients, groups>>

SEND(i, n) ==
  /\ Command(i)
  /\ Write({fds[i]} \cup Named(n))
  /\ UNCHANGED <<clients, groups>>

(* FTREQP and FTREQN, a file transfer's yes and no, go to the client named   *)
(* on the line alone; so does CONN_INFO.                                    *)
FTREQ(i, n) ==
  /\ Command(i)
  /\ Write(IF Named(n) = {} THEN {fds[i]} ELSE Named(n))
  /\ UNCHANGED <<clients, groups>>

CONN_INFO(i, n) ==
  /\ Command(i)
  /\ Write(IF Named(n) = {} THEN {fds[i]} ELSE Named(n))
  /\ UNCHANGED <<clients, groups>>
-----------------------------------------------------------------------------
(* The peers. *)

PeerWrites(f) ==
  /\ status = "running" /\ peer[f] = "open" /\ ~unread[f]
  /\ unread' = [unread EXCEPT ![f] = TRUE]
  /\ UNCHANGED <<status, ready, peer, table>>

PeerEnds(f) ==
  /\ status = "running" /\ peer[f] = "open"
  /\ \/ "close" \in Faults /\ peer' = [peer EXCEPT ![f] = "eof"]
     \/ "reset" \in Faults /\ peer' = [peer EXCEPT ![f] = "reset"]
  /\ UNCHANGED <<status, ready, unread, table>>

ResetArrives(f) ==
  /\ status = "running" /\ peer[f] = "eof_written"
  /\ peer' = [peer EXCEPT ![f] = "eof_reset"]
  /\ UNCHANGED <<status, ready, unread, table>>

(* The process has ended. *)
Halted == status # "running" /\ UNCHANGED vars
-----------------------------------------------------------------------------
Serve(i) ==
  \/ Fault(i) \/ LoginFirst(i) \/ QUIT(i)
  \/ GROUP(i) \/ WHO(i) \/ WHOIS(i) \/ HELP(i) \/ FTSUCCESS(i)
  \/ MSG(i) \/ MSGALL(i)
  \/ \E n \in Nicks :
       NICK(i, n) \/ MSGW(i, n) \/ SEND(i, n) \/ FTREQ(i, n) \/ CONN_INFO(i, n)
  \/ \E g \in GroupNames : CREATE(i, g) \/ JOIN(i, g) \/ LEAVE(i, g)

Loop == Poll \/ Stdin \/ Accept \/ Refuse \/ \E i \in Slots : Serve(i)

Peers == \E f \in Fds : PeerWrites(f) \/ PeerEnds(f) \/ ResetArrives(f)

Next == Loop \/ Peers \/ Halted

Spec == Init /\ [][Next]_vars

(* The process keeps running: poll() returns when something is ready, and    *)
(* no handler waits (its read has data, its writes find room).              *)
FairSpec == Spec /\ WF_vars(Loop)
=============================================================================
