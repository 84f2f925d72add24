------------------------- MODULE TransferProperties -------------------------
(* What module Transfer promises, and statements of the repository about it. *)
EXTENDS Transfer

Messages ==
  [cmd : {"TEXT", "NEWPROMPT"}]
    \cup [cmd : {"USERNAME"}, name : Names]
    \cup [cmd : {"FTREQ"}, from : Names, size : Sizes, by : Clients]
    \cup [cmd : {"INFO_CONN"}, port : Ports]

Requests ==
  [cmd : {"MSGALL"}]
    \cup [cmd : {"NICK", "FTREQP", "FTREQN"}, name : Names]
    \cup [cmd : {"SEND"}, name : Names, size : Sizes]
    \cup [cmd : {"CONN_INFO"}, name : Names, port : Ports]

ConnStates == {"up", "eof", "eof_written", "eof_reset", "reset"}

(* Every variable keeps its type; streams and handlers carry only messages    *)
(* of the protocol.                                                          *)
TypeOK ==
  /\ at \in [Clients -> Places]
  /\ asked \in [Clients -> [from : Names \cup {NoName}, size : Sizes,
                           by : Clients \cup {NoName}]]
  /\ port \in [Clients -> 0 .. MaxLines]
  /\ link \in [Clients -> Ports \cup {NoPort}]
  /\ conns \subseteq [port : Ports, from : Clients]
  /\ taken \subseteq Ports /\ filled \subseteq Ports /\ saved \subseteq Ports
  /\ cut \subseteq Ports
  /\ conn \in [Clients -> ConnStates]
  /\ up \in [Clients -> Seq(Requests)]
  /\ down \in [Clients -> Seq(Messages)]
  /\ pending \in Seq(Clients \X Messages)
  /\ nick \in [Clients -> Names \cup {NoName}]
  /\ shown \in [Clients -> Names]
  /\ lines \in 0 .. MaxLines
-----------------------------------------------------------------------------
(* A port is announced once and to one client, so at most one client ever      *)
(* connects to it, whatever is joined or lost: the receiver can take whoever  *)
(* accept() returns for the one it is waiting for.                           *)
OneCaller == \A p \in {x.port : x \in conns} : Cardinality(Calls(p)) = 1

Engaged == {"accept", "inbox", "receive"}

(* client.c:242, set_up_peer_2_peer_file_transfer: "send connection info to    *)
(* other client", the one whose request its user has accepted: nobody else is  *)
(* connected to a receiver.  The server finds that client by its name, after   *)
(* others may have come in between; once users type /nick, the name may be     *)
(* another's by then.                                                        *)
CallerIsAsker ==
  \A c \in Clients :
    at[c] \in Engaged => \A d \in Calls(Latest(c)) : d = asked[c].by

(* What is written to d and not yet read. *)
InFlight(d) ==
  Range(down[d]) \cup {pending[k][2] : k \in {j \in DOMAIN pending : pending[j][1] = d}}

(* The name a client shows is the one the server has for it, unless the       *)
(* message that says so is on its way, or the server, started again, has      *)
(* none: the client keeps showing the old one when it has reconnected.       *)
PromptShowsNick ==
  \A c \in Clients :
    \/ at[c] = "over"
    \/ nick[c] \in {shown[c], NoName}
    \/ [cmd |-> "USERNAME", name |-> nick[c]] \in InFlight(c)
-----------------------------------------------------------------------------
PhaseOf(p) ==
  CASE p \in saved              -> "saved"
    [] p \in filled \ saved     -> "filled"
    [] p \in taken \ filled     -> "greeted"
    [] Calls(p) # {} /\ p \notin taken -> "called"
    [] Calls(p) = {} /\ p.num <= port[p.host] -> "listening"
    [] OTHER                    -> "closed"

H == INSTANCE Handshake WITH
  Host   <- Clients,
  Port   <- Ports,
  Nobody <- NoName,
  phase  <- [p \in Ports |-> PhaseOf(p)],
  caller <- [p \in Ports |-> IF Calls(p) = {} THEN NoName
                             ELSE CHOOSE c \in Calls(p) : TRUE]

(* Every step of the clients and the server is a step of one port's transfer, *)
(* or none: no file is sent before the greeting, saved before it is sent, or *)
(* taken by two, whatever is joined, lost or restarted.                      *)
ImplementsHandshake == H!Spec
-----------------------------------------------------------------------------
(* Who waits for whom.  The server waits for the client whose stream is full; *)
(* a receiver in accept() for the server until the sender has been written    *)
(* to, then for the sender; a sender for the receiver.  No client has the     *)
(* identity NoName.                                                         *)
Server == NoName

HasInfo(d, p) == \E k \in DOMAIN down[d] :
                   down[d][k].cmd = "INFO_CONN" /\ down[d][k].port = p

Waiting(x) ==
  IF x = Server THEN pending # <<>> /\ Len(down[Head(pending)[1]]) >= Cap
  ELSE \/ at[x] = "accept" /\ Calls(Latest(x)) = {}
       \/ at[x] = "greeting" /\ link[x] \notin taken
       \/ at[x] = "send" /\ x \in Big /\ ~Receiving(link[x])
       \/ at[x] = "receive" /\ Latest(x) \notin filled

For(x) ==
  IF x = Server THEN Head(pending)[1]
  ELSE CASE at[x] = "accept"  -> IF \E d \in Clients : HasInfo(d, Latest(x))
                                 THEN CHOOSE d \in Clients : HasInfo(d, Latest(x))
                                 ELSE Server
         [] at[x] = "receive" -> CHOOSE d \in Calls(Latest(x)) : TRUE
         [] OTHER             -> link[x].host

(* A sender whose receiver has cancelled or denied the transfer and not said  *)
(* so: its port stays open and nobody will accept on it or read from it.     *)
Abandoned(x) ==
  /\ x # Server
  /\ at[x] \in {"greeting", "send"}
  /\ LET p == link[x]
     IN  ~(p = Latest(p.host) /\ at[p.host] \in Engaged)

(* Following who waits for whom from x leads round in a circle, as when two   *)
(* clients have accepted each other's file, or to an abandoned sender.       *)
Trapped(x) ==
  \E S \in SUBSET (Clients \cup {Server}) :
    x \in S /\ \A y \in S : Waiting(y) /\ (For(y) \in S \/ Abandoned(y))

(* x has something to do that waits for nobody else.                         *)
Proceeds(x) ==
  IF x = Server
  THEN IF pending = <<>> THEN \E c \in Clients : up[c] # <<>>
       ELSE Len(down[Head(pending)[1]]) < Cap
  ELSE \/ at[x] = "loop" /\ down[x] # <<>>
       \/ at[x] \in {"prompt", "listen", "inbox"}
       \/ at[x] \in {"accept", "greeting", "send", "receive"} /\ ~Waiting(x)

(* Nobody waits for somebody who has nothing to do: whoever waits, and is not  *)
(* abandoned, waits for one who waits too or proceeds.  So waits that do not   *)
(* end go round in a circle or end at an abandoned sender.  This is about the *)
(* protocol itself, when each read returns one message and nobody ends or     *)
(* takes another name: a /conn_info that is lost behind /ftreqP or goes to    *)
(* another client leaves a receiver that waits for nobody.                   *)
WaitsLeadOn ==
  \A x \in Clients \cup {Server} :
    Waiting(x) => Abandoned(x) \/ Waiting(For(x)) \/ Proceeds(For(x))

(* Every wait, of a receiver in accept(), of a sender, or of the server for    *)
(* room in a client's stream, ends or is a trap, under the same conditions.   *)
WaitEnds ==
  \A x \in Clients \cup {Server} : Waiting(x) ~> ~Waiting(x) \/ Trapped(x)
=============================================================================
