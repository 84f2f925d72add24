------------------------------ MODULE Transfer ------------------------------
(***************************************************************************)
(* Clients (src/RE216/client.c) that log in, chat and send each other files  *)
(* through the server, which relays their requests by nickname.              *)
(*                                                                         *)
(* A client is one thread.  In its loop it takes the user's lines and the    *)
(* server's messages; it leaves the loop to ask the user, to wait for a peer's *)
(* connection, or to send or receive a file, and reads nothing meanwhile.    *)
(* The server writes with blocking writes into streams of bounded room.      *)
(* A file's contents are module FileStream's; module Server has what a write *)
(* to a client that has left may do to the server, which survives it here.   *)
(***************************************************************************)
EXTENDS Integers, Sequences, FiniteSets, SequencesExt

CONSTANTS
  Clients,
  Names,       (* nicknames; each client starts with its own identity as name *)
  NoName,
  Holders,     (* clients whose file is not empty                          *)
  Big,         (* clients whose file does not fit in the sockets' buffers  *)
  Cap,         (* room, in messages, in the stream from server to client   *)
  MaxLines,    (* bound on lines typed, and on restarts of the server      *)
  Faults       (* "join": one read returns several messages; "short": file *)
               (* names for which the size is lost (module TransferLines)  *)
               (* and something else is read in its place;                 *)
               (* "rename": users type /nick; "kill": clients end at any   *)
               (* time; "restart": so does the server, which is restarted  *)

ASSUME TransferAssumption ==
  /\ IsFiniteSet(Clients)
  /\ Clients \subseteq Names
  /\ NoName \notin Names
  /\ Big \subseteq Holders /\ Holders \subseteq Clients
  /\ Cap \in Nat \ {0}
  /\ MaxLines \in Nat
  /\ Faults \subseteq {"join", "short", "rename", "kill", "restart"}

VARIABLES
  at,       (* where each client's thread is                               *)
  asked,    (* user_name and file_size of the last /ftreq, the size as one  *)
            (* of Sizes; and, for the properties only, who wrote the /send *)
  port,     (* how many listening sockets a client has opened: each stays  *)
            (* open                                                        *)
  link,     (* the port a client last connected to                         *)
  conns,    (* all connections made between clients                        *)
  taken,    (* ports on which accept() has returned                        *)
  filled,   (* ports to which the sender has written the whole file        *)
  saved,    (* ports whose whole file the receiver has saved               *)
  cut,      (* ports whose sender has ended with the greeting unread: its   *)
            (* kernel has reset the connection                             *)
  conn,     (* a client's connection to the server, as the client has it   *)
  up, down, (* messages on their way to and from the server                *)
  pending,  (* writes the server's current handler has still to do         *)
  nick,     (* nicknames in the server's list                              *)
  shown,    (* nicknames the clients show                                  *)
  lines     (* lines typed and restarts so far                             *)

peers  == <<port, link, conns, taken, filled, saved, cut>>
server == <<pending, nick>>
vars   == <<at, asked, peers, conn, up, down, server, shown, lines>>

Places == {"loop", "prompt", "listen", "accept", "inbox", "receive",
           "greeting", "send", "spin", "over"}
Ports  == [host : Clients, num : 1 .. MaxLines]
NoPort == [host |-> NoName, num |-> 0]

(* What atoi makes of an announced size: 0, the size of the file, or another  *)
(* number.                                                                   *)
Sizes == {"zero", "right", "wrong"}

Init ==
  /\ at      = [c \in Clients |-> "loop"]
  /\ asked   = [c \in Clients |-> [from |-> NoName, size |-> "zero", by |-> NoName]]
  /\ port    = [c \in Clients |-> 0]
  /\ link    = [c \in Clients |-> NoPort]
  /\ conns   = {}
  /\ taken   = {}
  /\ filled  = {}
  /\ saved   = {}
  /\ cut     = {}
  /\ conn    = [c \in Clients |-> "up"]
  /\ up      = [c \in Clients |-> <<>>]
  /\ down    = [c \in Clients |-> <<>>]
  /\ pending = <<>>
  /\ nick    = [c \in Clients |-> c]
  /\ shown   = [c \in Clients |-> c]
  /\ lines   = 0

Goes(c, place) == at' = [at EXCEPT ![c] = place]

(* What one read takes from a stream: its first message, and with "join" any  *)
(* number of those behind it.                                                *)
ReadSizes(stream) ==
  {n \in DOMAIN stream : n = 1 \/ "join" \in Faults}

Behind(stream, n) == SubSeq(stream, n + 1, Len(stream))
-----------------------------------------------------------------------------
(* Lines the user types. *)

(* writeline to the server.  What is written on a connection the server has    *)
(* closed is lost, and makes the other side answer with a reset; once that    *)
(* has arrived, SIGPIPE or an error ends the client.                         *)
Tell(c, m, place) ==
  \/ /\ conn[c] = "up"
     /\ up' = [up EXCEPT ![c] = Append(@, m)]
     /\ Goes(c, place)
     /\ UNCHANGED conn
  \/ /\ conn[c] \in {"eof", "eof_written"}
     /\ conn' = [conn EXCEPT ![c] = "eof_written"]
     /\ Goes(c, place)
     /\ UNCHANGED up
  \/ /\ conn[c] \in {"eof_reset", "reset"}
     /\ Goes(c, "over")
     /\ UNCHANGED <<up, conn>>

(* The answer to what was written behind the server's back. *)
ResetArrives(c) ==
  /\ at[c] # "over" /\ conn[c] = "eof_written"
  /\ conn' = [conn EXCEPT ![c] = "eof_reset"]
  /\ UNCHANGED <<at, asked, peers, up, down, server, shown, lines>>

handle_client_message(c, m) ==
  /\ at[c] = "loop"
  /\ lines < MaxLines
  /\ lines' = lines + 1
  /\ Tell(c, m, "loop")
  /\ UNCHANGED <<asked, peers, down, server, shown>>

(* The size /send announces; instead of it, the server may read the file's or  *)
(* the receiver's name, which rarely begins with a digit.                    *)
Announced(c) ==
  {IF c \in Holders THEN "right" ELSE "zero"}
    \cup (IF "short" \in Faults THEN {"zero", "wrong"} ELSE {})

TypesSend(c) ==
  \E n \in Names, s \in Announced(c) :
    handle_client_message(c, [cmd |-> "SEND", name |-> n, size |-> s])

TypesMsgall(c) == handle_client_message(c, [cmd |-> "MSGALL"])

TypesNick(c) ==
  /\ "rename" \in Faults
  /\ \E n \in Names : handle_client_message(c, [cmd |-> "NICK", name |-> n])
-----------------------------------------------------------------------------
(* The server: one handler at a time, its writes one by one. *)

To(c, m) == <<c, m>>
TEXT     == [cmd |-> "TEXT"]

Named(n) == {c \in Clients : nick[c] = n}

(* m goes to the client named n; when there is none, the speaker is told.    *)
Relay(c, n, m) ==
  IF Named(n) = {} THEN <<To(c, TEXT)>> ELSE <<To(CHOOSE w \in Named(n) : TRUE, m)>>

SEND(c, m) ==
  IF Named(m.name) = {} THEN <<To(c, TEXT)>>
  ELSE <<To(c, TEXT)>> \o
       Relay(c, m.name, [cmd |-> "FTREQ", from |-> nick[c], size |-> m.size, by |-> c])

(* The answer has no newline: a line joined to it becomes part of the name.  *)
FTREQ(c, m, joined) ==
  IF joined THEN <<To(c, TEXT)>> ELSE Relay(c, m.name, TEXT)

(* Mutant of CONN_INFO: the last writeline is missing. *)
CONN_INFO_unsent(c, m) == <<>>

CONN_INFO(c, m) == Relay(c, m.name, [cmd |-> "INFO_CONN", port |-> m.port])

Others(c) == {d \in Clients \ {c} : conn[d] = "up"}

MSGALL(c, order) ==
  IF order = <<>> THEN <<To(c, TEXT)>>
  ELSE [k \in DOMAIN order |-> To(order[k], TEXT)] \o <<To(c, [cmd |-> "NEWPROMPT"])>>

Refused(n) == Named(n) # {}

(* Mutant of NICK: the client is answered with a text only. *)
NICK_text(c, m) == <<To(c, TEXT)>>

NICK(c, m) ==
  <<To(c, IF Refused(m.name) THEN TEXT ELSE [cmd |-> "USERNAME", name |-> m.name])>>

LoginFirst(c, m) == nick[c] = NoName /\ m.cmd # "NICK"

Serve(c) ==
  /\ pending = <<>>
  /\ \E n \in ReadSizes(up[c]), order \in SetToSeqs(Others(c)) :
       LET m == Head(up[c])
       IN  /\ up' = [up EXCEPT ![c] = Behind(@, n)]
           /\ pending' =
                IF LoginFirst(c, m) THEN <<To(c, TEXT)>>
                ELSE CASE m.cmd = "SEND"                 -> SEND(c, m)
                       [] m.cmd \in {"FTREQP", "FTREQN"} -> FTREQ(c, m, n > 1)
                       [] m.cmd = "CONN_INFO"            -> CONN_INFO(c, m)
                       [] m.cmd = "MSGALL"               -> MSGALL(c, order)
                       [] m.cmd = "NICK"                 -> NICK(c, m)
           /\ nick' = IF m.cmd = "NICK" /\ ~Refused(m.name)
                      THEN [nick EXCEPT ![c] = m.name] ELSE nick
  /\ UNCHANGED <<at, asked, peers, conn, down, shown, lines>>

(* writeline to a client waits for room; what is written to one that has      *)
(* ended is lost.                                                            *)
Deliver ==
  /\ pending # <<>>
  /\ LET c == Head(pending)[1]
         m == Head(pending)[2]
     IN  \/ at[c] = "over" /\ UNCHANGED down
         \/ /\ at[c] # "over" /\ Len(down[c]) < Cap
            /\ down' = [down EXCEPT ![c] = Append(@, m)]
  /\ pending' = Tail(pending)
  /\ UNCHANGED <<at, asked, peers, conn, up, nick, shown, lines>>

(* End of file: the client has ended and all it had written has been read.   *)
QUIT(c) ==
  /\ pending = <<>>
  /\ at[c] = "over" /\ up[c] = <<>> /\ conn[c] = "up"
  /\ conn' = [conn EXCEPT ![c] = "eof"]
  /\ nick' = [nick EXCEPT ![c] = NoName]
  /\ UNCHANGED <<at, asked, peers, up, down, pending, shown, lines>>

(* The server ends and is started again.  Its connections end; one with unread *)
(* bytes is reset instead, and bytes still on their way are answered with a   *)
(* reset when they arrive.                                                   *)
Restart ==
  /\ "restart" \in Faults /\ lines < MaxLines
  /\ lines' = lines + 1
  /\ pending' = <<>>
  /\ nick' = [c \in Clients |-> NoName]
  /\ \E unread \in SUBSET {c \in Clients : conn[c] = "up" /\ up[c] # <<>>} :
       conn' = [c \in Clients |-> CASE conn[c] # "up"  -> conn[c]
                                    [] up[c] = <<>>  -> "eof"
                                    [] c \in unread  -> "reset"
                                    [] OTHER         -> "eof_written"]
  /\ up' = [c \in Clients |-> <<>>]
  /\ UNCHANGED <<at, asked, peers, down, shown>>
-----------------------------------------------------------------------------
(* The client's loop: a message from the server. *)

(* The first of n messages read at once, of kind cmd; the rest is lost. *)
Reads(c, cmd, n) ==
  /\ at[c] = "loop"
  /\ n \in ReadSizes(down[c])
  /\ Head(down[c]).cmd = cmd
  /\ down' = [down EXCEPT ![c] = Behind(@, n)]

PrintsText(c) ==
  /\ \E n \in DOMAIN down[c] : Reads(c, "TEXT", n)
  /\ UNCHANGED <<at, asked, peers, conn, up, server, shown, lines>>

USERNAME(c) ==
  /\ \E n \in DOMAIN down[c] : Reads(c, "USERNAME", n)
  /\ shown' = [shown EXCEPT ![c] = Head(down[c]).name]
  /\ UNCHANGED <<at, asked, peers, conn, up, server, lines>>

(* With anything behind it, it is a command the client does not recognize.   *)
NEWPROMPT(c) ==
  /\ \E n \in DOMAIN down[c] :
       Reads(c, "NEWPROMPT", n) /\ Goes(c, IF n > 1 THEN "over" ELSE "loop")
  /\ UNCHANGED <<asked, peers, conn, up, server, shown, lines>>

(* Mutant of AskedBy: the arguments of /ftreq are not stored. *)
AskedBy_before(c, m) == asked[c]

AskedBy(c, m) == [from |-> m.from, size |-> m.size, by |-> m.by]

FTREQ_prompt(c) ==
  /\ \E n \in DOMAIN down[c] : Reads(c, "FTREQ", n)
  /\ asked' = [asked EXCEPT ![c] = AskedBy(c, Head(down[c]))]
  /\ Goes(c, "prompt")
  /\ UNCHANGED <<peers, conn, up, server, shown, lines>>

(* Behind the server's last message is the end of file, even when a reset has  *)
(* come after it.  The loop ends there if the user says so, or if connecting  *)
(* again fails.  The client does not log in again.                           *)
RECONNECT(c) ==
  /\ at[c] = "loop" /\ down[c] = <<>> /\ conn[c] \in {"eof", "eof_written", "eof_reset"}
  /\ \/ conn' = [conn EXCEPT ![c] = "up"] /\ UNCHANGED at
     \/ Goes(c, "over") /\ UNCHANGED conn
  /\ UNCHANGED <<asked, peers, up, down, server, shown, lines>>

(* A reset without an end of file. *)
readline_fails(c) ==
  /\ at[c] = "loop" /\ down[c] = <<>> /\ conn[c] = "reset"
  /\ Goes(c, "over")
  /\ UNCHANGED <<asked, peers, conn, up, down, server, shown, lines>>
-----------------------------------------------------------------------------
(* The receiver's side of a transfer. *)

prompt_user_for_file_transfer(c) ==
  /\ at[c] = "prompt"
  /\ \/ Tell(c, [cmd |-> "FTREQP", name |-> asked[c].from], "listen")
     \/ Tell(c, [cmd |-> "FTREQN", name |-> asked[c].from], "loop")
  /\ UNCHANGED <<asked, peers, down, server, shown, lines>>

(* Mutant of NextPort: every socket is bound to the same port. *)
NextPort_fixed(c) == 1

NextPort(c) == port[c] + 1

Latest(c) == [host |-> c, num |-> port[c]]

(* The socket is bound and listens before its port is announced; it stays     *)
(* open when the announced size is 0 and the client goes back to its loop.   *)
set_up_peer_2_peer(c) ==
  /\ at[c] = "listen"
  /\ port' = [port EXCEPT ![c] = NextPort(c)]
  /\ Tell(c, [cmd |-> "CONN_INFO", name |-> asked[c].from,
              port |-> [host |-> c, num |-> NextPort(c)]],
          IF asked[c].size = "zero" THEN "loop" ELSE "accept")
  /\ UNCHANGED <<asked, link, conns, taken, filled, saved, cut, down, server, shown, lines>>

Calls(p) == {d \in Clients : [port |-> p, from |-> d] \in conns}

(* do_accept and the greeting. *)
do_accept(c) ==
  /\ at[c] = "accept"
  /\ Calls(Latest(c)) # {}
  /\ taken' = taken \cup {Latest(c)}
  /\ Goes(c, "inbox")
  /\ UNCHANGED <<asked, port, link, conns, filled, saved, cut,
                 conn, up, down, server, shown, lines>>

(* accept_file's questions: a user who cancels leaves the connection open.   *)
accept_file(c) ==
  /\ at[c] = "inbox"
  /\ \E yes \in BOOLEAN : Goes(c, IF yes THEN "receive" ELSE "loop")
  /\ UNCHANGED <<asked, peers, conn, up, down, server, shown, lines>>

(* The loop ends with the announced number of bytes: with a wrong one at any    *)
(* time, or never.  When the sender has ended, reads return 0 for ever; but a  *)
(* reset connection makes readline end the client.                           *)
rcv_file(c) ==
  /\ at[c] = "receive"
  /\ \/ /\ Latest(c) \in filled
        /\ saved' = saved \cup {Latest(c)}
        /\ Goes(c, "loop")
     \/ asked[c].size = "wrong" /\ Goes(c, "loop") /\ UNCHANGED saved
     \/ /\ Latest(c) \notin filled \/ asked[c].size = "wrong"
        /\ \E d \in Calls(Latest(c)) : at[d] = "over"
        /\ Goes(c, IF Latest(c) \in cut THEN "over" ELSE "spin")
        /\ UNCHANGED saved
  /\ UNCHANGED <<asked, port, link, conns, taken, filled, cut,
                 conn, up, down, server, shown, lines>>
-----------------------------------------------------------------------------
(* The sender's side. *)

(* INFO_CONN.  With a text behind it the address may not resolve, which ends  *)
(* the client.  An empty file is not sent.                                   *)
connect_to_peer_2_peer(c) ==
  /\ \E n \in DOMAIN down[c] :
       /\ Reads(c, "INFO_CONN", n)
       /\ LET p == Head(down[c]).port
          IN  \/ c \notin Holders /\ UNCHANGED <<at, link, conns>>
              \/ /\ c \in Holders
                 /\ at[p.host] = "over" \/ n > 1
                 /\ Goes(c, "over")
                 /\ UNCHANGED <<link, conns>>
              \/ /\ c \in Holders
                 /\ at[p.host] # "over"
                 /\ link' = [link EXCEPT ![c] = p]
                 /\ conns' = conns \cup {[port |-> p, from |-> c]}
                 /\ Goes(c, "greeting")
  /\ UNCHANGED <<asked, port, taken, filled, saved, cut, conn, up, server, shown, lines>>

(* Mutant of Greeted: the sender does not wait to be greeted. *)
Greeted_unread(c) == TRUE

Greeted(c) == link[c] \in taken

(* The greeting, or a reset if the receiver has ended without accepting. *)
read_greeting(c) ==
  /\ at[c] = "greeting"
  /\ \/ Greeted(c) /\ Goes(c, "send")
     \/ ~Greeted(c) /\ at[link[c].host] = "over" /\ Goes(c, "over")
  /\ UNCHANGED <<asked, peers, conn, up, down, server, shown, lines>>

Receiving(p) == at[p.host] = "receive" /\ Latest(p.host) = p

(* A small file is written at once, whoever is there to read it; a big one    *)
(* when the receiver reads.  A receiver that has ended ends the sender by     *)
(* SIGPIPE, unless one write was enough.                                     *)
send_file(c) ==
  /\ at[c] = "send"
  /\ \/ /\ c \notin Big \/ Receiving(link[c])
        /\ filled' = filled \cup {link[c]}
        /\ Goes(c, "loop")
     \/ /\ at[link[c].host] = "over"
        /\ Goes(c, "over")
        /\ UNCHANGED filled
  /\ UNCHANGED <<asked, port, link, conns, taken, saved, cut,
                 conn, up, down, server, shown, lines>>

(* The user quits, or the process is killed.  A greeting that has arrived and   *)
(* was not read makes its kernel reset the connection instead of ending it.   *)
Ends(c) ==
  /\ "kill" \in Faults
  /\ at[c] # "over"
  /\ Goes(c, "over")
  /\ \/ UNCHANGED cut
     \/ at[c] = "greeting" /\ Greeted(c) /\ cut' = cut \cup {link[c]}
  /\ UNCHANGED <<asked, port, link, conns, taken, filled, saved,
                 conn, up, down, server, shown, lines>>
-----------------------------------------------------------------------------
Types(c) == TypesSend(c) \/ TypesMsgall(c) \/ TypesNick(c)

(* What a client does by itself, its user's answers included. *)
Client(c) ==
  \/ PrintsText(c) \/ USERNAME(c) \/ NEWPROMPT(c) \/ FTREQ_prompt(c)
  \/ RECONNECT(c) \/ readline_fails(c)
  \/ prompt_user_for_file_transfer(c) \/ set_up_peer_2_peer(c) \/ do_accept(c)
  \/ accept_file(c) \/ rcv_file(c)
  \/ connect_to_peer_2_peer(c) \/ read_greeting(c) \/ send_file(c)

TheServer == Deliver \/ \E c \in Clients : Serve(c) \/ QUIT(c)

Next ==
  \/ TheServer \/ Restart
  \/ \E c \in Clients : Types(c) \/ Client(c) \/ ResetArrives(c) \/ Ends(c)

Spec == Init /\ [][Next]_vars

(* The processes run and the users answer the questions they are asked; what  *)
(* they type of their own accord is up to them.                              *)
FairSpec ==
  Spec /\ WF_vars(TheServer) /\ \A c \in Clients : WF_vars(Client(c))
=============================================================================
