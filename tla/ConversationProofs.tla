------------------------- MODULE ConversationProofs -------------------------
(***************************************************************************)
(* Who is written to, under which name, whether anybody answers, and who      *)
(* waits for whom, in module Transfer.                                      *)
(***************************************************************************)
EXTENDS HandshakeProofs

(* With a server and peers that stay and one message to a read, nothing ends a *)
(* client: every write to the server goes through, and every port that is     *)
(* announced belongs to a client that is there.                             *)
Healthy == \A c \in Clients : at[c] # "over" /\ conn[c] = "up"

LEMMA OneByOne ==
  ASSUME "join" \notin Faults, NEW stream, NEW n \in ReadSizes(stream)
  PROVE  n = 1
BY DEF ReadSizes

LEMMA HealthyStep ==
  ASSUME "join" \notin Faults, "kill" \notin Faults, "restart" \notin Faults
  PROVE  Typed /\ Healthy /\ [Next]_vars => Healthy'
<1> SUFFICES ASSUME Typed, Healthy, [Next]_vars PROVE Healthy'
  OBVIOUS
<1>1. TypeOK /\ Settled
  BY DEF Typed
<1>2. ASSUME NEW c \in Clients, NEW place, place # "over", Goes(c, place), UNCHANGED conn
      PROVE  Healthy'
  BY <1>1, <1>2 DEF Goes, Healthy, TypeOK
<1>3. ASSUME NEW c \in Clients, NEW m, NEW place, place # "over", Tell(c, m, place)
      PROVE  Healthy'
  <2>1. Goes(c, place) /\ UNCHANGED conn
    BY <1>3 DEF Tell, Healthy
  <2>2. QED BY <1>2, <1>3, <2>1
<1>4. CASE TheServer \/ Restart
  BY <1>4 DEF TheServer, Deliver, Serve, QUIT, Restart, Healthy
<1>5. ASSUME NEW c \in Clients, Types(c) PROVE Healthy'
  <2>1. \E m : Tell(c, m, "loop")
    BY <1>5 DEF Types, TypesSend, TypesMsgall, TypesNick, handle_client_message
  <2>2. QED BY <1>3, <2>1
<1>6. ASSUME NEW c \in Clients, PrintsText(c) \/ USERNAME(c) PROVE Healthy'
  BY <1>6 DEF PrintsText, USERNAME, Healthy
<1>7. ASSUME NEW c \in Clients, NEWPROMPT(c) PROVE Healthy'
  <2>1. PICK n : Reads(c, "NEWPROMPT", n) /\ Goes(c, IF n > 1 THEN "over" ELSE "loop")
    BY <1>7 DEF NEWPROMPT
  <2>2. n = 1
    BY <2>1, OneByOne DEF Reads
  <2>3. Goes(c, "loop") /\ UNCHANGED conn
    BY <1>7, <2>1, <2>2 DEF NEWPROMPT
  <2>4. QED BY <1>2, <2>3
<1>8. ASSUME NEW c \in Clients,
             FTREQ_prompt(c) \/ do_accept(c) \/ accept_file(c) \/ rcv_file(c)
      PROVE  Healthy'
  <2>1. UNCHANGED conn /\ \E place \in Places \ {"over"} : Goes(c, place)
    <3>1. CASE FTREQ_prompt(c) \/ do_accept(c) \/ accept_file(c)
      BY <3>1 DEF FTREQ_prompt, do_accept, accept_file, Places
    <3>2. CASE rcv_file(c)
      <4>1. UNCHANGED conn /\ Goes(c, "loop")
        BY <3>2 DEF rcv_file, Calls, Healthy
      <4>2. QED BY <4>1 DEF Places
    <3>3. QED BY <1>8, <3>1, <3>2
  <2>2. QED BY <1>2, <2>1
<1>9. ASSUME NEW c \in Clients,
             RECONNECT(c) \/ readline_fails(c) \/ ResetArrives(c) \/ Ends(c)
      PROVE  Healthy'
  BY <1>9 DEF RECONNECT, readline_fails, ResetArrives, Ends, Healthy
<1>10. ASSUME NEW c \in Clients, prompt_user_for_file_transfer(c) \/ set_up_peer_2_peer(c)
       PROVE  Healthy'
  <2>1. \E m : Tell(c, m, "loop") \/ Tell(c, m, "listen") \/ Tell(c, m, "accept")
    BY <1>10 DEF prompt_user_for_file_transfer, set_up_peer_2_peer
  <2>2. QED BY <1>3, <2>1
<1>11. ASSUME NEW c \in Clients, connect_to_peer_2_peer(c) PROVE Healthy'
  <2>1. PICK n : /\ Reads(c, "INFO_CONN", n)
                 /\ LET p == Head(down[c]).port
                    IN  \/ UNCHANGED at
                        \/ at[p.host] = "over" \/ n > 1
                        \/ Goes(c, "greeting")
    BY <1>11 DEF connect_to_peer_2_peer
  <2>2. n = 1
    BY <2>1, OneByOne DEF Reads
  <2>3. Head(down[c]).port.host \in Clients
    <3>1. Head(down[c]) \in Messages /\ Head(down[c]).cmd = "INFO_CONN"
      BY <1>1, <2>1, ReadsStep
    <3>2. QED BY <3>1, MessageFields DEF Ports
  <2>4. UNCHANGED conn /\ (UNCHANGED at \/ Goes(c, "greeting"))
    BY <1>11, <2>1, <2>2, <2>3 DEF connect_to_peer_2_peer, Healthy
  <2>5. QED BY <1>2, <2>4 DEF Healthy
<1>12. ASSUME NEW c \in Clients, read_greeting(c) \/ send_file(c) PROVE Healthy'
  <2>1. at[c] \in {"greeting", "send"}
    BY <1>12 DEF read_greeting, send_file
  <2>2. link[c].host \in Clients
    BY <1>1, <2>1 DEF Settled, Ports
  <2>3. UNCHANGED conn /\ (Goes(c, "send") \/ Goes(c, "loop"))
    BY <1>12, <2>2 DEF read_greeting, send_file, Healthy
  <2>4. QED BY <1>2, <2>3
<1>13. CASE UNCHANGED vars
  BY <1>13 DEF vars, Healthy
<1>14. QED
  BY <1>4, <1>5, <1>6, <1>7, <1>8, <1>9, <1>10, <1>11, <1>12, <1>13 DEF Next, Client

LEMMA HealthyInvariant ==
  ASSUME "join" \notin Faults, "kill" \notin Faults, "restart" \notin Faults
  PROVE  Spec => [](Accounts /\ OneMention /\ Healthy)
<1>1. Init => Healthy
  BY DEF Init, Healthy
<1>2. Accounts /\ OneMention /\ Healthy /\ [Next]_vars => Healthy'
  BY HealthyStep DEF Accounts
<1>3. QED BY <1>1, <1>2, OneMentionInvariant, PTL DEF Spec

-----------------------------------------------------------------------------
(* The server finds clients by name.  Without /nick the only name a client     *)
(* ever has is its own, so a relayed message goes to the client meant.       *)

OwnNames ==
  /\ \A c \in Clients : nick[c] \in {c, NoName}
  /\ \A c \in Clients : \A k \in DOMAIN up[c] : up[c][k].cmd # "NICK"

LEMMA OwnNamesStep ==
  ASSUME "rename" \notin Faults
  PROVE  Typed /\ OwnNames /\ [Next]_vars => OwnNames'
<1> SUFFICES ASSUME Typed, OwnNames, [Next]_vars PROVE OwnNames'
  OBVIOUS
<1>1. TypeOK /\ Settled /\ {"loop", "listen", "accept"} \subseteq Places
  BY DEF Typed, Places
<1>2. CASE UNCHANGED <<up, nick>>
  BY <1>2 DEF OwnNames
<1>3. ASSUME NEW c \in Clients, NEW m, NEW place, Tell(c, m, place), UNCHANGED nick,
             m \in Requests, m.cmd # "NICK", place \in Places
      PROVE  OwnNames'
  <2>1. \A d \in Clients : \A k \in DOMAIN up'[d] :
          (k \in DOMAIN up[d] /\ up'[d][k] = up[d][k]) \/ up'[d][k] = m
    BY <1>1, <1>3, TellStep
  <2>2. QED BY <1>3, <2>1 DEF OwnNames
<1>4. ASSUME NEW c \in Clients, Types(c) PROVE OwnNames'
  <2>1. \A s \in Announced(c) : s \in Sizes
    BY DEF Announced, Sizes
  <2>2. UNCHANGED nick /\ \E m \in Requests : m.cmd # "NICK" /\ Tell(c, m, "loop")
    BY <1>4, <2>1, RequestsMade
       DEF Types, TypesSend, TypesMsgall, TypesNick, handle_client_message, server
  <2>3. QED BY <1>1, <1>3, <2>2
<1>5. ASSUME NEW c \in Clients, prompt_user_for_file_transfer(c) PROVE OwnNames'
  <2>1. asked[c].from \in Names
    BY <1>1, <1>5 DEF prompt_user_for_file_transfer, Settled
  <2>2. /\ UNCHANGED nick
        /\ \E m \in Requests : /\ m.cmd # "NICK"
                               /\ Tell(c, m, "loop") \/ Tell(c, m, "listen")
    BY <1>5, <2>1, RequestsMade DEF prompt_user_for_file_transfer, server
  <2>3. QED BY <1>1, <1>3, <2>2
<1>6. ASSUME NEW c \in Clients, set_up_peer_2_peer(c) PROVE OwnNames'
  <2>1. UNCHANGED nick
    BY <1>6 DEF set_up_peer_2_peer, server
  <2>2. PICK m, place : Tell(c, m, place) /\ m.cmd = "CONN_INFO"
    BY <1>6 DEF set_up_peer_2_peer
  <2>3. up' = up \/ up' = [up EXCEPT ![c] = Append(up[c], m)]
    BY <2>2 DEF Tell
  <2>4. \A k \in DOMAIN Append(up[c], m) : Append(up[c], m)[k].cmd # "NICK"
    <3>1. up[c] \in Seq(Requests \cup {m}) /\ m \in Requests \cup {m}
      BY <1>1, SeqMonotonic DEF TypeOK
    <3>2. \A k \in DOMAIN Append(up[c], m) :
            (k \in DOMAIN up[c] /\ Append(up[c], m)[k] = up[c][k]) \/ Append(up[c], m)[k] = m
      BY <3>1, AppendSeq
    <3>3. QED BY <2>2, <3>2 DEF OwnNames
  <2>5. QED BY <1>1, <2>1, <2>3, <2>4 DEF OwnNames, TypeOK
<1>7. ASSUME NEW c \in Clients, Serve(c) PROVE OwnNames'
  <2>1. up[c][1].cmd # "NICK" /\ nick' = nick
    BY <1>1, <1>7, ServeStep DEF OwnNames
  <2>2. \A d \in Clients : \A k \in DOMAIN up'[d] : \E j \in DOMAIN up[d] : up'[d][k] = up[d][j]
    BY <1>1, <1>7, ServeStep
  <2>3. QED BY <2>1, <2>2 DEF OwnNames
<1>8. CASE Restart \/ \E c \in Clients : QUIT(c)
  <2>1. up' = up \/ up' = [c \in Clients |-> <<>>]
    BY <1>8 DEF Restart, QUIT
  <2>2. \A d \in Clients : nick'[d] \in {nick[d], NoName}
    BY <1>1, <1>8 DEF Restart, QUIT, TypeOK
  <2>3. QED BY <2>1, <2>2 DEF OwnNames
<1>9. CASE Deliver
  BY <1>2, <1>9 DEF Deliver
<1>10. ASSUME NEW c \in Clients,
              \/ PrintsText(c) \/ USERNAME(c) \/ NEWPROMPT(c) \/ FTREQ_prompt(c)
              \/ connect_to_peer_2_peer(c) \/ RECONNECT(c) \/ readline_fails(c)
              \/ do_accept(c) \/ accept_file(c) \/ rcv_file(c) \/ read_greeting(c)
              \/ send_file(c) \/ ResetArrives(c) \/ Ends(c)
       PROVE  OwnNames'
  BY <1>2, <1>10 DEF PrintsText, USERNAME, NEWPROMPT, FTREQ_prompt, connect_to_peer_2_peer,
     RECONNECT, readline_fails, do_accept, accept_file, rcv_file, read_greeting, send_file,
     ResetArrives, Ends, server
<1>11. CASE UNCHANGED vars
  BY <1>2, <1>11 DEF vars, server
<1>12. QED
  BY <1>4, <1>5, <1>6, <1>7, <1>8, <1>9, <1>10, <1>11 DEF Next, TheServer, Client

(* Whatever mentions port p goes to the client named w. *)
OnlyFor(p, w) ==
  /\ \A c \in Clients : \A k \in DOMAIN up[c] :
       up[c][k].cmd = "CONN_INFO" /\ up[c][k].port = p => up[c][k].name = w
  /\ \A k \in DOMAIN pending :
       pending[k][2].cmd = "INFO_CONN" /\ pending[k][2].port = p => pending[k][1] = w
  /\ \A c \in Clients : \A k \in DOMAIN down[c] :
       down[c][k].cmd = "INFO_CONN" /\ down[c][k].port = p => c = w
  /\ Calls(p) \subseteq {w}

(* The port a client waits on, or receives from, goes to the client whose      *)
(* request it has accepted.                                                 *)
Directed == \A c \in Clients : at[c] \in Engaged => OnlyFor(Latest(c), asked[c].from)

LEMMA Unmentioned ==
  ASSUME NEW p, Mentions(p) = {}, TypeOK, NEW w
  PROVE  OnlyFor(p, w)
<1>1. ASSUME NEW c \in Clients, NEW k \in DOMAIN up[c]
      PROVE  ~(up[c][k].cmd = "CONN_INFO" /\ up[c][k].port = p)
  <2>1. k \in Nat
    <3>1. up[c] \in Seq(Requests)
      BY DEF TypeOK
    <3>2. QED BY <3>1, LenProperties
  <2>2. QED BY <2>1, IsMention DEF Sent
<1>2. ASSUME NEW k \in DOMAIN pending
      PROVE  ~(pending[k][2].cmd = "INFO_CONN" /\ pending[k][2].port = p)
  <2>1. k \in Nat /\ pending[k][1] \in Clients
    <3>1. pending \in Seq(Clients \X Messages)
      BY DEF TypeOK
    <3>2. QED BY <3>1, LenProperties, ElementOfSeq
  <2>2. \A j \in Nat, c \in Clients :
          ~(Queued(c, j, "INFO_CONN") /\ pending[j][2].port = p)
    BY IsMention
  <2>3. QED BY <2>1, <2>2 DEF Queued
<1>3. ASSUME NEW c \in Clients, NEW k \in DOMAIN down[c]
      PROVE  ~(down[c][k].cmd = "INFO_CONN" /\ down[c][k].port = p)
  <2>1. k \in Nat
    <3>1. down[c] \in Seq(Messages)
      BY DEF TypeOK
    <3>2. QED BY <3>1, LenProperties
  <2>2. QED BY <2>1, IsMention DEF Arriving
<1>4. Calls(p) = {}
  BY IsMention DEF Calls
<1>5. QED BY <1>1, <1>2, <1>3, <1>4 DEF OnlyFor

(* A step that adds no mention of p keeps what p is for. *)
LEMMA OnlyForKept ==
  ASSUME NEW p, NEW w, OnlyFor(p, w),
         \A c \in Clients : \A k \in DOMAIN up'[c] :
           up'[c][k].cmd = "CONN_INFO" /\ up'[c][k].port = p =>
             \E j \in DOMAIN up[c] : up'[c][k] = up[c][j],
         \A k \in DOMAIN pending' : \E j \in DOMAIN pending : pending'[k] = pending[j],
         \A c \in Clients : \A k \in DOMAIN down'[c] :
           \E j \in DOMAIN down[c] : down'[c][k] = down[c][j],
         UNCHANGED conns
  PROVE  OnlyFor(p, w)'
BY DEF OnlyFor, Calls

(* No step sends the mentions of a port elsewhere: the server passes them on    *)
(* to the client of that name.  A port that a step opens is not of this kind. *)
LEMMA OnlyForStep ==
  ASSUME Typed, OwnNames, [Next]_vars, NEW p, NEW w \in Names, OnlyFor(p, w),
         \A c \in Clients : set_up_peer_2_peer(c) => p # [host |-> c, num |-> NextPort(c)]
  PROVE  OnlyFor(p, w)'
<1>1. TypeOK /\ Settled /\ {"loop", "listen", "accept"} \subseteq Places
  BY DEF Typed, Places
<1>2. CASE UNCHANGED <<up, pending, down, conns>>
  BY <1>2 DEF OnlyFor, Calls
<1>3. ASSUME NEW c \in Clients, NEW m \in Requests, NEW place \in Places,
             Tell(c, m, place), UNCHANGED <<pending, down, conns>>,
             ~(m.cmd = "CONN_INFO" /\ m.port = p)
      PROVE  OnlyFor(p, w)'
  <2>1. \A d \in Clients : \A k \in DOMAIN up'[d] :
          (k \in DOMAIN up[d] /\ up'[d][k] = up[d][k]) \/ up'[d][k] = m
    BY <1>1, <1>3, TellStep
  <2>2. QED BY <1>3, <2>1, OnlyForKept
<1>4. ASSUME NEW c \in Clients, Types(c) PROVE OnlyFor(p, w)'
  <2>1. \A s \in Announced(c) : s \in Sizes
    BY DEF Announced, Sizes
  <2>2. /\ UNCHANGED <<pending, down, conns>>
        /\ \E m \in Requests : m.cmd # "CONN_INFO" /\ Tell(c, m, "loop")
    BY <1>4, <2>1, RequestsMade
       DEF Types, TypesSend, TypesMsgall, TypesNick, handle_client_message, server, peers
  <2>3. QED BY <1>1, <1>3, <2>2
<1>5. ASSUME NEW c \in Clients, prompt_user_for_file_transfer(c) PROVE OnlyFor(p, w)'
  <2>1. asked[c].from \in Names
    BY <1>1, <1>5 DEF prompt_user_for_file_transfer, Settled
  <2>2. /\ UNCHANGED <<pending, down, conns>>
        /\ \E m \in Requests : /\ m.cmd # "CONN_INFO"
                               /\ Tell(c, m, "loop") \/ Tell(c, m, "listen")
    BY <1>5, <2>1, RequestsMade DEF prompt_user_for_file_transfer, server, peers
  <2>3. QED BY <1>1, <1>3, <2>2
<1>6. ASSUME NEW c \in Clients, set_up_peer_2_peer(c) PROVE OnlyFor(p, w)'
  <2>1. UNCHANGED <<pending, down, conns>>
    BY <1>6 DEF set_up_peer_2_peer, server
  <2>2. PICK m, place : Tell(c, m, place) /\ m.port # p
    <3>1. [host |-> c, num |-> NextPort(c)] # p
      BY <1>6
    <3> DEFINE m == [cmd |-> "CONN_INFO", name |-> asked[c].from,
                     port |-> [host |-> c, num |-> NextPort(c)]]
    <3>2. m.port # p
      BY <3>1
    <3>3. \E place : Tell(c, m, place)
      BY <1>6 DEF set_up_peer_2_peer
    <3> HIDE DEF m
    <3>4. QED BY <3>2, <3>3
  <2>3. up' = up \/ up' = [up EXCEPT ![c] = Append(up[c], m)]
    BY <2>2 DEF Tell
  <2>4. up[c] \in Seq(Requests \cup {m}) /\ m \in Requests \cup {m}
    BY <1>1, SeqMonotonic DEF TypeOK
  <2>5. \A k \in DOMAIN Append(up[c], m) :
          (k \in DOMAIN up[c] /\ Append(up[c], m)[k] = up[c][k]) \/ Append(up[c], m)[k] = m
    BY <2>4, AppendSeq
  <2>6. \A d \in Clients : \A k \in DOMAIN up'[d] :
          (k \in DOMAIN up[d] /\ up'[d][k] = up[d][k]) \/ up'[d][k] = m
    BY <1>1, <2>3, <2>5 DEF TypeOK
  <2>7. QED BY <2>1, <2>2, <2>6, OnlyForKept
<1>7. ASSUME NEW c \in Clients, Serve(c) PROVE OnlyFor(p, w)'
  <2>1. UNCHANGED <<down, conns>>
    BY <1>7 DEF Serve, peers
  <2>2. /\ \A d \in Clients : \A k \in DOMAIN up'[d] : \E j \in DOMAIN up[d] : up'[d][k] = up[d][j]
        /\ 1 \in DOMAIN up[c] /\ up[c][1] \in Requests /\ Handles(c, up[c][1], pending')
    BY <1>1, <1>7, ServeStep
  <2>3. ASSUME NEW k \in DOMAIN pending',
               pending'[k][2].cmd = "INFO_CONN", pending'[k][2].port = p
        PROVE  pending'[k][1] = w
    <3>1. /\ up[c][1].cmd = "CONN_INFO" /\ up[c][1].port = p
          /\ pending'[k][1] \in Named(up[c][1].name)
      BY <2>2, <2>3 DEF Handles
    <3>2. up[c][1].name = w
      BY <2>2, <3>1 DEF OnlyFor
    <3>3. QED BY <3>1, <3>2, TransferAssumption DEF Named, OwnNames
  <2>4. QED BY <2>1, <2>2, <2>3 DEF OnlyFor, Calls
<1>8. CASE Deliver
  <2>1. UNCHANGED <<up, conns>>
    BY <1>8 DEF Deliver, peers
  <2>2. /\ 1 \in DOMAIN pending
        /\ \A k \in DOMAIN pending' : \E j \in DOMAIN pending : pending'[k] = pending[j]
        /\ \A d \in Clients : \A k \in DOMAIN down'[d] :
             \/ k \in DOMAIN down[d] /\ down'[d][k] = down[d][k]
             \/ d = pending[1][1] /\ down'[d][k] = pending[1][2]
    BY <1>1, <1>8, DeliverStep
  <2>3. QED BY <2>1, <2>2 DEF OnlyFor, Calls
<1>9. ASSUME NEW c \in Clients,
             \/ PrintsText(c) \/ USERNAME(c) \/ NEWPROMPT(c) \/ FTREQ_prompt(c)
             \/ connect_to_peer_2_peer(c)
      PROVE  OnlyFor(p, w)'
  <2>1. PICK cmd, n : Reads(c, cmd, n) /\ (conns' # conns => cmd = "INFO_CONN")
    BY <1>9 DEF PrintsText, USERNAME, NEWPROMPT, FTREQ_prompt, connect_to_peer_2_peer, peers
  <2>2. UNCHANGED <<pending, up>>
    BY <1>9 DEF PrintsText, USERNAME, NEWPROMPT, FTREQ_prompt, connect_to_peer_2_peer,
                peers, server
  <2>3. /\ 1 \in DOMAIN down[c] /\ down[c][1].cmd = cmd /\ Head(down[c]) = down[c][1]
        /\ \A d \in Clients : \A k \in DOMAIN down'[d] :
             \E j \in DOMAIN down[d] : down'[d][k] = down[d][j]
    <3>1. Reads(c, cmd, n)
      BY <2>1
    <3>2. /\ 1 \in DOMAIN down[c] /\ down[c][1].cmd = cmd /\ Head(down[c]) = down[c][1]
          /\ \A d \in Clients \ {c} : down'[d] = down[d]
          /\ \A k \in DOMAIN down'[c] : k + n \in DOMAIN down[c] /\ down'[c][k] = down[c][k + n]
      BY <1>1, <3>1, ReadsStep
    <3>3. \A k \in DOMAIN down'[c] : \E j \in DOMAIN down[c] : down'[c][k] = down[c][j]
      BY <3>2
    <3>4. QED BY <3>2, <3>3
  <2>4. conns' = conns \/ conns' = conns \cup {[port |-> down[c][1].port, from |-> c]}
    BY <1>9, <2>3 DEF PrintsText, USERNAME, NEWPROMPT, FTREQ_prompt, connect_to_peer_2_peer, peers
  <2>5. Calls(p)' \subseteq {w}
    <3>1. ASSUME NEW d \in Clients, [port |-> p, from |-> d] \in conns' PROVE d = w
      <4>1. CASE [port |-> p, from |-> d] \in conns
        BY <4>1 DEF OnlyFor, Calls
      <4>2. CASE [port |-> p, from |-> d] \notin conns
        <5>1. d = c /\ down[c][1].port = p /\ down[c][1].cmd = "INFO_CONN"
          BY <2>1, <2>3, <2>4, <3>1, <4>2
        <5>2. QED BY <2>3, <5>1 DEF OnlyFor
      <4>3. QED BY <4>1, <4>2
    <3>2. QED BY <3>1 DEF Calls
  <2>6. QED BY <2>2, <2>3, <2>5 DEF OnlyFor
<1>10. CASE Restart \/ \E c \in Clients : QUIT(c)
  <2>1. UNCHANGED <<down, conns>> /\ (pending' = pending \/ pending' = <<>>)
    BY <1>10 DEF Restart, QUIT, peers
  <2>2. up' = up \/ up' = [c \in Clients |-> <<>>]
    BY <1>10 DEF Restart, QUIT
  <2>3. QED BY <2>1, <2>2 DEF OnlyFor, Calls
<1>11. ASSUME NEW c \in Clients,
              \/ RECONNECT(c) \/ readline_fails(c) \/ do_accept(c) \/ accept_file(c)
              \/ rcv_file(c) \/ read_greeting(c) \/ send_file(c) \/ ResetArrives(c) \/ Ends(c)
       PROVE  OnlyFor(p, w)'
  BY <1>2, <1>11 DEF RECONNECT, readline_fails, do_accept, accept_file, rcv_file,
     read_greeting, send_file, ResetArrives, Ends, server, peers
<1>12. CASE UNCHANGED vars
  BY <1>2, <1>12 DEF vars, server, peers
<1>13. QED
  BY <1>4, <1>5, <1>6, <1>7, <1>8, <1>9, <1>10, <1>11, <1>12 DEF Next, TheServer, Client

(* A client that is engaged after a step was so before and has the same port   *)
(* and the same request, unless the step opens its port.                    *)
LEMMA StaysEngaged ==
  ASSUME TypeOK, [Next]_vars, NEW c \in Clients, at'[c] \in Engaged, ~set_up_peer_2_peer(c)
  PROVE  at[c] \in Engaged /\ asked'[c] = asked[c] /\ port'[c] = port[c]
<1>1. CASE TheServer \/ Restart
  BY <1>1 DEF TheServer, Deliver, Serve, QUIT, Restart, peers
<1>2. ASSUME NEW d \in Clients, NEW place, place \notin Engaged \/ at[d] \in Engaged,
             Goes(d, place), UNCHANGED <<asked, port>>
      PROVE  at[c] \in Engaged /\ asked'[c] = asked[c] /\ port'[c] = port[c]
  BY <1>2 DEF Goes, TypeOK
<1>3. ASSUME NEW d \in Clients, NEW m, NEW place, place \notin Engaged, Tell(d, m, place),
             UNCHANGED <<asked, port>>
      PROVE  at[c] \in Engaged /\ asked'[c] = asked[c] /\ port'[c] = port[c]
  <2>1. Goes(d, place) \/ Goes(d, "over")
    BY <1>3 DEF Tell
  <2>2. QED BY <1>2, <1>3, <2>1 DEF Engaged
<1>4. ASSUME NEW d \in Clients, Types(d) \/ prompt_user_for_file_transfer(d)
      PROVE  at[c] \in Engaged /\ asked'[c] = asked[c] /\ port'[c] = port[c]
  <2>1. \E m : Tell(d, m, "loop") \/ Tell(d, m, "listen")
    BY <1>4 DEF Types, TypesSend, TypesMsgall, TypesNick, handle_client_message,
                prompt_user_for_file_transfer
  <2>2. UNCHANGED <<asked, port>>
    BY <1>4 DEF Types, TypesSend, TypesMsgall, TypesNick, handle_client_message,
                prompt_user_for_file_transfer, peers
  <2>3. QED BY <1>3, <2>1, <2>2 DEF Engaged
<1>5. ASSUME NEW d \in Clients, FTREQ_prompt(d)
      PROVE  at[c] \in Engaged /\ asked'[c] = asked[c] /\ port'[c] = port[c]
  <2>1. at' = [at EXCEPT ![d] = "prompt"] /\ port' = port
    BY <1>5 DEF FTREQ_prompt, Goes, peers
  <2>2. c # d /\ at[c] \in Engaged
    BY <2>1 DEF TypeOK, Engaged
  <2>3. asked'[c] = asked[c]
    BY <1>5, <2>2 DEF FTREQ_prompt, TypeOK
  <2>4. QED BY <2>1, <2>2, <2>3
<1>6. ASSUME NEW d \in Clients, set_up_peer_2_peer(d)
      PROVE  at[c] \in Engaged /\ asked'[c] = asked[c] /\ port'[c] = port[c]
  <2>1. \E place : Goes(d, place)
    BY <1>6 DEF set_up_peer_2_peer, Tell
  <2>2. d # c /\ at'[c] = at[c]
    BY <1>6, <2>1 DEF Goes, TypeOK
  <2>3. QED BY <1>6, <2>2 DEF set_up_peer_2_peer, TypeOK
<1>7. ASSUME NEW d \in Clients,
             \/ PrintsText(d) \/ USERNAME(d) \/ NEWPROMPT(d) \/ connect_to_peer_2_peer(d)
             \/ RECONNECT(d) \/ readline_fails(d) \/ do_accept(d) \/ accept_file(d)
             \/ rcv_file(d) \/ read_greeting(d) \/ send_file(d) \/ ResetArrives(d) \/ Ends(d)
      PROVE  at[c] \in Engaged /\ asked'[c] = asked[c] /\ port'[c] = port[c]
  <2>1. UNCHANGED <<asked, port>>
    BY <1>7 DEF PrintsText, USERNAME, NEWPROMPT, connect_to_peer_2_peer, RECONNECT,
       readline_fails, do_accept, accept_file, rcv_file, read_greeting, send_file,
       ResetArrives, Ends, peers
  <2>2. UNCHANGED at \/ \E place : /\ place \notin Engaged \/ at[d] \in Engaged
                                 /\ Goes(d, place)
    <3>1. CASE PrintsText(d) \/ USERNAME(d) \/ NEWPROMPT(d) \/ RECONNECT(d) \/ readline_fails(d)
      BY <3>1 DEF PrintsText, USERNAME, NEWPROMPT, RECONNECT, readline_fails, Engaged
    <3>2. CASE connect_to_peer_2_peer(d)
      BY <3>2 DEF connect_to_peer_2_peer, Engaged
    <3>3. CASE do_accept(d) \/ accept_file(d) \/ rcv_file(d)
      BY <3>3 DEF do_accept, accept_file, rcv_file, Engaged
    <3>4. CASE read_greeting(d) \/ send_file(d) \/ ResetArrives(d) \/ Ends(d)
      BY <3>4 DEF read_greeting, send_file, ResetArrives, Ends, Engaged
    <3>5. QED BY <1>7, <3>1, <3>2, <3>3, <3>4
  <2>3. QED BY <1>2, <2>1, <2>2
<1>8. CASE UNCHANGED vars
  BY <1>8 DEF vars, peers
<1>9. QED BY <1>1, <1>4, <1>5, <1>6, <1>7, <1>8 DEF Next, Client

LEMMA DirectedStep ==
  ASSUME "rename" \notin Faults
  PROVE  Accounts /\ OneMention /\ OwnNames /\ Directed /\ [Next]_vars => Directed'
<1> SUFFICES ASSUME Accounts, OneMention, OwnNames, Directed, [Next]_vars,
                    NEW c \in Clients, at'[c] \in Engaged
             PROVE  OnlyFor(Latest(c), asked[c].from)'
  BY DEF Directed
<1>1. Typed /\ TypeOK /\ HasPort /\ Typed'
  BY BudgetBoundsPorts, TypedStep DEF Accounts, Typed
<1>2. CASE set_up_peer_2_peer(c)
  <2>1. asked[c].from \in Names /\ UNCHANGED <<asked, pending, down, conns>>
    BY <1>1, <1>2 DEF set_up_peer_2_peer, Typed, Settled, server
  <2>2. port[c] + 1 \in 1 .. MaxLines /\ port[c] \in Nat
    BY <1>1, <1>2, TransferAssumption DEF TypeOK, HasPort, set_up_peer_2_peer
  <2>3. PICK q \in Ports, w \in Names : q = [host |-> c, num |-> port[c] + 1] /\ w = asked[c].from
    BY <2>1, <2>2 DEF Ports
  <2>4. Mentions(q) = {}
    BY <2>2, <2>3 DEF OneMention
  <2>5. OnlyFor(q, w)
    BY <1>1, <2>4, Unmentioned
  <2>6. PICK m, place : Tell(c, m, place) /\ m.name = w
    BY <1>2, <2>3 DEF set_up_peer_2_peer
  <2>7. up' = up \/ up' = [up EXCEPT ![c] = Append(up[c], m)]
    BY <2>6 DEF Tell
  <2>8. up[c] \in Seq(Requests \cup {m}) /\ m \in Requests \cup {m}
    BY <1>1, SeqMonotonic DEF TypeOK
  <2>9. \A k \in DOMAIN Append(up[c], m) :
          (k \in DOMAIN up[c] /\ Append(up[c], m)[k] = up[c][k]) \/ Append(up[c], m)[k] = m
    BY <2>8, AppendSeq
  <2>10. \A d \in Clients : \A k \in DOMAIN up'[d] :
           (k \in DOMAIN up[d] /\ up'[d][k] = up[d][k]) \/ up'[d][k] = m
    BY <1>1, <2>7, <2>9 DEF TypeOK
  <2>11. OnlyFor(q, w)'
    BY <2>1, <2>5, <2>6, <2>10 DEF OnlyFor, Calls
  <2>12. Latest(c)' = q /\ asked'[c].from = w
    BY <1>1, <1>2, <2>1, <2>3 DEF Latest, set_up_peer_2_peer, NextPort, TypeOK
  <2>13. QED BY <2>11, <2>12 DEF OnlyFor, Calls
<1>3. CASE ~set_up_peer_2_peer(c)
  <2>1. at[c] \in Engaged /\ asked'[c] = asked[c] /\ port'[c] = port[c]
    BY <1>1, <1>3, StaysEngaged
  <2>2. asked[c].from \in Names
    BY <1>1, <2>1 DEF Typed, Settled
  <2>3. PICK p : p = Latest(c)
    OBVIOUS
  <2>4. PICK w \in Names : w = asked[c].from /\ p = Latest(c)
    BY <2>2, <2>3
  <2>5. OnlyFor(p, w)
    BY <2>1, <2>4 DEF Directed
  <2>6. ASSUME NEW d \in Clients, set_up_peer_2_peer(d)
        PROVE  p # [host |-> d, num |-> NextPort(d)]
    <3>1. p.host = c /\ c # d
      BY <1>3, <2>4, <2>6 DEF Latest
    <3>2. QED BY <3>1
  <2>7. OnlyFor(p, w)'
    BY <1>1, <2>5, <2>6, OnlyForStep
  <2>8. Latest(c)' = p /\ asked'[c].from = w
    BY <2>1, <2>4 DEF Latest
  <2>9. QED BY <2>7, <2>8 DEF OnlyFor, Calls
<1>4. QED BY <1>2, <1>3

(* A request comes under the name of the client that wrote it, which is its     *)
(* own.                                                                     *)
OwnRequests ==
  /\ \A k \in DOMAIN pending :
       pending[k][2].cmd = "FTREQ" => pending[k][2].from = pending[k][2].by
  /\ \A c \in Clients : \A k \in DOMAIN down[c] :
       down[c][k].cmd = "FTREQ" => down[c][k].from = down[c][k].by
  /\ \A c \in Clients : asked[c].from = asked[c].by

LEMMA OwnRequestsStep == Typed /\ OwnNames /\ OwnRequests /\ [Next]_vars => OwnRequests'
<1> SUFFICES ASSUME Typed, OwnNames, OwnRequests, [Next]_vars PROVE OwnRequests'
  OBVIOUS
<1>1. TypeOK
  BY DEF Typed
<1>2. CASE UNCHANGED <<down, asked>> /\ (pending' = <<>> \/ UNCHANGED pending)
  BY <1>2 DEF OwnRequests
<1>3. ASSUME NEW c \in Clients, Serve(c) PROVE OwnRequests'
  <2>1. UNCHANGED <<down, asked>>
    BY <1>3 DEF Serve
  <2>2. Handles(c, up[c][1], pending')
    BY <1>1, <1>3, ServeStep
  <2>3. ASSUME NEW k \in DOMAIN pending', pending'[k][2].cmd = "FTREQ"
        PROVE  pending'[k][2].from = pending'[k][2].by
    <3>1. pending'[k][2].from = nick[c] /\ pending'[k][2].by = c
      BY <2>2, <2>3 DEF Handles
    <3>2. pending'[k][2] \in Messages
      <4>1. pending' \in Seq(Clients \X Messages)
        BY <2>2 DEF Handles
      <4>2. QED BY <4>1, LenProperties, ElementOfSeq
    <3>3. nick[c] \in Names
      BY <2>3, <3>1, <3>2, MessageFields
    <3>4. QED BY <3>1, <3>3, TransferAssumption DEF OwnNames
  <2>4. QED BY <2>1, <2>3 DEF OwnRequests
<1>4. CASE Deliver
  <2>1. /\ UNCHANGED asked /\ 1 \in DOMAIN pending
        /\ \A k \in DOMAIN pending' : \E j \in DOMAIN pending : pending'[k] = pending[j]
        /\ \A d \in Clients : \A k \in DOMAIN down'[d] :
             \/ k \in DOMAIN down[d] /\ down'[d][k] = down[d][k]
             \/ down'[d][k] = pending[1][2]
    BY <1>1, <1>4, DeliverStep DEF Deliver
  <2>2. QED BY <2>1 DEF OwnRequests
<1>5. ASSUME NEW c \in Clients,
             \/ PrintsText(c) \/ USERNAME(c) \/ NEWPROMPT(c) \/ FTREQ_prompt(c)
             \/ connect_to_peer_2_peer(c)
      PROVE  OwnRequests'
  <2>1. UNCHANGED pending
    BY <1>5 DEF PrintsText, USERNAME, NEWPROMPT, FTREQ_prompt, connect_to_peer_2_peer, server
  <2>2. PICK cmd, n : /\ Reads(c, cmd, n)
                      /\ asked' = IF cmd = "FTREQ" THEN [asked EXCEPT ![c] = AskedBy(c, Head(down[c]))]
                                  ELSE asked
    BY <1>5 DEF PrintsText, USERNAME, NEWPROMPT, FTREQ_prompt, connect_to_peer_2_peer
  <2>3. /\ 1 \in DOMAIN down[c] /\ down[c][1].cmd = cmd /\ Head(down[c]) = down[c][1]
        /\ \A d \in Clients \ {c} : down'[d] = down[d]
        /\ \A k \in DOMAIN down'[c] : k + n \in DOMAIN down[c] /\ down'[c][k] = down[c][k + n]
    BY <1>1, <2>2, ReadsStep
  <2>4. \A k \in DOMAIN down'[c] : \E j \in DOMAIN down[c] : down'[c][k] = down[c][j]
    BY <2>3
  <2>5. ASSUME NEW d \in Clients PROVE asked'[d].from = asked'[d].by
    <3>1. CASE asked'[d] = asked[d]
      BY <3>1 DEF OwnRequests
    <3>2. CASE asked'[d] # asked[d]
      <4>1. cmd = "FTREQ" /\ asked'[d] = AskedBy(c, down[c][1])
        BY <1>1, <2>2, <2>3, <3>2 DEF TypeOK
      <4>2. QED BY <2>3, <4>1 DEF AskedBy, OwnRequests
    <3>3. QED BY <3>1, <3>2
  <2>6. QED BY <2>1, <2>3, <2>4, <2>5 DEF OwnRequests
<1>6. ASSUME NEW c \in Clients,
             \/ Types(c) \/ prompt_user_for_file_transfer(c) \/ set_up_peer_2_peer(c)
             \/ RECONNECT(c) \/ readline_fails(c) \/ do_accept(c) \/ accept_file(c)
             \/ rcv_file(c) \/ read_greeting(c) \/ send_file(c) \/ ResetArrives(c) \/ Ends(c)
      PROVE  OwnRequests'
  <2>1. UNCHANGED <<down, pending, asked>>
    BY <1>6 DEF Types, TypesSend, TypesMsgall, TypesNick, handle_client_message,
       prompt_user_for_file_transfer, set_up_peer_2_peer, RECONNECT, readline_fails, do_accept,
       accept_file, rcv_file, read_greeting, send_file, ResetArrives, Ends, server
  <2>2. QED BY <1>2, <2>1
<1>7. CASE Restart \/ UNCHANGED vars \/ \E c \in Clients : QUIT(c)
  BY <1>2, <1>7 DEF Restart, QUIT, vars, server
<1>8. QED BY <1>3, <1>4, <1>5, <1>6, <1>7 DEF Next, TheServer, Client

(* While nobody takes another name, no client reaches a receiver but the one   *)
(* whose request it has accepted, whatever sizes are lost, reads joined,      *)
(* clients killed and servers restarted.  With /nick one does.              *)
THEOREM AskerCalls ==
  ASSUME "rename" \notin Faults
  PROVE  Spec => []CallerIsAsker
<1>1. Init => OwnNames /\ OwnRequests /\ Directed
  BY DEF Init, OwnNames, OwnRequests, Directed, Engaged
<1>2. Accounts /\ OneMention /\ OwnNames /\ [Next]_vars => OwnNames'
  BY OwnNamesStep DEF Accounts
<1>3. Accounts /\ OneMention /\ OwnNames /\ Directed /\ [Next]_vars => Directed'
  BY DirectedStep
<1>4. Accounts /\ OwnNames /\ OwnRequests /\ [Next]_vars => OwnRequests'
  BY OwnRequestsStep DEF Accounts
<1>5. OwnRequests /\ Directed => CallerIsAsker
  BY DEF OwnRequests, Directed, OnlyFor, CallerIsAsker
<1>6. QED BY <1>1, <1>2, <1>3, <1>4, <1>5, OneMentionInvariant, PTL DEF Spec
-----------------------------------------------------------------------------
(* With one message to a read, and a client that is there to be written to,    *)
(* the streams and the server's handlers lose nothing.                      *)

LEMMA BehindKeeps ==
  ASSUME NEW S, NEW s \in Seq(S), 1 \in DOMAIN s
  PROVE  \A k \in DOMAIN s \ {1} :
           k - 1 \in DOMAIN Behind(s, 1) /\ Behind(s, 1)[k - 1] = s[k]
<1>1. /\ Len(s) \in Nat /\ DOMAIN s = 1 .. Len(s)
      /\ DOMAIN Behind(s, 1) = 1 .. Len(s) - 1
      /\ \A k \in DOMAIN Behind(s, 1) : Behind(s, 1)[k] = s[k + 1]
  BY BehindSeq
<1> SUFFICES ASSUME NEW k \in DOMAIN s \ {1}
             PROVE  k - 1 \in DOMAIN Behind(s, 1) /\ Behind(s, 1)[k - 1] = s[k]
  OBVIOUS
<1>2. k - 1 \in 1 .. Len(s) - 1 /\ (k - 1) + 1 = k
  BY <1>1
<1>3. QED BY <1>1, <1>2

LEMMA ReadsOne ==
  ASSUME "join" \notin Faults, TypeOK, NEW c \in Clients, NEW cmd, NEW n, Reads(c, cmd, n)
  PROVE  /\ n = 1
         /\ \A k \in DOMAIN down[c] \ {1} : k - 1 \in DOMAIN down'[c] /\ down'[c][k - 1] = down[c][k]
         /\ \A k \in DOMAIN down'[c] : k + 1 \in DOMAIN down[c] /\ down'[c][k] = down[c][k + 1]
<1>1. n = 1
  BY OneByOne DEF Reads
<1>2. /\ 1 \in DOMAIN down[c]
      /\ \A k \in DOMAIN down'[c] : k + n \in DOMAIN down[c] /\ down'[c][k] = down[c][k + n]
  BY ReadsStep
<1> DEFINE s == down[c]
<1> HIDE DEF s
<1>3. s \in Seq(Messages) /\ 1 \in DOMAIN s
  BY <1>2 DEF s, TypeOK
<1>4. \A k \in DOMAIN s \ {1} : k - 1 \in DOMAIN Behind(s, 1) /\ Behind(s, 1)[k - 1] = s[k]
  BY <1>3, BehindKeeps
<1>5. down'[c] = Behind(s, 1)
  BY <1>1 DEF s, Reads, TypeOK
<1>6. QED BY <1>1, <1>2, <1>4, <1>5 DEF s

LEMMA DeliverKeeps ==
  ASSUME TypeOK, Deliver
  PROVE  /\ \A k \in DOMAIN pending \ {1} :
              k - 1 \in DOMAIN pending' /\ pending'[k - 1] = pending[k]
         /\ at[pending[1][1]] # "over" =>
              \E k \in DOMAIN down'[pending[1][1]] :
                /\ k = Len(down[pending[1][1]]) + 1
                /\ down'[pending[1][1]][k] = pending[1][2]
<1>1. /\ pending \in Seq(Clients \X Messages) /\ pending # <<>> /\ pending' = Tail(pending)
  BY DEF TypeOK, Deliver
<1>2. 1 \in DOMAIN pending /\ Head(pending) = pending[1] /\ pending[1] \in Clients \X Messages
  BY <1>1, HeadSeq
<1>3. pending' = Behind(pending, 1)
  BY <1>1 DEF Behind
<1>4. \A k \in DOMAIN pending \ {1} :
        k - 1 \in DOMAIN pending' /\ pending'[k - 1] = pending[k]
  BY <1>1, <1>2, <1>3, BehindKeeps
<1>5. ASSUME at[pending[1][1]] # "over"
      PROVE  \E k \in DOMAIN down'[pending[1][1]] :
               /\ k = Len(down[pending[1][1]]) + 1
               /\ down'[pending[1][1]][k] = pending[1][2]
  <2>1. PICK c \in Clients, m \in Messages : c = pending[1][1] /\ m = pending[1][2]
    BY <1>2
  <2>2. down' = [down EXCEPT ![c] = Append(down[c], m)]
    BY <1>2, <1>5, <2>1 DEF Deliver
  <2>3. down[c] \in Seq(Messages) /\ down'[c] = Append(down[c], m)
    BY <2>2 DEF TypeOK
  <2>4. /\ Len(down[c]) \in Nat /\ DOMAIN Append(down[c], m) = 1 .. Len(down[c]) + 1
        /\ Append(down[c], m)[Len(down[c]) + 1] = m
    BY <2>3, AppendSeq
  <2>5. QED BY <2>1, <2>3, <2>4
<1>6. QED BY <1>4, <1>5
-----------------------------------------------------------------------------
(* The names clients show.  A /nick that is granted has one answer, which the  *)
(* server writes before it handles anything else; the last such answer in a    *)
(* client's stream has the name the server knows it by, and when there is     *)
(* none the client shows that name.                                         *)
NameWritten ==
  \A k \in DOMAIN pending :
    pending[k][2].cmd = "USERNAME" => k = 1 /\ pending[k][2].name = nick[pending[k][1]]

LastName(c, k) ==
  /\ Arriving(c, k, "USERNAME") /\ down[c][k].name = nick[c]
  /\ \A j \in DOMAIN down[c] : j > k => down[c][j].cmd # "USERNAME"

NameKnown(c) ==
  \/ \E k \in DOMAIN pending : Queued(c, k, "USERNAME")
  \/ \E k \in DOMAIN down[c] : LastName(c, k)
  \/ (\A k \in DOMAIN down[c] : down[c][k].cmd # "USERNAME") /\ shown[c] = nick[c]

NamesKnown ==
  NameWritten /\ \A c \in Clients : at[c] # "over" /\ nick[c] # NoName => NameKnown(c)

(* Nobody comes back. *)
LEMMA GoneForGood ==
  ASSUME TypeOK, [Next]_vars, NEW c \in Clients, at[c] = "over"
  PROVE  at'[c] = "over"
<1>1. CASE TheServer \/ Restart
  BY <1>1 DEF TheServer, Deliver, Serve, QUIT, Restart
<1>2. ASSUME NEW d \in Clients, NEW place, d # c \/ place = "over", Goes(d, place)
      PROVE  at'[c] = "over"
  BY <1>2 DEF Goes, TypeOK
<1>3. ASSUME NEW d \in Clients, NEW m, NEW place, d # c, Tell(d, m, place)
      PROVE  at'[c] = "over"
  BY <1>2, <1>3 DEF Tell
<1>4. ASSUME NEW d \in Clients,
             Types(d) \/ prompt_user_for_file_transfer(d) \/ set_up_peer_2_peer(d)
      PROVE  at'[c] = "over"
  <2>1. d # c /\ \E m, place : Tell(d, m, place)
    BY <1>4 DEF Types, TypesSend, TypesMsgall, TypesNick, handle_client_message,
                prompt_user_for_file_transfer, set_up_peer_2_peer
  <2>2. QED BY <1>3, <2>1
<1>5. ASSUME NEW d \in Clients,
             \/ PrintsText(d) \/ USERNAME(d) \/ NEWPROMPT(d) \/ FTREQ_prompt(d)
             \/ connect_to_peer_2_peer(d)
      PROVE  at'[c] = "over"
  <2>1. d # c /\ (UNCHANGED at \/ \E place : Goes(d, place))
    BY <1>5 DEF PrintsText, USERNAME, NEWPROMPT, FTREQ_prompt, connect_to_peer_2_peer, Reads
  <2>2. QED BY <1>2, <2>1
<1>6. ASSUME NEW d \in Clients, RECONNECT(d) \/ readline_fails(d) \/ ResetArrives(d) \/ Ends(d)
      PROVE  at'[c] = "over"
  <2>1. d # c /\ (UNCHANGED at \/ \E place : Goes(d, place))
    BY <1>6 DEF RECONNECT, readline_fails, ResetArrives, Ends
  <2>2. QED BY <1>2, <2>1
<1>7. ASSUME NEW d \in Clients,
             do_accept(d) \/ accept_file(d) \/ rcv_file(d) \/ read_greeting(d) \/ send_file(d)
      PROVE  at'[c] = "over"
  <2>1. d # c /\ \E place : Goes(d, place)
    BY <1>7 DEF do_accept, accept_file, rcv_file, read_greeting, send_file
  <2>2. QED BY <1>2, <2>1
<1>8. CASE UNCHANGED vars
  BY <1>8 DEF vars
<1>9. QED BY <1>1, <1>4, <1>5, <1>6, <1>7, <1>8 DEF Next, Client

LEMMA NamesKnownStep ==
  ASSUME "join" \notin Faults
  PROVE  Typed /\ NamesKnown /\ [Next]_vars => NamesKnown'
<1> SUFFICES ASSUME Typed, NamesKnown, [Next]_vars PROVE NamesKnown'
  OBVIOUS
<1>1. TypeOK /\ \A c \in Clients : at'[c] # "over" => at[c] # "over"
  BY GoneForGood DEF Typed
<1>2. CASE UNCHANGED <<down, pending, nick, shown>>
  BY <1>1, <1>2 DEF NamesKnown, NameWritten, NameKnown, LastName, Arriving, Queued
<1>3. ASSUME NEW c \in Clients, Serve(c) PROVE NamesKnown'
  <2>1. /\ pending = <<>> /\ Handles(c, up[c][1], pending')
        /\ nick' = IF up[c][1].cmd = "NICK" /\ ~Refused(up[c][1].name)
                   THEN [nick EXCEPT ![c] = up[c][1].name] ELSE nick
    BY <1>1, <1>3, ServeStep
  <2>2. UNCHANGED <<down, shown>>
    BY <1>3 DEF Serve
  <2>3. NameWritten'
    BY <1>1, <2>1 DEF NameWritten, Handles, TypeOK
  <2>4. ASSUME NEW d \in Clients, at'[d] # "over", nick'[d] # NoName PROVE NameKnown(d)'
    <3>1. CASE nick'[d] = nick[d]
      <4>1. \/ \E k \in DOMAIN down[d] : LastName(d, k)
            \/ (\A k \in DOMAIN down[d] : down[d][k].cmd # "USERNAME") /\ shown[d] = nick[d]
        BY <1>1, <2>1, <2>4, <3>1 DEF NamesKnown, NameKnown, Queued
      <4>2. QED BY <2>2, <3>1, <4>1 DEF NameKnown, LastName, Arriving
    <3>2. CASE nick'[d] # nick[d]
      <4>1. d = c /\ Head(up[c]).cmd = "NICK" /\ ~Refused(Head(up[c]).name) /\ Head(up[c]) = up[c][1]
        <5>1. up[c] \in Seq(Requests) /\ up[c] # <<>>
          BY <1>1, <1>3, EmptySeq, LenProperties DEF Serve, ReadSizes, TypeOK
        <5>2. Head(up[c]) = up[c][1]
          BY <5>1, HeadSeq
        <5>3. QED BY <1>1, <2>1, <3>2, <5>2 DEF TypeOK
      <4>2. pending' = <<To(c, [cmd |-> "USERNAME", name |-> Head(up[c]).name])>>
        BY <1>3, <4>1 DEF Serve, LoginFirst, NICK
      <4>3. 1 \in DOMAIN pending' /\ Queued(d, 1, "USERNAME")'
        BY <4>1, <4>2 DEF Queued, To
      <4>4. QED BY <4>3 DEF NameKnown, Queued
    <3>3. QED BY <3>1, <3>2
  <2>5. QED BY <2>3, <2>4 DEF NamesKnown
<1>4. CASE Deliver
  <2>1. UNCHANGED <<at, nick, shown>>
    BY <1>4 DEF Deliver
  <2>2. /\ 1 \in DOMAIN pending /\ pending[1] \in Clients \X Messages
        /\ \A k \in DOMAIN pending' :
             k \in Nat \ {0} /\ k + 1 \in DOMAIN pending /\ pending'[k] = pending[k + 1]
        /\ \A d \in Clients : \A k \in DOMAIN down[d] :
             k \in DOMAIN down'[d] /\ down'[d][k] = down[d][k]
        /\ \A d \in Clients : \A k \in DOMAIN down'[d] :
             k \notin DOMAIN down[d] =>
               d = pending[1][1] /\ k = Len(down[d]) + 1 /\ down'[d][k] = pending[1][2]
    BY <1>1, <1>4, DeliverStep
  <2>3. PICK c \in Clients, m \in Messages : c = pending[1][1] /\ m = pending[1][2]
    BY <2>2
  <2>4. \A k \in DOMAIN pending' : pending'[k][2].cmd # "USERNAME"
    <3>1. ASSUME NEW k \in DOMAIN pending', pending'[k][2].cmd = "USERNAME" PROVE FALSE
      <4>1. PICK j \in DOMAIN pending : j = k + 1 /\ k \in Nat \ {0} /\ pending'[k] = pending[j]
        BY <2>2
      <4>2. j = 1
        BY <3>1, <4>1 DEF NamesKnown, NameWritten
      <4>3. QED BY <4>1, <4>2
    <3>2. QED BY <3>1
  <2>5. ASSUME NEW d \in Clients, at[d] # "over", nick[d] # NoName PROVE NameKnown(d)'
    <3>1. Len(down[d]) \in Nat /\ DOMAIN down[d] = 1 .. Len(down[d])
      <4>1. down[d] \in Seq(Messages)
        BY <1>1 DEF TypeOK
      <4>2. QED BY <4>1, LenProperties
    <3>2. CASE d = c /\ m.cmd = "USERNAME"
      <4>1. PICK k \in DOMAIN down'[c] : k = Len(down[c]) + 1 /\ down'[c][k] = m
        BY <1>1, <1>4, <2>3, <2>5, <3>2, DeliverKeeps
      <4>2. m.name = nick[c]
        BY <2>2, <2>3, <3>2 DEF NamesKnown, NameWritten
      <4>3. \A j \in DOMAIN down'[c] : j \in 1 .. Len(down[c]) \/ j = Len(down[c]) + 1
        BY <2>2, <2>3, <3>1, <3>2
      <4>4. \A j \in DOMAIN down'[c] : ~(j > k)
        BY <3>1, <3>2, <4>1, <4>3
      <4>5. LastName(c, k)'
        BY <2>1, <3>2, <4>1, <4>2, <4>4 DEF LastName, Arriving
      <4>6. QED BY <3>2, <4>5 DEF NameKnown, LastName, Arriving
    <3>3. CASE ~(d = c /\ m.cmd = "USERNAME")
      <4>1. ~\E k \in DOMAIN pending : Queued(d, k, "USERNAME")
        BY <2>3, <3>3 DEF Queued, NamesKnown, NameWritten
      <4>2. \A j \in DOMAIN down'[d] :
              down'[d][j].cmd = "USERNAME" => j \in DOMAIN down[d] /\ down'[d][j] = down[d][j]
        BY <2>2, <2>3, <3>3
      <4>3. CASE \E k \in DOMAIN down[d] : LastName(d, k)
        <5>1. PICK k \in DOMAIN down[d] : LastName(d, k)
          BY <4>3
        <5>2. k \in DOMAIN down'[d] /\ down'[d][k] = down[d][k]
          BY <2>2
        <5>3. \A j \in DOMAIN down'[d] : j > k => down'[d][j].cmd # "USERNAME"
          BY <4>2, <5>1 DEF LastName
        <5>4. LastName(d, k)'
          BY <2>1, <5>1, <5>2, <5>3 DEF LastName, Arriving
        <5>5. QED BY <5>2, <5>4 DEF NameKnown, LastName, Arriving
      <4>4. CASE /\ \A k \in DOMAIN down[d] : down[d][k].cmd # "USERNAME"
                 /\ shown[d] = nick[d]
        BY <2>1, <4>2, <4>4 DEF NameKnown
      <4>5. QED BY <2>5, <4>1, <4>3, <4>4 DEF NamesKnown, NameKnown
    <3>4. QED BY <3>2, <3>3
  <2>6. NameWritten'
    BY <2>4 DEF NameWritten
  <2>7. QED BY <2>1, <2>5, <2>6 DEF NamesKnown
<1>5. ASSUME NEW c \in Clients,
             \/ PrintsText(c) \/ USERNAME(c) \/ NEWPROMPT(c) \/ FTREQ_prompt(c)
             \/ connect_to_peer_2_peer(c)
      PROVE  NamesKnown'
  <2>1. UNCHANGED <<pending, nick>>
    BY <1>5 DEF PrintsText, USERNAME, NEWPROMPT, FTREQ_prompt, connect_to_peer_2_peer, server
  <2>2. PICK cmd, n : /\ Reads(c, cmd, n)
                      /\ shown' = IF cmd = "USERNAME" THEN [shown EXCEPT ![c] = Head(down[c]).name]
                                  ELSE shown
    BY <1>5 DEF PrintsText, USERNAME, NEWPROMPT, FTREQ_prompt, connect_to_peer_2_peer
  <2>3. /\ 1 \in DOMAIN down[c] /\ Head(down[c]) = down[c][1] /\ down[c][1].cmd = cmd
        /\ \A d \in Clients \ {c} : down'[d] = down[d]
    BY <1>1, <2>2, ReadsStep
  <2>4. /\ \A k \in DOMAIN down[c] \ {1} : k - 1 \in DOMAIN down'[c] /\ down'[c][k - 1] = down[c][k]
        /\ \A k \in DOMAIN down'[c] : k + 1 \in DOMAIN down[c] /\ down'[c][k] = down[c][k + 1]
    BY <1>1, <2>2, ReadsOne
  <2>5. DOMAIN down[c] \subseteq Nat \ {0} /\ DOMAIN down'[c] \subseteq Nat \ {0}
    <3>1. down[c] \in Seq(Messages) /\ \A k \in DOMAIN down'[c] : k \in Nat \ {0}
      BY <1>1, <2>2, ReadsStep DEF TypeOK
    <3>2. QED BY <3>1, LenProperties
  <2>6. NameWritten'
    BY <2>1 DEF NamesKnown, NameWritten
  <2>7. ASSUME NEW d \in Clients, at'[d] # "over", nick'[d] # NoName PROVE NameKnown(d)'
    <3>1. NameKnown(d)
      BY <1>1, <2>1, <2>7 DEF NamesKnown
    <3>2. CASE d # c
      <4>1. down'[d] = down[d] /\ shown'[d] = shown[d]
        BY <1>1, <2>2, <2>3, <3>2 DEF TypeOK
      <4>2. QED BY <2>1, <3>1, <4>1 DEF NameKnown, LastName, Arriving, Queued
    <3>3. CASE d = c
      <4>1. CASE \E k \in DOMAIN pending : Queued(c, k, "USERNAME")
        BY <2>1, <3>3, <4>1 DEF NameKnown, Queued
      <4>2. CASE \E k \in DOMAIN down[c] : LastName(c, k)
        <5>1. PICK k \in DOMAIN down[c] : LastName(c, k)
          BY <4>2
        <5>2. CASE k = 1
          <6>1. cmd = "USERNAME" /\ shown'[c] = nick[c]
            BY <1>1, <2>2, <2>3, <5>1, <5>2 DEF LastName, Arriving, TypeOK
          <6>2. ASSUME NEW j \in DOMAIN down'[c] PROVE down'[c][j].cmd # "USERNAME"
            <7>1. j + 1 \in DOMAIN down[c] /\ j + 1 > 1 /\ down'[c][j] = down[c][j + 1]
              BY <2>4, <2>5
            <7>2. QED BY <5>1, <5>2, <7>1 DEF LastName
          <6>3. QED BY <2>1, <3>3, <6>1, <6>2 DEF NameKnown
        <5>3. CASE k # 1
          <6>1. PICK i \in DOMAIN down'[c] : i = k - 1 /\ down'[c][i] = down[c][k]
            BY <2>4, <5>3
          <6>2. ASSUME NEW j \in DOMAIN down'[c], j > i PROVE down'[c][j].cmd # "USERNAME"
            <7>1. j + 1 \in DOMAIN down[c] /\ j + 1 > k /\ down'[c][j] = down[c][j + 1]
              BY <2>4, <2>5, <6>1, <6>2
            <7>2. QED BY <5>1, <7>1 DEF LastName
          <6>3. LastName(c, i)'
            BY <2>1, <5>1, <6>1, <6>2 DEF LastName, Arriving
          <6>4. QED BY <3>3, <6>3 DEF NameKnown, LastName, Arriving
        <5>4. QED BY <5>2, <5>3
      <4>3. CASE (\A k \in DOMAIN down[c] : down[c][k].cmd # "USERNAME") /\ shown[c] = nick[c]
        <5>1. cmd # "USERNAME" /\ shown' = shown
          BY <2>2, <2>3, <4>3
        <5>2. \A k \in DOMAIN down'[c] : down'[c][k].cmd # "USERNAME"
          BY <2>4, <4>3
        <5>3. QED BY <2>1, <3>3, <4>3, <5>1, <5>2 DEF NameKnown
      <4>4. QED BY <3>1, <3>3, <4>1, <4>2, <4>3 DEF NameKnown
    <3>4. QED BY <3>2, <3>3
  <2>8. QED BY <2>6, <2>7 DEF NamesKnown
<1>6. ASSUME NEW c \in Clients, QUIT(c) PROVE NamesKnown'
  <2>1. UNCHANGED <<at, down, pending, shown>> /\ pending = <<>> /\ at[c] = "over"
    BY <1>6 DEF QUIT
  <2>2. \A d \in Clients \ {c} : nick'[d] = nick[d]
    BY <1>1, <1>6 DEF QUIT, TypeOK
  <2>3. QED BY <2>1, <2>2 DEF NamesKnown, NameWritten, NameKnown, LastName, Arriving, Queued
<1>7. CASE Restart
  BY <1>7 DEF Restart, NamesKnown, NameWritten
<1>8. ASSUME NEW c \in Clients,
             \/ Types(c) \/ prompt_user_for_file_transfer(c) \/ set_up_peer_2_peer(c)
             \/ RECONNECT(c) \/ readline_fails(c) \/ do_accept(c) \/ accept_file(c)
             \/ rcv_file(c) \/ read_greeting(c) \/ send_file(c) \/ ResetArrives(c) \/ Ends(c)
      PROVE  NamesKnown'
  <2>1. UNCHANGED <<down, pending, nick, shown>>
    BY <1>8 DEF Types, TypesSend, TypesMsgall, TypesNick, handle_client_message,
       prompt_user_for_file_transfer, set_up_peer_2_peer, RECONNECT, readline_fails, do_accept,
       accept_file, rcv_file, read_greeting, send_file, ResetArrives, Ends, server
  <2>2. QED BY <1>2, <2>1
<1>9. CASE UNCHANGED vars
  BY <1>2, <1>9 DEF vars, server
<1>10. QED BY <1>3, <1>4, <1>5, <1>6, <1>7, <1>8, <1>9 DEF Next, TheServer, Client

(* Without /nick no name is ever written, and everybody shows its own. *)
OldNames ==
  /\ \A k \in DOMAIN pending : pending[k][2].cmd # "USERNAME"
  /\ \A c \in Clients : shown[c] = c /\ \A k \in DOMAIN down[c] : down[c][k].cmd # "USERNAME"

LEMMA OldNamesStep == Typed /\ OwnNames /\ OldNames /\ [Next]_vars => OldNames'
<1> SUFFICES ASSUME Typed, OwnNames, OldNames, [Next]_vars PROVE OldNames'
  OBVIOUS
<1>1. TypeOK
  BY DEF Typed
<1>2. CASE UNCHANGED <<down, shown>> /\ (pending' = <<>> \/ UNCHANGED pending)
  BY <1>2 DEF OldNames
<1>3. ASSUME NEW c \in Clients, Serve(c) PROVE OldNames'
  <2>1. UNCHANGED <<down, shown>>
    BY <1>3 DEF Serve
  <2>2. 1 \in DOMAIN up[c] /\ Handles(c, up[c][1], pending')
    BY <1>1, <1>3, ServeStep
  <2>3. \A k \in DOMAIN pending' : pending'[k][2].cmd # "USERNAME"
    BY <2>2 DEF Handles, OwnNames
  <2>4. QED BY <2>1, <2>3 DEF OldNames
<1>4. CASE Deliver
  <2>1. /\ UNCHANGED shown /\ 1 \in DOMAIN pending
        /\ \A k \in DOMAIN pending' : k + 1 \in DOMAIN pending /\ pending'[k] = pending[k + 1]
        /\ \A d \in Clients : \A k \in DOMAIN down[d] : down'[d][k] = down[d][k]
        /\ \A d \in Clients : \A k \in DOMAIN down'[d] :
             k \notin DOMAIN down[d] => down'[d][k] = pending[1][2]
    BY <1>1, <1>4, DeliverStep DEF Deliver
  <2>2. QED BY <2>1 DEF OldNames
<1>5. ASSUME NEW c \in Clients,
             \/ PrintsText(c) \/ USERNAME(c) \/ NEWPROMPT(c) \/ FTREQ_prompt(c)
             \/ connect_to_peer_2_peer(c)
      PROVE  OldNames'
  <2>1. UNCHANGED pending /\ \E cmd, n : Reads(c, cmd, n) /\ (cmd = "USERNAME" \/ UNCHANGED shown)
    BY <1>5 DEF PrintsText, USERNAME, NEWPROMPT, FTREQ_prompt, connect_to_peer_2_peer, server
  <2>2. PICK cmd, n : Reads(c, cmd, n) /\ (cmd = "USERNAME" \/ UNCHANGED shown)
    BY <2>1
  <2>3. /\ 1 \in DOMAIN down[c] /\ down[c][1].cmd = cmd
        /\ \A d \in Clients \ {c} : down'[d] = down[d]
        /\ \A k \in DOMAIN down'[c] : k + n \in DOMAIN down[c] /\ down'[c][k] = down[c][k + n]
    BY <1>1, <2>2, ReadsStep
  <2>4. UNCHANGED shown
    BY <2>2, <2>3 DEF OldNames
  <2>5. QED BY <2>1, <2>3, <2>4 DEF OldNames
<1>6. ASSUME NEW c \in Clients,
             \/ Types(c) \/ prompt_user_for_file_transfer(c) \/ set_up_peer_2_peer(c)
             \/ RECONNECT(c) \/ readline_fails(c) \/ do_accept(c) \/ accept_file(c)
             \/ rcv_file(c) \/ read_greeting(c) \/ send_file(c) \/ ResetArrives(c) \/ Ends(c)
      PROVE  OldNames'
  <2>1. UNCHANGED <<down, pending, shown>>
    BY <1>6 DEF Types, TypesSend, TypesMsgall, TypesNick, handle_client_message,
       prompt_user_for_file_transfer, set_up_peer_2_peer, RECONNECT, readline_fails, do_accept,
       accept_file, rcv_file, read_greeting, send_file, ResetArrives, Ends, server
  <2>2. QED BY <1>2, <2>1
<1>7. ASSUME NEW c \in Clients, QUIT(c) PROVE OldNames'
  BY <1>2, <1>7 DEF QUIT
<1>8. CASE Restart \/ UNCHANGED vars
  BY <1>2, <1>8 DEF Restart, vars, server
<1>9. QED BY <1>3, <1>4, <1>5, <1>6, <1>7, <1>8 DEF Next, TheServer, Client

(* A client shows the name the server has for it, or will once it has read     *)
(* what is written to it, unless names change and messages join: then the one  *)
(* with the new name may be lost.                                           *)
THEOREM PromptsFollow ==
  ASSUME ~({"join", "rename"} \subseteq Faults)
  PROVE  Spec => []PromptShowsNick
<1>1. CASE "join" \notin Faults
  <2>1. Init => NamesKnown
    BY DEF Init, NamesKnown, NameWritten, NameKnown
  <2>2. Accounts /\ NamesKnown /\ [Next]_vars => NamesKnown'
    BY <1>1, NamesKnownStep DEF Accounts
  <2>3. TypeOK /\ NamesKnown => PromptShowsNick
    <3> SUFFICES ASSUME TypeOK, NamesKnown, NEW c \in Clients, at[c] # "over", nick[c] # NoName
                 PROVE  \/ nick[c] = shown[c]
                        \/ [cmd |-> "USERNAME", name |-> nick[c]] \in InFlight(c)
      BY DEF PromptShowsNick
    <3>1. ASSUME NEW k \in DOMAIN pending, Queued(c, k, "USERNAME")
          PROVE  [cmd |-> "USERNAME", name |-> nick[c]] \in InFlight(c)
      <4>1. pending[k][2].name = nick[c]
        BY <3>1 DEF Queued, NamesKnown, NameWritten
      <4>2. pending[k][2] \in Messages
        <5>1. pending \in Seq(Clients \X Messages)
          BY DEF TypeOK
        <5>2. QED BY <5>1, LenProperties, ElementOfSeq
      <4>3. pending[k][2] = [cmd |-> "USERNAME", name |-> nick[c]]
        BY <3>1, <4>1, <4>2, MessageFields DEF Queued
      <4>4. QED BY <3>1, <4>3 DEF InFlight, Queued
    <3>2. ASSUME NEW k \in DOMAIN down[c], LastName(c, k)
          PROVE  [cmd |-> "USERNAME", name |-> nick[c]] \in InFlight(c)
      <4>1. down[c][k] \in Messages
        <5>1. down[c] \in Seq(Messages)
          BY DEF TypeOK
        <5>2. QED BY <5>1, LenProperties, ElementOfSeq
      <4>2. down[c][k] = [cmd |-> "USERNAME", name |-> nick[c]]
        BY <3>2, <4>1, MessageFields DEF LastName, Arriving
      <4>3. QED BY <4>2 DEF InFlight, Range
    <3>3. QED BY <3>1, <3>2 DEF NamesKnown, NameKnown
  <2>4. QED BY <2>1, <2>2, <2>3, TypesInvariant, PTL DEF Spec, Accounts, Typed
<1>2. CASE "rename" \notin Faults
  <2>1. Init => OwnNames /\ OldNames
    BY DEF Init, OwnNames, OldNames
  <2>2. Accounts /\ OwnNames /\ OldNames /\ [Next]_vars => OwnNames' /\ OldNames'
    BY <1>2, OwnNamesStep, OldNamesStep DEF Accounts
  <2>3. OwnNames /\ OldNames => PromptShowsNick
    BY DEF OwnNames, OldNames, PromptShowsNick
  <2>4. QED BY <2>1, <2>2, <2>3, TypesInvariant, PTL DEF Spec
<1>3. QED BY <1>1, <1>2
-----------------------------------------------------------------------------
(* A receiver waits for somebody.  It listens only for a file whose announced   *)
(* size is not 0; with sizes announced as they are, whoever announced it has   *)
(* a file, and connects when it is told the port.                           *)
SizesTold ==
  /\ \A c \in Clients : \A k \in DOMAIN up[c] :
       up[c][k].cmd = "SEND" /\ up[c][k].size # "zero" => c \in Holders
  /\ \A k \in DOMAIN pending :
       pending[k][2].cmd = "FTREQ" /\ pending[k][2].size # "zero" => pending[k][2].from \in Holders
  /\ \A c \in Clients : \A k \in DOMAIN down[c] :
       down[c][k].cmd = "FTREQ" /\ down[c][k].size # "zero" => down[c][k].from \in Holders
  /\ \A c \in Clients : asked[c].size # "zero" => asked[c].from \in Holders

(* Port p of c is on its way to w, or has been called. *)
Awaited(c, p, w) ==
  \/ \E k \in DOMAIN up[c] :
       up[c][k].cmd = "CONN_INFO" /\ up[c][k].port = p /\ up[c][k].name = w
  \/ \E k \in DOMAIN pending : Queued(w, k, "INFO_CONN") /\ pending[k][2].port = p
  \/ \E k \in DOMAIN down[w] : down[w][k].cmd = "INFO_CONN" /\ down[w][k].port = p
  \/ Calls(p) # {}

Expected ==
  \A c \in Clients :
    at[c] \in Engaged => /\ asked[c].from \in Holders
                         /\ Awaited(c, Latest(c), asked[c].from)

(* Everybody is logged in under its own name. *)
LoggedIn == \A c \in Clients : nick[c] = c

LEMMA LoggedInStep ==
  ASSUME "join" \notin Faults, "kill" \notin Faults, "restart" \notin Faults,
         "rename" \notin Faults
  PROVE  Typed /\ Healthy /\ OwnNames /\ LoggedIn /\ [Next]_vars => LoggedIn'
<1> SUFFICES ASSUME Typed, Healthy, OwnNames, LoggedIn, [Next]_vars PROVE LoggedIn'
  OBVIOUS
<1>1. CASE UNCHANGED nick
  BY <1>1 DEF LoggedIn
<1>2. ASSUME NEW c \in Clients, Serve(c) PROVE LoggedIn'
  <2>1. nick' = nick
    BY <1>2, ServeStep DEF OwnNames, Typed
  <2>2. QED BY <1>1, <2>1
<1>3. CASE Deliver \/ Restart \/ \E c \in Clients : QUIT(c)
  BY <1>1, <1>3 DEF Deliver, Restart, QUIT, Healthy
<1>4. ASSUME NEW c \in Clients, Types(c) \/ Client(c) \/ ResetArrives(c) \/ Ends(c)
      PROVE  LoggedIn'
  <2>1. nick' = nick
    <3>1. CASE Types(c) \/ ResetArrives(c) \/ Ends(c)
      BY <3>1 DEF Types, TypesSend, TypesMsgall, TypesNick, handle_client_message,
                  ResetArrives, Ends, server
    <3>2. CASE Client(c)
      BY <3>2 DEF Client, PrintsText, USERNAME, NEWPROMPT, FTREQ_prompt, RECONNECT,
         readline_fails, prompt_user_for_file_transfer, set_up_peer_2_peer, do_accept,
         accept_file, rcv_file, connect_to_peer_2_peer, read_greeting, send_file, server
    <3>3. QED BY <1>4, <3>1, <3>2
  <2>2. QED BY <1>1, <2>1
<1>5. CASE UNCHANGED vars
  BY <1>1, <1>5 DEF vars, server
<1>6. QED BY <1>2, <1>3, <1>4, <1>5 DEF Next, TheServer

LEMMA TellKeeps ==
  ASSUME TypeOK, NEW c \in Clients, NEW m, NEW place, Tell(c, m, place), conn[c] = "up"
  PROVE  /\ at' = [at EXCEPT ![c] = place]
         /\ \E k \in DOMAIN up'[c] : up'[c][k] = m
         /\ \A d \in Clients : \A k \in DOMAIN up[d] : k \in DOMAIN up'[d] /\ up'[d][k] = up[d][k]
<1>1. up' = [up EXCEPT ![c] = Append(up[c], m)] /\ at' = [at EXCEPT ![c] = place]
  BY DEF Tell, Goes
<1>2. up[c] \in Seq(Requests \cup {m}) /\ m \in Requests \cup {m}
  BY SeqMonotonic DEF TypeOK
<1>3. /\ Len(up[c]) \in Nat /\ DOMAIN up[c] = 1 .. Len(up[c])
      /\ DOMAIN Append(up[c], m) = 1 .. Len(up[c]) + 1
      /\ Append(up[c], m)[Len(up[c]) + 1] = m
      /\ \A k \in DOMAIN up[c] : Append(up[c], m)[k] = up[c][k]
  BY <1>2, AppendSeq
<1>4. up'[c] = Append(up[c], m) /\ \A d \in Clients \ {c} : up'[d] = up[d]
  BY <1>1 DEF TypeOK
<1>5. QED BY <1>1, <1>3, <1>4

LEMMA ServeOne ==
  ASSUME "join" \notin Faults, TypeOK, NEW c \in Clients, Serve(c)
  PROVE  /\ \A k \in DOMAIN up[c] \ {1} : k - 1 \in DOMAIN up'[c] /\ up'[c][k - 1] = up[c][k]
         /\ up[c][1].cmd = "CONN_INFO" /\ nick[c] # NoName => pending' = CONN_INFO(c, up[c][1])
<1>1. PICK n \in ReadSizes(up[c]) : up' = [up EXCEPT ![c] = Behind(up[c], n)]
  BY DEF Serve
<1>2. n = 1 /\ up[c] \in Seq(Requests) /\ 1 \in DOMAIN up[c]
  BY <1>1, OneByOne DEF ReadSizes, TypeOK
<1> DEFINE s == up[c]
<1>3. up'[c] = Behind(s, 1) /\ s \in Seq(Requests) /\ 1 \in DOMAIN s
  BY <1>1, <1>2 DEF TypeOK
<1>4. \A k \in DOMAIN s \ {1} : k - 1 \in DOMAIN Behind(s, 1) /\ Behind(s, 1)[k - 1] = s[k]
  <2> HIDE DEF s
  <2>1. QED BY <1>3, BehindKeeps
<1>5. Head(up[c]) = up[c][1]
  <2>1. up[c] # <<>>
    BY <1>2, EmptySeq
  <2>2. QED BY <1>2, <2>1, HeadSeq
<1>6. up[c][1].cmd = "CONN_INFO" /\ nick[c] # NoName => pending' = CONN_INFO(c, up[c][1])
  BY <1>5 DEF Serve, LoginFirst
<1>7. QED BY <1>3, <1>4, <1>6

LEMMA SizesToldStep ==
  ASSUME "short" \notin Faults
  PROVE  Typed /\ LoggedIn /\ SizesTold /\ [Next]_vars => SizesTold'
<1> SUFFICES ASSUME Typed, LoggedIn, SizesTold, [Next]_vars PROVE SizesTold'
  OBVIOUS
<1>1. TypeOK /\ Settled /\ {"loop", "listen", "accept"} \subseteq Places
  BY DEF Typed, Places
<1>2. CASE UNCHANGED <<up, pending, down, asked>>
  BY <1>2 DEF SizesTold
<1>3. ASSUME NEW c \in Clients, NEW m, NEW place, Tell(c, m, place),
             m.cmd = "SEND" => (m.size # "zero" => c \in Holders),
             UNCHANGED <<pending, down, asked>>
      PROVE  SizesTold'
  <2>1. up' = up \/ up' = [up EXCEPT ![c] = Append(up[c], m)]
    BY <1>3 DEF Tell
  <2>2. up[c] \in Seq(Requests \cup {m}) /\ m \in Requests \cup {m}
    BY <1>1, SeqMonotonic DEF TypeOK
  <2>3. \A k \in DOMAIN Append(up[c], m) :
          (k \in DOMAIN up[c] /\ Append(up[c], m)[k] = up[c][k]) \/ Append(up[c], m)[k] = m
    BY <2>2, AppendSeq
  <2>4. \A d \in Clients : \A k \in DOMAIN up'[d] :
          (k \in DOMAIN up[d] /\ up'[d][k] = up[d][k]) \/ (d = c /\ up'[d][k] = m)
    BY <1>1, <2>1, <2>3 DEF TypeOK
  <2>5. \A d \in Clients : \A k \in DOMAIN up'[d] :
          up'[d][k].cmd = "SEND" /\ up'[d][k].size # "zero" => d \in Holders
    BY <1>3, <2>4 DEF SizesTold
  <2>6. QED BY <1>3, <2>5 DEF SizesTold
<1>4. ASSUME NEW c \in Clients, Types(c) PROVE SizesTold'
  <2>1. UNCHANGED <<pending, down, asked>>
    BY <1>4 DEF Types, TypesSend, TypesMsgall, TypesNick, handle_client_message, server
  <2>2. CASE TypesSend(c)
    <3>1. PICK n \in Names, s \in Announced(c) :
            handle_client_message(c, [cmd |-> "SEND", name |-> n, size |-> s])
      BY <2>2 DEF TypesSend
    <3>2. s # "zero" => c \in Holders
      BY DEF Announced
    <3>3. Tell(c, [cmd |-> "SEND", name |-> n, size |-> s], "loop")
      BY <3>1 DEF handle_client_message
    <3>4. QED BY <1>3, <2>1, <3>2, <3>3
  <2>3. CASE TypesMsgall(c) \/ TypesNick(c)
    <3>1. \E m : m.cmd # "SEND" /\ Tell(c, m, "loop")
      BY <2>3 DEF TypesMsgall, TypesNick, handle_client_message
    <3>2. QED BY <1>3, <2>1, <3>1
  <2>4. QED BY <1>4, <2>2, <2>3 DEF Types
<1>5. ASSUME NEW c \in Clients, prompt_user_for_file_transfer(c) \/ set_up_peer_2_peer(c)
      PROVE  SizesTold'
  <2>1. UNCHANGED <<pending, down, asked>>
    BY <1>5 DEF prompt_user_for_file_transfer, set_up_peer_2_peer, server
  <2>2. \E m, place : m.cmd # "SEND" /\ Tell(c, m, place)
    BY <1>5 DEF prompt_user_for_file_transfer, set_up_peer_2_peer
  <2>3. QED BY <1>3, <2>1, <2>2
<1>6. ASSUME NEW c \in Clients, Serve(c) PROVE SizesTold'
  <2>1. UNCHANGED <<down, asked>>
    BY <1>6 DEF Serve
  <2>2. /\ 1 \in DOMAIN up[c] /\ Handles(c, up[c][1], pending')
        /\ \A d \in Clients : \A k \in DOMAIN up'[d] : \E j \in DOMAIN up[d] : up'[d][k] = up[d][j]
    BY <1>1, <1>6, ServeStep
  <2>3. ASSUME NEW k \in DOMAIN pending', pending'[k][2].cmd = "FTREQ", pending'[k][2].size # "zero"
        PROVE  pending'[k][2].from \in Holders
    <3>1. /\ up[c][1].cmd = "SEND" /\ up[c][1].size # "zero" /\ pending'[k][2].from = nick[c]
      BY <2>2, <2>3 DEF Handles
    <3>2. QED BY <2>2, <3>1 DEF LoggedIn, SizesTold
  <2>4. QED BY <2>1, <2>2, <2>3 DEF SizesTold
<1>7. CASE Deliver
  <2>1. UNCHANGED <<up, asked>>
    BY <1>7 DEF Deliver
  <2>2. /\ 1 \in DOMAIN pending
        /\ \A k \in DOMAIN pending' : \E j \in DOMAIN pending : pending'[k] = pending[j]
        /\ \A d \in Clients : \A k \in DOMAIN down'[d] :
             \/ k \in DOMAIN down[d] /\ down'[d][k] = down[d][k]
             \/ down'[d][k] = pending[1][2]
    BY <1>1, <1>7, DeliverStep
  <2>3. QED BY <2>1, <2>2 DEF SizesTold
<1>8. ASSUME NEW c \in Clients,
             \/ PrintsText(c) \/ USERNAME(c) \/ NEWPROMPT(c) \/ FTREQ_prompt(c)
             \/ connect_to_peer_2_peer(c)
      PROVE  SizesTold'
  <2>1. UNCHANGED <<pending, up>>
    BY <1>8 DEF PrintsText, USERNAME, NEWPROMPT, FTREQ_prompt, connect_to_peer_2_peer, server
  <2>2. PICK cmd, n : /\ Reads(c, cmd, n)
                      /\ asked' = IF cmd = "FTREQ" THEN [asked EXCEPT ![c] = AskedBy(c, Head(down[c]))]
                                  ELSE asked
    BY <1>8 DEF PrintsText, USERNAME, NEWPROMPT, FTREQ_prompt, connect_to_peer_2_peer
  <2>3. /\ 1 \in DOMAIN down[c] /\ down[c][1].cmd = cmd /\ Head(down[c]) = down[c][1]
        /\ \A d \in Clients : \A k \in DOMAIN down'[d] :
             \E j \in DOMAIN down[d] : down'[d][k] = down[d][j]
    <3>1. Reads(c, cmd, n)
      BY <2>2
    <3>2. /\ 1 \in DOMAIN down[c] /\ down[c][1].cmd = cmd /\ Head(down[c]) = down[c][1]
          /\ \A d \in Clients \ {c} : down'[d] = down[d]
          /\ \A k \in DOMAIN down'[c] : k + n \in DOMAIN down[c] /\ down'[c][k] = down[c][k + n]
      BY <1>1, <3>1, ReadsStep
    <3>3. \A k \in DOMAIN down'[c] : \E j \in DOMAIN down[c] : down'[c][k] = down[c][j]
      BY <3>2
    <3>4. QED BY <3>2, <3>3
  <2>4. ASSUME NEW d \in Clients, asked'[d].size # "zero" PROVE asked'[d].from \in Holders
    <3>1. CASE asked'[d] = asked[d]
      BY <2>4, <3>1 DEF SizesTold
    <3>2. CASE asked'[d] # asked[d]
      <4>1. d = c /\ cmd = "FTREQ" /\ asked'[d] = AskedBy(c, down[c][1])
        BY <1>1, <2>2, <2>3, <3>2 DEF TypeOK
      <4>2. QED BY <2>3, <2>4, <4>1 DEF AskedBy, SizesTold
    <3>3. QED BY <3>1, <3>2
  <2>5. QED BY <2>1, <2>3, <2>4 DEF SizesTold
<1>9. CASE Restart \/ \E c \in Clients : QUIT(c)
  <2>1. UNCHANGED <<down, asked>> /\ (pending' = pending \/ pending' = <<>>)
    BY <1>9 DEF Restart, QUIT
  <2>2. up' = up \/ up' = [c \in Clients |-> <<>>]
    BY <1>9 DEF Restart, QUIT
  <2>3. QED BY <2>1, <2>2 DEF SizesTold
<1>10. ASSUME NEW c \in Clients,
              \/ RECONNECT(c) \/ readline_fails(c) \/ do_accept(c) \/ accept_file(c)
              \/ rcv_file(c) \/ read_greeting(c) \/ send_file(c) \/ ResetArrives(c) \/ Ends(c)
       PROVE  SizesTold'
  BY <1>2, <1>10 DEF RECONNECT, readline_fails, do_accept, accept_file, rcv_file,
     read_greeting, send_file, ResetArrives, Ends, server
<1>11. CASE UNCHANGED vars
  BY <1>2, <1>11 DEF vars, server
<1>12. QED
  BY <1>4, <1>5, <1>6, <1>7, <1>8, <1>9, <1>10, <1>11 DEF Next, TheServer, Client

LEMMA AwaitedStep ==
  ASSUME "join" \notin Faults, "kill" \notin Faults, "restart" \notin Faults,
         "rename" \notin Faults,
         Typed, Healthy, LoggedIn, [Next]_vars,
         NEW c \in Clients, NEW p, NEW w \in Holders, Awaited(c, p, w)
  PROVE  Awaited(c, p, w)'
<1>1. TypeOK /\ w \in Clients /\ \A d \in Clients : conn[d] = "up" /\ at[d] # "over"
  BY TransferAssumption DEF Typed, Healthy
<1>2. CASE Calls(p) # {}
  <2>1. conns \subseteq conns'
    <3>1. CASE TheServer \/ Restart
      BY <3>1 DEF TheServer, Deliver, Serve, QUIT, Restart, peers
    <3>2. ASSUME NEW d \in Clients, Client(d) PROVE conns \subseteq conns'
      BY <3>2 DEF Client, PrintsText, USERNAME, NEWPROMPT, FTREQ_prompt, RECONNECT,
         readline_fails, prompt_user_for_file_transfer, set_up_peer_2_peer, do_accept,
         accept_file, rcv_file, connect_to_peer_2_peer, read_greeting, send_file, peers
    <3>3. ASSUME NEW d \in Clients, Types(d) \/ ResetArrives(d) \/ Ends(d)
          PROVE  conns \subseteq conns'
      BY <3>3 DEF Types, TypesSend, TypesMsgall, TypesNick, handle_client_message,
                  ResetArrives, Ends, peers
    <3>4. CASE UNCHANGED vars
      BY <3>4 DEF vars, peers
    <3>5. QED BY <3>1, <3>2, <3>3, <3>4 DEF Next
  <2>2. QED BY <1>2, <2>1 DEF Awaited, Calls
<1>3. ASSUME \A k \in DOMAIN up[c] : \E j \in DOMAIN up'[c] : up'[c][j] = up[c][k],
             UNCHANGED <<pending, down, conns>>
      PROVE  Awaited(c, p, w)'
  BY <1>3 DEF Awaited, Queued, Calls
<1>4. ASSUME NEW d \in Clients, Types(d) \/ prompt_user_for_file_transfer(d) \/ set_up_peer_2_peer(d)
      PROVE  Awaited(c, p, w)'
  <2>1. UNCHANGED <<pending, down, conns>>
    BY <1>4 DEF Types, TypesSend, TypesMsgall, TypesNick, handle_client_message,
                prompt_user_for_file_transfer, set_up_peer_2_peer, server, peers
  <2>2. \E m, place : Tell(d, m, place)
    BY <1>4 DEF Types, TypesSend, TypesMsgall, TypesNick, handle_client_message,
                prompt_user_for_file_transfer, set_up_peer_2_peer
  <2>3. \A k \in DOMAIN up[c] : k \in DOMAIN up'[c] /\ up'[c][k] = up[c][k]
    BY <1>1, <2>2, TellKeeps
  <2>4. QED BY <1>3, <2>1, <2>3
<1>5. ASSUME NEW d \in Clients, Serve(d) PROVE Awaited(c, p, w)'
  <2>1. UNCHANGED <<down, conns>> /\ pending = <<>>
    BY <1>5 DEF Serve, peers
  <2>2. /\ \A k \in DOMAIN up[d] \ {1} : k - 1 \in DOMAIN up'[d] /\ up'[d][k - 1] = up[d][k]
        /\ \A e \in Clients \ {d} : up'[e] = up[e]
    BY <1>1, <1>5, ServeOne, ServeStep
  <2>3. CASE \E k \in DOMAIN up[c] :
               up[c][k].cmd = "CONN_INFO" /\ up[c][k].port = p /\ up[c][k].name = w
    <3>1. PICK k \in DOMAIN up[c] :
            up[c][k].cmd = "CONN_INFO" /\ up[c][k].port = p /\ up[c][k].name = w
      BY <2>3
    <3>2. CASE d = c /\ k = 1
      <4>1. nick[c] # NoName
        BY TransferAssumption DEF LoggedIn
      <4>2. pending' = CONN_INFO(c, up[c][1])
        BY <1>1, <1>5, <3>1, <3>2, <4>1, ServeOne
      <4>3. Named(w) = {w}
        BY <1>1 DEF Named, LoggedIn
      <4> DEFINE x == [cmd |-> "INFO_CONN", port |-> p]
      <4>4. pending' = Relay(c, w, x)
        BY <3>1, <3>2, <4>2 DEF CONN_INFO
      <4>5. pending' = <<To(w, x)>>
        BY <4>3, <4>4 DEF Relay
      <4>6. 1 \in DOMAIN pending' /\ Queued(w, 1, "INFO_CONN")' /\ pending'[1][2].port = p
        BY <4>5 DEF Queued, To
      <4>7. QED BY <4>6 DEF Awaited, Queued
    <3>3. CASE d # c
      BY <2>2, <3>1, <3>3 DEF Awaited
    <3>4. CASE d = c /\ k # 1
      BY <2>2, <3>1, <3>4 DEF Awaited
    <3>5. QED BY <3>2, <3>3, <3>4
  <2>4. CASE ~\E k \in DOMAIN up[c] :
               up[c][k].cmd = "CONN_INFO" /\ up[c][k].port = p /\ up[c][k].name = w
    <3>1. \/ \E k \in DOMAIN down[w] : down[w][k].cmd = "INFO_CONN" /\ down[w][k].port = p
          \/ Calls(p) # {}
      BY <2>1, <2>4 DEF Awaited
    <3>2. QED BY <2>1, <3>1 DEF Awaited, Calls
  <2>5. QED BY <2>3, <2>4
<1>6. CASE Deliver
  <2>1. UNCHANGED <<up, conns>>
    BY <1>6 DEF Deliver, peers
  <2>2. \A k \in DOMAIN pending \ {1} : k - 1 \in DOMAIN pending' /\ pending'[k - 1] = pending[k]
    BY <1>1, <1>6, DeliverKeeps
  <2>3. \A k \in DOMAIN down[w] : k \in DOMAIN down'[w] /\ down'[w][k] = down[w][k]
    BY <1>1, <1>6, DeliverStep
  <2>4. CASE \E k \in DOMAIN pending : Queued(w, k, "INFO_CONN") /\ pending[k][2].port = p
    <3>1. PICK k \in DOMAIN pending : Queued(w, k, "INFO_CONN") /\ pending[k][2].port = p
      BY <2>4
    <3>2. CASE k = 1
      <4>1. \E j \in DOMAIN down'[w] : down'[w][j] = pending[1][2]
        BY <1>1, <1>6, <3>1, <3>2, DeliverKeeps DEF Queued
      <4>2. QED BY <3>1, <3>2, <4>1 DEF Awaited, Queued
    <3>3. CASE k # 1
      BY <2>2, <3>1, <3>3 DEF Awaited, Queued
    <3>4. QED BY <3>2, <3>3
  <2>5. CASE \E k \in DOMAIN down[w] : down[w][k].cmd = "INFO_CONN" /\ down[w][k].port = p
    BY <2>3, <2>5 DEF Awaited
  <2>6. CASE \E k \in DOMAIN up[c] :
               up[c][k].cmd = "CONN_INFO" /\ up[c][k].port = p /\ up[c][k].name = w
    BY <2>1, <2>6 DEF Awaited
  <2>7. QED BY <1>2, <2>4, <2>5, <2>6 DEF Awaited
<1>7. ASSUME NEW d \in Clients,
             \/ PrintsText(d) \/ USERNAME(d) \/ NEWPROMPT(d) \/ FTREQ_prompt(d)
             \/ connect_to_peer_2_peer(d)
      PROVE  Awaited(c, p, w)'
  <2>1. UNCHANGED <<pending, up>>
    BY <1>7 DEF PrintsText, USERNAME, NEWPROMPT, FTREQ_prompt, connect_to_peer_2_peer, server
  <2>2. PICK cmd, n : /\ Reads(d, cmd, n)
                      /\ cmd = "INFO_CONN" => connect_to_peer_2_peer(d)
    BY <1>7 DEF PrintsText, USERNAME, NEWPROMPT, FTREQ_prompt, connect_to_peer_2_peer
  <2>3. /\ 1 \in DOMAIN down[d] /\ down[d][1].cmd = cmd /\ Head(down[d]) = down[d][1]
        /\ \A e \in Clients \ {d} : down'[e] = down[e]
    BY <1>1, <2>2, ReadsStep
  <2>4. \A k \in DOMAIN down[d] \ {1} : k - 1 \in DOMAIN down'[d] /\ down'[d][k - 1] = down[d][k]
    BY <1>1, <2>2, ReadsOne
  <2>5. CASE \E k \in DOMAIN down[w] : down[w][k].cmd = "INFO_CONN" /\ down[w][k].port = p
    <3>1. PICK k \in DOMAIN down[w] : down[w][k].cmd = "INFO_CONN" /\ down[w][k].port = p
      BY <2>5
    <3>2. CASE d # w
      BY <2>3, <3>1, <3>2, <1>1 DEF Awaited
    <3>3. CASE d = w /\ k # 1
      BY <2>4, <3>1, <3>3 DEF Awaited
    <3>4. CASE d = w /\ k = 1
      <4>1. connect_to_peer_2_peer(w) /\ Head(down[w]).port = p /\ down[w][1] \in Messages
        BY <1>1, <2>2, <2>3, <3>1, <3>4, ReadsStep
      <4>2. p.host \in Clients
        BY <2>3, <3>1, <3>4, <4>1, MessageFields DEF Ports
      <4>3. PICK i : /\ Reads(w, "INFO_CONN", i)
                     /\ \/ w \notin Holders
                        \/ at[p.host] = "over" \/ i > 1
                        \/ conns' = conns \cup {[port |-> p, from |-> w]}
        BY <4>1 DEF connect_to_peer_2_peer
      <4>4. i = 1
        BY <1>1, <4>3, ReadsOne
      <4>5. conns' = conns \cup {[port |-> p, from |-> w]}
        BY <1>1, <4>2, <4>3, <4>4
      <4>6. QED BY <1>1, <4>5 DEF Awaited, Calls
    <3>5. QED BY <3>2, <3>3, <3>4
  <2>6. CASE \/ \E k \in DOMAIN pending : Queued(w, k, "INFO_CONN") /\ pending[k][2].port = p
             \/ \E k \in DOMAIN up[c] :
                  up[c][k].cmd = "CONN_INFO" /\ up[c][k].port = p /\ up[c][k].name = w
    BY <2>1, <2>6 DEF Awaited, Queued
  <2>7. QED BY <1>2, <2>5, <2>6 DEF Awaited
<1>8. CASE Restart \/ \E d \in Clients : QUIT(d) \/ ResetArrives(d) \/ Ends(d)
  BY <1>1, <1>8 DEF Restart, QUIT, ResetArrives, Ends
<1>9. ASSUME NEW d \in Clients,
             \/ RECONNECT(d) \/ readline_fails(d) \/ do_accept(d) \/ accept_file(d)
             \/ rcv_file(d) \/ read_greeting(d) \/ send_file(d)
      PROVE  Awaited(c, p, w)'
  <2>1. UNCHANGED <<up, pending, down, conns>>
    BY <1>9 DEF RECONNECT, readline_fails, do_accept, accept_file, rcv_file, read_greeting,
       send_file, server, peers
  <2>2. QED BY <2>1 DEF Awaited, Queued, Calls
<1>10. CASE UNCHANGED vars
  BY <1>3, <1>10 DEF vars, server, peers
<1>11. QED
  BY <1>4, <1>5, <1>6, <1>7, <1>8, <1>9, <1>10 DEF Next, TheServer, Client

LEMMA ExpectedStep ==
  ASSUME "join" \notin Faults, "kill" \notin Faults, "restart" \notin Faults,
         "rename" \notin Faults
  PROVE  Typed /\ Healthy /\ LoggedIn /\ SizesTold /\ Expected /\ [Next]_vars => Expected'
<1> SUFFICES ASSUME Typed, Healthy, LoggedIn, SizesTold, Expected, [Next]_vars,
                    NEW c \in Clients, at'[c] \in Engaged
             PROVE  asked'[c].from \in Holders /\ Awaited(c, Latest(c), asked[c].from)'
  BY DEF Expected
<1>1. TypeOK
  BY DEF Typed
<1>2. CASE set_up_peer_2_peer(c)
  <2>1. UNCHANGED asked /\ port' = [port EXCEPT ![c] = NextPort(c)]
    BY <1>2 DEF set_up_peer_2_peer
  <2> DEFINE m == [cmd |-> "CONN_INFO", name |-> asked[c].from,
                   port |-> [host |-> c, num |-> NextPort(c)]]
             place == IF asked[c].size = "zero" THEN "loop" ELSE "accept"
  <2>2. Tell(c, m, place) /\ conn[c] = "up"
    BY <1>2 DEF set_up_peer_2_peer, Healthy
  <2>3. at' = [at EXCEPT ![c] = place] /\ \E k \in DOMAIN up'[c] : up'[c][k] = m
    <3> HIDE DEF m, place
    <3>1. QED BY <1>1, <2>2, TellKeeps
  <2>4. asked[c].size # "zero"
    BY <1>1, <2>3 DEF TypeOK, Engaged
  <2>5. Latest(c)' = [host |-> c, num |-> NextPort(c)]
    BY <1>1, <2>1 DEF Latest, TypeOK
  <2>6. \E k \in DOMAIN up'[c] : /\ up'[c][k].cmd = "CONN_INFO" /\ up'[c][k].port = Latest(c)'
                                 /\ up'[c][k].name = asked'[c].from
    BY <2>1, <2>3, <2>5
  <2>7. QED BY <2>1, <2>4, <2>6 DEF SizesTold, Awaited
<1>3. CASE ~set_up_peer_2_peer(c)
  <2>1. at[c] \in Engaged /\ asked'[c] = asked[c] /\ port'[c] = port[c]
    BY <1>1, <1>3, StaysEngaged
  <2>2. PICK w \in Holders : w = asked[c].from
    BY <2>1 DEF Expected
  <2>3. PICK p : p = Latest(c)
    OBVIOUS
  <2>4. Awaited(c, p, w)
    BY <2>1, <2>2, <2>3 DEF Expected
  <2>5. Awaited(c, p, w)'
    BY <2>4, AwaitedStep
  <2>6. Latest(c)' = p /\ asked'[c].from = w
    BY <2>1, <2>2, <2>3 DEF Latest
  <2>7. QED BY <2>2, <2>5, <2>6 DEF Awaited, Queued, Calls
<1>4. QED BY <1>2, <1>3

LEMMA SomebodyExpected ==
  ASSUME Faults = {}
  PROVE  Spec => []Expected
<1>0. /\ "join" \notin Faults /\ "kill" \notin Faults
      /\ "restart" \notin Faults /\ "rename" \notin Faults /\ "short" \notin Faults
  OBVIOUS
<1>1. Init => OwnNames /\ LoggedIn /\ SizesTold /\ Expected
  BY DEF Init, OwnNames, LoggedIn, SizesTold, Expected, Engaged
<1>2. /\ Typed /\ OwnNames /\ [Next]_vars => OwnNames'
      /\ Typed /\ Healthy /\ OwnNames /\ LoggedIn /\ [Next]_vars => LoggedIn'
      /\ Typed /\ LoggedIn /\ SizesTold /\ [Next]_vars => SizesTold'
      /\ Typed /\ Healthy /\ LoggedIn /\ SizesTold /\ Expected /\ [Next]_vars => Expected'
  BY <1>0, OwnNamesStep, LoggedInStep, SizesToldStep, ExpectedStep
<1>3. Accounts => Typed
  BY DEF Accounts
<1>4. Spec => [](Accounts /\ OneMention /\ Healthy)
  BY <1>0, HealthyInvariant
<1>5. QED BY <1>1, <1>2, <1>3, <1>4, PTL DEF Spec

-----------------------------------------------------------------------------
(* Who waits for whom. *)
(* Whoever has connected to a port stays with it until it has written the     *)
(* file, a receiver asks about a file and reads it on a port it has taken,    *)
(* and nobody spins.                                                        *)
Attended ==
  /\ \A c \in Clients : at[c] # "spin"
  /\ \A c \in Clients : at[c] \in {"inbox", "receive"} => Latest(c) \in taken
  /\ \A p \in Ports : \A d \in Calls(p) :
       p \in filled \/ (at[d] \in {"greeting", "send"} /\ link[d] = p)

(* c, which is not a sender, goes somewhere else and meets nobody there.      *)
LEMMA AttendedElsewhere ==
  ASSUME TypeOK, Attended, NEW c \in Clients, NEW place,
         at[c] \notin {"greeting", "send"}, place \notin {"spin", "inbox", "receive"},
         at' = at \/ at' = [at EXCEPT ![c] = place],
         UNCHANGED <<link, conns, taken, filled>>,
         \A d \in Clients : port'[d] = port[d] \/ (d = c /\ at'[c] = place)
  PROVE  Attended'
<1>1. /\ at'[c] = at[c] \/ at'[c] = place
      /\ \A d \in Clients \ {c} : at'[d] = at[d]
  BY DEF TypeOK
<1>2. \A c1 \in Clients : at'[c1] # "spin"
  BY <1>1 DEF Attended
<1>3. ASSUME NEW d \in Clients, at'[d] \in {"inbox", "receive"}
      PROVE  Latest(d)' \in taken'
  <2>1. at[d] = at'[d] /\ port'[d] = port[d]
    BY <1>1, <1>3
  <2>2. QED BY <1>3, <2>1 DEF Attended, Latest
<1>4. ASSUME NEW p \in Ports, NEW d \in Calls(p)'
      PROVE  p \in filled' \/ (at'[d] \in {"greeting", "send"} /\ link'[d] = p)
  <2>1. d \in Calls(p) /\ d \in Clients
    BY <1>4 DEF Calls
  <2>2. p \in filled \/ (at[d] \in {"greeting", "send"} /\ link[d] = p)
    BY <2>1 DEF Attended
  <2>3. QED BY <1>1, <2>1, <2>2
<1>5. QED BY <1>2, <1>3, <1>4 DEF Attended

LEMMA AttendedStep ==
  ASSUME "join" \notin Faults, "kill" \notin Faults, "restart" \notin Faults
  PROVE  Typed /\ Healthy /\ Attended /\ [Next]_vars => Attended'
<1> SUFFICES ASSUME Typed, Healthy, Attended, [Next]_vars PROVE Attended'
  OBVIOUS
<1>1. TypeOK /\ Settled /\ \A c \in Clients : at[c] # "over" /\ conn[c] = "up"
  BY DEF Typed, Healthy
<1>2. ASSUME UNCHANGED <<at, peers>> PROVE Attended'
  BY <1>2 DEF Attended, peers, Latest, Calls
<1>3. CASE TheServer \/ Restart \/ UNCHANGED vars
  BY <1>2, <1>3 DEF TheServer, Deliver, Serve, QUIT, Restart, vars
<1>4. ASSUME NEW c \in Clients, Types(c) \/ prompt_user_for_file_transfer(c)
      PROVE  Attended'
  <2>1. at[c] \in {"loop", "prompt"} /\ UNCHANGED peers
    BY <1>4 DEF Types, TypesSend, TypesMsgall, TypesNick, handle_client_message,
                prompt_user_for_file_transfer
  <2>2. PICK m, place : Tell(c, m, place) /\ place \in {"loop", "listen"}
    <3>1. \E m : Tell(c, m, "loop") \/ Tell(c, m, "listen")
      BY <1>4 DEF Types, TypesSend, TypesMsgall, TypesNick, handle_client_message,
                  prompt_user_for_file_transfer
    <3>2. QED BY <3>1
  <2>3. at' = [at EXCEPT ![c] = place]
    BY <1>1, <2>2 DEF Tell, Goes
  <2>4. place \notin {"spin", "inbox", "receive"} /\ at[c] \notin {"greeting", "send"}
    BY <2>1, <2>2
  <2>5. QED BY <1>1, <2>1, <2>3, <2>4, AttendedElsewhere DEF peers
<1>5. ASSUME NEW c \in Clients, set_up_peer_2_peer(c) PROVE Attended'
  <2>1. /\ at[c] = "listen" /\ UNCHANGED <<link, conns, taken, filled>>
        /\ port' = [port EXCEPT ![c] = NextPort(c)]
    BY <1>5 DEF set_up_peer_2_peer
  <2>2. PICK place \in {"loop", "accept"} : at' = [at EXCEPT ![c] = place]
    BY <1>1, <1>5 DEF set_up_peer_2_peer, Tell, Goes
  <2>3. at'[c] = place /\ \A d \in Clients \ {c} : port'[d] = port[d]
    BY <1>1, <2>1, <2>2 DEF TypeOK
  <2>4. place \notin {"spin", "inbox", "receive"} /\ at[c] \notin {"greeting", "send"}
    BY <2>1, <2>2
  <2>5. QED BY <1>1, <2>1, <2>2, <2>3, <2>4, AttendedElsewhere
<1>6. ASSUME NEW c \in Clients,
             \/ PrintsText(c) \/ USERNAME(c) \/ ResetArrives(c) \/ Ends(c)
             \/ readline_fails(c) \/ RECONNECT(c)
      PROVE  Attended'
  BY <1>1, <1>2, <1>6 DEF PrintsText, USERNAME, ResetArrives, Ends, readline_fails, RECONNECT
<1>7. ASSUME NEW c \in Clients, NEWPROMPT(c) \/ FTREQ_prompt(c) PROVE Attended'
  <2>1. UNCHANGED peers /\ at[c] = "loop"
    BY <1>7 DEF NEWPROMPT, FTREQ_prompt, Reads
  <2>2. PICK place \in {"over", "loop", "prompt"} : at' = [at EXCEPT ![c] = place]
    BY <1>7 DEF NEWPROMPT, FTREQ_prompt, Goes
  <2>3. place \notin {"spin", "inbox", "receive"} /\ at[c] \notin {"greeting", "send"}
    BY <2>1, <2>2
  <2>4. QED BY <1>1, <2>1, <2>2, <2>3, AttendedElsewhere DEF peers
<1>8. ASSUME NEW c \in Clients, do_accept(c) PROVE Attended'
  <2>1. /\ at[c] = "accept" /\ at' = [at EXCEPT ![c] = "inbox"]
        /\ taken' = taken \cup {Latest(c)} /\ UNCHANGED <<port, link, conns, filled>>
    BY <1>8 DEF do_accept, Goes
  <2>2. at'[c] = "inbox" /\ \A d \in Clients \ {c} : at'[d] = at[d]
    BY <1>1, <2>1 DEF TypeOK
  <2>3. \A d : Latest(d)' = Latest(d) /\ \A p : Calls(p)' = Calls(p)
    BY <2>1 DEF Latest, Calls
  <2>4. \A p \in Ports : \A d \in Calls(p) : d \in Clients
    BY DEF Calls
  <2>5. QED BY <2>1, <2>2, <2>3, <2>4 DEF Attended
<1>9. ASSUME NEW c \in Clients, accept_file(c) PROVE Attended'
  <2>1. at[c] = "inbox" /\ UNCHANGED peers
    BY <1>9 DEF accept_file
  <2>2. PICK place \in {"receive", "loop"} : at' = [at EXCEPT ![c] = place]
    BY <1>9 DEF accept_file, Goes
  <2>3. at'[c] = place /\ \A d \in Clients \ {c} : at'[d] = at[d]
    BY <1>1, <2>2 DEF TypeOK
  <2>4. \A d : Latest(d)' = Latest(d) /\ \A p : Calls(p)' = Calls(p)
    BY <2>1 DEF Latest, Calls, peers
  <2>5. \A p \in Ports : \A d \in Calls(p) : d \in Clients
    BY DEF Calls
  <2>6. QED BY <2>1, <2>2, <2>3, <2>4, <2>5 DEF Attended, peers
<1>10. ASSUME NEW c \in Clients, rcv_file(c) PROVE Attended'
  <2>1. at[c] = "receive" /\ UNCHANGED <<port, link, conns, taken, filled>>
    BY <1>10 DEF rcv_file
  <2>2. at' = [at EXCEPT ![c] = "loop"]
    <3>1. \A d \in Calls(Latest(c)) : at[d] # "over"
      BY <1>1 DEF Calls
    <3>2. QED BY <1>10, <3>1 DEF rcv_file, Goes
  <2>3. PICK place : place = "loop"
    OBVIOUS
  <2>4. place \notin {"spin", "inbox", "receive"} /\ at[c] \notin {"greeting", "send"}
    BY <2>1, <2>3
  <2>5. QED BY <1>1, <2>1, <2>2, <2>3, <2>4, AttendedElsewhere
<1>11. ASSUME NEW c \in Clients, connect_to_peer_2_peer(c) PROVE Attended'
  <2>1. PICK n : /\ Reads(c, "INFO_CONN", n)
                 /\ LET p == Head(down[c]).port
                    IN  \/ c \notin Holders /\ UNCHANGED <<at, link, conns>>
                        \/ at[p.host] = "over" \/ n > 1
                        \/ /\ link' = [link EXCEPT ![c] = p]
                           /\ conns' = conns \cup {[port |-> p, from |-> c]}
                           /\ Goes(c, "greeting")
    BY <1>11 DEF connect_to_peer_2_peer
  <2>2. n = 1 /\ at[c] = "loop"
    BY <2>1, OneByOne DEF Reads
  <2>3. UNCHANGED <<port, taken, filled>>
    BY <1>11 DEF connect_to_peer_2_peer
  <2>4. PICK p : p = Head(down[c]).port
    OBVIOUS
  <2>5. p.host \in Clients
    <3>1. Head(down[c]) \in Messages /\ Head(down[c]).cmd = "INFO_CONN"
      BY <1>1, <2>1, ReadsStep
    <3>2. QED BY <2>4, <3>1, MessageFields DEF Ports
  <2>6. CASE UNCHANGED <<at, link, conns>>
    BY <2>3, <2>6 DEF Attended, Latest, Calls
  <2>7. CASE /\ link' = [link EXCEPT ![c] = p]
             /\ conns' = conns \cup {[port |-> p, from |-> c]}
             /\ at' = [at EXCEPT ![c] = "greeting"]
    <3>1. /\ at'[c] = "greeting" /\ link'[c] = p
          /\ \A d \in Clients \ {c} : at'[d] = at[d] /\ link'[d] = link[d]
      BY <1>1, <2>7 DEF TypeOK
    <3>2. \A d : Latest(d)' = Latest(d)
      BY <2>3 DEF Latest
    <3>3. ASSUME NEW q \in Ports, NEW d \in Calls(q)'
          PROVE  q \in filled' \/ (at'[d] \in {"greeting", "send"} /\ link'[d] = q)
      <4>1. d \in Clients /\ (d \in Calls(q) \/ (q = p /\ d = c))
        BY <2>7, <3>3 DEF Calls
      <4>2. CASE d \in Calls(q)
        <5>1. q \in filled \/ (at[d] \in {"greeting", "send"} /\ link[d] = q)
          BY <4>2 DEF Attended
        <5>2. QED BY <2>2, <2>3, <3>1, <4>1, <5>1
      <4>3. CASE q = p /\ d = c
        BY <3>1, <4>3
      <4>4. QED BY <4>1, <4>2, <4>3
    <3>4. QED BY <2>2, <2>3, <3>1, <3>2, <3>3 DEF Attended
  <2>8. QED BY <1>1, <2>1, <2>2, <2>4, <2>5, <2>6, <2>7 DEF Goes
<1>12. ASSUME NEW c \in Clients, read_greeting(c) PROVE Attended'
  <2>1. at[c] = "greeting" /\ UNCHANGED peers
    BY <1>12 DEF read_greeting
  <2>2. link[c].host \in Clients
    BY <1>1, <2>1 DEF Settled, Ports
  <2>3. at' = [at EXCEPT ![c] = "send"]
    BY <1>1, <1>12, <2>2 DEF read_greeting, Goes
  <2>4. at'[c] = "send" /\ \A d \in Clients \ {c} : at'[d] = at[d]
    BY <1>1, <2>3 DEF TypeOK
  <2>5. \A d : Latest(d)' = Latest(d) /\ \A p : Calls(p)' = Calls(p)
    BY <2>1 DEF Latest, Calls, peers
  <2>6. \A p \in Ports : \A d \in Calls(p) : d \in Clients
    BY DEF Calls
  <2>7. QED BY <2>1, <2>4, <2>5, <2>6 DEF Attended, peers
<1>13. ASSUME NEW c \in Clients, send_file(c) PROVE Attended'
  <2>1. at[c] = "send" /\ UNCHANGED <<port, link, conns, taken>>
    BY <1>13 DEF send_file
  <2>2. link[c].host \in Clients
    BY <1>1, <2>1 DEF Settled, Ports
  <2>3. at' = [at EXCEPT ![c] = "loop"] /\ filled' = filled \cup {link[c]}
    BY <1>1, <1>13, <2>2 DEF send_file, Goes
  <2>4. at'[c] = "loop" /\ \A d \in Clients \ {c} : at'[d] = at[d]
    BY <1>1, <2>3 DEF TypeOK
  <2>5. \A d : Latest(d)' = Latest(d) /\ \A p : Calls(p)' = Calls(p)
    BY <2>1 DEF Latest, Calls
  <2>6. ASSUME NEW p \in Ports, NEW d \in Calls(p)
        PROVE  p \in filled' \/ (at'[d] \in {"greeting", "send"} /\ link'[d] = p)
    <3>1. d \in Clients /\ (p \in filled \/ (at[d] \in {"greeting", "send"} /\ link[d] = p))
      BY DEF Calls, Attended
    <3>2. QED BY <2>1, <2>3, <2>4, <3>1
  <2>7. QED BY <2>1, <2>4, <2>5, <2>6 DEF Attended
<1>14. QED
  BY <1>3, <1>4, <1>5, <1>6, <1>7, <1>8, <1>9, <1>10, <1>11, <1>12, <1>13 DEF Next, Client

LEMMA AttendedInvariant ==
  ASSUME "join" \notin Faults, "kill" \notin Faults, "restart" \notin Faults
  PROVE  Spec => [](Accounts /\ Healthy /\ Nested /\ Attended)
<1>1. Init => Attended
  BY DEF Init, Attended, Calls
<1>2. Accounts /\ Healthy /\ Attended /\ [Next]_vars => Attended'
  BY AttendedStep DEF Accounts
<1>3. Accounts /\ OneMention /\ Nested /\ [Next]_vars => Nested'
  BY ProgressStep DEF Progress
<1>4. Spec => [](Accounts /\ OneMention /\ Healthy)
  BY HealthyInvariant
<1>5. QED BY <1>1, <1>2, <1>3, <1>4, NestedInit, PTL DEF Spec

(* Only in its loop, with nothing to read, does a client neither wait nor      *)
(* proceed.                                                                 *)
LEMMA Busy ==
  ASSUME TypeOK, Healthy, Attended, NEW d \in Clients, at[d] = "loop" => down[d] # <<>>
  PROVE  Waiting(d) \/ Proceeds(d)
<1>1. d # Server
  BY TransferAssumption DEF Server
<1>2. at[d] \in Places /\ at[d] # "over" /\ at[d] # "spin"
  BY DEF TypeOK, Healthy, Attended
<1>3. CASE at[d] \in {"accept", "greeting", "send", "receive"}
  BY <1>1, <1>3 DEF Proceeds
<1>4. CASE at[d] \in {"loop", "prompt", "listen", "inbox"}
  BY <1>1, <1>4 DEF Proceeds
<1>5. QED BY <1>2, <1>3, <1>4 DEF Places

LEMMA LeadsOn ==
  ASSUME TypeOK, Settled, Healthy, Nested, Attended, Expected,
         NEW x \in Clients \cup {Server}, Waiting(x)
  PROVE  \/ Abandoned(x)
         \/ For(x) \in Clients \cup {Server} /\ (Waiting(For(x)) \/ Proceeds(For(x)))
<1>1. ASSUME pending # <<>>
      PROVE  Head(pending)[1] \in Clients /\ Len(down[Head(pending)[1]]) \in Nat
  <2>1. Head(pending) \in Clients \X Messages
    BY <1>1, HeadSeq DEF TypeOK
  <2>2. QED BY <2>1, LenProperties DEF TypeOK
<1>2. CASE x = Server
  <2>1. pending # <<>> /\ Len(down[Head(pending)[1]]) >= Cap /\ For(x) = Head(pending)[1]
    BY <1>2 DEF Waiting, For
  <2>2. down[Head(pending)[1]] # <<>>
    BY <2>1, EmptySeq, TransferAssumption
  <2>3. QED BY <1>1, <2>1, <2>2, Busy
<1>3. CASE x # Server /\ at[x] = "accept"
  <2>1. Awaited(x, Latest(x), asked[x].from) /\ Calls(Latest(x)) = {} /\ asked[x].from \in Clients
    BY <1>3, TransferAssumption DEF Expected, Engaged, Waiting
  <2>2. CASE \E d \in Clients : HasInfo(d, Latest(x))
    <3>1. For(x) \in Clients /\ HasInfo(For(x), Latest(x))
      BY <1>3, <2>2 DEF For
    <3>2. down[For(x)] # <<>>
      BY <3>1 DEF HasInfo
    <3>3. QED BY <3>1, <3>2, Busy
  <2>3. CASE ~\E d \in Clients : HasInfo(d, Latest(x))
    <3>1. For(x) = Server
      BY <1>3, <2>3 DEF For
    <3>2. pending # <<>> \/ up[x] # <<>>
      BY <2>1, <2>3 DEF Awaited, HasInfo, Queued
    <3>3. QED BY <1>1, <1>3, <3>1, <3>2, TransferAssumption DEF Waiting, Proceeds
  <2>4. QED BY <2>2, <2>3
<1>4. CASE x # Server /\ at[x] = "receive"
  <2>1. PICK p : p = Latest(x)
    OBVIOUS
  <2>2. p \in taken /\ p \in Ports /\ p \notin filled
    BY <1>4, <2>1 DEF Attended, TypeOK, Waiting
  <2>3. For(x) \in Calls(p)
    BY <1>4, <2>1, <2>2 DEF For, Nested
  <2>4. For(x) \in Clients /\ at[For(x)] \in {"greeting", "send"}
    BY <2>2, <2>3 DEF Attended, Calls
  <2>5. QED BY <2>4, Busy
<1>5. CASE x # Server /\ at[x] \in {"greeting", "send"} /\ ~Abandoned(x)
  <2>1. link[x].host \in Clients /\ at[link[x].host] \in Engaged
    BY <1>5 DEF Abandoned, Settled, Ports
  <2>2. For(x) = link[x].host
    BY <1>5 DEF For
  <2>3. at[For(x)] # "loop"
    BY <2>1, <2>2 DEF Engaged
  <2>4. QED BY <2>1, <2>2, <2>3, Busy
<1>6. QED BY <1>2, <1>3, <1>4, <1>5 DEF Waiting

LEMMA LeadsOnInvariant ==
  ASSUME Faults = {}
  PROVE  Spec => [](TypeOK /\ Settled /\ Healthy /\ Nested /\ Attended /\ Expected)
<1>1. /\ "join" \notin Faults /\ "kill" \notin Faults
      /\ "restart" \notin Faults /\ "rename" \notin Faults
  OBVIOUS
<1>2. Spec => [](Accounts /\ Healthy /\ Nested /\ Attended)
  BY <1>1, AttendedInvariant
<1>3. Spec => []Expected
  BY SomebodyExpected
<1>4. Accounts => TypeOK /\ Settled
  BY DEF Accounts, Typed
<1>5. QED BY <1>2, <1>3, <1>4, PTL

(* Whoever waits, a receiver in accept(), a sender, or the server for room in a  *)
(* client's stream, waits for one who waits too or has something to do of its  *)
(* own, unless it is a sender the receiver has abandoned: no wait ends in a    *)
(* process that has nothing to do with it.  That is so without faults; joined *)
(* reads, taken names and lost sizes leave a receiver that nobody comes to.   *)
THEOREM NobodyWaitsInVain ==
  ASSUME Faults = {}
  PROVE  Spec => []WaitsLeadOn
<1>1. TypeOK /\ Settled /\ Healthy /\ Nested /\ Attended /\ Expected => WaitsLeadOn
  BY LeadsOn DEF WaitsLeadOn
<1>2. QED BY <1>1, LeadsOnInvariant, PTL

(* So the system stands still only in traps: where nobody proceeds, every wait  *)
(* goes round in a circle or leads to an abandoned sender.                   *)
THEOREM OnlyTrapsStandStill ==
  ASSUME Faults = {}
  PROVE  Spec => []((\A x \in Clients \cup {Server} : ~Proceeds(x)) =>
                      \A x \in Clients \cup {Server} : Waiting(x) => Trapped(x))
<1>1. TypeOK /\ Settled /\ Healthy /\ Nested /\ Attended /\ Expected
        => ((\A x \in Clients \cup {Server} : ~Proceeds(x)) =>
              \A x \in Clients \cup {Server} : Waiting(x) => Trapped(x))
  <2> SUFFICES ASSUME TypeOK, Settled, Healthy, Nested, Attended, Expected,
                      \A x \in Clients \cup {Server} : ~Proceeds(x),
                      NEW x \in Clients \cup {Server}, Waiting(x)
               PROVE  Trapped(x)
    OBVIOUS
  <2> DEFINE S == {y \in Clients \cup {Server} : Waiting(y)}
  <2>1. ASSUME NEW y \in S PROVE Waiting(y) /\ (For(y) \in S \/ Abandoned(y))
    BY LeadsOn
  <2>2. x \in S /\ S \in SUBSET (Clients \cup {Server})
    OBVIOUS
  <2> HIDE DEF S
  <2>3. QED BY <2>1, <2>2 DEF Trapped
<1>2. QED BY <1>1, LeadsOnInvariant, PTL
=============================================================================
