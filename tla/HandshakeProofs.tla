--------------------------- MODULE HandshakeProofs ---------------------------
(***************************************************************************)
(* The ports of module Transfer: each is announced once and has one caller,  *)
(* and goes through the phases of module Handshake.                         *)
(***************************************************************************)
EXTENDS TransferProofs

(* Where port p is mentioned: in the receiver's CONN_INFO, in the INFO_CONN    *)
(* that the server makes of it, or, once the sender has read that, in the     *)
(* connection.                                                              *)
Mentions(p) ==
  {t \in {"up", "pending", "down", "call"} \X Clients \X Nat :
     \/ t[1] = "up"      /\ Sent(t[2], t[3], "CONN_INFO") /\ up[t[2]][t[3]].port = p
     \/ t[1] = "pending" /\ Queued(t[2], t[3], "INFO_CONN") /\ pending[t[3]][2].port = p
     \/ t[1] = "down"    /\ Arriving(t[2], t[3], "INFO_CONN") /\ down[t[2]][t[3]].port = p
     \/ t[1] = "call"    /\ t[3] = 0 /\ t[2] \in Calls(p)}

Unique(p) == \A s, t \in Mentions(p) : s = t

OneMention ==
  \A p \in Ports : Unique(p) /\ (Mentions(p) # {} => p.num <= port[p.host])

LEMMA IsMention ==
  ASSUME NEW p, NEW c \in Clients, NEW k \in Nat
  PROVE  /\ <<"up", c, k>> \in Mentions(p) <=>
              Sent(c, k, "CONN_INFO") /\ up[c][k].port = p
         /\ <<"pending", c, k>> \in Mentions(p) <=>
              Queued(c, k, "INFO_CONN") /\ pending[k][2].port = p
         /\ <<"down", c, k>> \in Mentions(p) <=>
              Arriving(c, k, "INFO_CONN") /\ down[c][k].port = p
         /\ <<"call", c, k>> \in Mentions(p) <=> k = 0 /\ c \in Calls(p)
BY DEF Mentions

(* A step that moves the only mention of p, or drops it. *)
LEMMA MentionFollowed ==
  ASSUME NEW p, Unique(p), NEW f,
         \A t \in Mentions(p)' : \E m \in Mentions(p) : t = f[m]
  PROVE  Unique(p)' /\ (Mentions(p)' # {} => Mentions(p) # {})
BY DEF Unique

LEMMA MentionStays ==
  ASSUME NEW p, Unique(p), Mentions(p)' \subseteq Mentions(p)
  PROVE  Unique(p)' /\ (Mentions(p)' # {} => Mentions(p) # {})
BY DEF Unique

(* A client tells the server something other than a port, or nothing.        *)
LEMMA TellingMentions ==
  ASSUME Typed, OneMention, NEW c \in Clients,
         Types(c) \/ prompt_user_for_file_transfer(c)
  PROVE  OneMention'
<1>1. TypeOK /\ "loop" \in Places /\ "listen" \in Places
  BY DEF Typed, Places
<1>2. PICK m \in Requests, place \in Places : Tell(c, m, place) /\ m.cmd # "CONN_INFO"
  <2>1. CASE Types(c)
    <3>1. \A s \in Announced(c) : s \in Sizes
      BY DEF Announced, Sizes
    <3>2. QED BY <1>1, <2>1, <3>1, RequestsMade
              DEF Types, TypesSend, TypesMsgall, TypesNick, handle_client_message
  <2>2. CASE prompt_user_for_file_transfer(c)
    <3>1. asked[c].from \in Names
      BY <2>2 DEF prompt_user_for_file_transfer, Typed, Settled
    <3>2. QED BY <1>1, <2>2, <3>1, RequestsMade DEF prompt_user_for_file_transfer
  <2>3. QED BY <2>1, <2>2
<1>3. UNCHANGED <<port, conns, down, pending>>
  BY DEF Types, TypesSend, TypesMsgall, TypesNick, handle_client_message,
         prompt_user_for_file_transfer, peers, server
<1>4. \A d \in Clients : \A k \in DOMAIN up'[d] :
        \/ k \in DOMAIN up[d] /\ up'[d][k] = up[d][k]
        \/ up'[d][k] = m
  BY <1>1, <1>2, TellStep
<1>5. \A p \in Ports : Mentions(p)' \subseteq Mentions(p)
  BY <1>2, <1>3, <1>4 DEF Mentions, Sent, Queued, Arriving, Calls
<1>6. QED BY <1>3, <1>5, MentionStays DEF OneMention

(* The announcement of a new port, which nothing mentioned before.           *)
LEMMA ListeningMentions ==
  ASSUME Typed, HasPort, OneMention, NEW c \in Clients, set_up_peer_2_peer(c)
  PROVE  OneMention'
<1>1. TypeOK /\ "loop" \in Places /\ "accept" \in Places /\ asked[c].from \in Names
  BY DEF Typed, Settled, Places, set_up_peer_2_peer
<1>2. port[c] + 1 \in 1 .. MaxLines /\ port[c] \in Nat
  BY <1>1, TransferAssumption DEF TypeOK, HasPort, set_up_peer_2_peer
<1>3. PICK q \in Ports : q = [host |-> c, num |-> port[c] + 1]
  BY <1>2 DEF Ports
<1>4. PICK m \in Requests, place \in {"loop", "accept"} :
        Tell(c, m, place) /\ m.cmd = "CONN_INFO" /\ m.port = q
  BY <1>1, <1>3, RequestsMade DEF set_up_peer_2_peer, NextPort
<1>5. /\ UNCHANGED <<conns, down, pending>> /\ port' = [port EXCEPT ![c] = port[c] + 1]
  BY DEF set_up_peer_2_peer, server, NextPort
<1>6. port'[c] = port[c] + 1 /\ \A d \in Clients \ {c} : port'[d] = port[d]
  BY <1>1, <1>5 DEF TypeOK
<1>7. \A d \in Clients : \A k \in DOMAIN up'[d] :
        \/ k \in DOMAIN up[d] /\ up'[d][k] = up[d][k]
        \/ d = c /\ k = Len(up[c]) + 1 /\ up'[d][k] = m
  BY <1>1, <1>4, TellStep
<1>8. Mentions(q) = {}
  BY <1>2, <1>3 DEF OneMention
<1>9. Mentions(q)' \subseteq {<<"up", c, Len(up[c]) + 1>>}
  <2>1. \A t \in Mentions(q)' : t \in Mentions(q) \/ t = <<"up", c, Len(up[c]) + 1>>
    <3> TAKE t \in Mentions(q)'
    <3>1. t = <<t[1], t[2], t[3]>>
      BY DEF Mentions
    <3>2. t[1] # "up" => t \in Mentions(q)
      BY <1>5 DEF Mentions, Sent, Queued, Arriving, Calls
    <3>3. t[1] = "up" => t \in Mentions(q) \/ (t[2] = c /\ t[3] = Len(up[c]) + 1)
      <4> SUFFICES ASSUME t[1] = "up", ~(t[2] = c /\ t[3] = Len(up[c]) + 1)
                   PROVE  t \in Mentions(q)
        OBVIOUS
      <4>1. /\ t[2] \in Clients /\ t[3] \in Nat /\ t[3] \in DOMAIN up'[t[2]]
            /\ up'[t[2]][t[3]].cmd = "CONN_INFO" /\ up'[t[2]][t[3]].port = q
        BY DEF Mentions, Sent
      <4>2. Sent(t[2], t[3], "CONN_INFO") /\ up[t[2]][t[3]].port = q
        BY <1>7, <4>1 DEF Sent
      <4>3. <<"up", t[2], t[3]>> \in Mentions(q)
        BY <4>1, <4>2, IsMention
      <4>4. QED BY <3>1, <4>3
    <3>4. QED BY <3>1, <3>2, <3>3
  <2>2. QED BY <1>8, <2>1
<1>10. ASSUME NEW p \in Ports, p # q PROVE Mentions(p)' \subseteq Mentions(p)
  BY <1>4, <1>5, <1>7, <1>10 DEF Mentions, Sent, Queued, Arriving, Calls
<1>11. \A p \in Ports : p.host \in Clients /\ p.num \in Nat
                        /\ port[p.host] \in Nat /\ port'[p.host] \in Nat
                        /\ port[p.host] <= port'[p.host]
  <2>1. \A d \in Clients : port[d] \in Nat
    BY <1>1, TransferAssumption DEF TypeOK
  <2>2. \A d \in Clients : port[d] <= port'[d] /\ port'[d] \in Nat
    BY <1>6, <2>1
  <2>3. QED BY <2>1, <2>2, TransferAssumption DEF Ports
<1>12. Unique(q)' /\ q.num <= port'[q.host]
  BY <1>2, <1>3, <1>6, <1>9 DEF Unique
<1>13. ASSUME NEW p \in Ports, p # q
       PROVE  Unique(p)' /\ (Mentions(p)' # {} => p.num <= port'[p.host])
  <2>1. Unique(p)' /\ (Mentions(p)' # {} => Mentions(p) # {})
    BY <1>10, <1>13, MentionStays DEF OneMention
  <2>2. Mentions(p) # {} => p.num <= port[p.host]
    BY DEF OneMention
  <2>3. ASSUME p.num <= port[p.host] PROVE p.num <= port'[p.host]
    <3>1. /\ p.num \in Nat /\ port[p.host] \in Nat /\ port[p.host] <= port'[p.host]
          /\ port'[p.host] \in Nat
      BY <1>11
    <3>2. QED BY <2>3, <3>1
  <2>4. QED BY <2>1, <2>2, <2>3
<1>14. \A p \in Ports : Unique(p)' /\ (Mentions(p)' # {} => p.num <= port'[p.host])
  BY <1>12, <1>13
<1>15. QED BY <1>14 DEF OneMention

LEMMA DeliveringMentions ==
  ASSUME Typed, OneMention, Deliver
  PROVE  OneMention'
<1>1. TypeOK
  BY DEF Typed
<1>2. UNCHANGED <<port, conns, up>>
  BY DEF Deliver, peers
<1>3. PICK c \in Clients : /\ 1 \in DOMAIN pending /\ c = pending[1][1]
                           /\ pending[1][2] \in Messages
  BY <1>1, DeliverStep
<1>4. /\ \A k \in DOMAIN pending' :
           k \in Nat \ {0} /\ k + 1 \in DOMAIN pending /\ pending'[k] = pending[k + 1]
      /\ \A d \in Clients : \A k \in DOMAIN down'[d] :
           \/ k \in DOMAIN down[d] /\ down'[d][k] = down[d][k]
           \/ d = c /\ k = Len(down[d]) + 1 /\ down'[d][k] = pending[1][2]
  BY <1>1, <1>3, DeliverStep
<1>5. ASSUME NEW p \in Ports
      PROVE  Unique(p)' /\ (Mentions(p)' # {} => Mentions(p) # {})
  <2> DEFINE first == <<"pending", c, 1>>
             new == <<"down", c, Len(down[c]) + 1>>
             f == [m \in Mentions(p) |->
                     IF m = first THEN new
                     ELSE IF m[1] = "pending" THEN <<"pending", m[2], m[3] - 1>> ELSE m]
  <2>1. ASSUME NEW t \in Mentions(p)' PROVE \E m \in Mentions(p) : t = f[m]
    <3>1. t = <<t[1], t[2], t[3]>> /\ t[2] \in Clients /\ t[3] \in Nat
      BY DEF Mentions
    <3>2. CASE t[1] = "pending"
      <4>1. /\ t[3] \in DOMAIN pending' /\ pending'[t[3]][1] = t[2]
            /\ pending'[t[3]][2].cmd = "INFO_CONN" /\ pending'[t[3]][2].port = p
        BY <3>2 DEF Mentions, Queued
      <4>2. PICK k \in Nat : k = t[3] + 1 /\ k # 1 /\ t[3] = k - 1
        BY <1>4, <4>1
      <4>3. Queued(t[2], k, "INFO_CONN") /\ pending[k][2].port = p
        BY <1>4, <4>1, <4>2 DEF Queued
      <4> DEFINE m == <<"pending", t[2], k>>
      <4>4. m \in Mentions(p)
        BY <3>1, <4>3, IsMention
      <4>5. f[m] = t
        BY <3>1, <3>2, <4>2, <4>4
      <4>6. QED BY <4>4, <4>5
    <3>3. CASE t[1] # "pending" /\ t \in Mentions(p)
      BY <3>3
    <3>4. CASE t[1] # "pending" /\ t \notin Mentions(p)
      <4>1. t[1] = "down" /\ Arriving(t[2], t[3], "INFO_CONN")' /\ down'[t[2]][t[3]].port = p
        BY <1>2, <3>4 DEF Mentions, Sent, Calls
      <4>2. ~(Arriving(t[2], t[3], "INFO_CONN") /\ down[t[2]][t[3]].port = p)
        <5>1. <<"down", t[2], t[3]>> \notin Mentions(p)
          BY <3>1, <3>4, <4>1
        <5>2. QED BY <3>1, <5>1, IsMention
      <4>3. t = new /\ pending[1][2].cmd = "INFO_CONN" /\ pending[1][2].port = p
        BY <1>4, <3>1, <4>1, <4>2 DEF Arriving
      <4>4. Queued(c, 1, "INFO_CONN")
        BY <1>3, <4>3 DEF Queued
      <4>7. first \in Mentions(p)
        BY <4>3, <4>4, IsMention
      <4>5. f[first] = t
        BY <4>3, <4>7
      <4>6. QED BY <4>5, <4>7
    <3>5. QED BY <3>2, <3>3, <3>4
  <2> HIDE DEF f
  <2>2. QED BY <2>1, MentionFollowed DEF OneMention
<1>6. QED BY <1>2, <1>5 DEF OneMention

LEMMA HandlingMentions ==
  ASSUME Typed, OneMention, NEW c \in Clients, Serve(c)
  PROVE  OneMention'
<1>1. TypeOK
  BY DEF Typed
<1>2. UNCHANGED <<port, conns, down>>
  BY DEF Serve, peers
<1>3. /\ 1 \in DOMAIN up[c] /\ pending = <<>> /\ Handles(c, up[c][1], pending')
      /\ \A d \in Clients \ {c} : up'[d] = up[d]
  BY <1>1, ServeStep
<1>4. PICK n \in Nat \ {0} : \A k \in DOMAIN up'[c] :
        k \in Nat \ {0} /\ k + n \in DOMAIN up[c] /\ up'[c][k] = up[c][k + n]
  BY <1>1, ServeStep
<1>5. ASSUME NEW p \in Ports
      PROVE  Unique(p)' /\ (Mentions(p)' # {} => Mentions(p) # {})
  <2> DEFINE first == <<"up", c, 1>>
             new == <<"pending", pending'[1][1], 1>>
             f == [m \in Mentions(p) |->
                     IF m = first THEN new
                     ELSE IF m[1] = "up" /\ m[2] = c THEN <<"up", c, m[3] - n>> ELSE m]
  <2>1. ASSUME NEW t \in Mentions(p)' PROVE \E m \in Mentions(p) : t = f[m]
    <3>1. t = <<t[1], t[2], t[3]>> /\ t[2] \in Clients /\ t[3] \in Nat
      BY DEF Mentions
    <3>2. CASE t[1] = "up" /\ t[2] = c
      <4>1. t[3] \in DOMAIN up'[c] /\ up'[c][t[3]].cmd = "CONN_INFO" /\ up'[c][t[3]].port = p
        BY <3>2 DEF Mentions, Sent
      <4>2. PICK k \in Nat : k = t[3] + n /\ k # 1 /\ t[3] = k - n
        BY <1>4, <4>1
      <4>3. Sent(c, k, "CONN_INFO") /\ up[c][k].port = p
        BY <1>4, <4>1, <4>2 DEF Sent
      <4> DEFINE m == <<"up", c, k>>
      <4>4. m \in Mentions(p)
        BY <4>3, IsMention
      <4>5. f[m] = t
        BY <3>1, <3>2, <4>2, <4>4
      <4>6. QED BY <4>4, <4>5
    <3>3. CASE t[1] = "pending"
      <4>1. t[2] = pending'[t[3]][1] /\ t[3] = 1
            /\ up[c][1].cmd = "CONN_INFO" /\ up[c][1].port = p
        BY <1>3, <3>3 DEF Mentions, Queued, Handles
      <4>2. first \in Mentions(p)
        BY <1>3, <4>1, IsMention DEF Sent
      <4>3. f[first] = t
        BY <3>1, <3>3, <4>1, <4>2
      <4>4. QED BY <4>2, <4>3
    <3>4. CASE ~(t[1] = "up" /\ t[2] = c) /\ t[1] # "pending"
      <4>1. t \in Mentions(p)
        BY <1>2, <1>3, <3>4 DEF Mentions, Sent, Arriving, Calls
      <4>2. f[t] = t
        BY <3>4, <4>1
      <4>3. QED BY <4>1, <4>2
    <3>5. QED BY <3>2, <3>3, <3>4
  <2> HIDE DEF f
  <2>2. QED BY <2>1, MentionFollowed DEF OneMention
<1>6. QED BY <1>2, <1>5 DEF OneMention

LEMMA ReadingMentions ==
  ASSUME Typed, OneMention, NEW c \in Clients,
         \/ PrintsText(c) \/ USERNAME(c) \/ NEWPROMPT(c) \/ FTREQ_prompt(c)
         \/ connect_to_peer_2_peer(c)
  PROVE  OneMention'
<1>1. TypeOK
  BY DEF Typed
<1>2. PICK cmd, n : Reads(c, cmd, n) /\ (conns' # conns => cmd = "INFO_CONN")
  BY DEF PrintsText, USERNAME, NEWPROMPT, FTREQ_prompt, connect_to_peer_2_peer, peers
<1>3. UNCHANGED <<port, pending, up>>
  BY DEF PrintsText, USERNAME, NEWPROMPT, FTREQ_prompt, connect_to_peer_2_peer, peers, server
<1>4. /\ n \in Nat \ {0} /\ 1 \in DOMAIN down[c] /\ down[c][1].cmd = cmd
      /\ Head(down[c]) = down[c][1]
      /\ \A d \in Clients \ {c} : down'[d] = down[d]
      /\ \A k \in DOMAIN down'[c] :
           k \in Nat \ {0} /\ k + n \in DOMAIN down[c] /\ down'[c][k] = down[c][k + n]
  BY <1>1, <1>2, ReadsStep
<1>5. conns' = conns \/ conns' = conns \cup {[port |-> down[c][1].port, from |-> c]}
  BY <1>4 DEF PrintsText, USERNAME, NEWPROMPT, FTREQ_prompt, connect_to_peer_2_peer, peers
<1>6. ASSUME NEW p \in Ports
      PROVE  Unique(p)' /\ (Mentions(p)' # {} => Mentions(p) # {})
  <2> DEFINE first == <<"down", c, 1>>
             new == <<"call", c, 0>>
             f == [m \in Mentions(p) |->
                     IF m = first THEN new
                     ELSE IF m[1] = "down" /\ m[2] = c THEN <<"down", c, m[3] - n>> ELSE m]
  <2>1. ASSUME NEW t \in Mentions(p)' PROVE \E m \in Mentions(p) : t = f[m]
    <3>1. t = <<t[1], t[2], t[3]>> /\ t[2] \in Clients /\ t[3] \in Nat
      BY DEF Mentions
    <3>2. CASE t[1] = "down" /\ t[2] = c
      <4>1. t[3] \in DOMAIN down'[c] /\ down'[c][t[3]].cmd = "INFO_CONN" /\ down'[c][t[3]].port = p
        BY <3>2 DEF Mentions, Arriving
      <4>2. PICK k \in Nat : k = t[3] + n /\ k # 1 /\ t[3] = k - n
        BY <1>4, <4>1
      <4>3. Arriving(c, k, "INFO_CONN") /\ down[c][k].port = p
        BY <1>4, <4>1, <4>2 DEF Arriving
      <4> DEFINE m == <<"down", c, k>>
      <4>4. m \in Mentions(p)
        BY <4>3, IsMention
      <4>5. f[m] = t
        BY <3>1, <3>2, <4>2, <4>4
      <4>6. QED BY <4>4, <4>5
    <3>3. CASE ~(t[1] = "down" /\ t[2] = c) /\ t \in Mentions(p)
      <4>1. f[t] = t
        BY <3>3
      <4>2. QED BY <3>3, <4>1
    <3>4. CASE ~(t[1] = "down" /\ t[2] = c) /\ t \notin Mentions(p)
      <4>1. t[1] = "call" /\ t[3] = 0 /\ t[2] \in Calls(p)'
        BY <1>3, <1>4, <3>4 DEF Mentions, Sent, Queued, Arriving
      <4>2. t[2] \notin Calls(p)
        <5>1. <<"call", t[2], 0>> \notin Mentions(p)
          BY <3>1, <3>4, <4>1
        <5>2. QED BY <3>1, <5>1, IsMention
      <4>3. /\ [port |-> p, from |-> t[2]] \in conns'
            /\ [port |-> p, from |-> t[2]] \notin conns
        BY <3>1, <4>1, <4>2 DEF Calls
      <4>4. t[2] = c /\ down[c][1].port = p /\ down[c][1].cmd = "INFO_CONN"
        BY <1>2, <1>4, <1>5, <4>3
      <4>5. first \in Mentions(p)
        BY <1>4, <4>4, IsMention DEF Arriving
      <4>6. f[first] = t
        BY <3>1, <4>1, <4>4, <4>5
      <4>7. QED BY <4>5, <4>6
    <3>5. QED BY <3>2, <3>3, <3>4
  <2> HIDE DEF f
  <2>2. QED BY <2>1, MentionFollowed DEF OneMention
<1>7. QED BY <1>3, <1>6 DEF OneMention

LEMMA EndingMentions ==
  ASSUME Typed, OneMention,
         \/ Restart
         \/ \E c \in Clients :
              \/ QUIT(c) \/ RECONNECT(c) \/ readline_fails(c) \/ Ends(c)
              \/ do_accept(c) \/ accept_file(c) \/ rcv_file(c) \/ read_greeting(c)
              \/ send_file(c) \/ ResetArrives(c)
  PROVE  OneMention'
<1>1. /\ UNCHANGED <<port, conns, down>>
      /\ pending' = pending \/ pending' = <<>>
      /\ up' = up \/ up' = [c \in Clients |-> <<>>]
  BY DEF Restart, QUIT, RECONNECT, readline_fails, Ends, do_accept, accept_file, rcv_file,
         read_greeting, send_file, ResetArrives, peers, server
<1>2. \A p \in Ports : Mentions(p)' \subseteq Mentions(p)
  BY <1>1 DEF Mentions, Sent, Queued, Arriving, Calls
<1>3. QED BY <1>1, <1>2, MentionStays DEF OneMention

LEMMA OneMentionInit == Init => OneMention
<1> SUFFICES ASSUME Init PROVE OneMention
  OBVIOUS
<1>1. \A p \in Ports : Mentions(p) = {}
  BY DEF Init, Mentions, Sent, Queued, Arriving, Calls
<1>2. QED BY <1>1 DEF OneMention, Unique

LEMMA OneMentionStep == Accounts /\ OneMention /\ [Next]_vars => OneMention'
<1> SUFFICES ASSUME Accounts, OneMention, [Next]_vars PROVE OneMention'
  OBVIOUS
<1>1. Typed /\ HasPort
  BY BudgetBoundsPorts DEF Accounts
<1>2. CASE TheServer \/ Restart
  BY <1>1, <1>2, DeliveringMentions, HandlingMentions, EndingMentions DEF TheServer
<1>3. ASSUME NEW c \in Clients, Types(c) \/ Client(c) \/ ResetArrives(c) \/ Ends(c)
      PROVE  OneMention'
  BY <1>1, <1>3, TellingMentions, ListeningMentions, ReadingMentions, EndingMentions
     DEF Client
<1>4. CASE UNCHANGED vars
  <2>1. port' = port /\ \A p \in Ports : Mentions(p)' = Mentions(p)
    BY <1>4 DEF vars, peers, server, Mentions, Sent, Queued, Arriving, Calls
  <2>2. QED BY <2>1 DEF OneMention, Unique
<1>5. QED BY <1>2, <1>3, <1>4 DEF Next

LEMMA OneMentionInvariant == Spec => [](Accounts /\ OneMention)
<1>1. Accounts /\ OneMention /\ [Next]_vars => OneMention'
  BY OneMentionStep
<1>2. QED BY <1>1, OneMentionInit, TypesInvariant, PTL DEF Spec

(* A port is announced to one client, which connects once: the receiver may   *)
(* take whoever accept() returns.                                           *)
THEOREM OneClientCalls == Spec => []OneCaller
<1>1. Accounts /\ OneMention => OneCaller
  <2> SUFFICES ASSUME Accounts, OneMention, NEW x \in conns
               PROVE  Cardinality(Calls(x.port)) = 1
    BY DEF OneCaller
  <2> DEFINE p == x.port
  <2>1. p \in Ports /\ x.from \in Clients /\ x = [port |-> p, from |-> x.from]
    BY DEF Accounts, Typed, TypeOK
  <2>2. x.from \in Calls(p)
    BY <2>1 DEF Calls
  <2> HIDE DEF p
  <2>3. ASSUME NEW d \in Calls(p) PROVE d = x.from
    <3>1. <<"call", d, 0>> \in Mentions(p) /\ <<"call", x.from, 0>> \in Mentions(p)
      BY <2>1, <2>2, IsMention DEF Calls
    <3>2. QED BY <2>1, <3>1, Triples DEF OneMention, Unique
  <2>4. Calls(p) = {x.from}
    BY <2>2, <2>3
  <2>5. QED BY <2>4, FS_Singleton DEF p
<1>2. QED BY <1>1, OneMentionInvariant, PTL
-----------------------------------------------------------------------------
(* The phases of a port.  The four sets that record how far a transfer has     *)
(* come are nested, and a sender past its greeting has been taken.           *)

Nested ==
  /\ \A p \in taken : Calls(p) # {}
  /\ filled \subseteq taken /\ saved \subseteq filled
  /\ \A c \in Clients :
       /\ at[c] \in {"greeting", "send"} => c \in Calls(link[c])
       /\ at[c] = "send" => link[c] \in taken

Phase  == [p \in Ports |-> PhaseOf(p)]
AnyOf(S) == CHOOSE c \in S : TRUE
Caller == [p \in Ports |-> IF Calls(p) = {} THEN NoName ELSE AnyOf(Calls(p))]

LEMMA PhaseIs ==
  ASSUME Nested, NEW p
  PROVE  /\ p \in saved => PhaseOf(p) = "saved"
         /\ p \in filled /\ p \notin saved => PhaseOf(p) = "filled"
         /\ p \in taken /\ p \notin filled => PhaseOf(p) = "greeted"
         /\ Calls(p) # {} /\ p \notin taken => PhaseOf(p) = "called"
         /\ Calls(p) = {} /\ p.num <= port[p.host] => PhaseOf(p) = "listening"
         /\ Calls(p) = {} /\ ~(p.num <= port[p.host]) => PhaseOf(p) = "closed"
<1>1. /\ p \in saved => p \in filled
      /\ p \in filled => p \in taken
      /\ p \in taken => Calls(p) # {}
  BY DEF Nested
<1>2. CASE p \in saved
  BY <1>1, <1>2 DEF PhaseOf
<1>3. CASE p \in filled /\ p \notin saved
  BY <1>1, <1>3 DEF PhaseOf
<1>4. CASE p \in taken /\ p \notin filled
  BY <1>1, <1>4 DEF PhaseOf
<1>5. CASE Calls(p) # {} /\ p \notin taken
  BY <1>1, <1>5 DEF PhaseOf
<1>6. CASE Calls(p) = {}
  BY <1>1, <1>6 DEF PhaseOf
<1>7. QED BY <1>1, <1>2, <1>3, <1>4, <1>5, <1>6

LEMMA NestedInit == Init => Nested
BY DEF Init, Nested

(* A step of Handshake, or none, and what it needs next time.                *)
Progress == Nested' /\ (H!Next \/ UNCHANGED H!vars)

LEMMA NoProgress ==
  ASSUME TypeOK, Nested, UNCHANGED <<port, link, conns, taken, filled, saved>>,
         \A c \in Clients : at'[c] \in {"greeting", "send"} =>
           \/ at'[c] = at[c]
           \/ at[c] = "greeting" /\ at'[c] = "send" /\ link[c] \in taken
  PROVE  Progress
<1>1. \A p : Calls(p)' = Calls(p)
  BY DEF Calls
<1>2. Nested'
  BY <1>1 DEF Nested
<1>3. \A p : PhaseOf(p)' = PhaseOf(p)
  BY <1>1 DEF PhaseOf
<1>4. Phase' = Phase /\ Caller' = Caller
  BY <1>1, <1>3 DEF Phase, Caller
<1>6. UNCHANGED H!vars
  BY <1>4 DEF H!vars, Phase, Caller, AnyOf
<1>5. QED BY <1>2, <1>6 DEF Progress

LEMMA ListeningProgress ==
  ASSUME Typed, HasPort, OneMention, Nested, NEW c \in Clients, set_up_peer_2_peer(c)
  PROVE  Progress
<1>1. TypeOK
  BY DEF Typed
<1>2. port[c] + 1 \in 1 .. MaxLines /\ port[c] \in Nat
  BY <1>1, TransferAssumption DEF TypeOK, HasPort, set_up_peer_2_peer
<1>3. PICK q \in Ports : q = [host |-> c, num |-> port[c] + 1]
  BY <1>2 DEF Ports
<1>4. /\ UNCHANGED <<link, conns, taken, filled, saved>>
      /\ port' = [port EXCEPT ![c] = port[c] + 1]
  BY DEF set_up_peer_2_peer, NextPort
<1>5. \A d \in Clients : at'[d] \in {"greeting", "send"} => at'[d] = at[d]
  BY <1>1 DEF set_up_peer_2_peer, Tell, Goes, TypeOK
<1>6. port'[c] = port[c] + 1 /\ \A d \in Clients \ {c} : port'[d] = port[d]
  BY <1>1, <1>4 DEF TypeOK
<1>7. \A p : Calls(p)' = Calls(p)
  BY <1>4 DEF Calls
<1>8. Nested'
  BY <1>4, <1>5, <1>7 DEF Nested
<1>9. Calls(q) = {} /\ q \notin taken
  <2>1. Mentions(q) = {}
    BY <1>2, <1>3 DEF OneMention
  <2>2. \A d \in Calls(q) : <<"call", d, 0>> \in Mentions(q)
    BY IsMention DEF Calls
  <2>3. QED BY <2>1, <2>2 DEF Nested
<1>10. Phase[q] = "closed" /\ Phase'[q] = "listening"
  <2>1. PhaseOf(q) = "closed"
    BY <1>2, <1>3, <1>9, PhaseIs
  <2>2. Calls(q)' = {} /\ q.num <= port'[q.host] /\ q \notin taken' /\ q \notin filled'
        /\ q \notin saved'
    BY <1>2, <1>3, <1>4, <1>6, <1>7, <1>9 DEF Nested
  <2>3. PhaseOf(q)' = "listening"
    BY <2>2 DEF PhaseOf
  <2>4. QED BY <2>1, <2>3 DEF Phase
<1>11. \A p \in Ports : p # q => Phase'[p] = Phase[p]
  <2>1. ASSUME NEW p \in Ports, p # q
        PROVE  p.num <= port'[p.host] <=> p.num <= port[p.host]
    <3>1. p.host \in Clients /\ p.num \in Nat /\ p = [host |-> p.host, num |-> p.num]
      BY TransferAssumption DEF Ports
    <3>2. p.host # c \/ p.num # port[c] + 1
      BY <1>3, <2>1, <3>1
    <3>3. QED BY <1>2, <1>6, <3>1, <3>2
  <2>2. QED BY <1>4, <1>7, <2>1 DEF Phase, PhaseOf
<1>12. Phase' = [Phase EXCEPT ![q] = "listening"]
  BY <1>10, <1>11 DEF Phase
<1>13. Caller' = Caller
  BY <1>7 DEF Caller
<1>14. H!Listen(q)
  BY <1>10, <1>12, <1>13 DEF H!Listen, H!Moves, Phase, Caller, AnyOf
<1>15. QED BY <1>8, <1>14 DEF Progress, H!Next

LEMMA CallingProgress ==
  ASSUME Typed, OneMention, Nested, NEW c \in Clients, connect_to_peer_2_peer(c)
  PROVE  Progress
<1>1. TypeOK
  BY DEF Typed
<1>2. PICK n : Reads(c, "INFO_CONN", n)
  BY DEF connect_to_peer_2_peer
<1>3. /\ 1 \in DOMAIN down[c] /\ Head(down[c]) = down[c][1]
      /\ down[c][1] \in Messages /\ down[c][1].cmd = "INFO_CONN" /\ at[c] = "loop"
  BY <1>1, <1>2, ReadsStep
<1>4. PICK q \in Ports : q = down[c][1].port
  BY <1>3, MessageFields
<1>5. UNCHANGED <<port, taken, filled, saved>>
  BY DEF connect_to_peer_2_peer
<1>6. CASE UNCHANGED <<link, conns>> /\ (UNCHANGED at \/ Goes(c, "over"))
  <2>1. \A d \in Clients : at'[d] \in {"greeting", "send"} => at'[d] = at[d]
    BY <1>1, <1>6 DEF Goes, TypeOK
  <2>2. QED BY <1>1, <1>5, <1>6, <2>1, NoProgress
<1>7. CASE /\ link' = [link EXCEPT ![c] = q]
           /\ conns' = conns \cup {[port |-> q, from |-> c]}
           /\ Goes(c, "greeting")
  <2>1. q.num <= port[q.host] /\ Calls(q) = {}
    <3>1. <<"down", c, 1>> \in Mentions(q)
      BY <1>3, <1>4, IsMention DEF Arriving
    <3>2. \A d \in Calls(q) : <<"call", d, 0>> \in Mentions(q)
      BY IsMention DEF Calls
    <3>3. \A d \in Calls(q) : FALSE
      BY <3>1, <3>2, Triples DEF OneMention, Unique
    <3>4. QED BY <3>1, <3>3 DEF OneMention
  <2>2. Calls(q)' = {c} /\ \A p : p # q => Calls(p)' = Calls(p)
    <3>1. \A d, p : [port |-> p, from |-> d] \in conns' <=>
                      [port |-> p, from |-> d] \in conns \/ (p = q /\ d = c)
      BY <1>7
    <3>2. QED BY <2>1, <3>1 DEF Calls
  <2>3. at'[c] = "greeting" /\ link'[c] = q
        /\ \A d \in Clients \ {c} : at'[d] = at[d] /\ link'[d] = link[d]
    BY <1>1, <1>7 DEF Goes, TypeOK
  <2>4. \A p : Calls(p) # {} => Calls(p)' = Calls(p)
    BY <2>1, <2>2
  <2>5. Nested'
    <3>1. \A p \in taken' : Calls(p)' # {}
      BY <1>5, <2>4 DEF Nested
    <3>2. ASSUME NEW d \in Clients
          PROVE  /\ at'[d] \in {"greeting", "send"} => d \in Calls(link[d])'
                 /\ at'[d] = "send" => link'[d] \in taken'
      <4>1. CASE d = c
        BY <2>2, <2>3, <4>1 DEF Calls
      <4>2. CASE d # c
        <5>1. at'[d] = at[d] /\ link'[d] = link[d]
          BY <2>3, <4>2
        <5>2. at[d] \in {"greeting", "send"} => d \in Calls(link[d])
          BY DEF Nested
        <5>3. d \in Calls(link[d]) => [port |-> link'[d], from |-> d] \in conns'
          BY <1>7, <5>1 DEF Calls
        <5>4. QED BY <1>5, <5>1, <5>2, <5>3 DEF Nested, Calls
      <4>3. QED BY <4>1, <4>2
    <3>3. QED BY <1>5, <3>1, <3>2 DEF Nested
  <2>6. q \notin taken /\ q \notin filled /\ q \notin saved
    BY <2>1 DEF Nested
  <2>7. Phase[q] = "listening" /\ Phase'[q] = "called"
    <3>1. PhaseOf(q) = "listening"
      BY <2>1, PhaseIs
    <3>2. PhaseOf(q)' = "called"
      BY <1>5, <2>2, <2>6 DEF PhaseOf
    <3>3. QED BY <3>1, <3>2 DEF Phase
  <2>8. \A p \in Ports : p # q => Phase'[p] = Phase[p] /\ Caller'[p] = Caller[p]
    BY <1>5, <2>2 DEF Phase, Caller, PhaseOf
  <2>9. Caller'[q] = c
    BY <2>2 DEF Caller, AnyOf
  <2>10. Phase' = [Phase EXCEPT ![q] = "called"]
    BY <2>7, <2>8 DEF Phase
  <2>11. Caller' = [Caller EXCEPT ![q] = c]
    BY <2>8, <2>9 DEF Caller
  <2>12. H!Call(q, c)
    BY <2>7, <2>10, <2>11 DEF H!Call, H!Moves, Phase, Caller, AnyOf
  <2>13. QED BY <2>5, <2>12 DEF Progress, H!Next
<1>8. QED BY <1>3, <1>4, <1>6, <1>7 DEF connect_to_peer_2_peer

LEMMA AcceptingProgress ==
  ASSUME Typed, Nested, NEW c \in Clients, do_accept(c)
  PROVE  Progress
<1>1. TypeOK
  BY DEF Typed
<1>2. UNCHANGED <<port, link, conns, filled, saved>>
  BY DEF do_accept
<1>3. \A d \in Clients : at'[d] \in {"greeting", "send"} => at'[d] = at[d]
  BY <1>1 DEF do_accept, Goes, TypeOK
<1>4. PICK q \in Ports : q = Latest(c) /\ Calls(q) # {}
  BY <1>1 DEF do_accept, Calls, TypeOK
<1>5. taken' = taken \cup {q}
  BY <1>4 DEF do_accept
<1>6. CASE q \in taken
  BY <1>1, <1>2, <1>3, <1>5, <1>6, NoProgress
<1>7. CASE q \notin taken
  <2>1. \A p : Calls(p)' = Calls(p)
    BY <1>2 DEF Calls
  <2>2. Nested'
    BY <1>2, <1>3, <1>4, <1>5, <2>1 DEF Nested
  <2>3. PhaseOf(q) = "called"
    BY <1>4, <1>7, PhaseIs
  <2>4. q \notin filled /\ q \notin saved
    BY <1>7 DEF Nested
  <2>5. PhaseOf(q)' = "greeted"
    BY <1>2, <1>4, <1>5, <2>1, <2>4 DEF PhaseOf
  <2>6. \A p \in Ports : p # q => Phase'[p] = Phase[p]
    BY <1>2, <1>5, <2>1 DEF Phase, PhaseOf
  <2>7. Phase' = [Phase EXCEPT ![q] = "greeted"] /\ Phase[q] = "called" /\ Phase'[q] = "greeted"
    BY <2>3, <2>5, <2>6 DEF Phase
  <2>8. Caller' = Caller
    BY <2>1 DEF Caller
  <2>9. H!Greet(q)
    BY <2>7, <2>8 DEF H!Greet, H!Moves, Phase, Caller, AnyOf
  <2>10. QED BY <2>2, <2>9 DEF Progress, H!Next
<1>8. QED BY <1>6, <1>7

LEMMA SendingProgress ==
  ASSUME Typed, Nested, NEW c \in Clients, send_file(c)
  PROVE  Progress
<1>1. TypeOK /\ at[c] = "send"
  BY DEF Typed, send_file
<1>2. UNCHANGED <<port, link, conns, taken, saved>>
  BY DEF send_file
<1>3. \A d \in Clients : at'[d] \in {"greeting", "send"} => at'[d] = at[d]
  BY <1>1 DEF send_file, Goes, TypeOK
<1>4. PICK q \in Ports : q = link[c] /\ q \in taken
  BY <1>1 DEF Typed, Settled, Nested
<1>5. CASE filled' = filled \/ q \in filled
  BY <1>1, <1>2, <1>3, <1>4, <1>5, NoProgress DEF send_file
<1>6. CASE filled' = filled \cup {q} /\ q \notin filled
  <2>1. \A p : Calls(p)' = Calls(p)
    BY <1>2 DEF Calls
  <2>2. Nested'
    BY <1>2, <1>3, <1>4, <1>6, <2>1 DEF Nested
  <2>3. PhaseOf(q) = "greeted"
    BY <1>4, <1>6, PhaseIs
  <2>4. q \notin saved
    BY <1>6 DEF Nested
  <2>5. PhaseOf(q)' = "filled"
    <3>1. Calls(q)' # {} /\ q \in taken' /\ q \in filled' /\ q \notin saved'
      BY <1>2, <1>4, <1>6, <2>1, <2>4 DEF Nested
    <3>2. QED BY <3>1 DEF PhaseOf
  <2>6. \A p \in Ports : p # q => Phase'[p] = Phase[p]
    BY <1>2, <1>6, <2>1 DEF Phase, PhaseOf
  <2>7. Phase' = [Phase EXCEPT ![q] = "filled"] /\ Phase[q] = "greeted" /\ Phase'[q] = "filled"
    BY <2>3, <2>5, <2>6 DEF Phase
  <2>8. Caller' = Caller
    BY <2>1 DEF Caller
  <2>9. H!Fill(q)
    BY <2>7, <2>8 DEF H!Fill, H!Moves, Phase, Caller, AnyOf
  <2>10. QED BY <2>2, <2>9 DEF Progress, H!Next
<1>7. QED BY <1>4, <1>5, <1>6 DEF send_file

LEMMA SavingProgress ==
  ASSUME Typed, Nested, NEW c \in Clients, rcv_file(c)
  PROVE  Progress
<1>1. TypeOK
  BY DEF Typed
<1>2. UNCHANGED <<port, link, conns, taken, filled>>
  BY DEF rcv_file
<1>3. \A d \in Clients : at'[d] \in {"greeting", "send"} => at'[d] = at[d]
  BY <1>1 DEF rcv_file, Goes, TypeOK
<1>4. CASE UNCHANGED saved
  BY <1>1, <1>2, <1>3, <1>4, NoProgress
<1>5. CASE saved' = saved \cup {Latest(c)} /\ Latest(c) \in filled
  <2>1. PICK q \in Ports : q = Latest(c)
    BY <1>1, <1>5 DEF TypeOK
  <2>2. CASE q \in saved
    <3>1. saved' = saved
      BY <1>5, <2>1, <2>2
    <3>2. QED BY <1>4, <3>1
  <2>3. CASE q \notin saved
    <3>1. \A p : Calls(p)' = Calls(p)
      BY <1>2 DEF Calls
    <3>2. Nested'
      BY <1>2, <1>3, <1>5, <3>1 DEF Nested
    <3>3. PhaseOf(q) = "filled"
      BY <1>5, <2>1, <2>3, PhaseIs
    <3>4. PhaseOf(q)' = "saved"
      <4>1. Calls(q)' # {} /\ q \in taken' /\ q \in filled' /\ q \in saved'
        BY <1>2, <1>5, <2>1, <3>1 DEF Nested
      <4>2. QED BY <4>1 DEF PhaseOf
    <3>5. \A p \in Ports : p # q => Phase'[p] = Phase[p]
      BY <1>2, <1>5, <2>1, <3>1 DEF Phase, PhaseOf
    <3>6. Phase' = [Phase EXCEPT ![q] = "saved"] /\ Phase[q] = "filled" /\ Phase'[q] = "saved"
      BY <3>3, <3>4, <3>5 DEF Phase
    <3>7. Caller' = Caller
      BY <3>1 DEF Caller
    <3>8. H!Save(q)
      BY <3>6, <3>7 DEF H!Save, H!Moves, Phase, Caller, AnyOf
    <3>9. QED BY <3>2, <3>8 DEF Progress, H!Next
  <2>4. QED BY <2>2, <2>3
<1>6. QED BY <1>4, <1>5 DEF rcv_file

LEMMA OtherProgress ==
  ASSUME Typed, Nested,
         \/ TheServer \/ Restart
         \/ \E c \in Clients :
              \/ Types(c) \/ prompt_user_for_file_transfer(c)
              \/ PrintsText(c) \/ USERNAME(c) \/ NEWPROMPT(c) \/ FTREQ_prompt(c)
              \/ RECONNECT(c) \/ readline_fails(c) \/ accept_file(c)
              \/ read_greeting(c) \/ ResetArrives(c) \/ Ends(c)
  PROVE  Progress
<1>1. TypeOK
  BY DEF Typed
<1>2. UNCHANGED <<port, link, conns, taken, filled, saved>>
  BY DEF TheServer, Deliver, Serve, QUIT, Restart, Types, TypesSend, TypesMsgall, TypesNick,
         handle_client_message, prompt_user_for_file_transfer, PrintsText, USERNAME,
         NEWPROMPT, FTREQ_prompt, RECONNECT, readline_fails, accept_file, read_greeting,
         ResetArrives, Ends, peers
<1>3. CASE TheServer \/ Restart
  <2>1. at' = at
    BY <1>3 DEF TheServer, Deliver, Serve, QUIT, Restart
  <2>2. QED BY <1>1, <1>2, <2>1, NoProgress
<1>4. ASSUME NEW c \in Clients,
             \/ Types(c) \/ prompt_user_for_file_transfer(c)
             \/ PrintsText(c) \/ USERNAME(c) \/ NEWPROMPT(c) \/ FTREQ_prompt(c)
             \/ RECONNECT(c) \/ readline_fails(c) \/ accept_file(c)
             \/ read_greeting(c) \/ ResetArrives(c) \/ Ends(c)
      PROVE  Progress
  <2>1. \/ at' = at
        \/ \E place : at' = [at EXCEPT ![c] = place] /\ place \notin {"greeting", "send"}
        \/ at' = [at EXCEPT ![c] = "send"] /\ at[c] = "greeting" /\ link[c] \in taken
    <3>1. ASSUME NEW m, NEW place, Tell(c, m, place), place \notin {"greeting", "send"}
          PROVE  \/ at' = at
                 \/ \E other : at' = [at EXCEPT ![c] = other] /\ other \notin {"greeting", "send"}
      BY <3>1 DEF Tell, Goes
    <3>2. CASE Types(c) \/ prompt_user_for_file_transfer(c)
      <4>1. \E m : Tell(c, m, "loop") \/ Tell(c, m, "listen")
        BY <3>2 DEF Types, TypesSend, TypesMsgall, TypesNick, handle_client_message,
                    prompt_user_for_file_transfer
      <4>2. QED BY <3>1, <4>1
    <3>3. CASE NEWPROMPT(c)
      BY <3>3 DEF NEWPROMPT, Goes
    <3>4. CASE \/ PrintsText(c) \/ USERNAME(c) \/ FTREQ_prompt(c)
               \/ RECONNECT(c) \/ readline_fails(c) \/ ResetArrives(c) \/ Ends(c)
      <4>1. CASE PrintsText(c) \/ USERNAME(c) \/ ResetArrives(c)
        BY <4>1 DEF PrintsText, USERNAME, ResetArrives, Goes
      <4>2. CASE FTREQ_prompt(c)
        <5>1. at' = [at EXCEPT ![c] = "prompt"] /\ "prompt" \notin {"greeting", "send"}
          BY <4>2 DEF FTREQ_prompt, Goes
        <5>2. \E place : at' = [at EXCEPT ![c] = place] /\ place \notin {"greeting", "send"}
          BY <5>1, Zenon
        <5>3. QED BY <5>2, Zenon
      <4>3. CASE RECONNECT(c) \/ readline_fails(c) \/ Ends(c)
        <5>1. \/ at' = at
              \/ at' = [at EXCEPT ![c] = "over"] /\ "over" \notin {"greeting", "send"}
          BY <4>3 DEF RECONNECT, readline_fails, Ends, Goes
        <5>2. QED BY <5>1, Zenon
      <4>4. QED BY <3>4, <4>1, <4>2, <4>3
    <3>5. CASE accept_file(c) \/ read_greeting(c)
      BY <3>5 DEF accept_file, read_greeting, Greeted, Goes
    <3>6. QED BY <1>4, <3>2, <3>3, <3>4, <3>5
  <2>2. \A d \in Clients : at'[d] \in {"greeting", "send"} =>
           \/ at'[d] = at[d]
           \/ at[d] = "greeting" /\ at'[d] = "send" /\ link[d] \in taken
    BY <1>1, <2>1 DEF TypeOK
  <2>3. QED BY <1>1, <1>2, <2>2, NoProgress
<1>5. QED BY <1>3, <1>4

LEMMA ProgressStep ==
  Accounts /\ OneMention /\ Nested /\ [Next]_vars => Progress
<1> SUFFICES ASSUME Accounts, OneMention, Nested, [Next]_vars PROVE Progress
  OBVIOUS
<1>1. Typed /\ HasPort /\ TypeOK
  BY BudgetBoundsPorts DEF Accounts, Typed
<1>2. CASE TheServer \/ Restart
  BY <1>1, <1>2, OtherProgress
<1>3. ASSUME NEW c \in Clients, Types(c) \/ Client(c) \/ ResetArrives(c) \/ Ends(c)
      PROVE  Progress
  BY <1>1, <1>3, OtherProgress, ListeningProgress, CallingProgress, AcceptingProgress,
     SendingProgress, SavingProgress DEF Client
<1>4. CASE UNCHANGED vars
  BY <1>1, <1>4, NoProgress DEF vars, peers
<1>5. QED BY <1>2, <1>3, <1>4 DEF Next

LEMMA HandshakeInit == Init => H!Init
<1> SUFFICES ASSUME Init PROVE H!Init
  OBVIOUS
<1>1. \A p : Calls(p) = {}
  BY DEF Init, Calls
<1>2. ASSUME NEW p \in Ports PROVE PhaseOf(p) = "closed"
  <2>1. ~(p.num <= port[p.host])
    BY TransferAssumption DEF Init, Ports
  <2>2. QED BY <1>1, <2>1, NestedInit, PhaseIs
<1>3. QED BY <1>1, <1>2 DEF H!Init

(* A transfer goes through its phases in order, each at most once: no file is  *)
(* sent before the greeting, saved before it is sent, or taken by two.       *)
THEOREM TransferImplementsHandshake == Spec => ImplementsHandshake
<1>1. Spec => [](Accounts /\ OneMention)
  BY OneMentionInvariant
<1>2. Accounts /\ OneMention /\ Nested /\ [Next]_vars => Nested' /\ [H!Next]_(H!vars)
  BY ProgressStep DEF Progress
<1>3. QED BY <1>1, <1>2, NestedInit, HandshakeInit, PTL DEF Spec, ImplementsHandshake, H!Spec
=============================================================================
