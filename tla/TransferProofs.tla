--------------------------- MODULE TransferProofs ---------------------------
(***************************************************************************)
(* Module Transfer, for any number of clients, any room in the streams and   *)
(* any bound on the lines typed.                                            *)
(***************************************************************************)
EXTENDS TransferProperties, SequenceTheorems, FiniteSetTheorems, TLAPS

(* Streams: what a read leaves and what a write adds. *)
LEMMA BehindSeq ==
  ASSUME NEW S, NEW s \in Seq(S), NEW n \in DOMAIN s
  PROVE  /\ Behind(s, n) \in Seq(S)
         /\ Len(s) \in Nat /\ DOMAIN s = 1 .. Len(s)
         /\ DOMAIN Behind(s, n) = 1 .. Len(s) - n
         /\ \A k \in DOMAIN Behind(s, n) :
              k \in Nat \ {0} /\ k + n \in DOMAIN s /\ Behind(s, n)[k] = s[k + n]
<1>1. Len(s) \in Nat /\ DOMAIN s = 1 .. Len(s) /\ n \in 1 .. Len(s)
  BY LenProperties
<1>2. \A i \in n + 1 .. Len(s) : s[i] \in S
  BY <1>1, ElementOfSeq
<1>3. /\ SubSeq(s, n + 1, Len(s)) \in Seq(S)
      /\ Len(SubSeq(s, n + 1, Len(s))) = IF n + 1 <= Len(s) THEN Len(s) - (n + 1) + 1 ELSE 0
      /\ \A i \in 1 .. Len(s) - (n + 1) + 1 : SubSeq(s, n + 1, Len(s))[i] = s[n + 1 + i - 1]
  BY <1>1, <1>2, SubSeqProperties
<1>4. Len(Behind(s, n)) = Len(s) - n
  BY <1>1, <1>3 DEF Behind
<1>5. DOMAIN Behind(s, n) = 1 .. Len(s) - n
  BY <1>3, <1>4, LenProperties DEF Behind
<1>6. ASSUME NEW k \in 1 .. Len(s) - n
      PROVE  k \in Nat \ {0} /\ k + n \in DOMAIN s /\ Behind(s, n)[k] = s[k + n]
  <2>1. n + 1 + k - 1 = k + n /\ k \in 1 .. Len(s) - (n + 1) + 1
    BY <1>1
  <2>2. QED BY <1>1, <1>3, <2>1 DEF Behind
<1>7. QED BY <1>1, <1>3, <1>5, <1>6 DEF Behind

LEMMA HeadSeq ==
  ASSUME NEW S, NEW s \in Seq(S), s # <<>>
  PROVE  /\ 1 \in DOMAIN s /\ Head(s) = s[1] /\ Head(s) \in S
         /\ Tail(s) \in Seq(S)
         /\ \A k \in DOMAIN Tail(s) :
              k \in Nat \ {0} /\ k + 1 \in DOMAIN s /\ Tail(s)[k] = s[k + 1]
<1>1. Len(s) \in Nat \ {0} /\ DOMAIN s = 1 .. Len(s)
  BY EmptySeq, LenProperties
<1>2. Head(s) \in S /\ Tail(s) \in Seq(S) /\ Len(Tail(s)) = Len(s) - 1
      /\ \A i \in 1 .. Len(Tail(s)) : Tail(s)[i] = s[i + 1]
  BY HeadTailProperties
<1>3. DOMAIN Tail(s) = 1 .. Len(s) - 1
  BY <1>2, LenProperties
<1>4. QED BY <1>1, <1>2, <1>3

LEMMA AppendSeq ==
  ASSUME NEW S, NEW s \in Seq(S), NEW m \in S
  PROVE  /\ Append(s, m) \in Seq(S)
         /\ Len(s) \in Nat /\ DOMAIN s = 1 .. Len(s)
         /\ DOMAIN Append(s, m) = 1 .. Len(s) + 1
         /\ Append(s, m)[Len(s) + 1] = m
         /\ \A k \in DOMAIN s : k \in Nat \ {0} /\ Append(s, m)[k] = s[k]
<1>1. Len(s) \in Nat /\ DOMAIN s = 1 .. Len(s)
  BY LenProperties
<1>2. /\ Append(s, m) \in Seq(S) /\ Len(Append(s, m)) = Len(s) + 1
      /\ \A k \in 1 .. Len(s) : Append(s, m)[k] = s[k]
      /\ Append(s, m)[Len(s) + 1] = m
  BY AppendProperties
<1>3. DOMAIN Append(s, m) = 1 .. Len(s) + 1
  BY <1>2, LenProperties
<1>4. QED BY <1>1, <1>2, <1>3
-----------------------------------------------------------------------------
(* Messages and requests, by their command. *)

LEMMA MessageFields ==
  \A m \in Messages :
    /\ m.cmd \in {"TEXT", "NEWPROMPT", "USERNAME", "FTREQ", "INFO_CONN"}
    /\ m.cmd = "USERNAME" => m.name \in Names /\ m = [cmd |-> "USERNAME", name |-> m.name]
    /\ m.cmd = "FTREQ" => m.from \in Names /\ m.size \in Sizes /\ m.by \in Clients
    /\ m.cmd = "INFO_CONN" => m.port \in Ports
BY DEF Messages

LEMMA RequestFields ==
  \A m \in Requests :
    /\ m.cmd \in {"MSGALL", "NICK", "FTREQP", "FTREQN", "SEND", "CONN_INFO"}
    /\ m.cmd # "MSGALL" => m.name \in Names
    /\ m.cmd = "SEND" => m.size \in Sizes
    /\ m.cmd = "CONN_INFO" => m.port \in Ports
BY DEF Requests

LEMMA MessagesMade ==
  /\ TEXT \in Messages /\ [cmd |-> "NEWPROMPT"] \in Messages
  /\ \A n \in Names : [cmd |-> "USERNAME", name |-> n] \in Messages
  /\ \A n \in Names, s \in Sizes, c \in Clients :
       [cmd |-> "FTREQ", from |-> n, size |-> s, by |-> c] \in Messages
  /\ \A p \in Ports : [cmd |-> "INFO_CONN", port |-> p] \in Messages
BY DEF Messages, TEXT

LEMMA RequestsMade ==
  /\ [cmd |-> "MSGALL"] \in Requests
  /\ \A n \in Names :
       /\ [cmd |-> "NICK", name |-> n] \in Requests
       /\ [cmd |-> "FTREQP", name |-> n] \in Requests
       /\ [cmd |-> "FTREQN", name |-> n] \in Requests
       /\ \A s \in Sizes : [cmd |-> "SEND", name |-> n, size |-> s] \in Requests
       /\ \A p \in Ports : [cmd |-> "CONN_INFO", name |-> n, port |-> p] \in Requests
BY DEF Requests
-----------------------------------------------------------------------------
(* What the steps do to the streams.  Each message after a step was there     *)
(* before, in the place named, or is the one the step writes.               *)

LEMMA TellStep ==
  ASSUME TypeOK, NEW c \in Clients, NEW m \in Requests, NEW place \in Places,
         Tell(c, m, place)
  PROVE  /\ up' \in [Clients -> Seq(Requests)]
         /\ conn' \in [Clients -> ConnStates]
         /\ at' \in [Clients -> Places]
         /\ at'[c] \in {place, "over"} /\ \A d \in Clients \ {c} : at'[d] = at[d]
         /\ \A d \in Clients : \A k \in DOMAIN up[d] :
              k \in DOMAIN up'[d] /\ up'[d][k] = up[d][k]
         /\ \A d \in Clients : \A k \in DOMAIN up'[d] :
              k \notin DOMAIN up[d] =>
                d = c /\ k = Len(up[c]) + 1 /\ up'[d][k] = m /\ at'[c] = place
<1>1. /\ at' \in [Clients -> Places] /\ at'[c] \in {place, "over"}
      /\ \A d \in Clients \ {c} : at'[d] = at[d]
  <2>1. PICK p \in {place, "over"} : at' = [at EXCEPT ![c] = p]
    BY DEF Tell, Goes
  <2>2. p \in Places
    BY DEF Places
  <2>3. QED BY <2>1, <2>2 DEF TypeOK
<1>2. conn' \in [Clients -> ConnStates]
  BY DEF Tell, TypeOK, ConnStates
<1>3. CASE up' = up
  BY <1>1, <1>2, <1>3 DEF TypeOK
<1>4. CASE up' = [up EXCEPT ![c] = Append(up[c], m)] /\ at' = [at EXCEPT ![c] = place]
  <2>1. up[c] \in Seq(Requests)
    BY DEF TypeOK
  <2>2. /\ Append(up[c], m) \in Seq(Requests)
        /\ Len(up[c]) \in Nat /\ DOMAIN up[c] = 1 .. Len(up[c])
        /\ DOMAIN Append(up[c], m) = 1 .. Len(up[c]) + 1
        /\ Append(up[c], m)[Len(up[c]) + 1] = m
        /\ \A k \in DOMAIN up[c] : Append(up[c], m)[k] = up[c][k]
    BY <2>1, AppendSeq
  <2>3. up'[c] = Append(up[c], m) /\ \A d \in Clients \ {c} : up'[d] = up[d]
    BY <1>4 DEF TypeOK
  <2>4. up' \in [Clients -> Seq(Requests)]
    BY <1>4, <2>2 DEF TypeOK
  <2>5. at'[c] = place
    BY <1>4 DEF TypeOK
  <2>6. \A d \in Clients : \A k \in DOMAIN up[d] :
          k \in DOMAIN up'[d] /\ up'[d][k] = up[d][k]
    BY <2>2, <2>3
  <2>7. \A d \in Clients : \A k \in DOMAIN up'[d] :
          k \notin DOMAIN up[d] => d = c /\ k = Len(up[c]) + 1 /\ up'[d][k] = m
    BY <2>2, <2>3
  <2>8. QED BY <1>1, <1>2, <2>4, <2>5, <2>6, <2>7
<1>5. QED BY <1>3, <1>4 DEF Tell, Goes

LEMMA ReadsStep ==
  ASSUME TypeOK, NEW c \in Clients, NEW cmd, NEW n, Reads(c, cmd, n)
  PROVE  /\ n \in Nat \ {0} /\ n \in ReadSizes(down[c])
         /\ 1 \in DOMAIN down[c] /\ Head(down[c]) = down[c][1]
         /\ down[c][1] \in Messages /\ down[c][1].cmd = cmd
         /\ at[c] = "loop"
         /\ down' \in [Clients -> Seq(Messages)]
         /\ \A d \in Clients \ {c} : down'[d] = down[d]
         /\ DOMAIN down'[c] = 1 .. Len(down[c]) - n
         /\ \A k \in DOMAIN down'[c] :
              k \in Nat \ {0} /\ k + n \in DOMAIN down[c] /\ down'[c][k] = down[c][k + n]
<1>1. down[c] \in Seq(Messages) /\ n \in DOMAIN down[c]
  BY DEF Reads, ReadSizes, TypeOK
<1>2. n \in Nat \ {0} /\ down[c] # <<>>
  BY <1>1, LenProperties, EmptySeq
<1>3. /\ 1 \in DOMAIN down[c] /\ Head(down[c]) = down[c][1]
      /\ down[c][1] \in Messages /\ down[c][1].cmd = cmd
  BY <1>1, <1>2, HeadSeq DEF Reads
<1>4. /\ Behind(down[c], n) \in Seq(Messages)
      /\ DOMAIN Behind(down[c], n) = 1 .. Len(down[c]) - n
      /\ \A k \in DOMAIN Behind(down[c], n) :
           k \in Nat \ {0} /\ k + n \in DOMAIN down[c] /\ Behind(down[c], n)[k] = down[c][k + n]
  <2> DEFINE s == down[c]
  <2> HIDE DEF s
  <2>1. s \in Seq(Messages) /\ n \in DOMAIN s
    BY <1>1 DEF s
  <2>2. /\ Behind(s, n) \in Seq(Messages) /\ DOMAIN Behind(s, n) = 1 .. Len(s) - n
        /\ \A k \in DOMAIN Behind(s, n) :
             k \in Nat \ {0} /\ k + n \in DOMAIN s /\ Behind(s, n)[k] = s[k + n]
    BY <2>1, BehindSeq
  <2>3. QED BY <2>2 DEF s
<1>5. /\ down'[c] = Behind(down[c], n) /\ \A d \in Clients \ {c} : down'[d] = down[d]
      /\ down' \in [Clients -> Seq(Messages)]
  BY <1>4 DEF Reads, TypeOK
<1>6. QED BY <1>2, <1>3, <1>4, <1>5 DEF Reads

LEMMA DeliverStep ==
  ASSUME TypeOK, Deliver
  PROVE  /\ 1 \in DOMAIN pending /\ pending[1] \in Clients \X Messages
         /\ pending' \in Seq(Clients \X Messages)
         /\ \A k \in DOMAIN pending' :
              k \in Nat \ {0} /\ k + 1 \in DOMAIN pending /\ pending'[k] = pending[k + 1]
         /\ down' \in [Clients -> Seq(Messages)]
         /\ \A d \in Clients : \A k \in DOMAIN down[d] :
              k \in DOMAIN down'[d] /\ down'[d][k] = down[d][k]
         /\ \A d \in Clients : \A k \in DOMAIN down'[d] :
              k \notin DOMAIN down[d] =>
                d = pending[1][1] /\ k = Len(down[d]) + 1 /\ down'[d][k] = pending[1][2]
<1>1. pending \in Seq(Clients \X Messages) /\ pending # <<>> /\ pending' = Tail(pending)
  BY DEF TypeOK, Deliver
<1>2. /\ 1 \in DOMAIN pending /\ Head(pending) = pending[1]
      /\ pending[1] \in Clients \X Messages
      /\ pending' \in Seq(Clients \X Messages)
      /\ \A k \in DOMAIN pending' :
           k \in Nat \ {0} /\ k + 1 \in DOMAIN pending /\ pending'[k] = pending[k + 1]
  BY <1>1, HeadSeq
<1> DEFINE c == pending[1][1]
           m == pending[1][2]
<1>3. c \in Clients /\ m \in Messages
  BY <1>2
<1>4. CASE down' = down
  BY <1>2, <1>4 DEF TypeOK
<1>5. CASE down' = [down EXCEPT ![c] = Append(down[c], m)]
  <2> HIDE DEF c, m
  <2>1. down[c] \in Seq(Messages)
    BY <1>3 DEF TypeOK
  <2>2. /\ Append(down[c], m) \in Seq(Messages)
        /\ Len(down[c]) \in Nat /\ DOMAIN down[c] = 1 .. Len(down[c])
        /\ DOMAIN Append(down[c], m) = 1 .. Len(down[c]) + 1
        /\ Append(down[c], m)[Len(down[c]) + 1] = m
        /\ \A k \in DOMAIN down[c] : Append(down[c], m)[k] = down[c][k]
    BY <1>3, <2>1, AppendSeq
  <2>3. down'[c] = Append(down[c], m) /\ \A d \in Clients \ {c} : down'[d] = down[d]
    BY <1>3, <1>5 DEF TypeOK
  <2>4. down' \in [Clients -> Seq(Messages)]
    BY <1>5, <2>2 DEF TypeOK
  <2>5. /\ \A d \in Clients : \A k \in DOMAIN down[d] :
              k \in DOMAIN down'[d] /\ down'[d][k] = down[d][k]
        /\ \A d \in Clients : \A k \in DOMAIN down'[d] :
              k \notin DOMAIN down[d] => d = c /\ k = Len(down[d]) + 1 /\ down'[d][k] = m
    BY <1>3, <2>2, <2>3
  <2>6. QED BY <1>2, <2>4, <2>5 DEF c, m
<1>6. QED BY <1>2, <1>4, <1>5 DEF Deliver

(* The handler of a request writes at most one message that is not text: to   *)
(* the client it names, or to the speaker.                                  *)
Special == {"FTREQ", "INFO_CONN", "USERNAME"}

Handles(c, m, q) ==
  /\ q \in Seq(Clients \X Messages)
  /\ \A k \in DOMAIN q :
       /\ q[k][2].cmd = "FTREQ" =>
            /\ k = 2 /\ m.cmd = "SEND" /\ q[k][1] \in Named(m.name)
            /\ q[k][2].from = nick[c] /\ q[k][2].size = m.size /\ q[k][2].by = c
       /\ q[k][2].cmd = "INFO_CONN" =>
            /\ k = 1 /\ m.cmd = "CONN_INFO" /\ q[k][1] \in Named(m.name)
            /\ q[k][2].port = m.port
       /\ q[k][2].cmd = "USERNAME" =>
            /\ k = 1 /\ m.cmd = "NICK" /\ q[k][1] = c /\ ~Refused(m.name)
            /\ q[k][2].name = m.name

LEMMA OneText ==
  ASSUME NEW c \in Clients, NEW m
  PROVE  Handles(c, m, <<To(c, TEXT)>>)
<1>1. <<To(c, TEXT)>> \in Seq(Clients \X Messages)
  BY MessagesMade DEF To
<1>2. QED BY <1>1 DEF Handles, To, TEXT

LEMMA RelayWrites ==
  ASSUME NEW c \in Clients, NEW n, NEW x \in Messages, Named(n) # {}
  PROVE  \E w \in Named(n) : w \in Clients /\ Relay(c, n, x) = <<To(w, x)>>
BY DEF Relay, Named

LEMMA HandlersWrites ==
  ASSUME TypeOK, NEW c \in Clients, NEW m \in Requests
  PROVE  /\ m.cmd = "SEND" /\ nick[c] # NoName => Handles(c, m, SEND(c, m))
         /\ m.cmd \in {"FTREQP", "FTREQN"} =>
              \A joined \in BOOLEAN : Handles(c, m, FTREQ(c, m, joined))
         /\ m.cmd = "CONN_INFO" => Handles(c, m, CONN_INFO(c, m))
         /\ m.cmd = "NICK" => Handles(c, m, NICK(c, m))
<1>1. ASSUME m.cmd = "SEND", nick[c] # NoName PROVE Handles(c, m, SEND(c, m))
  <2>1. CASE Named(m.name) = {}
    BY <2>1, OneText DEF SEND
  <2>2. CASE Named(m.name) # {}
    <3> DEFINE x == [cmd |-> "FTREQ", from |-> nick[c], size |-> m.size, by |-> c]
    <3>1. x \in Messages
      <4>1. nick[c] \in Names /\ m.size \in Sizes
        BY <1>1, RequestFields DEF TypeOK
      <4>2. QED BY <4>1, MessagesMade
    <3>2. PICK w \in Named(m.name) : w \in Clients /\ Relay(c, m.name, x) = <<To(w, x)>>
      BY <2>2, <3>1, RelayWrites
    <3> DEFINE q == <<To(c, TEXT)>> \o <<To(w, x)>>
    <3>3. SEND(c, m) = q
      BY <2>2, <3>2 DEF SEND
    <3>4. /\ q \in Seq(Clients \X Messages) /\ DOMAIN q = 1 .. 2
          /\ q[1] = To(c, TEXT) /\ q[2] = To(w, x)
      <4>1. /\ <<To(c, TEXT)>> \in Seq(Clients \X Messages)
            /\ <<To(w, x)>> \in Seq(Clients \X Messages)
        BY <3>1, <3>2, MessagesMade DEF To
      <4>2. q \in Seq(Clients \X Messages) /\ Len(q) = 1 + 1
        BY <4>1, ConcatProperties
      <4>3. \A i \in 1 .. 1 + 1 :
              q[i] = IF i <= 1 THEN <<To(c, TEXT)>>[i] ELSE <<To(w, x)>>[i - 1]
        <5>1. Len(<<To(c, TEXT)>>) = 1 /\ Len(<<To(w, x)>>) = 1
          OBVIOUS
        <5>2. QED BY <4>1, <5>1, ConcatProperties
      <4>4. DOMAIN q = 1 .. 2
        BY <4>2, LenProperties
      <4>5. QED BY <4>2, <4>3, <4>4
    <3> HIDE DEF q
    <3>5. QED BY <1>1, <3>2, <3>3, <3>4 DEF Handles, To, TEXT
  <2>3. QED BY <2>1, <2>2
<1>2. ASSUME m.cmd \in {"FTREQP", "FTREQN"}, NEW joined \in BOOLEAN
      PROVE  Handles(c, m, FTREQ(c, m, joined))
  <2>1. CASE joined \/ Named(m.name) = {}
    BY <2>1, OneText DEF FTREQ, Relay
  <2>2. CASE ~joined /\ Named(m.name) # {}
    <3>1. PICK w \in Named(m.name) : w \in Clients /\ Relay(c, m.name, TEXT) = <<To(w, TEXT)>>
      BY <2>2, MessagesMade, RelayWrites
    <3>2. FTREQ(c, m, joined) = <<To(w, TEXT)>>
      BY <2>2, <3>1 DEF FTREQ
    <3>3. <<To(w, TEXT)>> \in Seq(Clients \X Messages)
      BY <3>1, MessagesMade DEF To
    <3>4. QED BY <3>2, <3>3 DEF Handles, To, TEXT
  <2>3. QED BY <2>1, <2>2
<1>3. ASSUME m.cmd = "CONN_INFO" PROVE Handles(c, m, CONN_INFO(c, m))
  <2>1. CASE Named(m.name) = {}
    BY <2>1, OneText DEF CONN_INFO, Relay
  <2>2. CASE Named(m.name) # {}
    <3> DEFINE x == [cmd |-> "INFO_CONN", port |-> m.port]
    <3>1. x \in Messages
      BY <1>3, RequestFields, MessagesMade
    <3>2. PICK w \in Named(m.name) : w \in Clients /\ Relay(c, m.name, x) = <<To(w, x)>>
      BY <2>2, <3>1, RelayWrites
    <3>3. <<To(w, x)>> \in Seq(Clients \X Messages)
      BY <3>1, <3>2 DEF To
    <3>4. QED BY <1>3, <3>2, <3>3 DEF Handles, To, CONN_INFO
  <2>3. QED BY <2>1, <2>2
<1>4. ASSUME m.cmd = "NICK" PROVE Handles(c, m, NICK(c, m))
  <2>1. CASE Refused(m.name)
    BY <2>1, OneText DEF NICK
  <2>2. CASE ~Refused(m.name)
    <3> DEFINE x == [cmd |-> "USERNAME", name |-> m.name]
    <3>1. x \in Messages
      BY <1>4, RequestFields, MessagesMade
    <3>2. <<To(c, x)>> \in Seq(Clients \X Messages)
      BY <3>1 DEF To
    <3>3. QED BY <1>4, <2>2, <3>2 DEF Handles, To, NICK
  <2>3. QED BY <2>1, <2>2
<1>5. QED BY <1>1, <1>2, <1>3, <1>4

LEMMA MSGALLWrites ==
  ASSUME TypeOK, NEW c \in Clients, NEW m, NEW order \in SetToSeqs(Others(c))
  PROVE  Handles(c, m, MSGALL(c, order))
<1>1. CASE order = <<>>
  BY <1>1, OneText DEF MSGALL
<1>2. CASE order # <<>>
  <2> DEFINE N == Cardinality(Others(c))
             front == [k \in DOMAIN order |-> To(order[k], TEXT)]
             back == <<To(c, [cmd |-> "NEWPROMPT"])>>
  <2>1. N \in Nat
    <3>1. IsFiniteSet(Others(c))
      BY TransferAssumption, FS_Subset DEF Others
    <3>2. QED BY <3>1, FS_CardinalityType
  <2>2. order \in [1 .. N -> Clients]
    BY DEF SetToSeqs, Others
  <2>3. \A k \in 1 .. N : To(order[k], TEXT) \in Clients \X Messages
    BY <2>2, MessagesMade DEF To
  <2>4. front \in Seq(Clients \X Messages) /\ Len(front) = N
    <3>1. front \in [1 .. N -> Clients \X Messages]
      BY <2>2, <2>3
    <3>2. front \in Seq(Clients \X Messages)
      BY <2>1, <3>1 DEF Seq
    <3>3. QED BY <2>1, <3>1, <3>2, LenProperties
  <2>5. back \in Seq(Clients \X Messages) /\ Len(back) = 1
    BY MessagesMade DEF To
  <2>6. /\ front \o back \in Seq(Clients \X Messages)
        /\ DOMAIN (front \o back) = 1 .. N + 1
        /\ \A k \in 1 .. N + 1 : (front \o back)[k] = IF k <= N THEN front[k] ELSE back[k - N]
    <3> HIDE DEF front, back, N
    <3>1. front \o back \in Seq(Clients \X Messages) /\ Len(front \o back) = N + 1
      <4>1. front \o back \in Seq(Clients \X Messages)
        BY <2>4, <2>5, ConcatProperties
      <4>2. Len(front \o back) = Len(front) + Len(back)
        BY <2>4, <2>5, ConcatProperties
      <4>3. QED BY <2>4, <2>5, <4>1, <4>2
    <3>2. \A k \in 1 .. Len(front) + Len(back) :
            (front \o back)[k] = IF k <= Len(front) THEN front[k] ELSE back[k - Len(front)]
      BY <2>4, <2>5, ConcatProperties
    <3>3. QED BY <2>4, <2>5, <3>1, <3>2, LenProperties
  <2>7. \A k \in 1 .. N + 1 : (front \o back)[k][2].cmd \in {"TEXT", "NEWPROMPT"}
    <3> TAKE k \in 1 .. N + 1
    <3>1. CASE k <= N
      BY <2>1, <2>2, <2>6, <3>1 DEF To, TEXT
    <3>2. CASE k = N + 1
      BY <2>1, <2>6, <3>2 DEF To
    <3>3. k <= N \/ k = N + 1
      BY <2>1
    <3>4. QED BY <3>1, <3>2, <3>3
  <2>8. MSGALL(c, order) = front \o back
    BY <1>2 DEF MSGALL
  <2> HIDE DEF front, back, N
  <2>9. QED BY <2>6, <2>7, <2>8 DEF Handles
<1>3. QED BY <1>1, <1>2

LEMMA ServeStep ==
  ASSUME TypeOK, NEW c \in Clients, Serve(c)
  PROVE  /\ 1 \in DOMAIN up[c] /\ up[c][1] \in Requests
         /\ pending = <<>> /\ Handles(c, up[c][1], pending')
         /\ up[c][1].cmd = "SEND" /\ pending' # <<To(c, TEXT)>> => nick[c] # NoName
         /\ nick' = IF up[c][1].cmd = "NICK" /\ ~Refused(up[c][1].name)
                    THEN [nick EXCEPT ![c] = up[c][1].name] ELSE nick
         /\ up' \in [Clients -> Seq(Requests)]
         /\ \A d \in Clients \ {c} : up'[d] = up[d]
         /\ \E n \in Nat \ {0} :
              \A k \in DOMAIN up'[c] :
                k \in Nat \ {0} /\ k + n \in DOMAIN up[c] /\ up'[c][k] = up[c][k + n]
<1>1. PICK n \in ReadSizes(up[c]), order \in SetToSeqs(Others(c)) :
        LET m == Head(up[c])
        IN  /\ up' = [up EXCEPT ![c] = Behind(@, n)]
            /\ pending' =
                 IF LoginFirst(c, m) THEN <<To(c, TEXT)>>
                 ELSE CASE m.cmd = "SEND"                 -> SEND(c, m)
                        [] m.cmd \in {"FTREQP", "FTREQN"} -> FTREQ(c, m, n > 1)
                        [] m.cmd = "CONN_INFO"            -> CONN_INFO(c, m)
                        [] m.cmd = "MSGALL"               -> MSGALL(c, order)
                        [] m.cmd = "NICK"                 -> NICK(c, m)
            /\ nick' = IF m.cmd = "NICK" /\ ~Refused(m.name)
                       THEN [nick EXCEPT ![c] = m.name] ELSE nick
  BY DEF Serve
<1>2. up[c] \in Seq(Requests) /\ n \in DOMAIN up[c] /\ pending = <<>>
  BY DEF ReadSizes, TypeOK, Serve
<1>3. n \in Nat \ {0} /\ up[c] # <<>>
  BY <1>2, LenProperties, EmptySeq
<1>4. 1 \in DOMAIN up[c] /\ Head(up[c]) = up[c][1] /\ up[c][1] \in Requests
  BY <1>2, <1>3, HeadSeq
<1>5. /\ Behind(up[c], n) \in Seq(Requests)
      /\ \A k \in DOMAIN Behind(up[c], n) :
           k \in Nat \ {0} /\ k + n \in DOMAIN up[c] /\ Behind(up[c], n)[k] = up[c][k + n]
  <2> DEFINE s == up[c]
  <2>1. s \in Seq(Requests) /\ n \in DOMAIN s
    BY <1>2
  <2> HIDE DEF s
  <2>2. /\ Behind(s, n) \in Seq(Requests)
        /\ \A k \in DOMAIN Behind(s, n) :
             k \in Nat \ {0} /\ k + n \in DOMAIN s /\ Behind(s, n)[k] = s[k + n]
    BY <2>1, BehindSeq
  <2>3. QED BY <2>2 DEF s
<1>6. /\ up'[c] = Behind(up[c], n) /\ \A d \in Clients \ {c} : up'[d] = up[d]
      /\ up' \in [Clients -> Seq(Requests)]
  BY <1>1, <1>5 DEF TypeOK
<1> DEFINE m == up[c][1]
<1>7. Handles(c, m, pending')
  <2>1. CASE LoginFirst(c, m)
    BY <1>1, <1>4, <2>1, OneText
  <2>2. CASE ~LoginFirst(c, m)
    <3>1. m.cmd \in {"MSGALL", "NICK", "FTREQP", "FTREQN", "SEND", "CONN_INFO"}
      BY <1>4, RequestFields
    <3>2. (n > 1) \in BOOLEAN
      OBVIOUS
    <3>3. CASE m.cmd = "SEND"
      BY <1>1, <1>4, <2>2, <3>3, HandlersWrites DEF LoginFirst
    <3>4. CASE m.cmd \in {"FTREQP", "FTREQN"}
      BY <1>1, <1>4, <2>2, <3>2, <3>4, HandlersWrites
    <3>5. CASE m.cmd = "CONN_INFO"
      BY <1>1, <1>4, <2>2, <3>5, HandlersWrites
    <3>6. CASE m.cmd = "MSGALL"
      BY <1>1, <1>4, <2>2, <3>6, MSGALLWrites
    <3>7. CASE m.cmd = "NICK"
      BY <1>1, <1>4, <2>2, <3>7, HandlersWrites
    <3>8. QED BY <3>1, <3>3, <3>4, <3>5, <3>6, <3>7
  <2>3. QED BY <2>1, <2>2
<1>8. m.cmd = "SEND" /\ pending' # <<To(c, TEXT)>> => nick[c] # NoName
  BY <1>1, <1>4 DEF LoginFirst
<1>9. QED BY <1>1, <1>2, <1>3, <1>4, <1>5, <1>6, <1>7, <1>8
-----------------------------------------------------------------------------
(* Types.  A client that answers a request, or waits for the file, knows who  *)
(* asked; one that sends knows the port it is connected to.                 *)

Settled ==
  \A c \in Clients :
    /\ at[c] \in {"prompt", "listen"} \cup Engaged => asked[c].from \in Names
    /\ at[c] \in {"greeting", "send"} => link[c] \in Ports

HasPort == \A c \in Clients : at[c] = "listen" => port[c] < MaxLines

Typed == TypeOK /\ Settled

LEMMA TypingTyped ==
  ASSUME Typed, NEW c \in Clients, Types(c)
  PROVE  Typed'
<1>1. PICK m \in Requests : handle_client_message(c, m)
  <2>1. \A s \in Announced(c) : s \in Sizes
    BY DEF Announced, Sizes
  <2>2. QED BY <2>1, RequestsMade DEF Types, TypesSend, TypesMsgall, TypesNick
<1>2. TypeOK /\ Settled /\ "loop" \in Places
  BY DEF Typed, Places
<1>3. /\ UNCHANGED <<asked, peers, down, server, shown>>
      /\ lines' \in 0 .. MaxLines
  BY <1>1, <1>2, TransferAssumption DEF handle_client_message, TypeOK
<1>4. /\ up' \in [Clients -> Seq(Requests)]
      /\ conn' \in [Clients -> ConnStates]
      /\ at' \in [Clients -> Places]
      /\ at'[c] \in {"loop", "over"} /\ \A d \in Clients \ {c} : at'[d] = at[d]
  BY <1>1, <1>2, TellStep DEF handle_client_message
<1>5. TypeOK'
  BY <1>2, <1>3, <1>4 DEF TypeOK, peers, server
<1>6. Settled'
  BY <1>2, <1>3, <1>4 DEF Settled, Engaged, peers
<1>7. QED BY <1>5, <1>6 DEF Typed

LEMMA AnsweringTyped ==
  ASSUME Typed, NEW c \in Clients, prompt_user_for_file_transfer(c)
  PROVE  Typed'
<1>1. TypeOK /\ Settled /\ "loop" \in Places /\ "listen" \in Places
  BY DEF Typed, Places
<1>2. at[c] = "prompt" /\ UNCHANGED <<asked, peers, down, server, shown, lines>>
  BY DEF prompt_user_for_file_transfer
<1>3. asked[c].from \in Names
  BY <1>1, <1>2 DEF Settled
<1>4. /\ [cmd |-> "FTREQP", name |-> asked[c].from] \in Requests
      /\ [cmd |-> "FTREQN", name |-> asked[c].from] \in Requests
  BY <1>3, RequestsMade
<1>5. /\ up' \in [Clients -> Seq(Requests)]
      /\ conn' \in [Clients -> ConnStates]
      /\ at' \in [Clients -> Places]
      /\ at'[c] \in {"listen", "loop", "over"} /\ \A d \in Clients \ {c} : at'[d] = at[d]
  BY <1>1, <1>4, TellStep DEF prompt_user_for_file_transfer
<1>6. TypeOK'
  BY <1>1, <1>2, <1>5 DEF TypeOK, peers, server
<1>7. Settled'
  BY <1>1, <1>2, <1>3, <1>5 DEF Settled, Engaged, peers
<1>8. QED BY <1>6, <1>7 DEF Typed

LEMMA ListeningTyped ==
  ASSUME Typed, HasPort, NEW c \in Clients, set_up_peer_2_peer(c)
  PROVE  Typed'
<1>1. TypeOK /\ Settled /\ "loop" \in Places /\ "accept" \in Places
  BY DEF Typed, Places
<1>2. /\ at[c] = "listen" /\ port' = [port EXCEPT ![c] = port[c] + 1]
      /\ UNCHANGED <<asked, link, conns, taken, filled, saved, cut, down, server, shown, lines>>
  BY DEF set_up_peer_2_peer, NextPort
<1>3. asked[c].from \in Names /\ port[c] + 1 \in 1 .. MaxLines
  <2>1. port[c] < MaxLines /\ port[c] \in 0 .. MaxLines
    BY <1>1, <1>2 DEF HasPort, TypeOK
  <2>2. asked[c].from \in Names
    BY <1>1, <1>2 DEF Settled
  <2>3. QED BY <2>1, <2>2, TransferAssumption
<1> DEFINE p == [host |-> c, num |-> port[c] + 1]
           m == [cmd |-> "CONN_INFO", name |-> asked[c].from, port |-> p]
<1>4. p \in Ports
  BY <1>3 DEF Ports
<1>5. m \in Requests
  BY <1>3, <1>4, RequestsMade
<1>6. PICK place \in {"loop", "accept"} : Tell(c, m, place)
  BY DEF set_up_peer_2_peer, NextPort
<1> HIDE DEF m, p
<1>7. /\ up' \in [Clients -> Seq(Requests)]
      /\ conn' \in [Clients -> ConnStates]
      /\ at' \in [Clients -> Places]
      /\ at'[c] \in {"loop", "accept", "over"} /\ \A d \in Clients \ {c} : at'[d] = at[d]
  BY <1>1, <1>5, <1>6, TellStep
<1>8. port' \in [Clients -> 0 .. MaxLines]
  BY <1>1, <1>2, <1>3, TransferAssumption DEF TypeOK
<1>9. TypeOK'
  BY <1>1, <1>2, <1>7, <1>8 DEF TypeOK, peers, server
<1>10. Settled'
  BY <1>1, <1>2, <1>3, <1>7 DEF Settled, Engaged, peers
<1>11. QED BY <1>9, <1>10 DEF Typed

LEMMA ServingTyped ==
  ASSUME Typed, TheServer \/ Restart
  PROVE  Typed'
<1>1. TypeOK /\ Settled
  BY DEF Typed
<1>2. CASE Deliver
  <2>1. UNCHANGED <<at, asked, peers, conn, up, nick, shown, lines>>
    BY <1>2 DEF Deliver
  <2>2. pending' \in Seq(Clients \X Messages) /\ down' \in [Clients -> Seq(Messages)]
    BY <1>1, <1>2, DeliverStep
  <2>3. QED BY <1>1, <2>1, <2>2 DEF Typed, TypeOK, Settled, peers, server
<1>3. ASSUME NEW c \in Clients, Serve(c) PROVE Typed'
  <2>1. UNCHANGED <<at, asked, peers, conn, down, shown, lines>>
    BY <1>3 DEF Serve
  <2>2. /\ up' \in [Clients -> Seq(Requests)] /\ pending' \in Seq(Clients \X Messages)
        /\ up[c][1] \in Requests
        /\ nick' = IF up[c][1].cmd = "NICK" /\ ~Refused(up[c][1].name)
                   THEN [nick EXCEPT ![c] = up[c][1].name] ELSE nick
    BY <1>1, <1>3, ServeStep DEF Handles
  <2>3. up[c][1].cmd = "NICK" => up[c][1].name \in Names
    BY <2>2, RequestFields
  <2>4. nick' \in [Clients -> Names \cup {NoName}]
    BY <1>1, <2>2, <2>3 DEF TypeOK
  <2>5. QED BY <1>1, <2>1, <2>2, <2>4 DEF Typed, TypeOK, Settled, peers
<1>4. ASSUME NEW c \in Clients, QUIT(c) PROVE Typed'
  BY <1>1, <1>4 DEF QUIT, Typed, TypeOK, ConnStates, Settled, peers
<1>5. CASE Restart
  <2>1. UNCHANGED <<at, asked, peers, down, shown>>
    BY <1>5 DEF Restart
  <2>2. /\ pending' = <<>> /\ pending' \in Seq(Clients \X Messages)
        /\ up' = [c \in Clients |-> <<>>] /\ up' \in [Clients -> Seq(Requests)]
    BY <1>5, EmptySeq DEF Restart
  <2>3. nick' \in [Clients -> Names \cup {NoName}] /\ conn' \in [Clients -> ConnStates]
    BY <1>1, <1>5 DEF Restart, TypeOK, ConnStates
  <2>4. lines' \in 0 .. MaxLines
    BY <1>1, <1>5, TransferAssumption DEF Restart, TypeOK
  <2>5. QED BY <1>1, <2>1, <2>2, <2>3, <2>4 DEF Typed, TypeOK, Settled, peers
<1>6. QED BY <1>2, <1>3, <1>4, <1>5 DEF TheServer

LEMMA ReadingTyped ==
  ASSUME Typed, NEW c \in Clients,
         \/ PrintsText(c) \/ USERNAME(c) \/ NEWPROMPT(c) \/ FTREQ_prompt(c)
         \/ connect_to_peer_2_peer(c)
  PROVE  Typed'
<1>1. TypeOK /\ Settled
  BY DEF Typed
<1>2. CASE PrintsText(c)
  <2>1. down' \in [Clients -> Seq(Messages)]
    BY <1>1, <1>2, ReadsStep DEF PrintsText
  <2>2. QED BY <1>1, <1>2, <2>1 DEF PrintsText, Typed, TypeOK, Settled, peers, server
<1>3. CASE USERNAME(c)
  <2>1. /\ down' \in [Clients -> Seq(Messages)]
        /\ Head(down[c]) \in Messages /\ Head(down[c]).cmd = "USERNAME"
    BY <1>1, <1>3, ReadsStep DEF USERNAME
  <2>2. shown' \in [Clients -> Names]
    BY <1>1, <1>3, <2>1, MessageFields DEF USERNAME, TypeOK
  <2>3. QED BY <1>1, <1>3, <2>1, <2>2 DEF USERNAME, Typed, TypeOK, Settled, peers, server
<1>4. CASE NEWPROMPT(c)
  <2>1. down' \in [Clients -> Seq(Messages)]
    BY <1>1, <1>4, ReadsStep DEF NEWPROMPT
  <2>2. PICK place \in {"over", "loop"} : at' = [at EXCEPT ![c] = place]
    BY <1>4 DEF NEWPROMPT, Goes
  <2>3. at' \in [Clients -> Places]
    BY <1>1, <2>2 DEF TypeOK, Places
  <2>4. TypeOK'
    BY <1>1, <1>4, <2>1, <2>3 DEF NEWPROMPT, TypeOK, peers, server
  <2>5. Settled'
    BY <1>1, <1>4, <2>2 DEF NEWPROMPT, TypeOK, Settled, Engaged, peers
  <2>6. QED BY <2>4, <2>5 DEF Typed
<1>5. CASE FTREQ_prompt(c)
  <2>1. /\ down' \in [Clients -> Seq(Messages)]
        /\ Head(down[c]) \in Messages /\ Head(down[c]).cmd = "FTREQ"
    BY <1>1, <1>5, ReadsStep DEF FTREQ_prompt
  <2> DEFINE m == Head(down[c])
  <2>2. m.from \in Names /\ m.size \in Sizes /\ m.by \in Clients
    BY <2>1, MessageFields
  <2>3. asked' = [asked EXCEPT ![c] = [from |-> m.from, size |-> m.size, by |-> m.by]]
    BY <1>5 DEF FTREQ_prompt, AskedBy
  <2>4. asked' \in [Clients -> [from : Names \cup {NoName}, size : Sizes,
                             by : Clients \cup {NoName}]]
    BY <1>1, <2>2, <2>3 DEF TypeOK
  <2>5. at' \in [Clients -> Places]
    BY <1>1, <1>5 DEF FTREQ_prompt, Goes, TypeOK, Places
  <2>6. TypeOK'
    BY <1>1, <1>5, <2>1, <2>4, <2>5 DEF FTREQ_prompt, TypeOK, peers, server
  <2>7. Settled'
    <3>1. asked'[c].from \in Names /\ at'[c] = "prompt"
      BY <1>1, <1>5, <2>2, <2>3 DEF FTREQ_prompt, Goes, TypeOK
    <3>2. \A d \in Clients \ {c} : asked'[d] = asked[d] /\ at'[d] = at[d]
      BY <1>1, <1>5, <2>3 DEF FTREQ_prompt, Goes, TypeOK
    <3>3. link' = link
      BY <1>5 DEF FTREQ_prompt, peers
    <3>4. QED BY <1>1, <3>1, <3>2, <3>3 DEF Settled
  <2>8. QED BY <2>6, <2>7 DEF Typed
<1>6. CASE connect_to_peer_2_peer(c)
  <2>1. /\ down' \in [Clients -> Seq(Messages)]
        /\ Head(down[c]) \in Messages /\ Head(down[c]).cmd = "INFO_CONN"
    BY <1>1, <1>6, ReadsStep DEF connect_to_peer_2_peer
  <2> DEFINE p == Head(down[c]).port
  <2>2. p \in Ports
    BY <2>1, MessageFields
  <2>3. \/ UNCHANGED <<at, link, conns>>
        \/ at' = [at EXCEPT ![c] = "over"] /\ UNCHANGED <<link, conns>>
        \/ /\ at' = [at EXCEPT ![c] = "greeting"]
           /\ link' = [link EXCEPT ![c] = p]
           /\ conns' = conns \cup {[port |-> p, from |-> c]}
    BY <1>6 DEF connect_to_peer_2_peer, Goes
  <2> HIDE DEF p
  <2>4. at' \in [Clients -> Places]
    BY <1>1, <2>3 DEF TypeOK, Places
  <2>5. link' \in [Clients -> Ports \cup {NoPort}] /\ conns' \subseteq [port : Ports, from : Clients]
    BY <1>1, <2>2, <2>3 DEF TypeOK
  <2>6. TypeOK'
    BY <1>1, <1>6, <2>1, <2>4, <2>5 DEF connect_to_peer_2_peer, TypeOK, server
  <2>7. Settled'
    BY <1>1, <1>6, <2>2, <2>3 DEF connect_to_peer_2_peer, TypeOK, Settled, Engaged
  <2>8. QED BY <2>6, <2>7 DEF Typed
<1>7. QED BY <1>2, <1>3, <1>4, <1>5, <1>6

LEMMA MovingTyped ==
  ASSUME Typed, NEW c \in Clients,
         \/ RECONNECT(c) \/ readline_fails(c) \/ do_accept(c) \/ accept_file(c)
         \/ rcv_file(c) \/ read_greeting(c) \/ send_file(c)
         \/ ResetArrives(c) \/ Ends(c)
  PROVE  Typed'
<1>1. TypeOK /\ Settled
  BY DEF Typed
<1>2. CASE RECONNECT(c) \/ readline_fails(c) \/ ResetArrives(c) \/ Ends(c)
  <2>1. /\ UNCHANGED <<asked, port, link, conns, taken, filled, saved>>
        /\ UNCHANGED <<up, down, server, shown, lines>>
    BY <1>2 DEF RECONNECT, readline_fails, ResetArrives, Ends, peers
  <2>2. conn' \in [Clients -> ConnStates]
    BY <1>1, <1>2 DEF RECONNECT, readline_fails, ResetArrives, Ends, TypeOK, ConnStates
  <2>3. at' = at \/ at' = [at EXCEPT ![c] = "over"]
    BY <1>2 DEF RECONNECT, readline_fails, ResetArrives, Ends, Goes
  <2>8. cut' \subseteq Ports
    BY <1>1, <1>2
       DEF RECONNECT, readline_fails, ResetArrives, Ends, peers, TypeOK, Settled
  <2>4. at' \in [Clients -> Places]
    BY <1>1, <2>3 DEF TypeOK, Places
  <2>5. TypeOK'
    BY <1>1, <2>1, <2>2, <2>4, <2>8 DEF TypeOK, server
  <2>6. Settled'
    BY <1>1, <2>1, <2>3 DEF TypeOK, Settled, Engaged
  <2>7. QED BY <2>5, <2>6 DEF Typed
<1>3. CASE do_accept(c) \/ accept_file(c) \/ rcv_file(c) \/ read_greeting(c) \/ send_file(c)
  <2>1. UNCHANGED <<asked, port, link, conns, cut, conn, up, down, server, shown, lines>>
    BY <1>3 DEF do_accept, accept_file, rcv_file, read_greeting, send_file, peers
  <2>2. PICK place \in {"inbox", "receive", "loop", "spin", "send", "over"} :
          /\ at' = [at EXCEPT ![c] = place]
          /\ place \in {"inbox", "receive"} => at[c] \in Engaged
          /\ place = "send" => at[c] = "greeting"
    BY <1>3 DEF do_accept, accept_file, rcv_file, read_greeting, send_file, Goes, Engaged
  <2>3. taken' \subseteq Ports
    <3>1. do_accept(c) => Latest(c) \in Ports
      BY <1>1 DEF do_accept, Calls, TypeOK
    <3>2. QED BY <1>1, <1>3, <3>1
             DEF do_accept, accept_file, rcv_file, read_greeting, send_file, peers, TypeOK
  <2>4. filled' \subseteq Ports
    BY <1>1, <1>3
       DEF do_accept, accept_file, rcv_file, read_greeting, send_file, peers, TypeOK, Settled
  <2>5. saved' \subseteq Ports
    BY <1>1, <1>3
       DEF do_accept, accept_file, rcv_file, read_greeting, send_file, peers, TypeOK
  <2>6. at' \in [Clients -> Places]
    BY <1>1, <2>2 DEF TypeOK, Places
  <2>7. TypeOK'
    BY <1>1, <2>1, <2>3, <2>4, <2>5, <2>6 DEF TypeOK, server
  <2>8. Settled'
    BY <1>1, <2>1, <2>2 DEF TypeOK, Settled, Engaged
  <2>9. QED BY <2>7, <2>8 DEF Typed
<1>4. QED BY <1>2, <1>3

LEMMA TypedInit == Init => Typed
<1> SUFFICES ASSUME Init PROVE Typed
  OBVIOUS
<1>1. <<>> \in Seq(Requests) /\ <<>> \in Seq(Messages) /\ <<>> \in Seq(Clients \X Messages)
  BY EmptySeq
<1>2. TypeOK
  BY <1>1, TransferAssumption DEF Init, TypeOK, Places, Sizes, ConnStates
<1>3. Settled
  BY DEF Init, Settled, Engaged
<1>4. QED BY <1>2, <1>3 DEF Typed

LEMMA TypedStep == Typed /\ HasPort /\ [Next]_vars => Typed'
<1> SUFFICES ASSUME Typed, HasPort, [Next]_vars PROVE Typed'
  OBVIOUS
<1>1. CASE TheServer \/ Restart
  BY <1>1, ServingTyped
<1>2. ASSUME NEW c \in Clients, Types(c) \/ Client(c) \/ ResetArrives(c) \/ Ends(c)
      PROVE  Typed'
  BY <1>2, TypingTyped, AnsweringTyped, ListeningTyped, ReadingTyped, MovingTyped DEF Client
<1>3. CASE UNCHANGED vars
  BY <1>3 DEF vars, peers, server, Typed, TypeOK, Settled
<1>4. QED BY <1>1, <1>2, <1>3 DEF Next
-----------------------------------------------------------------------------
(* A listening socket needs a line.  Follow a /send: it is a request in the    *)
(* sender's stream, a message the server has to write, a message in the       *)
(* receiver's stream, a client that answers, and at last an open port; a step *)
(* may lose it but never doubles it.  So there are never more ports, and       *)
(* requests on the way to one, than lines typed.                            *)

Sent(c, k, cmd)     == k \in DOMAIN up[c] /\ up[c][k].cmd = cmd
Queued(c, k, cmd)   == k \in DOMAIN pending /\ pending[k][1] = c /\ pending[k][2].cmd = cmd
Arriving(c, k, cmd) == k \in DOMAIN down[c] /\ down[c][k].cmd = cmd

Tickets ==
  {t \in {"up", "pending", "down", "answer", "port"} \X Clients \X Nat :
     \/ t[1] = "up"      /\ Sent(t[2], t[3], "SEND")
     \/ t[1] = "pending" /\ Queued(t[2], t[3], "FTREQ")
     \/ t[1] = "down"    /\ Arriving(t[2], t[3], "FTREQ")
     \/ t[1] = "answer"  /\ t[3] = 0 /\ at[t[2]] \in {"prompt", "listen"}
     \/ t[1] = "port"    /\ t[3] \in 1 .. port[t[2]]}

Budget == IsFiniteSet(Tickets) /\ Cardinality(Tickets) <= lines

LEMMA Triples ==
  \A a, b, i, c, d, j : <<a, b, i>> = <<c, d, j>> <=> a = c /\ b = d /\ i = j
OBVIOUS

LEMMA IsTicket ==
  ASSUME NEW c \in Clients, NEW k \in Nat
  PROVE  /\ <<"up", c, k>> \in Tickets <=> Sent(c, k, "SEND")
         /\ <<"pending", c, k>> \in Tickets <=> Queued(c, k, "FTREQ")
         /\ <<"down", c, k>> \in Tickets <=> Arriving(c, k, "FTREQ")
         /\ <<"answer", c, k>> \in Tickets <=> k = 0 /\ at[c] \in {"prompt", "listen"}
         /\ <<"port", c, k>> \in Tickets <=> k \in 1 .. port[c]
BY DEF Tickets

(* A step that moves tickets: each new one comes from an old one of its own.  *)
LEMMA TicketsMove ==
  ASSUME TypeOK, Budget, lines' = lines,
         NEW g, g \in [Tickets' -> Tickets],
         \A s, t \in Tickets' : g[s] = g[t] => s = t
  PROVE  Budget'
<1>1. g \in Injection(Tickets', Tickets)
  BY DEF Injection, IsInjective
<1>2. IsFiniteSet(Tickets') /\ Cardinality(Tickets') <= Cardinality(Tickets)
  BY <1>1, FS_Injection DEF Budget
<1>3. Cardinality(Tickets) \in Nat /\ Cardinality(Tickets') \in Nat /\ lines \in Nat
  BY <1>2, FS_CardinalityType DEF Budget, TypeOK
<1>4. QED BY <1>2, <1>3 DEF Budget

LEMMA TicketsStay ==
  ASSUME TypeOK, Budget, lines' = lines, Tickets' \subseteq Tickets
  PROVE  Budget'
<1>1. IsFiniteSet(Tickets') /\ Cardinality(Tickets') <= Cardinality(Tickets)
  BY FS_Subset DEF Budget
<1>2. Cardinality(Tickets) \in Nat /\ Cardinality(Tickets') \in Nat /\ lines \in Nat
  BY <1>1, FS_CardinalityType DEF Budget, TypeOK
<1>3. QED BY <1>1, <1>2 DEF Budget

LEMMA TypingBudget ==
  ASSUME TypeOK, Budget, NEW c \in Clients, Types(c)
  PROVE  Budget'
<1>1. PICK m \in Requests : handle_client_message(c, m)
  <2>1. \A s \in Announced(c) : s \in Sizes
    BY DEF Announced, Sizes
  <2>2. QED BY <2>1, RequestsMade DEF Types, TypesSend, TypesMsgall, TypesNick
<1>2. "loop" \in Places /\ Tell(c, m, "loop")
  BY <1>1 DEF handle_client_message, Places
<1>3. /\ at'[c] \in {"loop", "over"} /\ \A d \in Clients \ {c} : at'[d] = at[d]
      /\ \A d \in Clients : \A k \in DOMAIN up'[d] :
           \/ k \in DOMAIN up[d] /\ up'[d][k] = up[d][k]
           \/ d = c /\ k = Len(up[c]) + 1
  BY <1>2, TellStep
<1>4. UNCHANGED <<port, down, pending>> /\ lines' = lines + 1
  BY <1>1 DEF handle_client_message, peers, server
<1> DEFINE new == <<"up", c, Len(up[c]) + 1>>
<1>5. Tickets' \subseteq Tickets \cup {new}
  BY <1>3, <1>4 DEF Tickets, Sent, Queued, Arriving
<1>6. /\ IsFiniteSet(Tickets \cup {new})
      /\ Cardinality(Tickets \cup {new}) =
           IF new \in Tickets THEN Cardinality(Tickets) ELSE Cardinality(Tickets) + 1
  BY FS_AddElement DEF Budget
<1>7. /\ IsFiniteSet(Tickets')
      /\ Cardinality(Tickets') <= Cardinality(Tickets \cup {new})
  BY <1>5, <1>6, FS_Subset
<1>8. Cardinality(Tickets) \in Nat /\ Cardinality(Tickets') \in Nat /\ lines \in Nat
  BY <1>7, FS_CardinalityType DEF Budget, TypeOK
<1>9. QED BY <1>4, <1>6, <1>7, <1>8 DEF Budget

LEMMA AnsweringBudget ==
  ASSUME Typed, Budget, NEW c \in Clients, prompt_user_for_file_transfer(c)
  PROVE  Budget'
<1>1. TypeOK /\ "loop" \in Places /\ "listen" \in Places /\ asked[c].from \in Names
  BY DEF Typed, Settled, Places, prompt_user_for_file_transfer
<1>2. PICK m \in Requests, place \in {"listen", "loop"} :
        Tell(c, m, place) /\ m.cmd \in {"FTREQP", "FTREQN"}
  BY <1>1, RequestsMade DEF prompt_user_for_file_transfer
<1>3. /\ at[c] = "prompt" /\ UNCHANGED <<port, down, pending>> /\ lines' = lines
  BY DEF prompt_user_for_file_transfer, peers, server
<1>4. /\ at'[c] \in {"listen", "loop", "over"} /\ \A d \in Clients \ {c} : at'[d] = at[d]
      /\ \A d \in Clients : \A k \in DOMAIN up'[d] :
           \/ k \in DOMAIN up[d] /\ up'[d][k] = up[d][k]
           \/ up'[d][k] = m
  BY <1>1, <1>2, TellStep
<1>5. Tickets' \subseteq Tickets
  BY <1>2, <1>3, <1>4 DEF Tickets, Sent, Queued, Arriving
<1>6. QED BY <1>1, <1>3, <1>5, TicketsStay

LEMMA ListeningBudget ==
  ASSUME Typed, Budget, HasPort, NEW c \in Clients, set_up_peer_2_peer(c)
  PROVE  Budget'
<1>1. TypeOK /\ "loop" \in Places /\ "accept" \in Places /\ asked[c].from \in Names
  BY DEF Typed, Settled, Places, set_up_peer_2_peer
<1>2. port[c] + 1 \in 1 .. MaxLines /\ port[c] \in Nat
  BY <1>1, TransferAssumption DEF TypeOK, HasPort, set_up_peer_2_peer
<1>3. PICK m \in Requests, place \in {"loop", "accept"} :
        Tell(c, m, place) /\ m.cmd = "CONN_INFO"
  <2>1. [host |-> c, num |-> port[c] + 1] \in Ports
    BY <1>2 DEF Ports
  <2>2. QED BY <1>1, <2>1, RequestsMade DEF set_up_peer_2_peer, NextPort
<1>4. /\ at[c] = "listen" /\ UNCHANGED <<down, pending>> /\ lines' = lines
      /\ port' = [port EXCEPT ![c] = port[c] + 1]
  BY DEF set_up_peer_2_peer, server, NextPort
<1>5. /\ at'[c] \in {"loop", "accept", "over"} /\ \A d \in Clients \ {c} : at'[d] = at[d]
      /\ \A d \in Clients : \A k \in DOMAIN up'[d] :
           \/ k \in DOMAIN up[d] /\ up'[d][k] = up[d][k]
           \/ up'[d][k] = m
  BY <1>1, <1>3, TellStep
<1> DEFINE new == <<"port", c, port[c] + 1>>
           old == <<"answer", c, 0>>
           g == [t \in Tickets' |-> IF t = new THEN old ELSE t]
<1>6. port'[c] = port[c] + 1 /\ \A d \in Clients \ {c} : port'[d] = port[d]
  BY <1>1, <1>4 DEF TypeOK
<1>7. old \in Tickets
  BY <1>4, IsTicket
<1>8. old \notin Tickets'
  BY <1>5 DEF Tickets
<1>9. ASSUME NEW t \in Tickets', t # new PROVE t \in Tickets
  <2>1. t[1] = "port" => t \in Tickets
    <3> SUFFICES ASSUME t[1] = "port" PROVE t \in Tickets
      OBVIOUS
    <3>1. t = <<"port", t[2], t[3]>> /\ t[2] \in Clients /\ t[3] \in Nat /\ t[3] \in 1 .. port'[t[2]]
      BY DEF Tickets
    <3>2. t[3] \in 1 .. port[t[2]]
      BY <1>2, <1>6, <1>9, <3>1
    <3>3. <<"port", t[2], t[3]>> \in Tickets
      BY <3>1, <3>2, IsTicket
    <3>4. QED BY <3>1, <3>3
  <2>2. t[1] # "port" => t \in Tickets
    BY <1>3, <1>4, <1>5 DEF Tickets, Sent, Queued, Arriving
  <2>3. QED BY <2>1, <2>2
<1>10. g \in [Tickets' -> Tickets]
  BY <1>7, <1>9
<1>11. \A s, t \in Tickets' : g[s] = g[t] => s = t
  BY <1>8
<1> HIDE DEF g
<1>12. QED BY <1>1, <1>4, <1>10, <1>11, TicketsMove

LEMMA ReadingBudget ==
  ASSUME Typed, Budget, NEW c \in Clients,
         \/ PrintsText(c) \/ USERNAME(c) \/ NEWPROMPT(c) \/ FTREQ_prompt(c)
         \/ connect_to_peer_2_peer(c)
  PROVE  Budget'
<1>1. TypeOK
  BY DEF Typed
<1>2. PICK cmd, n : Reads(c, cmd, n) /\ (FTREQ_prompt(c) => cmd = "FTREQ")
  BY DEF PrintsText, USERNAME, NEWPROMPT, FTREQ_prompt, connect_to_peer_2_peer
<1>3. UNCHANGED <<port, pending, up>> /\ lines' = lines
  BY DEF PrintsText, USERNAME, NEWPROMPT, FTREQ_prompt, connect_to_peer_2_peer, peers, server
<1>4. /\ n \in Nat \ {0} /\ 1 \in DOMAIN down[c] /\ down[c][1].cmd = cmd
      /\ at[c] = "loop"
      /\ \A d \in Clients \ {c} : down'[d] = down[d]
      /\ \A k \in DOMAIN down'[c] :
           k \in Nat \ {0} /\ k + n \in DOMAIN down[c] /\ down'[c][k] = down[c][k + n]
  BY <1>1, <1>2, ReadsStep
<1>5. /\ at'[c] \in {"prompt", "listen"} => FTREQ_prompt(c)
      /\ \A d \in Clients \ {c} : at'[d] = at[d]
  BY <1>1, <1>4 DEF PrintsText, USERNAME, NEWPROMPT, FTREQ_prompt, connect_to_peer_2_peer,
                    Goes, TypeOK
<1> DEFINE g == [t \in Tickets' |->
                   IF t[1] = "down" /\ t[2] = c THEN <<"down", c, t[3] + n>>
                   ELSE IF t = <<"answer", c, 0>> THEN <<"down", c, 1>> ELSE t]
<1>6. ASSUME NEW t \in Tickets', t[1] = "down", t[2] = c
      PROVE  /\ <<"down", c, t[3] + n>> \in Tickets /\ t[3] \in Nat \ {0}
             /\ t = <<"down", c, t[3]>>
  <2>1. t = <<"down", c, t[3]>> /\ t[3] \in DOMAIN down'[c] /\ down'[c][t[3]].cmd = "FTREQ"
    BY <1>6 DEF Tickets, Arriving
  <2>2. t[3] \in Nat \ {0} /\ Arriving(c, t[3] + n, "FTREQ")
    BY <1>4, <2>1 DEF Arriving
  <2>3. PICK k \in Nat : k = t[3] + n
    BY <1>4, <2>2
  <2>4. <<"down", c, k>> \in Tickets
    BY <2>2, <2>3, IsTicket
  <2>5. QED BY <2>1, <2>2, <2>3, <2>4
<1>7. <<"answer", c, 0>> \in Tickets' => <<"down", c, 1>> \in Tickets
  BY <1>2, <1>4, <1>5, IsTicket DEF Tickets, Arriving
<1>8. ASSUME NEW t \in Tickets', ~(t[1] = "down" /\ t[2] = c), t # <<"answer", c, 0>>
      PROVE  t \in Tickets
  BY <1>3, <1>4, <1>5, <1>8 DEF Tickets, Sent, Queued, Arriving
<1>9. g \in [Tickets' -> Tickets]
  BY <1>6, <1>7, <1>8
<1>10. ASSUME NEW s \in Tickets', NEW t \in Tickets', g[s] = g[t] PROVE s = t
  <2>1. \A x \in Tickets' : g[x] = IF x[1] = "down" /\ x[2] = c THEN <<"down", c, x[3] + n>>
                   ELSE IF x = <<"answer", c, 0>> THEN <<"down", c, 1>> ELSE x
    OBVIOUS
  <2> HIDE DEF g
  <2>2. CASE s[1] = "down" /\ s[2] = c /\ t[1] = "down" /\ t[2] = c
    <3>1. <<"down", c, s[3] + n>> = <<"down", c, t[3] + n>>
      BY <1>10, <2>1, <2>2
    <3>2. s[3] + n = t[3] + n
      BY <3>1, Triples
    <3>3. s[3] \in Nat /\ t[3] \in Nat /\ s = <<"down", c, s[3]>> /\ t = <<"down", c, t[3]>>
      BY <1>6, <2>2
    <3>4. s[3] = t[3]
      BY <1>4, <3>2, <3>3
    <3>5. QED BY <3>3, <3>4
  <2>3. ASSUME NEW x \in Tickets', NEW y \in Tickets', g[x] = g[y],
               x[1] = "down", x[2] = c, ~(y[1] = "down" /\ y[2] = c)
        PROVE  FALSE
    <3>1. x[3] \in Nat \ {0} /\ g[x] = <<"down", c, x[3] + n>>
      BY <1>6, <2>1, <2>3
    <3>2. x[3] + n # 1
      BY <1>4, <3>1
    <3>3. g[x] # <<"down", c, 1>>
      BY <3>1, <3>2, Triples
    <3>4. g[y] # y
      BY <2>3, <3>1
    <3>5. QED BY <2>1, <2>3, <3>3, <3>4
  <2>5. CASE ~(s[1] = "down" /\ s[2] = c) /\ ~(t[1] = "down" /\ t[2] = c)
    BY <1>10, <2>1, <2>5
  <2>6. QED BY <1>10, <2>2, <2>3, <2>5
<1> HIDE DEF g
<1>11. QED BY <1>1, <1>3, <1>9, <1>10, TicketsMove
LEMMA DeliveringBudget ==
  ASSUME Typed, Budget, Deliver
  PROVE  Budget'
<1>1. TypeOK
  BY DEF Typed
<1>2. UNCHANGED <<at, port, up>> /\ lines' = lines
  BY DEF Deliver, peers
<1>3. PICK c \in Clients : /\ 1 \in DOMAIN pending /\ c = pending[1][1]
                           /\ pending[1][2] \in Messages
  BY <1>1, DeliverStep
<1>4. /\ \A k \in DOMAIN pending' :
           k \in Nat \ {0} /\ k + 1 \in DOMAIN pending /\ pending'[k] = pending[k + 1]
      /\ \A d \in Clients : \A k \in DOMAIN down'[d] :
           \/ k \in DOMAIN down[d] /\ down'[d][k] = down[d][k]
           \/ d = c /\ k = Len(down[d]) + 1 /\ down'[d][k] = pending[1][2]
  BY <1>1, <1>3, DeliverStep
<1> DEFINE new == <<"down", c, Len(down[c]) + 1>>
           first == <<"pending", c, 1>>
           g == [t \in Tickets' |->
                   IF t[1] = "pending" THEN <<"pending", t[2], t[3] + 1>>
                   ELSE IF t \in Tickets THEN t ELSE first]
<1>5. ASSUME NEW t \in Tickets', t[1] = "pending"
      PROVE  /\ <<"pending", t[2], t[3] + 1>> \in Tickets
             /\ t[3] \in Nat \ {0} /\ t = <<"pending", t[2], t[3]>>
  <2>1. /\ t = <<"pending", t[2], t[3]>> /\ t[2] \in Clients /\ t[3] \in DOMAIN pending'
        /\ pending'[t[3]][1] = t[2] /\ pending'[t[3]][2].cmd = "FTREQ"
    BY <1>5 DEF Tickets, Queued
  <2>2. t[3] \in Nat \ {0} /\ Queued(t[2], t[3] + 1, "FTREQ")
    BY <1>4, <2>1 DEF Queued
  <2>3. PICK k \in Nat : k = t[3] + 1
    BY <2>2
  <2>4. <<"pending", t[2], k>> \in Tickets
    BY <2>1, <2>2, <2>3, IsTicket
  <2>5. QED BY <2>1, <2>2, <2>3, <2>4
<1>6. ASSUME NEW t \in Tickets', t[1] # "pending", t \notin Tickets
      PROVE  t = new /\ first \in Tickets
  <2>1. t = <<t[1], t[2], t[3]>> /\ t[2] \in Clients /\ t[3] \in Nat
    BY DEF Tickets
  <2>2. t[1] = "down" /\ Arriving(t[2], t[3], "FTREQ")'
    BY <1>2, <1>6 DEF Tickets, Sent
  <2>3. ~Arriving(t[2], t[3], "FTREQ")
    <3>1. <<"down", t[2], t[3]>> \notin Tickets
      BY <1>6, <2>1, <2>2
    <3>2. QED BY <2>1, <3>1, IsTicket
  <2>4. t[2] = c /\ t[3] = Len(down[c]) + 1 /\ pending[1][2].cmd = "FTREQ"
    BY <1>4, <2>1, <2>2, <2>3 DEF Arriving
  <2>5. QED BY <1>3, <2>1, <2>2, <2>4, IsTicket DEF Queued
<1>7. g \in [Tickets' -> Tickets]
  BY <1>5, <1>6
<1>8. ASSUME NEW s \in Tickets', NEW t \in Tickets', g[s] = g[t] PROVE s = t
  <2>1. \A x \in Tickets' : g[x] = IF x[1] = "pending" THEN <<"pending", x[2], x[3] + 1>>
                   ELSE IF x \in Tickets THEN x ELSE first
    OBVIOUS
  <2> HIDE DEF g
  <2>2. CASE s[1] = "pending" /\ t[1] = "pending"
    <3>1. <<"pending", s[2], s[3] + 1>> = <<"pending", t[2], t[3] + 1>>
      BY <1>8, <2>1, <2>2
    <3>2. s[2] = t[2] /\ s[3] + 1 = t[3] + 1
      BY <3>1, Triples
    <3>3. s[3] \in Nat /\ t[3] \in Nat
          /\ s = <<"pending", s[2], s[3]>> /\ t = <<"pending", t[2], t[3]>>
      BY <1>5, <2>2
    <3>4. s[3] = t[3]
      BY <3>2, <3>3
    <3>5. QED BY <3>2, <3>3, <3>4
  <2>3. ASSUME NEW x \in Tickets', NEW y \in Tickets', g[x] = g[y],
               x[1] = "pending", y[1] # "pending"
        PROVE  FALSE
    <3>1. x[3] \in Nat \ {0} /\ g[x] = <<"pending", x[2], x[3] + 1>>
      BY <1>5, <2>1, <2>3
    <3>2. x[3] + 1 # 1
      BY <3>1
    <3>3. g[x] # first
      BY <3>1, <3>2, Triples
    <3>4. g[y] # y
      BY <2>3, <3>1
    <3>5. QED BY <2>1, <2>3, <3>3, <3>4
  <2>4. CASE s[1] # "pending" /\ t[1] # "pending"
    <3>1. s \notin Tickets => s = new
      BY <1>6, <2>4
    <3>2. t \notin Tickets => t = new
      BY <1>6, <2>4
    <3>3. s # first /\ t # first
      BY <2>4
    <3>4. /\ g[s] = IF s \in Tickets THEN s ELSE first
          /\ g[t] = IF t \in Tickets THEN t ELSE first
      BY <2>1, <2>4
    <3>5. QED BY <1>8, <3>1, <3>2, <3>3, <3>4
  <2>5. QED BY <1>8, <2>2, <2>3, <2>4
<1> HIDE DEF g
<1>9. QED BY <1>1, <1>2, <1>7, <1>8, TicketsMove

LEMMA HandlingBudget ==
  ASSUME Typed, Budget, NEW c \in Clients, Serve(c)
  PROVE  Budget'
<1>1. TypeOK
  BY DEF Typed
<1>2. UNCHANGED <<at, port, down>> /\ lines' = lines
  BY DEF Serve, peers
<1>3. /\ 1 \in DOMAIN up[c] /\ pending = <<>> /\ Handles(c, up[c][1], pending')
      /\ \A d \in Clients \ {c} : up'[d] = up[d]
  BY <1>1, ServeStep
<1>4. PICK n \in Nat \ {0} : \A k \in DOMAIN up'[c] :
        k \in Nat \ {0} /\ k + n \in DOMAIN up[c] /\ up'[c][k] = up[c][k + n]
  BY <1>1, ServeStep
<1> DEFINE first == <<"up", c, 1>>
           Shifts(t) == t[1] = "up" /\ t[2] = c
           g == [t \in Tickets' |->
                   IF Shifts(t) THEN <<"up", c, t[3] + n>>
                   ELSE IF t[1] = "pending" THEN first ELSE t]
<1>5. ASSUME NEW t \in Tickets', Shifts(t)
      PROVE  <<"up", c, t[3] + n>> \in Tickets /\ t[3] \in Nat \ {0} /\ t = <<"up", c, t[3]>>
  <2>1. t = <<"up", c, t[3]>> /\ t[3] \in DOMAIN up'[c] /\ up'[c][t[3]].cmd = "SEND"
    BY <1>5 DEF Tickets, Sent
  <2>2. t[3] \in Nat \ {0} /\ Sent(c, t[3] + n, "SEND")
    BY <1>4, <2>1 DEF Sent
  <2>3. PICK k \in Nat : k = t[3] + n
    BY <2>2
  <2>4. <<"up", c, k>> \in Tickets
    BY <2>2, <2>3, IsTicket
  <2>5. QED BY <2>1, <2>2, <2>3, <2>4
<1>6. ASSUME NEW t \in Tickets', t[1] = "pending"
      PROVE  first \in Tickets /\ t = <<"pending", pending'[2][1], 2>>
  <2>1. t = <<"pending", t[2], t[3]>> /\ Queued(t[2], t[3], "FTREQ")'
    BY <1>6 DEF Tickets
  <2>2. t[3] = 2 /\ up[c][1].cmd = "SEND" /\ t[2] = pending'[2][1]
    BY <1>3, <2>1 DEF Queued, Handles
  <2>3. QED BY <1>3, <2>1, <2>2, IsTicket DEF Sent
<1>7. ASSUME NEW t \in Tickets', ~Shifts(t), t[1] # "pending"
      PROVE  t \in Tickets
  BY <1>2, <1>3, <1>7 DEF Tickets, Sent, Arriving
<1>8. g \in [Tickets' -> Tickets]
  BY <1>5, <1>6, <1>7
<1>9. ASSUME NEW s \in Tickets', NEW t \in Tickets', g[s] = g[t] PROVE s = t
  <2>1. \A x \in Tickets' : g[x] = IF Shifts(x) THEN <<"up", c, x[3] + n>>
                   ELSE IF x[1] = "pending" THEN first ELSE x
    OBVIOUS
  <2> HIDE DEF g
  <2>2. CASE Shifts(s) /\ Shifts(t)
    <3>1. <<"up", c, s[3] + n>> = <<"up", c, t[3] + n>>
      BY <1>9, <2>1, <2>2
    <3>2. s[3] + n = t[3] + n
      BY <3>1, Triples
    <3>3. s[3] \in Nat /\ t[3] \in Nat /\ s = <<"up", c, s[3]>> /\ t = <<"up", c, t[3]>>
      BY <1>5, <2>2
    <3>4. s[3] = t[3]
      BY <3>2, <3>3
    <3>5. QED BY <3>3, <3>4
  <2>3. ASSUME NEW x \in Tickets', NEW y \in Tickets', g[x] = g[y], Shifts(x), ~Shifts(y)
        PROVE  FALSE
    <3>1. x[3] \in Nat \ {0} /\ g[x] = <<"up", c, x[3] + n>>
      BY <1>5, <2>1, <2>3
    <3>2. x[3] + n # 1
      BY <3>1
    <3>3. g[x] # first
      BY <3>1, <3>2, Triples
    <3>4. g[y] # y
      BY <2>3, <3>1
    <3>5. QED BY <2>1, <2>3, <3>3, <3>4
  <2>4. CASE ~Shifts(s) /\ ~Shifts(t)
    <3>1. s[1] = "pending" => g[s] = first /\ s = <<"pending", pending'[2][1], 2>>
      BY <1>6, <2>1, <2>4
    <3>2. t[1] = "pending" => g[t] = first /\ t = <<"pending", pending'[2][1], 2>>
      BY <1>6, <2>1, <2>4
    <3>3. /\ s[1] # "pending" => g[s] = s /\ g[s] # first
          /\ t[1] # "pending" => g[t] = t /\ g[t] # first
      <4>1. \A x \in Tickets' : x = first => Shifts(x)
        OBVIOUS
      <4>2. QED BY <2>1, <2>4, <4>1
    <3>4. QED BY <1>9, <3>1, <3>2, <3>3
  <2>5. QED BY <1>9, <2>2, <2>3, <2>4
<1> HIDE DEF g
<1>10. QED BY <1>1, <1>2, <1>8, <1>9, TicketsMove

LEMMA EndingBudget ==
  ASSUME Typed, Budget,
         \/ Restart
         \/ \E c \in Clients :
              \/ QUIT(c) \/ RECONNECT(c) \/ readline_fails(c) \/ Ends(c)
              \/ do_accept(c) \/ accept_file(c) \/ rcv_file(c) \/ read_greeting(c)
              \/ send_file(c) \/ ResetArrives(c)
  PROVE  Budget'
<1>1. TypeOK
  BY DEF Typed
<1>2. CASE Restart
  <2>1. /\ UNCHANGED <<at, port, down>> /\ lines' = lines + 1
        /\ pending' = <<>> /\ up' = [c \in Clients |-> <<>>]
    BY <1>2 DEF Restart, peers
  <2>2. Tickets' \subseteq Tickets
    BY <2>1 DEF Tickets, Sent, Queued, Arriving
  <2>3. IsFiniteSet(Tickets') /\ Cardinality(Tickets') <= Cardinality(Tickets)
    BY <2>2, FS_Subset DEF Budget
  <2>4. Cardinality(Tickets) \in Nat /\ Cardinality(Tickets') \in Nat /\ lines \in Nat
    BY <1>1, <2>3, FS_CardinalityType DEF Budget, TypeOK
  <2>5. QED BY <2>1, <2>3, <2>4 DEF Budget
<1>3. CASE \E c \in Clients :
             \/ QUIT(c) \/ RECONNECT(c) \/ readline_fails(c) \/ Ends(c)
             \/ do_accept(c) \/ accept_file(c) \/ rcv_file(c) \/ read_greeting(c)
             \/ send_file(c) \/ ResetArrives(c)
  <2>1. UNCHANGED <<port, down, up, pending>> /\ lines' = lines
    BY <1>3 DEF QUIT, RECONNECT, readline_fails, Ends, do_accept, accept_file, rcv_file,
                read_greeting, send_file, ResetArrives, peers, server
  <2>2. \A c \in Clients : at'[c] \in {"prompt", "listen"} => at[c] = at'[c]
    BY <1>1, <1>3 DEF QUIT, RECONNECT, readline_fails, Ends, do_accept, accept_file,
                      rcv_file, read_greeting, send_file, ResetArrives, Goes, TypeOK
  <2>3. Tickets' \subseteq Tickets
    BY <2>1, <2>2 DEF Tickets, Sent, Queued, Arriving
  <2>4. QED BY <1>1, <2>1, <2>3, TicketsStay
<1>4. QED BY <1>2, <1>3

LEMMA BudgetInit == Init => Budget
<1> SUFFICES ASSUME Init PROVE Budget
  OBVIOUS
<1>1. Tickets = {}
  BY DEF Init, Tickets, Sent, Queued, Arriving
<1>2. QED BY <1>1, FS_EmptySet DEF Init, Budget

(* A client about to listen has an answer ticket besides one for each of its  *)
(* ports.                                                                   *)
LEMMA BudgetBoundsPorts == Typed /\ Budget => HasPort
<1> SUFFICES ASSUME Typed, Budget, NEW c \in Clients, at[c] = "listen"
             PROVE  port[c] < MaxLines
  BY DEF HasPort
<1>1. port[c] \in Nat /\ lines \in Nat /\ lines <= MaxLines /\ MaxLines \in Nat
  BY TransferAssumption DEF Typed, TypeOK
<1> DEFINE g == [k \in 0 .. port[c] |-> IF k = 0 THEN <<"answer", c, 0>> ELSE <<"port", c, k>>]
<1>2. g \in [0 .. port[c] -> Tickets]
  <2>1. <<"answer", c, 0>> \in Tickets
    BY IsTicket
  <2>2. \A k \in 1 .. port[c] : <<"port", c, k>> \in Tickets
    <3> TAKE k \in 1 .. port[c]
    <3>1. k \in Nat
      BY <1>1
    <3>2. QED BY <3>1, IsTicket
  <2>3. QED BY <1>1, <2>1, <2>2
<1>3. \A j, k \in 0 .. port[c] : g[j] = g[k] => j = k
  BY Triples
<1> HIDE DEF g
<1>4. g \in Injection(0 .. port[c], Tickets)
  BY <1>2, <1>3 DEF Injection, IsInjective
<1>5. Cardinality(0 .. port[c]) <= Cardinality(Tickets)
  BY <1>4, FS_Injection DEF Budget
<1>6. Cardinality(0 .. port[c]) = port[c] + 1
  BY <1>1, FS_Interval
<1>7. Cardinality(Tickets) \in Nat
  BY FS_CardinalityType DEF Budget
<1>8. QED BY <1>1, <1>5, <1>6, <1>7 DEF Budget

LEMMA BudgetStep == Typed /\ Budget /\ [Next]_vars => Budget'
<1> SUFFICES ASSUME Typed, Budget, [Next]_vars PROVE Budget'
  OBVIOUS
<1>1. HasPort /\ TypeOK
  BY BudgetBoundsPorts DEF Typed
<1>2. CASE TheServer \/ Restart
  BY <1>2, DeliveringBudget, HandlingBudget, EndingBudget DEF TheServer
<1>3. ASSUME NEW c \in Clients, Types(c) \/ Client(c) \/ ResetArrives(c) \/ Ends(c)
      PROVE  Budget'
  BY <1>1, <1>3, TypingBudget, AnsweringBudget, ListeningBudget, ReadingBudget, EndingBudget
     DEF Client
<1>4. CASE UNCHANGED vars
  <2>1. Tickets' = Tickets /\ lines' = lines
    BY <1>4 DEF vars, peers, server, Tickets, Sent, Queued, Arriving
  <2>2. QED BY <1>1, <2>1, TicketsStay
<1>5. QED BY <1>2, <1>3, <1>4 DEF Next

Accounts == Typed /\ Budget

LEMMA TypesInvariant == Spec => []Accounts
<1>1. Init => Accounts
  BY TypedInit, BudgetInit DEF Accounts
<1>2. Accounts /\ [Next]_vars => Accounts'
  BY TypedStep, BudgetStep, BudgetBoundsPorts DEF Accounts
<1>3. QED BY <1>1, <1>2, PTL DEF Spec

(* Every variable keeps its type, every stream carries only messages of the   *)
(* protocol, and no port number exceeds the lines typed.                     *)
THEOREM TransferTypes == Spec => []TypeOK
<1>1. Accounts => TypeOK
  BY DEF Accounts, Typed
<1>2. QED BY <1>1, TypesInvariant, PTL
=============================================================================
