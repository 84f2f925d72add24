----------------------------- MODULE ListProofs -----------------------------
(***************************************************************************)
(* What the operations of modules ClientList and GroupList return, for      *)
(* lists of any length.                                                     *)
(***************************************************************************)
EXTENDS ClientList, GroupList, SequenceTheorems, WellFoundedInduction, TLAPS

(* Min of a nonempty set of naturals is its least element. *)
LEMMA MinIsLeast ==
  ASSUME NEW I, I \subseteq Nat, I # {}
  PROVE  Min(I) \in I /\ \A y \in I : Min(I) <= y
<1>1. PICK x \in I : \A y \in I : ~(<<y, x>> \in OpToRel(<, Nat))
  BY NatLessThanWellFounded, WFMin, Zenon
<1>2. ASSUME NEW y \in I PROVE x <= y
  <2>1. x \in Nat /\ y \in Nat
    OBVIOUS
  <2>2. ~(y < x)
    BY <1>1, <2>1 DEF OpToRel
  <2>3. QED BY <2>1, <2>2
<1>3. QED BY <1>2 DEF Min

(* Taking element k out of a sequence moves those after it one place down.   *)
LEMMA RemoveAtProperties ==
  ASSUME NEW S, NEW s \in Seq(S), NEW k \in 1 .. Len(s)
  PROVE  /\ RemoveAt(s, k) \in Seq(S)
         /\ Len(RemoveAt(s, k)) = Len(s) - 1
         /\ \A j \in 1 .. Len(s) - 1 :
              RemoveAt(s, k)[j] = IF j < k THEN s[j] ELSE s[j + 1]
<1> DEFINE front == SubSeq(s, 1, k - 1)
           back  == SubSeq(s, k + 1, Len(s))
<1>0. Len(s) \in Nat /\ \A j \in 1 .. Len(s) : s[j] \in S
  BY LenProperties, ElementOfSeq
<1>1. /\ front \in Seq(S) /\ Len(front) = k - 1
      /\ \A j \in 1 .. k - 1 : front[j] = s[j]
  <2>1. \A j \in 1 .. k - 1 : s[j] \in S
    BY <1>0
  <2>2. /\ front \in Seq(S)
        /\ Len(front) = IF 1 <= k - 1 THEN k - 1 - 1 + 1 ELSE 0
        /\ \A j \in 1 .. k - 1 - 1 + 1 : front[j] = s[1 + j - 1]
    BY <1>0, <2>1, SubSeqProperties
  <2>3. QED BY <1>0, <2>2
<1>2. /\ back \in Seq(S) /\ Len(back) = Len(s) - k
      /\ \A j \in 1 .. Len(s) - k : back[j] = s[j + k]
  <2>1. \A j \in k + 1 .. Len(s) : s[j] \in S
    BY <1>0
  <2>2. /\ back \in Seq(S)
        /\ Len(back) = IF k + 1 <= Len(s) THEN Len(s) - (k + 1) + 1 ELSE 0
        /\ \A j \in 1 .. Len(s) - (k + 1) + 1 : back[j] = s[k + 1 + j - 1]
    BY <1>0, <2>1, SubSeqProperties
  <2>3. QED BY <1>0, <2>2
<1>3. RemoveAt(s, k) = front \o back
  BY DEF RemoveAt
<1> HIDE DEF front, back
<1>4. /\ front \o back \in Seq(S)
      /\ Len(front \o back) = Len(front) + Len(back)
      /\ \A j \in 1 .. Len(front) + Len(back) :
           (front \o back)[j] = IF j <= Len(front) THEN front[j]
                                ELSE back[j - Len(front)]
  BY <1>1, <1>2, ConcatProperties
<1>5. ASSUME NEW j \in 1 .. Len(s) - 1
      PROVE  (front \o back)[j] = IF j < k THEN s[j] ELSE s[j + 1]
  <2>1. CASE j < k
    BY <1>0, <1>1, <1>2, <1>4, <2>1
  <2>2. CASE ~(j < k)
    <3>1. j - (k - 1) \in 1 .. Len(s) - k
      BY <1>0, <2>2
    <3>2. (front \o back)[j] = back[j - (k - 1)]
      BY <1>0, <1>1, <1>2, <1>4, <2>2
    <3>3. back[j - (k - 1)] = s[(j - (k - 1)) + k]
      BY <1>2, <3>1
    <3>4. (j - (k - 1)) + k = j + 1
      BY <1>0
    <3>5. QED BY <2>2, <3>2, <3>3, <3>4
  <2>3. QED BY <2>1, <2>2
<1>6. QED BY <1>0, <1>1, <1>2, <1>3, <1>4, <1>5

(* So it loses that element and no other, and keeps the order.             *)
LEMMA RemoveAtElements ==
  ASSUME NEW S, NEW s \in Seq(S), NEW k \in 1 .. Len(s),
         NEW r, r = RemoveAt(s, k)
  PROVE  \E old \in [DOMAIN r -> DOMAIN s \ {k}] :
           /\ \A j \in DOMAIN r : r[j] = s[old[j]]
           /\ \A j, m \in DOMAIN r : old[j] = old[m] => j = m
           /\ \A l \in DOMAIN s \ {k} : \E j \in DOMAIN r : l = old[j]
<1> DEFINE old == [j \in DOMAIN r |-> IF j < k THEN j ELSE j + 1]
<1>1. /\ Len(s) \in Nat /\ DOMAIN s = 1 .. Len(s)
      /\ DOMAIN r = 1 .. Len(s) - 1
      /\ \A j \in DOMAIN r : r[j] = IF j < k THEN s[j] ELSE s[j + 1]
  BY RemoveAtProperties, LenProperties
<1>2. old \in [DOMAIN r -> DOMAIN s \ {k}]
  BY <1>1
<1>3. \A j \in DOMAIN r : r[j] = s[old[j]]
  BY <1>1
<1>4. \A j, m \in DOMAIN r : old[j] = old[m] => j = m
  BY <1>1
<1>5. \A l \in DOMAIN s \ {k} : \E j \in DOMAIN r : l = old[j]
  <2> TAKE l \in DOMAIN s \ {k}
  <2>1. CASE l < k
    BY <1>1, <2>1
  <2>2. CASE l > k
    <3>1. l - 1 \in DOMAIN r /\ l = old[l - 1]
      BY <1>1, <2>2
    <3>2. QED BY <3>1
  <2>3. QED BY <1>1, <2>1, <2>2
<1> HIDE DEF old
<1>6. QED BY <1>2, <1>3, <1>4, <1>5

(* Putting an element at the head moves all the others one place up.        *)
LEMMA PrependProperties ==
  ASSUME NEW S, NEW s \in Seq(S), NEW e \in S
  PROVE  /\ <<e>> \o s \in Seq(S)
         /\ Len(<<e>> \o s) = Len(s) + 1
         /\ (<<e>> \o s)[1] = e
         /\ \A j \in 2 .. Len(s) + 1 : (<<e>> \o s)[j] = s[j - 1]
<1>1. <<e>> \in Seq(S) /\ Len(<<e>>) = 1 /\ <<e>>[1] = e
  OBVIOUS
<1>2. Len(s) \in Nat
  BY LenProperties
<1>3. /\ <<e>> \o s \in Seq(S)
      /\ Len(<<e>> \o s) = 1 + Len(s)
      /\ \A j \in 1 .. 1 + Len(s) :
           (<<e>> \o s)[j] = IF j <= 1 THEN <<e>>[j] ELSE s[j - 1]
  BY <1>1, ConcatProperties
<1>4. QED BY <1>1, <1>2, <1>3
-----------------------------------------------------------------------------
(* get_client_by_fd finds the descriptor, or there is no such client. *)
LEMMA ClientByFd ==
  ASSUME NEW S, NEW cs \in Seq(Client(S)), NEW fd
  PROVE  /\ get_client_by_fd(cs, fd) \in 0 .. Len(cs)
         /\ get_client_by_fd(cs, fd) = 0 => \A j \in 1 .. Len(cs) : cs[j].fd # fd
         /\ get_client_by_fd(cs, fd) # 0 => cs[get_client_by_fd(cs, fd)].fd = fd
<1> DEFINE I == {j \in 1 .. Len(cs) : cs[j].fd = fd}
<1>1. get_client_by_fd(cs, fd) = IF I # {} THEN Min(I) ELSE 0
  BY DEF get_client_by_fd, SelectInSeq
<1>2. Len(cs) \in Nat /\ I \subseteq Nat
  BY LenProperties
<1>3. I # {} => Min(I) \in I
  BY <1>2, MinIsLeast
<1>4. QED BY <1>1, <1>2, <1>3

(* get_client_by_nick finds a client with that nickname, or there is none.    *)
LEMMA ClientByNick ==
  ASSUME NEW S, NEW cs \in Seq(Client(S)), NEW n
  PROVE  /\ get_client_by_nick(cs, n) \in 0 .. Len(cs)
         /\ get_client_by_nick(cs, n) = 0 =>
              \A j \in 1 .. Len(cs) : ~(cs[j].hasNick /\ Nickname(cs[j]) = n)
         /\ get_client_by_nick(cs, n) # 0 =>
              LET c == cs[get_client_by_nick(cs, n)] IN c.hasNick /\ Nickname(c) = n
<1> DEFINE I == {j \in 1 .. Len(cs) : cs[j].hasNick /\ Nickname(cs[j]) = n}
<1>1. get_client_by_nick(cs, n) = IF I # {} THEN Min(I) ELSE 0
  BY DEF get_client_by_nick, SelectInSeq
<1>2. Len(cs) \in Nat /\ I \subseteq Nat
  BY LenProperties
<1>3. I # {} => Min(I) \in I
  <2> HIDE DEF I
  <2>1. QED BY <1>2, MinIsLeast
<1>4. QED BY <1>1, <1>2, <1>3

(* The same for get_group_by_name. *)
LEMMA GroupByName ==
  ASSUME NEW S, NEW gs \in Seq(S), NEW name
  PROVE  /\ get_group_by_name(gs, name) \in 0 .. Len(gs)
         /\ get_group_by_name(gs, name) = 0 => \A j \in 1 .. Len(gs) : gs[j].name # name
         /\ get_group_by_name(gs, name) # 0
              => gs[get_group_by_name(gs, name)].name = name
<1> DEFINE I == {j \in 1 .. Len(gs) : gs[j].name = name}
<1>1. get_group_by_name(gs, name) = IF I # {} THEN Min(I) ELSE 0
  BY DEF get_group_by_name, SelectInSeq
<1>2. Len(gs) \in Nat /\ I \subseteq Nat
  BY LenProperties
<1>3. I # {} => Min(I) \in I
  BY <1>2, MinIsLeast
<1>4. QED BY <1>1, <1>2, <1>3

(* fd_in_tab returns a cell that holds v, or -1 when none does. *)
LEMMA FdInTab ==
  ASSUME NEW tab, NEW v
  PROVE  /\ fd_in_tab(tab, v) \in Cells \cup {-1}
         /\ fd_in_tab(tab, v) # -1 => tab[fd_in_tab(tab, v)] = v
         /\ fd_in_tab(tab, v) = -1 => \A j \in Cells : tab[j] # v
<1> DEFINE I == {j \in Cells : tab[j] = v}
<1>1. fd_in_tab(tab, v) = IF \E j \in Cells : tab[j] = v THEN Min(I) ELSE -1
  BY DEF fd_in_tab
<1>2. I \subseteq Nat
  BY MaxClAssumption DEF Cells
<1>3. I # {} => Min(I) \in I
  BY <1>2, MinIsLeast
<1>4. -1 \notin Cells
  BY MaxClAssumption DEF Cells
<1>5. QED BY <1>1, <1>3, <1>4
-----------------------------------------------------------------------------
(* Client lists in which a descriptor occurs once. *)

OneRecordEach(cs) ==
  \A k, l \in DOMAIN cs : cs[k].fd = cs[l].fd => k = l

(* add_client_to_list puts a record for fd at the head. *)
LEMMA AddClient ==
  ASSUME NEW S, NEW cs \in Seq(Client(S)), NEW fd \in S
  PROVE  LET r == add_client_to_list(cs, fd)
         IN  /\ r \in Seq(Client(S))
             /\ Len(r) = Len(cs) + 1
             /\ r[1].fd = fd /\ r[1].group = NoGroup
             /\ ~r[1].hasNick /\ r[1].nickname = Guest
             /\ \A j \in 2 .. Len(cs) + 1 : r[j] = cs[j - 1]
<1> DEFINE c == [fd |-> fd, nickname |-> Guest, hasNick |-> FALSE, group |-> NoGroup]
<1>1. c \in Client(S)
  BY NamesAssumption DEF Client
<1>2. add_client_to_list(cs, fd) = <<c>> \o cs
  BY DEF add_client_to_list
<1>3. c.fd = fd /\ c.group = NoGroup /\ ~c.hasNick /\ c.nickname = Guest
  OBVIOUS
<1> HIDE DEF c
<1>4. QED BY <1>1, <1>2, <1>3, PrependProperties

(* change_group changes one field of one record. *)
LEMMA ChangeGroup ==
  ASSUME NEW S, NEW cs \in Seq(Client(S)), NEW fd,
         NEW g \in GroupNames \cup {NoGroup}
  PROVE  LET r == change_group(cs, g, fd)
         IN  /\ r \in Seq(Client(S))
             /\ Len(r) = Len(cs)
             /\ \A j \in 1 .. Len(cs) :
                  /\ r[j].fd = cs[j].fd
                  /\ r[j].hasNick = cs[j].hasNick
                  /\ r[j].nickname = cs[j].nickname
                  /\ r[j].group = IF j = get_client_by_fd(cs, fd)
                                  THEN g ELSE cs[j].group
<1> DEFINE r == change_group(cs, g, fd)
           k == get_client_by_fd(cs, fd)
<1>1. /\ Len(cs) \in Nat /\ cs \in [1 .. Len(cs) -> Client(S)]
      /\ \A j \in 1 .. Len(cs) : cs[j] \in Client(S)
  BY LenProperties
<1>2. r = [cs EXCEPT ![k].group = g]
  BY DEF change_group
<1> HIDE DEF r, k
<1>3. \A c \in Client(S) :
        /\ [c EXCEPT !.group = g] \in Client(S)
        /\ [c EXCEPT !.group = g].fd = c.fd
        /\ [c EXCEPT !.group = g].hasNick = c.hasNick
        /\ [c EXCEPT !.group = g].nickname = c.nickname
        /\ [c EXCEPT !.group = g].group = g
  BY DEF Client
<1>4. /\ r \in [1 .. Len(cs) -> Client(S)]
      /\ \A j \in 1 .. Len(cs) :
           r[j] = IF j = k THEN [cs[j] EXCEPT !.group = g] ELSE cs[j]
  BY <1>1, <1>2, <1>3
<1>5. r \in Seq(Client(S)) /\ Len(r) = Len(cs)
  BY <1>1, <1>4
<1>6. ASSUME NEW j \in 1 .. Len(cs)
      PROVE  /\ r[j].fd = cs[j].fd
             /\ r[j].hasNick = cs[j].hasNick
             /\ r[j].nickname = cs[j].nickname
             /\ r[j].group = IF j = k THEN g ELSE cs[j].group
  <2>1. CASE j = k
    <3>1. r[j] = [cs[j] EXCEPT !.group = g] /\ cs[j] \in Client(S)
      BY <1>1, <1>4, <2>1
    <3>2. QED BY <1>3, <2>1, <3>1
  <2>2. CASE j # k
    BY <1>4, <2>2
  <2>3. QED BY <2>1, <2>2
<1>7. QED BY <1>5, <1>6 DEF r, k

(* set_nick marks one client as named; it touches a channel only when the    *)
(* name fills its array.                                                    *)
LEMMA SetNick ==
  ASSUME NEW S, NEW cs \in Seq(Client(S)), NEW fd, NEW n \in Nicks
  PROVE  LET r == set_nick(cs, fd, n)
         IN  /\ r \in Seq(Client(S))
             /\ Len(r) = Len(cs)
             /\ \A j \in 1 .. Len(cs) :
                  /\ r[j].fd = cs[j].fd
                  /\ r[j].hasNick <=> cs[j].hasNick \/ j = get_client_by_fd(cs, fd)
                  /\ r[j].nickname = IF j = get_client_by_fd(cs, fd) /\ n \notin BlankNicks
                                     THEN n ELSE cs[j].nickname
                  /\ r[j].group \in {cs[j].group, NoGroup}
                  /\ n \notin EdgeNicks => r[j].group = cs[j].group
<1> DEFINE r == set_nick(cs, fd, n)
           k == get_client_by_fd(cs, fd)
<1>1. /\ Len(cs) \in Nat /\ cs \in [1 .. Len(cs) -> Client(S)]
      /\ \A j \in 1 .. Len(cs) : cs[j] \in Client(S)
  BY LenProperties
<1>2. r = [cs EXCEPT ![k] = Renamed(cs[k], n)]
  BY DEF set_nick
<1>3. \A c \in Client(S) :
        /\ Renamed(c, n) \in Client(S)
        /\ Renamed(c, n).fd = c.fd
        /\ Renamed(c, n).hasNick
        /\ Renamed(c, n).nickname = IF n \in BlankNicks THEN c.nickname ELSE n
        /\ Renamed(c, n).group \in {c.group, NoGroup}
        /\ n \notin EdgeNicks => Renamed(c, n).group = c.group
  BY DEF Client, Renamed
<1> HIDE DEF r, k
<1>4. /\ r \in [1 .. Len(cs) -> Client(S)]
      /\ \A j \in 1 .. Len(cs) : r[j] = IF j = k THEN Renamed(cs[j], n) ELSE cs[j]
  BY <1>1, <1>2, <1>3
<1>5. r \in Seq(Client(S)) /\ Len(r) = Len(cs)
  BY <1>1, <1>4
<1>6. ASSUME NEW j \in 1 .. Len(cs)
      PROVE  /\ r[j].fd = cs[j].fd
             /\ r[j].hasNick <=> cs[j].hasNick \/ j = k
             /\ r[j].nickname = IF j = k /\ n \notin BlankNicks THEN n ELSE cs[j].nickname
             /\ r[j].group \in {cs[j].group, NoGroup}
             /\ n \notin EdgeNicks => r[j].group = cs[j].group
  <2>1. CASE j = k
    <3>1. r[j] = Renamed(cs[j], n) /\ cs[j] \in Client(S)
      BY <1>1, <1>4, <2>1
    <3>2. QED BY <1>3, <2>1, <3>1
  <2>2. CASE j # k
    BY <1>4, <2>2
  <2>3. QED BY <2>1, <2>2
<1>7. QED BY <1>5, <1>6 DEF r, k

(* remove_client takes out the record of fd and no other. *)
LEMMA RemoveClient ==
  ASSUME NEW S, NEW cs \in Seq(Client(S)), NEW fd
  PROVE  LET r == remove_client(cs, fd)
         IN  /\ r \in Seq(Client(S))
             /\ OneRecordEach(cs) =>
                  /\ OneRecordEach(r)
                  /\ \A j \in DOMAIN r : r[j].fd # fd /\ \E l \in DOMAIN cs : r[j] = cs[l]
                  /\ \A l \in DOMAIN cs : cs[l].fd # fd => \E j \in DOMAIN r : r[j] = cs[l]
<1> DEFINE r == remove_client(cs, fd)
           k == get_client_by_fd(cs, fd)
<1>1. /\ k \in 0 .. Len(cs) /\ Len(cs) \in Nat /\ DOMAIN cs = 1 .. Len(cs)
      /\ k = 0 => \A j \in 1 .. Len(cs) : cs[j].fd # fd
      /\ k # 0 => cs[k].fd = fd
  BY ClientByFd, LenProperties
<1>2. r = IF k = 0 THEN cs ELSE RemoveAt(cs, k)
  BY DEF remove_client
<1> HIDE DEF r, k
<1>3. CASE k = 0
  BY <1>1, <1>2, <1>3 DEF r
<1>4. CASE k # 0
  <2>1. r = RemoveAt(cs, k) /\ k \in 1 .. Len(cs)
    BY <1>1, <1>2, <1>4
  <2>2. r \in Seq(Client(S))
    BY <2>1, RemoveAtProperties
  <2>3. PICK old \in [DOMAIN r -> DOMAIN cs \ {k}] :
          /\ \A j \in DOMAIN r : r[j] = cs[old[j]]
          /\ \A j, m \in DOMAIN r : old[j] = old[m] => j = m
          /\ \A l \in DOMAIN cs \ {k} : \E j \in DOMAIN r : l = old[j]
    BY <2>1, RemoveAtElements
  <2>4. ASSUME OneRecordEach(cs)
        PROVE  /\ OneRecordEach(r)
               /\ \A j \in DOMAIN r : r[j].fd # fd /\ \E l \in DOMAIN cs : r[j] = cs[l]
               /\ \A l \in DOMAIN cs : cs[l].fd # fd => \E j \in DOMAIN r : r[j] = cs[l]
    <3>1. \A l \in DOMAIN cs : l # k <=> cs[l].fd # fd
      BY <1>1, <1>4, <2>1, <2>4 DEF OneRecordEach
    <3>2. \A j \in DOMAIN r : old[j] \in DOMAIN cs /\ old[j] # k
      BY <2>3
    <3>3. OneRecordEach(r)
      BY <2>3, <2>4, <3>2 DEF OneRecordEach
    <3>4. \A j \in DOMAIN r : r[j].fd # fd /\ \E l \in DOMAIN cs : r[j] = cs[l]
      BY <2>3, <3>1, <3>2
    <3>5. \A l \in DOMAIN cs : cs[l].fd # fd => \E j \in DOMAIN r : r[j] = cs[l]
      BY <2>3, <3>1
    <3>6. QED BY <3>3, <3>4, <3>5
  <2>5. QED BY <2>2, <2>4 DEF r
<1>5. QED BY <1>3, <1>4
-----------------------------------------------------------------------------
(* Channel lists in which a name occurs once, and arrays in which a          *)
(* descriptor does.                                                         *)

OneGroupEach(gs) ==
  \A j, k \in DOMAIN gs : gs[j].name = gs[k].name => j = k

OneCellEach(tab) ==
  \A i, j \in Cells : tab[i] = tab[j] => i = j \/ tab[i] = -1

(* create_group puts an empty channel at the head, or does nothing. *)
LEMMA CreateGroup ==
  ASSUME NEW S, NEW gs \in Seq(Group(GroupNames, S)), NEW g \in GroupNames
  PROVE  LET r == create_group(gs, g)
         IN  /\ r \in Seq(Group(GroupNames, S))
             /\ group_exist(gs, g) => r = gs
             /\ ~group_exist(gs, g) =>
                  /\ Len(r) = Len(gs) + 1
                  /\ r[1].name = g /\ members(r[1].fd) = {} /\ OneCellEach(r[1].fd)
                  /\ \A j \in 2 .. Len(gs) + 1 : r[j] = gs[j - 1]
<1> DEFINE new == [name |-> g, fd |-> [j \in Cells |-> -1]]
<1>1. new \in Group(GroupNames, S)
  BY DEF Group
<1>2. new.name = g /\ members(new.fd) = {} /\ OneCellEach(new.fd)
  BY DEF members, OneCellEach
<1>3. create_group(gs, g) = IF group_exist(gs, g) THEN gs ELSE <<new>> \o gs
  BY DEF create_group
<1> HIDE DEF new
<1>4. QED BY <1>1, <1>2, <1>3, PrependProperties

(* add_client_in_group fills a free cell of one channel, or does nothing.    *)
LEMMA AddMember ==
  ASSUME NEW S, -1 \notin S, NEW gs \in Seq(Group(GroupNames, S)),
         NEW fd \in S, NEW g
  PROVE  LET r == add_client_in_group(gs, fd, g)
             k == get_group_by_name(gs, g)
         IN  /\ r \in Seq(Group(GroupNames, S))
             /\ JoinResult(gs, fd, g) # 0 => r = gs
             /\ JoinResult(gs, fd, g) = 0 =>
                  /\ k \in DOMAIN gs /\ DOMAIN r = DOMAIN gs
                  /\ \A j \in DOMAIN gs : j # k => r[j] = gs[j]
                  /\ r[k].name = gs[k].name
                  /\ members(r[k].fd) = members(gs[k].fd) \cup {fd}
                  /\ OneCellEach(gs[k].fd) => OneCellEach(r[k].fd)
<1> DEFINE r == add_client_in_group(gs, fd, g)
           k == get_group_by_name(gs, g)
           tab == gs[k].fd
           free == get_available_fd_index2(tab)
<1>1. CASE JoinResult(gs, fd, g) # 0
  BY <1>1 DEF add_client_in_group
<1>2. CASE JoinResult(gs, fd, g) = 0
  <2>1. r = [gs EXCEPT ![k].fd[free] = fd]
    BY <1>2 DEF add_client_in_group
  <2>2. group_exist(gs, g) /\ fd_in_tab(tab, fd) = -1 /\ free # -1
    BY <1>2 DEF JoinResult
  <2>3. /\ k \in DOMAIN gs /\ DOMAIN gs = 1 .. Len(gs) /\ Len(gs) \in Nat
        /\ \A j \in DOMAIN gs : gs[j] \in Group(GroupNames, S)
    BY <2>2, GroupByName, LenProperties, ElementOfSeq DEF group_exist
  <2>4. tab \in [Cells -> S \cup {-1}]
    BY <2>3 DEF Group
  <2>5. free \in Cells /\ tab[free] = -1 /\ \A j \in Cells : tab[j] # fd
    BY <2>2, FdInTab DEF get_available_fd_index2
  <2> HIDE DEF r, k, free
  <2>6. /\ [tab EXCEPT ![free] = fd] \in [Cells -> S \cup {-1}]
        /\ \A j \in Cells : [tab EXCEPT ![free] = fd][j] = IF j = free THEN fd ELSE tab[j]
    BY <2>4, <2>5
  <2>7. LET one == [gs[k] EXCEPT !.fd = [tab EXCEPT ![free] = fd]]
      IN  /\ one \in Group(GroupNames, S)
          /\ one.name = gs[k].name
          /\ one.fd = [tab EXCEPT ![free] = fd]
          /\ r = [gs EXCEPT ![k] = one]
    BY <2>1, <2>3, <2>6 DEF Group
  <2>8. /\ r \in [DOMAIN gs -> Group(GroupNames, S)]
        /\ \A j \in DOMAIN gs : j # k => r[j] = gs[j]
        /\ r[k].name = gs[k].name
        /\ r[k].fd = [tab EXCEPT ![free] = fd]
    BY <2>3, <2>7
  <2>9. r \in Seq(Group(GroupNames, S)) /\ DOMAIN r = DOMAIN gs
    BY <2>3, <2>8
  <2>10. members(r[k].fd) = members(tab) \cup {fd}
    BY <2>4, <2>5, <2>6, <2>8 DEF members
  <2>11. OneCellEach(tab) => OneCellEach(r[k].fd)
    BY <2>4, <2>5, <2>6, <2>8 DEF OneCellEach
  <2>12. QED BY <1>2, <2>3, <2>8, <2>9, <2>10, <2>11 DEF r, k
<1>3. QED BY <1>1, <1>2

(* remove_client_in_group, when it finds the client, frees its cell.        *)
LEMMA DropMember ==
  ASSUME NEW S, -1 \notin S, NEW gs \in Seq(Group(GroupNames, S)),
         NEW fd \in S, NEW g, InGroup(gs, fd, g)
  PROVE  LET r == remove_client_in_group(gs, fd, g)
             k == get_group_by_name(gs, g)
         IN  /\ r \in Seq(Group(GroupNames, S))
             /\ k \in DOMAIN gs /\ DOMAIN r = DOMAIN gs
             /\ \A j \in DOMAIN gs : j # k => r[j] = gs[j]
             /\ r[k].name = gs[k].name
             /\ OneCellEach(gs[k].fd) =>
                  /\ members(r[k].fd) = members(gs[k].fd) \ {fd}
                  /\ OneCellEach(r[k].fd)
<1> DEFINE r == remove_client_in_group(gs, fd, g)
           k == get_group_by_name(gs, g)
           tab == gs[k].fd
           cell == fd_in_tab(tab, fd)
<1>1. r = [gs EXCEPT ![k].fd[cell] = -1]
  BY DEF remove_client_in_group
<1>2. group_exist(gs, g) /\ cell # -1
  BY DEF InGroup
<1>3. /\ k \in DOMAIN gs /\ DOMAIN gs = 1 .. Len(gs) /\ Len(gs) \in Nat
      /\ \A j \in DOMAIN gs : gs[j] \in Group(GroupNames, S)
  BY <1>2, GroupByName, LenProperties, ElementOfSeq DEF group_exist
<1>4. tab \in [Cells -> S \cup {-1}]
  BY <1>3 DEF Group
<1>5. cell \in Cells /\ tab[cell] = fd
  BY <1>2, FdInTab
<1> HIDE DEF r, k, cell
<1>6. /\ [tab EXCEPT ![cell] = -1] \in [Cells -> S \cup {-1}]
      /\ \A j \in Cells : [tab EXCEPT ![cell] = -1][j] = IF j = cell THEN -1 ELSE tab[j]
  BY <1>4, <1>5
<1>7. LET one == [gs[k] EXCEPT !.fd = [tab EXCEPT ![cell] = -1]]
      IN  /\ one \in Group(GroupNames, S)
          /\ one.name = gs[k].name
          /\ one.fd = [tab EXCEPT ![cell] = -1]
          /\ r = [gs EXCEPT ![k] = one]
  BY <1>1, <1>3, <1>6 DEF Group
<1>8. /\ r \in [DOMAIN gs -> Group(GroupNames, S)]
      /\ \A j \in DOMAIN gs : j # k => r[j] = gs[j]
      /\ r[k].name = gs[k].name
      /\ r[k].fd = [tab EXCEPT ![cell] = -1]
  BY <1>3, <1>7
<1>9. r \in Seq(Group(GroupNames, S)) /\ DOMAIN r = DOMAIN gs
  BY <1>3, <1>8
<1>10. OneCellEach(tab) => members(r[k].fd) = members(tab) \ {fd}
  BY <1>4, <1>5, <1>6, <1>8 DEF members, OneCellEach
<1>11. OneCellEach(tab) => OneCellEach(r[k].fd)
  BY <1>4, <1>5, <1>6, <1>8 DEF OneCellEach
<1>12. QED BY <1>3, <1>8, <1>9, <1>10, <1>11 DEF r, k

(* remove_group takes out the channel of that name and no other. *)
LEMMA RemoveGroup ==
  ASSUME NEW S, NEW gs \in Seq(Group(GroupNames, S)), NEW g, group_exist(gs, g)
  PROVE  LET r == remove_group(gs, g)
         IN  /\ r \in Seq(Group(GroupNames, S))
             /\ OneGroupEach(gs) =>
                  /\ OneGroupEach(r)
                  /\ \A j \in DOMAIN r : r[j].name # g /\ \E l \in DOMAIN gs : r[j] = gs[l]
                  /\ \A l \in DOMAIN gs : gs[l].name # g => \E j \in DOMAIN r : r[j] = gs[l]
<1> DEFINE r == remove_group(gs, g)
           k == get_group_by_name(gs, g)
<1>1. k \in 1 .. Len(gs) /\ gs[k].name = g
  BY GroupByName, LenProperties DEF group_exist
<1>2. r = RemoveAt(gs, k)
  BY DEF remove_group
<1> HIDE DEF r, k
<1>3. r \in Seq(Group(GroupNames, S))
  BY <1>1, <1>2, RemoveAtProperties
<1>4. PICK old \in [DOMAIN r -> DOMAIN gs \ {k}] :
        /\ \A j \in DOMAIN r : r[j] = gs[old[j]]
        /\ \A j, m \in DOMAIN r : old[j] = old[m] => j = m
        /\ \A l \in DOMAIN gs \ {k} : \E j \in DOMAIN r : l = old[j]
  <2>1. k \in 1 .. Len(gs)
    BY <1>1
  <2>2. QED BY <1>2, <2>1, RemoveAtElements
<1>5. ASSUME OneGroupEach(gs)
      PROVE  /\ OneGroupEach(r)
             /\ \A j \in DOMAIN r : r[j].name # g /\ \E l \in DOMAIN gs : r[j] = gs[l]
             /\ \A l \in DOMAIN gs : gs[l].name # g => \E j \in DOMAIN r : r[j] = gs[l]
  <2>1. \A l \in DOMAIN gs : l # k <=> gs[l].name # g
    BY <1>1, <1>5, LenProperties DEF OneGroupEach
  <2>2. \A j \in DOMAIN r : old[j] \in DOMAIN gs /\ old[j] # k
    BY <1>4
  <2>3. OneGroupEach(r)
    BY <1>4, <1>5, <2>2 DEF OneGroupEach
  <2>4. \A j \in DOMAIN r : r[j].name # g /\ \E l \in DOMAIN gs : r[j] = gs[l]
    BY <1>4, <2>1, <2>2
  <2>5. \A l \in DOMAIN gs : gs[l].name # g => \E j \in DOMAIN r : r[j] = gs[l]
    BY <1>4, <2>1
  <2>6. QED BY <2>3, <2>4, <2>5
<1>6. QED BY <1>3, <1>5 DEF r
-----------------------------------------------------------------------------
(* What the two lists say about who is where: At, a client's record; Knows,  *)
(* whether it has a nickname; In, a channel's array.                        *)

At(cs, f, g) == \E k \in DOMAIN cs : cs[k].fd = f /\ cs[k].group = g
Knows(cs, f) == \E k \in DOMAIN cs : cs[k].fd = f /\ cs[k].hasNick
In(gs, f, g) == \E k \in DOMAIN gs : gs[k].name = g /\ f \in members(gs[k].fd)

WellFormed(gs) == OneGroupEach(gs) /\ \A k \in DOMAIN gs : OneCellEach(gs[k].fd)

LEMMA AddClientAt ==
  ASSUME NEW S, NEW cs \in Seq(Client(S)), NEW fd \in S, NEW f, NEW g
  PROVE  /\ At(add_client_to_list(cs, fd), f, g) <=>
              At(cs, f, g) \/ (f = fd /\ g = NoGroup)
         /\ Knows(add_client_to_list(cs, fd), f) <=> Knows(cs, f)
<1> DEFINE r == add_client_to_list(cs, fd)
<1>1. /\ DOMAIN r = 1 .. Len(cs) + 1 /\ DOMAIN cs = 1 .. Len(cs) /\ Len(cs) \in Nat
      /\ r[1].fd = fd /\ r[1].group = NoGroup /\ ~r[1].hasNick
      /\ \A j \in 2 .. Len(cs) + 1 : r[j] = cs[j - 1]
  BY AddClient, LenProperties
<1> HIDE DEF r
<1>2. \A j \in DOMAIN r : j = 1 \/ (j - 1 \in DOMAIN cs /\ r[j] = cs[j - 1])
  BY <1>1
<1>3. \A l \in DOMAIN cs : l + 1 \in DOMAIN r /\ r[l + 1] = cs[l]
  BY <1>1
<1>4. At(r, f, g) => At(cs, f, g) \/ (f = fd /\ g = NoGroup)
  BY <1>1, <1>2 DEF At
<1>5. At(cs, f, g) \/ (f = fd /\ g = NoGroup) => At(r, f, g)
  BY <1>1, <1>3 DEF At
<1>6. Knows(cs, f) => Knows(r, f)
  BY <1>3 DEF Knows
<1>7. Knows(r, f) => Knows(cs, f)
  BY <1>1, <1>2 DEF Knows
<1>8. QED BY <1>4, <1>5, <1>6, <1>7 DEF r

LEMMA ChangeGroupAt ==
  ASSUME NEW S, NEW cs \in Seq(Client(S)), OneRecordEach(cs),
         NEW fd, NEW h \in GroupNames \cup {NoGroup}, NEW f, NEW g,
         \E k \in DOMAIN cs : cs[k].fd = fd
  PROVE  /\ At(change_group(cs, h, fd), f, g) <=> IF f = fd THEN g = h ELSE At(cs, f, g)
         /\ Knows(change_group(cs, h, fd), f) <=> Knows(cs, f)
<1> DEFINE r == change_group(cs, h, fd)
           k == get_client_by_fd(cs, fd)
<1>1. /\ DOMAIN r = DOMAIN cs /\ DOMAIN cs = 1 .. Len(cs) /\ Len(cs) \in Nat
      /\ \A j \in DOMAIN cs : /\ r[j].fd = cs[j].fd
                              /\ r[j].hasNick = cs[j].hasNick
                              /\ r[j].group = IF j = k THEN h ELSE cs[j].group
  BY ChangeGroup, LenProperties
<1>2. k \in DOMAIN cs /\ cs[k].fd = fd
  BY <1>1, ClientByFd
<1>3. \A j \in DOMAIN cs : j = k <=> cs[j].fd = fd
  BY <1>2 DEF OneRecordEach
<1> HIDE DEF r, k
<1>4. At(r, f, g) <=> IF f = fd THEN g = h ELSE At(cs, f, g)
  BY <1>1, <1>2, <1>3 DEF At
<1>5. Knows(r, f) <=> Knows(cs, f)
  BY <1>1 DEF Knows
<1>6. QED BY <1>4, <1>5 DEF r

LEMMA SetNickAt ==
  ASSUME NEW S, NEW cs \in Seq(Client(S)), NEW fd, NEW n \in Nicks, NEW f,
         NEW g \in GroupNames
  PROVE  /\ At(set_nick(cs, fd, n), f, g) => At(cs, f, g)
         /\ n \notin EdgeNicks => (At(cs, f, g) => At(set_nick(cs, fd, n), f, g))
         /\ Knows(cs, f) => Knows(set_nick(cs, fd, n), f)
<1> DEFINE r == set_nick(cs, fd, n)
<1>1. /\ DOMAIN r = DOMAIN cs
      /\ \A j \in DOMAIN cs : /\ r[j].fd = cs[j].fd
                              /\ cs[j].hasNick => r[j].hasNick
                              /\ r[j].group \in {cs[j].group, NoGroup}
                              /\ n \notin EdgeNicks => r[j].group = cs[j].group
  BY SetNick, LenProperties
<1> HIDE DEF r
<1>2. At(r, f, g) => At(cs, f, g)
  BY <1>1, NamesAssumption DEF At
<1>3. n \notin EdgeNicks => (At(cs, f, g) => At(r, f, g))
  BY <1>1 DEF At
<1>4. Knows(cs, f) => Knows(r, f)
  BY <1>1 DEF Knows
<1>5. QED BY <1>2, <1>3, <1>4 DEF r

LEMMA SetNickKnows ==
  ASSUME NEW S, NEW cs \in Seq(Client(S)), OneRecordEach(cs), NEW fd, NEW n \in Nicks,
         NEW f, \E k \in DOMAIN cs : cs[k].fd = fd
  PROVE  Knows(set_nick(cs, fd, n), f) <=> f = fd \/ Knows(cs, f)
<1> DEFINE r == set_nick(cs, fd, n)
           k == get_client_by_fd(cs, fd)
<1>1. /\ DOMAIN r = DOMAIN cs /\ DOMAIN cs = 1 .. Len(cs) /\ Len(cs) \in Nat
      /\ \A j \in DOMAIN cs : /\ r[j].fd = cs[j].fd
                              /\ r[j].hasNick <=> cs[j].hasNick \/ j = k
  BY SetNick, LenProperties
<1>2. k \in DOMAIN cs /\ cs[k].fd = fd
  BY <1>1, ClientByFd
<1>3. \A j \in DOMAIN cs : j = k <=> cs[j].fd = fd
  BY <1>2 DEF OneRecordEach
<1> HIDE DEF r, k
<1>4. QED BY <1>1, <1>2, <1>3 DEF Knows, r

LEMMA RemoveClientAt ==
  ASSUME NEW S, NEW cs \in Seq(Client(S)), OneRecordEach(cs), NEW fd, NEW f, NEW g
  PROVE  /\ At(remove_client(cs, fd), f, g) <=> f # fd /\ At(cs, f, g)
         /\ Knows(remove_client(cs, fd), f) <=> f # fd /\ Knows(cs, f)
<1> DEFINE r == remove_client(cs, fd)
<1>1. /\ \A j \in DOMAIN r : r[j].fd # fd /\ \E l \in DOMAIN cs : r[j] = cs[l]
      /\ \A l \in DOMAIN cs : cs[l].fd # fd => \E j \in DOMAIN r : r[j] = cs[l]
  BY RemoveClient
<1> HIDE DEF r
<1>2. At(r, f, g) <=> f # fd /\ At(cs, f, g)
  BY <1>1 DEF At
<1>3. Knows(r, f) <=> f # fd /\ Knows(cs, f)
  BY <1>1 DEF Knows
<1>4. QED BY <1>2, <1>3 DEF r
-----------------------------------------------------------------------------
(* InGroup, which looks up the first channel of that name, means In. *)
LEMMA InGroupMeaning ==
  ASSUME NEW S, -1 \notin S, NEW gs \in Seq(Group(GroupNames, S)), OneGroupEach(gs),
         NEW f \in S, NEW g
  PROVE  InGroup(gs, f, g) <=> In(gs, f, g)
<1> DEFINE k == get_group_by_name(gs, g)
<1>1. DOMAIN gs = 1 .. Len(gs) /\ Len(gs) \in Nat
  BY LenProperties
<1>2. /\ k \in 0 .. Len(gs)
      /\ k = 0 => \A j \in DOMAIN gs : gs[j].name # g
      /\ k # 0 => gs[k].name = g
  BY <1>1, GroupByName
<1>3. f # -1
  OBVIOUS
<1> HIDE DEF k
<1>4. \A tab : fd_in_tab(tab, f) # -1 <=> f \in members(tab)
  <2> TAKE tab
  <2>1. fd_in_tab(tab, f) # -1 => f \in members(tab)
    BY <1>3, FdInTab DEF members
  <2>2. fd_in_tab(tab, f) = -1 => f \notin members(tab)
    BY FdInTab DEF members
  <2>3. QED BY <2>1, <2>2
<1>5. InGroup(gs, f, g) <=> k # 0 /\ f \in members(gs[k].fd)
  BY <1>4 DEF InGroup, group_exist, k
<1>6. In(gs, f, g) <=> k # 0 /\ f \in members(gs[k].fd)
  BY <1>1, <1>2 DEF In, OneGroupEach
<1>7. QED BY <1>5, <1>6

LEMMA CreateGroupIn ==
  ASSUME NEW S, NEW gs \in Seq(Group(GroupNames, S)), WellFormed(gs), NEW g \in GroupNames
  PROVE  /\ WellFormed(create_group(gs, g))
         /\ \A f, h : In(create_group(gs, g), f, h) <=> In(gs, f, h)
<1> DEFINE r == create_group(gs, g)
<1>1. CASE group_exist(gs, g)
  BY <1>1, CreateGroup
<1>2. CASE ~group_exist(gs, g)
  <2>1. /\ DOMAIN r = 1 .. Len(gs) + 1 /\ DOMAIN gs = 1 .. Len(gs) /\ Len(gs) \in Nat
        /\ r[1].name = g /\ members(r[1].fd) = {} /\ OneCellEach(r[1].fd)
        /\ \A j \in 2 .. Len(gs) + 1 : r[j] = gs[j - 1]
    <3>1. r \in Seq(Group(GroupNames, S))
      BY CreateGroup
    <3>2. Len(r) = Len(gs) + 1
      BY <1>2, CreateGroup
    <3>3. r[1].name = g /\ members(r[1].fd) = {} /\ OneCellEach(r[1].fd)
      BY <1>2, CreateGroup, ZenonT(30)
    <3>4. \A j \in 2 .. Len(gs) + 1 : r[j] = gs[j - 1]
      BY <1>2, CreateGroup, ZenonT(30)
    <3>5. QED BY <3>1, <3>2, <3>3, <3>4, LenProperties
  <2>2. \A j \in DOMAIN gs : gs[j].name # g
    BY <1>2, <2>1, GroupByName DEF group_exist
  <2> HIDE DEF r
  <2>3. \A j \in DOMAIN r : j = 1 \/ (j - 1 \in DOMAIN gs /\ r[j] = gs[j - 1])
    BY <2>1
  <2>4. \A l \in DOMAIN gs : l + 1 \in DOMAIN r /\ r[l + 1] = gs[l]
    BY <2>1
  <2>5. OneGroupEach(r)
    <3> SUFFICES ASSUME NEW j \in DOMAIN r, NEW m \in DOMAIN r, r[j].name = r[m].name
                 PROVE  j = m
      BY DEF OneGroupEach
    <3>1. CASE j = 1 \/ m = 1
      BY <2>1, <2>2, <2>3, <3>1
    <3>2. CASE j # 1 /\ m # 1
      <4>1. j - 1 = m - 1
        BY <2>3, <3>2 DEF WellFormed, OneGroupEach
      <4>2. QED BY <2>1, <4>1
    <3>3. QED BY <3>1, <3>2
  <2>6. \A j \in DOMAIN r : OneCellEach(r[j].fd)
    BY <2>1, <2>3 DEF WellFormed
  <2>7. \A f, h : In(r, f, h) <=> In(gs, f, h)
    <3> TAKE f, h
    <3>1. In(r, f, h) => In(gs, f, h)
      BY <2>1, <2>3 DEF In
    <3>2. In(gs, f, h) => In(r, f, h)
      BY <2>4 DEF In
    <3>3. QED BY <3>1, <3>2
  <2>8. QED BY <2>5, <2>6, <2>7 DEF WellFormed, r
<1>3. QED BY <1>1, <1>2

LEMMA AddMemberIn ==
  ASSUME NEW S, -1 \notin S, NEW gs \in Seq(Group(GroupNames, S)), WellFormed(gs),
         NEW fd \in S, NEW g
  PROVE  /\ WellFormed(add_client_in_group(gs, fd, g))
         /\ \A f, h : In(add_client_in_group(gs, fd, g), f, h) <=>
              In(gs, f, h) \/ (JoinResult(gs, fd, g) = 0 /\ f = fd /\ h = g)
         /\ JoinResult(gs, fd, g) = -3 => In(gs, fd, g)
<1> DEFINE r == add_client_in_group(gs, fd, g)
           k == get_group_by_name(gs, g)
<1>1. JoinResult(gs, fd, g) = -3 => In(gs, fd, g)
  <2>1. JoinResult(gs, fd, g) = -3 => InGroup(gs, fd, g)
    BY DEF JoinResult, InGroup
  <2>2. QED BY <2>1, InGroupMeaning DEF WellFormed
<1>2. CASE JoinResult(gs, fd, g) # 0
  <2>1. r = gs
    BY <1>2, AddMember
  <2>2. QED BY <1>1, <1>2, <2>1
<1>3. CASE JoinResult(gs, fd, g) = 0
  <2>1. /\ k \in DOMAIN gs /\ DOMAIN r = DOMAIN gs
        /\ \A j \in DOMAIN gs : j # k => r[j] = gs[j]
        /\ r[k].name = gs[k].name
        /\ members(r[k].fd) = members(gs[k].fd) \cup {fd}
        /\ OneCellEach(r[k].fd)
    BY <1>3, AddMember DEF WellFormed
  <2>2. gs[k].name = g
    BY <1>3, GroupByName DEF JoinResult, group_exist
  <2> HIDE DEF r, k
  <2>3. WellFormed(r)
    BY <2>1 DEF WellFormed, OneGroupEach
  <2>4. \A f, h : In(r, f, h) <=> In(gs, f, h) \/ (f = fd /\ h = g)
    BY <2>1, <2>2 DEF In
  <2>5. QED BY <1>1, <1>3, <2>3, <2>4 DEF r
<1>4. QED BY <1>2, <1>3
-----------------------------------------------------------------------------
(* The names of the channels that exist. *)

NamesOf(gs) == {gs[k].name : k \in DOMAIN gs}

LEMMA CreateGroupNames ==
  ASSUME NEW S, NEW gs \in Seq(Group(GroupNames, S)), NEW g \in GroupNames
  PROVE  NamesOf(create_group(gs, g)) = NamesOf(gs) \cup {g}
<1> DEFINE r == create_group(gs, g)
<1>1. DOMAIN gs = 1 .. Len(gs) /\ Len(gs) \in Nat
  BY LenProperties
<1>2. CASE group_exist(gs, g)
  <2>1. r = gs /\ g \in NamesOf(gs)
    BY <1>1, <1>2, CreateGroup, GroupByName DEF group_exist, NamesOf
  <2>2. QED BY <2>1
<1>3. CASE ~group_exist(gs, g)
  <2>1. r \in Seq(Group(GroupNames, S))
    BY CreateGroup
  <2>2. /\ Len(r) = Len(gs) + 1 /\ r[1].name = g
        /\ \A j \in 2 .. Len(gs) + 1 : r[j] = gs[j - 1]
    BY <1>3, CreateGroup
  <2>3. DOMAIN r = 1 .. Len(gs) + 1
    BY <2>1, <2>2, LenProperties
  <2> HIDE DEF r
  <2>4. \A j \in DOMAIN r : j = 1 \/ (j - 1 \in DOMAIN gs /\ r[j] = gs[j - 1])
    BY <1>1, <2>2, <2>3
  <2>5. \A l \in DOMAIN gs : l + 1 \in DOMAIN r /\ r[l + 1] = gs[l]
    BY <1>1, <2>2, <2>3
  <2>6. NamesOf(r) \subseteq NamesOf(gs) \cup {g}
    BY <2>2, <2>4 DEF NamesOf
  <2>7. NamesOf(gs) \subseteq NamesOf(r)
    BY <2>5 DEF NamesOf
  <2>8. g \in NamesOf(r)
    BY <1>1, <2>2, <2>3 DEF NamesOf
  <2>9. QED BY <2>6, <2>7, <2>8 DEF r
<1>4. QED BY <1>2, <1>3

LEMMA AddMemberNames ==
  ASSUME NEW S, -1 \notin S, NEW gs \in Seq(Group(GroupNames, S)),
         NEW fd \in S, NEW g
  PROVE  NamesOf(add_client_in_group(gs, fd, g)) = NamesOf(gs)
<1> DEFINE r == add_client_in_group(gs, fd, g)
           k == get_group_by_name(gs, g)
<1>1. CASE JoinResult(gs, fd, g) # 0
  BY <1>1, AddMember
<1>2. CASE JoinResult(gs, fd, g) = 0
  <2>1. /\ k \in DOMAIN gs /\ DOMAIN r = DOMAIN gs
        /\ \A j \in DOMAIN gs : j # k => r[j] = gs[j]
        /\ r[k].name = gs[k].name
    BY <1>2, AddMember
  <2> HIDE DEF r, k
  <2>2. \A j \in DOMAIN gs : r[j].name = gs[j].name
    BY <2>1
  <2>3. QED BY <2>1, <2>2 DEF NamesOf, r
<1>3. QED BY <1>1, <1>2

LEMMA DropMemberNames ==
  ASSUME NEW S, -1 \notin S, NEW gs \in Seq(Group(GroupNames, S)),
         NEW fd \in S, NEW g, InGroup(gs, fd, g)
  PROVE  NamesOf(remove_client_in_group(gs, fd, g)) = NamesOf(gs)
<1> DEFINE r == remove_client_in_group(gs, fd, g)
           k == get_group_by_name(gs, g)
<1>1. /\ k \in DOMAIN gs /\ DOMAIN r = DOMAIN gs
      /\ \A j \in DOMAIN gs : j # k => r[j] = gs[j]
      /\ r[k].name = gs[k].name
  BY DropMember
<1> HIDE DEF r, k
<1>2. \A j \in DOMAIN gs : r[j].name = gs[j].name
  BY <1>1
<1>3. QED BY <1>1, <1>2 DEF NamesOf, r

LEMMA RemoveGroupNames ==
  ASSUME NEW S, NEW gs \in Seq(Group(GroupNames, S)), NEW g, group_exist(gs, g),
         OneGroupEach(gs)
  PROVE  NamesOf(remove_group(gs, g)) = NamesOf(gs) \ {g}
<1> DEFINE r == remove_group(gs, g)
<1>1. /\ \A j \in DOMAIN r : r[j].name # g /\ \E l \in DOMAIN gs : r[j] = gs[l]
      /\ \A l \in DOMAIN gs : gs[l].name # g => \E j \in DOMAIN r : r[j] = gs[l]
  BY RemoveGroup
<1> HIDE DEF r
<1>2. QED BY <1>1 DEF NamesOf, r
=============================================================================
