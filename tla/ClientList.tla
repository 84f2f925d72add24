----------------------------- MODULE ClientList -----------------------------
(***************************************************************************)
(* The server's linked list of clients (src/RE216/list.c), as a sequence   *)
(* whose head is the client added last.  The module holds the list's       *)
(* operations; the list itself is a variable of module Server.             *)
(*                                                                         *)
(* Names are abstract.  What list.c tells apart about a nickname is whether *)
(* it begins with "Guest", contains a blank, is longer than MAX_NICK_SIZE,  *)
(* or is exactly MAX_NICK_SIZE characters long: four subsets of Nicks.      *)
(***************************************************************************)
EXTENDS Integers, Sequences, SequencesExt

CONSTANTS
  Nicks,       (* arguments a /nick line can carry                         *)
  Guest,       (* the nickname a client has before it chooses one          *)
  GuestNicks,  (* those that begin with "Guest"                            *)
  BlankNicks,  (* those that contain a blank                               *)
  LongNicks,   (* those with strlen > MAX_NICK_SIZE                        *)
  EdgeNicks,   (* those with strlen = MAX_NICK_SIZE                        *)
  GroupNames,  (* names of channels that /create and /join lines can carry *)
  NoGroup      (* the empty string in a client's group field               *)

ASSUME NamesAssumption ==
  /\ GuestNicks \cup BlankNicks \cup LongNicks \cup EdgeNicks \subseteq Nicks
  /\ Guest \in GuestNicks
  /\ LongNicks \cap EdgeNicks = {}
  /\ NoGroup \notin GroupNames

Client(FdSet) == [fd: FdSet, nickname: Nicks, hasNick: BOOLEAN,
                  group: GroupNames \cup {NoGroup}]

(* What a reader of the char array `nickname` sees.  A name of MAX_NICK_SIZE *)
(* characters fills the array, and its terminator is the first byte of the  *)
(* next field, `group`: once a channel name is there, the two names read as *)
(* one string.                                                              *)
Nickname(c) == IF c.nickname \in EdgeNicks /\ c.group # NoGroup
               THEN <<c.nickname, c.group>>
               ELSE c.nickname
-----------------------------------------------------------------------------
(* Positions in the list; 0 stands for the result -1, "not in the list".   *)
get_client_by_fd(cs, fd) == SelectInSeq(cs, LAMBDA c : c.fd = fd)

get_client_by_nick(cs, name) ==
  SelectInSeq(cs, LAMBDA c : c.hasNick /\ Nickname(c) = name)

(* The descriptors get_fd_client copies into an array. *)
get_fd_client(cs) == {cs[k].fd : k \in DOMAIN cs}

add_client_to_list(cs, fd) ==
  <<[fd |-> fd, nickname |-> Guest, hasNick |-> FALSE, group |-> NoGroup]>> \o cs

(* Mutant of remove_client: the test after the loop, for the last record of   *)
(* the list, is missing.                                                    *)
remove_client_not_last(cs, fd) ==
  LET k == get_client_by_fd(cs, fd)
  IN  IF k = 0 \/ (k > 1 /\ k = Len(cs)) THEN cs ELSE RemoveAt(cs, k)

remove_client(cs, fd) ==
  LET k == get_client_by_fd(cs, fd) IN IF k = 0 THEN cs ELSE RemoveAt(cs, k)

change_group(cs, name, fd) ==
  [cs EXCEPT ![get_client_by_fd(cs, fd)].group = name]

(* Mutant of NickRefused: a name in use is not refused. *)
NickRefusedGuest(cs, n) == n \in GuestNicks

(* set_nick refuses a name that begins with "Guest" and one already taken   *)
(* before it touches the client (results 2 and 1).                          *)
NickRefused(cs, n) == n \in GuestNicks \/ get_client_by_nick(cs, n) # 0

(* Past those tests it marks the client as named first and only then looks  *)
(* for a blank (result 3): the mark stays.  The copy of a name of exactly   *)
(* MAX_NICK_SIZE characters puts its terminator into the group field.       *)
Renamed(c, n) ==
  IF n \in BlankNicks
  THEN [c EXCEPT !.hasNick = TRUE]
  ELSE [c EXCEPT !.hasNick = TRUE, !.nickname = n,
                 !.group = IF n \in EdgeNicks THEN NoGroup ELSE @]

set_nick(cs, fd, n) == [cs EXCEPT ![get_client_by_fd(cs, fd)] = Renamed(@, n)]
=============================================================================
