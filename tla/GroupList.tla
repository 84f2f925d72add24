----------------------------- MODULE GroupList ------------------------------
(***************************************************************************)
(* The server's linked list of channels (src/RE216/group.c), as a sequence *)
(* whose head is the channel created last.  A channel is its name and an    *)
(* array of MAX_CL descriptors in which -1 marks a free cell.  The list     *)
(* itself is a variable of module Server.                                   *)
(***************************************************************************)
EXTENDS Integers, FiniteSets, Sequences, SequencesExt

CONSTANT MAX_CL   (* clients the server and each channel have room for *)

ASSUME MaxClAssumption == MAX_CL \in Nat \ {0}

Cells == 0 .. MAX_CL - 1

Group(NameSet, FdSet) == [name: NameSet, fd: [Cells -> FdSet \cup {-1}]]
-----------------------------------------------------------------------------
(* The array of a channel. *)

members(tab) == {tab[j] : j \in Cells} \ {-1}

nb_client_in_group(tab) == Cardinality({j \in Cells : tab[j] # -1})

(* Mutant of group_is_empty: the loop returns after the first cell. *)
group_is_empty_first(tab) == tab[0] = -1

group_is_empty(tab) == \A j \in Cells : tab[j] = -1

(* Mutant of fd_in_tab: the loop stops one cell early. *)
fd_in_tab_short(tab, v) ==
  LET hits == {j \in Cells : j < MAX_CL - 1 /\ tab[j] = v}
  IN  IF hits # {} THEN Min(hits) ELSE -1

(* First cell that holds v, or -1: fd_in_tab, and get_available_fd_index2   *)
(* when v is -1.                                                            *)
fd_in_tab(tab, v) ==
  IF \E j \in Cells : tab[j] = v THEN Min({j \in Cells : tab[j] = v}) ELSE -1

get_available_fd_index2(tab) == fd_in_tab(tab, -1)
-----------------------------------------------------------------------------
(* The list of channels; position 0 stands for "no channel of this name".   *)
get_group_by_name(gs, name) == SelectInSeq(gs, LAMBDA g : g.name = name)

group_exist(gs, name) == get_group_by_name(gs, name) # 0

(* Mutant of create_group: the cells keep the 0 of memset. *)
create_group_unset(gs, name) ==
  IF group_exist(gs, name)
  THEN gs
  ELSE <<[name |-> name, fd |-> [j \in Cells |-> 0]]>> \o gs

(* create_group: nothing changes when the name is taken (result 1). *)
create_group(gs, name) ==
  IF group_exist(gs, name)
  THEN gs
  ELSE <<[name |-> name, fd |-> [j \in Cells |-> -1]]>> \o gs

(* Results of add_client_in_group: no such channel, already inside, no free *)
(* cell, added.                                                             *)
JoinResult(gs, fd, name) ==
  IF ~group_exist(gs, name) THEN -1
  ELSE LET tab == gs[get_group_by_name(gs, name)].fd
       IN  IF fd_in_tab(tab, fd) # -1 THEN -3
           ELSE IF get_available_fd_index2(tab) = -1 THEN -2 ELSE 0

add_client_in_group(gs, fd, name) ==
  LET k == get_group_by_name(gs, name)
  IN  IF JoinResult(gs, fd, name) = 0
      THEN [gs EXCEPT ![k].fd[get_available_fd_index2(gs[k].fd)] = fd]
      ELSE gs

(* Whether remove_client_in_group finds the channel and, in it, the client: *)
(* otherwise it returns -1 or -2 and changes nothing.                       *)
InGroup(gs, fd, name) ==
  /\ group_exist(gs, name)
  /\ fd_in_tab(gs[get_group_by_name(gs, name)].fd, fd) # -1

remove_client_in_group(gs, fd, name) ==
  LET k == get_group_by_name(gs, name)
  IN  [gs EXCEPT ![k].fd[fd_in_tab(gs[k].fd, fd)] = -1]

remove_group(gs, name) == RemoveAt(gs, get_group_by_name(gs, name))

(* Mutant of write_in_group: the speaker is not left out. *)
write_in_group_all(gs, name, fd) ==
  members(gs[get_group_by_name(gs, name)].fd)

(* The descriptors write_in_group writes to: everyone in the channel but    *)
(* the speaker.                                                             *)
write_in_group(gs, name, fd) ==
  members(gs[get_group_by_name(gs, name)].fd) \ {fd}
=============================================================================
