-------------------------------- MODULE Chat --------------------------------
(***************************************************************************)
(* What the server promises to its users, without sockets, lists, arrays or *)
(* descriptors: who is there, who may speak, which channels exist, and who  *)
(* is in which.                                                             *)
(***************************************************************************)
CONSTANTS Users, Channels, None

VARIABLES
  online,   (* the users connected                                         *)
  named,    (* those that may speak and use channels                       *)
  room,     (* user -> the channel it is in, or None                       *)
  open      (* the channels that exist                                     *)

vars == <<online, named, room, open>>

Init ==
  /\ online = {}
  /\ named = {}
  /\ room = [u \in Users |-> None]
  /\ open = {}

Arrive(u) ==
  /\ u \notin online
  /\ online' = online \cup {u}
  /\ UNCHANGED <<named, room, open>>

Login(u) ==
  /\ u \in online
  /\ named' = named \cup {u}
  /\ UNCHANGED <<online, room, open>>

Open(u, c) ==
  /\ u \in named
  /\ open' = open \cup {c}
  /\ UNCHANGED <<online, named, room>>

Enter(u, c) ==
  /\ u \in named
  /\ room[u] = None
  /\ c \in open
  /\ room' = [room EXCEPT ![u] = c]
  /\ UNCHANGED <<online, named, open>>

(* A channel goes with its last member. *)
Vacate(u) ==
  /\ room' = [room EXCEPT ![u] = None]
  /\ open' = IF \E v \in Users \ {u} : room[v] = room[u]
             THEN open ELSE open \ {room[u]}

Exit(u) ==
  /\ room[u] # None
  /\ Vacate(u)
  /\ UNCHANGED <<online, named>>

Depart(u) ==
  /\ u \in online
  /\ online' = online \ {u}
  /\ named' = named \ {u}
  /\ IF room[u] = None THEN UNCHANGED <<room, open>> ELSE Vacate(u)

Next ==
  \E u \in Users :
    \/ Arrive(u) \/ Login(u) \/ Exit(u) \/ Depart(u)
    \/ \E c \in Channels : Open(u, c) \/ Enter(u, c)

Spec == Init /\ [][Next]_vars
=============================================================================
