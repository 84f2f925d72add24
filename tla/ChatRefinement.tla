--------------------------- MODULE ChatRefinement ---------------------------
(***************************************************************************)
(* Module Server implements module Chat.  A user is a descriptor; it is     *)
(* online when the kernel holds a connection for it, named when its record  *)
(* says so, and in the channel whose array holds it.  So the mapping reads  *)
(* one of the server's three tables for each variable, and a step maps to a *)
(* step of Chat only if the handler keeps the three in agreement.           *)
(***************************************************************************)
EXTENDS Server

Connected == {f \in Fds : peer[f] # "closed"}

Logged == {clients[k].fd : k \in {x \in DOMAIN clients : clients[x].hasNick}}

Holding(f) == {g \in GroupNames : \E k \in DOMAIN groups :
                 groups[k].name = g /\ f \in members(groups[k].fd)}

RoomOf(f) == IF Holding(f) = {} THEN NoGroup ELSE CHOOSE g \in Holding(f) : TRUE

C == INSTANCE Chat WITH
       Users <- Fds, Channels <- GroupNames, None <- NoGroup,
       online <- Connected, named <- Logged,
       room <- [f \in Fds |-> RoomOf(f)],
       open <- {groups[k].name : k \in DOMAIN groups}

(* Every handler of server.c is, to the users, one step of Chat or none:     *)
(* connecting, choosing a nickname, /create, /join, /quit <channel>, leaving. *)
(* A connection refused, a line relayed and a question answered change        *)
(* nothing, and so does the end of the process.                             *)
ImplementsChat == C!Spec
=============================================================================
