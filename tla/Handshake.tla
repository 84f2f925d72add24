----------------------------- MODULE Handshake -----------------------------
(***************************************************************************)
(* What a file transfer between two clients promises, whatever happens to    *)
(* the messages that set it up: a port goes through the phases of a transfer *)
(* one by one, with one caller, and may stop anywhere.                       *)
(***************************************************************************)
CONSTANTS
  Host,       (* the clients                                               *)
  Port,       (* the ports they may open                                   *)
  Nobody

VARIABLES phase, caller

vars == <<phase, caller>>

Init ==
  /\ phase  = [p \in Port |-> "closed"]
  /\ caller = [p \in Port |-> Nobody]

(* The second conjunct follows from the third; TLC is faster with it.        *)
Moves(p, from, to) ==
  phase[p] = from /\ phase'[p] = to /\ phase' = [phase EXCEPT ![p] = to]

Listen(p) == Moves(p, "closed", "listening") /\ UNCHANGED caller

Call(p, c) ==
  /\ Moves(p, "listening", "called")
  /\ caller' = [caller EXCEPT ![p] = c]

Greet(p) == Moves(p, "called", "greeted") /\ UNCHANGED caller
Fill(p)  == Moves(p, "greeted", "filled") /\ UNCHANGED caller
Save(p)  == Moves(p, "filled", "saved") /\ UNCHANGED caller

Next ==
  \E p \in Port :
    Listen(p) \/ Greet(p) \/ Fill(p) \/ Save(p) \/ \E c \in Host : Call(p, c)

Spec == Init /\ [][Next]_vars
=============================================================================
