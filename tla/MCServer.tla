------------------------------ MODULE MCServer ------------------------------
(* Instances of module Server for TLC. *)
EXTENDS ServerProperties, ChatRefinement

(* Channel names, and nicknames without a special form, are interchangeable.  *)
PlainNicks == Nicks \ (GuestNicks \cup BlankNicks \cup LongNicks \cup EdgeNicks)
Symmetry   == Permutations(GroupNames) \cup Permutations(PlainNicks)
=============================================================================
