------------------------------- MODULE MCFile -------------------------------
(* Instances of module FileStream for TLC. *)
EXTENDS FileProperties

PathsUsed   == {<<"a">>, <<"d", "/", "a">>}
EntriesUsed == {<<"a", "\n">>, <<"b", " ", "\n">>, <<"/", "\n">>}
=============================================================================
