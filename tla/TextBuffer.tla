----------------------------- MODULE TextBuffer -----------------------------
(***************************************************************************)
(* The helpers that cut a line into arguments (separate, get_arg_in_command *)
(* and get_next_arg of src/RE216/common.c, format_nick of list.c).  They     *)
(* edit a buffer of BUFFER_SIZE characters in place, and what they leave     *)
(* behind the terminator they write is still there for the next call.       *)
(***************************************************************************)
EXTENDS Integers, Sequences, FiniteSets, FiniteSetsExt

CONSTANTS
  BUFFER_SIZE,
  Blank, Newline, Nul,  (* ' ', '\n' and '\0'                              *)
  Letters,              (* the other characters                            *)
  Unknown               (* whatever was in memory                          *)

ASSUME TextAssumption ==
  /\ BUFFER_SIZE \in Nat \ {0}
  /\ Cardinality({Blank, Newline, Nul, Unknown}) = 4
  /\ {Blank, Newline, Nul, Unknown} \cap Letters = {}

Positions == 1 .. BUFFER_SIZE

(* First position from k on that holds a character of C; BUFFER_SIZE + 1      *)
(* when the search runs out of the buffer.                                  *)
Next_in(b, k, C) ==
  Min({j \in Positions : j >= k /\ b[j] \in C} \cup {BUFFER_SIZE + 1})

(* readline: memset, then the characters of line. *)
Holding(line) ==
  [k \in Positions |-> IF k <= Len(line) THEN line[k] ELSE Nul]

(* The string a buffer holds. *)
String(b) == SubSeq(b, 1, Next_in(b, 1, {Nul}) - 1)
-----------------------------------------------------------------------------
(* separate looks for a blank: its test for the end of the text asks for a    *)
(* character that is both '\n' and '\0', so without a blank it goes on past  *)
(* the buffer.                                                              *)
Finds_blank(b) == Next_in(b, 1, {Blank}) <= BUFFER_SIZE

(* Mutants of separate: only the next word is moved; the blank is kept.      *)
separate_one_word(b) ==
  LET i == Next_in(b, 1, {Blank})
      n == Next_in(b, i + 1, {Blank, Newline, Nul}) - i - 1
  IN  [k \in Positions |-> IF k <= n THEN b[i + k] ELSE Nul]

separate_at_blank(b) ==
  LET i == Next_in(b, 1, {Blank}) - 1
      n == Next_in(b, i + 1, {Newline, Nul}) - i - 1
  IN  IF ~Finds_blank(b) THEN [k \in Positions |-> Unknown]
      ELSE [k \in Positions |-> IF k <= n THEN b[i + k]
                                ELSE IF k = n + 1 THEN Nul ELSE b[k]]

(* What follows the first blank, up to '\n' or '\0', is moved to the front    *)
(* and terminated; the rest of the buffer stays as it was.  Without a blank   *)
(* the characters moved come from elsewhere in memory.                      *)
separate(b) ==
  LET i == Next_in(b, 1, {Blank})
      n == Next_in(b, i + 1, {Newline, Nul}) - i - 1
  IN  IF ~Finds_blank(b) THEN [k \in Positions |-> Unknown]
      ELSE [k \in Positions |-> IF k <= n THEN b[i + k]
                                ELSE IF k = n + 1 THEN Nul ELSE b[k]]

get_arg_in_command(b) == SubSeq(b, 1, Next_in(b, 1, {Blank, Newline, Nul}) - 1)

(* Mutant of format_nick: it cuts at the first blank as well. *)
format_nick_word(b) ==
  [b EXCEPT ![Min({Next_in(b, 1, {Blank, Newline}), BUFFER_SIZE})] = Nul]

(* The first '\n', or the last character of the buffer, becomes '\0'.        *)
format_nick(b) ==
  [b EXCEPT ![Min({Next_in(b, 1, {Newline}), BUFFER_SIZE})] = Nul]
-----------------------------------------------------------------------------
(* get_next_arg called n times: the arguments it returns and the buffer it    *)
(* leaves.                                                                  *)
Rest(b, n) ==
  LET rest[k \in 0 .. n] == IF k = 0 THEN b ELSE separate(rest[k - 1])
  IN  rest[n]

Arg(b, n) == get_arg_in_command(Rest(b, n - 1))
=============================================================================
