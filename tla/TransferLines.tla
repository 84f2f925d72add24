--------------------------- MODULE TransferLines ---------------------------
(***************************************************************************)
(* The lines two clients and the server exchange to set up a file transfer, *)
(* each built from arguments that get_next_arg took out of the one before:   *)
(*                                                                         *)
(*   sender    "/send <receiver> <file>\n <size>"                            *)
(*   server    "/ftreq <sender> <file> <size>"                               *)
(*   receiver  "/ftreqP <sender>" or "/ftreqN <sender>",                     *)
(*             "/conn_info <sender> <port> <file>\n"                         *)
(*   server    "/info_conn <receiver> <port> <file> <address>"               *)
(*                                                                         *)
(* Each word is made of one letter of its own: what the properties ask is    *)
(* which word, and all of it, stands where.  The handlers of the other       *)
(* commands read their arguments the same way, from whatever a user types.   *)
(***************************************************************************)
EXTENDS TextBuffer, SequencesExt

CONSTANTS
  MaxNick,   (* bound on the length of a nickname                          *)
  MaxName,   (* bound on the length of a file's name                       *)
  MaxDigits, (* bound on the number of digits of a file's size             *)
  PortLength, AddressLength,   (* characters of a port and of an address   *)
  MaxLine,   (* bound on the length of a line for another command          *)
  Typed      (* the letters such a line is made of                         *)

ASSUME LinesAssumption ==
  /\ {MaxNick, MaxName, MaxDigits, PortLength, AddressLength, MaxLine} \subseteq Nat
  /\ PortLength > 0 /\ AddressLength > 0
  /\ Typed \cup {"c", "s", "r", "f", "d", "p", "i", "0"} \subseteq Letters
  (* Every line leaves room for a terminator: readline adds none to a line    *)
  (* that fills the buffer.                                                 *)
  /\ MaxLine < BUFFER_SIZE
  /\ 2 * MaxNick + 2 * MaxName + MaxDigits + PortLength + AddressLength + 14
       < BUFFER_SIZE

VARIABLES
  length,   (* lengths of the sender's and receiver's nicknames, of the    *)
            (* file's name and of its size in digits                       *)
  stage,    (* the handler that has the next line to read                  *)
  line,     (* the line on its way to it                                   *)
  shown,    (* what the receiver is asked: sender, file and size           *)
  told,     (* the sender has been told the answer                         *)
  called    (* what the sender connects with: receiver, port, file, address *)

vars == <<length, stage, line, shown, told, called>>

Word(letter, n) == [k \in 1 .. n |-> letter]

Sender   == Word("s", length.sender)
Receiver == Word("r", length.receiver)
File     == Word("f", length.file)
Size     == Word("d", length.size)
Port     == Word("p", PortLength)
Address  == Word("i", AddressLength)

(* Words separated by blanks. *)
Line(words) ==
  FoldLeft(LAMBDA text, w : text \o <<Blank>> \o w, Head(words), Tail(words))

(* A command, and whatever follows it. *)
TypedLines ==
  {text \in UNION {[1 .. n -> Typed \cup {Blank, Newline}] : n \in 1 .. MaxLine} :
     text[1] = "c"}

Init ==
  /\ length \in [sender : 1 .. MaxNick, receiver : 1 .. MaxNick,
                 file : 1 .. MaxName, size : 1 .. MaxDigits]
  /\ \/ /\ stage = "keyboard"
        /\ line = Line(<<Word("c", 5), Receiver, File>>) \o <<Newline>>
     \/ /\ stage = "other"
        /\ line \in TypedLines
        /\ \A word \in DOMAIN length : length[word] = 1
  /\ shown = <<>>
  /\ told = FALSE
  /\ called = <<>>

Reads(handler, next) == stage = handler /\ stage' = next

(* The words after the command. *)
Args(b, n) == [k \in 1 .. n |-> Arg(b, k + 1)]

(* The mutant reads the file's name one argument early. *)
file_size_second(b) == IF Arg(b, 2) = File THEN Size ELSE <<"0">>

(* size_of_file of the third argument; a file that did not exist is created    *)
(* empty.                                                                    *)
file_size(b) == IF Arg(b, 3) = File THEN Size ELSE <<"0">>

(* The user's line is sent as it was read, newline included, and the size    *)
(* after it.                                                                 *)
handle_client_message ==
  /\ Reads("keyboard", "SEND")
  /\ line' = Line(<<line, file_size(Holding(line))>>)
  /\ UNCHANGED <<length, shown, told, called>>

SEND ==
  /\ Reads("SEND", "FTREQ")
  /\ LET b == separate(Holding(line))
     IN  IF Arg(b, 1) = Receiver
         THEN line' = Line(<<Word("c", 6), Sender, Arg(b, 2), Arg(b, 3)>>)
         ELSE line' = <<>>
  /\ UNCHANGED <<length, shown, told, called>>

(* The receiver is asked. *)
FTREQ ==
  /\ Reads("FTREQ", "prompt")
  /\ shown' = Args(Holding(line), 3)
  /\ UNCHANGED <<length, line, told, called>>

prompt_user_for_file_transfer ==
  /\ \E yes \in BOOLEAN :
       Reads("prompt", IF yes THEN "FTREQP" ELSE "FTREQN")
  /\ line' = Line(<<Word("c", 7), shown[1]>>)
  /\ UNCHANGED <<length, shown, told, called>>

(* Mutant of Answers: the shortest answer is longer. *)
Answers_longer(text) == Len(text) > 10

(* get_command takes a line for FTREQP or FTREQN when it is long enough. *)
Answers(text) == Len(text) > 9

answer(case, next) ==
  /\ Reads(case, next)
  /\ told' = (Answers(line) /\ Arg(separate(Holding(line)), 1) = Sender)
  /\ UNCHANGED <<length, line, shown, called>>

FTREQN == answer("FTREQN", "end")
FTREQP == answer("FTREQP", "listen")

set_up_peer_2_peer_file_transfer ==
  /\ Reads("listen", "CONN_INFO")
  /\ line' = Line(<<Word("c", 10), shown[1], Port, shown[2]>>) \o <<Newline>>
  /\ UNCHANGED <<length, shown, told, called>>

CONN_INFO ==
  /\ Reads("CONN_INFO", "INFO_CONN")
  /\ LET b == separate(Holding(line))
     IN  IF Arg(b, 1) = Sender
         THEN line' = Line(<<Word("c", 10), Receiver, String(separate(b)), Address>>)
         ELSE line' = <<>>
  /\ UNCHANGED <<length, shown, told, called>>

connect_to_peer_2_peer ==
  /\ Reads("INFO_CONN", "end")
  /\ line # <<>>
  /\ called' = Args(Holding(line), 4)
  /\ UNCHANGED <<length, line, shown, told>>

Next ==
  \/ handle_client_message \/ SEND \/ FTREQ \/ prompt_user_for_file_transfer
  \/ FTREQN \/ FTREQP \/ set_up_peer_2_peer_file_transfer \/ CONN_INFO
  \/ connect_to_peer_2_peer

Spec == Init /\ [][Next]_vars
-----------------------------------------------------------------------------
(* The fields of a line, defined without a buffer: what stands before, between *)
(* and after the blanks that precede the first newline.                     *)
End       == Min({k \in DOMAIN line : line[k] = Newline} \cup {Len(line) + 1})
Blanks    == {k \in 1 .. End - 1 : line[k] = Blank}
NumFields == Cardinality(Blanks) + 1

(* Where field n ends: its blank, or the end of the line. *)
Cut(n) == IF n = 0 THEN 0
          ELSE CHOOSE k \in Blanks \cup {End} :
                 Cardinality({j \in Blanks : j < k}) = n - 1

Field(n) == SubSeq(line, Cut(n - 1) + 1, Cut(n) - 1)

(* The n-th call of get_next_arg returns the n-th field of the line, as long   *)
(* as the line has that many, whatever the earlier calls have left behind in  *)
(* the buffer.                                                               *)
ArgsAreFields ==
  \A n \in 1 .. NumFields : Arg(Holding(line), n) = Field(n)

(* No call before the one for the last field looks beyond the buffer; that    *)
(* one does, if nothing is left of the line behind the newline.              *)
InsideUntilLast ==
  \A n \in 1 .. NumFields - 1 : Finds_blank(Rest(Holding(line), n - 1))

(* CREATE, WHOIS and LEAVE call format_nick before separate, JOIN and NICK do  *)
(* not (server.c:331 wonders whether it is needed): a name comes out the same *)
(* either way, so a channel can be joined by the name it was created with.   *)
SameName ==
  Finds_blank(Holding(line)) =>
    String(separate(format_nick(Holding(line)))) = String(separate(Holding(line)))

(* The receiver is asked about the sender and the file that were meant.      *)
AskedAboutTheFile ==
  shown # <<>> => shown[1] = Sender /\ shown[2] = File

(* The sender is called back with the receiver's name, port and address and   *)
(* its own file's name, whatever separate has left in the buffers on the     *)
(* way.                                                                      *)
CalledBack ==
  called # <<>> => called = <<Receiver, Port, File, Address>>

(* "/ftreqP x" is not long enough for get_command: a sender whose nickname   *)
(* has one character never gets the answer, every other one does.            *)
AnswerReachesLongNames ==
  stage \in {"listen", "CONN_INFO", "INFO_CONN", "end"} =>
    (told <=> length.sender >= 2)

(* The newline before the size hides it from separate; what is left of the    *)
(* line behind it is read instead.  The size comes through exactly when the   *)
(* file's name is long enough to overwrite every blank in front of it: the one *)
(* behind "/send", and the one behind the receiver's nickname.                *)
SizeNeedsLongName ==
  shown # <<>> =>
    (shown[3] = Size <=> length.file >= 5 /\ length.file >= length.receiver)
=============================================================================
