----------------------------- MODULE FileStream -----------------------------
(***************************************************************************)
(* The contents of a transferred file (src/RE216/file_trans.c): the sender's *)
(* send_file, and the receiver's rcv_file with accept_file's questions and   *)
(* fill_file, on the two ends of a TCP connection whose reads return any     *)
(* part of what has arrived.  A byte of the file is its position in it; the   *)
(* bytes of files that were in the inbox before are all 0.                   *)
(***************************************************************************)
EXTENDS Integers, Sequences, FiniteSets, SequencesExt

CONSTANTS
  BUFFER_SIZE,
  WORD,        (* sizeof(buffer) in fill_file, the size of a pointer       *)
  Room,        (* bytes that fit between write() and read()                *)
  MaxSize,     (* bound on the size of a file                              *)
  Paths,       (* what the sender calls its file: sequences of characters  *)
  Entries,     (* what the user may enter as a name, the newline included  *)
  Faults       (* "kill": the sender ends at any time; "change": its file  *)
               (* changes between the request and the transfer             *)

ASSUME FileAssumption ==
  /\ {BUFFER_SIZE, WORD, Room, MaxSize} \subseteq Nat \ {0}
  /\ WORD <= BUFFER_SIZE
  /\ \A s \in Paths \cup Entries : s \in Seq(STRING) /\ s # <<>>
  /\ Faults \subseteq {"kill", "change"}

VARIABLES
  size,       (* of the sender's file, total_to_send in send_file          *)
  announced,  (* the size the receiver was told                            *)
  sender,     (* "sending", "done", or "over" when its process has ended   *)
  chunk,      (* bytes send_file has read from the file and not yet written *)
  sent,       (* bytes written so far                                      *)
  at,         (* where the receiver is                                     *)
  name,       (* under which it saves the file                             *)
  entered,    (* what its user has entered as a name                       *)
  inbox,      (* files in ../inbox, with their contents                    *)
  got,        (* nb_read                                                   *)
  elsewhere   (* names of the files in ../../inbox                         *)

sending == <<size, sender, chunk, sent>>
asking  == <<name, entered>>
vars    == <<sending, announced, at, asking, inbox, got, elsewhere>>

(* What follows the last '/'. *)
path_to_name(path) ==
  SubSeq(path, Max({k \in DOMAIN path : path[k] = "/"} \cup {0}) + 1, Len(path))

HasSlash(text) == "/" \in Range(text)

format_name_file(text) ==
  [k \in DOMAIN text |-> IF text[k] = " " THEN "_" ELSE text[k]]

FileNames == {path_to_name(p) : p \in Paths} \cup
             {format_name_file(t) : t \in {u \in Entries : ~HasSlash(u)}}

(* A new name is looked for in ../../inbox. *)
Acceptable(text) == ~HasSlash(text) /\ format_name_file(text) \notin elsewhere

(* There is always another name the user can think of. *)
Init ==
  /\ size \in 1 .. MaxSize
  /\ announced \in IF "change" \in Faults THEN 1 .. MaxSize ELSE {size}
  /\ sender = "sending"
  /\ chunk = 0
  /\ sent = 0
  /\ at = "exists"
  /\ name \in {path_to_name(p) : p \in Paths}
  /\ entered = <<>>
  /\ \E old \in SUBSET FileNames : inbox = [f \in old |-> <<0>>]
  /\ got = 0
  /\ elsewhere \in SUBSET FileNames
  /\ \E text \in Entries : Acceptable(text)
-----------------------------------------------------------------------------
(* send_file. *)

Least(a, b) == IF a < b THEN a ELSE b

(* Mutant of to_send: a whole buffer is sent, however little was read. *)
to_send_buffer == BUFFER_SIZE

to_send == Least(BUFFER_SIZE, size - sent)

read_chunk ==
  /\ sender = "sending" /\ chunk = 0 /\ sent < size
  /\ chunk' = to_send
  /\ UNCHANGED <<size, sender, sent, announced, at, asking, inbox, got, elsewhere>>

(* The kernel takes what there is room for; write() waits until it has all.  *)
write_some ==
  /\ sender = "sending" /\ chunk > 0
  /\ \E n \in 1 .. Least(chunk, Room - (sent - got)) :
       sent' = sent + n /\ chunk' = chunk - n
  /\ UNCHANGED <<size, sender, announced, at, asking, inbox, got, elsewhere>>

(* The socket is not closed. *)
send_file_returns ==
  /\ sender = "sending" /\ chunk = 0 /\ sent >= size
  /\ sender' = "done"
  /\ UNCHANGED <<size, chunk, sent, announced, at, asking, inbox, got, elsewhere>>

SenderEnds ==
  /\ "kill" \in Faults
  /\ sender # "over"
  /\ sender' = "over"
  /\ UNCHANGED <<size, chunk, sent, announced, at, asking, inbox, got, elsewhere>>
-----------------------------------------------------------------------------
(* accept_file. *)

Goes(place, next) == at = place /\ at' = next

(* The inbox with text as the contents of file f. *)
Store(f, text) ==
  [g \in DOMAIN inbox \cup {f} |-> IF g = f THEN text ELSE inbox[g]]

name_is_taken ==
  /\ name \in DOMAIN inbox
  /\ Goes("exists", "overwrite?")
  /\ UNCHANGED <<sending, announced, asking, inbox, got, elsewhere>>

(* fopen with "w": created, or emptied because the user said so. *)
opens_new ==
  /\ \/ name \notin DOMAIN inbox /\ Goes("exists", "read")
     \/ Goes("overwrite?", "read")
  /\ inbox' = Store(name, <<>>)
  /\ UNCHANGED <<sending, announced, asking, got, elsewhere>>

keeps_the_old ==
  /\ Goes("overwrite?", "rename?")
  /\ UNCHANGED <<sending, announced, asking, inbox, got, elsewhere>>

cancels ==
  /\ Goes("rename?", "cancelled")
  /\ UNCHANGED <<sending, announced, asking, inbox, got, elsewhere>>

will_rename ==
  /\ Goes("rename?", "enter")
  /\ UNCHANGED <<sending, announced, asking, inbox, got, elsewhere>>

(* Nothing is opened here. *)
enters_name ==
  /\ Goes("enter", "read")
  /\ \E text \in Entries :
       /\ Acceptable(text)
       /\ entered' = text
       /\ name' = format_name_file(text)
  /\ UNCHANGED <<sending, announced, inbox, got, elsewhere>>

enters_other ==
  /\ Goes("enter", "enter")
  /\ \E text \in Entries : ~Acceptable(text) /\ entered' = text
  /\ UNCHANGED <<sending, announced, name, inbox, got, elsewhere>>
-----------------------------------------------------------------------------
(* rcv_file. *)

Bytes(from, to) == [k \in 1 .. to - from + 1 |-> from + k - 1]

(* text, n times. *)
Copies(text, n) ==
  [k \in 1 .. n * Len(text) |-> text[((k - 1) % Len(text)) + 1]]

Contents(f) == IF f \in DOMAIN inbox THEN inbox[f] ELSE <<>>

(* Mutants of fill_file: the file is opened with "w"; the loop's test is <=.  *)
fill_file_w(text) == Store(name, text)
fill_file_more(text) ==
  Store(name, Contents(name) \o Copies(text, (WORD + Len(text)) \div Len(text)))

(* The chunk is appended as often as it takes to have written WORD bytes.    *)
fill_file(text) ==
  Store(name, Contents(name) \o
              Copies(text, (WORD + Len(text) - 1) \div Len(text)))

(* Mutants of Unfinished: one byte more is asked for; there is no loop. *)
Unfinished_by_one == got <= announced
Unfinished_once == got = 0

Unfinished == got < announced

rcv_chunk ==
  /\ Goes("read", "read") /\ Unfinished
  /\ \E n \in 1 .. Least(BUFFER_SIZE, sent - got) :
       /\ inbox' = fill_file(Bytes(got + 1, got + n))
       /\ got' = got + n
  /\ UNCHANGED <<sending, announced, asking, elsewhere>>

(* End of file: read() returns 0 and fill_file's loop does not end. *)
rcv_nothing ==
  /\ Goes("read", "spin") /\ Unfinished
  /\ sender = "over" /\ sent = got
  /\ UNCHANGED <<sending, announced, asking, inbox, got, elsewhere>>

rcv_file_returns ==
  /\ Goes("read", "saved") /\ ~Unfinished
  /\ UNCHANGED <<sending, announced, asking, inbox, got, elsewhere>>
-----------------------------------------------------------------------------
send_file == read_chunk \/ write_some \/ send_file_returns

(* The user answers; a name that will do comes in the end. *)
Answers ==
  name_is_taken \/ opens_new \/ keeps_the_old \/ cancels \/ will_rename \/ enters_name

rcv_file == rcv_chunk \/ rcv_nothing \/ rcv_file_returns

Next == send_file \/ SenderEnds \/ Answers \/ enters_other \/ rcv_file

Spec == Init /\ [][Next]_vars

FairSpec == Spec /\ WF_vars(send_file) /\ WF_vars(Answers) /\ WF_vars(rcv_file)
=============================================================================
