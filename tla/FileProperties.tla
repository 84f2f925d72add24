--------------------------- MODULE FileProperties ---------------------------
(* What module FileStream promises, and statements of the repository.        *)
EXTENDS FileStream

(* Every variable keeps its type, and bytes are neither read before they are  *)
(* written nor written beyond the room there is.                             *)
TypeOK ==
  /\ size \in 1 .. MaxSize /\ announced \in 1 .. MaxSize
  /\ sender \in {"sending", "done", "over"}
  /\ chunk \in 0 .. BUFFER_SIZE
  /\ sent \in 0 .. size
  /\ got \in 0 .. sent /\ sent - got <= Room
  /\ at \in {"exists", "overwrite?", "rename?", "enter", "cancelled", "read",
             "spin", "saved"}
  /\ name \in FileNames
  /\ entered \in Entries \cup {<<>>}
  /\ DOMAIN inbox \subseteq FileNames
  /\ \A f \in DOMAIN inbox : inbox[f] \in Seq(0 .. MaxSize)
  /\ elsewhere \subseteq FileNames

Reading == {"read", "spin", "saved"}

(* However the bytes are cut into reads, the saved file has all those read so  *)
(* far, none ahead of the one before it: what fill_file writes twice comes    *)
(* after what it belongs to.                                                 *)
AllInOrder ==
  LET text == Contents(name)
  IN  at \in Reading =>
        /\ Range(text) \ {0} = 1 .. got
        /\ \A k \in DOMAIN text :
             text[k] > 1 => \E j \in 1 .. k - 1 : text[j] = text[k] - 1

(* What is written twice is confined: two copies of a byte are less than WORD  *)
(* bytes apart, so a file that arrives in long reads is exact.               *)
CopiesAreNear ==
  LET text == Contents(name)
  IN  at \in Reading =>
        \A j, k \in DOMAIN text :
          j < k /\ text[k] # 0 /\ text[j] = text[k] => k - j < WORD

(* What module Transfer makes single steps of.  A file that fits between       *)
(* write and read never waits for the receiver, and a bigger one is not       *)
(* written to its end before the receiver reads.  What is saved has been       *)
(* written to its end, and a receiver whose reads return nothing for ever has  *)
(* lost its sender with the file unfinished.                                *)
StepsOfTransfer ==
  /\ size <= Room /\ chunk > 0 => sent - got < Room
  /\ size > Room /\ sent = size => at \in Reading
  /\ at = "saved" /\ size <= announced => sent = size
  /\ at = "spin" /\ announced <= size => sender = "over" /\ sent < size

(* A file of the inbox is emptied only when the user has been asked and said   *)
(* yes, and otherwise only the one being received changes, by growing.  One    *)
(* that was there before grows only after a new name has been entered: that   *)
(* name has been looked for in another directory (OtherFilesKept below).     *)
KeepsInbox ==
  [][\A f \in DOMAIN inbox :
       /\ f \in DOMAIN inbox'
       /\ inbox'[f] # inbox[f] =>
            /\ f = name
            /\ \/ at = "overwrite?"
               \/ /\ IsPrefix(inbox[f], inbox'[f])
                  /\ 0 \in Range(inbox[f]) => entered # <<>>]_vars

(* A receiver that reads gets the number of bytes that was announced, if the  *)
(* file still has as many and the sender does not end.                       *)
TransferEnds ==
  at = "read" /\ announced <= size ~> at = "saved" \/ sender = "over"

(* The sender finishes, if the file has not become longer and the receiver    *)
(* does not cancel.                                                          *)
SenderFinishes ==
  sender = "sending" /\ size <= announced ~> sender # "sending" \/ at = "cancelled"
-----------------------------------------------------------------------------
(* file_trans.c:151, the loop of fill_file: "normalement on passe la dedans   *)
(* qu'une fois" (normally it is passed once): a saved file has as many bytes  *)
(* as were read.                                                             *)
WrittenOnce ==
  at = "saved" => Len(SelectSeq(inbox[name], LAMBDA b : b # 0)) = got

(* file_trans.c:124, said of a new name: "Please use an other name, this one    *)
(* is already taken by an other file."  So no file that was there before gets  *)
(* bytes of the one being received.                                          *)
OtherFilesKept ==
  \A f \in DOMAIN inbox : 0 \in Range(inbox[f]) => Range(inbox[f]) = {0}
=============================================================================
