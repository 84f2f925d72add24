----------------------------- MODULE FileProofs -----------------------------
(* Theorems about module FileStream, for every size of files, buffers and     *)
(* words, every set of names and every fault.                               *)
EXTENDS FileProperties, SequenceTheorems, TLAPS

(* The number of times fill_file writes a chunk. *)
Times(text) == (WORD + Len(text) - 1) \div Len(text)

(* A chunk of at least one byte is written at least once. *)
LEMMA WrittenAtLeastOnce ==
  ASSUME NEW n \in Nat \ {0}
  PROVE  (WORD + n - 1) \div n \in Nat \ {0}
<1>1. WORD \in Nat \ {0}
  BY FileAssumption
<1>2. n * ((WORD + n - 1) \div n) + ((WORD + n - 1) % n) = WORD + n - 1
  BY <1>1
<1>3. (WORD + n - 1) % n \in 0 .. n - 1
  BY <1>1
<1>4. (WORD + n - 1) \div n \in Int
  BY <1>1
<1> DEFINE d == (WORD + n - 1) \div n
<1>5. n * d >= WORD
  BY <1>1, <1>2, <1>3, <1>4
<1> HIDE DEF d
<1>6. d > 0
  <2>1. d \in Int
    BY <1>4 DEF d
  <2>2. CASE d <= 0
    <3>1. n * d <= 0
      BY <2>1, <2>2
    <3> QED BY <1>1, <1>5, <3>1, <2>1
  <2> QED BY <2>1, <2>2
<1> QED BY <1>4, <1>6 DEF d

(* Copies of a sequence are a sequence of its elements. *)
LEMMA CopiesType ==
  ASSUME NEW S, NEW text \in Seq(S), text # <<>>, NEW n \in Nat
  PROVE  /\ Copies(text, n) \in Seq(S)
         /\ Len(Copies(text, n)) = n * Len(text)
<1>1. Len(text) \in Nat \ {0}
  BY EmptySeq
<1>2. n * Len(text) \in Nat
  BY <1>1
<1>3. \A k \in 1 .. n * Len(text) : ((k - 1) % Len(text)) + 1 \in 1 .. Len(text)
  BY <1>1, <1>2
<1>4. \A k \in 1 .. n * Len(text) : text[((k - 1) % Len(text)) + 1] \in S
  BY <1>1, <1>3, ElementOfSeq
<1> DEFINE c == [k \in 1 .. n * Len(text) |-> text[((k - 1) % Len(text)) + 1]]
<1>5. c \in [1 .. n * Len(text) -> S]
  BY <1>4
<1>6. c \in Seq(S)
  BY <1>2, <1>5, SeqDef
<1>7. Len(c) = n * Len(text)
  BY <1>2, <1>5, <1>6, LenProperties
<1> QED BY <1>6, <1>7 DEF Copies

(* Bytes from .. to are a sequence of that many bytes. *)
LEMMA BytesType ==
  ASSUME NEW from \in Nat, NEW n \in Nat \ {0}, NEW m \in Nat, from + n <= m
  PROVE  /\ Bytes(from + 1, from + n) \in Seq(1 .. m)
         /\ Len(Bytes(from + 1, from + n)) = n
         /\ \A k \in 1 .. n : Bytes(from + 1, from + n)[k] = from + k
<1> DEFINE b == [k \in 1 .. (from + n) - (from + 1) + 1 |-> from + 1 + k - 1]
<1>1. (from + n) - (from + 1) + 1 = n
  OBVIOUS
<1>2. b \in [1 .. n -> 1 .. m]
  BY <1>1
<1>3. b \in Seq(1 .. m)
  BY <1>2, SeqDef
<1>4. Len(b) = n
  BY <1>2, <1>3, LenProperties
<1>5. \A k \in 1 .. n : b[k] = from + k
  BY <1>1
<1> QED BY <1>3, <1>4, <1>5 DEF Bytes

(* A sequence is a prefix of what it becomes when something is appended.     *)
LEMMA AppendedIsPrefix ==
  ASSUME NEW S, NEW s \in Seq(S), NEW t \in Seq(S)
  PROVE  IsPrefix(s, s \o t)
<1>1. /\ s \o t \in Seq(S) /\ Len(s \o t) = Len(s) + Len(t)
      /\ \A k \in 1 .. Len(s) : (s \o t)[k] = s[k]
  BY ConcatProperties
<1>2. SubSeq(s, 1, Len(s)) = SubSeq(s \o t, 1, Len(s))
  BY <1>1, SubSeqProperties
<1> QED BY <1>1, <1>2, LenProperties DEF IsPrefix
-----------------------------------------------------------------------------
(* The inductive invariant: the types, and that send_file never has more in   *)
(* hand than the file.                                                       *)
Transferred == TypeOK /\ sent + chunk <= size

LEMMA Numbers ==
  ASSUME Transferred
  PROVE  /\ {size, announced, chunk, sent, got} \subseteq Nat
         /\ size <= MaxSize /\ chunk <= BUFFER_SIZE /\ sent <= size
         /\ {BUFFER_SIZE, WORD, Room, MaxSize} \subseteq Nat \ {0}
         /\ got <= sent /\ sent - got <= Room
BY FileAssumption DEF Transferred, TypeOK

LEMMA LeastIsLeast ==
  ASSUME NEW a \in Int, NEW b \in Int
  PROVE  Least(a, b) \in Int /\ Least(a, b) <= a /\ Least(a, b) <= b /\ Least(a, b) \in {a, b}
BY DEF Least

LEMMA NamesOfFiles ==
  /\ \A p \in Paths : path_to_name(p) \in FileNames
  /\ \A t \in Entries : Acceptable(t) => format_name_file(t) \in FileNames
BY DEF FileNames, Acceptable

(* Storing a sequence of bytes as the contents of a file. *)
LEMMA StoreType ==
  ASSUME NEW S, NEW D,
         DOMAIN inbox \subseteq D, \A f \in DOMAIN inbox : inbox[f] \in Seq(S),
         NEW f \in D, NEW text \in Seq(S)
  PROVE  /\ DOMAIN Store(f, text) = DOMAIN inbox \cup {f}
         /\ DOMAIN Store(f, text) \subseteq D
         /\ \A g \in DOMAIN Store(f, text) : Store(f, text)[g] \in Seq(S)
         /\ Store(f, text)[f] = text
         /\ \A g \in DOMAIN inbox : g # f => Store(f, text)[g] = inbox[g]
BY DEF Store

LEMMA ContentsType ==
  ASSUME NEW S, \A f \in DOMAIN inbox : inbox[f] \in Seq(S), NEW f
  PROVE  Contents(f) \in Seq(S)
BY EmptySeq DEF Contents

(* What one turn of rcv_file's loop appends. *)
LEMMA AppendedType ==
  ASSUME Transferred, NEW n \in Nat \ {0}, got + n <= MaxSize
  PROVE  LET text == Bytes(got + 1, got + n)
         IN  /\ text \in Seq(0 .. MaxSize) /\ Len(text) = n
             /\ Times(text) \in Nat \ {0}
             /\ Copies(text, Times(text)) \in Seq(0 .. MaxSize)
             /\ Len(Copies(text, Times(text))) = Times(text) * n
<1> DEFINE text == Bytes(got + 1, got + n)
<1>0. MaxSize \in Nat /\ got \in Nat
  BY Numbers
<1>1. text \in Seq(1 .. MaxSize) /\ Len(text) = n
  BY <1>0, BytesType
<1>2. text \in Seq(0 .. MaxSize)
  BY <1>0, <1>1, SeqMonotonic
<1>3. Times(text) \in Nat \ {0}
  BY <1>1, WrittenAtLeastOnce DEF Times
<1>4. text # <<>>
  BY <1>1, EmptySeq
<1>5. /\ Copies(text, Times(text)) \in Seq(0 .. MaxSize)
      /\ Len(Copies(text, Times(text))) = Times(text) * n
  BY <1>1, <1>2, <1>3, <1>4, CopiesType
<1> QED BY <1>1, <1>2, <1>3, <1>5

(* Each turn of rcv_file's loop appends to the file some bytes that have       *)
(* arrived, and changes no other.                                            *)
LEMMA ChunkIsAppended ==
  ASSUME Transferred, rcv_chunk
  PROVE  \E n \in Nat \ {0} :
           LET text == Bytes(got + 1, got + n)
           IN  /\ n <= BUFFER_SIZE /\ got + n <= sent
               /\ got' = got + n
               /\ inbox' = Store(name, Contents(name) \o Copies(text, Times(text)))
<1>1. PICK n \in 1 .. Least(BUFFER_SIZE, sent - got) :
        /\ inbox' = fill_file(Bytes(got + 1, got + n))
        /\ got' = got + n
  BY DEF rcv_chunk
<1>2. BUFFER_SIZE \in Nat /\ sent \in Int /\ got \in Int
  BY Numbers
<1>3. LET l == Least(BUFFER_SIZE, sent - got)
      IN  l \in Int /\ l <= BUFFER_SIZE /\ l <= sent - got
  BY <1>2, LeastIsLeast
<1>4. n <= BUFFER_SIZE /\ got + n <= sent /\ n \in Nat \ {0}
  BY <1>2, <1>3
<1> QED BY <1>1, <1>4 DEF fill_file, Times

LEMMA InitTransferred == Init => Transferred
<1> SUFFICES ASSUME Init PROVE Transferred
  OBVIOUS
<1> USE FileAssumption
<1>1. announced \in 1 .. MaxSize
  BY DEF Init
<1>2. name \in FileNames
  BY NamesOfFiles DEF Init
<1>3. DOMAIN inbox \subseteq FileNames /\ \A f \in DOMAIN inbox : inbox[f] \in Seq(0 .. MaxSize)
  <2>1. PICK old \in SUBSET FileNames : inbox = [f \in old |-> <<0>>]
    BY DEF Init
  <2>2. <<0>> \in Seq(0 .. MaxSize)
    OBVIOUS
  <2> QED BY <2>1, <2>2
<1> QED BY <1>1, <1>2, <1>3 DEF Init, Transferred, TypeOK

LEMMA NextTransferred == Transferred /\ [Next]_vars => Transferred'
<1> SUFFICES ASSUME Transferred, [Next]_vars PROVE Transferred'
  OBVIOUS
<1> DEFINE Receiver == <<announced, at, asking, inbox, got, elsewhere>>
           Places == {"exists", "overwrite?", "rename?", "enter", "cancelled",
                      "read", "spin", "saved"}
<1>0. /\ size \in 1 .. MaxSize /\ announced \in 1 .. MaxSize
      /\ sender \in {"sending", "done", "over"} /\ at \in Places
      /\ chunk \in 0 .. BUFFER_SIZE /\ sent \in 0 .. size /\ got \in 0 .. sent /\ sent - got <= Room
      /\ name \in FileNames /\ entered \in Entries \cup {<<>>}
      /\ DOMAIN inbox \subseteq FileNames
      /\ \A f \in DOMAIN inbox : inbox[f] \in Seq(0 .. MaxSize)
      /\ elsewhere \subseteq FileNames
      /\ sent + chunk <= size
  BY DEF Transferred, TypeOK
<1>1. ASSUME read_chunk PROVE Transferred'
  <2>1. to_send \in Int /\ to_send <= BUFFER_SIZE /\ to_send <= size - sent /\ to_send >= 0
    <3>1. BUFFER_SIZE \in Nat /\ size - sent \in Nat
      BY <1>0, Numbers
    <3>2. to_send \in Int /\ to_send <= BUFFER_SIZE /\ to_send <= size - sent
          /\ to_send \in {BUFFER_SIZE, size - sent}
      BY <3>1 DEF to_send, Least
    <3> QED BY <3>1, <3>2
  <2>2. chunk' \in 0 .. BUFFER_SIZE /\ sent + chunk' <= size
    BY <1>1, <2>1, Numbers DEF read_chunk
  <2> QED BY <1>0, <1>1, <2>2 DEF read_chunk, asking, Transferred, TypeOK
<1>2. ASSUME write_some PROVE Transferred'
  <2>1. PICK n \in 1 .. Least(chunk, Room - (sent - got)) :
          sent' = sent + n /\ chunk' = chunk - n
    BY <1>2 DEF write_some
  <2>2. LET l == Least(chunk, Room - (sent - got))
        IN  l \in Int /\ l <= chunk /\ l <= Room - (sent - got)
    BY Numbers, LeastIsLeast
  <2>3. n \in Int /\ 1 <= n /\ n <= chunk /\ n <= Room - (sent - got)
    BY <2>2, Numbers
  <2>4. /\ sent' \in 0 .. size /\ chunk' \in 0 .. BUFFER_SIZE
        /\ got \in 0 .. sent' /\ sent' - got <= Room /\ sent' + chunk' <= size
    BY <1>0, <2>1, <2>3, Numbers
  <2> QED BY <1>0, <1>2, <2>4 DEF write_some, asking, Transferred, TypeOK
<1>3. ASSUME send_file_returns PROVE Transferred'
  BY <1>0, <1>3 DEF send_file_returns, asking, Transferred, TypeOK
<1>4. ASSUME SenderEnds PROVE Transferred'
  BY <1>0, <1>4 DEF SenderEnds, asking, Transferred, TypeOK
<1>5. ASSUME \/ name_is_taken \/ keeps_the_old \/ cancels \/ will_rename
             \/ rcv_nothing \/ rcv_file_returns
      PROVE  Transferred'
  BY <1>0, <1>5 DEF name_is_taken, keeps_the_old, cancels, will_rename, rcv_nothing,
       rcv_file_returns, Goes, sending, asking, Transferred, TypeOK
<1>6. ASSUME opens_new PROVE Transferred'
  <2>1. inbox' = Store(name, <<>>) /\ at' = "read"
    BY <1>6 DEF opens_new, Goes
  <2>2. <<>> \in Seq(0 .. MaxSize)
    OBVIOUS
  <2>3. /\ DOMAIN inbox' \subseteq FileNames
        /\ \A f \in DOMAIN inbox' : inbox'[f] \in Seq(0 .. MaxSize)
    BY <1>0, <2>1, <2>2, StoreType
  <2> QED BY <1>0, <1>6, <2>1, <2>3 DEF opens_new, sending, asking, Transferred, TypeOK
<1>7. ASSUME enters_name PROVE Transferred'
  <2>1. PICK text \in Entries :
          Acceptable(text) /\ entered' = text /\ name' = format_name_file(text)
    BY <1>7 DEF enters_name
  <2>2. entered' \in Entries /\ name' \in FileNames /\ at' = "read"
    BY <1>7, <2>1, NamesOfFiles DEF enters_name, Goes
  <2> QED BY <1>0, <1>7, <2>2 DEF enters_name, sending, Transferred, TypeOK
<1>8. ASSUME enters_other PROVE Transferred'
  BY <1>0, <1>8 DEF enters_other, Goes, sending, Transferred, TypeOK
<1>9. ASSUME rcv_chunk PROVE Transferred'
  <2>1. PICK n \in Nat \ {0} :
          LET text == Bytes(got + 1, got + n)
          IN  /\ n <= BUFFER_SIZE /\ got + n <= sent
              /\ got' = got + n
              /\ inbox' = Store(name, Contents(name) \o Copies(text, Times(text)))
    BY <1>9, ChunkIsAppended
  <2> DEFINE text == Bytes(got + 1, got + n)
             new  == Contents(name) \o Copies(text, Times(text))
  <2>2. got' \in 0 .. sent /\ sent - got' <= Room
    BY <2>1, Numbers
  <2>3. Copies(text, Times(text)) \in Seq(0 .. MaxSize)
    BY <2>1, Numbers, AppendedType
  <2>4. new \in Seq(0 .. MaxSize)
    BY <1>0, <2>3, ContentsType, ConcatProperties
  <2>5. /\ DOMAIN inbox' \subseteq FileNames
        /\ \A f \in DOMAIN inbox' : inbox'[f] \in Seq(0 .. MaxSize)
    <3>1. inbox' = Store(name, new)
      BY <2>1
    <3> HIDE DEF new
    <3> QED BY <1>0, <2>4, <3>1, StoreType
  <2>6. at' = "read"
    BY <1>9 DEF rcv_chunk, Goes
  <2> QED BY <1>0, <1>9, <2>2, <2>5, <2>6 DEF rcv_chunk, sending, asking, Transferred, TypeOK
<1>10. CASE UNCHANGED vars
  BY <1>0, <1>10 DEF vars, sending, asking, Transferred, TypeOK
<1> QED
  BY <1>1, <1>2, <1>3, <1>4, <1>5, <1>6, <1>7, <1>8, <1>9, <1>10
  DEF Next, send_file, Answers, rcv_file

LEMMA AlwaysTransferred == Spec => []Transferred
BY InitTransferred, NextTransferred, PTL DEF Spec

(* Type correctness: among others, nothing is read before it is written,      *)
(* and no more is on its way than there is room for.                         *)
THEOREM FileTypes == Spec => []TypeOK
<1>1. Transferred => TypeOK
  BY DEF Transferred
<1> QED BY <1>1, AlwaysTransferred, PTL
-----------------------------------------------------------------------------
(* Under the name the sender gave, the file has nothing but what was received. *)
OwnText == at \in Reading /\ entered = <<>> => 0 \notin Range(Contents(name))

LEMMA NextOwnText == Transferred /\ OwnText /\ [Next]_vars => OwnText'
<1> SUFFICES ASSUME Transferred, OwnText, [Next]_vars PROVE OwnText'
  OBVIOUS
<1>1. CASE UNCHANGED <<inbox, name, entered>> /\ (at' \in Reading => at \in Reading)
  BY <1>1 DEF OwnText, Contents
<1>2. CASE opens_new
  <2>1. Contents(name)' = <<>>
    BY <1>2 DEF opens_new, Contents, Store, asking
  <2> QED BY <2>1 DEF OwnText, Range
<1>3. CASE enters_name
  <2>1. entered' # <<>>
    BY <1>3, FileAssumption DEF enters_name
  <2> QED BY <2>1 DEF OwnText
<1>4. CASE enters_other
  BY <1>4 DEF enters_other, Goes, OwnText, Reading
<1>5. CASE rcv_chunk
  <2>1. PICK n \in Nat \ {0} :
          LET text == Bytes(got + 1, got + n)
          IN  /\ n <= BUFFER_SIZE /\ got + n <= sent
              /\ got' = got + n
              /\ inbox' = Store(name, Contents(name) \o Copies(text, Times(text)))
    BY <1>5, ChunkIsAppended
  <2> DEFINE text == Bytes(got + 1, got + n)
             more == Copies(text, Times(text))
             old  == Contents(name)
  <2>2. got + n <= MaxSize /\ got \in Nat /\ MaxSize \in Nat
    BY <2>1, Numbers
  <2>3. text \in Seq(1 .. MaxSize) /\ Len(text) = n
    BY <2>2, BytesType
  <2>4. Times(text) \in Nat /\ text # <<>>
    BY <2>2, <2>3, AppendedType, EmptySeq
  <2> HIDE DEF text
  <2>5. more \in Seq(1 .. MaxSize)
    BY <2>3, <2>4, CopiesType
  <2>6. old \in Seq(0 .. MaxSize)
    BY ContentsType DEF Transferred, TypeOK
  <2>7. Contents(name)' = old \o more /\ entered' = entered /\ at \in Reading
    BY <1>5, <2>1 DEF rcv_chunk, Goes, Reading, asking, Contents, Store, text
  <2>8. more \in Seq(0 .. MaxSize) /\ \A k \in 1 .. Len(more) : more[k] # 0
    BY <2>2, <2>5, SeqMonotonic, ElementOfSeq
  <2> HIDE DEF more, old
  <2>9. ASSUME entered' = <<>> PROVE 0 \notin Range(old \o more)
    <3>1. \A k \in 1 .. Len(old) : old[k] # 0
      BY <2>6, <2>7, <2>9, LenProperties DEF OwnText, Range, old
    <3>2. /\ DOMAIN (old \o more) = 1 .. Len(old) + Len(more)
          /\ \A k \in 1 .. Len(old) + Len(more) :
               (old \o more)[k] = IF k <= Len(old) THEN old[k] ELSE more[k - Len(old)]
      BY <2>6, <2>8, ConcatProperties, LenProperties
    <3>3. Len(old) \in Nat /\ Len(more) \in Nat
      BY <2>6, <2>8, LenProperties
    <3> QED BY <2>8, <3>1, <3>2, <3>3 DEF Range
  <2> QED BY <2>7, <2>9 DEF OwnText
<1> QED
  BY <1>1, <1>2, <1>3, <1>4, <1>5
  DEF Next, send_file, Answers, rcv_file, read_chunk, write_some, send_file_returns,
      SenderEnds, name_is_taken, keeps_the_old, cancels, will_rename,
      rcv_nothing, rcv_file_returns, Goes, Reading, asking, vars

(* KeepsInbox, for one step. *)
Kept ==
  \A f \in DOMAIN inbox :
    /\ f \in DOMAIN inbox'
    /\ inbox'[f] # inbox[f] =>
         /\ f = name
         /\ \/ at = "overwrite?"
            \/ /\ IsPrefix(inbox[f], inbox'[f])
               /\ 0 \in Range(inbox[f]) => entered # <<>>

LEMMA StepKeeps == Transferred /\ OwnText /\ [Next]_vars => Kept
<1> SUFFICES ASSUME Transferred, OwnText, [Next]_vars PROVE Kept
  OBVIOUS
<1>0. \A f \in DOMAIN inbox : inbox[f] \in Seq(0 .. MaxSize)
  BY DEF Transferred, TypeOK
<1>1. CASE inbox' = inbox
  BY <1>1 DEF Kept
<1>2. CASE opens_new
  <2>1. inbox' = Store(name, <<>>) /\ (name \in DOMAIN inbox => at = "overwrite?")
    BY <1>2 DEF opens_new, Goes
  <2> QED BY <1>0, <2>1 DEF Kept, Store
<1>3. CASE rcv_chunk
  <2>1. PICK n \in Nat \ {0} :
          LET text == Bytes(got + 1, got + n)
          IN  /\ n <= BUFFER_SIZE /\ got + n <= sent
              /\ got' = got + n
              /\ inbox' = Store(name, Contents(name) \o Copies(text, Times(text)))
    BY <1>3, ChunkIsAppended
  <2> DEFINE more == Copies(Bytes(got + 1, got + n), Times(Bytes(got + 1, got + n)))
  <2>2. more \in Seq(0 .. MaxSize)
    BY <2>1, Numbers, AppendedType
  <2> HIDE DEF more
  <2>3. inbox' = Store(name, Contents(name) \o more)
    BY <2>1 DEF more
  <2>4. name \in DOMAIN inbox => IsPrefix(inbox[name], Contents(name) \o more)
    BY <1>0, <2>2, AppendedIsPrefix DEF Contents
  <2>5. name \in DOMAIN inbox /\ 0 \in Range(inbox[name]) => entered # <<>>
    BY <1>3 DEF rcv_chunk, Goes, OwnText, Reading, Contents
  <2> QED BY <1>0, <2>3, <2>4, <2>5 DEF Kept, Store
<1> QED
  BY <1>1, <1>2, <1>3
  DEF Next, send_file, Answers, rcv_file, read_chunk, write_some, send_file_returns,
      SenderEnds, name_is_taken, keeps_the_old, cancels, will_rename, enters_name,
      enters_other, rcv_nothing, rcv_file_returns, vars

(* A file of the inbox is emptied only on the user's word, only the file being *)
(* received grows, and one that was there before grows only under a name the   *)
(* receiver's user has entered.                                              *)
THEOREM InboxKept == Spec => KeepsInbox
<1>1. Init => OwnText
  BY DEF Init, OwnText, Reading
<1>2. Transferred /\ OwnText /\ [Next]_vars => [Kept]_vars
  BY StepKeeps
<1> QED BY <1>1, <1>2, NextOwnText, AlwaysTransferred, PTL DEF Spec, KeepsInbox, Kept
-----------------------------------------------------------------------------
(* What AllInOrder and CopiesAreNear say of the text of a file.              *)
Complete(text, n) == Range(text) \ {0} = 1 .. n

Ordered(text) ==
  \A k \in DOMAIN text : text[k] > 1 => \E j \in 1 .. k - 1 : text[j] = text[k] - 1

Near(text) ==
  \A j, k \in DOMAIN text : j < k /\ text[k] # 0 /\ text[j] = text[k] => k - j < WORD

LEMMA Division ==
  ASSUME NEW n \in Nat \ {0}, NEW a \in Nat, NEW q \in Int, NEW r \in 0 .. n - 1,
         a = n * q + r
  PROVE  q \in Nat /\ r <= a /\ (a < n => r = a)
<1>1. q >= 0
  <2>1. CASE q <= -1
    <3>1. n * q <= - n
      BY <2>1
    <3> QED BY <3>1
  <2> QED BY <2>1
<1>2. n * q >= 0
  BY <1>1
<1>3. ASSUME a < n PROVE r = a
  <2>1. CASE q >= 1
    <3>1. n * q >= n
      BY <2>1
    <3> QED BY <1>3, <3>1
  <2>2. CASE q = 0
    BY <2>2
  <2> QED BY <1>1, <2>1, <2>2
<1> QED BY <1>1, <1>2, <1>3

LEMMA Modulo ==
  ASSUME NEW n \in Nat \ {0}, NEW a \in Nat
  PROVE  /\ a % n \in 0 .. n - 1 /\ a % n <= a /\ a \div n \in Nat
         /\ a = n * (a \div n) + (a % n)
         /\ a < n => a % n = a
<1>1. a % n \in 0 .. n - 1
  OBVIOUS
<1>2. a \div n \in Int
  OBVIOUS
<1>3. a = n * (a \div n) + (a % n)
  OBVIOUS
<1> QED BY <1>1, <1>2, <1>3, Division

(* Two places in n * d that are the same modulo n are at most n * (d - 1) apart. *)
LEMMA SameModulo ==
  ASSUME NEW n \in Nat \ {0}, NEW d \in Nat,
         NEW a \in Nat, NEW b \in Nat, b < d * n, a % n = b % n
  PROVE  b - a <= d * n - n
<1> DEFINE x == a \div n
           y == b \div n
           r == a % n
<1>1. /\ x \in Nat /\ y \in Nat /\ r \in 0 .. n - 1
      /\ a = n * x + r /\ b = n * y + r
  BY Modulo
<1> HIDE DEF x, y, r
<1>2. y <= d - 1
  <2>1. CASE y >= d
    <3>1. n * y >= n * d
      BY <1>1, <2>1
    <3> QED BY <1>1, <3>1
  <2> QED BY <1>1, <2>1
<1>3. n * y <= n * (d - 1)
  BY <1>1, <1>2
<1>4. n * (d - 1) = d * n - n
  OBVIOUS
<1>5. n * x >= 0
  BY <1>1
<1> QED BY <1>1, <1>3, <1>4, <1>5

(* What fill_file appends for a chunk of n bytes. *)
LEMMA Appended ==
  ASSUME Transferred, NEW n \in Nat \ {0}, got + n <= MaxSize
  PROVE  LET text == Bytes(got + 1, got + n)
             more == Copies(text, Times(text))
         IN  /\ more \in Seq(0 .. MaxSize) /\ Len(more) >= n
             /\ Len(more) <= WORD + n - 1
             /\ \A k \in 1 .. Len(more) : more[k] = got + 1 + ((k - 1) % n)
             /\ \A j, k \in 1 .. Len(more) :
                  j < k /\ more[j] = more[k] => k - j < WORD
<1> DEFINE text == Bytes(got + 1, got + n)
           d    == Times(text)
           more == Copies(text, d)
<1>0. MaxSize \in Nat /\ got \in Nat /\ WORD \in Nat \ {0}
  BY Numbers
<1>1. /\ Len(text) = n /\ d \in Nat \ {0}
      /\ more \in Seq(0 .. MaxSize) /\ Len(more) = d * n
  BY AppendedType
<1>2. \A k \in 1 .. n : text[k] = got + k
  BY <1>0, BytesType
<1>3. \A k \in 1 .. d * n : more[k] = text[((k - 1) % n) + 1]
  BY <1>1 DEF Copies
<1>4. d = (WORD + n - 1) \div n
  BY <1>1 DEF Times
<1> HIDE DEF text, d, more
<1>5. d * n >= n /\ d * n \in Nat
  BY <1>1
<1>6. d * n <= WORD + n - 1
  <2>1. LET a == WORD + n - 1 IN a = n * (a \div n) + (a % n) /\ a % n \in 0 .. n - 1
    BY <1>0, Modulo
  <2> QED BY <1>0, <1>1, <1>4, <2>1
<1>7. ASSUME NEW k \in 1 .. d * n PROVE more[k] = got + 1 + ((k - 1) % n)
  <2> DEFINE i == (k - 1) % n
  <2>1. i \in 0 .. n - 1
    BY <1>5, <1>7, Modulo
  <2>2. more[k] = text[i + 1]
    BY <1>3
  <2> HIDE DEF i
  <2>3. text[i + 1] = got + (i + 1)
    BY <1>2, <2>1
  <2> QED BY <1>0, <2>1, <2>2, <2>3 DEF i
<1>8. ASSUME NEW j \in 1 .. d * n, NEW k \in 1 .. d * n, j < k, more[j] = more[k]
      PROVE  k - j < WORD
  <2>1. (j - 1) % n \in Int /\ (k - 1) % n \in Int
    BY <1>5, Modulo
  <2>2. (j - 1) % n = (k - 1) % n
    <3>1. got + 1 + ((j - 1) % n) = got + 1 + ((k - 1) % n)
      BY <1>7, <1>8
    <3> QED BY <1>0, <2>1, <3>1
  <2>3. (k - 1) - (j - 1) <= d * n - n
    <3>1. j - 1 \in Nat /\ k - 1 \in Nat /\ k - 1 < d * n
      BY <1>5
    <3> QED BY <1>1, <2>2, <3>1, SameModulo
  <2> QED BY <1>0, <1>5, <1>6, <2>3
<1> QED BY <1>1, <1>5, <1>6, <1>7, <1>8 DEF text, d, more

Exact(text, n) == Complete(text, n) /\ Ordered(text) /\ Near(text)

(* One more chunk keeps the text complete and ordered, and its copies near:    *)
(* what was there has no byte beyond got, and the first copy has them all.   *)
LEMMA ChunkKeepsExact ==
  ASSUME Transferred, NEW n \in Nat \ {0}, got + n <= MaxSize,
         NEW old \in Seq(0 .. MaxSize), Exact(old, got),
         NEW more \in Seq(0 .. MaxSize), Len(more) >= n,
         \A k \in 1 .. Len(more) : more[k] = got + 1 + ((k - 1) % n),
         \A j, k \in 1 .. Len(more) : j < k /\ more[j] = more[k] => k - j < WORD
  PROVE  Exact(old \o more, got + n)
<1> DEFINE new == old \o more
           o == Len(old)
           m == Len(more)
<1>0. got \in Nat /\ WORD \in Nat \ {0} /\ o \in Nat /\ m \in Nat
      /\ DOMAIN old = 1 .. o
  BY Numbers, LenProperties
<1>1. /\ DOMAIN new = 1 .. o + m
      /\ \A k \in 1 .. o : new[k] = old[k]
      /\ \A k \in 1 .. m : new[o + k] = more[k]
  <2>1. /\ new \in Seq(0 .. MaxSize) /\ Len(new) = o + m
        /\ \A k \in 1 .. o + m : new[k] = IF k <= o THEN old[k] ELSE more[k - o]
    BY ConcatProperties
  <2>2. DOMAIN new = 1 .. o + m
    BY <2>1, LenProperties
  <2>3. \A k \in 1 .. m : new[o + k] = more[k]
    <3> SUFFICES ASSUME NEW k \in 1 .. m PROVE new[o + k] = more[k]
      OBVIOUS
    <3>1. o + k \in 1 .. o + m /\ ~(o + k <= o) /\ (o + k) - o = k
      BY <1>0
    <3> QED BY <2>1, <3>1
  <2> QED BY <1>0, <2>1, <2>2, <2>3
<1>2. \A k \in 1 .. o : old[k] \in 0 .. got
  <2>1. \A k \in 1 .. o : old[k] \in Range(old)
    BY <1>0 DEF Range
  <2> QED BY <1>0, <2>1 DEF Exact, Complete
<1>3. ASSUME NEW k \in 1 .. m
      PROVE  /\ (k - 1) % n \in 0 .. n - 1 /\ (k - 1) % n <= k - 1
             /\ more[k] = got + 1 + ((k - 1) % n) /\ more[k] \in got + 1 .. got + n
  <2>1. k - 1 \in Nat
    OBVIOUS
  <2>2. (k - 1) % n \in 0 .. n - 1 /\ (k - 1) % n <= k - 1
    BY <2>1, Modulo
  <2>3. more[k] = got + 1 + ((k - 1) % n)
    BY <1>3
  <2> DEFINE r == (k - 1) % n
  <2>4. r \in 0 .. n - 1 /\ more[k] = got + 1 + r
    BY <2>2, <2>3
  <2> HIDE DEF r
  <2>5. more[k] \in got + 1 .. got + n
    BY <1>0, <2>4
  <2> QED BY <2>2, <2>3, <2>5
<1>4. ASSUME NEW i \in 1 .. n PROVE i \in 1 .. m /\ more[i] = got + i
  <2>1. i - 1 \in Nat /\ i - 1 < n
    OBVIOUS
  <2>2. (i - 1) % n = i - 1
    BY <2>1, Modulo
  <2>3. i \in 1 .. m
    BY <1>0
  <2>4. more[i] = got + 1 + ((i - 1) % n)
    BY <2>3
  <2> QED BY <1>0, <2>2, <2>3, <2>4
<1> HIDE DEF new, o, m
<1>5. ASSUME NEW k \in 1 .. o + m, ~(k \in 1 .. o)
      PROVE  k - o \in 1 .. m /\ new[k] = more[k - o]
  <2>1. k - o \in 1 .. m /\ o + (k - o) = k
    BY <1>0, <1>5
  <2> QED BY <1>1, <2>1
<1>6. Complete(new, got + n)
  <2>1. ASSUME NEW k \in 1 .. o + m PROVE new[k] \in 0 .. got + n
    <3>1. CASE k \in 1 .. o
      BY <1>0, <1>1, <1>2, <3>1
    <3>2. CASE ~(k \in 1 .. o)
      BY <1>0, <1>3, <1>5, <3>2
    <3> QED BY <3>1, <3>2
  <2>2. ASSUME NEW v \in 1 .. got + n PROVE \E k \in 1 .. o + m : new[k] = v
    <3>1. CASE v <= got
      <4>1. v \in Range(old)
        BY <1>0, <3>1 DEF Exact, Complete
      <4>2. PICK k \in 1 .. o : old[k] = v
        BY <1>0, <4>1 DEF Range
      <4> QED BY <1>0, <1>1, <4>2
    <3>2. CASE ~(v <= got)
      <4>1. v - got \in 1 .. n /\ got + (v - got) = v
        BY <1>0, <3>2
      <4>2. v - got \in 1 .. m /\ more[v - got] = v
        BY <1>4, <4>1
      <4>3. o + (v - got) \in 1 .. o + m
        BY <1>0, <4>2
      <4> QED BY <1>1, <4>2, <4>3
    <3> QED BY <3>1, <3>2
  <2>3. Range(new) \subseteq 0 .. got + n
    BY <1>1, <2>1 DEF Range
  <2>4. 1 .. got + n \subseteq Range(new)
    BY <1>1, <2>2 DEF Range
  <2> QED BY <1>0, <2>3, <2>4 DEF Complete
<1>7. Ordered(new)
  <2> SUFFICES ASSUME NEW k \in 1 .. o + m, new[k] > 1
               PROVE  \E j \in 1 .. k - 1 : new[j] = new[k] - 1
    BY <1>1 DEF Ordered
  <2>1. CASE k \in 1 .. o
    <3>1. PICK j \in 1 .. k - 1 : old[j] = old[k] - 1
      BY <1>0, <1>1, <2>1 DEF Exact, Ordered
    <3> QED BY <1>0, <1>1, <2>1, <3>1
  <2>2. CASE ~(k \in 1 .. o)
    <3> DEFINE i == k - o
               r == (i - 1) % n
    <3>1. i \in 1 .. m /\ new[k] = more[i] /\ k = o + i
      BY <1>0, <1>5, <2>2
    <3>2. r \in 0 .. n - 1 /\ r <= i - 1 /\ more[i] = got + 1 + r
      BY <1>3, <3>1
    <3> HIDE DEF i, r
    <3>3. CASE r = 0
      <4>0. new[k] = got + 1 /\ got \in 1 .. got
        BY <1>0, <3>1, <3>2, <3>3
      <4>1. got \in Range(old) /\ new[k] = got + 1
        BY <4>0 DEF Exact, Complete
      <4>2. PICK j \in 1 .. o : old[j] = got
        BY <1>0, <4>1 DEF Range
      <4>3. j \in 1 .. k - 1 /\ new[j] = new[k] - 1
        BY <1>0, <1>1, <3>1, <4>1, <4>2
      <4> QED BY <4>3
    <3>4. CASE r # 0
      <4>1. r \in 1 .. n
        BY <3>2, <3>4
      <4>2. r \in 1 .. m /\ more[r] = got + r
        BY <1>4, <4>1
      <4>3. new[o + r] = got + r
        BY <1>1, <4>2
      <4>4. o + r \in 1 .. k - 1 /\ new[o + r] = new[k] - 1
        BY <1>0, <3>1, <3>2, <4>1, <4>3
      <4> QED BY <4>4
    <3> QED BY <3>3, <3>4
  <2> QED BY <2>1, <2>2
<1>8. Near(new)
  <2> SUFFICES ASSUME NEW j \in 1 .. o + m, NEW k \in 1 .. o + m,
                      j < k, new[k] # 0, new[j] = new[k]
               PROVE  k - j < WORD
    BY <1>1 DEF Near
  <2>1. CASE k \in 1 .. o
    <3>1. j \in 1 .. o
      BY <1>0, <2>1
    <3> QED BY <1>0, <1>1, <2>1, <3>1 DEF Exact, Near
  <2>2. CASE ~(k \in 1 .. o) /\ j \in 1 .. o
    <3>1. new[k] \in got + 1 .. got + n
      BY <1>3, <1>5, <2>2
    <3>2. new[j] \in 0 .. got
      BY <1>1, <1>2, <2>2
    <3> QED BY <1>0, <3>1, <3>2
  <2>3. CASE ~(k \in 1 .. o) /\ ~(j \in 1 .. o)
    <3>1. /\ k - o \in 1 .. m /\ new[k] = more[k - o]
          /\ j - o \in 1 .. m /\ new[j] = more[j - o]
      BY <1>5, <2>3
    <3>2. j - o < k - o
      BY <1>0
    <3>3. (k - o) - (j - o) < WORD
      BY <3>1, <3>2 DEF m
    <3> QED BY <1>0, <3>3
  <2> QED BY <2>1, <2>2, <2>3
<1> QED BY <1>6, <1>7, <1>8 DEF Exact, new
-----------------------------------------------------------------------------
(* Until the receiver reads, the files of the inbox are those that were there *)
(* or empty; from then on the one being received is exact but for near copies. *)
Untouched ==
  at \notin Reading =>
    got = 0 /\ \A f \in DOMAIN inbox : \A k \in DOMAIN inbox[f] : inbox[f][k] = 0

Received ==
  /\ Transferred
  /\ Untouched
  /\ at \in Reading => Exact(Contents(name), got)

(* A text of old bytes only, or none, is exact before anything has arrived.   *)
LEMMA OldIsExact ==
  ASSUME NEW S, NEW text \in Seq(S), \A k \in DOMAIN text : text[k] = 0
  PROVE  Exact(text, 0)
<1>1. Range(text) \subseteq {0}
  BY DEF Range
<1> QED BY <1>1 DEF Exact, Complete, Ordered, Near

LEMMA OldContents ==
  ASSUME Transferred, Untouched, at \notin Reading, NEW f
  PROVE  Contents(f) \in Seq(0 .. MaxSize) /\ Exact(Contents(f), 0)
<1>1. Contents(f) \in Seq(0 .. MaxSize)
  BY ContentsType DEF Transferred, TypeOK
<1>2. \A k \in DOMAIN Contents(f) : Contents(f)[k] = 0
  BY EmptySeq, LenProperties DEF Untouched, Contents
<1> QED BY <1>1, <1>2, OldIsExact

LEMMA InitReceived == Init => Received
<1> SUFFICES ASSUME Init PROVE Received
  OBVIOUS
<1>1. PICK old \in SUBSET FileNames : inbox = [f \in old |-> <<0>>]
  BY DEF Init
<1>2. \A f \in DOMAIN inbox : \A k \in DOMAIN inbox[f] : inbox[f][k] = 0
  BY <1>1
<1>3. at = "exists" /\ got = 0
  BY DEF Init
<1> QED BY <1>2, <1>3, InitTransferred DEF Received, Untouched, Reading

LEMMA NextReceived == Received /\ [Next]_vars => Received'
<1> SUFFICES ASSUME Received, [Next]_vars PROVE Received'
  OBVIOUS
<1>0. Transferred /\ Untouched /\ Transferred'
  BY NextTransferred DEF Received
<1>1. CASE /\ UNCHANGED <<inbox, got, name>>
           /\ at' = at \/ {at, at'} \subseteq Reading \/ {at, at'} \cap Reading = {}
  BY <1>0, <1>1 DEF Received, Untouched, Reading, Contents
<1>2. CASE opens_new
  <2>1. inbox' = Store(name, <<>>) /\ got' = got /\ name' = name /\ at' = "read"
        /\ at \notin Reading
    BY <1>2 DEF opens_new, Goes, asking, Reading
  <2>2. Contents(name)' = <<>> /\ got = 0
    BY <1>0, <2>1 DEF Contents, Store, Untouched
  <2>3. Exact(<<>>, 0)
    <3>1. <<>> \in Seq(Nat) /\ \A k \in DOMAIN <<>> : <<>>[k] = 0
      OBVIOUS
    <3> QED BY <3>1, OldIsExact
  <2> QED BY <1>0, <2>1, <2>2, <2>3 DEF Received, Untouched, Reading
<1>3. CASE enters_name
  <2>1. UNCHANGED <<inbox, got>> /\ at' = "read" /\ at \notin Reading
    BY <1>3 DEF enters_name, Goes, Reading
  <2>2. Exact(Contents(name'), 0) /\ got = 0
    BY <1>0, <2>1, OldContents DEF Untouched
  <2> QED BY <1>0, <2>1, <2>2 DEF Received, Untouched, Reading, Contents
<1>4. CASE rcv_chunk
  <2>1. PICK n \in Nat \ {0} :
          LET text == Bytes(got + 1, got + n)
          IN  /\ n <= BUFFER_SIZE /\ got + n <= sent
              /\ got' = got + n
              /\ inbox' = Store(name, Contents(name) \o Copies(text, Times(text)))
    BY <1>0, <1>4, ChunkIsAppended
  <2> DEFINE more == Copies(Bytes(got + 1, got + n), Times(Bytes(got + 1, got + n)))
  <2>2. got + n <= MaxSize
    BY <1>0, <2>1, Numbers
  <2>3. /\ more \in Seq(0 .. MaxSize) /\ Len(more) >= n
        /\ \A k \in 1 .. Len(more) : more[k] = got + 1 + ((k - 1) % n)
        /\ \A j, k \in 1 .. Len(more) : j < k /\ more[j] = more[k] => k - j < WORD
    BY <1>0, <2>2, Appended
  <2>4. inbox' = Store(name, Contents(name) \o more) /\ got' = got + n
    BY <2>1
  <2> HIDE DEF more
  <2>5. Contents(name) \in Seq(0 .. MaxSize) /\ Exact(Contents(name), got)
    BY <1>0, <1>4, ContentsType DEF Transferred, TypeOK, Received, Reading, rcv_chunk, Goes
  <2>6. Exact(Contents(name) \o more, got + n)
    BY <1>0, <2>2, <2>3, <2>5, ChunkKeepsExact
  <2>7. at' = "read" /\ name' = name
    BY <1>4 DEF rcv_chunk, Goes, asking
  <2>8. Contents(name)' = Contents(name) \o more
    BY <2>4, <2>7 DEF Contents, Store
  <2> QED BY <1>0, <2>4, <2>6, <2>7, <2>8 DEF Received, Untouched, Reading
<1> QED
  BY <1>1, <1>2, <1>3, <1>4
  DEF Next, send_file, Answers, rcv_file, read_chunk, write_some, send_file_returns,
      SenderEnds, name_is_taken, keeps_the_old, cancels, will_rename, enters_other,
      rcv_nothing, rcv_file_returns, Goes, Reading, asking, vars

LEMMA AlwaysReceived == Spec => []Received
BY InitReceived, NextReceived, PTL DEF Spec

(* However the bytes are cut into reads, the file has all those read so far,  *)
(* and none ahead of the one before it.                                      *)
THEOREM SavedInOrder == Spec => []AllInOrder
<1>1. Received => AllInOrder
  <2> SUFFICES ASSUME Received, at \in Reading PROVE Exact(Contents(name), got)
    BY DEF AllInOrder, Exact, Complete, Ordered
  <2> QED BY DEF Received
<1> QED BY <1>1, AlwaysReceived, PTL

(* Two copies of a byte are less than a word apart.                          *)
THEOREM SavedNear == Spec => []CopiesAreNear
<1>1. Received => CopiesAreNear
  <2> SUFFICES ASSUME Received, at \in Reading PROVE Near(Contents(name))
    BY DEF CopiesAreNear, Near
  <2> QED BY DEF Received, Exact
<1> QED BY <1>1, AlwaysReceived, PTL
-----------------------------------------------------------------------------
(* How the receiver's loop has ended: with what was announced, or with nothing *)
(* more to come.                                                            *)
Ended ==
  /\ at = "saved" => ~Unfinished
  /\ at = "spin" => Unfinished /\ sender = "over" /\ sent = got

LEMMA NextEnded == Ended /\ [Next]_vars => Ended'
<1> SUFFICES ASSUME Ended, [Next]_vars PROVE Ended'
  OBVIOUS
<1>1. CASE send_file \/ SenderEnds
  BY <1>1 DEF Ended, Unfinished, send_file, read_chunk, write_some, send_file_returns, SenderEnds
<1>2. CASE Answers \/ enters_other
  BY <1>2 DEF Ended, Answers, enters_other, name_is_taken, opens_new, keeps_the_old, cancels,
              will_rename, enters_name, Goes
<1>3. CASE rcv_file
  BY <1>3 DEF Ended, Unfinished, rcv_file, rcv_chunk, rcv_nothing, rcv_file_returns, Goes, sending
<1>4. CASE UNCHANGED vars
  BY <1>4 DEF Ended, Unfinished, vars, sending
<1>5. QED BY <1>1, <1>2, <1>3, <1>4 DEF Next

(* The single steps module Transfer takes for a file's contents are what this  *)
(* module's many steps come to: a file that fits is written without the       *)
(* receiver, a bigger one only with it, a saved file was written to its end,   *)
(* and only a sender that ended too early leaves its receiver spinning.       *)
THEOREM OneStepEach == Spec => []StepsOfTransfer
<1>1. Init => Ended
  BY DEF Init, Ended
<1>2. Received /\ Ended => StepsOfTransfer
  <2> SUFFICES ASSUME Received, Ended PROVE StepsOfTransfer
    OBVIOUS
  <2>1. /\ {size, announced, chunk, sent, got, Room} \subseteq Nat
        /\ got <= sent /\ sent - got <= Room /\ sent + chunk <= size
    BY Numbers DEF Received, Transferred
  <2>2. at \notin Reading => got = 0
    BY DEF Received, Untouched
  <2>3. size <= Room /\ chunk > 0 => sent - got < Room
    BY <2>1
  <2>4. size > Room /\ sent = size => at \in Reading
    BY <2>1, <2>2
  <2>5. at = "saved" /\ size <= announced => sent = size
    BY <2>1 DEF Ended, Unfinished
  <2>6. at = "spin" /\ announced <= size => sender = "over" /\ sent < size
    BY <2>1 DEF Ended, Unfinished
  <2>7. QED BY <2>3, <2>4, <2>5, <2>6 DEF StepsOfTransfer
<1>3. QED BY <1>1, <1>2, NextEnded, AlwaysReceived, PTL DEF Spec
=============================================================================
