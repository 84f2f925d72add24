----------------------------- MODULE TextProofs -----------------------------
(***************************************************************************)
(* The helpers that cut a line into arguments, for every line that fits the  *)
(* buffer.                                                                  *)
(***************************************************************************)
EXTENDS TransferLines, FiniteSetTheorems, WellFoundedInduction, SequenceTheorems, TLAPS

LEMMA LeastNatural ==
  ASSUME NEW S \in SUBSET Nat, S # {}
  PROVE  \E m \in S : \A k \in S : m <= k
<1>1. PICK m \in S : \A k \in S : ~(<<k, m>> \in OpToRel(<, Nat))
  BY NatLessThanWellFounded, WFMin, Zenon
<1>2. ASSUME NEW k \in S PROVE m <= k
  <2>1. m \in Nat /\ k \in Nat
    OBVIOUS
  <2>2. ~(k < m)
    BY <1>1, <2>1 DEF OpToRel
  <2>3. QED BY <2>1, <2>2
<1>3. QED BY <1>2

(* What a loop over get_next_arg computes. *)
Runs(b, n, f) == f = [k \in 0 .. n |-> IF k = 0 THEN b ELSE separate(f[k - 1])]

LEMMA RestChosen ==
  ASSUME NEW b, NEW n \in Nat
  PROVE  Rest(b, n) = (CHOOSE f : Runs(b, n, f))[n]
BY DEF Rest, Runs

LEMMA RunsExist ==
  ASSUME NEW b, NEW n \in Nat
  PROVE  \E f : Runs(b, n, f)
<1> DEFINE S == {i \in Nat : ~\E f : Runs(b, i, f)}
<1> SUFFICES ASSUME S # {} PROVE FALSE
  OBVIOUS
<1>1. PICK i \in S : \A j \in S : i <= j
  BY LeastNatural
<1>2. CASE i = 0
  <2> DEFINE f == [k \in 0 .. i |-> b]
  <2>1. Runs(b, i, f)
    BY <1>2 DEF Runs
  <2>2. QED BY <2>1
<1>3. CASE i # 0
  <2>1. i - 1 \in Nat /\ i - 1 \notin S
    BY <1>1, <1>3
  <2>2. PICK g : Runs(b, i - 1, g)
    BY <2>1
  <2> DEFINE f == [k \in 0 .. i |-> IF k = i THEN separate(g[i - 1]) ELSE g[k]]
  <2>3. ASSUME NEW k \in 0 .. i PROVE f[k] = IF k = 0 THEN b ELSE separate(f[k - 1])
    <3>1. CASE k = i
      <4>1. f[k] = separate(g[i - 1]) /\ f[i - 1] = g[i - 1]
        BY <1>3, <3>1
      <4>2. QED BY <1>3, <3>1, <4>1
    <3>2. CASE k # i
      <4>1. k \in 0 .. i - 1 /\ f[k] = g[k] /\ (k # 0 => f[k - 1] = g[k - 1])
        BY <3>2
      <4>2. g[k] = IF k = 0 THEN b ELSE separate(g[k - 1])
        BY <2>2, <4>1 DEF Runs
      <4>3. QED BY <4>1, <4>2
    <3>3. QED BY <3>1, <3>2
  <2>4. f = [k \in 0 .. i |-> IF k = 0 THEN b ELSE separate(f[k - 1])]
    BY <2>3
  <2> HIDE DEF f
  <2>5. QED BY <2>4 DEF Runs
<1>4. QED BY <1>2, <1>3

(* One more call works on what the calls before have left. *)
LEMMA RestSteps ==
  ASSUME NEW b, NEW n \in Nat
  PROVE  Rest(b, 0) = b /\ Rest(b, n + 1) = separate(Rest(b, n))
<1>1. \A i \in Nat : Runs(b, i, CHOOSE f : Runs(b, i, f))
  BY RunsExist
<1>2. Rest(b, 0) = b
  <2>1. PICK f : Runs(b, 0, f) /\ Rest(b, 0) = f[0]
    BY <1>1, RestChosen
  <2>2. 0 \in 0 .. 0
    OBVIOUS
  <2>3. QED BY <2>1, <2>2 DEF Runs
<1>3. PICK f, g : /\ Runs(b, n, f) /\ Rest(b, n) = f[n]
                  /\ Runs(b, n + 1, g) /\ Rest(b, n + 1) = g[n + 1]
  BY <1>1, RestChosen
<1>4. \A i \in 0 .. n : f[i] = g[i]
  <2> DEFINE S == {i \in 0 .. n : f[i] # g[i]}
  <2> SUFFICES ASSUME S # {} PROVE FALSE
    OBVIOUS
  <2>1. PICK i \in S : \A j \in S : i <= j
    <3>1. S \in SUBSET Nat
      OBVIOUS
    <3> HIDE DEF S
    <3>2. QED BY <3>1, LeastNatural
  <2>2. i # 0
    BY <1>3 DEF Runs
  <2>3. i - 1 \in 0 .. n /\ f[i - 1] = g[i - 1]
    BY <2>1, <2>2
  <2>4. f[i] = separate(f[i - 1]) /\ g[i] = separate(g[i - 1])
    BY <1>3, <2>2 DEF Runs
  <2>5. QED BY <2>3, <2>4
<1>5. g[n + 1] = separate(g[n])
  BY <1>3 DEF Runs
<1>6. QED BY <1>2, <1>3, <1>4, <1>5
-----------------------------------------------------------------------------
(* Searching a buffer. *)

LEMMA NextIn ==
  ASSUME NEW b, NEW k \in Nat \ {0}, NEW C
  PROVE  LET i == Next_in(b, k, C)
         IN  /\ i \in 1 .. BUFFER_SIZE + 1
             /\ \A j \in Positions : j >= k /\ j < i => b[j] \notin C
             /\ i <= BUFFER_SIZE => i >= k /\ b[i] \in C
<1> DEFINE S == {j \in Positions : j >= k /\ b[j] \in C} \cup {BUFFER_SIZE + 1}
<1>1. S \in SUBSET Nat /\ S # {}
  BY TextAssumption DEF Positions
<1>2. PICK i \in S : \A j \in S : i <= j
  <2> HIDE DEF S
  <2>1. QED BY <1>1, LeastNatural
<1>3. \A j \in S : (\A l \in S : j <= l) => j = i
  BY <1>1, <1>2
<1>4. Next_in(b, k, C) = i
  BY <1>2, <1>3 DEF Next_in, Min
<1>5. QED BY <1>2, <1>4, TextAssumption DEF Positions

(* The first one is the one with none before it. *)
LEMMA NextIs ==
  ASSUME NEW b, NEW k \in Nat \ {0}, NEW C, NEW i \in Positions, i >= k, b[i] \in C,
         \A j \in Positions : j >= k /\ j < i => b[j] \notin C
  PROVE  Next_in(b, k, C) = i
<1>1. PICK n : n = Next_in(b, k, C)
  OBVIOUS
<1>2. /\ n \in 1 .. BUFFER_SIZE + 1
      /\ \A j \in Positions : j >= k /\ j < n => b[j] \notin C
      /\ n <= BUFFER_SIZE => n >= k /\ b[n] \in C
  BY <1>1, NextIn
<1>3. ~(i < n)
  BY <1>2
<1>4. ~(n < i)
  BY <1>2, TextAssumption DEF Positions
<1>5. QED BY <1>1, <1>2, <1>3, <1>4, TextAssumption DEF Positions

(* The start of a buffer, as a sequence. *)
LEMMA FirstCharacters ==
  ASSUME NEW S, NEW b, NEW n \in Nat, \A j \in 1 .. n : b[j] \in S
  PROVE  /\ SubSeq(b, 1, n) \in Seq(S) /\ Len(SubSeq(b, 1, n)) = n
         /\ \A j \in 1 .. n : SubSeq(b, 1, n)[j] = b[j]
<1>1. n \in Int /\ 1 \in Int
  OBVIOUS
<1>2. /\ SubSeq(b, 1, n) \in Seq(S)
      /\ Len(SubSeq(b, 1, n)) = IF 1 <= n THEN n - 1 + 1 ELSE 0
      /\ \A j \in 1 .. n - 1 + 1 : SubSeq(b, 1, n)[j] = b[1 + j - 1]
  BY <1>1, SubSeqProperties
<1>3. QED BY <1>2

(* The four special characters differ. *)
LEMMA FourCharacters ==
  /\ Blank # Newline /\ Blank # Nul /\ Newline # Nul
  /\ Blank \notin Letters /\ Newline \notin Letters /\ Nul \notin Letters
<1>1. ASSUME NEW x, NEW y, NEW z PROVE Cardinality({x, y, z}) <= 3
  <2>1. IsFiniteSet({x}) /\ Cardinality({x}) = 1
    BY FS_Singleton
  <2>2. IsFiniteSet({x} \cup {y}) /\ Cardinality({x} \cup {y}) \in {1, 2}
    BY <2>1, FS_AddElement
  <2>3. Cardinality(({x} \cup {y}) \cup {z}) \in {1, 2, 3}
    BY <2>2, FS_AddElement
  <2>4. ({x} \cup {y}) \cup {z} = {x, y, z}
    OBVIOUS
  <2>5. QED BY <2>3, <2>4
<1>2. ASSUME Blank = Newline \/ Blank = Nul \/ Newline = Nul PROVE FALSE
  <2>1. \E x, y, z : {Blank, Newline, Nul, Unknown} = {x, y, z}
    <3>1. CASE Blank = Newline
      <4>1. {Blank, Newline, Nul, Unknown} = {Blank, Nul, Unknown}
        BY <3>1
      <4>2. QED BY <4>1
    <3>2. CASE Blank = Nul \/ Newline = Nul
      <4>1. {Blank, Newline, Nul, Unknown} = {Blank, Newline, Unknown}
        BY <3>2
      <4>2. QED BY <4>1
    <3>3. QED BY <1>2, <3>1, <3>2
  <2>2. PICK x, y, z : {Blank, Newline, Nul, Unknown} = {x, y, z}
    BY <2>1
  <2>3. Cardinality({x, y, z}) <= 3
    BY <1>1
  <2>4. Cardinality({Blank, Newline, Nul, Unknown}) <= 3
    BY <2>2, <2>3
  <2>5. QED BY <2>4, TextAssumption
<1>3. QED BY <1>2, TextAssumption
-----------------------------------------------------------------------------
(* Buffers that hold a text. *)
Chars == Letters \cup {Blank, Newline, Nul}

Texts == Seq(Letters \cup {Blank})

Holds(b, text) ==
  /\ b \in [Positions -> Chars]
  /\ text \in Texts /\ Len(text) < BUFFER_SIZE
  /\ \A j \in 1 .. Len(text) : b[j] = text[j]
  /\ b[Len(text) + 1] \in {Newline, Nul}

(* The buffer's first blank is at i, and what ends the text behind it at t.     *)
Splits(b, i, t) ==
  /\ b \in [Positions -> Chars]
  /\ i \in Positions /\ i = Next_in(b, 1, {Blank})
  /\ t \in Positions /\ t = Next_in(b, i + 1, {Newline, Nul})

LEMMA SeparateIs ==
  ASSUME NEW b, NEW i, NEW t, Splits(b, i, t)
  PROVE  /\ Finds_blank(b) /\ i < t
         /\ separate(b) \in [Positions -> Chars]
         /\ \A j \in Positions :
              separate(b)[j] = IF j <= t - i - 1 THEN b[i + j]
                               ELSE IF j = t - i THEN Nul ELSE b[j]
<1>1. /\ BUFFER_SIZE \in Nat /\ i \in 1 .. BUFFER_SIZE /\ t \in 1 .. BUFFER_SIZE
      /\ b \in [Positions -> Chars]
      /\ i = Next_in(b, 1, {Blank}) /\ t = Next_in(b, i + 1, {Newline, Nul})
  BY TextAssumption DEF Splits, Positions
<1>2. Finds_blank(b)
  <2>1. Next_in(b, 1, {Blank}) <= BUFFER_SIZE
    BY <1>1
  <2>2. QED BY <2>1 DEF Finds_blank
<1>3. i < t
  <2>1. i + 1 \in Nat \ {0}
    BY <1>1
  <2>2. t <= BUFFER_SIZE => t >= i + 1
    BY <1>1, <2>1, NextIn
  <2>3. QED BY <1>1, <2>2
<1>4. PICK n \in Nat : n = t - i - 1
  BY <1>1, <1>3
<1>5. separate(b) = [j \in Positions |-> IF j <= n THEN b[i + j]
                                         ELSE IF j = n + 1 THEN Nul ELSE b[j]]
  BY <1>1, <1>2, <1>4 DEF separate
<1>6. separate(b) \in [Positions -> Chars]
  <2>1. ASSUME NEW j \in Positions, j <= n PROVE b[i + j] \in Chars
    <3>1. i + j \in Positions
      BY <1>1, <1>4, <2>1 DEF Positions
    <3>2. QED BY <1>1, <3>1
  <2>2. Nul \in Chars
    BY DEF Chars
  <2>3. QED BY <1>1, <1>5, <2>1, <2>2
<1>7. \A j \in Positions : j = n + 1 <=> j = t - i
  BY <1>1, <1>4 DEF Positions
<1>8. QED BY <1>2, <1>3, <1>4, <1>5, <1>6, <1>7

(* get_arg_in_command takes the text up to its first blank. *)
LEMMA FirstWord ==
  ASSUME NEW b, NEW text, Holds(b, text),
         NEW n \in 0 .. Len(text), n = Len(text) \/ text[n + 1] = Blank,
         \A j \in 1 .. n : text[j] # Blank
  PROVE  LET w == get_arg_in_command(b)
         IN  w \in Seq(Letters) /\ Len(w) = n /\ \A j \in 1 .. n : w[j] = text[j]
<1>1. /\ Len(text) \in Nat /\ BUFFER_SIZE \in Nat /\ Len(text) < BUFFER_SIZE /\ n \in Nat
      /\ \A j \in 1 .. Len(text) : b[j] = text[j] /\ text[j] \in Letters \cup {Blank}
      /\ b[Len(text) + 1] \in {Newline, Nul} /\ b \in [Positions -> Chars]
  BY LenProperties, ElementOfSeq, TextAssumption DEF Holds, Texts
<1>2. \A j \in 1 .. n : b[j] = text[j] /\ text[j] \in Letters
  BY <1>1
<1>3. PICK i \in Positions : i = n + 1
  BY <1>1 DEF Positions
<1>4. b[i] \in {Blank, Newline, Nul}
  <2>1. CASE n = Len(text)
    BY <1>1, <1>3, <2>1
  <2>2. CASE n # Len(text)
    <3>1. n + 1 \in 1 .. Len(text)
      BY <1>1, <2>2
    <3>2. QED BY <1>1, <1>3, <2>2, <3>1
  <2>3. QED BY <2>1, <2>2
<1>5. Next_in(b, 1, {Blank, Newline, Nul}) = i
  <2>1. i >= 1 /\ 1 \in Nat \ {0}
    BY <1>1, <1>3
  <2>2. ASSUME NEW j \in Positions, j >= 1, j < i PROVE b[j] \notin {Blank, Newline, Nul}
    <3>1. j \in 1 .. n
      BY <1>1, <1>3, <2>2 DEF Positions
    <3>2. QED BY <1>2, <3>1, FourCharacters
  <2>3. QED BY <1>4, <2>1, <2>2, NextIs
<1>6. get_arg_in_command(b) = SubSeq(b, 1, n)
  <2>1. i - 1 = n
    BY <1>1, <1>3
  <2>2. QED BY <1>5, <2>1 DEF get_arg_in_command
<1>7. /\ SubSeq(b, 1, n) \in Seq(Letters) /\ Len(SubSeq(b, 1, n)) = n
      /\ \A j \in 1 .. n : SubSeq(b, 1, n)[j] = b[j]
  <2>1. n \in Int /\ 1 \in Int /\ \A j \in 1 .. n : b[j] \in Letters
    BY <1>1, <1>2
  <2>2. /\ SubSeq(b, 1, n) \in Seq(Letters)
        /\ Len(SubSeq(b, 1, n)) = IF 1 <= n THEN n - 1 + 1 ELSE 0
        /\ \A j \in 1 .. n - 1 + 1 : SubSeq(b, 1, n)[j] = b[1 + j - 1]
    BY <2>1, SubSeqProperties
  <2>3. QED BY <1>1, <2>2
<1>8. QED BY <1>2, <1>6, <1>7

(* separate leaves the text behind its first blank, and does not change what     *)
(* stands behind the text.                                                   *)
LEMMA DropsWord ==
  ASSUME NEW b, NEW text, Holds(b, text),
         NEW n \in Nat, n < Len(text), text[n + 1] = Blank, \A j \in 1 .. n : text[j] # Blank
  PROVE  /\ Finds_blank(b) /\ separate(b) \in [Positions -> Chars]
         /\ \A j \in 1 .. Len(text) - n - 1 : separate(b)[j] = text[n + 1 + j]
         /\ separate(b)[Len(text) - n] = Nul
         /\ \A j \in Positions : j > Len(text) - n => separate(b)[j] = b[j]
<1>1. /\ Len(text) \in Nat /\ BUFFER_SIZE \in Nat /\ Len(text) < BUFFER_SIZE
      /\ n \in Nat /\ n + 1 <= Len(text)
      /\ \A j \in 1 .. Len(text) : b[j] = text[j] /\ text[j] \in Letters \cup {Blank}
      /\ b[Len(text) + 1] \in {Newline, Nul} /\ b \in [Positions -> Chars]
  BY LenProperties, ElementOfSeq, TextAssumption DEF Holds, Texts
<1>2. PICK l : l = Len(text)
  OBVIOUS
<1>3. PICK i \in Positions : i = n + 1
  BY <1>1 DEF Positions
<1>4. PICK t \in Positions : t = l + 1
  BY <1>1, <1>2 DEF Positions
<1>5. i \in 1 .. l /\ b[i] = Blank
  BY <1>1, <1>2, <1>3
<1>6. Next_in(b, 1, {Blank}) = i
  <2>1. i >= 1 /\ 1 \in Nat \ {0} /\ b[i] \in {Blank}
    BY <1>1, <1>3, <1>5
  <2>2. ASSUME NEW j \in Positions, j >= 1, j < i PROVE b[j] \notin {Blank}
    <3>1. j \in 1 .. n /\ j \in 1 .. Len(text)
      BY <1>1, <1>3, <2>2 DEF Positions
    <3>2. QED BY <1>1, <3>1
  <2>3. QED BY <2>1, <2>2, NextIs
<1>7. Next_in(b, i + 1, {Newline, Nul}) = t
  <2>1. t >= i + 1 /\ i + 1 \in Nat \ {0} /\ b[t] \in {Newline, Nul}
    BY <1>1, <1>2, <1>3, <1>4
  <2>2. ASSUME NEW j \in Positions, j >= i + 1, j < t PROVE b[j] \notin {Newline, Nul}
    <3>1. j \in 1 .. Len(text)
      BY <1>1, <1>2, <1>3, <1>4, <2>2 DEF Positions
    <3>2. QED BY <1>1, <3>1, FourCharacters
  <2>3. QED BY <2>1, <2>2, NextIs
<1>8. /\ Finds_blank(b) /\ separate(b) \in [Positions -> Chars]
      /\ \A j \in Positions : separate(b)[j] = IF j <= t - i - 1 THEN b[i + j]
                                               ELSE IF j = t - i THEN Nul ELSE b[j]
  <2>1. Splits(b, i, t)
    BY <1>1, <1>6, <1>7 DEF Splits
  <2>2. QED BY <2>1, SeparateIs
<1>9. ASSUME NEW j \in 1 .. l - n - 1 PROVE separate(b)[j] = text[n + 1 + j]
  <2>1. j \in Positions /\ j <= t - i - 1 /\ i + j = n + 1 + j /\ i + j \in 1 .. l
    BY <1>1, <1>2, <1>3, <1>4 DEF Positions
  <2>2. QED BY <1>1, <1>2, <1>8, <2>1
<1>10. separate(b)[l - n] = Nul
  <2>1. PICK j \in Positions : j = l - n
    BY <1>1, <1>2 DEF Positions
  <2>2. ~(j <= t - i - 1) /\ j = t - i
    BY <1>1, <1>2, <1>3, <1>4, <2>1
  <2>3. QED BY <1>8, <2>1, <2>2
<1>11. ASSUME NEW j \in Positions, j > l - n PROVE separate(b)[j] = b[j]
  <2>1. ~(j <= t - i - 1) /\ j # t - i
    BY <1>1, <1>2, <1>3, <1>4, <1>11 DEF Positions
  <2>2. QED BY <1>8, <2>1
<1>12. QED BY <1>2, <1>8, <1>9, <1>10, <1>11
-----------------------------------------------------------------------------
(* A line that fits the buffer, with room for a terminator behind it. *)
Fits == line \in Seq(Letters \cup {Blank, Newline}) /\ Len(line) < BUFFER_SIZE

LEMMA EndIs ==
  ASSUME Fits
  PROVE  /\ Len(line) \in Nat /\ End \in 1 .. Len(line) + 1 /\ End \in Positions
         /\ \A j \in 1 .. End - 1 : line[j] \in Letters \cup {Blank}
         /\ \A j \in 1 .. Len(line) : line[j] \in Letters \cup {Blank, Newline}
         /\ End <= Len(line) => line[End] = Newline
<1>1. /\ Len(line) \in Nat /\ DOMAIN line = 1 .. Len(line)
      /\ \A j \in 1 .. Len(line) : line[j] \in Letters \cup {Blank, Newline}
  BY LenProperties, ElementOfSeq DEF Fits
<1> DEFINE S == {k \in DOMAIN line : line[k] = Newline} \cup {Len(line) + 1}
<1>2. S \in SUBSET Nat /\ S # {} /\ S \subseteq 1 .. Len(line) + 1
  BY <1>1
<1>3. PICK i \in S : \A j \in S : i <= j
  <2> HIDE DEF S
  <2>1. QED BY <1>2, LeastNatural
<1>4. \A j \in S : (\A l \in S : j <= l) => j = i
  BY <1>2, <1>3
<1>5. End = i
  BY <1>3, <1>4 DEF End, Min
<1>6. i \in 1 .. Len(line) + 1 /\ i \in Positions
  BY <1>1, <1>2, TextAssumption DEF Fits, Positions
<1>7. ASSUME NEW j \in 1 .. i - 1 PROVE line[j] \in Letters \cup {Blank}
  <2>1. j \in 1 .. Len(line) /\ j \notin S
    BY <1>1, <1>3, <1>6
  <2>2. QED BY <1>1, <2>1
<1>8. i <= Len(line) => line[i] = Newline
  BY <1>1, <1>3
<1>9. QED BY <1>1, <1>5, <1>6, <1>7, <1>8

(* Buffer b starts with what the line has behind its position k, terminated. *)
Left(b, k) ==
  /\ \A j \in 1 .. End - 1 - k : b[j] = line[k + j]
  /\ b[End - k] \in {Newline, Nul}

LEMMA HoldingLeft ==
  ASSUME Fits
  PROVE  Holding(line) \in [Positions -> Chars] /\ Left(Holding(line), 0)
<1>1. /\ Len(line) \in Nat /\ End \in 1 .. Len(line) + 1 /\ End \in Positions
      /\ \A j \in 1 .. Len(line) : line[j] \in Letters \cup {Blank, Newline}
      /\ End <= Len(line) => line[End] = Newline
  BY EndIs
<1>2. Holding(line) \in [Positions -> Chars]
  <2>1. ASSUME NEW k \in Positions PROVE (IF k <= Len(line) THEN line[k] ELSE Nul) \in Chars
    BY <1>1 DEF Positions, Chars
  <2>2. QED BY <2>1 DEF Holding
<1>3. \A j \in 1 .. End - 1 - 0 : Holding(line)[j] = line[0 + j]
  BY <1>1, TextAssumption DEF Holding, Positions
<1>4. Holding(line)[End - 0] \in {Newline, Nul}
  BY <1>1 DEF Holding
<1>5. QED BY <1>2, <1>3, <1>4 DEF Left

LEMMA LeftHolds ==
  ASSUME Fits, NEW b \in [Positions -> Chars], NEW k \in 0 .. End - 1, Left(b, k)
  PROVE  LET text == SubSeq(line, k + 1, End - 1)
         IN  /\ Holds(b, text) /\ Len(text) = End - 1 - k
             /\ \A j \in 1 .. End - 1 - k : text[j] = line[k + j]
<1>1. PICK e : e = End
  OBVIOUS
<1>2. /\ e \in 1 .. BUFFER_SIZE /\ BUFFER_SIZE \in Nat
      /\ \A j \in 1 .. e - 1 : line[j] \in Letters \cup {Blank}
  BY <1>1, EndIs, TextAssumption DEF Positions
<1>3. k \in 0 .. e - 1 /\ k \in Nat
  BY <1>1
<1>4. PICK text : text = SubSeq(line, k + 1, e - 1)
  OBVIOUS
<1>5. /\ text \in Texts /\ Len(text) = e - 1 - k
      /\ \A j \in 1 .. e - 1 - k : text[j] = line[k + j]
  <2>1. k + 1 \in Int /\ e - 1 \in Int /\ \A j \in k + 1 .. e - 1 : line[j] \in Letters \cup {Blank}
    BY <1>2, <1>3
  <2>2. /\ text \in Seq(Letters \cup {Blank})
        /\ Len(text) = IF k + 1 <= e - 1 THEN (e - 1) - (k + 1) + 1 ELSE 0
        /\ \A j \in 1 .. (e - 1) - (k + 1) + 1 : text[j] = line[k + 1 + j - 1]
    BY <1>4, <2>1, SubSeqProperties
  <2>3. /\ (IF k + 1 <= e - 1 THEN (e - 1) - (k + 1) + 1 ELSE 0) = e - 1 - k
        /\ \A j \in 1 .. e - 1 - k : j \in 1 .. (e - 1) - (k + 1) + 1 /\ k + 1 + j - 1 = k + j
    BY <1>2, <1>3
  <2>4. QED BY <2>2, <2>3 DEF Texts
<1>6. Len(text) < BUFFER_SIZE /\ Len(text) + 1 = e - k
  BY <1>2, <1>3, <1>5
<1>7. Holds(b, text)
  BY <1>1, <1>5, <1>6 DEF Holds, Left
<1>8. QED BY <1>1, <1>4, <1>5, <1>7

(* The next word of such a buffer is the line's, up to its next blank or its end. *)
LEMMA NextWord ==
  ASSUME Fits, NEW b \in [Positions -> Chars], NEW k \in 0 .. End - 1, Left(b, k),
         NEW c \in k + 1 .. End, c = End \/ line[c] = Blank,
         \A j \in k + 1 .. c - 1 : line[j] # Blank
  PROVE  get_arg_in_command(b) = SubSeq(line, k + 1, c - 1)
<1>1. PICK e : e = End
  OBVIOUS
<1>2. /\ e \in Nat /\ \A j \in 1 .. e - 1 : line[j] \in Letters \cup {Blank}
  BY <1>1, EndIs
<1>3. k \in 0 .. e - 1 /\ c \in k + 1 .. e
  BY <1>1
<1>4. PICK text : /\ Holds(b, text) /\ Len(text) = e - 1 - k
                  /\ \A j \in 1 .. e - 1 - k : text[j] = line[k + j]
  BY <1>1, LeftHolds
<1>5. PICK n \in 0 .. Len(text) : n = c - k - 1
  BY <1>2, <1>3, <1>4
<1>6. n = Len(text) \/ text[n + 1] = Blank
  <2>1. CASE c = e
    BY <1>2, <1>3, <1>4, <1>5, <2>1
  <2>2. CASE c # e
    <3>1. n + 1 \in 1 .. e - 1 - k /\ k + (n + 1) = c
      BY <1>2, <1>3, <1>5, <2>2
    <3>2. QED BY <1>1, <1>4, <2>2, <3>1
  <2>3. QED BY <2>1, <2>2
<1>7. ASSUME NEW j \in 1 .. n
      PROVE  text[j] # Blank /\ text[j] = line[k + j] /\ k + j \in 1 .. e - 1
  <2>1. j \in 1 .. e - 1 - k /\ k + j \in k + 1 .. c - 1 /\ k + j \in 1 .. e - 1
    BY <1>2, <1>3, <1>5
  <2>2. QED BY <1>4, <2>1
<1>8. PICK w : w = get_arg_in_command(b)
  OBVIOUS
<1>9. w \in Seq(Letters) /\ Len(w) = n /\ \A j \in 1 .. n : w[j] = text[j]
  <2>1. \A j \in 1 .. n : text[j] # Blank
    BY <1>7
  <2>2. Holds(b, text) /\ (n = Len(text) \/ text[n + 1] = Blank)
    BY <1>4, <1>6
  <2>3. QED BY <1>8, <2>1, <2>2, FirstWord
<1>10. PICK v : v = SubSeq(line, k + 1, c - 1)
  OBVIOUS
<1>11. v \in Seq(Letters) /\ Len(v) = n /\ \A j \in 1 .. n : v[j] = line[k + j]
  <2>1. k + 1 \in Int /\ c - 1 \in Int
    BY <1>2, <1>3
  <2>2. ASSUME NEW j \in k + 1 .. c - 1 PROVE line[j] \in Letters
    <3>1. j \in 1 .. e - 1
      BY <1>2, <1>3
    <3>2. QED BY <1>2, <3>1
  <2>3. /\ v \in Seq(Letters)
        /\ Len(v) = IF k + 1 <= c - 1 THEN (c - 1) - (k + 1) + 1 ELSE 0
        /\ \A j \in 1 .. (c - 1) - (k + 1) + 1 : v[j] = line[k + 1 + j - 1]
    BY <1>10, <2>1, <2>2, SubSeqProperties
  <2>4. /\ (IF k + 1 <= c - 1 THEN (c - 1) - (k + 1) + 1 ELSE 0) = n
        /\ \A j \in 1 .. n : j \in 1 .. (c - 1) - (k + 1) + 1 /\ k + 1 + j - 1 = k + j
    BY <1>2, <1>3, <1>5
  <2>5. QED BY <2>3, <2>4
<1>12. \A j \in 1 .. n : w[j] = v[j]
  BY <1>7, <1>9, <1>11
<1>13. w = v
  BY <1>9, <1>11, <1>12, SeqEqual
<1>14. QED BY <1>8, <1>10, <1>13

(* separate moves to behind the line's next blank, whatever the buffer has       *)
(* behind the line.                                                         *)
LEMMA SeparateMoves ==
  ASSUME Fits, NEW b \in [Positions -> Chars], NEW k \in 0 .. End - 1, Left(b, k),
         NEW c \in k + 1 .. End - 1, line[c] = Blank,
         \A j \in k + 1 .. c - 1 : line[j] # Blank
  PROVE  Finds_blank(b) /\ separate(b) \in [Positions -> Chars] /\ Left(separate(b), c)
<1>1. PICK e : e = End
  OBVIOUS
<1>2. e \in Nat
  BY <1>1, EndIs
<1>3. k \in 0 .. e - 1 /\ c \in k + 1 .. e - 1
  BY <1>1
<1>4. PICK text : /\ Holds(b, text) /\ Len(text) = e - 1 - k
                  /\ \A j \in 1 .. e - 1 - k : text[j] = line[k + j]
  BY <1>1, LeftHolds
<1>5. PICK n \in Nat : n = c - k - 1 /\ n < Len(text)
  BY <1>2, <1>3, <1>4
<1>6. text[n + 1] = Blank
  <2>1. n + 1 \in 1 .. e - 1 - k /\ k + (n + 1) = c
    BY <1>2, <1>3, <1>5
  <2>2. QED BY <1>4, <2>1
<1>7. ASSUME NEW j \in 1 .. n PROVE text[j] # Blank
  <2>1. j \in 1 .. e - 1 - k /\ k + j \in k + 1 .. c - 1
    BY <1>2, <1>3, <1>5
  <2>2. QED BY <1>4, <2>1
<1>8. /\ Finds_blank(b) /\ separate(b) \in [Positions -> Chars]
      /\ \A j \in 1 .. Len(text) - n - 1 : separate(b)[j] = text[n + 1 + j]
      /\ separate(b)[Len(text) - n] = Nul
  <2>1. \A j \in 1 .. n : text[j] # Blank
    BY <1>7
  <2>2. Holds(b, text) /\ text[n + 1] = Blank
    BY <1>4, <1>6
  <2>3. QED BY <1>5, <2>1, <2>2, DropsWord
<1>9. ASSUME NEW j \in 1 .. e - 1 - c PROVE separate(b)[j] = line[c + j]
  <2>1. /\ j \in 1 .. Len(text) - n - 1 /\ n + 1 + j \in 1 .. e - 1 - k
        /\ k + (n + 1 + j) = c + j
    <3>1. Len(text) = e - 1 - k /\ n = c - k - 1
      BY <1>4, <1>5
    <3>2. QED BY <1>2, <1>3, <3>1
  <2>2. QED BY <1>4, <1>8, <2>1
<1>10. Len(text) - n = e - c
  BY <1>2, <1>3, <1>4, <1>5
<1>11. QED BY <1>1, <1>8, <1>9, <1>10 DEF Left
-----------------------------------------------------------------------------
(* Where the fields of a line end. *)
Stops == Blanks \cup {End}

Before(k) == {j \in Blanks : j < k}

LEMMA Ranks ==
  ASSUME Fits
  PROVE  /\ IsFiniteSet(Blanks) /\ Blanks \subseteq 1 .. End - 1 /\ Stops \subseteq 1 .. End
         /\ Before(End) = Blanks
         /\ \A k \in Stops : IsFiniteSet(Before(k)) /\ Cardinality(Before(k)) \in 0 .. NumFields - 1
         /\ \A k \in Blanks, m \in Stops :
              k < m => Cardinality(Before(k)) < Cardinality(Before(m))
<1>1. PICK e : e = End
  OBVIOUS
<1>2. e \in Nat \ {0}
  BY <1>1, EndIs
<1>3. Blanks \subseteq 1 .. e - 1 /\ Stops \subseteq 1 .. e
  BY <1>1, <1>2 DEF Blanks, Stops
<1>4. IsFiniteSet(Blanks) /\ Cardinality(Blanks) \in Nat /\ NumFields - 1 = Cardinality(Blanks)
  <2>1. IsFiniteSet(1 .. e - 1)
    BY <1>2, FS_Interval
  <2>2. IsFiniteSet(Blanks)
    BY <1>3, <2>1, FS_Subset
  <2>3. QED BY <2>2, FS_CardinalityType DEF NumFields
<1>5. Before(e) = Blanks
  <2>1. \A j \in Blanks : j < e
    BY <1>2, <1>3
  <2>2. QED BY <2>1 DEF Before
<1>6. ASSUME NEW k \in Stops
      PROVE  IsFiniteSet(Before(k)) /\ Cardinality(Before(k)) \in 0 .. NumFields - 1
  <2>1. Before(k) \in SUBSET Blanks
    BY DEF Before
  <2>2. IsFiniteSet(Before(k)) /\ Cardinality(Before(k)) <= Cardinality(Blanks)
    BY <1>4, <2>1, FS_Subset
  <2>3. Cardinality(Before(k)) \in Nat
    BY <2>2, FS_CardinalityType
  <2>4. QED BY <1>4, <2>2, <2>3
<1>7. ASSUME NEW k \in Blanks, NEW m \in Stops, k < m
      PROVE  Cardinality(Before(k)) < Cardinality(Before(m))
  <2>1. k \in Stops /\ k \in Nat /\ m \in Nat
    BY <1>3 DEF Stops
  <2>2. Before(k) \in SUBSET Before(m)
    <3>1. ASSUME NEW j \in Blanks, j < k PROVE j < m
      <4>1. j \in Nat
        BY <1>2, <1>3
      <4>2. QED BY <1>7, <2>1, <3>1, <4>1
    <3>2. QED BY <3>1 DEF Before
  <2>3. k \in Before(m) /\ k \notin Before(k)
    BY <1>7, <2>1 DEF Before
  <2>4. /\ Cardinality(Before(k)) <= Cardinality(Before(m))
        /\ Cardinality(Before(k)) # Cardinality(Before(m))
    BY <1>6, <2>2, <2>3, FS_Subset
  <2>5. Cardinality(Before(k)) \in Nat /\ Cardinality(Before(m)) \in Nat
    BY <1>6, <2>1
  <2>6. QED BY <2>4, <2>5
<1>8. QED BY <1>1, <1>3, <1>4, <1>5, <1>6, <1>7

(* For each field there is one stop with as many blanks before it. *)
LEMMA StopOfRank ==
  ASSUME Fits, NEW n \in 0 .. NumFields - 1
  PROVE  \E k \in Stops : /\ Cardinality(Before(k)) = n
                          /\ \A m \in Stops : Cardinality(Before(m)) = n => m = k
<1>1. /\ Stops \subseteq 1 .. End /\ End \in Nat /\ Blanks \subseteq 1 .. End - 1
      /\ NumFields - 1 = Cardinality(Before(End)) /\ End \in Stops
  BY Ranks, EndIs, FS_CardinalityType DEF NumFields, Stops
<1>2. Cardinality(Before(End)) \in Nat
  BY <1>1, Ranks
<1>3. ASSUME NEW k \in Stops, NEW m \in Stops, Cardinality(Before(m)) = Cardinality(Before(k))
      PROVE  m = k
  <2>1. k \in Nat /\ m \in Nat /\ k <= End /\ m <= End
    BY <1>1
  <2>2. ASSUME k < m PROVE FALSE
    <3>1. k \in Blanks
      BY <1>1, <2>1, <2>2 DEF Stops
    <3>2. Cardinality(Before(k)) < Cardinality(Before(m))
      BY <2>2, <3>1, Ranks
    <3>3. QED BY <1>3, <3>2, Ranks
  <2>3. ASSUME m < k PROVE FALSE
    <3>1. m \in Blanks
      BY <1>1, <2>1, <2>3 DEF Stops
    <3>2. Cardinality(Before(m)) < Cardinality(Before(k))
      BY <2>3, <3>1, Ranks
    <3>3. QED BY <1>3, <3>2, Ranks
  <2>4. QED BY <2>1, <2>2, <2>3
<1> DEFINE S == {i \in 0 .. NumFields - 1 : ~\E k \in Stops : Cardinality(Before(k)) = i}
<1>4. S = {}
  <2> SUFFICES ASSUME S # {} PROVE FALSE
    OBVIOUS
  <2>1. PICK i \in S : \A j \in S : i <= j
    <3>1. S \in SUBSET Nat
      OBVIOUS
    <3> HIDE DEF S
    <3>2. QED BY <3>1, LeastNatural
  <2>2. ASSUME NEW k \in Stops, NEW P \in SUBSET Before(k), Before(k) \subseteq P
        PROVE  Cardinality(Before(k)) = Cardinality(P)
    <3>1. P = Before(k)
      BY <2>2
    <3>2. QED BY <3>1
  <2>3. CASE i = 0
    <3>1. PICK k \in Stops : \A m \in Stops : k <= m
      <4>1. Stops \in SUBSET Nat /\ Stops # {}
        BY <1>1
      <4>2. QED BY <4>1, LeastNatural
    <3>2. Before(k) = {}
      <4>1. \A j \in Blanks : j \in Stops /\ j \in Nat /\ k \in Nat /\ k <= j
        BY <1>1, <3>1 DEF Stops
      <4>2. QED BY <4>1 DEF Before
    <3>3. QED BY <2>1, <2>3, <3>2, FS_EmptySet
  <2>4. CASE i # 0
    <3>1. i - 1 \in 0 .. NumFields - 1 /\ i - 1 \notin S
      BY <1>1, <1>2, <2>1, <2>4
    <3>2. PICK k \in Stops : Cardinality(Before(k)) = i - 1
      BY <3>1
    <3>3. k \in Blanks
      BY <1>1, <1>2, <2>1, <3>2 DEF Stops
    <3>4. k \in Nat /\ k < End
      BY <1>1, <3>3
    <3> DEFINE A == {m \in Stops : k < m}
    <3>5. PICK m \in A : \A l \in A : m <= l
      <4>1. A \in SUBSET Nat
        <5>1. A \in SUBSET Stops /\ Stops \in SUBSET Nat
          BY <1>1
        <5>2. QED BY <5>1
      <4>3. End \in A
        BY <1>1, <3>4
      <4> HIDE DEF A
      <4>4. QED BY <4>1, <4>3, LeastNatural
    <3>6. Before(m) = Before(k) \cup {k}
      <4>1. ASSUME NEW j \in Blanks PROVE j < m <=> j < k \/ j = k
        <5>1. j \in Nat /\ m \in Nat /\ j \in Stops
          BY <1>1 DEF Stops
        <5>2. QED BY <3>4, <3>5, <5>1
      <4>2. QED BY <3>3, <4>1 DEF Before
    <3>7. k \notin Before(k) /\ IsFiniteSet(Before(k))
      BY <3>4, Ranks DEF Before
    <3>8. Cardinality(Before(m)) = (i - 1) + 1
      BY <3>2, <3>6, <3>7, FS_AddElement
    <3>9. QED BY <2>1, <3>5, <3>8
  <2>5. QED BY <2>3, <2>4
<1>5. QED BY <1>3, <1>4

(* Where a field starts, the one before it has ended; in between no blank.    *)
LEMMA CutNext ==
  ASSUME Fits, NEW n \in 1 .. NumFields
  PROVE  /\ Cut(n - 1) \in 0 .. End - 1
         /\ Cut(n) \in Cut(n - 1) + 1 .. End
         /\ Cut(n) = End \/ line[Cut(n)] = Blank
         /\ \A j \in Cut(n - 1) + 1 .. Cut(n) - 1 : line[j] # Blank
         /\ n < NumFields => Cut(n) \in Cut(n - 1) + 1 .. End - 1 /\ line[Cut(n)] = Blank
<1>1. /\ End \in Nat \ {0} /\ Blanks \subseteq 1 .. End - 1 /\ Stops \subseteq 1 .. End
      /\ Cardinality(Blanks) \in Nat /\ NumFields = Cardinality(Blanks) + 1
      /\ Before(End) = Blanks
  BY EndIs, Ranks, FS_CardinalityType DEF NumFields
<1>2. ASSUME NEW m \in 1 .. NumFields
      PROVE  /\ Cut(m) \in Stops /\ Cardinality(Before(Cut(m))) = m - 1
             /\ m < NumFields => Cut(m) \in Blanks
  <2>1. m - 1 \in 0 .. NumFields - 1 /\ m # 0
    BY <1>1
  <2>2. \E k \in Stops : Cardinality(Before(k)) = m - 1
    BY <2>1, StopOfRank
  <2>3. Cut(m) = CHOOSE k \in Stops : Cardinality(Before(k)) = m - 1
    BY <2>1 DEF Cut, Stops, Before
  <2>4. Cut(m) \in Stops /\ Cardinality(Before(Cut(m))) = m - 1
    BY <2>2, <2>3
  <2>5. ASSUME m < NumFields PROVE Cut(m) \in Blanks
    <3>1. Cut(m) # End
      BY <1>1, <2>1, <2>4, <2>5
    <3>2. QED BY <2>4, <3>1 DEF Stops
  <2>6. QED BY <2>4, <2>5
<1>3. PICK c : c = Cut(n)
  OBVIOUS
<1>4. c \in Stops /\ Cardinality(Before(c)) = n - 1 /\ c \in 1 .. End
  BY <1>1, <1>2, <1>3
<1>5. PICK d : d = Cut(n - 1)
  OBVIOUS
<1>6. /\ d \in 0 .. End - 1 /\ d < c
      /\ \A j \in Blanks : ~(d < j /\ j < c)
  <2>1. CASE n = 1
    <3>1. d = 0
      BY <1>5, <2>1 DEF Cut
    <3>2. Before(c) = {}
      BY <1>4, <2>1, Ranks, FS_EmptySet
    <3>3. QED BY <1>1, <1>4, <3>1, <3>2 DEF Before
  <2>2. CASE n # 1
    <3>1. n - 1 \in 1 .. NumFields /\ n - 1 < NumFields
      BY <1>1, <2>2
    <3>2. d \in Blanks /\ Cardinality(Before(d)) = n - 2
      BY <1>2, <1>5, <3>1
    <3>3. d \in 1 .. End - 1 /\ d \in Stops
      BY <1>1, <3>2 DEF Stops
    <3>4. d < c
      <4>1. c # d
        BY <1>4, <3>2
      <4>2. ASSUME c < d PROVE FALSE
        <5>1. c \in Blanks
          BY <1>1, <1>4, <3>3, <4>2 DEF Stops
        <5>2. Cardinality(Before(c)) < Cardinality(Before(d))
          BY <3>3, <4>2, <5>1, Ranks
        <5>3. QED BY <1>1, <1>4, <3>2, <5>2
      <4>3. QED BY <1>1, <1>4, <3>3, <4>1, <4>2
    <3>5. ASSUME NEW j \in Blanks, d < j, j < c PROVE FALSE
      <4>1. j \in Stops /\ Cardinality(Before(j)) \in Nat
        BY Ranks DEF Stops
      <4>2. /\ Cardinality(Before(d)) < Cardinality(Before(j))
            /\ Cardinality(Before(j)) < Cardinality(Before(c))
        BY <1>4, <3>2, <3>5, <4>1, Ranks
      <4>3. QED BY <1>1, <1>4, <3>2, <4>1, <4>2
    <3>6. QED BY <1>1, <3>3, <3>4, <3>5
  <2>3. QED BY <2>1, <2>2
<1>7. \A j \in d + 1 .. c - 1 : line[j] # Blank
  <2> SUFFICES ASSUME NEW j \in d + 1 .. c - 1, line[j] = Blank PROVE FALSE
    OBVIOUS
  <2>1. j \in 1 .. End - 1 /\ d < j /\ j < c
    BY <1>1, <1>4, <1>6
  <2>2. j \in Blanks
    BY <2>1 DEF Blanks
  <2>3. QED BY <1>6, <2>1, <2>2
<1>8. c = End \/ line[c] = Blank
  BY <1>4 DEF Stops, Blanks
<1>9. ASSUME n < NumFields PROVE c \in 1 .. End - 1 /\ line[c] = Blank
  <2>1. c \in Blanks
    BY <1>2, <1>3, <1>9
  <2>2. QED BY <1>1, <2>1 DEF Blanks
<1>10. c \in d + 1 .. End /\ (n < NumFields => c \in d + 1 .. End - 1)
  BY <1>1, <1>4, <1>6, <1>9
<1>11. QED BY <1>3, <1>5, <1>6, <1>7, <1>8, <1>9, <1>10

(* After n calls the buffer starts with what stands behind the n-th field.    *)
LEMMA RestLeft ==
  ASSUME Fits, NEW n \in 0 .. NumFields - 1
  PROVE  Rest(Holding(line), n) \in [Positions -> Chars] /\ Left(Rest(Holding(line), n), Cut(n))
<1> DEFINE Good(i) == /\ Rest(Holding(line), i) \in [Positions -> Chars]
                      /\ Left(Rest(Holding(line), i), Cut(i))
           S == {i \in 0 .. NumFields - 1 : ~Good(i)}
<1> SUFFICES ASSUME S # {} PROVE FALSE
  OBVIOUS
<1>1. PICK i \in S : \A j \in S : i <= j
  <2>1. S \in SUBSET Nat
    OBVIOUS
  <2> HIDE DEF S
  <2>2. QED BY <2>1, LeastNatural
<1>2. NumFields \in Nat
  BY Ranks, FS_CardinalityType DEF NumFields
<1>3. CASE i = 0
  <2>1. Rest(Holding(line), 0) = Holding(line) /\ Cut(0) = 0
    BY RestSteps DEF Cut
  <2>2. Good(0)
    BY <2>1, HoldingLeft
  <2>3. QED BY <1>1, <1>3, <2>2
<1>4. CASE i # 0
  <2>1. i - 1 \in 0 .. NumFields - 1 /\ i - 1 \notin S /\ i \in 1 .. NumFields /\ i < NumFields
    BY <1>1, <1>2, <1>4
  <2>2. PICK b : b = Rest(Holding(line), i - 1)
    OBVIOUS
  <2>3. PICK d, c : d = Cut(i - 1) /\ c = Cut(i)
    OBVIOUS
  <2>4. b \in [Positions -> Chars] /\ Left(b, d)
    BY <2>1, <2>2, <2>3
  <2>5. /\ d \in 0 .. End - 1 /\ c \in d + 1 .. End - 1 /\ line[c] = Blank
        /\ \A j \in d + 1 .. c - 1 : line[j] # Blank
    BY <2>1, <2>3, CutNext
  <2>6. separate(b) \in [Positions -> Chars] /\ Left(separate(b), c)
    BY <2>4, <2>5, SeparateMoves
  <2>7. Rest(Holding(line), i) = separate(b)
    <3>1. i - 1 \in Nat /\ (i - 1) + 1 = i
      BY <2>1
    <3>2. Rest(Holding(line), (i - 1) + 1) = separate(Rest(Holding(line), i - 1))
      BY <3>1, RestSteps
    <3>3. QED BY <2>2, <3>1, <3>2
  <2>8. Good(i)
    BY <2>3, <2>6, <2>7
  <2>9. QED BY <1>1, <2>8
<1>5. QED BY <1>3, <1>4

(* The n-th call of get_next_arg returns the n-th field, and none before the   *)
(* last one looks beyond the buffer.                                         *)
LEMMA FittingLineIsCut ==
  ASSUME Fits
  PROVE  ArgsAreFields /\ InsideUntilLast
<1>1. ASSUME NEW n \in 1 .. NumFields
      PROVE  /\ Arg(Holding(line), n) = Field(n)
             /\ n < NumFields => Finds_blank(Rest(Holding(line), n - 1))
  <2>1. n - 1 \in 0 .. NumFields - 1 /\ NumFields \in Nat
    BY Ranks, FS_CardinalityType DEF NumFields
  <2>2. PICK b : b = Rest(Holding(line), n - 1)
    OBVIOUS
  <2>3. PICK d, c : d = Cut(n - 1) /\ c = Cut(n)
    OBVIOUS
  <2>4. b \in [Positions -> Chars] /\ Left(b, d)
    BY <2>1, <2>2, <2>3, RestLeft
  <2>5. /\ d \in 0 .. End - 1 /\ c \in d + 1 .. End /\ (c = End \/ line[c] = Blank)
        /\ \A j \in d + 1 .. c - 1 : line[j] # Blank
        /\ n < NumFields => c \in d + 1 .. End - 1 /\ line[c] = Blank
    BY <2>3, CutNext
  <2>6. get_arg_in_command(b) = SubSeq(line, d + 1, c - 1)
    BY <2>4, <2>5, NextWord
  <2>7. n < NumFields => Finds_blank(b)
    BY <2>4, <2>5, SeparateMoves
  <2>8. QED BY <2>2, <2>3, <2>6, <2>7 DEF Arg, Field
<1>2. \A n \in 1 .. NumFields - 1 : n \in 1 .. NumFields /\ n < NumFields
  BY Ranks, FS_CardinalityType DEF NumFields
<1>3. QED BY <1>1, <1>2 DEF ArgsAreFields, InsideUntilLast
-----------------------------------------------------------------------------
(* format_nick. *)

(* What separate leaves in a buffer that ends with a terminator. *)
LEMMA SeparatedText ==
  ASSUME NEW b \in [Positions -> Chars], b[BUFFER_SIZE] = Nul,
         NEW i \in Positions, i = Next_in(b, 1, {Blank})
  PROVE  LET t == Next_in(b, i + 1, {Newline, Nul})
             s == String(separate(b))
         IN  /\ t \in Positions /\ i < t
             /\ s \in Seq(Chars) /\ Len(s) = t - i - 1
             /\ \A j \in 1 .. t - i - 1 : s[j] = b[i + j]
<1>1. PICK t : t = Next_in(b, i + 1, {Newline, Nul})
  OBVIOUS
<1>2. i \in Nat \ {0} /\ i + 1 \in Nat \ {0} /\ BUFFER_SIZE \in Positions /\ i <= BUFFER_SIZE
  BY TextAssumption DEF Positions
<1>3. i # BUFFER_SIZE
  <2>1. b[i] = Blank
    BY <1>2, NextIn
  <2>2. QED BY <2>1, FourCharacters
<1>4. /\ t \in 1 .. BUFFER_SIZE + 1
      /\ \A j \in Positions : j >= i + 1 /\ j < t => b[j] \notin {Newline, Nul}
  BY <1>1, <1>2, NextIn
<1>5. t <= BUFFER_SIZE
  <2>1. BUFFER_SIZE >= i + 1 /\ ~(b[BUFFER_SIZE] \notin {Newline, Nul})
    BY <1>2, <1>3, TextAssumption
  <2>2. ~(BUFFER_SIZE < t)
    BY <1>2, <1>4, <2>1
  <2>3. QED BY <1>4, <2>2, TextAssumption
<1>6. t \in Positions
  BY <1>4, <1>5, TextAssumption DEF Positions
<1>7. PICK g : g = separate(b)
  OBVIOUS
<1>8. /\ g \in [Positions -> Chars] /\ i < t
      /\ \A j \in Positions : g[j] = IF j <= t - i - 1 THEN b[i + j]
                                     ELSE IF j = t - i THEN Nul ELSE b[j]
  <2>1. Splits(b, i, t)
    BY <1>1, <1>6 DEF Splits
  <2>2. QED BY <1>7, <2>1, SeparateIs
<1>9. PICK n \in Nat : n = t - i - 1
  BY <1>2, <1>4, <1>8
<1>10. \A j \in 1 .. n : g[j] = b[i + j] /\ g[j] \in Chars /\ g[j] # Nul
  <2> TAKE j \in 1 .. n
  <2>1. j \in Positions /\ i + j \in Positions /\ i + j >= i + 1 /\ i + j < t /\ j <= t - i - 1
    BY <1>2, <1>6, <1>9, TextAssumption DEF Positions
  <2>2. g[j] = b[i + j]
    BY <1>8, <2>1
  <2>3. QED BY <1>4, <2>1, <2>2
<1>11. PICK m \in Positions : m = n + 1
  BY <1>2, <1>6, <1>9, TextAssumption DEF Positions
<1>12. Next_in(g, 1, {Nul}) = m
  <2>1. g[m] \in {Nul} /\ m >= 1 /\ 1 \in Nat \ {0}
    <3>1. ~(m <= t - i - 1) /\ m = t - i /\ m >= 1
      BY <1>2, <1>4, <1>9, <1>11
    <3>2. QED BY <1>8, <3>1
  <2>2. \A j \in Positions : j >= 1 /\ j < m => g[j] \notin {Nul}
    <3> TAKE j \in Positions
    <3>1. j >= 1 /\ j < m => j \in 1 .. n
      BY <1>9, <1>11 DEF Positions
    <3>2. QED BY <1>10, <3>1
  <2>3. QED BY <2>1, <2>2, NextIs
<1>13. String(g) = SubSeq(g, 1, n)
  <2>1. m - 1 = n
    BY <1>9, <1>11
  <2>2. QED BY <1>12, <2>1 DEF String
<1>14. /\ SubSeq(g, 1, n) \in Seq(Chars) /\ Len(SubSeq(g, 1, n)) = n
       /\ \A j \in 1 .. n : SubSeq(g, 1, n)[j] = g[j]
  <2>1. \A j \in 1 .. n : g[j] \in Chars
    BY <1>10
  <2>2. QED BY <2>1, FirstCharacters
<1>15. QED BY <1>1, <1>6, <1>7, <1>8, <1>9, <1>10, <1>13, <1>14

(* format_nick before separate changes nothing about the name. *)
LEMMA FormatNickAgrees ==
  ASSUME Fits
  PROVE  SameName
<1> SUFFICES ASSUME Finds_blank(Holding(line))
             PROVE  String(separate(format_nick(Holding(line)))) = String(separate(Holding(line)))
  BY DEF SameName
<1>1. PICK b : b = Holding(line)
  OBVIOUS
<1>2. /\ b \in [Positions -> Chars] /\ b[BUFFER_SIZE] = Nul /\ BUFFER_SIZE \in Positions
      /\ BUFFER_SIZE \in Nat
  <2>1. BUFFER_SIZE \in Positions /\ ~(BUFFER_SIZE <= Len(line)) /\ BUFFER_SIZE \in Nat
    BY EndIs, TextAssumption DEF Positions, Fits
  <2>2. Holding(line)[BUFFER_SIZE] = Nul
    BY <2>1 DEF Holding
  <2>3. QED BY <1>1, <2>1, <2>2, HoldingLeft
<1>3. PICK q : q = Next_in(b, 1, {Newline})
  OBVIOUS
<1>4. q \in 1 .. BUFFER_SIZE + 1 /\ (q <= BUFFER_SIZE => b[q] = Newline)
  <2>1. 1 \in Nat \ {0}
    OBVIOUS
  <2>2. q \in 1 .. BUFFER_SIZE + 1 /\ (q <= BUFFER_SIZE => b[q] \in {Newline})
    BY <1>3, <2>1, NextIn
  <2>3. QED BY <2>2
<1>5. \E p \in Positions : p = Min({q, BUFFER_SIZE}) /\ b[p] \in {Newline, Nul}
  <2>1. CASE q <= BUFFER_SIZE
    <3>1. \A x \in {q, BUFFER_SIZE} : (\A y \in {q, BUFFER_SIZE} : x <= y) <=> x = q
      BY <1>2, <1>4, <2>1
    <3>2. Min({q, BUFFER_SIZE}) = q
      BY <3>1 DEF Min
    <3>3. q \in Positions
      BY <1>4, <2>1 DEF Positions
    <3>4. QED BY <1>4, <2>1, <3>2, <3>3
  <2>2. CASE ~(q <= BUFFER_SIZE)
    <3>1. \A x \in {q, BUFFER_SIZE} : (\A y \in {q, BUFFER_SIZE} : x <= y) <=> x = BUFFER_SIZE
      BY <1>2, <1>4, <2>2
    <3>2. Min({q, BUFFER_SIZE}) = BUFFER_SIZE
      BY <3>1 DEF Min
    <3>3. QED BY <1>2, <3>2
  <2>3. QED BY <2>1, <2>2
<1>6. PICK p \in Positions : p = Min({q, BUFFER_SIZE}) /\ b[p] \in {Newline, Nul}
  BY <1>5
<1>7. PICK f : f = format_nick(b)
  OBVIOUS
<1>8. f = [b EXCEPT ![p] = Nul]
  BY <1>3, <1>6, <1>7 DEF format_nick
<1>9. /\ f \in [Positions -> Chars] /\ f[BUFFER_SIZE] = Nul
      /\ \A j \in Positions : /\ f[j] = Blank <=> b[j] = Blank
                              /\ f[j] \in {Newline, Nul} <=> b[j] \in {Newline, Nul}
                              /\ b[j] \notin {Newline, Nul} => f[j] = b[j]
  <2>1. Nul \in Chars
    BY DEF Chars
  <2>2. \A j \in Positions : f[j] = IF j = p THEN Nul ELSE b[j]
    BY <1>2, <1>8
  <2>3. f \in [Positions -> Chars]
    BY <1>2, <1>8, <2>1
  <2>4. QED BY <1>2, <1>6, <2>2, <2>3, FourCharacters
<1>10. PICK i : i = Next_in(b, 1, {Blank})
  OBVIOUS
<1>11. /\ i \in 1 .. BUFFER_SIZE + 1 /\ i <= BUFFER_SIZE
       /\ \A j \in Positions : j >= 1 /\ j < i => b[j] \notin {Blank}
       /\ i <= BUFFER_SIZE => i >= 1 /\ b[i] \in {Blank}
  <2>1. i <= BUFFER_SIZE
    BY <1>1, <1>10 DEF Finds_blank
  <2>2. QED BY <1>10, <2>1, NextIn
<1>12. i \in Positions /\ i + 1 \in Nat \ {0} /\ i \in Nat
  BY <1>2, <1>11 DEF Positions
<1>13. Next_in(f, 1, {Blank}) = i
  <2>1. f[i] \in {Blank} /\ i >= 1 /\ 1 \in Nat \ {0}
    BY <1>9, <1>11, <1>12
  <2>2. \A j \in Positions : j >= 1 /\ j < i => f[j] \notin {Blank}
    BY <1>9, <1>11
  <2>3. QED BY <1>12, <2>1, <2>2, NextIs
<1>14. PICK t : t = Next_in(b, i + 1, {Newline, Nul})
  OBVIOUS
<1>15. PICK s : s = String(separate(b))
  OBVIOUS
<1>16. PICK u : u = String(separate(f))
  OBVIOUS
<1>17. /\ t \in Positions /\ i < t
       /\ s \in Seq(Chars) /\ Len(s) = t - i - 1
       /\ \A j \in 1 .. t - i - 1 : s[j] = b[i + j]
  BY <1>2, <1>10, <1>12, <1>14, <1>15, SeparatedText
<1>18. /\ \A j \in Positions : j >= i + 1 /\ j < t => b[j] \notin {Newline, Nul}
       /\ t <= BUFFER_SIZE => t >= i + 1 /\ b[t] \in {Newline, Nul}
  BY <1>12, <1>14, NextIn
<1>19. Next_in(f, i + 1, {Newline, Nul}) = t
  <2>1. f[t] \in {Newline, Nul} /\ t >= i + 1
    BY <1>2, <1>9, <1>17, <1>18 DEF Positions
  <2>2. \A j \in Positions : j >= i + 1 /\ j < t => f[j] \notin {Newline, Nul}
    BY <1>9, <1>18
  <2>3. QED BY <1>12, <1>17, <2>1, <2>2, NextIs
<1>20. /\ u \in Seq(Chars) /\ Len(u) = t - i - 1
       /\ \A j \in 1 .. t - i - 1 : u[j] = f[i + j]
  BY <1>9, <1>12, <1>13, <1>16, <1>19, SeparatedText
<1>21. \A j \in 1 .. t - i - 1 : s[j] = u[j]
  <2> TAKE j \in 1 .. t - i - 1
  <2>1. i + j \in Positions /\ i + j >= i + 1 /\ i + j < t
    BY <1>2, <1>12, <1>17 DEF Positions
  <2>2. f[i + j] = b[i + j]
    BY <1>9, <1>18, <2>1
  <2>3. QED BY <1>17, <1>20, <2>2
<1>22. s = u
  BY <1>17, <1>20, <1>21, SeqEqual
<1>23. QED BY <1>1, <1>7, <1>15, <1>16, <1>22
-----------------------------------------------------------------------------
(* Lines made of words. *)
Joined(text, w) == text \o <<Blank>> \o w

(* What Line computes: f gives, for each set of positions of the words behind   *)
(* the first, the text with the words at those positions.                     *)
Glues(base, words, D, f) ==
  f = [s \in SUBSET D |->
         IF s = {} THEN base ELSE Joined(f[s \ {Max(s)}], words[Max(s)])]

LEMMA LineChosen ==
  ASSUME NEW words
  PROVE  Line(words) = (CHOOSE f : Glues(Head(words), Tail(words), DOMAIN Tail(words), f))
                         [DOMAIN Tail(words)]
BY DEF Line, FoldLeft, MapThenFoldSet, Glues, Joined

LEMMA MaxOfInterval ==
  ASSUME NEW m \in Nat \ {0}, NEW s \in SUBSET (1 .. m), m \in s
  PROVE  Max(s) = m
<1>1. \A x \in s : (\A y \in s : x >= y) <=> x = m
  OBVIOUS
<1>2. QED BY <1>1 DEF Max

LEMMA GluesExist ==
  ASSUME NEW base, NEW words, NEW m \in Nat
  PROVE  \E f : Glues(base, words, 1 .. m, f)
<1> DEFINE S == {i \in Nat : ~\E f : Glues(base, words, 1 .. i, f)}
<1> SUFFICES ASSUME S # {} PROVE FALSE
  OBVIOUS
<1>1. PICK i \in S : \A j \in S : i <= j
  BY LeastNatural
<1>2. CASE i = 0
  <2> DEFINE f == [s \in SUBSET (1 .. i) |-> base]
  <2>1. \A s \in SUBSET (1 .. i) : s = {}
    BY <1>2
  <2>2. f = [s \in SUBSET (1 .. i) |->
         IF s = {} THEN base ELSE Joined(f[s \ {Max(s)}], words[Max(s)])]
    BY <2>1
  <2> HIDE DEF f
  <2>3. QED BY <2>2 DEF Glues
<1>3. CASE i # 0
  <2>1. i \in Nat \ {0} /\ i - 1 \in Nat /\ i - 1 \notin S
    BY <1>1, <1>3
  <2>2. PICK g : Glues(base, words, 1 .. i - 1, g)
    BY <2>1
  <2> DEFINE f == [s \in SUBSET (1 .. i) |->
                     IF i \in s THEN Joined(g[s \ {i}], words[i]) ELSE g[s]]
             W(h, s) == IF s = {} THEN base ELSE Joined(h[s \ {Max(s)}], words[Max(s)])
  <2>3. ASSUME NEW s \in SUBSET (1 .. i - 1) PROVE f[s] = g[s] /\ g[s] = W(g, s)
    <3>1. s \in SUBSET (1 .. i) /\ i \notin s
      BY <2>1
    <3>2. g[s] = W(g, s)
      BY <2>2 DEF Glues
    <3>3. QED BY <3>1, <3>2
  <2>4. ASSUME NEW s \in SUBSET (1 .. i) PROVE f[s] = W(f, s)
    <3>1. CASE i \in s
      <4>1. Max(s) = i /\ s # {}
        BY <2>1, <3>1, MaxOfInterval
      <4>2. s \ {i} \in SUBSET (1 .. i - 1)
        BY <2>1
      <4>3. f[s \ {i}] = g[s \ {i}]
        BY <2>3, <4>2
      <4>4. f[s] = Joined(g[s \ {i}], words[i])
        BY <3>1
      <4> HIDE DEF f
      <4>5. QED BY <4>1, <4>3, <4>4
    <3>2. CASE i \notin s
      <4>1. s \in SUBSET (1 .. i - 1)
        BY <2>1, <3>2
      <4>2. f[s] = g[s] /\ g[s] = W(g, s)
        BY <2>3, <4>1
      <4>3. s \ {Max(s)} \in SUBSET (1 .. i - 1)
        BY <4>1
      <4>4. f[s \ {Max(s)}] = g[s \ {Max(s)}]
        BY <2>3, <4>3
      <4> HIDE DEF f
      <4>5. QED BY <4>2, <4>4
    <3>3. QED BY <3>1, <3>2
  <2>5. f = [s \in SUBSET (1 .. i) |-> W(f, s)]
    BY <2>4
  <2> HIDE DEF f
  <2>6. Glues(base, words, 1 .. i, f)
    BY <2>5 DEF Glues
  <2>7. QED BY <1>1, <2>6
<1>4. QED BY <1>2, <1>3

(* Two, three and four words. *)
LEMMA GluedWords ==
  ASSUME NEW words, NEW m \in 1 .. 3, DOMAIN Tail(words) = 1 .. m
  PROVE  \E f : /\ Line(words) = f[m] /\ f[0] = Head(words)
                /\ \A j \in 0 .. m - 1 : f[j + 1] = Joined(f[j], Tail(words)[j + 1])
<1> DEFINE w == Tail(words)
<1>1. PICK g : /\ Glues(Head(words), w, 1 .. m, g)
               /\ Line(words) = g[1 .. m]
  <2>1. m \in Nat
    OBVIOUS
  <2>2. \E g : Glues(Head(words), w, 1 .. m, g)
    BY <2>1, GluesExist
  <2>3. QED BY <2>2, LineChosen
<1> DEFINE f == [k \in 0 .. m |-> g[1 .. k]]
<1>2. Line(words) = f[m]
  BY <1>1
<1>3. f[0] = Head(words)
  <2>1. 1 .. 0 = {} /\ {} \in SUBSET (1 .. m) /\ 0 \in 0 .. m
    OBVIOUS
  <2>2. g[{}] = Head(words)
    BY <1>1 DEF Glues
  <2>3. QED BY <2>1, <2>2
<1>4. ASSUME NEW j \in 0 .. m - 1 PROVE f[j + 1] = Joined(f[j], w[j + 1])
  <2>1. PICK k : k = j + 1
    OBVIOUS
  <2>2. 1 .. k \in SUBSET (1 .. m) /\ k \in 1 .. k /\ 1 .. k # {} /\ k \in Nat \ {0}
    <3>1. k \in Nat \ {0} /\ k <= m /\ m \in Nat
      BY <2>1
    <3>2. \A x \in 1 .. k : x \in 1 .. m
      BY <3>1
    <3>3. k \in 1 .. k
      BY <3>1
    <3>4. QED BY <3>1, <3>2, <3>3
  <2>3. Max(1 .. k) = k
    BY <2>2, MaxOfInterval
  <2>4. (1 .. k) \ {k} = 1 .. j
    BY <2>1, <2>2
  <2>5. g[1 .. k] = Joined(g[1 .. j], w[k])
    BY <1>1, <2>2, <2>3, <2>4 DEF Glues
  <2>6. j \in 0 .. m /\ k \in 0 .. m
    <3>1. j \in Nat /\ j < m /\ m \in Nat
      OBVIOUS
    <3>2. QED BY <2>1, <3>1
  <2>7. QED BY <2>1, <2>5, <2>6
<1> HIDE DEF f
<1>5. QED BY <1>2, <1>3, <1>4

LEMMA GluedSequence ==
  ASSUME NEW S, NEW words \in Seq(S), NEW m \in 1 .. 3, Len(words) = m + 1
  PROVE  \E f : /\ Line(words) = f[m] /\ f[0] = Head(words)
                /\ \A j \in 0 .. m - 1 : f[j + 1] = Joined(f[j], words[j + 2])
<1>1. words # <<>>
  OBVIOUS
<1>2. /\ Tail(words) \in Seq(S) /\ Len(Tail(words)) = m
      /\ \A i \in 1 .. m : Tail(words)[i] = words[i + 1]
  BY <1>1, HeadTailProperties
<1>3. DOMAIN Tail(words) = 1 .. m
  BY <1>2, LenProperties
<1>4. PICK f : /\ Line(words) = f[m] /\ f[0] = Head(words)
               /\ \A j \in 0 .. m - 1 : f[j + 1] = Joined(f[j], Tail(words)[j + 1])
  BY <1>3, GluedWords
<1>5. \A j \in 0 .. m - 1 : j + 1 \in 1 .. m /\ (j + 1) + 1 = j + 2
  OBVIOUS
<1>6. \A j \in 0 .. m - 1 : f[j + 1] = Joined(f[j], words[j + 2])
  BY <1>2, <1>4, <1>5
<1>7. QED BY <1>4, <1>6

LEMMA LineOfTwo ==
  ASSUME NEW a, NEW b
  PROVE  Line(<<a, b>>) = Joined(a, b)
<1>1. PICK S : a \in S /\ b \in S
  <2>1. a \in {a, b} /\ b \in {a, b}
    OBVIOUS
  <2>2. QED BY <2>1
<1>2. PICK w, m : w = <<a, b>> /\ m = 1
  OBVIOUS
<1>3. w \in Seq(S) /\ m \in 1 .. 3
  BY <1>1, <1>2
<1>4. Len(w) = m + 1 /\ Head(w) = a /\ w[2] = b
  BY <1>2
<1>5. PICK f : /\ Line(w) = f[m] /\ f[0] = Head(w)
               /\ \A j \in 0 .. m - 1 : f[j + 1] = Joined(f[j], w[j + 2])
  BY GluedSequence, <1>3, <1>4
<1>6. f[1] = Joined(f[0], w[2])
  <2>1. PICK j \in 0 .. m - 1 : j = 0 /\ j + 1 = 1 /\ j + 2 = 2
    BY <1>3, <1>2
  <2>2. f[j + 1] = Joined(f[j], w[j + 2])
    BY <1>5
  <2>3. QED BY <2>1, <2>2
<1>7. QED BY <1>2, <1>4, <1>5, <1>6

LEMMA LineOfThree ==
  ASSUME NEW a, NEW b, NEW c
  PROVE  Line(<<a, b, c>>) = Joined(Joined(a, b), c)
<1>1. PICK S : a \in S /\ b \in S /\ c \in S
  <2>1. a \in {a, b, c} /\ b \in {a, b, c} /\ c \in {a, b, c}
    OBVIOUS
  <2>2. QED BY <2>1
<1>2. PICK w, m : w = <<a, b, c>> /\ m = 2
  OBVIOUS
<1>3. w \in Seq(S) /\ m \in 1 .. 3
  BY <1>1, <1>2
<1>4. Len(w) = m + 1 /\ Head(w) = a /\ w[2] = b /\ w[3] = c
  BY <1>2
<1>5. PICK f : /\ Line(w) = f[m] /\ f[0] = Head(w)
               /\ \A j \in 0 .. m - 1 : f[j + 1] = Joined(f[j], w[j + 2])
  BY GluedSequence, <1>3, <1>4
<1>6. f[1] = Joined(f[0], w[2])
  <2>1. PICK j \in 0 .. m - 1 : j = 0 /\ j + 1 = 1 /\ j + 2 = 2
    BY <1>3, <1>2
  <2>2. f[j + 1] = Joined(f[j], w[j + 2])
    BY <1>5
  <2>3. QED BY <2>1, <2>2
<1>7. f[2] = Joined(f[1], w[3])
  <2>1. PICK j \in 0 .. m - 1 : j = 1 /\ j + 1 = 2 /\ j + 2 = 3
    BY <1>3, <1>2
  <2>2. f[j + 1] = Joined(f[j], w[j + 2])
    BY <1>5
  <2>3. QED BY <2>1, <2>2
<1>8. QED BY <1>2, <1>4, <1>5, <1>6, <1>7

LEMMA LineOfFour ==
  ASSUME NEW a, NEW b, NEW c, NEW d
  PROVE  Line(<<a, b, c, d>>) = Joined(Joined(Joined(a, b), c), d)
<1>1. PICK S : a \in S /\ b \in S /\ c \in S /\ d \in S
  <2>1. a \in {a, b, c, d} /\ b \in {a, b, c, d} /\ c \in {a, b, c, d} /\ d \in {a, b, c, d}
    OBVIOUS
  <2>2. QED BY <2>1
<1>2. PICK w, m : w = <<a, b, c, d>> /\ m = 3
  OBVIOUS
<1>3. w \in Seq(S) /\ m \in 1 .. 3
  BY <1>1, <1>2
<1>4. Len(w) = m + 1 /\ Head(w) = a /\ w[2] = b /\ w[3] = c /\ w[4] = d
  BY <1>2
<1>5. PICK f : /\ Line(w) = f[m] /\ f[0] = Head(w)
               /\ \A j \in 0 .. m - 1 : f[j + 1] = Joined(f[j], w[j + 2])
  BY GluedSequence, <1>3, <1>4
<1>6. f[1] = Joined(f[0], w[2])
  <2>1. PICK j \in 0 .. m - 1 : j = 0 /\ j + 1 = 1 /\ j + 2 = 2
    BY <1>3, <1>2
  <2>2. f[j + 1] = Joined(f[j], w[j + 2])
    BY <1>5
  <2>3. QED BY <2>1, <2>2
<1>7. f[2] = Joined(f[1], w[3])
  <2>1. PICK j \in 0 .. m - 1 : j = 1 /\ j + 1 = 2 /\ j + 2 = 3
    BY <1>3, <1>2
  <2>2. f[j + 1] = Joined(f[j], w[j + 2])
    BY <1>5
  <2>3. QED BY <2>1, <2>2
<1>8. f[3] = Joined(f[2], w[4])
  <2>1. PICK j \in 0 .. m - 1 : j = 2 /\ j + 1 = 3 /\ j + 2 = 4
    BY <1>3, <1>2
  <2>2. f[j + 1] = Joined(f[j], w[j + 2])
    BY <1>5
  <2>3. QED BY <2>1, <2>2
<1>9. QED BY <1>2, <1>4, <1>5, <1>6, <1>7, <1>8

Then(w, rest) == w \o (<<Blank>> \o rest)

Parted(text, a, b) ==
  /\ Len(text) = Len(a) + 1 + Len(b)
  /\ \A j \in 1 .. Len(a) : text[j] = a[j]
  /\ text[Len(a) + 1] = Blank
  /\ \A j \in 1 .. Len(b) : text[Len(a) + 1 + j] = b[j]

LEMMA ThenIs ==
  ASSUME NEW S, Blank \in S, NEW a \in Seq(S), NEW b \in Seq(S)
  PROVE  Then(a, b) \in Seq(S) /\ Parted(Then(a, b), a, b)
<1>2. PICK s \in Seq(S) : s = <<Blank>>
  <2>1. <<Blank>> \in Seq(S)
    OBVIOUS
  <2>2. QED BY <2>1
<1>4. Len(s) = 1 /\ s[1] = Blank /\ Len(a) \in Nat /\ Len(b) \in Nat
  BY <1>2, LenProperties
<1>5. PICK t \in Seq(S) : t = s \o b
  <2>1. s \o b \in Seq(S)
    BY ConcatProperties
  <2>2. QED BY <2>1
<1>6. /\ t \in Seq(S) /\ Len(t) = Len(s) + Len(b)
      /\ \A j \in 1 .. Len(s) + Len(b) : t[j] = IF j <= Len(s) THEN s[j] ELSE b[j - Len(s)]
  BY <1>5, ConcatProperties
<1>7. /\ Len(t) = 1 + Len(b) /\ t[1] = Blank
      /\ \A j \in 1 .. Len(b) : t[1 + j] = b[j]
  <2>1. 1 \in 1 .. Len(s) + Len(b) /\ 1 <= Len(s)
    BY <1>4
  <2>2. ASSUME NEW j \in 1 .. Len(b) PROVE t[1 + j] = b[j]
    <3>1. 1 + j \in 1 .. Len(s) + Len(b) /\ ~(1 + j <= Len(s)) /\ 1 + j - Len(s) = j
      BY <1>4
    <3>2. QED BY <1>6, <3>1
  <2>3. QED BY <1>4, <1>6, <2>1, <2>2
<1>8. PICK u : u = a \o t
  OBVIOUS
<1>9. /\ u \in Seq(S) /\ Len(u) = Len(a) + Len(t)
      /\ \A j \in 1 .. Len(a) + Len(t) : u[j] = IF j <= Len(a) THEN a[j] ELSE t[j - Len(a)]
  BY <1>8, ConcatProperties
<1>10. ASSUME NEW j \in 1 .. Len(a) PROVE u[j] = a[j]
  <2>1. j \in 1 .. Len(a) + Len(t) /\ j <= Len(a)
    BY <1>4, <1>7
  <2>2. QED BY <1>9, <2>1
<1>3. u[Len(a) + 1] = Blank
  <2>1. /\ Len(a) + 1 \in 1 .. Len(a) + Len(t) /\ ~(Len(a) + 1 <= Len(a))
        /\ (Len(a) + 1) - Len(a) = 1
    BY <1>4, <1>7
  <2>2. QED BY <1>7, <1>9, <2>1
<1>12. ASSUME NEW j \in 1 .. Len(b) PROVE u[Len(a) + 1 + j] = b[j]
  <2>1. /\ Len(a) + 1 + j \in 1 .. Len(a) + Len(t) /\ ~(Len(a) + 1 + j <= Len(a))
        /\ (Len(a) + 1 + j) - Len(a) = 1 + j
    BY <1>4, <1>7
  <2>2. u[Len(a) + 1 + j] = t[1 + j]
    BY <1>9, <2>1
  <2>3. QED BY <1>7, <2>2
<1>13. Then(a, b) = u
  BY <1>2, <1>5, <1>8 DEF Then
<1>14. Len(u) = Len(a) + 1 + Len(b)
  BY <1>4, <1>7, <1>9
<1>15. Parted(u, a, b)
  BY <1>10, <1>3, <1>12, <1>14 DEF Parted
<1>16. QED BY <1>9, <1>13, <1>15

(* Concatenation under a name of its own. *)
Cat(p, q) == p \o q

LEMMA CatAssociative ==
  ASSUME NEW S, NEW p \in Seq(S), NEW q \in Seq(S), NEW r \in Seq(S)
  PROVE  Cat(p, q) \in Seq(S) /\ Cat(Cat(p, q), r) = Cat(p, Cat(q, r))
<1>2. p \o q \in Seq(S)
  BY ConcatProperties
<1>4. (p \o q) \o r = p \o (q \o r)
  BY ConcatAssociative
<1>5. QED BY <1>2, <1>4 DEF Cat

LEMMA JoinedIs ==
  ASSUME NEW S, Blank \in S, NEW x \in Seq(S), NEW y \in Seq(S)
  PROVE  Joined(x, y) = Then(x, y)
<1>2. <<Blank>> \in Seq(S)
  OBVIOUS
<1>4. (x \o <<Blank>>) \o y = x \o (<<Blank>> \o y)
  BY <1>2, ConcatAssociative
<1>5. QED BY <1>4 DEF Joined, Then

LEMMA ThenJoined ==
  ASSUME NEW S, Blank \in S, NEW x \in Seq(S), NEW y \in Seq(S), NEW z \in Seq(S)
  PROVE  Joined(Then(x, y), z) = Then(x, Then(y, z))
<1>2. PICK s \in Seq(S) : s = <<Blank>>
  <2>1. <<Blank>> \in Seq(S)
    OBVIOUS
  <2>2. QED BY <2>1
<1>4. PICK u \in Seq(S) : u = Then(x, y)
  BY ThenIs
<1>5. Joined(u, z) = Then(u, z)
  BY JoinedIs
<1>6. ASSUME NEW p, NEW q PROVE Then(p, q) = Cat(p, Cat(s, q))
  BY <1>2 DEF Then, Cat
<1>7. Cat(s, y) \in Seq(S) /\ Cat(s, z) \in Seq(S)
  BY CatAssociative
<1>8. Cat(Cat(x, Cat(s, y)), Cat(s, z)) = Cat(x, Cat(Cat(s, y), Cat(s, z)))
  BY <1>7, CatAssociative
<1>9. Cat(Cat(s, y), Cat(s, z)) = Cat(s, Cat(y, Cat(s, z)))
  BY <1>7, CatAssociative
<1>10. QED BY <1>4, <1>5, <1>6, <1>8, <1>9

LEMMA ThenOfTwo ==
  ASSUME NEW S, Blank \in S, NEW a \in Seq(S), NEW b \in Seq(S)
  PROVE  Line(<<a, b>>) = Then(a, b)
<1>2. Joined(a, b) = Then(a, b)
  BY JoinedIs
<1>4. Line(<<a, b>>) = Joined(a, b)
  BY LineOfTwo
<1>5. QED BY <1>2, <1>4

LEMMA ThenOfThree ==
  ASSUME NEW S, Blank \in S, NEW a \in Seq(S), NEW b \in Seq(S), NEW c \in Seq(S)
  PROVE  Line(<<a, b, c>>) = Then(a, Then(b, c))
<1>2. Joined(a, b) = Then(a, b)
  BY JoinedIs
<1>4. Joined(Then(a, b), c) = Then(a, Then(b, c))
  BY ThenJoined
<1>5. Line(<<a, b, c>>) = Joined(Joined(a, b), c)
  BY LineOfThree
<1>6. QED BY <1>2, <1>4, <1>5

LEMMA ThenOfFour ==
  ASSUME NEW S, Blank \in S, NEW a \in Seq(S), NEW b \in Seq(S), NEW c \in Seq(S), NEW d \in Seq(S)
  PROVE  Line(<<a, b, c, d>>) = Then(a, Then(b, Then(c, d)))
<1>2. Joined(a, b) = Then(a, b)
  BY JoinedIs
<1>4. Joined(Then(a, b), c) = Then(a, Then(b, c))
  BY ThenJoined
<1>5. Joined(Then(a, Then(b, c)), d) = Then(a, Then(b, Then(c, d)))
  <2>1. PICK v \in Seq(S) : v = Then(b, c)
    BY ThenIs
  <2>2. Joined(Then(a, v), d) = Then(a, Then(v, d))
    BY ThenJoined
  <2>3. Then(v, d) = Joined(v, d)
    BY JoinedIs
  <2>4. Joined(Then(b, c), d) = Then(b, Then(c, d))
    BY ThenJoined
  <2>5. QED BY <2>1, <2>2, <2>3, <2>4
<1>6. Line(<<a, b, c, d>>) = Joined(Joined(Joined(a, b), c), d)
  BY LineOfFour
<1>7. QED BY <1>2, <1>4, <1>5, <1>6
-----------------------------------------------------------------------------
(* Arguments of such lines. *)

LEMMA TakesWord ==
  ASSUME NEW b, NEW w \in Seq(Letters), NEW rest \in Texts, Holds(b, Then(w, rest))
  PROVE  /\ get_arg_in_command(b) = w /\ Finds_blank(b)
         /\ Holds(separate(b), rest) /\ separate(b)[Len(rest) + 1] = Nul
         /\ \A j \in Positions : j > Len(rest) + 1 => separate(b)[j] = b[j]
<1>1. PICK text : text = Then(w, rest)
  OBVIOUS
<1>2. w \in Texts /\ Len(w) \in Nat /\ Len(rest) \in Nat
  <2>1. w \in Seq(Letters \cup {Blank}) /\ rest \in Seq(Letters \cup {Blank})
    BY SeqMonotonic DEF Texts
  <2>2. QED BY <2>1, LenProperties DEF Texts
<1>3. /\ text \in Texts /\ Len(text) = Len(w) + 1 + Len(rest)
      /\ \A j \in 1 .. Len(w) : text[j] = w[j]
      /\ text[Len(w) + 1] = Blank
      /\ \A j \in 1 .. Len(rest) : text[Len(w) + 1 + j] = rest[j]
  <2>1. PICK S : S = Letters \cup {Blank}
    OBVIOUS
  <2>2. Blank \in S /\ w \in Seq(S) /\ rest \in Seq(S)
    BY <1>2, <2>1 DEF Texts
  <2>3. Then(w, rest) \in Seq(S) /\ Parted(Then(w, rest), w, rest)
    BY <2>2, ThenIs
  <2>4. QED BY <1>1, <2>1, <2>3 DEF Texts, Parted
<1>4. PICK n \in Nat : n = Len(w)
  BY <1>2
<1>5. Holds(b, text) /\ n < Len(text) /\ n \in 0 .. Len(text) /\ text[n + 1] = Blank
  BY <1>1, <1>2, <1>3, <1>4
<1>6. \A j \in 1 .. n : text[j] # Blank
  <2>1. \A j \in 1 .. n : w[j] \in Letters
    BY <1>4, ElementOfSeq
  <2>2. QED BY <1>3, <1>4, <2>1, FourCharacters
<1>7. get_arg_in_command(b) = w
  <2>1. PICK v : v = get_arg_in_command(b)
    OBVIOUS
  <2>2. v \in Seq(Letters) /\ Len(v) = n /\ \A j \in 1 .. n : v[j] = text[j]
    BY <1>5, <1>6, <2>1, FirstWord
  <2>3. Len(v) = Len(w) /\ \A j \in 1 .. Len(v) : v[j] = w[j]
    BY <1>3, <1>4, <2>2
  <2>4. v = w
    BY <2>2, <2>3, SeqEqual
  <2>5. QED BY <2>1, <2>4
<1>8. /\ Finds_blank(b) /\ separate(b) \in [Positions -> Chars]
      /\ \A j \in 1 .. Len(text) - n - 1 : separate(b)[j] = text[n + 1 + j]
      /\ separate(b)[Len(text) - n] = Nul
      /\ \A j \in Positions : j > Len(text) - n => separate(b)[j] = b[j]
  BY <1>5, <1>6, DropsWord
<1>9. Len(text) - n = Len(rest) + 1 /\ Len(text) - n - 1 = Len(rest)
  BY <1>2, <1>3, <1>4
<1>10. \A j \in 1 .. Len(rest) : separate(b)[j] = rest[j]
  BY <1>3, <1>4, <1>8, <1>9
<1>11. Len(rest) < BUFFER_SIZE
  BY <1>2, <1>3, <1>5, TextAssumption DEF Holds
<1>12. Holds(separate(b), rest)
  BY <1>8, <1>9, <1>10, <1>11 DEF Holds
<1>13. QED BY <1>7, <1>8, <1>9, <1>12

LEMMA LastWord ==
  ASSUME NEW b, NEW w \in Seq(Letters), Holds(b, w)
  PROVE  get_arg_in_command(b) = w
<1>1. PICK n \in Nat : n = Len(w) /\ n \in 0 .. Len(w)
  BY LenProperties
<1>2. \A j \in 1 .. n : w[j] # Blank
  <2>1. \A j \in 1 .. n : w[j] \in Letters
    BY <1>1, ElementOfSeq
  <2>2. QED BY <2>1, FourCharacters
<1>3. PICK v : v = get_arg_in_command(b)
  OBVIOUS
<1>4. v \in Seq(Letters) /\ Len(v) = n /\ \A j \in 1 .. n : v[j] = w[j]
  BY <1>1, <1>2, <1>3, FirstWord
<1>5. v = w
  BY <1>1, <1>4, SeqEqual
<1>6. QED BY <1>3, <1>5

(* What readline leaves holds the line up to its newline. *)
LEMMA LineHolds ==
  ASSUME NEW l \in Seq(Letters \cup {Blank, Newline}), Len(l) < BUFFER_SIZE, NEW text \in Texts,
         Len(text) <= Len(l), \A j \in 1 .. Len(text) : text[j] = l[j],
         Len(text) = Len(l) \/ l[Len(text) + 1] = Newline
  PROVE  Holds(Holding(l), text)
<1>1. /\ Len(l) \in Nat /\ Len(text) \in Nat /\ BUFFER_SIZE \in Nat
      /\ \A j \in 1 .. Len(l) : l[j] \in Letters \cup {Blank, Newline}
  BY LenProperties, ElementOfSeq, TextAssumption DEF Texts
<1>2. PICK h : h = Holding(l)
  OBVIOUS
<1>3. \A j \in Positions : h[j] = IF j <= Len(l) THEN l[j] ELSE Nul
  BY <1>2 DEF Holding
<1>4. h \in [Positions -> Chars]
  <2>1. ASSUME NEW j \in Positions PROVE (IF j <= Len(l) THEN l[j] ELSE Nul) \in Chars
    BY <1>1 DEF Positions, Chars
  <2>2. QED BY <1>2, <2>1 DEF Holding
<1>5. ASSUME NEW j \in 1 .. Len(text) PROVE h[j] = text[j]
  <2>1. j \in Positions /\ j <= Len(l)
    BY <1>1 DEF Positions
  <2>2. QED BY <1>3, <2>1
<1>6. h[Len(text) + 1] \in {Newline, Nul}
  <2>1. PICK j \in Positions : j = Len(text) + 1
    BY <1>1 DEF Positions
  <2>2. CASE j <= Len(l)
    BY <1>1, <1>3, <2>1, <2>2
  <2>3. CASE ~(j <= Len(l))
    BY <1>3, <2>1, <2>3
  <2>4. QED BY <2>1, <2>2, <2>3
<1>7. Len(text) < BUFFER_SIZE
  BY <1>1
<1>8. QED BY <1>2, <1>4, <1>5, <1>6, <1>7 DEF Holds

LEMMA RestIs ==
  ASSUME NEW b
  PROVE  /\ Arg(b, 1) = get_arg_in_command(b)
         /\ Arg(b, 2) = get_arg_in_command(separate(b))
         /\ Arg(b, 3) = get_arg_in_command(separate(separate(b)))
         /\ Arg(b, 4) = get_arg_in_command(separate(separate(separate(b))))
         /\ Arg(b, 5) = get_arg_in_command(separate(separate(separate(separate(b)))))
<1>1. Rest(b, 0) = b
  BY RestSteps
<1>2. ASSUME NEW n \in Nat, NEW m \in Nat, m = n + 1 PROVE Rest(b, m) = separate(Rest(b, n))
  BY <1>2, RestSteps
<1>3. Rest(b, 1) = separate(Rest(b, 0)) /\ Rest(b, 2) = separate(Rest(b, 1))
  BY <1>2
<1>4. Rest(b, 3) = separate(Rest(b, 2)) /\ Rest(b, 4) = separate(Rest(b, 3))
  BY <1>2
<1>5. QED BY <1>1, <1>3, <1>4 DEF Arg

LEMMA WordIs ==
  ASSUME NEW x \in Letters, NEW n \in Nat
  PROVE  /\ Word(x, n) \in Seq(Letters) /\ Len(Word(x, n)) = n
         /\ \A j \in 1 .. n : Word(x, n)[j] = x
BY DEF Word

(* The word behind a buffer's first blank. *)
LEMMA WordBehindBlank ==
  ASSUME NEW b \in [Positions -> Chars], b[BUFFER_SIZE] = Nul,
         NEW i \in Positions, b[i] = Blank, \A j \in 1 .. i - 1 : b[j] # Blank,
         NEW x \in Letters, NEW n \in Nat, NEW m \in Positions, m = i + n + 1,
         \A j \in i + 1 .. m - 1 : b[j] = x, b[m] \in {Blank, Newline, Nul}
  PROVE  get_arg_in_command(separate(b)) = Word(x, n)
<1>1. /\ BUFFER_SIZE \in Nat \ {0} /\ i \in 1 .. BUFFER_SIZE /\ m \in 1 .. BUFFER_SIZE
      /\ i < m /\ i + 1 \in Nat \ {0} /\ 1 \in Nat \ {0}
  BY TextAssumption DEF Positions
<1>2. Next_in(b, 1, {Blank}) = i
  <2>1. b[i] \in {Blank} /\ i >= 1
    BY <1>1
  <2>2. \A j \in Positions : j >= 1 /\ j < i => b[j] \notin {Blank}
    BY <1>1 DEF Positions
  <2>3. QED BY <1>1, <2>1, <2>2, NextIs
<1>3. PICK t : t = Next_in(b, i + 1, {Newline, Nul})
  OBVIOUS
<1>4. /\ t \in 1 .. BUFFER_SIZE + 1
      /\ \A j \in Positions : j >= i + 1 /\ j < t => b[j] \notin {Newline, Nul}
      /\ t <= BUFFER_SIZE => t >= i + 1 /\ b[t] \in {Newline, Nul}
  BY <1>1, <1>3, NextIn
<1>5. t \in Positions
  <2>1. BUFFER_SIZE \in Positions /\ BUFFER_SIZE >= i + 1 /\ b[BUFFER_SIZE] \in {Newline, Nul}
    BY <1>1 DEF Positions
  <2>2. ~(BUFFER_SIZE < t)
    BY <1>4, <2>1
  <2>3. QED BY <1>1, <1>4, <2>2 DEF Positions
<1>6. m <= t
  <2>1. t \in 1 .. BUFFER_SIZE /\ t >= i + 1 /\ b[t] \in {Newline, Nul}
    BY <1>1, <1>4, <1>5 DEF Positions
  <2>2. ASSUME t < m PROVE FALSE
    <3>1. t \in i + 1 .. m - 1
      BY <1>1, <2>1, <2>2
    <3>2. b[t] = x
      BY <3>1
    <3>3. QED BY <2>1, <3>2, FourCharacters
  <2>3. QED BY <1>1, <2>1, <2>2
<1>7. PICK g : g = separate(b)
  OBVIOUS
<1>8. /\ g \in [Positions -> Chars]
      /\ \A j \in Positions : g[j] = IF j <= t - i - 1 THEN b[i + j]
                                     ELSE IF j = t - i THEN Nul ELSE b[j]
  <2>1. Splits(b, i, t)
    BY <1>2, <1>3, <1>5 DEF Splits
  <2>2. QED BY <1>7, <2>1, SeparateIs
<1>9. ASSUME NEW j \in 1 .. n PROVE g[j] = x
  <2>1. j \in Positions /\ j <= t - i - 1 /\ i + j \in i + 1 .. m - 1
    BY <1>1, <1>4, <1>6 DEF Positions
  <2>2. QED BY <1>8, <2>1
<1>10. PICK k \in Positions : k = n + 1
  BY <1>1 DEF Positions
<1>11. g[k] \in {Blank, Newline, Nul}
  <2>1. CASE m = t
    <3>1. ~(k <= t - i - 1) /\ k = t - i
      BY <1>1, <1>10, <2>1
    <3>2. QED BY <1>8, <3>1
  <2>2. CASE m # t
    <3>1. k <= t - i - 1 /\ i + k = m
      BY <1>1, <1>4, <1>6, <1>10, <2>2
    <3>2. QED BY <1>8, <3>1
  <2>3. QED BY <2>1, <2>2
<1>12. Next_in(g, 1, {Blank, Newline, Nul}) = k
  <2>1. ASSUME NEW j \in Positions, j >= 1, j < k PROVE g[j] \notin {Blank, Newline, Nul}
    <3>1. j \in 1 .. n
      BY <1>1, <1>10, <2>1 DEF Positions
    <3>2. QED BY <1>9, <3>1, FourCharacters
  <2>2. k >= 1
    BY <1>10
  <2>3. QED BY <1>1, <1>11, <2>1, <2>2, NextIs
<1>13. get_arg_in_command(g) = SubSeq(g, 1, n)
  <2>1. k - 1 = n
    BY <1>10
  <2>2. QED BY <1>12, <2>1 DEF get_arg_in_command
<1>14. /\ SubSeq(g, 1, n) \in Seq(Letters) /\ Len(SubSeq(g, 1, n)) = n
       /\ \A j \in 1 .. n : SubSeq(g, 1, n)[j] = g[j]
  <2>1. \A j \in 1 .. n : g[j] \in Letters
    BY <1>9
  <2>2. QED BY <2>1, FirstCharacters
<1>15. \A j \in 1 .. n : SubSeq(g, 1, n)[j] = Word(x, n)[j]
  BY <1>9, <1>14, WordIs
<1>16. SubSeq(g, 1, n) = Word(x, n)
  BY <1>14, <1>15, WordIs, SeqEqual
<1>17. QED BY <1>7, <1>13, <1>16
-----------------------------------------------------------------------------
(* The lines of a transfer. *)

Lengths ==
  length \in [sender : 1 .. MaxNick, receiver : 1 .. MaxNick,
              file : 1 .. MaxName, size : 1 .. MaxDigits]

(* The longest words leave room in the buffer. *)
Roomy ==
  /\ MaxNick \in Nat /\ MaxName \in Nat /\ MaxDigits \in Nat
  /\ PortLength \in Nat /\ AddressLength \in Nat
  /\ PortLength > 0 /\ AddressLength > 0 /\ BUFFER_SIZE \in Nat
  /\ 2 * MaxNick + 2 * MaxName + MaxDigits + PortLength + AddressLength + 14
       < BUFFER_SIZE

LEMMA BufferIsRoomy == Roomy
BY LinesAssumption, TextAssumption DEF Roomy

LEMMA WordsAre ==
  ASSUME Lengths
  PROVE  /\ length.sender \in 1 .. MaxNick /\ length.receiver \in 1 .. MaxNick
         /\ length.file \in 1 .. MaxName /\ length.size \in 1 .. MaxDigits
         /\ Roomy
         /\ {"c", "s", "r", "f", "d", "p", "i"} \subseteq Letters
         /\ {Sender, Receiver, File, Size, Port, Address} \subseteq Seq(Letters)
         /\ \A n \in Nat : Word("c", n) \in Seq(Letters) /\ Len(Word("c", n)) = n
         /\ Len(Sender) = length.sender /\ Len(Receiver) = length.receiver
         /\ Len(File) = length.file /\ Len(Size) = length.size
         /\ Len(Port) = PortLength /\ Len(Address) = AddressLength
<1>1. /\ length.sender \in 1 .. MaxNick /\ length.receiver \in 1 .. MaxNick
      /\ length.file \in 1 .. MaxName /\ length.size \in 1 .. MaxDigits
  BY DEF Lengths
<1>2. {"c", "s", "r", "f", "d", "p", "i"} \subseteq Letters
  BY LinesAssumption
<1>3. Roomy
  BY BufferIsRoomy
<1>4. /\ length.sender \in Nat /\ length.receiver \in Nat
      /\ length.file \in Nat /\ length.size \in Nat
      /\ "s" \in Letters /\ "r" \in Letters /\ "f" \in Letters /\ "d" \in Letters
  BY <1>1, <1>2, <1>3 DEF Roomy
<1>5. /\ Sender \in Seq(Letters) /\ Len(Sender) = length.sender
      /\ Receiver \in Seq(Letters) /\ Len(Receiver) = length.receiver
      /\ File \in Seq(Letters) /\ Len(File) = length.file
      /\ Size \in Seq(Letters) /\ Len(Size) = length.size
  <2>1. Sender \in Seq(Letters) /\ Len(Sender) = length.sender
    BY <1>4, WordIs DEF Sender
  <2>2. Receiver \in Seq(Letters) /\ Len(Receiver) = length.receiver
    BY <1>4, WordIs DEF Receiver
  <2>3. File \in Seq(Letters) /\ Len(File) = length.file
    BY <1>4, WordIs DEF File
  <2>4. Size \in Seq(Letters) /\ Len(Size) = length.size
    BY <1>4, WordIs DEF Size
  <2>5. QED BY <2>1, <2>2, <2>3, <2>4
<1>6. /\ Port \in Seq(Letters) /\ Len(Port) = PortLength
      /\ Address \in Seq(Letters) /\ Len(Address) = AddressLength
  BY <1>2, <1>3, WordIs DEF Port, Address, Roomy
<1>7. \A n \in Nat : Word("c", n) \in Seq(Letters) /\ Len(Word("c", n)) = n
  BY <1>2, WordIs
<1>8. QED BY <1>1, <1>2, <1>3, <1>4, <1>5, <1>6, <1>7

LEMMA NewlineIs ==
  ASSUME NEW S, Newline \in S, NEW a \in Seq(S)
  PROVE  LET l == a \o <<Newline>>
         IN  /\ l \in Seq(S) /\ Len(l) = Len(a) + 1
             /\ \A j \in 1 .. Len(a) : l[j] = a[j]
             /\ l[Len(a) + 1] = Newline
<1>1. PICK s \in Seq(S) : s = <<Newline>>
  <2>1. <<Newline>> \in Seq(S)
    OBVIOUS
  <2>2. QED BY <2>1
<1>2. Len(s) = 1 /\ s[1] = Newline /\ Len(a) \in Nat
  BY <1>1, LenProperties
<1>3. PICK l : l = a \o s
  OBVIOUS
<1>4. /\ l \in Seq(S) /\ Len(l) = Len(a) + Len(s)
      /\ \A j \in 1 .. Len(a) + Len(s) : l[j] = IF j <= Len(a) THEN a[j] ELSE s[j - Len(a)]
  BY <1>3, ConcatProperties
<1>5. \A j \in 1 .. Len(a) : l[j] = a[j]
  <2> TAKE j \in 1 .. Len(a)
  <2>1. j \in 1 .. Len(a) + Len(s) /\ j <= Len(a)
    BY <1>2
  <2>2. QED BY <1>4, <2>1
<1>6. l[Len(a) + 1] = Newline
  <2>1. /\ Len(a) + 1 \in 1 .. Len(a) + Len(s) /\ ~(Len(a) + 1 <= Len(a))
        /\ (Len(a) + 1) - Len(a) = 1
    BY <1>2
  <2>2. QED BY <1>2, <1>4, <2>1
<1>7. QED BY <1>1, <1>2, <1>3, <1>4, <1>5, <1>6

LEMMA ThenText ==
  ASSUME NEW a \in Texts, NEW b \in Texts
  PROVE  Then(a, b) \in Texts /\ Parted(Then(a, b), a, b)
<1>1. PICK S : S = Letters \cup {Blank}
  OBVIOUS
<1>2. Blank \in S /\ a \in Seq(S) /\ b \in Seq(S)
  BY <1>1 DEF Texts
<1>3. Then(a, b) \in Seq(S) /\ Parted(Then(a, b), a, b)
  BY <1>2, ThenIs
<1>4. QED BY <1>1, <1>3 DEF Texts

LEMMA WordsAreTexts ==
  ASSUME NEW w \in Seq(Letters)
  PROVE  w \in Texts
<1>1. w \in Seq(Letters \cup {Blank})
  BY SeqMonotonic
<1>2. QED BY <1>1 DEF Texts

LEMMA TextsAreLines ==
  ASSUME NEW t \in Texts
  PROVE  t \in Seq(Letters \cup {Blank, Newline})
<1>1. Seq(Letters \cup {Blank}) \subseteq Seq(Letters \cup {Blank, Newline})
  <2>1. Letters \cup {Blank} \subseteq Letters \cup {Blank, Newline}
    OBVIOUS
  <2>2. QED BY <2>1, SeqMonotonic
<1>2. QED BY <1>1 DEF Texts

(* The line SEND reads, character by character. *)
Request == Then(Word("c", 5), Then(Receiver, File))

Sent == Then(Request \o <<Newline>>, Size)

Measures(r, f, d) ==
  r = length.receiver /\ f = length.file /\ d = length.size

LEMMA SentIs ==
  ASSUME Lengths, NEW r, NEW f, NEW d, Measures(r, f, d)
  PROVE  /\ Request \in Texts /\ Len(Request) = 7 + r + f
         /\ Then(Receiver, File) \in Texts /\ Len(Then(Receiver, File)) = r + 1 + f
         /\ \A j \in 1 .. r : Then(Receiver, File)[j] = "r"
         /\ Then(Receiver, File)[r + 1] = Blank
         /\ \A j \in r + 2 .. r + 1 + f : Then(Receiver, File)[j] = "f"
         /\ Sent \in Seq(Letters \cup {Blank, Newline}) /\ Len(Sent) = 9 + r + f + d
         /\ \A j \in 1 .. 7 + r + f : Sent[j] = Request[j]
         /\ \A j \in 1 .. 5 : Sent[j] = "c"
         /\ Sent[6] = Blank
         /\ \A j \in 7 .. 6 + r : Sent[j] = "r"
         /\ Sent[7 + r] = Blank
         /\ \A j \in 8 + r .. 7 + r + f : Sent[j] = "f"
         /\ Sent[8 + r + f] = Newline /\ Sent[9 + r + f] = Blank
         /\ \A j \in 10 + r + f .. 9 + r + f + d : Sent[j] = "d"
<1>1. /\ r \in Nat /\ f \in Nat /\ d \in Nat
      /\ Receiver \in Seq(Letters) /\ Len(Receiver) = r
      /\ File \in Seq(Letters) /\ Len(File) = f
      /\ Size \in Seq(Letters) /\ Len(Size) = d
      /\ {"c", "r", "f", "d"} \subseteq Letters
  <2>1. /\ length.receiver \in 1 .. MaxNick /\ length.file \in 1 .. MaxName
        /\ length.size \in 1 .. MaxDigits
    BY WordsAre
  <2>2. r \in Nat /\ f \in Nat /\ d \in Nat
    BY <2>1, BufferIsRoomy DEF Measures, Roomy
  <2>3. /\ Receiver \in Seq(Letters) /\ File \in Seq(Letters) /\ Size \in Seq(Letters)
        /\ {"c", "s", "r", "f", "d", "p", "i"} \subseteq Letters
    BY WordsAre
  <2>4. /\ Len(Receiver) = length.receiver /\ Len(File) = length.file
        /\ Len(Size) = length.size
    BY WordsAre
  <2>5. QED BY <2>2, <2>3, <2>4 DEF Measures
<1>2. PICK c \in Seq(Letters) : c = Word("c", 5) /\ Len(c) = 5
  <2>1. 5 \in Nat
    OBVIOUS
  <2>2. QED BY <2>1, WordsAre
<1>3. /\ \A j \in 1 .. 5 : c[j] = "c"
      /\ \A j \in 1 .. r : Receiver[j] = "r"
      /\ \A j \in 1 .. f : File[j] = "f"
      /\ \A j \in 1 .. d : Size[j] = "d"
  <2>1. \A j \in 1 .. 5 : c[j] = "c"
    BY <1>2 DEF Word
  <2>2. \A j \in 1 .. r : Receiver[j] = "r"
    BY DEF Word, Receiver, Measures
  <2>3. \A j \in 1 .. f : File[j] = "f"
    BY DEF Word, File, Measures
  <2>4. \A j \in 1 .. d : Size[j] = "d"
    BY DEF Word, Size, Measures
  <2>5. QED BY <2>1, <2>2, <2>3, <2>4
<1>4. PICK q : q = Then(Receiver, File)
  OBVIOUS
<1>5. q \in Texts /\ Parted(q, Receiver, File)
  BY <1>1, <1>4, WordsAreTexts, ThenText
<1>6. /\ Len(q) = r + 1 + f /\ q[r + 1] = Blank
      /\ \A j \in 1 .. r : q[j] = "r"
      /\ \A j \in 1 .. f : q[r + 1 + j] = "f"
  <2>1. /\ Len(q) = Len(Receiver) + 1 + Len(File)
        /\ \A j \in 1 .. Len(Receiver) : q[j] = Receiver[j]
        /\ q[Len(Receiver) + 1] = Blank
        /\ \A j \in 1 .. Len(File) : q[Len(Receiver) + 1 + j] = File[j]
    BY <1>5 DEF Parted
  <2>2. /\ Len(q) = r + 1 + f /\ q[r + 1] = Blank
        /\ \A j \in 1 .. r : q[j] = Receiver[j]
        /\ \A j \in 1 .. f : q[r + 1 + j] = File[j]
    BY <1>1, <2>1
  <2>3. QED BY <1>3, <2>2
<1>7. \A j \in r + 2 .. r + 1 + f : q[j] = "f"
  <2> TAKE j \in r + 2 .. r + 1 + f
  <2>1. j - (r + 1) \in 1 .. f /\ r + 1 + (j - (r + 1)) = j
    BY <1>1
  <2>2. QED BY <1>6, <2>1
<1>8. PICK t : t = Then(c, q)
  OBVIOUS
<1>9. t \in Texts /\ Parted(t, c, q) /\ t = Request
  BY <1>2, <1>4, <1>5, <1>8, WordsAreTexts, ThenText DEF Request
<1>10. /\ Len(t) = 7 + r + f /\ t[6] = Blank
       /\ \A j \in 1 .. 5 : t[j] = "c"
       /\ \A j \in 1 .. r + 1 + f : t[6 + j] = q[j]
  <2>1. /\ Len(t) = Len(c) + 1 + Len(q)
        /\ \A j \in 1 .. Len(c) : t[j] = c[j]
        /\ t[Len(c) + 1] = Blank
        /\ \A j \in 1 .. Len(q) : t[Len(c) + 1 + j] = q[j]
    BY <1>9 DEF Parted
  <2>2. Len(c) + 1 = 6 /\ Len(c) + 1 + Len(q) = 7 + r + f
    <3>1. Len(c) = 5 /\ Len(q) = r + 1 + f
      BY <1>2, <1>6
    <3>2. 5 + 1 = 6 /\ 6 + (r + 1 + f) = 7 + r + f
      BY <1>1
    <3>3. QED BY <3>1, <3>2
  <2>3. \A j \in 1 .. 5 : t[j] = "c"
    BY <1>2, <1>3, <2>1
  <2>4. \A j \in 1 .. r + 1 + f : t[6 + j] = q[j]
    BY <1>6, <2>1, <2>2
  <2>5. QED BY <2>1, <2>2, <2>3, <2>4
<1>11. PICK S : S = Letters \cup {Blank, Newline}
  OBVIOUS
<1>12. Newline \in S /\ Blank \in S /\ t \in Seq(S) /\ Size \in Seq(S)
  BY <1>1, <1>9, <1>11, WordsAreTexts, TextsAreLines
<1>13. PICK n : n = t \o <<Newline>>
  OBVIOUS
<1>14. /\ n \in Seq(S) /\ Len(n) = 8 + r + f
       /\ \A j \in 1 .. 7 + r + f : n[j] = t[j]
       /\ n[8 + r + f] = Newline
  <2>1. /\ n \in Seq(S) /\ Len(n) = Len(t) + 1
        /\ \A j \in 1 .. Len(t) : n[j] = t[j]
        /\ n[Len(t) + 1] = Newline
    BY <1>12, <1>13, NewlineIs
  <2>2. Len(t) + 1 = 8 + r + f
    BY <1>1, <1>10
  <2>3. QED BY <1>10, <2>1, <2>2
<1>15. PICK l : l = Then(n, Size)
  OBVIOUS
<1>16. l \in Seq(S) /\ Parted(l, n, Size) /\ l = Sent
  BY <1>9, <1>12, <1>13, <1>14, <1>15, ThenIs DEF Sent
<1>17. /\ Len(l) = 9 + r + f + d /\ l[9 + r + f] = Blank
       /\ \A j \in 1 .. 8 + r + f : l[j] = n[j]
       /\ \A j \in 1 .. d : l[9 + r + f + j] = "d"
  <2>1. /\ Len(l) = Len(n) + 1 + Len(Size)
        /\ \A j \in 1 .. Len(n) : l[j] = n[j]
        /\ l[Len(n) + 1] = Blank
        /\ \A j \in 1 .. Len(Size) : l[Len(n) + 1 + j] = Size[j]
    BY <1>16 DEF Parted
  <2>2. /\ Len(n) + 1 = 9 + r + f /\ Len(n) = 8 + r + f
        /\ Len(n) + 1 + Len(Size) = 9 + r + f + d
    BY <1>1, <1>14
  <2>3. \A j \in 1 .. 8 + r + f : l[j] = n[j]
    BY <2>1, <2>2
  <2>4. \A j \in 1 .. d : l[9 + r + f + j] = "d"
    <3>1. \A j \in 1 .. d : l[9 + r + f + j] = Size[j]
      BY <1>1, <2>1, <2>2
    <3>2. QED BY <1>3, <3>1
  <2>5. QED BY <2>1, <2>2, <2>3, <2>4
<1>18. \A j \in 10 + r + f .. 9 + r + f + d : l[j] = "d"
  <2> TAKE j \in 10 + r + f .. 9 + r + f + d
  <2>1. j - (9 + r + f) \in 1 .. d /\ 9 + r + f + (j - (9 + r + f)) = j
    BY <1>1
  <2>2. QED BY <1>17, <2>1
<1>19. \A j \in 1 .. 7 + r + f : l[j] = t[j]
  <2> TAKE j \in 1 .. 7 + r + f
  <2>1. j \in 1 .. 8 + r + f
    BY <1>1
  <2>2. l[j] = n[j]
    BY <1>17, <2>1
  <2>3. n[j] = t[j]
    BY <1>14
  <2>4. QED BY <2>2, <2>3
<1>20. \A j \in 1 .. r + 1 + f : l[6 + j] = q[j]
  <2> TAKE j \in 1 .. r + 1 + f
  <2>1. 6 + j \in 1 .. 7 + r + f
    BY <1>1
  <2>2. QED BY <1>10, <1>19, <2>1
<1>21. ASSUME NEW j \in 7 .. 7 + r + f PROVE j - 6 \in 1 .. r + 1 + f /\ l[j] = q[j - 6]
  <2>1. j - 6 \in 1 .. r + 1 + f /\ 6 + (j - 6) = j
    BY <1>1
  <2>2. QED BY <1>20, <2>1
<1>22. /\ \A j \in 7 .. 6 + r : l[j] = "r"
       /\ l[7 + r] = Blank
       /\ \A j \in 8 + r .. 7 + r + f : l[j] = "f"
  <2>1. ASSUME NEW j \in 7 .. 6 + r PROVE l[j] = "r"
    <3>1. j \in 7 .. 7 + r + f /\ j - 6 \in 1 .. r
      BY <1>1
    <3>2. QED BY <1>6, <1>21, <3>1
  <2>2. l[7 + r] = Blank
    <3>1. PICK m \in 7 .. 7 + r + f : m = 7 + r
      BY <1>1
    <3>2. m - 6 = r + 1
      BY <1>1, <3>1
    <3>3. l[m] = q[m - 6]
      BY <1>21
    <3>4. l[m] = Blank
      BY <1>6, <3>2, <3>3
    <3>5. QED BY <3>1, <3>4
  <2>3. ASSUME NEW j \in 8 + r .. 7 + r + f PROVE l[j] = "f"
    <3>1. j \in 7 .. 7 + r + f /\ j - 6 \in r + 2 .. r + 1 + f
      BY <1>1
    <3>2. QED BY <1>7, <1>21, <3>1
  <2>4. QED BY <2>1, <2>2, <2>3
<1>23. /\ \A j \in 1 .. 5 : l[j] = "c"
       /\ l[6] = Blank /\ l[8 + r + f] = Newline
  <2>1. \A j \in 1 .. 6 : l[j] = t[j]
    <3>1. \A j \in 1 .. 6 : j \in 1 .. 7 + r + f
      BY <1>1
    <3>2. QED BY <1>19, <3>1
  <2>2. l[8 + r + f] = n[8 + r + f]
    <3>1. 8 + r + f \in 1 .. 8 + r + f
      BY <1>1
    <3>2. QED BY <1>17, <3>1
  <2>3. \A j \in 1 .. 5 : l[j] = "c"
    <3>1. \A j \in 1 .. 5 : j \in 1 .. 6
      OBVIOUS
    <3>2. QED BY <1>10, <2>1, <3>1
  <2>4. 6 \in 1 .. 6
    OBVIOUS
  <2>5. l[6] = Blank
    BY <1>10, <2>1, <2>4
  <2>6. QED BY <1>14, <2>2, <2>3, <2>5
<1>24. QED
  BY <1>4, <1>5, <1>6, <1>7, <1>9, <1>10, <1>11, <1>16, <1>17, <1>18, <1>19, <1>22, <1>23
(* What the first two calls leave of it, up to the line's end. *)
Swept(b, r, f, d) ==
  /\ r \in 1 .. MaxNick /\ f \in 1 .. MaxName /\ d \in 1 .. MaxDigits
  /\ b \in [Positions -> Chars] /\ b[BUFFER_SIZE] = Nul
  /\ \A j \in 1 .. f : b[j] = "f"
  /\ b[f + 1] = Nul
  /\ \A j \in f + 2 .. r : b[j] = "r"
  /\ f < r => b[r + 1] = Blank
  /\ \A j \in r + 2 .. r + 1 + f : j > f + 1 => b[j] = "f"
  /\ b[r + f + 2] = Nul
  /\ \A j \in r + f + 3 .. 5 : b[j] = "c"
  /\ r + f + 2 < 6 => b[6] = Blank
  /\ \A j \in 7 .. 6 + r : j > r + f + 2 => b[j] = "r"
  /\ f < 5 => b[7 + r] = Blank
  /\ \A j \in 8 + r .. 7 + r + f : j > r + f + 2 => b[j] = "f"
  /\ b[8 + r + f] = Newline /\ b[9 + r + f] = Blank
  /\ \A j \in 10 + r + f .. 9 + r + f + d : b[j] = "d"
  /\ b[10 + r + f + d] = Nul

(* The next word is the size only if the file's name has five characters, and   *)
(* as many as the receiver's: a shorter one does not reach the blanks in front. *)
LEMMA SweptWord ==
  ASSUME NEW b, NEW r, NEW f, NEW d, Swept(b, r, f, d)
  PROVE  get_arg_in_command(separate(b)) \in
           IF f >= 5 /\ f >= r THEN {Word("d", d)} ELSE {Word("f", f), Word("r", r)}
<1>1. /\ "c" \in Letters /\ "r" \in Letters /\ "f" \in Letters /\ "d" \in Letters
  BY LinesAssumption
<1>2. /\ "c" # Blank /\ "r" # Blank /\ "f" # Blank /\ Nul # Blank /\ Newline # Blank
  BY <1>1, FourCharacters
<1>3. /\ r \in Nat /\ f \in Nat /\ d \in Nat /\ r >= 1 /\ f >= 1 /\ d >= 1
      /\ BUFFER_SIZE \in Nat /\ r + 2 * f + d + 10 < BUFFER_SIZE
      /\ r + f + 10 < BUFFER_SIZE /\ 2 * r + 10 < BUFFER_SIZE
      /\ b \in [Positions -> Chars] /\ b[BUFFER_SIZE] = Nul
  BY BufferIsRoomy DEF Swept, Roomy
<1>4. CASE f < r
  <2>1. PICK i, m : i = r + 1 /\ m = i + f + 1
    OBVIOUS
  <2>2. i \in Positions /\ m \in Positions /\ f \in Nat
    BY <1>1, <1>3, <2>1 DEF Positions
  <2>3. b[i] = Blank /\ b[m] \in {Blank, Newline, Nul}
    <3>1. m = r + f + 2
      BY <1>3, <2>1
    <3>2. b[m] = Nul /\ b[i] = Blank
      BY <1>4, <2>1, <3>1 DEF Swept
    <3>3. QED BY <3>2
  <2>4. ASSUME NEW j \in 1 .. i - 1 PROVE b[j] # Blank
    <3>1. j \in 1 .. f \/ j = f + 1 \/ j \in f + 2 .. r
      BY <1>3, <1>4, <2>1
    <3>2. b[j] \in {"f", Nul, "r"}
      BY <3>1 DEF Swept
    <3>3. QED BY <1>2, <3>2
  <2>5. ASSUME NEW j \in i + 1 .. m - 1 PROVE b[j] = "f"
    <3>1. j \in r + 2 .. r + 1 + f /\ j > f + 1
      BY <1>3, <1>4, <2>1
    <3>2. QED BY <3>1 DEF Swept
  <2>6. get_arg_in_command(separate(b)) = Word("f", f)
    BY <1>1, <1>3, <2>1, <2>2, <2>3, <2>4, <2>5, WordBehindBlank
  <2>7. ~(f >= 5 /\ f >= r)
    BY <1>3, <1>4
  <2>8. QED BY <2>6, <2>7
<1>5. CASE f >= r /\ r + f < 4
  <2>1. PICK i, m : i = 6 /\ m = i + r + 1
    OBVIOUS
  <2>2. i \in Positions /\ m \in Positions /\ r \in Nat
    BY <1>1, <1>3, <2>1 DEF Positions
  <2>3. b[i] = Blank /\ b[m] \in {Blank, Newline, Nul}
    <3>1. m = 7 + r /\ f < 5 /\ r + f + 2 < 6
      BY <1>3, <1>5, <2>1
    <3>2. b[m] = Blank /\ b[i] = Blank
      BY <2>1, <3>1 DEF Swept
    <3>3. QED BY <3>2
  <2>4. ASSUME NEW j \in 1 .. i - 1 PROVE b[j] # Blank
    <3>1. j \in Nat /\ 1 <= j /\ j <= i - 1 /\ i \in Nat
      BY <1>3, <2>1
    <3>2. f >= r
      BY <1>3, <1>5
    <3>3. CASE j <= f
      <4>1. j \in 1 .. f
        BY <1>3, <3>1, <3>3
      <4>2. b[j] = "f"
        BY <4>1 DEF Swept
      <4>3. QED BY <1>2, <4>2
    <3>4. CASE j = f + 1
      BY <1>2, <3>4 DEF Swept
    <3>5. CASE f + 1 < j /\ j < r + f + 2
      <4>1. j \in r + 2 .. r + 1 + f /\ j > f + 1
        BY <1>3, <3>1, <3>2, <3>5
      <4>2. b[j] = "f"
        BY <4>1 DEF Swept
      <4>3. QED BY <1>2, <4>2
    <3>6. CASE j = r + f + 2
      BY <1>2, <3>6 DEF Swept
    <3>7. CASE j > r + f + 2
      <4>1. j \in r + f + 3 .. 5
        BY <1>3, <2>1, <3>1, <3>7
      <4>2. b[j] = "c"
        BY <4>1 DEF Swept
      <4>3. QED BY <1>2, <4>2
    <3>8. j <= f \/ j = f + 1 \/ (f + 1 < j /\ j < r + f + 2) \/ j = r + f + 2 \/ j > r + f + 2
      BY <1>3, <3>1
    <3>9. QED BY <3>3, <3>4, <3>5, <3>6, <3>7, <3>8
  <2>5. ASSUME NEW j \in i + 1 .. m - 1 PROVE b[j] = "r"
    <3>1. j \in 7 .. 6 + r /\ j > r + f + 2
      BY <1>3, <1>5, <2>1
    <3>2. QED BY <3>1 DEF Swept
  <2>6. get_arg_in_command(separate(b)) = Word("r", r)
    BY <1>1, <1>3, <2>1, <2>2, <2>3, <2>4, <2>5, WordBehindBlank
  <2>7. ~(f >= 5 /\ f >= r)
    BY <1>3, <1>5
  <2>8. QED BY <2>6, <2>7
<1>6. CASE f >= r /\ r + f >= 4 /\ f < 5
  <2>1. PICK i, m : i = 7 + r /\ m = i + f + 1
    OBVIOUS
  <2>2. i \in Positions /\ m \in Positions /\ f \in Nat
    BY <1>1, <1>3, <2>1 DEF Positions
  <2>3. b[i] = Blank /\ b[m] \in {Blank, Newline, Nul}
    <3>1. m = 8 + r + f
      BY <1>3, <2>1
    <3>2. b[m] = Newline /\ b[i] = Blank
      BY <1>6, <2>1, <3>1 DEF Swept
    <3>3. QED BY <3>2
  <2>4. ASSUME NEW j \in 1 .. i - 1 PROVE b[j] # Blank
    <3>1. j \in Nat /\ 1 <= j /\ j <= i - 1 /\ i \in Nat
      BY <1>3, <2>1
    <3>2. f >= r
      BY <1>3, <1>6
    <3>3. CASE j <= f
      <4>1. j \in 1 .. f
        BY <1>3, <3>1, <3>3
      <4>2. b[j] = "f"
        BY <4>1 DEF Swept
      <4>3. QED BY <1>2, <4>2
    <3>4. CASE j = f + 1
      BY <1>2, <3>4 DEF Swept
    <3>5. CASE f + 1 < j /\ j < r + f + 2
      <4>1. j \in r + 2 .. r + 1 + f /\ j > f + 1
        BY <1>3, <3>1, <3>2, <3>5
      <4>2. b[j] = "f"
        BY <4>1 DEF Swept
      <4>3. QED BY <1>2, <4>2
    <3>6. CASE j = r + f + 2
      BY <1>2, <3>6 DEF Swept
    <3>7. CASE j > r + f + 2
      <4>1. j \in 7 .. 6 + r /\ j > r + f + 2
        BY <1>3, <1>6, <2>1, <3>1, <3>7
      <4>2. b[j] = "r"
        BY <4>1 DEF Swept
      <4>3. QED BY <1>2, <4>2
    <3>8. j <= f \/ j = f + 1 \/ (f + 1 < j /\ j < r + f + 2) \/ j = r + f + 2 \/ j > r + f + 2
      BY <1>3, <3>1
    <3>9. QED BY <3>3, <3>4, <3>5, <3>6, <3>7, <3>8
  <2>5. ASSUME NEW j \in i + 1 .. m - 1 PROVE b[j] = "f"
    <3>1. j \in 8 + r .. 7 + r + f /\ j > r + f + 2
      BY <1>3, <1>6, <2>1
    <3>2. QED BY <3>1 DEF Swept
  <2>6. get_arg_in_command(separate(b)) = Word("f", f)
    BY <1>1, <1>3, <2>1, <2>2, <2>3, <2>4, <2>5, WordBehindBlank
  <2>7. ~(f >= 5 /\ f >= r)
    BY <1>3, <1>6
  <2>8. QED BY <2>6, <2>7
<1>7. CASE f >= 5 /\ f >= r
  <2>1. PICK i, m : i = 9 + r + f /\ m = i + d + 1
    OBVIOUS
  <2>2. i \in Positions /\ m \in Positions /\ d \in Nat
    BY <1>1, <1>3, <2>1 DEF Positions
  <2>3. b[i] = Blank /\ b[m] \in {Blank, Newline, Nul}
    <3>1. m = 10 + r + f + d
      BY <1>3, <2>1
    <3>2. b[m] = Nul /\ b[i] = Blank
      BY <2>1, <3>1 DEF Swept
    <3>3. QED BY <3>2
  <2>4. ASSUME NEW j \in 1 .. i - 1 PROVE b[j] # Blank
    <3>1. j \in Nat /\ 1 <= j /\ j <= i - 1 /\ i \in Nat
      BY <1>3, <2>1
    <3>2. f >= r
      BY <1>3, <1>7
    <3>3. CASE j <= f
      <4>1. j \in 1 .. f
        BY <1>3, <3>1, <3>3
      <4>2. b[j] = "f"
        BY <4>1 DEF Swept
      <4>3. QED BY <1>2, <4>2
    <3>4. CASE j = f + 1
      BY <1>2, <3>4 DEF Swept
    <3>5. CASE f + 1 < j /\ j < r + f + 2
      <4>1. j \in r + 2 .. r + 1 + f /\ j > f + 1
        BY <1>3, <3>1, <3>2, <3>5
      <4>2. b[j] = "f"
        BY <4>1 DEF Swept
      <4>3. QED BY <1>2, <4>2
    <3>6. CASE j = r + f + 2
      BY <1>2, <3>6 DEF Swept
    <3>7. CASE j > r + f + 2 /\ j < 8 + r + f
      <4>1. j \in 8 + r .. 7 + r + f /\ j > r + f + 2
        BY <1>3, <1>7, <2>1, <3>1, <3>7
      <4>2. b[j] = "f"
        BY <4>1 DEF Swept
      <4>3. QED BY <1>2, <4>2
    <3>8. CASE j = 8 + r + f
      BY <1>2, <3>8 DEF Swept
    <3>9. j > r + f + 2 => (j < 8 + r + f \/ j = 8 + r + f)
      BY <1>3, <2>1, <3>1
    <3>10. j <= f \/ j = f + 1 \/ (f + 1 < j /\ j < r + f + 2) \/ j = r + f + 2 \/ j > r + f + 2
      BY <1>3, <3>1
    <3>11. QED BY <3>3, <3>4, <3>5, <3>6, <3>7, <3>8, <3>9, <3>10
  <2>5. ASSUME NEW j \in i + 1 .. m - 1 PROVE b[j] = "d"
    <3>1. j \in 10 + r + f .. 9 + r + f + d
      BY <1>3, <2>1
    <3>2. QED BY <3>1 DEF Swept
  <2>6. get_arg_in_command(separate(b)) = Word("d", d)
    BY <1>1, <1>3, <2>1, <2>2, <2>3, <2>4, <2>5, WordBehindBlank
  <2>7. QED BY <1>7, <2>6
<1>8. \/ f < r \/ (f >= r /\ r + f < 4) \/ (f >= r /\ r + f >= 4 /\ f < 5)
      \/ (f >= 5 /\ f >= r)
  BY <1>3
<1>9. QED BY <1>4, <1>5, <1>6, <1>7, <1>8
(* What the size reads as: the size, or a name when the file's is short.       *)
Leftovers ==
  IF length.file >= 5 /\ length.file >= length.receiver THEN {Size} ELSE {File, Receiver}

LEMMA SentSwept ==
  ASSUME Lengths, NEW r, NEW f, NEW d, Measures(r, f, d),
         NEW h, h = Holding(Sent), NEW b, b = separate(h), NEW g, g = separate(b)
  PROVE  /\ get_arg_in_command(b) = Receiver /\ get_arg_in_command(g) = File
         /\ Swept(g, r, f, d)
<1>1. /\ r \in 1 .. MaxNick /\ f \in 1 .. MaxName /\ d \in 1 .. MaxDigits
      /\ r \in Nat /\ f \in Nat /\ d \in Nat /\ r >= 1 /\ f >= 1 /\ d >= 1
      /\ BUFFER_SIZE \in Nat /\ r + f + d + 14 < BUFFER_SIZE
  <2>1. /\ length.receiver \in 1 .. MaxNick /\ length.file \in 1 .. MaxName
        /\ length.size \in 1 .. MaxDigits
    BY WordsAre
  <2>2. r \in 1 .. MaxNick /\ f \in 1 .. MaxName /\ d \in 1 .. MaxDigits
    BY <2>1 DEF Measures
  <2>3. QED BY <2>2, BufferIsRoomy DEF Roomy
<1>2. /\ Receiver \in Seq(Letters) /\ File \in Seq(Letters) /\ Len(File) = f
      /\ File \in Texts
      /\ \A j \in 1 .. f : File[j] = "f"
  <2>1. Receiver \in Seq(Letters) /\ File \in Seq(Letters) /\ Len(File) = length.file
    BY WordsAre
  <2>2. \A j \in 1 .. f : File[j] = "f"
    BY DEF Word, File, Measures
  <2>3. QED BY <2>1, <2>2, WordsAreTexts DEF Measures
<1>3. PICK l : l = Sent
  OBVIOUS
<1>4. PICK t : t = Request
  OBVIOUS
<1>5. PICK q : q = Then(Receiver, File)
  OBVIOUS
<1>6. /\ t \in Texts /\ Len(t) = 7 + r + f
      /\ q \in Texts /\ Len(q) = r + 1 + f
      /\ \A j \in 1 .. r : q[j] = "r"
      /\ q[r + 1] = Blank
      /\ \A j \in r + 2 .. r + 1 + f : q[j] = "f"
  BY <1>4, <1>5, SentIs
<1>7. /\ l \in Seq(Letters \cup {Blank, Newline}) /\ Len(l) = 9 + r + f + d
      /\ \A j \in 1 .. 7 + r + f : l[j] = t[j]
      /\ \A j \in 1 .. 5 : l[j] = "c"
      /\ l[6] = Blank
      /\ \A j \in 7 .. 6 + r : l[j] = "r"
      /\ l[7 + r] = Blank
      /\ \A j \in 8 + r .. 7 + r + f : l[j] = "f"
      /\ l[8 + r + f] = Newline /\ l[9 + r + f] = Blank
      /\ \A j \in 10 + r + f .. 9 + r + f + d : l[j] = "d"
  BY <1>3, <1>4, SentIs
<1>8. Holds(h, t)
  <2>1. Len(l) < BUFFER_SIZE /\ Len(t) <= Len(l)
    BY <1>1, <1>6, <1>7
  <2>2. \A j \in 1 .. Len(t) : t[j] = l[j]
    BY <1>6, <1>7
  <2>3. l[Len(t) + 1] = Newline
    <3>1. Len(t) + 1 = 8 + r + f
      BY <1>1, <1>6
    <3>2. QED BY <1>7, <3>1
  <2>4. Holds(Holding(l), t)
    BY <1>6, <1>7, <2>1, <2>2, <2>3, LineHolds
  <2>5. QED BY <1>3, <2>4
<1>9. \A j \in Positions : h[j] = IF j <= Len(l) THEN l[j] ELSE Nul
  BY <1>3 DEF Holding
<1>10. ASSUME NEW j \in 1 .. 9 + r + f + d PROVE h[j] = l[j]
  <2>1. j \in Positions /\ j <= Len(l)
    BY <1>1, <1>7 DEF Positions
  <2>2. QED BY <1>9, <2>1
<1>11. ASSUME NEW j \in Positions, j > 9 + r + f + d PROVE h[j] = Nul
  <2>1. ~(j <= Len(l))
    BY <1>1, <1>7, <1>11 DEF Positions
  <2>2. QED BY <1>9, <2>1
<1>12. /\ Holds(b, q) /\ b[Len(q) + 1] = Nul
       /\ \A j \in Positions : j > Len(q) + 1 => b[j] = h[j]
  <2>1. PICK c \in Seq(Letters) : c = Word("c", 5)
    <3>1. 5 \in Nat
      OBVIOUS
    <3>2. QED BY <3>1, WordsAre
  <2>2. t = Then(c, q)
    BY <1>4, <1>5, <2>1 DEF Request
  <2>3. QED BY <1>6, <1>8, <2>1, <2>2, TakesWord
<1>13. /\ get_arg_in_command(b) = Receiver
       /\ Holds(g, File) /\ g[Len(File) + 1] = Nul
       /\ \A j \in Positions : j > Len(File) + 1 => g[j] = b[j]
  BY <1>2, <1>5, <1>12, TakesWord
<1>14. get_arg_in_command(g) = File
  BY <1>2, <1>13, LastWord
<1>15. /\ b[r + f + 2] = Nul
       /\ \A j \in 1 .. r + 1 + f : b[j] = q[j]
       /\ \A j \in Positions : j > r + f + 2 => b[j] = h[j]
  <2>1. Len(q) + 1 = r + f + 2 /\ Len(q) = r + 1 + f
    BY <1>1, <1>6
  <2>2. \A j \in 1 .. Len(q) : b[j] = q[j]
    BY <1>12 DEF Holds
  <2>3. b[r + f + 2] = Nul
    BY <1>12, <2>1
  <2>4. \A j \in 1 .. r + 1 + f : b[j] = q[j]
    BY <2>1, <2>2
  <2>5. \A j \in Positions : j > r + f + 2 => b[j] = h[j]
    BY <1>12, <2>1
  <2>6. QED BY <2>3, <2>4, <2>5
<1>16. /\ g \in [Positions -> Chars] /\ g[f + 1] = Nul
       /\ \A j \in 1 .. f : g[j] = "f"
       /\ \A j \in Positions : j > f + 1 => g[j] = b[j]
  <2>1. g \in [Positions -> Chars] /\ \A j \in 1 .. f : g[j] = File[j]
    BY <1>2, <1>13 DEF Holds
  <2>2. g[f + 1] = Nul /\ \A j \in Positions : j > f + 1 => g[j] = b[j]
    BY <1>2, <1>13
  <2>3. QED BY <1>2, <2>1, <2>2
<1>17. ASSUME NEW j \in Nat, j > f + 1, j <= r + 1 + f PROVE g[j] = q[j]
  <2>1. j \in Positions /\ j \in 1 .. r + 1 + f
    BY <1>1, <1>17 DEF Positions
  <2>2. g[j] = b[j]
    BY <1>16, <1>17, <2>1
  <2>3. b[j] = q[j]
    BY <1>15, <2>1
  <2>4. QED BY <2>2, <2>3
<1>18. ASSUME NEW j \in Positions, j > r + f + 2 PROVE g[j] = h[j]
  <2>1. j > f + 1
    BY <1>1, <1>18 DEF Positions
  <2>2. QED BY <1>15, <1>16, <1>18, <2>1
<1>19. ASSUME NEW j \in Nat, j > r + f + 2, j <= 9 + r + f + d PROVE g[j] = l[j]
  <2>1. j \in Positions /\ j \in 1 .. 9 + r + f + d
    BY <1>1, <1>19 DEF Positions
  <2>2. g[j] = h[j]
    BY <1>18, <1>19, <2>1
  <2>3. h[j] = l[j]
    BY <1>10, <2>1
  <2>4. QED BY <2>2, <2>3
<1>20. /\ \A j \in f + 2 .. r : g[j] = "r"
       /\ f < r => g[r + 1] = Blank
       /\ \A j \in r + 2 .. r + 1 + f : j > f + 1 => g[j] = "f"
  <2>1. ASSUME NEW j \in f + 2 .. r PROVE g[j] = "r"
    <3>1. j \in Nat /\ j > f + 1 /\ j <= r + 1 + f /\ j \in 1 .. r
      BY <1>1
    <3>2. QED BY <1>6, <1>17, <3>1
  <2>2. ASSUME f < r PROVE g[r + 1] = Blank
    <3>1. PICK j \in Nat : j = r + 1 /\ j > f + 1 /\ j <= r + 1 + f
      BY <1>1, <2>2
    <3>2. g[j] = q[j]
      BY <1>17, <3>1
    <3>3. QED BY <1>6, <3>1, <3>2
  <2>3. ASSUME NEW j \in r + 2 .. r + 1 + f, j > f + 1 PROVE g[j] = "f"
    <3>1. j \in Nat /\ j <= r + 1 + f
      BY <1>1
    <3>2. g[j] = q[j]
      BY <1>17, <2>3, <3>1
    <3>3. QED BY <1>6, <3>2
  <2>4. QED BY <2>1, <2>2, <2>3
<1>21. g[r + f + 2] = Nul
  <2>1. PICK j \in Positions : j = r + f + 2 /\ j > f + 1
    BY <1>1 DEF Positions
  <2>2. QED BY <1>15, <1>16, <2>1
<1>22. /\ \A j \in r + f + 3 .. 5 : g[j] = "c"
       /\ r + f + 2 < 6 => g[6] = Blank
       /\ \A j \in 7 .. 6 + r : j > r + f + 2 => g[j] = "r"
       /\ f < 5 => g[7 + r] = Blank
  <2>1. ASSUME NEW j \in r + f + 3 .. 5 PROVE g[j] = "c"
    <3>1. j \in Nat /\ j > r + f + 2 /\ j <= 9 + r + f + d /\ j \in 1 .. 5
      BY <1>1
    <3>2. QED BY <1>7, <1>19, <3>1
  <2>2. ASSUME r + f + 2 < 6 PROVE g[6] = Blank
    <3>1. PICK j \in Nat : j = 6 /\ j > r + f + 2 /\ j <= 9 + r + f + d
      BY <1>1, <2>2
    <3>2. g[j] = l[j]
      BY <1>19, <3>1
    <3>3. QED BY <1>7, <3>1, <3>2
  <2>3. ASSUME NEW j \in 7 .. 6 + r, j > r + f + 2 PROVE g[j] = "r"
    <3>1. j \in Nat /\ j <= 9 + r + f + d
      BY <1>1
    <3>2. g[j] = l[j]
      BY <1>19, <2>3, <3>1
    <3>3. QED BY <1>7, <3>2
  <2>4. ASSUME f < 5 PROVE g[7 + r] = Blank
    <3>1. PICK j \in Nat : j = 7 + r /\ j > r + f + 2 /\ j <= 9 + r + f + d
      BY <1>1, <2>4
    <3>2. g[j] = l[j]
      BY <1>19, <3>1
    <3>3. QED BY <1>7, <3>1, <3>2
  <2>5. QED BY <2>1, <2>2, <2>3, <2>4
<1>23. /\ \A j \in 8 + r .. 7 + r + f : j > r + f + 2 => g[j] = "f"
       /\ g[8 + r + f] = Newline /\ g[9 + r + f] = Blank
       /\ \A j \in 10 + r + f .. 9 + r + f + d : g[j] = "d"
  <2>1. ASSUME NEW j \in 8 + r .. 7 + r + f, j > r + f + 2 PROVE g[j] = "f"
    <3>1. j \in Nat /\ j <= 9 + r + f + d
      BY <1>1
    <3>2. g[j] = l[j]
      BY <1>19, <2>1, <3>1
    <3>3. QED BY <1>7, <3>2
  <2>2. g[8 + r + f] = Newline
    <3>1. PICK j \in Nat : j = 8 + r + f /\ j > r + f + 2 /\ j <= 9 + r + f + d
      BY <1>1
    <3>2. g[j] = l[j]
      BY <1>19, <3>1
    <3>3. QED BY <1>7, <3>1, <3>2
  <2>3. g[9 + r + f] = Blank
    <3>1. PICK j \in Nat : j = 9 + r + f /\ j > r + f + 2 /\ j <= 9 + r + f + d
      BY <1>1
    <3>2. g[j] = l[j]
      BY <1>19, <3>1
    <3>3. QED BY <1>7, <3>1, <3>2
  <2>4. ASSUME NEW j \in 10 + r + f .. 9 + r + f + d PROVE g[j] = "d"
    <3>1. j \in Nat /\ j > r + f + 2 /\ j <= 9 + r + f + d
      BY <1>1
    <3>2. QED BY <1>7, <1>19, <3>1
  <2>5. QED BY <2>1, <2>2, <2>3, <2>4
<1>24. g[10 + r + f + d] = Nul /\ g[BUFFER_SIZE] = Nul
  <2>1. PICK i \in Positions : i = 10 + r + f + d /\ i > r + f + 2 /\ i > 9 + r + f + d
    BY <1>1 DEF Positions
  <2>2. /\ BUFFER_SIZE \in Positions /\ BUFFER_SIZE > r + f + 2
        /\ BUFFER_SIZE > 9 + r + f + d
    BY <1>1 DEF Positions
  <2>3. g[i] = Nul
    BY <1>11, <1>18, <2>1
  <2>4. g[BUFFER_SIZE] = Nul
    BY <1>11, <1>18, <2>2
  <2>5. QED BY <2>1, <2>3, <2>4
<1>25. Swept(g, r, f, d)
  BY <1>1, <1>16, <1>20, <1>21, <1>22, <1>23, <1>24 DEF Swept
<1>26. QED BY <1>13, <1>14, <1>25

(* What SEND reads: the receiver, the file, and the size or a name. *)
LEMMA SendReads ==
  ASSUME Lengths
  PROVE  LET b == separate(Holding(Sent))
         IN  Arg(b, 1) = Receiver /\ Arg(b, 2) = File /\ Arg(b, 3) \in Leftovers
<1>1. PICK b : b = separate(Holding(Sent))
  OBVIOUS
<1>2. PICK g : g = separate(b)
  OBVIOUS
<1>3. PICK r, f, d : Measures(r, f, d)
  BY DEF Measures
<1>4. /\ get_arg_in_command(b) = Receiver /\ get_arg_in_command(g) = File
      /\ Swept(g, r, f, d)
  BY <1>1, <1>2, <1>3, SentSwept
<1>5. get_arg_in_command(separate(g)) \in
        IF f >= 5 /\ f >= r THEN {Word("d", d)} ELSE {Word("f", f), Word("r", r)}
  BY <1>4, SweptWord
<1>6. get_arg_in_command(separate(g)) \in Leftovers
  BY <1>3, <1>5 DEF Measures, Leftovers, Size, File, Receiver
<1>7. /\ Arg(b, 1) = get_arg_in_command(b) /\ Arg(b, 2) = get_arg_in_command(g)
      /\ Arg(b, 3) = get_arg_in_command(separate(g))
  BY <1>2, RestIs
<1>8. QED BY <1>1, <1>4, <1>6, <1>7
-----------------------------------------------------------------------------
(* The words of the other lines. *)

LEMMA HoldsText ==
  ASSUME NEW text \in Texts, Len(text) < BUFFER_SIZE
  PROVE  Holds(Holding(text), text)
<1>1. text \in Seq(Letters \cup {Blank, Newline}) /\ Len(text) <= Len(text)
  <2>1. text \in Seq(Letters \cup {Blank, Newline})
    BY TextsAreLines
  <2>2. QED BY <2>1, LenProperties
<1>2. QED BY <1>1, LineHolds

LEMMA HoldsRequest ==
  ASSUME NEW text \in Texts, Len(text) + 1 < BUFFER_SIZE
  PROVE  /\ Holds(Holding(text \o <<Newline>>), text)
         /\ text \o <<Newline>> \in Seq(Letters \cup {Blank, Newline})
         /\ Len(text \o <<Newline>>) = Len(text) + 1
<1>1. PICK S : S = Letters \cup {Blank, Newline}
  OBVIOUS
<1>2. Newline \in S /\ text \in Seq(S)
  BY <1>1, TextsAreLines
<1>3. PICK l : l = text \o <<Newline>>
  OBVIOUS
<1>4. /\ l \in Seq(S) /\ Len(l) = Len(text) + 1
      /\ \A j \in 1 .. Len(text) : l[j] = text[j]
      /\ l[Len(text) + 1] = Newline
  BY <1>2, <1>3, NewlineIs
<1>5. Len(text) <= Len(l) /\ Len(l) < BUFFER_SIZE
  <2>1. Len(text) \in Nat
    BY <1>2, LenProperties
  <2>2. QED BY <1>4, <2>1
<1>6. Holds(Holding(l), text)
  BY <1>1, <1>4, <1>5, LineHolds
<1>7. QED BY <1>1, <1>3, <1>4, <1>6

LEMMA ThenLength ==
  ASSUME NEW a \in Texts, NEW b \in Texts
  PROVE  Then(a, b) \in Texts /\ Len(Then(a, b)) = Len(a) + 1 + Len(b)
BY ThenText DEF Parted

LEMMA StringIs ==
  ASSUME NEW b, NEW text, Holds(b, text), b[Len(text) + 1] = Nul
  PROVE  String(b) = text
<1>1. PICK n \in Nat : n = Len(text)
  BY LenProperties DEF Holds, Texts
<1>2. /\ b \in [Positions -> Chars] /\ text \in Seq(Letters \cup {Blank}) /\ n < BUFFER_SIZE
      /\ \A j \in 1 .. n : b[j] = text[j]
      /\ BUFFER_SIZE \in Nat
  BY <1>1, TextAssumption DEF Holds, Texts
<1>3. \A j \in 1 .. n : text[j] \in Letters \cup {Blank}
  BY <1>1, <1>2, ElementOfSeq
<1>4. PICK k \in Positions : k = n + 1
  BY <1>2 DEF Positions
<1>5. Next_in(b, 1, {Nul}) = k
  <2>1. ASSUME NEW j \in Positions, j >= 1, j < k PROVE b[j] \notin {Nul}
    <3>1. j \in 1 .. n
      BY <1>4, <2>1 DEF Positions
    <3>2. b[j] \in Letters \cup {Blank}
      BY <1>2, <1>3, <3>1
    <3>3. QED BY <3>2, FourCharacters
  <2>2. k >= 1 /\ 1 \in Nat \ {0} /\ b[k] \in {Nul}
    BY <1>1, <1>4
  <2>3. QED BY <2>1, <2>2, NextIs
<1>6. String(b) = SubSeq(b, 1, n)
  <2>1. k - 1 = n
    BY <1>4
  <2>2. QED BY <1>5, <2>1 DEF String
<1>7. /\ SubSeq(b, 1, n) \in Seq(Letters \cup {Blank}) /\ Len(SubSeq(b, 1, n)) = n
      /\ \A j \in 1 .. n : SubSeq(b, 1, n)[j] = b[j]
  <2>1. PICK S : S = Letters \cup {Blank}
    OBVIOUS
  <2>2. \A j \in 1 .. n : b[j] \in S
    BY <1>2, <1>3, <2>1
  <2>3. QED BY <2>1, <2>2, FirstCharacters
<1>8. SubSeq(b, 1, n) = text
  BY <1>1, <1>2, <1>7, SeqEqual
<1>9. QED BY <1>6, <1>8

(* The arguments behind the command, one by one. *)
LEMMA OneWord ==
  ASSUME NEW h, NEW c \in Seq(Letters), NEW w \in Seq(Letters), Holds(h, Then(c, w))
  PROVE  Arg(separate(h), 1) = w /\ Arg(h, 2) = w
<1>1. w \in Texts
  BY WordsAreTexts
<1>2. Holds(separate(h), w)
  BY <1>1, TakesWord
<1>3. get_arg_in_command(separate(h)) = w
  BY <1>2, LastWord
<1>4. QED BY <1>3, RestIs

LEMMA FirstArgument ==
  ASSUME NEW h, NEW c \in Seq(Letters), NEW w \in Seq(Letters), NEW rest \in Texts,
         Holds(h, Then(c, Then(w, rest)))
  PROVE  /\ Arg(separate(h), 1) = w /\ Arg(h, 2) = w
         /\ Holds(separate(separate(h)), rest)
         /\ separate(separate(h))[Len(rest) + 1] = Nul
<1>1. PICK v \in Texts : v = Then(w, rest)
  <2>1. w \in Texts
    BY WordsAreTexts
  <2>2. QED BY <2>1, ThenText
<1>2. Holds(separate(h), Then(w, rest))
  BY <1>1, TakesWord
<1>3. /\ get_arg_in_command(separate(h)) = w
      /\ Holds(separate(separate(h)), rest)
      /\ separate(separate(h))[Len(rest) + 1] = Nul
  BY <1>2, TakesWord
<1>4. QED BY <1>3, RestIs

LEMMA TwoWords ==
  ASSUME NEW h, NEW c \in Seq(Letters), NEW v \in Seq(Letters), NEW w \in Seq(Letters),
         Holds(h, Then(c, Then(v, w)))
  PROVE  Arg(h, 2) = v /\ Arg(h, 3) = w
<1>1. w \in Texts
  BY WordsAreTexts
<1>2. Arg(h, 2) = v /\ Holds(separate(separate(h)), w)
  BY <1>1, FirstArgument
<1>3. get_arg_in_command(separate(separate(h))) = w
  BY <1>2, LastWord
<1>4. QED BY <1>2, <1>3, RestIs

LEMMA ThreeWords ==
  ASSUME NEW h, NEW c \in Seq(Letters), NEW u \in Seq(Letters), NEW v \in Seq(Letters),
         NEW w \in Seq(Letters), Holds(h, Then(c, Then(u, Then(v, w))))
  PROVE  Args(h, 3) = <<u, v, w>>
<1>1. PICK t \in Texts : t = Then(v, w)
  <2>1. v \in Texts /\ w \in Texts
    BY WordsAreTexts
  <2>2. QED BY <2>1, ThenText
<1>2. Arg(h, 2) = u /\ Holds(separate(separate(h)), Then(v, w))
  BY <1>1, FirstArgument
<1>3. PICK g : g = separate(separate(h))
  OBVIOUS
<1>4. /\ get_arg_in_command(g) = v /\ Holds(separate(g), w)
  <2>1. w \in Texts
    BY WordsAreTexts
  <2>2. QED BY <1>2, <1>3, <2>1, TakesWord
<1>5. get_arg_in_command(separate(g)) = w
  BY <1>4, LastWord
<1>6. Arg(h, 3) = v /\ Arg(h, 4) = w
  BY <1>3, <1>4, <1>5, RestIs
<1>7. \A k \in 1 .. 3 : Arg(h, k + 1) = <<u, v, w>>[k]
  <2>1. Arg(h, 1 + 1) = u /\ Arg(h, 2 + 1) = v /\ Arg(h, 3 + 1) = w
    BY <1>2, <1>6
  <2>2. \A k \in 1 .. 3 : k = 1 \/ k = 2 \/ k = 3
    OBVIOUS
  <2>3. QED BY <2>1, <2>2
<1>8. QED BY <1>7 DEF Args

LEMMA FourWords ==
  ASSUME NEW h, NEW c \in Seq(Letters), NEW u \in Seq(Letters), NEW v \in Seq(Letters),
         NEW w \in Seq(Letters), NEW x \in Seq(Letters),
         Holds(h, Then(c, Then(u, Then(v, Then(w, x)))))
  PROVE  Args(h, 4) = <<u, v, w, x>>
<1>1. PICK s \in Texts : s = Then(w, x)
  <2>1. w \in Texts /\ x \in Texts
    BY WordsAreTexts
  <2>2. QED BY <2>1, ThenText
<1>2. PICK t \in Texts : t = Then(v, Then(w, x))
  <2>1. v \in Texts
    BY WordsAreTexts
  <2>2. QED BY <1>1, <2>1, ThenText
<1>3. Arg(h, 2) = u /\ Holds(separate(separate(h)), Then(v, Then(w, x)))
  BY <1>2, FirstArgument
<1>4. PICK g : g = separate(separate(h))
  OBVIOUS
<1>5. get_arg_in_command(g) = v /\ Holds(separate(g), Then(w, x))
  BY <1>1, <1>3, <1>4, TakesWord
<1>6. get_arg_in_command(separate(g)) = w /\ Holds(separate(separate(g)), x)
  <2>1. x \in Texts
    BY WordsAreTexts
  <2>2. QED BY <1>5, <2>1, TakesWord
<1>7. get_arg_in_command(separate(separate(g))) = x
  BY <1>6, LastWord
<1>8. Arg(h, 3) = v /\ Arg(h, 4) = w /\ Arg(h, 5) = x
  BY <1>4, <1>5, <1>6, <1>7, RestIs
<1>9. \A k \in 1 .. 4 : Arg(h, k + 1) = <<u, v, w, x>>[k]
  <2>1. Arg(h, 1 + 1) = u /\ Arg(h, 2 + 1) = v /\ Arg(h, 3 + 1) = w /\ Arg(h, 4 + 1) = x
    BY <1>3, <1>8
  <2>2. \A k \in 1 .. 4 : k = 1 \/ k = 2 \/ k = 3 \/ k = 4
    OBVIOUS
  <2>3. QED BY <2>1, <2>2
<1>10. QED BY <1>9 DEF Args
-----------------------------------------------------------------------------
(* The transfer, line by line. *)

Questions == {<<Sender, File, g>> : g \in Leftovers}

Asked(g) == Then(Word("c", 6), Then(Sender, Then(File, g)))
Answered == Then(Word("c", 7), Sender)
Offered  == Then(Word("c", 10), Then(Sender, Then(Port, File)))
CallBack == Then(Word("c", 10), Then(Receiver, Then(Port, Then(File, Address))))

FitsLine(l) == l \in Seq(Letters \cup {Blank, Newline}) /\ Len(l) < BUFFER_SIZE

Stages ==
  /\ Lengths
  /\ stage \in {"other", "keyboard", "SEND", "FTREQ", "prompt", "FTREQP", "FTREQN",
                "listen", "CONN_INFO", "INFO_CONN", "end"}
  /\ stage = "keyboard" => line = Request \o <<Newline>>
  /\ stage = "SEND" => line = Sent
  /\ stage = "FTREQ" => \E g \in Leftovers : line = Asked(g)
  /\ stage \in {"FTREQP", "FTREQN"} => line = Answered
  /\ stage = "CONN_INFO" => line = Offered \o <<Newline>>
  /\ stage = "INFO_CONN" => line = CallBack
  /\ IF stage \in {"other", "keyboard", "SEND", "FTREQ"} THEN shown = <<>>
     ELSE shown \in Questions
  /\ called \in {<<>>, <<Receiver, Port, File, Address>>}
  /\ stage \in {"listen", "CONN_INFO", "INFO_CONN", "end"} =>
       (told <=> length.sender >= 2)
  /\ FitsLine(line)

LEMMA SameWords ==
  ASSUME length' = length
  PROVE  /\ Lengths <=> Lengths'
         /\ Request' = Request /\ Sent' = Sent /\ Leftovers' = Leftovers
         /\ Questions' = Questions /\ \A g : Asked(g)' = Asked(g)
         /\ Answered' = Answered /\ Offered' = Offered /\ CallBack' = CallBack
         /\ Sender' = Sender /\ Receiver' = Receiver /\ File' = File
         /\ Size' = Size /\ Port' = Port /\ Address' = Address
<1>1. /\ Sender' = Sender /\ Receiver' = Receiver /\ File' = File
      /\ Size' = Size /\ Port' = Port /\ Address' = Address
  BY DEF Sender, Receiver, File, Size, Port, Address
<1>2. /\ Lengths <=> Lengths'
      /\ Request' = Request /\ Leftovers' = Leftovers
      /\ \A g : Asked(g)' = Asked(g)
      /\ Answered' = Answered /\ Offered' = Offered /\ CallBack' = CallBack
  BY <1>1 DEF Lengths, Request, Leftovers, Asked, Answered, Offered, CallBack
<1>3. Sent' = Sent /\ Questions' = Questions
  BY <1>1, <1>2 DEF Sent, Questions
<1>4. QED BY <1>1, <1>2, <1>3

LEMMA LeftoversAre ==
  ASSUME Lengths, NEW g \in Leftovers
  PROVE  g \in Seq(Letters) /\ Len(g) \in 1 .. MaxName + MaxNick + MaxDigits
<1>1. /\ Size \in Seq(Letters) /\ File \in Seq(Letters) /\ Receiver \in Seq(Letters)
      /\ Len(Size) = length.size /\ Len(File) = length.file /\ Len(Receiver) = length.receiver
      /\ length.size \in 1 .. MaxDigits /\ length.file \in 1 .. MaxName
      /\ length.receiver \in 1 .. MaxNick
      /\ MaxName \in Nat /\ MaxNick \in Nat /\ MaxDigits \in Nat
  BY WordsAre DEF Roomy
<1>2. g \in {Size, File, Receiver}
  BY DEF Leftovers
<1>3. CASE g = Size
  BY <1>1, <1>3
<1>4. CASE g = File
  BY <1>1, <1>4
<1>5. CASE g = Receiver
  BY <1>1, <1>5
<1>6. QED BY <1>2, <1>3, <1>4, <1>5

(* Every line fits, and so does the newline behind it. *)
LEMMA LinesFit ==
  ASSUME Lengths
  PROVE  /\ Request \in Texts /\ Len(Request) + 1 < BUFFER_SIZE
         /\ FitsLine(Sent)
         /\ \A g \in Leftovers : Asked(g) \in Texts /\ Len(Asked(g)) < BUFFER_SIZE
         /\ Answered \in Texts /\ Len(Answered) = 8 + length.sender
         /\ Len(Answered) < BUFFER_SIZE
         /\ Offered \in Texts /\ Len(Offered) + 1 < BUFFER_SIZE
         /\ CallBack \in Texts /\ Len(CallBack) < BUFFER_SIZE
<1>1. /\ length.sender \in 1 .. MaxNick /\ length.receiver \in 1 .. MaxNick
      /\ length.file \in 1 .. MaxName /\ length.size \in 1 .. MaxDigits
      /\ MaxNick \in Nat /\ MaxName \in Nat /\ MaxDigits \in Nat
      /\ PortLength \in Nat /\ AddressLength \in Nat /\ BUFFER_SIZE \in Nat
      /\ 2 * MaxNick + 2 * MaxName + MaxDigits + PortLength + AddressLength + 14
           < BUFFER_SIZE
  BY WordsAre DEF Roomy
<1>2. /\ Len(Sender) = length.sender /\ Len(Receiver) = length.receiver
      /\ Len(File) = length.file /\ Len(Port) = PortLength
      /\ Len(Address) = AddressLength
      /\ {Sender, Receiver, File, Size, Port, Address} \subseteq Seq(Letters)
  BY WordsAre
<1>3. Sender \in Texts /\ Receiver \in Texts /\ File \in Texts /\ Port \in Texts /\ Address \in Texts
  BY <1>2, WordsAreTexts
<1>4. \A n \in Nat : Word("c", n) \in Texts /\ Len(Word("c", n)) = n
  BY WordsAre, WordsAreTexts
<1>5. /\ Request \in Texts /\ Len(Request) + 1 < BUFFER_SIZE
      /\ FitsLine(Sent)
  <2>1. PICK r, f, d : Measures(r, f, d)
    BY DEF Measures
  <2>2. r \in 1 .. MaxNick /\ f \in 1 .. MaxName /\ d \in 1 .. MaxDigits
    BY <1>1, <2>1 DEF Measures
  <2>3. /\ Request \in Texts /\ Len(Request) = 7 + r + f
        /\ Sent \in Seq(Letters \cup {Blank, Newline}) /\ Len(Sent) = 9 + r + f + d
    BY <2>1, SentIs
  <2>4. 7 + r + f + 1 < BUFFER_SIZE /\ 9 + r + f + d < BUFFER_SIZE
    BY <1>1, <2>2
  <2>5. QED BY <2>3, <2>4 DEF FitsLine
<1>6. ASSUME NEW g \in Leftovers PROVE Asked(g) \in Texts /\ Len(Asked(g)) < BUFFER_SIZE
  <2>1. g \in Texts /\ Len(g) \in 1 .. MaxName + MaxNick + MaxDigits
    BY LeftoversAre, WordsAreTexts
  <2>2. PICK a : a = Then(File, g)
    OBVIOUS
  <2>3. a \in Texts /\ Len(a) = length.file + 1 + Len(g)
    <3>1. Then(File, g) \in Texts /\ Len(Then(File, g)) = Len(File) + 1 + Len(g)
      BY <1>3, <2>1, ThenLength
    <3>2. QED BY <1>2, <2>2, <3>1
  <2>4. PICK b : b = Then(Sender, a)
    OBVIOUS
  <2>5. b \in Texts /\ Len(b) = length.sender + 1 + Len(a)
    <3>1. Then(Sender, a) \in Texts /\ Len(Then(Sender, a)) = Len(Sender) + 1 + Len(a)
      BY <1>3, <2>3, ThenLength
    <3>2. QED BY <1>2, <2>4, <3>1
  <2>6. PICK k \in Texts : k = Word("c", 6) /\ Len(k) = 6
    BY <1>4
  <2>7. Asked(g) \in Texts /\ Len(Asked(g)) = 6 + 1 + Len(b)
    <3>1. Then(k, b) \in Texts /\ Len(Then(k, b)) = Len(k) + 1 + Len(b)
      BY <2>5, ThenLength
    <3>2. Asked(g) = Then(k, b)
      BY <2>2, <2>4, <2>6 DEF Asked
    <3>3. QED BY <2>6, <3>1, <3>2
  <2>8. 6 + 1 + (length.sender + 1 + (length.file + 1 + Len(g))) < BUFFER_SIZE
    <3>1. /\ length.sender \in Int /\ length.sender <= MaxNick
          /\ length.file \in Int /\ length.file <= MaxName
          /\ Len(g) \in Int /\ Len(g) <= MaxName + MaxNick + MaxDigits
      BY <1>1, <2>1
    <3>2. \A s, f, n \in Int :
            s <= MaxNick /\ f <= MaxName /\ n <= MaxName + MaxNick + MaxDigits
              => 6 + 1 + (s + 1 + (f + 1 + n)) < BUFFER_SIZE
      BY <1>1
    <3>3. QED BY <3>1, <3>2
  <2>9. QED BY <2>3, <2>5, <2>7, <2>8
<1>7. /\ Answered \in Texts /\ Len(Answered) = 8 + length.sender
      /\ Len(Answered) < BUFFER_SIZE
  <2>1. PICK k \in Texts : k = Word("c", 7) /\ Len(k) = 7
    BY <1>4
  <2>2. Answered \in Texts /\ Len(Answered) = 7 + 1 + length.sender
    <3>1. Then(k, Sender) \in Texts /\ Len(Then(k, Sender)) = Len(k) + 1 + Len(Sender)
      BY <1>3, ThenLength
    <3>2. Answered = Then(k, Sender)
      BY <2>1 DEF Answered
    <3>3. QED BY <1>2, <2>1, <3>1, <3>2
  <2>3. 7 + 1 + length.sender = 8 + length.sender /\ 8 + length.sender < BUFFER_SIZE
    BY <1>1
  <2>4. QED BY <2>2, <2>3
<1>8. /\ Offered \in Texts /\ Len(Offered) + 1 < BUFFER_SIZE
  <2>1. PICK a : a = Then(Port, File)
    OBVIOUS
  <2>2. a \in Texts /\ Len(a) = PortLength + 1 + length.file
    BY <1>2, <1>3, <2>1, ThenLength
  <2>3. PICK b : b = Then(Sender, a)
    OBVIOUS
  <2>4. b \in Texts /\ Len(b) = length.sender + 1 + Len(a)
    <3>1. Then(Sender, a) \in Texts /\ Len(Then(Sender, a)) = Len(Sender) + 1 + Len(a)
      BY <1>3, <2>2, ThenLength
    <3>2. QED BY <1>2, <2>3, <3>1
  <2>5. PICK k \in Texts : k = Word("c", 10) /\ Len(k) = 10
    BY <1>4
  <2>6. Offered \in Texts /\ Len(Offered) = 10 + 1 + Len(b)
    <3>1. Then(k, b) \in Texts /\ Len(Then(k, b)) = Len(k) + 1 + Len(b)
      BY <2>4, ThenLength
    <3>2. Offered = Then(k, b)
      BY <2>1, <2>3, <2>5 DEF Offered
    <3>3. QED BY <2>5, <3>1, <3>2
  <2>7. 10 + 1 + (length.sender + 1 + (PortLength + 1 + length.file)) + 1 < BUFFER_SIZE
    BY <1>1
  <2>8. QED BY <2>2, <2>4, <2>6, <2>7
<1>9. CallBack \in Texts /\ Len(CallBack) < BUFFER_SIZE
  <2>1. PICK a : a = Then(File, Address)
    OBVIOUS
  <2>2. a \in Texts /\ Len(a) = length.file + 1 + AddressLength
    <3>1. Then(File, Address) \in Texts /\ Len(Then(File, Address)) = Len(File) + 1 + Len(Address)
      BY <1>3, ThenLength
    <3>2. QED BY <1>2, <2>1, <3>1
  <2>3. PICK b : b = Then(Port, a)
    OBVIOUS
  <2>4. b \in Texts /\ Len(b) = PortLength + 1 + Len(a)
    BY <1>2, <1>3, <2>2, <2>3, ThenLength
  <2>5. PICK c : c = Then(Receiver, b)
    OBVIOUS
  <2>6. c \in Texts /\ Len(c) = length.receiver + 1 + Len(b)
    <3>1. Then(Receiver, b) \in Texts /\ Len(Then(Receiver, b)) = Len(Receiver) + 1 + Len(b)
      BY <1>3, <2>4, ThenLength
    <3>2. QED BY <1>2, <2>5, <3>1
  <2>7. PICK k \in Texts : k = Word("c", 10) /\ Len(k) = 10
    BY <1>4
  <2>8. CallBack \in Texts /\ Len(CallBack) = 10 + 1 + Len(c)
    <3>1. Then(k, c) \in Texts /\ Len(Then(k, c)) = Len(k) + 1 + Len(c)
      BY <2>6, ThenLength
    <3>2. CallBack = Then(k, c)
      BY <2>1, <2>3, <2>5, <2>7 DEF CallBack
    <3>3. QED BY <2>7, <3>1, <3>2
  <2>9. 10 + 1 + (length.receiver + 1 + (PortLength + 1 + (length.file + 1 + AddressLength)))
          < BUFFER_SIZE
    BY <1>1
  <2>10. QED BY <2>2, <2>4, <2>6, <2>8, <2>9
<1>10. QED BY <1>5, <1>6, <1>7, <1>8, <1>9

(* The lines as the code builds them. *)
LEMMA LinesAre ==
  ASSUME Lengths
  PROVE  /\ Line(<<Word("c", 5), Receiver, File>>) = Request
         /\ Line(<<Request \o <<Newline>>, Size>>) = Sent
         /\ \A g \in Leftovers : Line(<<Word("c", 6), Sender, File, g>>) = Asked(g)
         /\ Line(<<Word("c", 7), Sender>>) = Answered
         /\ Line(<<Word("c", 10), Sender, Port, File>>) = Offered
         /\ Line(<<Word("c", 10), Receiver, Then(Port, File), Address>>) = CallBack
<1>1. PICK S : S = Letters \cup {Blank, Newline}
  OBVIOUS
<1>2. Blank \in S /\ Newline \in S /\ \A t \in Texts : t \in Seq(S)
  BY <1>1, TextsAreLines
<1>3. \A w \in {Sender, Receiver, File, Size, Port, Address} : w \in Texts
  BY WordsAre, WordsAreTexts
<1>4. /\ Sender \in Seq(S) /\ Receiver \in Seq(S) /\ File \in Seq(S)
      /\ Size \in Seq(S) /\ Port \in Seq(S) /\ Address \in Seq(S)
  BY <1>2, <1>3
<1>5. \A n \in Nat : Word("c", n) \in Seq(S)
  BY <1>2, WordsAre, WordsAreTexts
<1>6. Line(<<Word("c", 5), Receiver, File>>) = Request
  <2>1. PICK c \in Seq(S) : c = Word("c", 5)
    BY <1>5
  <2>2. Line(<<c, Receiver, File>>) = Then(c, Then(Receiver, File))
    BY <1>2, <1>4, ThenOfThree
  <2>3. QED BY <2>1, <2>2 DEF Request
<1>7. Line(<<Request \o <<Newline>>, Size>>) = Sent
  <2>1. PICK q \in Seq(S) : q = Request
    BY <1>2, LinesFit
  <2>2. PICK l \in Seq(S) : l = q \o <<Newline>>
    BY <1>2, NewlineIs
  <2>3. Line(<<l, Size>>) = Then(l, Size)
    BY <1>2, <1>4, ThenOfTwo
  <2>4. QED BY <2>1, <2>2, <2>3 DEF Sent
<1>8. ASSUME NEW g \in Leftovers PROVE Line(<<Word("c", 6), Sender, File, g>>) = Asked(g)
  <2>1. PICK c \in Seq(S) : c = Word("c", 6)
    BY <1>5
  <2>2. g \in Seq(S)
    BY <1>2, LeftoversAre, WordsAreTexts
  <2>3. Line(<<c, Sender, File, g>>) = Then(c, Then(Sender, Then(File, g)))
    BY <1>2, <1>4, <2>2, ThenOfFour
  <2>4. QED BY <2>1, <2>3 DEF Asked
<1>9. Line(<<Word("c", 7), Sender>>) = Answered
  <2>1. PICK c \in Seq(S) : c = Word("c", 7)
    BY <1>5
  <2>2. Line(<<c, Sender>>) = Then(c, Sender)
    BY <1>2, <1>4, ThenOfTwo
  <2>3. QED BY <2>1, <2>2 DEF Answered
<1>10. PICK k \in Seq(S) : k = Word("c", 10)
  BY <1>5
<1>11. Line(<<Word("c", 10), Sender, Port, File>>) = Offered
  <2>1. Line(<<k, Sender, Port, File>>) = Then(k, Then(Sender, Then(Port, File)))
    BY <1>2, <1>4, ThenOfFour
  <2>2. QED BY <1>10, <2>1 DEF Offered
<1>12. Line(<<Word("c", 10), Receiver, Then(Port, File), Address>>) = CallBack
  <2>1. PICK v \in Seq(S) : v = Then(Port, File)
    BY <1>2, <1>4, ThenIs
  <2>2. Line(<<k, Receiver, v, Address>>) = Then(k, Then(Receiver, Then(v, Address)))
    BY <1>2, <1>4, ThenOfFour
  <2>3. Then(v, Address) = Joined(v, Address)
    BY <1>2, <1>4, JoinedIs
  <2>4. Joined(Then(Port, File), Address) = Then(Port, Then(File, Address))
    BY <1>2, <1>4, ThenJoined
  <2>5. QED BY <1>10, <2>1, <2>2, <2>3, <2>4 DEF CallBack
<1>13. QED BY <1>6, <1>7, <1>8, <1>9, <1>11, <1>12

LEMMA FitsText ==
  ASSUME NEW t \in Texts
  PROVE  /\ Len(t) < BUFFER_SIZE => FitsLine(t)
         /\ Len(t) + 1 < BUFFER_SIZE => FitsLine(t \o <<Newline>>)
<1>1. Len(t) < BUFFER_SIZE => FitsLine(t)
  BY TextsAreLines DEF FitsLine
<1>2. ASSUME Len(t) + 1 < BUFFER_SIZE PROVE FitsLine(t \o <<Newline>>)
  <2>1. /\ t \o <<Newline>> \in Seq(Letters \cup {Blank, Newline})
        /\ Len(t \o <<Newline>>) = Len(t) + 1
    BY <1>2, HoldsRequest
  <2>2. QED BY <1>2, <2>1 DEF FitsLine
<1>3. QED BY <1>1, <1>2

LEMMA TypedLinesFit ==
  ASSUME NEW l \in TypedLines
  PROVE  FitsLine(l)
<1>1. PICK n \in 1 .. MaxLine : l \in [1 .. n -> Typed \cup {Blank, Newline}]
  BY DEF TypedLines
<1>2. /\ MaxLine \in Nat /\ MaxLine < BUFFER_SIZE /\ BUFFER_SIZE \in Nat
      /\ Typed \cup {Blank, Newline} \subseteq Letters \cup {Blank, Newline}
  BY LinesAssumption, TextAssumption
<1>3. l \in Seq(Letters \cup {Blank, Newline}) /\ Len(l) = n
  <2>1. l \in [1 .. n -> Letters \cup {Blank, Newline}] /\ n \in Nat
    BY <1>1, <1>2
  <2>2. QED BY <2>1
<1>4. QED BY <1>2, <1>3 DEF FitsLine

LEMMA StagesInit == Init => Stages
<1> SUFFICES ASSUME Init PROVE Stages
  OBVIOUS
<1>1. Lengths
  BY DEF Init, Lengths
<1>2. CASE /\ stage = "keyboard"
           /\ line = Line(<<Word("c", 5), Receiver, File>>) \o <<Newline>>
  <2>1. line = Request \o <<Newline>>
    BY <1>1, <1>2, LinesAre
  <2>2. FitsLine(line)
    BY <1>1, <2>1, LinesFit, FitsText
  <2>3. shown = <<>> /\ called = <<>>
    BY DEF Init
  <2>4. QED BY <1>1, <1>2, <2>1, <2>2, <2>3 DEF Stages
<1>3. CASE stage = "other" /\ line \in TypedLines
  <2>1. FitsLine(line)
    BY <1>3, TypedLinesFit
  <2>2. shown = <<>> /\ called = <<>>
    BY DEF Init
  <2>3. QED BY <1>1, <1>3, <2>1, <2>2 DEF Stages
<1>4. QED BY <1>2, <1>3 DEF Init

(* The client adds the size to the line it has read. *)
LEMMA RequestKeeps ==
  ASSUME Stages, handle_client_message
  PROVE  Stages'
<1>1. /\ Lengths /\ stage = "keyboard" /\ line = Request \o <<Newline>>
      /\ stage' = "SEND" /\ line' = Line(<<line, file_size(Holding(line))>>)
      /\ UNCHANGED <<length, shown, told, called>>
      /\ shown = <<>> /\ called \in {<<>>, <<Receiver, Port, File, Address>>}
  BY DEF Stages, handle_client_message, Reads
<1>2. Holds(Holding(line), Request)
  BY <1>1, LinesFit, HoldsRequest
<1>3. Arg(Holding(line), 3) = File
  <2>1. PICK c \in Seq(Letters) : c = Word("c", 5)
    <3>1. 5 \in Nat
      OBVIOUS
    <3>2. QED BY <1>1, <3>1, WordsAre
  <2>2. Receiver \in Seq(Letters) /\ File \in Seq(Letters)
    BY <1>1, WordsAre
  <2>3. Holds(Holding(line), Then(c, Then(Receiver, File)))
    BY <1>2, <2>1 DEF Request
  <2>4. QED BY <2>2, <2>3, TwoWords
<1>4. line' = Sent
  BY <1>1, <1>3, LinesAre DEF file_size
<1>5. FitsLine(line')
  BY <1>1, <1>4, LinesFit
<1>6. QED BY <1>1, <1>4, <1>5, SameWords DEF Stages

LEMMA SendKeeps ==
  ASSUME Stages, SEND
  PROVE  Stages'
<1>1. /\ Lengths /\ stage = "SEND" /\ line = Sent /\ stage' = "FTREQ"
      /\ UNCHANGED <<length, shown, told, called>>
      /\ shown = <<>> /\ called \in {<<>>, <<Receiver, Port, File, Address>>}
  BY DEF Stages, SEND, Reads
<1>2. PICK b : b = separate(Holding(Sent))
  OBVIOUS
<1>3. PICK g \in Leftovers : Arg(b, 1) = Receiver /\ Arg(b, 2) = File /\ Arg(b, 3) = g
  BY <1>1, <1>2, SendReads
<1>4. line' = Line(<<Word("c", 6), Sender, Arg(b, 2), Arg(b, 3)>>)
  BY <1>1, <1>2, <1>3 DEF SEND
<1>5. line' = Asked(g)
  BY <1>1, <1>3, <1>4, LinesAre
<1>6. FitsLine(line')
  BY <1>1, <1>5, LinesFit, FitsText
<1>7. \E x \in Leftovers' : line' = Asked(x)'
  BY <1>1, <1>3, <1>5, SameWords
<1>8. QED BY <1>1, <1>6, <1>7, SameWords DEF Stages

LEMMA AskKeeps ==
  ASSUME Stages, FTREQ
  PROVE  Stages'
<1>1. /\ Lengths /\ stage = "FTREQ" /\ stage' = "prompt"
      /\ shown' = Args(Holding(line), 3)
      /\ UNCHANGED <<length, line, told, called>>
      /\ called \in {<<>>, <<Receiver, Port, File, Address>>} /\ FitsLine(line)
  BY DEF Stages, FTREQ, Reads
<1>2. PICK g \in Leftovers : line = Asked(g)
  BY <1>1 DEF Stages
<1>3. PICK c \in Seq(Letters) : c = Word("c", 6)
  <2>1. 6 \in Nat
    OBVIOUS
  <2>2. QED BY <1>1, <2>1, WordsAre
<1>4. Sender \in Seq(Letters) /\ File \in Seq(Letters) /\ g \in Seq(Letters)
  BY <1>1, WordsAre, LeftoversAre
<1>5. Holds(Holding(line), Then(c, Then(Sender, Then(File, g))))
  <2>1. Holds(Holding(Asked(g)), Asked(g))
    BY <1>1, LinesFit, HoldsText
  <2>2. QED BY <1>2, <1>3, <2>1 DEF Asked
<1>6. shown' = <<Sender, File, g>>
  BY <1>1, <1>4, <1>5, ThreeWords
<1>7. shown' \in Questions
  BY <1>6 DEF Questions
<1>8. QED BY <1>1, <1>7, SameWords DEF Stages

LEMMA PromptKeeps ==
  ASSUME Stages, prompt_user_for_file_transfer
  PROVE  Stages'
<1>1. /\ Lengths /\ stage = "prompt" /\ stage' \in {"FTREQP", "FTREQN"}
      /\ line' = Line(<<Word("c", 7), shown[1]>>)
      /\ UNCHANGED <<length, shown, told, called>>
      /\ shown \in Questions
      /\ called \in {<<>>, <<Receiver, Port, File, Address>>}
  BY DEF Stages, prompt_user_for_file_transfer, Reads
<1>2. shown[1] = Sender
  BY <1>1 DEF Questions
<1>3. line' = Answered
  BY <1>1, <1>2, LinesAre
<1>4. FitsLine(line')
  BY <1>1, <1>3, LinesFit, FitsText
<1>5. QED BY <1>1, <1>3, <1>4, SameWords DEF Stages

(* Either answer. *)
LEMMA AnswerIsTold ==
  ASSUME Lengths, line = Answered
  PROVE  (Answers(line) /\ Arg(separate(Holding(line)), 1) = Sender) <=> length.sender >= 2
<1>1. length.sender \in Nat /\ Len(line) = 8 + length.sender
  <2>1. length.sender \in 1 .. MaxNick /\ MaxNick \in Nat
    BY WordsAre DEF Roomy
  <2>2. QED BY <2>1, LinesFit
<1>2. Answers(line) <=> length.sender >= 2
  BY <1>1 DEF Answers
<1>3. PICK c \in Seq(Letters) : c = Word("c", 7)
  <2>1. 7 \in Nat
    OBVIOUS
  <2>2. QED BY <2>1, WordsAre
<1>4. Holds(Holding(line), Then(c, Sender))
  <2>1. Holds(Holding(Answered), Answered)
    BY LinesFit, HoldsText
  <2>2. QED BY <1>3, <2>1 DEF Answered
<1>5. Arg(separate(Holding(line)), 1) = Sender
  BY <1>4, WordsAre, OneWord
<1>6. QED BY <1>2, <1>5

LEMMA AnswerKeeps ==
  ASSUME Stages, FTREQN \/ FTREQP
  PROVE  Stages'
<1>1. /\ Lengths /\ line = Answered /\ stage' \in {"listen", "end"}
      /\ told' = (Answers(line) /\ Arg(separate(Holding(line)), 1) = Sender)
      /\ UNCHANGED <<length, line, shown, called>>
      /\ shown \in Questions /\ FitsLine(line)
      /\ called \in {<<>>, <<Receiver, Port, File, Address>>}
  BY DEF Stages, FTREQN, FTREQP, answer, Reads
<1>2. told' <=> length.sender >= 2
  BY <1>1, AnswerIsTold
<1>3. QED BY <1>1, <1>2, SameWords DEF Stages

LEMMA OfferKeeps ==
  ASSUME Stages, set_up_peer_2_peer_file_transfer
  PROVE  Stages'
<1>1. /\ Lengths /\ stage = "listen" /\ stage' = "CONN_INFO"
      /\ line' = Line(<<Word("c", 10), shown[1], Port, shown[2]>>) \o <<Newline>>
      /\ UNCHANGED <<length, shown, told, called>>
      /\ shown \in Questions
      /\ called \in {<<>>, <<Receiver, Port, File, Address>>}
      /\ told <=> length.sender >= 2
  BY DEF Stages, set_up_peer_2_peer_file_transfer, Reads
<1>2. shown[1] = Sender /\ shown[2] = File
  BY <1>1 DEF Questions
<1>3. line' = Offered \o <<Newline>>
  BY <1>1, <1>2, LinesAre
<1>4. FitsLine(line')
  BY <1>1, <1>3, LinesFit, FitsText
<1>5. QED BY <1>1, <1>3, <1>4, SameWords DEF Stages

LEMMA ConnInfoKeeps ==
  ASSUME Stages, CONN_INFO
  PROVE  Stages'
<1>1. /\ Lengths /\ stage = "CONN_INFO" /\ line = Offered \o <<Newline>>
      /\ stage' = "INFO_CONN"
      /\ UNCHANGED <<length, shown, told, called>>
      /\ shown \in Questions
      /\ called \in {<<>>, <<Receiver, Port, File, Address>>}
      /\ told <=> length.sender >= 2
  BY DEF Stages, CONN_INFO, Reads
<1>2. PICK b : b = separate(Holding(line))
  OBVIOUS
<1>3. PICK c \in Seq(Letters) : c = Word("c", 10)
  <2>1. 10 \in Nat
    OBVIOUS
  <2>2. QED BY <1>1, <2>1, WordsAre
<1>4. PICK v \in Texts : v = Then(Port, File)
  <2>1. Port \in Texts /\ File \in Texts
    BY <1>1, WordsAre, WordsAreTexts
  <2>2. QED BY <2>1, ThenText
<1>5. Holds(Holding(line), Then(c, Then(Sender, v)))
  <2>1. Holds(Holding(line), Offered)
    BY <1>1, LinesFit, HoldsRequest
  <2>2. QED BY <1>3, <1>4, <2>1 DEF Offered
<1>6. Arg(b, 1) = Sender /\ Holds(separate(b), v) /\ separate(b)[Len(v) + 1] = Nul
  <2>1. PICK h : h = Holding(line)
    OBVIOUS
  <2>2. Sender \in Seq(Letters)
    BY <1>1, WordsAre
  <2>3. Holds(h, Then(c, Then(Sender, v)))
    BY <1>5, <2>1
  <2>4. /\ Arg(separate(h), 1) = Sender
        /\ Holds(separate(separate(h)), v)
        /\ separate(separate(h))[Len(v) + 1] = Nul
    BY <2>2, <2>3, FirstArgument
  <2>5. QED BY <1>2, <2>1, <2>4
<1>7. String(separate(b)) = Then(Port, File)
  BY <1>4, <1>6, StringIs
<1>8. line' = Line(<<Word("c", 10), Receiver, Then(Port, File), Address>>)
  <2>1. line' = Line(<<Word("c", 10), Receiver, String(separate(b)), Address>>)
    BY <1>2, <1>6 DEF CONN_INFO
  <2>2. QED BY <1>7, <2>1
<1>9. line' = CallBack
  BY <1>1, <1>8, LinesAre
<1>10. FitsLine(line')
  BY <1>1, <1>9, LinesFit, FitsText
<1>11. QED BY <1>1, <1>9, <1>10, SameWords DEF Stages

LEMMA ConnectKeeps ==
  ASSUME Stages, connect_to_peer_2_peer
  PROVE  Stages'
<1>1. /\ Lengths /\ stage = "INFO_CONN" /\ line = CallBack /\ stage' = "end"
      /\ called' = Args(Holding(line), 4)
      /\ UNCHANGED <<length, line, shown, told>>
      /\ shown \in Questions /\ FitsLine(line)
      /\ told <=> length.sender >= 2
  BY DEF Stages, connect_to_peer_2_peer, Reads
<1>2. PICK c \in Seq(Letters) : c = Word("c", 10)
  <2>1. 10 \in Nat
    OBVIOUS
  <2>2. QED BY <1>1, <2>1, WordsAre
<1>3. Holds(Holding(line), Then(c, Then(Receiver, Then(Port, Then(File, Address)))))
  <2>1. Holds(Holding(CallBack), CallBack)
    BY <1>1, LinesFit, HoldsText
  <2>2. QED BY <1>1, <1>2, <2>1 DEF CallBack
<1>4. called' = <<Receiver, Port, File, Address>>
  <2>1. /\ Receiver \in Seq(Letters) /\ Port \in Seq(Letters)
        /\ File \in Seq(Letters) /\ Address \in Seq(Letters)
    BY <1>1, WordsAre
  <2>2. QED BY <1>1, <1>3, <2>1, FourWords
<1>5. QED BY <1>1, <1>4, SameWords DEF Stages

LEMMA StagesKept == Spec => []Stages
<1>1. Stages /\ [Next]_vars => Stages'
  <2> SUFFICES ASSUME Stages, [Next]_vars PROVE Stages'
    OBVIOUS
  <2>1. CASE handle_client_message
    BY <2>1, RequestKeeps
  <2>2. CASE SEND
    BY <2>2, SendKeeps
  <2>3. CASE FTREQ
    BY <2>3, AskKeeps
  <2>4. CASE prompt_user_for_file_transfer
    BY <2>4, PromptKeeps
  <2>5. CASE FTREQN \/ FTREQP
    BY <2>5, AnswerKeeps
  <2>6. CASE set_up_peer_2_peer_file_transfer
    BY <2>6, OfferKeeps
  <2>7. CASE CONN_INFO
    BY <2>7, ConnInfoKeeps
  <2>8. CASE connect_to_peer_2_peer
    BY <2>8, ConnectKeeps
  <2>9. CASE UNCHANGED vars
    <3>1. /\ UNCHANGED <<length, stage, line, shown, told, called>>
      BY <2>9 DEF vars
    <3>2. QED BY <3>1, SameWords DEF Stages
  <2>10. QED
    BY <2>1, <2>2, <2>3, <2>4, <2>5, <2>6, <2>7, <2>8, <2>9 DEF Next
<1>2. QED BY <1>1, StagesInit, PTL DEF Spec
-----------------------------------------------------------------------------
(* The results. *)

(* Whatever a user types and however often get_next_arg has been called, the   *)
(* n-th call returns the line's n-th field (common.c:123, separate's caller   *)
(* in every handler).                                                        *)
THEOREM ArgumentsAreFields == Spec => []ArgsAreFields
<1>1. Stages => ArgsAreFields
  BY FittingLineIsCut DEF Stages, FitsLine, Fits
<1>2. QED BY <1>1, StagesKept, PTL

(* separate, which does not stop at the end of the text, stays inside the      *)
(* buffer as long as a field is left behind the one it drops.               *)
THEOREM SeparateStaysInside == Spec => []InsideUntilLast
<1>1. Stages => InsideUntilLast
  BY FittingLineIsCut DEF Stages, FitsLine, Fits
<1>2. QED BY <1>1, StagesKept, PTL

(* A name is the same with and without format_nick in front of separate: the    *)
(* channel JOIN looks for is the one CREATE made.                            *)
THEOREM FormatNickChangesNothing == Spec => []SameName
<1>1. Stages => SameName
  BY FormatNickAgrees DEF Stages, FitsLine, Fits
<1>2. QED BY <1>1, StagesKept, PTL

(* The receiver of a file is asked about its sender and its name, for every     *)
(* length of the words.                                                      *)
THEOREM RightQuestion == Spec => []AskedAboutTheFile
<1>1. Stages => AskedAboutTheFile
  <2> SUFFICES ASSUME Stages, shown # <<>> PROVE shown[1] = Sender /\ shown[2] = File
    BY DEF AskedAboutTheFile
  <2>1. shown \in Questions
    BY DEF Stages
  <2>2. QED BY <2>1 DEF Questions
<1>2. QED BY <1>1, StagesKept, PTL

(* What the sender connects with is the receiver's name, port and address and   *)
(* the file it offered, for every length of the words.                       *)
THEOREM RightAnswer == Spec => []CalledBack
<1>1. Stages => CalledBack
  BY DEF Stages, CalledBack
<1>2. QED BY <1>1, StagesKept, PTL

(* get_command takes an answer for one only if the sender's nickname has two    *)
(* characters or more.                                                       *)
THEOREM LongNamesAreAnswered == Spec => []AnswerReachesLongNames
<1>1. Stages => AnswerReachesLongNames
  BY DEF Stages, AnswerReachesLongNames
<1>2. QED BY <1>1, StagesKept, PTL

(* The size a client is shown is the file's exactly when the file's name has    *)
(* five characters or more, and no fewer than the receiver's.                *)
THEOREM SizeOfLongNames == Spec => []SizeNeedsLongName
<1>1. Stages => SizeNeedsLongName
  <2> SUFFICES ASSUME Stages, shown # <<>>
               PROVE  shown[3] = Size <=>
                        length.file >= 5 /\ length.file >= length.receiver
    BY DEF SizeNeedsLongName
  <2>1. Lengths /\ shown \in Questions
    BY DEF Stages
  <2>2. shown[3] \in Leftovers
    BY <2>1 DEF Questions
  <2>3. Size # File /\ Size # Receiver
    <3>1. /\ length.size \in 1 .. MaxDigits /\ length.file \in 1 .. MaxName
          /\ length.receiver \in 1 .. MaxNick
          /\ MaxName \in Nat /\ MaxNick \in Nat /\ MaxDigits \in Nat
      BY <2>1, WordsAre DEF Roomy
    <3>2. 1 \in 1 .. length.size /\ 1 \in 1 .. length.file /\ 1 \in 1 .. length.receiver
      BY <3>1
    <3>3. Size[1] = "d" /\ File[1] = "f" /\ Receiver[1] = "r"
      BY <3>2 DEF Size, File, Receiver, Word
    <3>4. QED BY <3>3
  <2>4. QED BY <2>2, <2>3 DEF Leftovers
<1>2. QED BY <1>1, StagesKept, PTL
=============================================================================
