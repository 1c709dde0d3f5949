--------------------------- MODULE WordFileProofs ---------------------------
(***************************************************************************)
(* Proofs about WordFile, for any set of clients, any words, files of any  *)
(* length and any number of servers.                                       *)
(***************************************************************************)
EXTENDS WordFile, SequenceTheorems, TLAPS

-----------------------------------------------------------------------------
(* The inductive invariant *)

\* The requests of a client in a queue: none, one at most, or only of some kinds.
NoneOf(c, queue) == \A k \in DOMAIN queue : queue[k].from # c

OneOf(c, queue) ==
    \A j, k \in DOMAIN queue : queue[j].from = c /\ queue[k].from = c => j = k

Asks(c, whats, queue) ==
    \A k \in DOMAIN queue : queue[k].from = c => queue[k].what \in whats

\* Nothing new of this client.
Kept(c, old, new) ==
    /\ NoneOf(c, old) => NoneOf(c, new)
    /\ OneOf(c, old) => OneOf(c, new)
    /\ \A whats : Asks(c, whats, old) => Asks(c, whats, new)

\* The words of the file after the first p.
IsRest(words, p) ==
    /\ p + Len(words) = Len(text)
    /\ \A i \in 1 .. Len(words) : words[i] = text[p + i]

\* The words of the file from the last HELLO of the first p to the p-th, which are
\* what a client has printed to fp.
IsUpto(words, p) ==
    IF p = 0 THEN words = Unopened
    ELSE \E s \in 1 .. p :
            /\ text[s] = hellomsg
            /\ \A i \in s + 1 .. p : text[i] # hellomsg
            /\ words \in Seq(Contents) /\ Len(words) = p - s + 1
            /\ \A i \in 1 .. p - s + 1 : words[i] = text[s + i - 1]

\* HELLO is at most once in the first p words.
OnceUpto(p) == \A i, j \in 1 .. p : text[i] = hellomsg /\ text[j] = hellomsg => i = j

\* The streams that a client has left open are those of the HELLOs of the first p words
\* but the last one: if there are any, then the first has the lines up to the second
\* HELLO, the n-th word.
IsLeft(streams, p) ==
    IF streams = <<>> THEN OnceUpto(p)
    ELSE \E n \in 1 .. p :
            /\ text[n] = hellomsg /\ OnceUpto(n - 1)
            /\ IsUpto(streams[1], n - 1) /\ streams[1] # Unopened

Unfinished(p) == \A i \in 1 .. p : text[i] # finishmsg

\* If the server has opened the file, it has read the first p words of it.
HasRead(p) == running /\ fp # NULL => IsRest(fp, p) /\ res = text[p]

\* Nobody has been answered.
Begun(c) ==
    /\ served = {} /\ response[c] = Unopened /\ left[c] = <<>> /\ answer[c] = Nothing
    /\ Asks(c, Names, requests)

\* The next request is to read the word after the p-th.
Asked(c, p) ==
    /\ p \in 1 .. Len(text) /\ HasRead(p) /\ Unfinished(p)
    /\ IsUpto(response[c], p) /\ IsLeft(left[c], p) /\ answer[c] = Nothing
    /\ Asks(c, {WORD}, requests)

\* The p-th word is on its way.
Answered(c, p) ==
    /\ p \in 1 .. Len(text) /\ HasRead(p) /\ Unfinished(p - 1)
    /\ IsUpto(response[c], p - 1) /\ IsLeft(left[c], p - 1) /\ answer[c] = text[p]
    /\ NoneOf(c, requests)

\* What was sent last is lost.
Silent(c) == answer[c] = Nothing /\ NoneOf(c, requests)

\* The server has another file, or none, or is at the end: there will be no FINISH.
OutOfStep(c) ==
    /\ answer[c] # finishmsg /\ Asks(c, {WORD}, requests)
    /\ running /\ fp # NULL => fp = <<>> /\ res # finishmsg

WaitingInv(c) ==
    \/ Begun(c)
    \/ \E p \in Nat : Asked(c, p) \/ Answered(c, p)
    \/ Silent(c)
    \/ OutOfStep(c)

\* The client has printed the whole file, and left no stream open or that of the first
\* HELLO among others.
DoneInv(c) ==
    /\ response[c] = Whole(text)
    /\ IF HelloOnce(text) THEN left[c] = <<>>
       ELSE left[c] # <<>> /\ left[c][1] = First(text)

ClientInv(c) ==
    /\ c_pc[c] = "idle" =>
          /\ c \notin served /\ response[c] = Unopened /\ left[c] = <<>> /\ answer[c] = Nothing
          /\ NoneOf(c, requests)
    /\ c_pc[c] = "waiting" =>
          /\ OneOf(c, requests)
          /\ answer[c] # Nothing => NoneOf(c, requests)
          /\ Alone(c) => WaitingInv(c)
    /\ c_pc[c] = "done" /\ Alone(c) => DoneInv(c)

\* A server that has answered nobody has not opened the file.
ServerInv == served = {} => fp = NULL /\ res = Junk

IInv == TypeOK /\ ServerInv /\ \A c \in Clients : ClientInv(c)

-----------------------------------------------------------------------------
(* Queues *)

LEMMA Queued ==
    ASSUME NEW queue \in Seq(Requests), NEW r \in Requests, NEW w, w = Append(queue, r),
           NEW c
    PROVE  /\ w \in Seq(Requests)
           /\ r.from # c => Kept(c, queue, w)
           /\ NoneOf(c, queue) => OneOf(c, w) /\ Asks(c, {r.what}, w)
<1>1. PICK n \in Nat : n = Len(queue) /\ DOMAIN queue = 1 .. n
  BY LenProperties
<1>2. /\ w \in Seq(Requests) /\ Len(w) = n + 1
      /\ \A i \in 1 .. n : w[i] = queue[i]
      /\ w[n + 1] = r
  BY <1>1, AppendProperties
<1>3. DOMAIN w = 1 .. n + 1
  BY <1>2, LenProperties
<1>4. \A i \in 1 .. n + 1 : i \in 1 .. n \/ i = n + 1
  OBVIOUS
<1>5. \A i \in DOMAIN w : (i \in DOMAIN queue /\ w[i] = queue[i]) \/ (i = n + 1 /\ w[i] = r)
  BY <1>1, <1>2, <1>3, <1>4
<1>6. ASSUME r.from # c PROVE Kept(c, queue, w)
  <2>1. \A i \in DOMAIN w : w[i].from = c => i \in DOMAIN queue /\ w[i] = queue[i]
    BY <1>5, <1>6
  <2> QED BY <2>1 DEF Kept, NoneOf, OneOf, Asks
<1>7. ASSUME NoneOf(c, queue) PROVE OneOf(c, w) /\ Asks(c, {r.what}, w)
  <2>1. \A i \in DOMAIN w : w[i].from = c => i = n + 1 /\ w[i] = r
    BY <1>5, <1>7 DEF NoneOf
  <2> QED BY <2>1 DEF OneOf, Asks
<1> QED BY <1>2, <1>6, <1>7

LEMMA Dequeued ==
    ASSUME NEW queue \in Seq(Requests), queue # <<>>, NEW w, w = Tail(queue), NEW c
    PROVE  /\ w \in Seq(Requests)
           /\ Kept(c, queue, w)
           /\ Head(queue) \in Requests
           /\ NoneOf(c, queue) => Head(queue).from # c
           /\ Head(queue).from = c =>
                 /\ \A whats : Asks(c, whats, queue) => Head(queue).what \in whats
                 /\ OneOf(c, queue) => NoneOf(c, w)
<1>1. PICK n \in Nat : n = Len(queue) /\ DOMAIN queue = 1 .. n /\ n > 0
  <2>1. Len(queue) \in Nat /\ DOMAIN queue = 1 .. Len(queue)
    BY LenProperties
  <2>2. PICK n \in Nat : n = Len(queue) /\ n # 0
    BY <2>1, EmptySeq
  <2>3. n > 0
    BY <2>2
  <2>4. DOMAIN queue = 1 .. n
    BY <2>1, <2>2
  <2> QED BY <2>2, <2>3, <2>4
<1>2. /\ Head(queue) \in Requests /\ w \in Seq(Requests) /\ Len(w) = n - 1
      /\ \A i \in 1 .. n - 1 : w[i] = queue[i + 1]
  <2>1. /\ Head(queue) \in Requests /\ Tail(queue) \in Seq(Requests)
        /\ Len(Tail(queue)) = Len(queue) - 1
        /\ \A i \in 1 .. Len(Tail(queue)) : Tail(queue)[i] = queue[i + 1]
    BY HeadTailProperties
  <2> QED BY <1>1, <2>1
<1>3. Head(queue) = queue[1] /\ 1 \in DOMAIN queue
  BY <1>1
<1>4. DOMAIN w = 1 .. n - 1
  BY <1>2, LenProperties
<1>5. \A i \in DOMAIN w : i + 1 \in DOMAIN queue /\ w[i] = queue[i + 1] /\ i + 1 # 1
  BY <1>1, <1>2, <1>4
<1>6. \A i, j \in DOMAIN w : i + 1 = j + 1 => i = j
  BY <1>4
<1>7. NoneOf(c, queue) => NoneOf(c, w) /\ Head(queue).from # c
  BY <1>3, <1>5 DEF NoneOf
<1>8. OneOf(c, queue) => OneOf(c, w)
  BY <1>5, <1>6 DEF OneOf
<1>9. \A whats : Asks(c, whats, queue) => Asks(c, whats, w)
  BY <1>5 DEF Asks
<1>10. ASSUME Head(queue).from = c
       PROVE  /\ \A whats : Asks(c, whats, queue) => Head(queue).what \in whats
              /\ OneOf(c, queue) => NoneOf(c, w)
  <2>1. queue[1].from = c
    BY <1>3, <1>10
  <2>2. \A whats : Asks(c, whats, queue) => Head(queue).what \in whats
    BY <1>3, <2>1 DEF Asks
  <2>3. OneOf(c, queue) => NoneOf(c, w)
    BY <1>3, <1>5, <2>1 DEF OneOf, NoneOf
  <2> QED BY <2>2, <2>3
<1> QED BY <1>2, <1>7, <1>8, <1>9, <1>10 DEF Kept

LEMMA EmptyQueue ==
    /\ <<>> \in Seq(Requests)
    /\ \A c : NoneOf(c, <<>>) /\ OneOf(c, <<>>) /\ \A whats : Asks(c, whats, <<>>)
<1>1. <<>> \in Seq(Requests) /\ DOMAIN <<>> = {}
  BY EmptySeq
<1> QED BY <1>1 DEF NoneOf, OneOf, Asks


-----------------------------------------------------------------------------
(* The words of the file *)

LEMMA TextIs == TypeOK => text \in Seq(Contents) /\ Len(text) \in Nat /\ Len(text) <= MaxWords
<1> SUFFICES ASSUME TypeOK
             PROVE  text \in Seq(Contents) /\ Len(text) \in Nat /\ Len(text) <= MaxWords
  OBVIOUS
<1>1. PICK n \in 0 .. MaxWords : text \in [1 .. n -> Contents]
  BY DEF TypeOK, Texts, BoundedSeq, SeqOf
<1>2. n \in Nat /\ n <= MaxWords
  BY WordAssumption
<1>3. text \in Seq(Contents)
  BY <1>1, <1>2, SeqDef
<1>4. Len(text) = n
  BY <1>1, <1>2, <1>3, LenProperties
<1> QED BY <1>2, <1>3, <1>4

\* The server reads the next word, if there is one.
LEMMA NextWord ==
    ASSUME TypeOK, NEW p \in Nat, NEW rest \in Seq(Contents), IsRest(rest, p), rest # <<>>
    PROVE  /\ p + 1 \in 1 .. Len(text) /\ Head(rest) = text[p + 1]
           /\ Tail(rest) \in Seq(Contents) /\ IsRest(Tail(rest), p + 1)
<1>1. PICK n \in Nat, l \in Nat :
         n = Len(rest) /\ n > 0 /\ l = Len(text) /\ p + n = l
  <2>1. PICK n \in Nat : n = Len(rest) /\ n # 0
    BY LenProperties, EmptySeq
  <2> QED BY <2>1, TextIs DEF IsRest
<1>2. \A i \in 1 .. n : rest[i] = text[p + i]
  BY <1>1 DEF IsRest
<1>3. /\ Head(rest) = rest[1] /\ Tail(rest) \in Seq(Contents)
      /\ Len(Tail(rest)) = n - 1
      /\ \A i \in 1 .. n - 1 : Tail(rest)[i] = rest[i + 1]
  <2>1. /\ Tail(rest) \in Seq(Contents) /\ Len(Tail(rest)) = Len(rest) - 1
        /\ \A i \in 1 .. Len(Tail(rest)) : Tail(rest)[i] = rest[i + 1]
    BY HeadTailProperties
  <2> QED BY <1>1, <2>1
<1>4. p + 1 \in 1 .. l /\ 1 \in 1 .. n
  BY <1>1
<1>5. IsRest(Tail(rest), p + 1)
  <2>1. p + 1 + (n - 1) = l
    BY <1>1
  <2>2. ASSUME NEW i \in 1 .. n - 1 PROVE Tail(rest)[i] = text[p + 1 + i]
    <3>1. PICK j \in 1 .. n : j = i + 1 /\ p + j = p + 1 + i
      OBVIOUS
    <3> QED BY <1>2, <1>3, <3>1
  <2> QED BY <1>1, <1>3, <2>1, <2>2 DEF IsRest
<1> QED BY <1>1, <1>2, <1>3, <1>4, <1>5

\* The whole file is the rest of it after no word.
LEMMA AllIsRest == TypeOK => IsRest(text, 0)
BY TextIs DEF IsRest

\* At the end of the file.
LEMMA NoRest ==
    ASSUME TypeOK, NEW p \in Nat, IsRest(<<>>, p)
    PROVE  p = Len(text)
<1>1. Len(<<>>) = 0
  BY EmptySeq
<1> QED BY <1>1, TextIs DEF IsRest

\* What the client has in its file grows by the next word, and HELLO opens it.
LEMMA UptoHello ==
    ASSUME TypeOK, NEW p \in 1 .. Len(text), text[p] = hellomsg
    PROVE  IsUpto(<<text[p]>>, p) /\ Len(<<text[p]>>) = 1
<1>1. PICK l \in Nat : l = Len(text) /\ p \in 1 .. l /\ p \in Nat /\ 1 <= p
  BY TextIs
<1>2. PICK x \in Contents : x = text[p]
  BY <1>1, TextIs, ElementOfSeq
<1>3. <<x>> \in Seq(Contents) /\ Len(<<x>>) = 1 /\ <<x>>[1] = x
  OBVIOUS
<1>4. p - p + 1 = 1 /\ p + 1 - 1 = p /\ p # 0 /\ p \in 1 .. p
  BY <1>1
<1>5. \A i \in p + 1 .. p : text[i] # hellomsg
  BY <1>1
<1>6. \A i \in 1 .. p - p + 1 : <<x>>[i] = text[p + i - 1]
  BY <1>2, <1>3, <1>4
<1> QED BY <1>2, <1>3, <1>4, <1>5, <1>6 DEF IsUpto

LEMMA UptoNext ==
    ASSUME TypeOK, NEW p \in 1 .. Len(text), text[p] # hellomsg, NEW words, words # Unopened,
           IsUpto(words, p - 1)
    PROVE  IsUpto(Append(words, text[p]), p) /\ Len(Append(words, text[p])) <= Len(text)
<1>1. PICK l \in Nat : l = Len(text) /\ p \in Nat /\ 1 <= p /\ p <= l
  BY TextIs
<1>2. p - 1 # 0
  BY DEF IsUpto
<1>3. PICK s \in 1 .. p - 1 :
         /\ text[s] = hellomsg
         /\ \A i \in s + 1 .. p - 1 : text[i] # hellomsg
         /\ words \in Seq(Contents) /\ Len(words) = p - 1 - s + 1
         /\ \A i \in 1 .. p - 1 - s + 1 : words[i] = text[s + i - 1]
  BY <1>2 DEF IsUpto
<1>4. PICK n \in Nat : n = p - s /\ p - 1 - s + 1 = n /\ p - s + 1 = n + 1 /\ s + (n + 1) - 1 = p
                       /\ n + 1 <= l
  BY <1>1
<1>5. PICK x \in Contents : x = text[p]
  BY TextIs, ElementOfSeq
<1>6. PICK w \in Seq(Contents) :
         /\ w = Append(words, text[p]) /\ Len(w) = n + 1
         /\ \A i \in 1 .. n : w[i] = words[i]
         /\ w[n + 1] = text[p]
  <2>1. /\ Append(words, x) \in Seq(Contents)
        /\ Len(Append(words, x)) = Len(words) + 1
        /\ \A i \in 1 .. Len(words) : Append(words, x)[i] = words[i]
        /\ Append(words, x)[Len(words) + 1] = x
    <3>1. words \in Seq(Contents)
      BY <1>3
    <3> QED BY <3>1, AppendProperties
  <2>2. Len(words) = n
    BY <1>3, <1>4
  <2> QED BY <1>5, <2>1, <2>2
<1>7. ASSUME NEW i \in 1 .. p - s + 1 PROVE w[i] = text[s + i - 1]
  <2>1. i \in 1 .. n \/ i = n + 1
    BY <1>4
  <2>2. CASE i \in 1 .. n
    BY <1>3, <1>4, <1>6, <2>2
  <2>3. CASE i = n + 1
    BY <1>4, <1>6, <2>3
  <2> QED BY <2>1, <2>2, <2>3
<1>8. \A i \in s + 1 .. p : text[i] # hellomsg
  <2>1. \A i \in s + 1 .. p : i \in s + 1 .. p - 1 \/ i = p
    BY <1>1
  <2> QED BY <1>3, <2>1
<1>9. s \in 1 .. p /\ p # 0 /\ Len(w) = p - s + 1
  BY <1>1, <1>4, <1>6
<1>10. IsUpto(w, p)
  BY <1>3, <1>6, <1>7, <1>8, <1>9 DEF IsUpto
<1> QED BY <1>1, <1>4, <1>6, <1>10

\* The words of the file from the s-th to the p-th.
LEMMA SubText ==
    ASSUME TypeOK, NEW p \in 1 .. Len(text), NEW s \in 1 .. p
    PROVE  /\ SubSeq(text, s, p) \in Seq(Contents)
           /\ Len(SubSeq(text, s, p)) = p - s + 1
           /\ \A i \in 1 .. p - s + 1 : SubSeq(text, s, p)[i] = text[s + i - 1]
<1>1. PICK l \in Nat : l = Len(text) /\ p \in Nat /\ 1 <= p /\ p <= l
  BY TextIs
<1>2. \A i \in s .. p : text[i] \in Contents
  <2>1. \A i \in s .. p : i \in 1 .. l
    BY <1>1
  <2> QED BY <1>1, <2>1, TextIs, ElementOfSeq
<1>3. s \in Int /\ p \in Int /\ s <= p
  BY <1>1
<1>4. /\ SubSeq(text, s, p) \in Seq(Contents)
      /\ Len(SubSeq(text, s, p)) = IF s <= p THEN p - s + 1 ELSE 0
      /\ \A i \in 1 .. p - s + 1 : SubSeq(text, s, p)[i] = text[s + i - 1]
  BY <1>2, <1>3, SubSeqProperties
<1> QED BY <1>3, <1>4

LEMMA Section ==
    ASSUME TypeOK, NEW p \in 1 .. Len(text), NEW s \in 1 .. p, NEW words \in Seq(Contents),
           Len(words) = p - s + 1, \A i \in 1 .. p - s + 1 : words[i] = text[s + i - 1]
    PROVE  words = SubSeq(text, s, p)
<1>2. PICK w \in Seq(Contents) :
         /\ w = SubSeq(text, s, p) /\ Len(w) = p - s + 1
         /\ \A i \in 1 .. p - s + 1 : w[i] = text[s + i - 1]
  BY SubText
<1>3. Len(w) = Len(words) /\ \A i \in 1 .. Len(w) : w[i] = words[i]
  BY <1>2
<1>4. w = words
  BY <1>3, SeqEqual
<1> QED BY <1>2, <1>4

LEMMA EndIs ==
    ASSUME TypeOK, NEW p \in 1 .. Len(text), text[p] = finishmsg, Unfinished(p - 1)
    PROVE  SelectInSeq(text, IsFinish) = p
<1>1. PICK l \in Nat : l = Len(text) /\ p \in Nat /\ 1 <= p /\ p <= l
  BY TextIs
<1> DEFINE I == {i \in 1 .. l : IsFinish(text[i])}
<1>2. p \in I
  BY <1>1 DEF IsFinish
<1>3. \A i \in I : i \in Int /\ p =< i
  <2>1. \A i \in I : ~(i < p)
    <3>1. \A i \in 1 .. l : i < p => i \in 1 .. p - 1
      OBVIOUS
    <3> QED BY <3>1 DEF Unfinished, IsFinish
  <2> QED BY <1>1, <2>1
<1>4. \A i \in I : (\A j \in I : i =< j) <=> i = p
  BY <1>1, <1>2, <1>3
<1>5. SelectInSeq(text, IsFinish) = IF I # {} THEN Min(I) ELSE 0
  BY <1>1 DEF SelectInSeq
<1> QED BY <1>2, <1>4, <1>5 DEF Min

\* Up to the first FINISH it is the whole file.
LEMMA UptoFinish ==
    ASSUME TypeOK, NEW p \in 1 .. Len(text), text[p] = finishmsg, Unfinished(p - 1),
           NEW words, IsUpto(words, p)
    PROVE  words = Whole(text)
<1>1. PICK l \in Nat : l = Len(text) /\ p \in Nat /\ 1 <= p /\ p <= l
  BY TextIs
<1>2. SelectInSeq(text, IsFinish) = p
  BY EndIs
<1>3. PICK s \in 1 .. p :
         /\ text[s] = hellomsg
         /\ \A i \in s + 1 .. p : text[i] # hellomsg
         /\ words \in Seq(Contents) /\ Len(words) = p - s + 1
         /\ \A i \in 1 .. p - s + 1 : words[i] = text[s + i - 1]
  <2>1. p # 0
    BY <1>1
  <2> QED BY <2>1 DEF IsUpto
<1> DEFINE J == {i \in 1 .. p : IsHello(text[i])}
<1>4. \A i \in J : (\A j \in J : i >= j) <=> i = s
  <2>1. s \in J
    BY <1>3 DEF IsHello
  <2>2. \A i \in J : i \in Int /\ i <= s
    <3>1. \A i \in 1 .. p : ~(i <= s) => i \in s + 1 .. p
      OBVIOUS
    <3> QED BY <1>3, <3>1 DEF IsHello
  <2> QED BY <2>1, <2>2
<1>5. SelectLastInSubSeq(text, 1, p, IsHello) = s
  <2>1. SelectLastInSubSeq(text, 1, p, IsHello) = IF J # {} THEN Max(J) ELSE 0
    BY DEF SelectLastInSubSeq
  <2>2. s \in J
    BY <1>3 DEF IsHello
  <2> QED BY <1>4, <2>1, <2>2 DEF Max
<1>6. Whole(text) = SubSeq(text, s, p)
  BY <1>2, <1>5 DEF Whole
<1> QED BY <1>3, <1>6, Section

\* Up to the second HELLO it is the first part of the file.
LEMMA UptoSecond ==
    ASSUME TypeOK, NEW n \in 1 .. Len(text), text[n] = hellomsg, OnceUpto(n - 1),
           NEW words, IsUpto(words, n - 1), words # Unopened
    PROVE  words = First(text) /\ ~OnceUpto(n)
<1>1. PICK l \in Nat : l = Len(text) /\ n \in Nat /\ 1 <= n /\ n <= l
  BY TextIs
<1>2. PICK q \in Nat : q = n - 1 /\ q # 0 /\ q + 1 = n
  BY <1>1 DEF IsUpto
<1>3. PICK s \in 1 .. q :
         /\ text[s] = hellomsg
         /\ words \in Seq(Contents) /\ Len(words) = q - s + 1
         /\ \A i \in 1 .. q - s + 1 : words[i] = text[s + i - 1]
  BY <1>2 DEF IsUpto
<1>4. \A i \in 1 .. q : text[i] = hellomsg => i = s
  BY <1>2, <1>3 DEF OnceUpto
<1> DEFINE I == {i \in 1 .. l : IsHello(text[i])}
<1>5. SelectInSeq(text, IsHello) = s
  <2>1. s \in I
    BY <1>1, <1>2, <1>3 DEF IsHello
  <2>2. \A i \in I : i \in Int /\ s =< i
    <3>1. \A i \in 1 .. l : i < s => i \in 1 .. q
      BY <1>2
    <3>2. \A i \in I : ~(i < s)
      BY <1>4, <3>1 DEF IsHello
    <3> QED BY <3>2
  <2>3. \A i \in I : (\A j \in I : i =< j) <=> i = s
    BY <2>1, <2>2
  <2>4. SelectInSeq(text, IsHello) = IF I # {} THEN Min(I) ELSE 0
    BY <1>1 DEF SelectInSeq
  <2> QED BY <2>1, <2>3, <2>4 DEF Min
<1> DEFINE J == {i \in s + 1 .. l : IsHello(text[i])}
<1>6. SelectInSubSeq(text, s + 1, l, IsHello) = n
  <2>1. n \in J
    BY <1>1, <1>2 DEF IsHello
  <2>2. \A i \in J : i \in Int /\ n =< i
    <3>1. \A i \in s + 1 .. l : i < n => i \in 1 .. q /\ i # s
      BY <1>1, <1>2
    <3>2. \A i \in J : ~(i < n)
      BY <1>4, <3>1 DEF IsHello
    <3> QED BY <1>1, <3>2
  <2>3. \A i \in J : (\A j \in J : i =< j) <=> i = n
    BY <2>1, <2>2
  <2>4. SelectInSubSeq(text, s + 1, l, IsHello) = IF J # {} THEN Min(J) ELSE 0
    BY DEF SelectInSubSeq
  <2> QED BY <2>1, <2>3, <2>4 DEF Min
<1>7. First(text) = SubSeq(text, s, q)
  BY <1>1, <1>2, <1>5, <1>6 DEF First
<1>8. q \in 1 .. Len(text)
  BY <1>1, <1>2
<1>9. words = SubSeq(text, s, q)
  BY <1>3, <1>8, Section
<1>10. ~OnceUpto(n)
  <2>1. s \in 1 .. n /\ n \in 1 .. n /\ s # n
    BY <1>1, <1>2
  <2> QED BY <1>3, <2>1 DEF OnceUpto
<1> QED BY <1>7, <1>9, <1>10

\* What it has left open, when FINISH comes.
LEMMA LeftFinish ==
    ASSUME TypeOK, NEW p \in 1 .. Len(text), text[p] = finishmsg, Unfinished(p - 1),
           NEW streams, IsLeft(streams, p)
    PROVE  IF HelloOnce(text) THEN streams = <<>>
           ELSE streams # <<>> /\ streams[1] = First(text)
<1>1. PICK l \in Nat : l = Len(text) /\ p \in Nat /\ 1 <= p /\ p <= l
  BY TextIs
<1>2. SelectInSeq(text, IsFinish) = p
  BY EndIs
<1>3. HelloOnce(text) <=> OnceUpto(p)
  BY <1>2 DEF HelloOnce, OnceUpto, IsHello
<1>4. CASE streams = <<>>
  BY <1>3, <1>4 DEF IsLeft
<1>5. CASE streams # <<>>
  <2>1. PICK n \in 1 .. p : /\ text[n] = hellomsg /\ OnceUpto(n - 1)
                           /\ IsUpto(streams[1], n - 1) /\ streams[1] # Unopened
    BY <1>5 DEF IsLeft
  <2>2. n \in 1 .. Len(text)
    BY <1>1
  <2>3. streams[1] = First(text) /\ ~OnceUpto(n)
    BY <2>1, <2>2, UptoSecond
  <2>4. ~OnceUpto(p)
    <3>1. \A i \in 1 .. n : i \in 1 .. p
      BY <1>1
    <3> QED BY <2>3, <3>1 DEF OnceUpto
  <2> QED BY <1>3, <1>5, <2>3, <2>4
<1> QED BY <1>4, <1>5

-----------------------------------------------------------------------------
(* The initial state *)

LEMMA Strings ==
    /\ Nothing # hellomsg /\ Nothing # finishmsg /\ NotFound # finishmsg
    /\ NOTFOUND # finishmsg /\ Junk # finishmsg /\ hellomsg # finishmsg
    /\ WORD \notin Names
BY DEF Nothing, hellomsg, finishmsg, NotFound, NOTFOUND, Junk, WORD, Names

LEMMA InitHolds == Init => IInv
<1> SUFFICES ASSUME Init PROVE IInv
  OBVIOUS
<1>1. TypeOK
  <2>1. c_pc \in [Clients -> {"idle", "waiting", "failed", "done"}]
    BY DEF Init
  <2>2. answer \in [Clients -> Answers \cup {Nothing}]
    BY DEF Init
  <2>3. response \in [Clients -> {Unopened} \cup Files]
    BY DEF Init
  <2>6. left \in [Clients -> Seq(Files)]
    <3>1. <<>> \in Seq(Files)
      BY EmptySeq
    <3> QED BY <3>1 DEF Init
  <2>4. runs \in 0 .. MaxRuns
    BY WordAssumption DEF Init
  <2>5. fp \in {NULL} \cup Seq(Contents) /\ res \in Contents \cup {Junk}
    BY DEF Init
  <2> QED BY <2>1, <2>2, <2>3, <2>4, <2>5, <2>6, EmptyQueue DEF Init, TypeOK
<1>2. ServerInv
  BY DEF Init, ServerInv
<1>3. ASSUME NEW c \in Clients PROVE ClientInv(c)
  BY EmptyQueue DEF Init, ClientInv
<1> QED BY <1>1, <1>2, <1>3 DEF IInv

-----------------------------------------------------------------------------
(* A client that does nothing *)

LEMMA DoneKept ==
    ASSUME NEW c \in Clients, UNCHANGED text, response'[c] = response[c], left'[c] = left[c]
    PROVE  DoneInv(c) => DoneInv(c)'
<1>1. /\ Whole(text)' = Whole(text) /\ First(text)' = First(text)
      /\ HelloOnce(text)' = HelloOnce(text)
  OBVIOUS
<1> QED BY <1>1 DEF DoneInv

LEMMA LeftKept ==
    ASSUME UNCHANGED text, NEW streams, NEW p
    PROVE  IsLeft(streams, p) => IsLeft(streams, p)'
<1>1. OnceUpto(p)' = OnceUpto(p) /\ \A n \in 1 .. p : OnceUpto(n - 1)' = OnceUpto(n - 1)
  BY DEF OnceUpto
<1>2. \A n \in 1 .. p : IsUpto(streams[1], n - 1)' = IsUpto(streams[1], n - 1)
  BY DEF IsUpto
<1> QED BY <1>1, <1>2 DEF IsLeft

\* The server still has the file where it had it, or has it no longer.
ServerKept == running' /\ fp' # NULL => running /\ fp' = fp /\ res' = res

LEMMA ClientKept ==
    ASSUME TypeOK, NEW c \in Clients, ClientInv(c), Kept(c, requests, requests'), ServerKept,
           c_pc'[c] = c_pc[c], answer'[c] = answer[c], response'[c] = response[c], left'[c] = left[c],
           UNCHANGED <<text, served>>
    PROVE  ClientInv(c)'
<1>1. ASSUME WaitingInv(c) PROVE WaitingInv(c)'
  <2>1. CASE Begun(c)
    BY <2>1 DEF Begun, WaitingInv, Kept
  <2>2. CASE \E p \in Nat : Asked(c, p) \/ Answered(c, p)
    <3>1. PICK p \in Nat : Asked(c, p) \/ Answered(c, p)
      BY <2>2
    <3>2. HasRead(p) => HasRead(p)'
      BY DEF HasRead, ServerKept, IsRest
    <3>5. \A q \in {p, p - 1} : IsLeft(left[c], q) => IsLeft(left[c], q)'
      <4>1. PICK streams : streams = left[c]
        OBVIOUS
      <4> QED BY <4>1, LeftKept
    <3>3. CASE Asked(c, p)
      <4>1. Asked(c, p)'
        BY <3>2, <3>3, <3>5 DEF Asked, Kept, Unfinished, IsUpto
      <4> QED BY <4>1 DEF WaitingInv
    <3>4. CASE Answered(c, p)
      <4>1. Answered(c, p)'
        BY <3>2, <3>4, <3>5 DEF Answered, Kept, Unfinished, IsUpto
      <4> QED BY <4>1 DEF WaitingInv
    <3> QED BY <3>1, <3>3, <3>4
  <2>3. CASE Silent(c)
    BY <2>3 DEF Silent, WaitingInv, Kept
  <2>4. CASE OutOfStep(c)
    BY <2>4 DEF OutOfStep, WaitingInv, Kept, ServerKept
  <2> QED BY <1>1, <2>1, <2>2, <2>3, <2>4 DEF WaitingInv
<1>2. DoneInv(c) => DoneInv(c)'
  BY DoneKept
<1> QED BY <1>1, <1>2 DEF ClientInv, Kept, Alone

LEMMA QueueKept == \A c : Kept(c, requests, requests)
BY DEF Kept

LEMMA Sent ==
    ASSUME TypeOK, NEW d \in Clients, NEW what \in Names \cup {WORD}, SendTo(d, what), NEW c
    PROVE  /\ requests' \in Seq(Requests)
           /\ d # c => Kept(c, requests, requests')
           /\ NoneOf(c, requests) => OneOf(c, requests') /\ Asks(c, {what}, requests')
<1>1. PICK r \in Requests : r = [from |-> d, what |-> what] /\ r.from = d /\ r.what = what
  <2>1. [from |-> d, what |-> what] \in Requests
    BY Zenon DEF Requests
  <2> QED BY <2>1
<1>2. CASE running
  BY <1>1, <1>2, Queued DEF SendTo, TypeOK
<1>3. CASE ~running
  <2>1. requests' = requests
    BY <1>3 DEF SendTo
  <2>2. NoneOf(c, requests) => OneOf(c, requests) /\ Asks(c, {what}, requests)
    BY DEF NoneOf, OneOf, Asks
  <2> QED BY <2>1, <2>2, QueueKept DEF TypeOK
<1> QED BY <1>2, <1>3 DEF TypeOK


-----------------------------------------------------------------------------
(* The steps of the clients and of the network *)

LEMMA StartStep == ASSUME IInv, NEW c \in Clients, Start(c) PROVE IInv'
<1>1. TypeOK /\ ServerInv /\ \A d \in Clients : ClientInv(d)
  BY DEF IInv
<1>2. /\ c_pc[c] = "idle" /\ c_pc' = [c_pc EXCEPT ![c] = "waiting"]
      /\ UNCHANGED <<text, running, fp, res, runs, answer, response, left, served>>
  BY DEF Start, server
<1>3. PICK name \in Names : SendTo(c, name)
  BY DEF Start
<1>4. requests' \in Seq(Requests)
  BY <1>1, <1>3, Sent
<1>5. TypeOK'
  <2>1. c_pc' \in [Clients -> {"idle", "waiting", "failed", "done"}]
    BY <1>1, <1>2 DEF TypeOK
  <2> QED BY <1>1, <1>2, <1>4, <2>1 DEF TypeOK
<1>6. ServerInv'
  BY <1>1, <1>2 DEF ServerInv
<1>7. ASSUME NEW d \in Clients PROVE ClientInv(d)'
  <2>1. CASE d # c
    <3>1. c_pc'[d] = c_pc[d] /\ Kept(d, requests, requests') /\ ServerKept
      BY <1>1, <1>2, <1>3, <2>1, Sent DEF TypeOK, ServerKept
    <3> QED BY <1>1, <1>2, <3>1, ClientKept
  <2>2. CASE d = c
    <3>1. c_pc'[c] = "waiting"
      BY <1>1, <1>2 DEF TypeOK
    <3>2. /\ c \notin served /\ response[c] = Unopened /\ left[c] = <<>> /\ answer[c] = Nothing
          /\ NoneOf(c, requests)
      BY <1>1, <1>2 DEF ClientInv
    <3>3. OneOf(c, requests') /\ Asks(c, {name}, requests')
      BY <1>1, <1>3, <3>2, Sent
    <3>4. Asks(c, Names, requests')
      BY <3>3 DEF Asks
    <3>5. Alone(c)' => Begun(c)'
      BY <1>2, <3>2, <3>4 DEF Alone, Begun
    <3> QED BY <1>2, <2>2, <3>1, <3>2, <3>3, <3>5 DEF ClientInv, WaitingInv
  <2> QED BY <2>1, <2>2
<1> QED BY <1>5, <1>6, <1>7 DEF IInv

LEMMA TimeoutStep == ASSUME IInv, NEW c \in Clients, Timeout(c) PROVE IInv'
<1>1. TypeOK /\ ServerInv /\ \A d \in Clients : ClientInv(d)
  BY DEF IInv
<1>2. /\ c_pc' = [c_pc EXCEPT ![c] = "failed"]
      /\ answer' = [answer EXCEPT ![c] = Nothing]
      /\ UNCHANGED <<text, running, fp, res, runs, requests, response, left, served>>
  BY DEF Timeout, server
<1>3. TypeOK'
  BY <1>1, <1>2 DEF TypeOK
<1>4. ServerInv'
  BY <1>1, <1>2 DEF ServerInv
<1>5. ASSUME NEW d \in Clients PROVE ClientInv(d)'
  <2>1. CASE d # c
    <3>1. c_pc'[d] = c_pc[d] /\ answer'[d] = answer[d]
      BY <1>1, <1>2, <2>1 DEF TypeOK
    <3>2. Kept(d, requests, requests') /\ ServerKept
      BY <1>2, QueueKept DEF ServerKept
    <3> QED BY <1>1, <1>2, <3>1, <3>2, ClientKept
  <2>2. CASE d = c
    <3>1. c_pc'[c] = "failed"
      BY <1>1, <1>2 DEF TypeOK
    <3> QED BY <2>2, <3>1 DEF ClientInv
  <2> QED BY <2>1, <2>2
<1> QED BY <1>3, <1>4, <1>5 DEF IInv

LEMMA LoseRequestStep == ASSUME IInv, LoseRequest PROVE IInv'
<1>1. TypeOK /\ ServerInv /\ \A d \in Clients : ClientInv(d)
  BY DEF IInv
<1>2. /\ requests # <<>> /\ requests' = Tail(requests)
      /\ UNCHANGED <<text, running, fp, res, runs, c_pc, response, left, answer, served>>
  BY DEF LoseRequest, server, clients
<1>3. requests' \in Seq(Requests) /\ \A c : Kept(c, requests, requests')
  BY <1>1, <1>2, Dequeued DEF TypeOK
<1>4. TypeOK'
  BY <1>1, <1>2, <1>3 DEF TypeOK
<1>5. ServerInv' /\ ServerKept
  BY <1>1, <1>2 DEF ServerInv, ServerKept
<1>6. ASSUME NEW d \in Clients PROVE ClientInv(d)'
  BY <1>1, <1>2, <1>3, <1>5, ClientKept
<1> QED BY <1>4, <1>5, <1>6 DEF IInv

LEMMA LoseAnswerStep == ASSUME IInv, NEW c \in Clients, LoseAnswer(c) PROVE IInv'
<1>1. TypeOK /\ ServerInv /\ \A d \in Clients : ClientInv(d)
  BY DEF IInv
<1>2. /\ answer[c] # Nothing /\ answer' = [answer EXCEPT ![c] = Nothing]
      /\ UNCHANGED <<text, running, fp, res, runs, requests, c_pc, response, left, served>>
  BY DEF LoseAnswer, server, clients
<1>3. TypeOK'
  BY <1>1, <1>2 DEF TypeOK
<1>4. ServerInv'
  BY <1>1, <1>2 DEF ServerInv
<1>5. ASSUME NEW d \in Clients PROVE ClientInv(d)'
  <2>1. CASE d # c
    <3>1. answer'[d] = answer[d]
      BY <1>1, <1>2, <2>1 DEF TypeOK
    <3>2. Kept(d, requests, requests') /\ ServerKept
      BY <1>2, QueueKept DEF ServerKept
    <3> QED BY <1>1, <1>2, <3>1, <3>2, ClientKept
  <2>2. CASE d = c
    <3>1. answer'[c] = Nothing
      BY <1>1, <1>2 DEF TypeOK
    <3>2. c_pc[c] = "waiting" => OneOf(c, requests) /\ NoneOf(c, requests)
      BY <1>1, <1>2 DEF ClientInv
    <3>3. c_pc[c] = "waiting" => Silent(c)'
      BY <1>2, <3>1, <3>2 DEF Silent
    <3>4. DoneInv(c) => DoneInv(c)'
      BY <1>2, DoneKept
    <3> QED BY <1>1, <1>2, <2>2, <3>1, <3>2, <3>3, <3>4 DEF ClientInv, WaitingInv, Alone
  <2> QED BY <2>1, <2>2
<1> QED BY <1>3, <1>4, <1>5 DEF IInv

-----------------------------------------------------------------------------
(* A server starts or ends *)

LEMMA RunStep == ASSUME IInv, Run PROVE IInv'
<1>1. TypeOK /\ ServerInv /\ \A d \in Clients : ClientInv(d)
  BY DEF IInv
<1>2. /\ running' = TRUE /\ runs < MaxRuns /\ runs' = runs + 1 /\ fp' = NULL /\ res' = Junk
      /\ UNCHANGED <<text, requests, c_pc, response, left, answer, served>>
  BY DEF Run, clients
<1>3. runs' \in 0 .. MaxRuns
  BY <1>1, <1>2, WordAssumption DEF TypeOK
<1>4. TypeOK'
  BY <1>1, <1>2, <1>3 DEF TypeOK
<1>5. ServerInv' /\ ServerKept
  BY <1>2 DEF ServerInv, ServerKept
<1>6. ASSUME NEW d \in Clients PROVE ClientInv(d)'
  <2>1. Kept(d, requests, requests')
    BY <1>2, QueueKept
  <2> QED BY <1>1, <1>2, <1>5, <2>1, ClientKept
<1> QED BY <1>4, <1>5, <1>6 DEF IInv

LEMMA InterruptStep == ASSUME IInv, Interrupt PROVE IInv'
<1>1. TypeOK /\ ServerInv /\ \A d \in Clients : ClientInv(d)
  BY DEF IInv
<1>2. /\ running' = FALSE /\ requests' = <<>>
      /\ UNCHANGED <<text, fp, res, runs, c_pc, response, left, answer, served>>
  BY DEF Interrupt, End, clients
<1>3. TypeOK'
  BY <1>1, <1>2, EmptyQueue DEF TypeOK
<1>4. ServerInv' /\ ServerKept
  BY <1>1, <1>2 DEF ServerInv, ServerKept
<1>5. ASSUME NEW d \in Clients PROVE ClientInv(d)'
  <2>1. Kept(d, requests, requests')
    BY <1>2, EmptyQueue DEF Kept
  <2> QED BY <1>1, <1>2, <1>4, <2>1, ClientKept
<1> QED BY <1>3, <1>4, <1>5 DEF IInv


-----------------------------------------------------------------------------
(* A client receives a word *)

\* What the file of the client holds then.
LEMMA FileIs ==
    ASSUME TypeOK, NEW c \in Clients, NEW p \in Nat, Answered(c, p),
           answer[c] = hellomsg \/ response[c] # Unopened
    PROVE  /\ IsUpto(FileAfter(c, answer[c]), p) /\ Len(FileAfter(c, answer[c])) <= MaxWords
           /\ p \in 1 .. Len(text) /\ text[p] = answer[c]
<1>1. p \in 1 .. Len(text) /\ IsUpto(response[c], p - 1) /\ answer[c] = text[p]
  BY DEF Answered
<1>2. PICK l \in Nat, m \in Nat : l = Len(text) /\ m = MaxWords /\ l <= m
  BY TextIs, WordAssumption
<1>3. CASE text[p] = hellomsg
  <2>1. FileAfter(c, answer[c]) = <<text[p]>>
    BY <1>1, <1>3 DEF FileAfter
  <2>2. IsUpto(<<text[p]>>, p) /\ Len(<<text[p]>>) = 1
    BY <1>1, <1>3, UptoHello
  <2>3. 1 <= m
    BY <1>1, <1>2
  <2> QED BY <1>1, <1>2, <2>1, <2>2, <2>3
<1>4. CASE text[p] # hellomsg
  <2>1. FileAfter(c, answer[c]) = Append(response[c], text[p]) /\ response[c] # Unopened
    BY <1>1, <1>4 DEF FileAfter
  <2>2. IsUpto(Append(response[c], text[p]), p) /\ Len(Append(response[c], text[p])) <= Len(text)
    BY <1>1, <1>4, <2>1, UptoNext
  <2>3. PICK x : x = Len(Append(response[c], text[p]))
    OBVIOUS
  <2>4. x \in Nat
    <3>1. p # 0
      BY <1>1, <1>2
    <3>2. Append(response[c], text[p]) \in Seq(Contents)
      BY <2>2, <3>1 DEF IsUpto
    <3> QED BY <2>3, <3>2, LenProperties
  <2>5. x <= m
    BY <1>2, <2>2, <2>3, <2>4
  <2> QED BY <1>1, <1>2, <2>1, <2>2, <2>3, <2>5
<1> QED BY <1>3, <1>4

\* A stream that is open has words.
LEMMA OpenUpto ==
    ASSUME NEW p \in Nat, IsUpto(Unopened, p)
    PROVE  p = 0
<1> SUFFICES ASSUME p # 0 PROVE FALSE
  OBVIOUS
<1>1. PICK s \in 1 .. p :
         /\ text[s] = hellomsg /\ Len(Unopened) = p - s + 1
         /\ \A i \in 1 .. p - s + 1 : Unopened[i] = text[s + i - 1]
  BY DEF IsUpto
<1>2. Len(Unopened) = 1 /\ Unopened[1] = Junk
  BY DEF Unopened
<1>3. p - s + 1 = 1
  BY <1>1, <1>2
<1>4. Unopened[1] = text[s + 1 - 1] /\ s + 1 - 1 = s
  BY <1>1, <1>3
<1> QED BY <1>1, <1>2, <1>4 DEF Junk, hellomsg

\* And which streams it leaves open.
LEMMA LeftIs ==
    ASSUME TypeOK, NEW c \in Clients, NEW p \in Nat, Answered(c, p)
    PROVE  IsLeft(LeftAfter(c, answer[c]), p)
<1>1. /\ p \in 1 .. Len(text) /\ answer[c] = text[p]
      /\ IsUpto(response[c], p - 1) /\ IsLeft(left[c], p - 1)
  BY DEF Answered
<1>2. PICK q \in Nat : q = p - 1 /\ p = q + 1
  BY <1>1, TextIs
<1>3. \A i \in 1 .. p : i \in 1 .. q \/ i = p
  BY <1>2
<1>4. \A i \in 1 .. q : i \in 1 .. p
  BY <1>2
<1>5. PICK streams \in Seq(Files) : streams = left[c]
  BY DEF TypeOK
<1>6. ASSUME streams # <<>> PROVE IsLeft(streams, p)
  BY <1>1, <1>2, <1>4, <1>5, <1>6 DEF IsLeft
<1>7. CASE text[p] # hellomsg
  <2>1. LeftAfter(c, answer[c]) = streams
    BY <1>1, <1>5, <1>7 DEF LeftAfter
  <2>2. OnceUpto(q) => OnceUpto(p)
    BY <1>3, <1>7 DEF OnceUpto
  <2>3. streams = <<>> => OnceUpto(p)
    BY <1>1, <1>2, <1>5, <2>2 DEF IsLeft
  <2>4. streams = <<>> => IsLeft(streams, p)
    BY <2>3 DEF IsLeft
  <2> QED BY <1>6, <2>1, <2>4
<1>8. CASE text[p] = hellomsg /\ response[c] = Unopened
  <2>1. LeftAfter(c, answer[c]) = streams
    BY <1>5, <1>8 DEF LeftAfter
  <2>2. p = 1
    BY <1>1, <1>2, <1>8, OpenUpto
  <2>3. OnceUpto(p)
    BY <2>2 DEF OnceUpto
  <2>4. streams = <<>> => IsLeft(streams, p)
    BY <2>3 DEF IsLeft
  <2> QED BY <1>6, <2>1, <2>4
<1>9. CASE text[p] = hellomsg /\ response[c] # Unopened
  <2>1. LeftAfter(c, answer[c]) = IF Len(streams) < MaxWords THEN Append(streams, response[c])
                                  ELSE streams
    BY <1>1, <1>5, <1>9 DEF LeftAfter
  <2>2. CASE streams = <<>>
    <3>1. Len(streams) = 0 /\ 0 < MaxWords
      BY <1>1, <2>2, TextIs, WordAssumption, EmptySeq
    <3>2. LeftAfter(c, answer[c]) = Append(<<>>, response[c])
      BY <2>1, <2>2, <3>1
    <3>3. PICK words : words = response[c] /\ <<words>> = LeftAfter(c, answer[c])
      BY <3>2
    <3>4. OnceUpto(q)
      BY <1>1, <1>2, <1>5, <2>2 DEF IsLeft
    <3>5. p \in 1 .. p /\ <<words>> # <<>> /\ <<words>>[1] = words
      BY <1>2
    <3>6. IsLeft(<<words>>, p)
      BY <1>1, <1>2, <1>9, <3>3, <3>4, <3>5 DEF IsLeft
    <3> QED BY <3>3, <3>6
  <2>3. CASE streams # <<>>
    <3>1. PICK w : w = LeftAfter(c, answer[c])
      OBVIOUS
    <3>2. w = streams \/ w = Append(streams, response[c])
      BY <2>1, <3>1
    <3>3. PICK m \in Nat : m = Len(streams) /\ 1 \in 1 .. m
      <4>1. PICK m \in Nat : m = Len(streams) /\ m # 0
        BY <2>3, LenProperties, EmptySeq
      <4> QED BY <4>1
    <3>4. ASSUME w = Append(streams, response[c]) PROVE w # <<>> /\ w[1] = streams[1]
      <4>1. PICK words \in Files : words = response[c]
        BY <1>9 DEF TypeOK
      <4>2. /\ Append(streams, words) \in Seq(Files)
            /\ Len(Append(streams, words)) = m + 1
            /\ \A i \in 1 .. m : Append(streams, words)[i] = streams[i]
        BY <3>3, AppendProperties
      <4>3. Len(w) # 0
        BY <3>4, <4>1, <4>2
      <4> QED BY <3>3, <3>4, <4>1, <4>2, <4>3, EmptySeq
    <3>5. w # <<>> /\ w[1] = streams[1]
      BY <2>3, <3>2, <3>4
    <3>6. IsLeft(w, p)
      BY <1>6, <2>3, <3>5 DEF IsLeft
    <3> QED BY <3>1, <3>6
  <2> QED BY <2>2, <2>3
<1> QED BY <1>7, <1>8, <1>9

LEMMA ReceiveStep == ASSUME IInv, NEW c \in Clients, Receive(c) PROVE IInv'
<1>1. TypeOK /\ ServerInv /\ \A d \in Clients : ClientInv(d)
  BY DEF IInv
<1>2. PICK word, file :
         /\ word = answer[c] /\ word # Nothing /\ file = FileAfter(c, word)
         /\ \/ c_pc' = [c_pc EXCEPT ![c] = "failed"] /\ UNCHANGED <<requests, response, left>>
            \/ /\ word # NotFound
               /\ word = hellomsg \/ response[c] # Unopened
               /\ IF Len(file) <= MaxWords
                  THEN response' = [response EXCEPT ![c] = file]
                  ELSE UNCHANGED response
               /\ left' = [left EXCEPT ![c] = LeftAfter(c, word)]
               /\ IF word = finishmsg
                  THEN c_pc' = [c_pc EXCEPT ![c] = "done"] /\ UNCHANGED requests
                  ELSE SendTo(c, WORD) /\ UNCHANGED c_pc
  BY DEF Receive
<1>3. /\ c_pc[c] = "waiting" /\ answer' = [answer EXCEPT ![c] = Nothing]
      /\ UNCHANGED <<text, running, fp, res, runs, served>>
  BY DEF Receive, server
<1>4. requests' \in Seq(Requests) /\ \A d \in Clients \ {c} : Kept(d, requests, requests')
  <2>1. CASE requests' = requests
    BY <1>1, <2>1, QueueKept DEF TypeOK
  <2>2. CASE SendTo(c, WORD)
    BY <1>1, <2>2, Sent
  <2> QED BY <1>2, <2>1, <2>2
<1>5. response' \in [Clients -> {Unopened} \cup Files]
  <2>1. CASE response' = response
    BY <1>1, <2>1 DEF TypeOK
  <2>2. CASE /\ word = hellomsg \/ response[c] # Unopened
             /\ response' = [response EXCEPT ![c] = file]
    <3>1. PICK w \in Answers : w = word
      BY <1>1, <1>2 DEF TypeOK
    <3>2. file \in Files
      <4>1. CASE word = hellomsg
        <5>1. <<w>> \in Seq(Answers) /\ Len(<<w>>) = 1 /\ <<w>>[1] = w
          OBVIOUS
        <5> QED BY <1>2, <3>1, <4>1, <5>1 DEF FileAfter, Files
      <4>2. CASE word # hellomsg
        <5>1. PICK words \in Seq(Answers) :
                 words = response[c] /\ Len(words) > 0 /\ words[1] = hellomsg
          BY <1>1, <2>2, <4>2 DEF TypeOK, Files
        <5>2. PICK n \in Nat : n = Len(words) /\ 1 \in 1 .. n /\ n + 1 > 0
          BY <5>1, LenProperties
        <5>3. /\ Append(words, w) \in Seq(Answers) /\ Len(Append(words, w)) = n + 1
              /\ \A i \in 1 .. n : Append(words, w)[i] = words[i]
          BY <5>2, AppendProperties
        <5> QED BY <1>2, <3>1, <4>2, <5>1, <5>2, <5>3 DEF FileAfter, Files
      <4> QED BY <4>1, <4>2
    <3> QED BY <1>1, <2>2, <3>2 DEF TypeOK
  <2> QED BY <1>2, <2>1, <2>2
<1>13. left' \in [Clients -> Seq(Files)]
  <2>1. CASE left' = left
    BY <1>1, <2>1 DEF TypeOK
  <2>2. CASE left' = [left EXCEPT ![c] = LeftAfter(c, word)]
    <3>1. PICK streams \in Seq(Files) : streams = left[c]
      BY <1>1 DEF TypeOK
    <3>2. LeftAfter(c, word) \in Seq(Files)
      <4>1. CASE response[c] = Unopened
        BY <3>1, <4>1 DEF LeftAfter
      <4>2. CASE response[c] # Unopened
        <5>1. PICK words \in Files : words = response[c]
          BY <1>1, <4>2 DEF TypeOK
        <5>2. Append(streams, words) \in Seq(Files)
          BY AppendProperties
        <5> QED BY <3>1, <5>1, <5>2 DEF LeftAfter
      <4> QED BY <4>1, <4>2
    <3> QED BY <1>1, <2>2, <3>2 DEF TypeOK
  <2> QED BY <1>2, <2>1, <2>2
<1>6. TypeOK'
  <2>1. c_pc' \in [Clients -> {"idle", "waiting", "failed", "done"}]
    BY <1>1, <1>2 DEF TypeOK
  <2>2. answer' \in [Clients -> Answers \cup {Nothing}]
    BY <1>1, <1>3 DEF TypeOK
  <2> QED BY <1>1, <1>3, <1>4, <1>5, <1>13, <2>1, <2>2 DEF TypeOK
<1>7. ServerInv'
  BY <1>1, <1>3 DEF ServerInv
<1>8. ASSUME NEW d \in Clients, d # c PROVE ClientInv(d)'
  <2>1. c_pc'[d] = c_pc[d] /\ response'[d] = response[d] /\ left'[d] = left[d]
    BY <1>1, <1>2, <1>8 DEF TypeOK
  <2>2. answer'[d] = answer[d] /\ Kept(d, requests, requests') /\ ServerKept
    BY <1>1, <1>3, <1>4, <1>8 DEF TypeOK, ServerKept
  <2> QED BY <1>1, <1>3, <2>1, <2>2, ClientKept
<1>9. answer'[c] = Nothing /\ NoneOf(c, requests)
  BY <1>1, <1>2, <1>3 DEF TypeOK, ClientInv
<1>10. ASSUME Alone(c)
       PROVE  \/ \E p \in Nat : Answered(c, p)
              \/ OutOfStep(c)
  BY <1>1, <1>2, <1>3, <1>10 DEF ClientInv, WaitingInv, Begun, Asked, Silent
<1>11. CASE c_pc' = [c_pc EXCEPT ![c] = "failed"]
  <2>1. c_pc'[c] = "failed"
    BY <1>1, <1>11 DEF TypeOK
  <2> QED BY <1>6, <1>7, <1>8, <2>1 DEF IInv, ClientInv
<1>12. CASE /\ word # NotFound
            /\ word = hellomsg \/ response[c] # Unopened
            /\ IF Len(file) <= MaxWords
               THEN response' = [response EXCEPT ![c] = file]
               ELSE UNCHANGED response
            /\ left' = [left EXCEPT ![c] = LeftAfter(c, word)]
            /\ IF word = finishmsg
               THEN c_pc' = [c_pc EXCEPT ![c] = "done"] /\ UNCHANGED requests
               ELSE SendTo(c, WORD) /\ UNCHANGED c_pc
  <2>1. ASSUME NEW p \in Nat, Answered(c, p)
        PROVE  /\ IsUpto(response'[c], p) /\ IsLeft(left'[c], p)
               /\ p \in 1 .. Len(text) /\ text[p] = word
    <3>1. /\ IsUpto(file, p) /\ Len(file) <= MaxWords
          /\ p \in 1 .. Len(text) /\ text[p] = word
      BY <1>1, <1>2, <1>12, <2>1, FileIs
    <3>2. response'[c] = file
      BY <1>1, <1>12, <3>1 DEF TypeOK
    <3>3. left'[c] = LeftAfter(c, word)
      BY <1>1, <1>12 DEF TypeOK
    <3>4. IsLeft(LeftAfter(c, word), p)
      BY <1>1, <1>2, <2>1, LeftIs
    <3> QED BY <3>1, <3>2, <3>3, <3>4
  <2>2. CASE word = finishmsg
    <3>1. c_pc'[c] = "done"
      BY <1>1, <1>12, <2>2 DEF TypeOK
    <3>2. ASSUME Alone(c) PROVE DoneInv(c)'
      <4>1. PICK p \in Nat : Answered(c, p)
        BY <1>2, <1>10, <2>2, <3>2 DEF OutOfStep
      <4>2. Unfinished(p - 1)
        BY <4>1 DEF Answered
      <4>3. /\ response'[c] = Whole(text)
            /\ IF HelloOnce(text) THEN left'[c] = <<>>
               ELSE left'[c] # <<>> /\ left'[c][1] = First(text)
        BY <1>1, <2>1, <2>2, <4>1, <4>2, UptoFinish, LeftFinish
      <4>4. /\ Whole(text)' = Whole(text) /\ First(text)' = First(text)
            /\ HelloOnce(text)' = HelloOnce(text)
        BY <1>3
      <4> QED BY <4>3, <4>4 DEF DoneInv
    <3>4. ClientInv(c)'
      BY <1>3, <3>1, <3>2 DEF ClientInv, Alone
    <3> QED BY <1>6, <1>7, <1>8, <3>4 DEF IInv
  <2>3. CASE word # finishmsg
    <3>1. c_pc'[c] = "waiting" /\ SendTo(c, WORD)
      BY <1>3, <1>12, <2>3
    <3>2. OneOf(c, requests') /\ Asks(c, {WORD}, requests')
      BY <1>1, <1>9, <3>1, Sent
    <3>3. ASSUME Alone(c) PROVE WaitingInv(c)'
      <4>1. CASE \E p \in Nat : Answered(c, p)
        <5>1. PICK p \in Nat : Answered(c, p)
          BY <4>1
        <5>2. p \in 1 .. Len(text) /\ HasRead(p) /\ Unfinished(p - 1)
          BY <5>1 DEF Answered
        <5>3. Unfinished(p)
          <6>1. \A i \in 1 .. p : i \in 1 .. p - 1 \/ i = p
            OBVIOUS
          <6> QED BY <2>1, <2>3, <5>1, <5>2, <6>1 DEF Unfinished
        <5>4. HasRead(p)'
          BY <1>3, <5>2 DEF HasRead, IsRest
        <5>5. IsUpto(response[c], p)'
          BY <1>3, <2>1, <5>1 DEF IsUpto
        <5>7. IsLeft(left[c], p)'
          <6>1. PICK streams : streams = left'[c] /\ IsLeft(streams, p)
            BY <2>1, <5>1
          <6>2. IsLeft(streams, p)'
            BY <1>3, <6>1, LeftKept
          <6> QED BY <6>1, <6>2
        <5>6. Asked(c, p)'
          BY <1>3, <1>9, <3>2, <5>2, <5>3, <5>4, <5>5, <5>7 DEF Asked, Unfinished
        <5> QED BY <5>6 DEF WaitingInv
      <4>2. CASE OutOfStep(c)
        <5>1. OutOfStep(c)'
          BY <1>3, <1>9, <3>2, <4>2, Strings DEF OutOfStep
        <5> QED BY <5>1 DEF WaitingInv
      <4> QED BY <1>10, <3>3, <4>1, <4>2
    <3>4. ClientInv(c)'
      BY <1>3, <1>9, <3>1, <3>2, <3>3 DEF ClientInv, Alone
    <3> QED BY <1>6, <1>7, <1>8, <3>4 DEF IInv
  <2> QED BY <2>2, <2>3
<1> QED BY <1>2, <1>11, <1>12


-----------------------------------------------------------------------------
(* The server answers *)

\* It has no such file, and ends.
Refused(request) ==
    /\ Opened(request) = NULL
    /\ Reply(request.from, IF request.what = WORD THEN NOTFOUND ELSE NotFound)
    /\ End
    /\ UNCHANGED <<fp, res>>

\* It reads a word, and ends with the file.
Read(request) ==
    LET file == Opened(request)
    IN  /\ file # NULL
        /\ res' = WordOf(file)
        /\ fp' = IF file = <<>> THEN <<>> ELSE Tail(file)
        /\ Reply(request.from, res')
        /\ IF res' = finishmsg THEN End
           ELSE requests' = Tail(requests) /\ UNCHANGED running

LEMMA ServeIs ==
    Serve => /\ running /\ requests # <<>>
             /\ Refused(Head(requests)) \/ Read(Head(requests))
             /\ UNCHANGED <<text, runs, c_pc, response, left>>
BY DEF Serve, Refused, Read, clients

LEMMA ServeType ==
    ASSUME TypeOK, Serve
    PROVE  /\ TypeOK' /\ Head(requests) \in Requests
           /\ Opened(Head(requests)) \in {NULL} \cup Seq(Contents)
           /\ requests' = <<>> \/ requests' = Tail(requests)
           /\ \E word \in Answers : Reply(Head(requests).from, word)
<1>1. /\ running /\ requests # <<>>
      /\ Refused(Head(requests)) \/ Read(Head(requests))
      /\ UNCHANGED <<text, runs, c_pc, response, left>>
  BY ServeIs
<1>2. PICK r \in Requests : r = Head(requests) /\ r.from \in Clients
  <2>1. Head(requests) \in Requests
    BY <1>1, Dequeued DEF TypeOK
  <2> QED BY <2>1 DEF Requests
<1>3. PICK file \in {NULL} \cup Seq(Contents) : file = Opened(r)
  BY TextIs DEF Opened, TypeOK
<1>4. /\ running' \in BOOLEAN
      /\ requests' = <<>> \/ requests' = Tail(requests)
  BY <1>1, <1>2 DEF Refused, Read, End, TypeOK
<1>5. requests' \in Seq(Requests)
  BY <1>1, <1>4, EmptyQueue, Dequeued DEF TypeOK
<1>6. /\ fp' \in {NULL} \cup Seq(Contents) /\ res' \in Contents \cup {Junk}
      /\ \E word \in Answers : Reply(r.from, word)
  <2>1. CASE Refused(r)
    <3>1. NOTFOUND \in Answers /\ NotFound \in Answers
      BY DEF Answers
    <3> QED BY <2>1, <3>1 DEF Refused, TypeOK
  <2>2. CASE Read(r)
    <3>1. file # NULL /\ file \in Seq(Contents)
      BY <1>3, <2>2 DEF Read
    <3>2. CASE file = <<>>
      <4>1. res' = res /\ fp' = <<>> /\ Reply(r.from, res')
        BY <1>3, <2>2, <3>2 DEF Read, WordOf
      <4>2. res \in Answers
        BY DEF TypeOK, Answers
      <4> QED BY <3>1, <3>2, <4>1, <4>2 DEF TypeOK
    <3>3. CASE file # <<>>
      <4>1. res' = Head(file) /\ fp' = Tail(file) /\ Reply(r.from, res')
        BY <1>3, <2>2, <3>3 DEF Read, WordOf
      <4>2. Head(file) \in Contents /\ Tail(file) \in Seq(Contents)
        BY <3>1, <3>3, HeadTailProperties
      <4> QED BY <4>1, <4>2 DEF Answers
    <3> QED BY <3>2, <3>3
  <2> QED BY <1>1, <1>2, <2>1, <2>2
<1>7. PICK word \in Answers : Reply(r.from, word)
  BY <1>6
<1>8. answer' \in [Clients -> Answers \cup {Nothing}] /\ served' \subseteq Clients
  BY <1>2, <1>7 DEF Reply, TypeOK
<1>9. TypeOK'
  BY <1>1, <1>4, <1>5, <1>6, <1>8 DEF TypeOK
<1> QED BY <1>2, <1>3, <1>4, <1>6, <1>9

\* The client that is answered, alone and waiting.
LEMMA ServeAlone ==
    ASSUME IInv, Serve, NEW c \in Clients, c = Head(requests).from, c_pc[c] = "waiting",
           WaitingInv(c), NoneOf(c, requests')
    PROVE  WaitingInv(c)'
<1>1. TypeOK /\ ServerInv /\ TypeOK'
  BY ServeType DEF IInv
<1>2. /\ running /\ requests # <<>>
      /\ Refused(Head(requests)) \/ Read(Head(requests))
      /\ UNCHANGED <<text, runs, c_pc, response, left>>
  BY ServeIs
<1>3. PICK r \in Requests : r = Head(requests) /\ r.from = c
  BY <1>1, ServeType
<1>4. /\ ~NoneOf(c, requests)
      /\ \A whats : Asks(c, whats, requests) => r.what \in whats
  BY <1>1, <1>2, <1>3, Dequeued DEF TypeOK
<1>5. \A whats : Asks(c, whats, requests')
  BY DEF NoneOf, Asks
<1>6. \A word : Reply(r.from, word) => answer'[c] = word
  BY <1>1, <1>3 DEF Reply, TypeOK
<1>7. CASE Refused(r)
  <2>1. answer'[c] \in {NOTFOUND, NotFound} /\ running' = FALSE
    BY <1>6, <1>7 DEF Refused, End
  <2>2. OutOfStep(c)'
    BY <1>5, <2>1, Strings DEF OutOfStep
  <2> QED BY <2>2 DEF WaitingInv
<1>8. CASE Read(r)
  <2>1. PICK file \in Seq(Contents) :
           /\ file = Opened(r) /\ file # NULL
           /\ res' = WordOf(file)
           /\ fp' = (IF file = <<>> THEN <<>> ELSE Tail(file))
           /\ answer'[c] = res'
    BY <1>1, <1>3, <1>6, <1>8, ServeType DEF Read
  <2>2. ASSUME NEW p \in Nat, IsRest(file, p), Unfinished(p), IsUpto(response[c], p),
               IsLeft(left[c], p),
               file # <<>>
        PROVE  WaitingInv(c)'
    <3>1. /\ p + 1 \in 1 .. Len(text) /\ Head(file) = text[p + 1]
          /\ IsRest(Tail(file), p + 1)
      BY <1>1, <2>1, <2>2, NextWord
    <3>2. PICK q \in Nat : q = p + 1 /\ q - 1 = p
      OBVIOUS
    <3>3. fp' = Tail(file) /\ res' = text[q] /\ answer'[c] = text[q]
      BY <2>1, <2>2, <3>1, <3>2 DEF WordOf
    <3>4. HasRead(q)'
      BY <1>2, <3>1, <3>2, <3>3 DEF HasRead, IsRest
    <3>5. IsUpto(response[c], q - 1)'
      BY <1>2, <2>2, <3>2 DEF IsUpto
    <3>7. IsLeft(left[c], q - 1)'
      BY <1>2, <2>2, <3>2 DEF IsLeft, IsUpto, OnceUpto
    <3>6. Answered(c, q)'
      BY <1>2, <2>2, <3>1, <3>2, <3>3, <3>4, <3>5, <3>7 DEF Answered, Unfinished
    <3> QED BY <3>6 DEF WaitingInv
  <2>3. ASSUME file = <<>>, res # finishmsg PROVE WaitingInv(c)'
    <3>1. fp' = <<>> /\ res' = res /\ answer'[c] = res
      BY <2>1, <2>3 DEF WordOf
    <3>2. OutOfStep(c)'
      BY <1>5, <2>3, <3>1 DEF OutOfStep
    <3> QED BY <3>2 DEF WaitingInv
  <2>4. CASE Begun(c)
    <3>1. fp = NULL /\ res = Junk /\ response[c] = Unopened /\ left[c] = <<>>
      BY <1>1, <2>4 DEF Begun, ServerInv
    <3>2. file = text
      BY <2>1, <3>1 DEF Opened
    <3>3. IsRest(file, 0) /\ Unfinished(0) /\ IsUpto(response[c], 0)
          /\ IsLeft(left[c], 0)
      BY <1>1, <3>1, <3>2, AllIsRest DEF Unfinished, IsUpto, IsLeft, OnceUpto
    <3>4. res # finishmsg
      BY <3>1, Strings
    <3> QED BY <2>2, <2>3, <3>3, <3>4
  <2>5. CASE \E p \in Nat : Asked(c, p) \/ Answered(c, p)
    <3>1. PICK p \in Nat : Asked(c, p)
      BY <1>4, <2>5 DEF Answered
    <3>2. r.what = WORD
      BY <1>4, <3>1 DEF Asked
    <3>3. fp # NULL /\ file = fp
      BY <2>1, <3>2, Strings DEF Opened, Names
    <3>4. IsRest(file, p) /\ res = text[p] /\ Unfinished(p) /\ IsUpto(response[c], p)
          /\ IsLeft(left[c], p)
          /\ p \in 1 .. Len(text)
      BY <1>2, <3>1, <3>3 DEF Asked, HasRead
    <3>5. res # finishmsg
      <4>1. p \in 1 .. p
        BY <1>1, <3>4, TextIs
      <4> QED BY <3>4, <4>1 DEF Unfinished
    <3> QED BY <2>2, <2>3, <3>4, <3>5
  <2>6. CASE Silent(c)
    BY <1>4, <2>6 DEF Silent
  <2>7. CASE OutOfStep(c)
    <3>1. r.what = WORD
      BY <1>4, <2>7 DEF OutOfStep
    <3>2. fp # NULL /\ file = fp
      BY <2>1, <3>1, Strings DEF Opened, Names
    <3> QED BY <1>2, <2>3, <2>7, <3>2 DEF OutOfStep
  <2> QED BY <2>4, <2>5, <2>6, <2>7 DEF WaitingInv
<1> QED BY <1>2, <1>3, <1>7, <1>8

LEMMA ServeStep == ASSUME IInv, Serve PROVE IInv'
<1>1. TypeOK /\ ServerInv /\ TypeOK' /\ \A d \in Clients : ClientInv(d)
  BY ServeType DEF IInv
<1>2. requests # <<>> /\ UNCHANGED <<text, c_pc, response, left>>
  BY ServeIs
<1>3. PICK r \in Requests, word \in Answers :
         r = Head(requests) /\ Reply(r.from, word) /\ r.from \in Clients
  BY <1>1, ServeType DEF Requests
<1>4. served' = served \cup {r.from}
  BY <1>3 DEF Reply
<1>5. ServerInv'
  BY <1>4 DEF ServerInv
<1>6. ASSUME NEW c \in Clients PROVE Kept(c, requests, requests')
  <2>1. CASE requests' = <<>>
    BY <2>1, EmptyQueue DEF Kept
  <2>2. CASE requests' = Tail(requests)
    BY <1>1, <1>2, <2>2, Dequeued DEF TypeOK
  <2> QED BY <1>1, <2>1, <2>2, ServeType
<1>7. ASSUME NEW c \in Clients, c # r.from PROVE ClientInv(c)'
  <2>1. answer'[c] = answer[c] /\ ~Alone(c)'
    BY <1>1, <1>3, <1>4, <1>7 DEF Reply, TypeOK, Alone
  <2> QED BY <1>1, <1>2, <1>4, <1>6, <1>7, <2>1 DEF ClientInv, Kept
<1>8. ASSUME NEW c \in Clients, c = r.from PROVE ClientInv(c)'
  <2>1. ~NoneOf(c, requests)
    BY <1>1, <1>2, <1>3, <1>8, Dequeued DEF TypeOK
  <2>2. c_pc'[c] # "idle" /\ Alone(c)' => Alone(c)
    BY <1>1, <1>2, <1>4, <2>1 DEF ClientInv, Alone
  <2>3. c_pc'[c] # "idle"
    BY <1>1, <1>2, <2>1 DEF ClientInv
  <2>4. ASSUME c_pc[c] = "waiting"
        PROVE  /\ OneOf(c, requests') /\ NoneOf(c, requests')
               /\ Alone(c)' => WaitingInv(c)'
    <3>1. OneOf(c, requests)
      BY <1>1, <2>4 DEF ClientInv
    <3>2. NoneOf(c, requests')
      <4>1. CASE requests' = <<>>
        BY <4>1, EmptyQueue
      <4>2. CASE requests' = Tail(requests)
        BY <1>1, <1>2, <1>3, <1>8, <3>1, <4>2, Dequeued DEF TypeOK
      <4> QED BY <1>1, <4>1, <4>2, ServeType
    <3>3. ASSUME Alone(c)' PROVE WaitingInv(c)'
      <4>1. WaitingInv(c)
        BY <1>1, <2>2, <2>3, <2>4, <3>3 DEF ClientInv
      <4> QED BY <1>3, <1>8, <2>4, <3>2, <4>1, ServeAlone
    <3> QED BY <1>6, <3>1, <3>2, <3>3 DEF Kept
  <2>5. DoneInv(c) => DoneInv(c)'
    BY <1>2, DoneKept
  <2> QED BY <1>1, <1>2, <2>2, <2>3, <2>4, <2>5 DEF ClientInv
<1>9. \A c \in Clients : ClientInv(c)'
  BY <1>7, <1>8
<1> QED BY <1>1, <1>5, <1>9 DEF IInv

-----------------------------------------------------------------------------
(* The theorems *)

LEMMA NextKeeps == IInv /\ [Next]_vars => IInv'
<1> SUFFICES ASSUME IInv, [Next]_vars PROVE IInv'
  OBVIOUS
<1>1. CASE \E c \in Clients : Client(c) \/ LoseAnswer(c)
  BY <1>1, StartStep, ReceiveStep, TimeoutStep, LoseAnswerStep DEF Client
<1>2. CASE LoseRequest
  BY <1>2, LoseRequestStep
<1>3. CASE Server
  BY <1>3, ServeStep, RunStep, InterruptStep DEF Server
<1>4. CASE UNCHANGED vars
  <2>1. UNCHANGED <<text, running, fp, res, runs, requests, c_pc, answer, response, left, served>>
    BY <1>4 DEF vars, server, clients
  <2>2. TypeOK' /\ ServerInv' /\ ServerKept
    BY <2>1 DEF IInv, TypeOK, ServerInv, ServerKept
  <2>3. \A c \in Clients : ClientInv(c)'
    BY <2>1, <2>2, QueueKept, ClientKept DEF IInv
  <2> QED BY <2>2, <2>3 DEF IInv
<1> QED BY <1>1, <1>2, <1>3, <1>4 DEF Next

\* A client that is alone with its servers is in step with them, or will see no
\* FINISH.
THEOREM Invariance == Spec => []IInv
<1> QED BY InitHolds, NextKeeps, PTL DEF Spec

\* Every variable keeps its type.
THEOREM TypeCorrectness == Spec => []TypeOK
<1>1. IInv => TypeOK
  BY DEF IInv
<1> QED BY <1>1, Invariance, PTL

\* The first stream is written last, and so the file begins with what it has.
LEMMA LaidFirst ==
    ASSUME NEW streams, DOMAIN streams \subseteq Nat \ {0}, 1 \in DOMAIN streams
    PROVE  /\ BeginsWith(Laid(streams), Bytes(streams[1]))
           /\ DOMAIN streams = {1} => BeginsWith(Bytes(streams[1]), Laid(streams))
<1>1. ASSUME NEW i \in DOMAIN Bytes(streams[1])
      PROVE  i \in DOMAIN Laid(streams) /\ Laid(streams)[i] = Bytes(streams[1])[i]
  <2>1. PICK S : S = Reaching(streams, i)
    OBVIOUS
  <2>2. 1 \in S /\ \A k \in S : k \in Nat \ {0}
    BY <2>1 DEF Reaching
  <2>3. \A k \in S : (\A j \in S : k =< j) <=> k = 1
    BY <2>2
  <2>4. Min(S) = 1
    BY <2>2, <2>3 DEF Min
  <2>5. i \in UNION {DOMAIN Bytes(streams[k]) : k \in DOMAIN streams}
    OBVIOUS
  <2> QED BY <2>1, <2>4, <2>5 DEF Laid
<1>2. ASSUME DOMAIN streams = {1}, NEW i \in DOMAIN Laid(streams)
      PROVE  i \in DOMAIN Bytes(streams[1]) /\ Bytes(streams[1])[i] = Laid(streams)[i]
  <2>1. i \in UNION {DOMAIN Bytes(streams[k]) : k \in DOMAIN streams}
    BY <1>2 DEF Laid
  <2>2. i \in DOMAIN Bytes(streams[1])
    BY <1>2, <2>1
  <2> QED BY <1>1, <2>2
<1> QED BY <1>1, <1>2 DEF BeginsWith

\* A client that was alone with the servers that ran, and has finished, has printed the
\* whole file, whatever was lost and whenever a server ended; its response file holds
\* just that, or begins with the lines up to the second HELLO.
THEOREM WholeFiles == Spec => []WholeFile
<1>1. IInv => WholeFile
  <2> SUFFICES ASSUME IInv, NEW c \in Clients, c_pc[c] = "done", Alone(c)
               PROVE  /\ response[c] = Whole(text)
                      /\ IF HelloOnce(text)
                         THEN /\ BeginsWith(ResponseFile(c), Bytes(Whole(text)))
                              /\ BeginsWith(Bytes(Whole(text)), ResponseFile(c))
                         ELSE BeginsWith(ResponseFile(c), Bytes(First(text)))
    BY DEF WholeFile
  <2>1. DoneInv(c)
    BY DEF IInv, ClientInv
  <2>2. PICK x \in {Unopened} \cup Files, old \in Seq(Files) :
           x = response[c] /\ old = left[c]
    BY DEF IInv, TypeOK
  <2>3. PICK m \in Nat : m = Len(old) /\ (m = 0 <=> old = <<>>)
    BY LenProperties, EmptySeq
  <2>4. PICK T : T = {Unopened} \cup Files
    OBVIOUS
  <2>5. PICK streams \in Seq(T) :
           /\ streams = Append(old, x) /\ Len(streams) = m + 1
           /\ \A i \in 1 .. m : streams[i] = old[i]
           /\ streams[m + 1] = x
    <3>1. old \in Seq(T)
      <4>1. \A i \in 1 .. m : old[i] \in T
        BY <2>3, <2>4, ElementOfSeq
      <4>2. old = [i \in 1 .. m |-> old[i]]
        BY <2>3, LenProperties
      <4> QED BY <4>1, <4>2, SeqDef
    <3>2. x \in T
      BY <2>2, <2>4
    <3>3. /\ Append(old, x) \in Seq(T) /\ Len(Append(old, x)) = Len(old) + 1
          /\ \A i \in 1 .. Len(old) : Append(old, x)[i] = old[i]
          /\ Append(old, x)[Len(old) + 1] = x
      BY <3>1, <3>2, AppendProperties
    <3> QED BY <2>3, <3>3
  <2>6. DOMAIN streams = 1 .. m + 1
    BY <2>5, LenProperties
  <2>7. ResponseFile(c) = Laid(streams)
    BY <2>2, <2>5 DEF ResponseFile
  <2>8. /\ BeginsWith(Laid(streams), Bytes(streams[1]))
        /\ DOMAIN streams = {1} => BeginsWith(Bytes(streams[1]), Laid(streams))
    <3>1. DOMAIN streams \subseteq Nat \ {0} /\ 1 \in DOMAIN streams
      BY <2>6
    <3> QED BY <3>1, LaidFirst
  <2>9. CASE HelloOnce(text)
    <3>1. m = 0 /\ x = Whole(text)
      BY <2>1, <2>2, <2>3, <2>9 DEF DoneInv
    <3>2. DOMAIN streams = {1} /\ streams[1] = Whole(text)
      BY <2>5, <2>6, <3>1
    <3> QED BY <2>2, <2>7, <2>8, <2>9, <3>1, <3>2
  <2>10. CASE ~HelloOnce(text)
    <3>1. m # 0 /\ old[1] = First(text) /\ x = Whole(text)
      BY <2>1, <2>2, <2>3, <2>10 DEF DoneInv
    <3>2. streams[1] = First(text)
      BY <2>5, <3>1
    <3> QED BY <2>2, <2>7, <2>8, <2>10, <3>1, <3>2
  <2> QED BY <2>9, <2>10
<1> QED BY <1>1, Invariance, PTL

=============================================================================
