--------------------------- MODULE EncFileProofs ---------------------------
(***************************************************************************)
(* Proofs about EncFile, for keys of any length, buffers and streams of    *)
(* any size, any set of files and any number of rounds.                    *)
(***************************************************************************)
EXTENDS EncFile, SequenceTheorems, WellFoundedInduction, TLAPS

-----------------------------------------------------------------------------
(* The inductive invariant *)

\* The round that the client has begun, as it sends it.
Round == file.key \o file.bytes \o <<NUL>>

\* What it is to receive.
Reply == Encrypted(file.bytes, file.key) \o <<NUL>>

\* The bytes of w from position p + 1 on.
IsLeft(stream, w, p) ==
    /\ p \in Nat /\ p + Len(stream) = Len(w)
    /\ \A i \in 1 .. Len(stream) : stream[i] = w[p + i]

\* The server has put the first p bytes of w where they belong.
Received(w, p) ==
    /\ p \in Nat
    /\ keylen = IF p <= KEYLEN THEN p ELSE KEYLEN
    /\ \A i \in 1 .. keylen : key[i] = w[i]
    /\ Len(plain) = p - keylen
    /\ \A i \in 1 .. Len(plain) : plain[i] = w[KEYLEN + i]

\* The client has written the first p bytes of w.
Copied(w, p) ==
    /\ p \in Nat /\ Len(copy) = p
    /\ \A i \in 1 .. p : copy[i] = w[i]

FileOK ==
    /\ file.bytes \in Seq(Bytes) /\ NUL \notin ToSet(file.bytes)
    /\ file.key \in Keys

\* What the server has yet to receive, and the client.
Up == upstream \o unsent
Down == downstream \o cipher

\* Before the first round.
Idle ==
    /\ c_pc = "ask" /\ rounds = 0
    /\ s_pc = "receive" /\ keylen = 0 /\ plain = <<>>
    /\ Up = <<>> /\ Down = <<>>

\* The client sends, or has sent, and the server has yet to see that there is a file.
Announced ==
    /\ c_pc \in {"send", "receive"} /\ copy = <<>> /\ Down = <<>>
    /\ s_pc = "wait"
    /\ Up # <<>> /\ IsLeft(Tail(Up), Round, 0)

Uploading ==
    /\ c_pc \in {"send", "receive"} /\ copy = <<>> /\ Down = <<>>
    /\ s_pc = "receive"
    /\ Up # <<>>
    /\ \E p \in Nat : IsLeft(Up, Round, p) /\ Received(Round, p)

Uploaded ==
    /\ c_pc = "receive" /\ copy = <<>> /\ Down = <<>>
    /\ s_pc = "encrypt" /\ Up = <<>>
    /\ key = file.key /\ plain = file.bytes

Downloading ==
    /\ c_pc = "receive" /\ s_pc \in {"send", "wait"} /\ Up = <<>>
    /\ Down # <<>>
    /\ \E p \in Nat : IsLeft(Down, Reply, p) /\ Copied(Reply, p)

Done ==
    /\ c_pc = "ask"
    /\ copy = Encrypted(file.bytes, file.key)
    /\ Up = <<>> /\ Down = <<>>
    /\ s_pc = "wait"

RoundInv ==
    c_pc # "closed" /\ ~torn =>
        \/ Idle
        \/ /\ FileOK /\ rounds > 0
           /\ Announced \/ Uploading \/ Uploaded \/ Downloading \/ Done

\* Who is in a send has something to send.
SendInv ==
    /\ c_pc = "send" <=> unsent # <<>>
    /\ s_pc = "send" <=> cipher # <<>>

IInv == TypeOK /\ SendInv /\ RoundInv

-----------------------------------------------------------------------------
(* What recv returns *)

LEMMA Constants ==
    /\ KEYLEN \in Nat /\ KEYLEN > 0 /\ MAXBUFLEN \in Nat /\ MAXBUFLEN > 0
    /\ MaxRounds \in Nat /\ Files \subseteq Seq(Bytes)
    /\ NUL \in Bytes /\ NUL \notin Letters /\ Letters \subseteq Bytes
BY EncAssumption DEF NUL, Letters, Bytes

LEMMA LeastNat ==
    ASSUME NEW T \in SUBSET Nat, T # {}
    PROVE  \E m \in T : \A k \in T : ~(k < m)
<1> DEFINE R == OpToRel(<, Nat)
<1>1. IsWellFoundedOn(R, Nat)
  BY NatLessThanWellFounded
<1>2. \A i, j \in Nat : <<i, j>> \in R <=> i < j
  BY DEF OpToRel
<1> HIDE DEF R
<1>3. PICK m \in T : \A k \in T : ~(<<k, m>> \in R)
  BY <1>1, WFMin
<1> QED BY <1>2, <1>3

LEMMA MinOfTwo ==
    ASSUME NEW a \in Nat, NEW b \in Nat
    PROVE  Min({a, b}) = IF a <= b THEN a ELSE b
<1>1. CASE a <= b
  <2>1. \A x \in {a, b} : (\A y \in {a, b} : x =< y) <=> x = a
    BY <1>1
  <2> QED BY <1>1, <2>1 DEF Min
<1>2. CASE b < a
  <2>1. \A x \in {a, b} : (\A y \in {a, b} : x =< y) <=> x = b
    BY <1>2
  <2>2. ~(a <= b)
    BY <1>2
  <2> QED BY <2>1, <2>2 DEF Min
<1> QED BY <1>1, <1>2

IsFirst(s, x, h) == Len(h) = x /\ \A i \in 1 .. x : h[i] = s[i]
IsRest(s, x, h) == Len(h) = Len(s) - x /\ \A i \in 1 .. Len(s) - x : h[i] = s[x + i]

LEMMA FirstPart ==
    ASSUME NEW S, NEW s \in Seq(S), NEW x \in Nat, x <= Len(s)
    PROVE  SubSeq(s, 1, x) \in Seq(S) /\ IsFirst(s, x, SubSeq(s, 1, x))
<1>1. \A i \in 1 .. x : s[i] \in S
  BY ElementOfSeq, LenProperties
<1>2. /\ SubSeq(s, 1, x) \in Seq(S)
      /\ Len(SubSeq(s, 1, x)) = IF 1 <= x THEN x - 1 + 1 ELSE 0
      /\ \A i \in 1 .. x - 1 + 1 : SubSeq(s, 1, x)[i] = s[1 + i - 1]
  BY <1>1, SubSeqProperties
<1>3. (IF 1 <= x THEN x - 1 + 1 ELSE 0) = x /\ x - 1 + 1 = x
  OBVIOUS
<1>4. \A i \in 1 .. x : 1 + i - 1 = i
  OBVIOUS
<1> QED BY <1>2, <1>3, <1>4 DEF IsFirst

LEMMA LastPart ==
    ASSUME NEW S, NEW s \in Seq(S), NEW x \in Nat, x <= Len(s)
    PROVE  SubSeq(s, x + 1, Len(s)) \in Seq(S) /\ IsRest(s, x, SubSeq(s, x + 1, Len(s)))
<1>0. PICK n \in Nat : n = Len(s) /\ x <= n
  BY LenProperties
<1>1. \A i \in x + 1 .. n : s[i] \in S
  <2>1. \A i \in x + 1 .. n : i \in 1 .. n
    OBVIOUS
  <2> QED BY <1>0, <2>1, ElementOfSeq
<1>2. /\ SubSeq(s, x + 1, n) \in Seq(S)
      /\ Len(SubSeq(s, x + 1, n)) = IF x + 1 <= n THEN n - (x + 1) + 1 ELSE 0
      /\ \A i \in 1 .. n - (x + 1) + 1 : SubSeq(s, x + 1, n)[i] = s[x + 1 + i - 1]
  <2>1. x + 1 \in Int /\ n \in Int
    OBVIOUS
  <2> QED BY <1>1, <2>1, SubSeqProperties
<1>3. (IF x + 1 <= n THEN n - (x + 1) + 1 ELSE 0) = n - x /\ n - (x + 1) + 1 = n - x
  BY <1>0
<1>4. \A i \in 1 .. n - x : x + 1 + i - 1 = x + i
  OBVIOUS
<1> QED BY <1>0, <1>2, <1>3, <1>4 DEF IsRest

\* A chunk is a first part of the stream, and not empty.
LEMMA RecvIs ==
    ASSUME NEW stream \in Seq(Bytes), NEW n \in Nat, n > 0, NEW chunk \in Recv(stream, n)
    PROVE  /\ chunk \in Seq(Bytes) /\ Len(chunk) \in Nat
           /\ 1 <= Len(chunk) /\ Len(chunk) <= Len(stream)
           /\ IsFirst(stream, Len(chunk), chunk)
           /\ After(stream, chunk) \in Seq(Bytes)
           /\ IsRest(stream, Len(chunk), After(stream, chunk))
<1>1. PICK l \in Nat : l = Len(stream)
  BY LenProperties
<1>2. PICK k \in 1 .. Min({n, l}) : chunk = SubSeq(stream, 1, k)
  BY <1>1 DEF Recv
<1>3. k \in Nat /\ 1 <= k /\ k <= l
  BY <1>2, MinOfTwo
<1>4. chunk \in Seq(Bytes) /\ IsFirst(stream, k, chunk)
  BY <1>1, <1>2, <1>3, FirstPart
<1>5. Len(chunk) = k
  BY <1>4 DEF IsFirst
<1>6. After(stream, chunk) \in Seq(Bytes) /\ IsRest(stream, k, After(stream, chunk))
  BY <1>1, <1>3, <1>5, LastPart DEF After
<1> QED BY <1>1, <1>3, <1>4, <1>5, <1>6

LEMMA Joined ==
    ASSUME NEW S, NEW s \in Seq(S), NEW t \in Seq(S)
    PROVE  s \o t \in Seq(S)
BY ConcatProperties

LEMMA EmptyTyped == <<>> \in Seq(Bytes) /\ Len(<<>>) = 0
BY EmptySeq

LEMMA EmptyJoined ==
    ASSUME NEW a \in Seq(Bytes), NEW b \in Seq(Bytes)
    PROVE  /\ a \o b = <<>> <=> a = <<>> /\ b = <<>>
           /\ a = <<>> => a \o b = b
<1>1. PICK m \in Nat, n \in Nat : m = Len(a) /\ n = Len(b) /\ Len(a \o b) = m + n
  BY LenProperties, ConcatProperties
<1>2. a = <<>> => a \o b = b
  BY ConcatEmptySeq
<1>3. ASSUME a \o b = <<>> PROVE a = <<>> /\ b = <<>>
  <2>1. m + n = 0
    BY <1>1, <1>3, EmptyTyped
  <2>2. m = 0 /\ n = 0
    BY <2>1
  <2> QED BY <1>1, <2>2, EmptySeq
<1> QED BY <1>2, <1>3

\* A byte that is sent is still under way.
LEMMA ByteMoves ==
    ASSUME NEW a \in Seq(Bytes), NEW b \in Seq(Bytes), b # <<>>
    PROVE  /\ Append(a, Head(b)) \in Seq(Bytes) /\ Tail(b) \in Seq(Bytes)
           /\ Append(a, Head(b)) \o Tail(b) = a \o b
<1>1. PICK m \in Nat, n \in Nat : m = Len(a) /\ n = Len(b) /\ n > 0
  <2>1. Len(b) \in Nat /\ Len(b) # 0
    BY EmptySeq, LenProperties
  <2> QED BY <2>1, LenProperties
<1>2. PICK x \in Bytes, t \in Seq(Bytes) :
         /\ x = Head(b) /\ x = b[1] /\ t = Tail(b) /\ Len(t) = n - 1
         /\ \A i \in 1 .. n - 1 : t[i] = b[i + 1]
  <2>1. /\ Head(b) \in Bytes /\ Head(b) = b[1]
        /\ Tail(b) \in Seq(Bytes) /\ Len(Tail(b)) = Len(b) - 1
        /\ \A i \in 1 .. Len(b) - 1 : Tail(b)[i] = b[i + 1]
    <3>1. 1 \in 1 .. Len(b)
      BY <1>1
    <3> QED BY <3>1, HeadTailProperties, ElementOfSeq
  <2> QED BY <1>1, <2>1
<1>3. PICK h \in Seq(Bytes) :
         /\ h = Append(a, x) /\ Len(h) = m + 1 /\ h[m + 1] = x
         /\ \A i \in 1 .. m : h[i] = a[i]
  <2>1. /\ Append(a, x) \in Seq(Bytes) /\ Len(Append(a, x)) = Len(a) + 1
        /\ \A i \in 1 .. Len(a) : Append(a, x)[i] = a[i]
        /\ Append(a, x)[Len(a) + 1] = x
    BY AppendProperties
  <2> QED BY <1>1, <2>1
<1>4. PICK u \in Seq(Bytes) :
         /\ u = h \o t /\ Len(u) = Len(h) + Len(t)
         /\ \A i \in 1 .. Len(h) + Len(t) :
              u[i] = IF i <= Len(h) THEN h[i] ELSE t[i - Len(h)]
  <2>1. /\ h \o t \in Seq(Bytes) /\ Len(h \o t) = Len(h) + Len(t)
        /\ \A i \in 1 .. Len(h) + Len(t) :
             (h \o t)[i] = IF i <= Len(h) THEN h[i] ELSE t[i - Len(h)]
    BY ConcatProperties
  <2> QED BY <2>1
<1>5. PICK v \in Seq(Bytes) :
         /\ v = a \o b /\ Len(v) = m + n
         /\ \A i \in 1 .. m + n : v[i] = IF i <= m THEN a[i] ELSE b[i - m]
  <2>1. /\ a \o b \in Seq(Bytes) /\ Len(a \o b) = Len(a) + Len(b)
        /\ \A i \in 1 .. Len(a) + Len(b) :
             (a \o b)[i] = IF i <= Len(a) THEN a[i] ELSE b[i - Len(a)]
    BY ConcatProperties
  <2> QED BY <1>1, <2>1
<1>6. m + 1 + (n - 1) = m + n
  OBVIOUS
<1>7. Len(u) = m + n /\ \A i \in 1 .. m + n : u[i] = IF i <= m + 1 THEN h[i] ELSE t[i - (m + 1)]
  BY <1>2, <1>3, <1>4, <1>6
<1>8. ASSUME NEW i \in 1 .. m + n PROVE u[i] = v[i]
  <2>1. CASE i <= m
    <3>1. i \in 1 .. m /\ i <= m + 1
      BY <2>1
    <3> QED BY <1>3, <1>5, <1>7, <2>1, <3>1
  <2>2. CASE i = m + 1
    <3>1. i <= m + 1 /\ ~(i <= m) /\ i - m = 1
      BY <2>2
    <3> QED BY <1>2, <1>3, <1>5, <1>7, <2>2, <3>1
  <2>3. CASE i > m + 1
    <3>1. PICK j \in 1 .. n - 1 : j = i - (m + 1) /\ j + 1 = i - m
      BY <2>3
    <3>2. ~(i <= m) /\ ~(i <= m + 1)
      BY <2>3
    <3> QED BY <1>2, <1>5, <1>7, <3>1, <3>2
  <2> QED BY <2>1, <2>2, <2>3
<1>9. u = v
  BY <1>5, <1>7, <1>8, SeqEqual
<1> QED BY <1>2, <1>3, <1>4, <1>5, <1>9

\* What has not been sent comes after what is received.
LEMMA RecvOfMore ==
    ASSUME NEW a \in Seq(Bytes), NEW b \in Seq(Bytes), NEW n \in Nat, n > 0,
           NEW chunk \in Recv(a, n)
    PROVE  /\ chunk \in Recv(a \o b, n)
           /\ After(a \o b, chunk) = After(a, chunk) \o b
<1>1. PICK l \in Nat, m \in Nat : l = Len(a) /\ m = Len(b)
  BY LenProperties
<1>2. PICK k \in 1 .. Min({n, l}) : chunk = SubSeq(a, 1, k)
  BY <1>1 DEF Recv
<1>3. k \in Nat /\ 1 <= k /\ k <= l /\ k <= n
  BY <1>2, MinOfTwo
<1>4. PICK s \in Seq(Bytes) :
         /\ s = a \o b /\ Len(s) = l + m
         /\ \A i \in 1 .. l + m : s[i] = IF i <= l THEN a[i] ELSE b[i - l]
  <2>1. /\ a \o b \in Seq(Bytes) /\ Len(a \o b) = Len(a) + Len(b)
        /\ \A i \in 1 .. Len(a) + Len(b) :
             (a \o b)[i] = IF i <= Len(a) THEN a[i] ELSE b[i - Len(a)]
    BY ConcatProperties
  <2> QED BY <1>1, <2>1
<1>5. k <= l + m /\ l + m \in Nat
  BY <1>3
<1>6. chunk = SubSeq(s, 1, k) /\ Len(chunk) = k
  <2>1. PICK c \in Seq(Bytes) : c = chunk /\ Len(c) = k /\ \A i \in 1 .. k : c[i] = a[i]
    <3>1. chunk \in Seq(Bytes) /\ IsFirst(a, k, chunk)
      BY <1>1, <1>2, <1>3, FirstPart
    <3> QED BY <3>1 DEF IsFirst
  <2>2. PICK d \in Seq(Bytes) : d = SubSeq(s, 1, k) /\ Len(d) = k /\ \A i \in 1 .. k : d[i] = s[i]
    <3>1. SubSeq(s, 1, k) \in Seq(Bytes) /\ IsFirst(s, k, SubSeq(s, 1, k))
      BY <1>3, <1>4, <1>5, FirstPart
    <3> QED BY <3>1 DEF IsFirst
  <2>3. \A i \in 1 .. k : i \in 1 .. l + m /\ i <= l
    BY <1>3
  <2>4. \A i \in 1 .. k : c[i] = d[i]
    BY <1>4, <2>1, <2>2, <2>3
  <2>5. c = d
    BY <2>1, <2>2, <2>4, SeqEqual
  <2> QED BY <2>1, <2>2, <2>5
<1>7. chunk \in Recv(s, n)
  <2>1. k \in 1 .. Min({n, l + m})
    BY <1>3, <1>5, MinOfTwo
  <2> QED BY <1>4, <1>6, <2>1 DEF Recv
<1>8. After(s, chunk) = After(a, chunk) \o b
  <2>1. PICK t \in Seq(Bytes) :
           /\ t = After(a, chunk) /\ Len(t) = l - k
           /\ \A i \in 1 .. l - k : t[i] = a[k + i]
    <3>1. After(a, chunk) \in Seq(Bytes) /\ IsRest(a, k, After(a, chunk))
      BY <1>1, <1>3, <1>6, LastPart DEF After
    <3> QED BY <1>1, <3>1 DEF IsRest
  <2>2. PICK u \in Seq(Bytes) :
           /\ u = After(s, chunk) /\ Len(u) = l + m - k
           /\ \A i \in 1 .. l + m - k : u[i] = s[k + i]
    <3>1. After(s, chunk) \in Seq(Bytes) /\ IsRest(s, k, After(s, chunk))
      BY <1>3, <1>4, <1>5, <1>6, LastPart DEF After
    <3>2. Len(s) = l + m
      BY <1>4
    <3> QED BY <3>1, <3>2 DEF IsRest
  <2>3. PICK v \in Seq(Bytes) :
           /\ v = t \o b /\ Len(v) = Len(t) + Len(b)
           /\ \A i \in 1 .. Len(t) + Len(b) :
                v[i] = IF i <= Len(t) THEN t[i] ELSE b[i - Len(t)]
    <3>1. /\ t \o b \in Seq(Bytes) /\ Len(t \o b) = Len(t) + Len(b)
          /\ \A i \in 1 .. Len(t) + Len(b) :
               (t \o b)[i] = IF i <= Len(t) THEN t[i] ELSE b[i - Len(t)]
      BY ConcatProperties
    <3> QED BY <3>1
  <2>4. l - k + m = l + m - k
    BY <1>3
  <2>5. /\ Len(v) = l + m - k
        /\ \A i \in 1 .. l + m - k : v[i] = IF i <= l - k THEN t[i] ELSE b[i - (l - k)]
    BY <1>1, <2>1, <2>3, <2>4
  <2>6. ASSUME NEW i \in 1 .. l + m - k PROVE u[i] = v[i]
    <3>1. PICK j \in 1 .. l + m : j = k + i
      BY <1>3
    <3>2. u[i] = s[j] /\ s[j] = IF j <= l THEN a[j] ELSE b[j - l]
      BY <1>4, <2>2, <3>1
    <3>3. CASE i <= l - k
      <4>1. i \in 1 .. l - k /\ j <= l
        BY <1>3, <3>1, <3>3
      <4> QED BY <2>1, <2>5, <3>1, <3>2, <3>3, <4>1
    <3>4. CASE ~(i <= l - k)
      <4>1. ~(j <= l) /\ j - l = i - (l - k)
        BY <1>3, <3>1, <3>4
      <4> QED BY <2>5, <3>2, <3>4, <4>1
    <3> QED BY <3>3, <3>4
  <2>7. u = v
    BY <2>2, <2>5, <2>6, SeqEqual
  <2> QED BY <2>1, <2>2, <2>3, <2>7
<1> QED BY <1>4, <1>7, <1>8

LEMMA TailOfMore ==
    ASSUME NEW a \in Seq(Bytes), NEW b \in Seq(Bytes), a # <<>>
    PROVE  Tail(a) \in Seq(Bytes) /\ Tail(a) \o b = Tail(a \o b)
<1>1. PICK l \in Nat, m \in Nat : l = Len(a) /\ m = Len(b) /\ 1 <= l
  <2>1. Len(a) \in Nat /\ Len(a) # 0 /\ Len(b) \in Nat
    BY EmptySeq, LenProperties
  <2> QED BY <2>1
<1>2. PICK t \in Seq(Bytes) :
         /\ t = Tail(a) /\ Len(t) = l - 1
         /\ \A i \in 1 .. l - 1 : t[i] = a[i + 1]
  <2>1. /\ Tail(a) \in Seq(Bytes) /\ Len(Tail(a)) = Len(a) - 1
        /\ \A i \in 1 .. Len(a) - 1 : Tail(a)[i] = a[i + 1]
    BY HeadTailProperties
  <2> QED BY <1>1, <2>1
<1>3. PICK s \in Seq(Bytes) :
         /\ s = a \o b /\ Len(s) = l + m
         /\ \A i \in 1 .. l + m : s[i] = IF i <= l THEN a[i] ELSE b[i - l]
  <2>1. /\ a \o b \in Seq(Bytes) /\ Len(a \o b) = Len(a) + Len(b)
        /\ \A i \in 1 .. Len(a) + Len(b) :
             (a \o b)[i] = IF i <= Len(a) THEN a[i] ELSE b[i - Len(a)]
    BY ConcatProperties
  <2> QED BY <1>1, <2>1
<1>4. PICK u \in Seq(Bytes) :
         /\ u = t \o b /\ Len(u) = l - 1 + m
         /\ \A i \in 1 .. l - 1 + m : u[i] = IF i <= l - 1 THEN t[i] ELSE b[i - (l - 1)]
  <2>1. /\ t \o b \in Seq(Bytes) /\ Len(t \o b) = Len(t) + Len(b)
        /\ \A i \in 1 .. Len(t) + Len(b) :
             (t \o b)[i] = IF i <= Len(t) THEN t[i] ELSE b[i - Len(t)]
    BY ConcatProperties
  <2>2. Len(t) = l - 1 /\ Len(b) = m
    BY <1>1, <1>2
  <2> QED BY <2>1, <2>2
<1>5. PICK v \in Seq(Bytes) :
         /\ v = Tail(s) /\ Len(v) = l + m - 1
         /\ \A i \in 1 .. l + m - 1 : v[i] = s[i + 1]
  <2>1. s # <<>>
    <3>1. l + m # 0
      BY <1>1
    <3> QED BY <1>3, <3>1, EmptyTyped
  <2>2. /\ Tail(s) \in Seq(Bytes) /\ Len(Tail(s)) = Len(s) - 1
        /\ \A i \in 1 .. Len(s) - 1 : Tail(s)[i] = s[i + 1]
    BY <2>1, HeadTailProperties
  <2>3. PICK y : y = Len(s) - 1 /\ y = l + m - 1
    BY <1>3
  <2>4. PICK v \in Seq(Bytes) :
           v = Tail(s) /\ Len(v) = y /\ \A i \in 1 .. y : v[i] = s[i + 1]
    BY <2>2, <2>3
  <2> QED BY <2>3, <2>4
<1>6. l - 1 + m = l + m - 1
  OBVIOUS
<1>7. ASSUME NEW i \in 1 .. l + m - 1 PROVE u[i] = v[i]
  <2>1. PICK j \in 1 .. l + m : j = i + 1
    OBVIOUS
  <2>2. v[i] = s[j] /\ s[j] = IF j <= l THEN a[j] ELSE b[j - l]
    BY <1>3, <1>5, <2>1
  <2>3. u[i] = IF i <= l - 1 THEN t[i] ELSE b[i - (l - 1)]
    BY <1>4, <1>6
  <2>4. CASE i <= l - 1
    <3>1. i \in 1 .. l - 1 /\ j <= l
      BY <1>1, <2>1, <2>4
    <3> QED BY <1>2, <2>1, <2>2, <2>3, <2>4, <3>1
  <2>5. CASE ~(i <= l - 1)
    <3>1. ~(j <= l) /\ j - l = i - (l - 1)
      BY <1>1, <2>1, <2>5
    <3> QED BY <2>2, <2>3, <2>5, <3>1
  <2> QED BY <2>4, <2>5
<1>8. u = v
  BY <1>4, <1>5, <1>6, <1>7, SeqEqual
<1> QED BY <1>2, <1>3, <1>4, <1>5, <1>8

LEMMA BeforeIs ==
    ASSUME NEW s \in Seq(Bytes), NEW b
    PROVE  /\ Before(b, s) \in Seq(Bytes) /\ Len(Before(b, s)) \in Nat
           /\ Len(Before(b, s)) <= Len(s)
           /\ IsFirst(s, Len(Before(b, s)), Before(b, s))
           /\ b \notin ToSet(Before(b, s))
           /\ b \notin ToSet(s) => Before(b, s) = s
           /\ b \in ToSet(s) => /\ Len(Before(b, s)) < Len(s)
                                /\ s[Len(Before(b, s)) + 1] = b
<1>1. PICK n \in Nat : n = Len(s) /\ DOMAIN s = 1 .. n
  BY LenProperties
<1> DEFINE I == {i \in 1 .. n : s[i] = b}
<1>2. b \in ToSet(s) <=> I # {}
  BY <1>1 DEF ToSet
<1>3. SelectInSeq(s, LAMBDA x : x = b) = IF I # {} THEN Min(I) ELSE 0
  BY <1>1 DEF SelectInSeq
<1>4. CASE I = {}
  <2>1. Before(b, s) = s
    BY <1>3, <1>4 DEF Before
  <2>2. IsFirst(s, n, s)
    BY <1>1 DEF IsFirst
  <2> QED BY <1>1, <1>2, <1>4, <2>1, <2>2
<1>5. CASE I # {}
  <2>1. I \in SUBSET Nat
    OBVIOUS
  <2>2. PICK m \in I : \A k \in I : ~(k < m)
    BY <1>5, <2>1, LeastNat
  <2>3. \A x \in I : (\A y \in I : x =< y) <=> x = m
    BY <2>1, <2>2
  <2>4. Min(I) = m
    BY <2>2, <2>3 DEF Min
  <2>5. m \in 1 .. n /\ s[m] = b /\ \A k \in 1 .. n : k < m => s[k] # b
    BY <2>2
  <2>6. m # 0 /\ m - 1 \in Nat /\ m - 1 < n /\ m - 1 <= n /\ m - 1 + 1 = m
    BY <2>5
  <2>7. Before(b, s) = SubSeq(s, 1, m - 1)
    BY <1>3, <1>5, <2>4, <2>6 DEF Before
  <2>8. PICK h \in Seq(Bytes) : h = Before(b, s) /\ IsFirst(s, m - 1, h)
    BY <1>1, <2>6, <2>7, FirstPart
  <2>9. Len(h) = m - 1 /\ \A i \in 1 .. m - 1 : h[i] = s[i]
    BY <2>8 DEF IsFirst
  <2>10. b \notin ToSet(h)
    <3>1. DOMAIN h = 1 .. m - 1
      BY <2>9, LenProperties
    <3>2. \A i \in 1 .. m - 1 : h[i] # b
      BY <2>5, <2>9
    <3> QED BY <3>1, <3>2 DEF ToSet
  <2> QED BY <1>1, <1>2, <1>5, <2>5, <2>6, <2>8, <2>9, <2>10
<1> QED BY <1>4, <1>5

\* A chunk of bytes that end with their only NUL: up to this NUL it has the next of
\* them, and the NUL comes with the last.
EndsOnce(w) ==
    /\ Len(w) \in Nat /\ Len(w) > 0
    /\ \A i \in 1 .. Len(w) : w[i] = NUL <=> i = Len(w)

\* data are the bytes of w after the first p.
IsNext(data, w, p) == \A i \in 1 .. Len(data) : data[i] = w[p + i]

LEMMA ReadPart ==
    ASSUME NEW w, EndsOnce(w), NEW stream \in Seq(Bytes), NEW p \in Nat, IsLeft(stream, w, p),
           NEW n \in Nat, n > 0, NEW chunk \in Recv(stream, n)
    PROVE  /\ Before(NUL, chunk) \in Seq(Bytes) /\ Len(Before(NUL, chunk)) \in Nat
           /\ IsNext(Before(NUL, chunk), w, p)
           /\ NUL \in ToSet(chunk)
                => After(stream, chunk) = <<>> /\ p + Len(Before(NUL, chunk)) + 1 = Len(w)
           /\ NUL \notin ToSet(chunk)
                => /\ After(stream, chunk) # <<>>
                   /\ IsLeft(After(stream, chunk), w, p + Len(Before(NUL, chunk)))
<1>1. PICK l \in Nat, t \in Nat :
         /\ l = Len(stream) /\ t = Len(w) /\ p + l = t /\ t > 0
         /\ \A i \in 1 .. l : stream[i] = w[p + i]
         /\ \A i \in 1 .. t : w[i] = NUL <=> i = t
  BY LenProperties DEF IsLeft, EndsOnce
<1>2. PICK k \in Nat, rest \in Seq(Bytes) :
         /\ chunk \in Seq(Bytes) /\ k = Len(chunk) /\ 1 <= k /\ k <= l
         /\ \A i \in 1 .. k : chunk[i] = stream[i]
         /\ rest = After(stream, chunk) /\ Len(rest) = l - k
         /\ \A i \in 1 .. l - k : rest[i] = stream[k + i]
  <2>1. /\ chunk \in Seq(Bytes) /\ Len(chunk) \in Nat
        /\ 1 <= Len(chunk) /\ Len(chunk) <= Len(stream)
        /\ IsFirst(stream, Len(chunk), chunk)
        /\ After(stream, chunk) \in Seq(Bytes)
        /\ IsRest(stream, Len(chunk), After(stream, chunk))
    BY RecvIs
  <2>2. PICK k \in Nat, rest \in Seq(Bytes) : k = Len(chunk) /\ rest = After(stream, chunk)
    BY <2>1
  <2>3. IsFirst(stream, k, chunk) /\ IsRest(stream, k, rest) /\ 1 <= k /\ k <= l
    BY <1>1, <2>1, <2>2
  <2>4. \A i \in 1 .. k : chunk[i] = stream[i]
    BY <2>3 DEF IsFirst
  <2>5. Len(rest) = l - k /\ \A i \in 1 .. l - k : rest[i] = stream[k + i]
    BY <1>1, <2>3 DEF IsRest
  <2> QED BY <2>1, <2>2, <2>3, <2>4, <2>5
<1>3. PICK data \in Seq(Bytes), d \in Nat :
         /\ data = Before(NUL, chunk) /\ d = Len(data) /\ d <= k
         /\ \A i \in 1 .. d : data[i] = chunk[i]
         /\ NUL \notin ToSet(chunk) => data = chunk
         /\ NUL \in ToSet(chunk) => d < k /\ chunk[d + 1] = NUL
  <2>1. /\ Before(NUL, chunk) \in Seq(Bytes) /\ Len(Before(NUL, chunk)) \in Nat
        /\ Len(Before(NUL, chunk)) <= Len(chunk)
        /\ IsFirst(chunk, Len(Before(NUL, chunk)), Before(NUL, chunk))
        /\ NUL \notin ToSet(chunk) => Before(NUL, chunk) = chunk
        /\ NUL \in ToSet(chunk) => /\ Len(Before(NUL, chunk)) < Len(chunk)
                                   /\ chunk[Len(Before(NUL, chunk)) + 1] = NUL
    BY <1>2, BeforeIs
  <2>2. PICK data \in Seq(Bytes), d \in Nat : data = Before(NUL, chunk) /\ d = Len(data)
    BY <2>1
  <2>3. \A i \in 1 .. d : data[i] = chunk[i]
    BY <2>1, <2>2 DEF IsFirst
  <2> QED BY <1>2, <2>1, <2>2, <2>3
<1>4. \A i \in 1 .. k : i \in 1 .. l /\ chunk[i] = w[p + i]
  <2>1. \A i \in 1 .. k : i \in 1 .. l
    BY <1>2
  <2> QED BY <1>1, <1>2, <2>1
<1>5. IsNext(data, w, p)
  <2>1. \A i \in 1 .. d : i \in 1 .. k
    BY <1>3
  <2> QED BY <1>3, <1>4, <2>1 DEF IsNext
<1>6. CASE NUL \in ToSet(chunk)
  <2>1. d < k /\ chunk[d + 1] = NUL
    BY <1>3, <1>6
  <2>2. PICK j \in 1 .. k : j = d + 1 /\ chunk[j] = NUL
    BY <2>1
  <2>3. w[p + j] = NUL
    BY <1>4, <2>2
  <2>4. p + j \in 1 .. t
    BY <1>1, <1>2, <2>2
  <2>5. p + j = t
    BY <1>1, <2>3, <2>4
  <2>6. k = l /\ p + d + 1 = t
    BY <1>1, <1>2, <2>2, <2>5
  <2>7. Len(rest) = 0
    BY <1>2, <2>6
  <2>8. rest = <<>>
    BY <2>7, EmptySeq
  <2> QED BY <1>1, <1>2, <1>3, <1>5, <1>6, <2>6, <2>8
<1>7. CASE NUL \notin ToSet(chunk)
  <2>1. data = chunk /\ d = k
    BY <1>2, <1>3, <1>7
  <2>2. k < l
    <3>1. SUFFICES ASSUME k = l PROVE FALSE
      BY <1>2
    <3>a. p + l = t /\ 1 <= k
      BY <1>1, <1>2
    <3>2. k \in 1 .. k /\ p + k = t
      BY <3>1, <3>a
    <3>3. chunk[k] = w[t] /\ t \in 1 .. t
      BY <1>1, <1>4, <3>2
    <3>4. chunk[k] = NUL
      BY <1>1, <3>3
    <3>5. DOMAIN chunk = 1 .. k
      BY <1>2, LenProperties
    <3> QED BY <1>7, <3>2, <3>4, <3>5 DEF ToSet
  <2>3. Len(rest) = l - k /\ l - k # 0 /\ l - k \in Nat
    BY <1>2, <2>2
  <2>4. rest # <<>>
    BY <2>3, EmptySeq
  <2>5. \A i \in 1 .. l - k : k + i \in 1 .. l /\ p + (k + i) = p + k + i
    BY <2>2
  <2>6. \A i \in 1 .. l - k : rest[i] = w[p + k + i]
    BY <1>1, <1>2, <2>5
  <2>a. p + l = t
    BY <1>1
  <2>7. p + k + (l - k) = t /\ p + k \in Nat
    BY <2>a
  <2>8. IsLeft(rest, w, p + k)
    BY <1>1, <2>3, <2>6, <2>7 DEF IsLeft
  <2> QED BY <1>2, <1>3, <1>5, <1>7, <2>1, <2>4, <2>8
<1> QED BY <1>6, <1>7

-----------------------------------------------------------------------------
(* What the two programs send *)

LEMMA KeyProperties ==
    ASSUME NEW k \in Keys
    PROVE  /\ k \in [Letters -> Letters] /\ k \in Seq(Bytes) /\ Len(k) = KEYLEN
           /\ \A i \in 1 .. KEYLEN : k[i] # NUL /\ k[i] \in Bytes
<1>1. k \in [1 .. KEYLEN -> Bytes] /\ k \in [Letters -> Letters]
  BY Constants DEF Keys, Letters
<1>2. k \in Seq(Bytes)
  BY <1>1, Constants, SeqDef
<1>3. Len(k) = KEYLEN
  BY <1>1, <1>2, Constants, LenProperties
<1> QED BY <1>1, <1>2, <1>3, Constants DEF Letters

LEMMA NulEnds ==
    ASSUME NEW s \in Seq(Bytes), NUL \notin ToSet(s)
    PROVE  /\ s \o <<NUL>> \in Seq(Bytes) /\ Len(s \o <<NUL>>) = Len(s) + 1
           /\ EndsOnce(s \o <<NUL>>)
           /\ \A i \in 1 .. Len(s) : (s \o <<NUL>>)[i] = s[i]
<1>1. PICK n \in Nat : n = Len(s) /\ DOMAIN s = 1 .. n
  BY LenProperties
<1>2. PICK one \in Seq(Bytes) : one = <<NUL>> /\ Len(one) = 1 /\ one[1] = NUL
  <2>1. PICK x \in Bytes : x = NUL
    BY Constants
  <2>2. <<x>> \in Seq(Bytes) /\ Len(<<x>>) = 1 /\ <<x>>[1] = x
    OBVIOUS
  <2> QED BY <2>1, <2>2
<1>a. /\ s \o one \in Seq(Bytes) /\ Len(s \o one) = Len(s) + Len(one)
      /\ \A i \in 1 .. Len(s) + Len(one) :
           (s \o one)[i] = IF i <= Len(s) THEN s[i] ELSE one[i - Len(s)]
  BY ConcatProperties
<1>3. PICK w \in Seq(Bytes) :
         /\ w = s \o one /\ Len(w) = n + 1
         /\ \A i \in 1 .. n + 1 : w[i] = IF i <= n THEN s[i] ELSE one[i - n]
  BY <1>1, <1>2, <1>a
<1>4. \A i \in 1 .. n + 1 : (i \in 1 .. n /\ i <= n /\ i # n + 1) \/ (i = n + 1 /\ ~(i <= n) /\ i - n = 1)
  OBVIOUS
<1>5. \A i \in 1 .. n : i \in 1 .. n + 1 /\ i <= n
  OBVIOUS
<1>6. \A i \in 1 .. n : s[i] # NUL
  BY <1>1 DEF ToSet
<1>7. \A i \in 1 .. n + 1 : w[i] = NUL <=> i = n + 1
  BY <1>2, <1>3, <1>4, <1>6
<1>8. \A i \in 1 .. n : w[i] = s[i]
  BY <1>3, <1>5
<1>9. EndsOnce(w)
  <2>1. n + 1 \in Nat /\ n + 1 > 0
    OBVIOUS
  <2> QED BY <1>3, <1>7, <2>1 DEF EndsOnce
<1> QED BY <1>1, <1>2, <1>3, <1>8, <1>9

\* A key and the bytes of a file, one after the other and a byte behind them.
Holds(w, k, f) ==
    /\ Len(w) = KEYLEN + Len(f) + 1
    /\ \A i \in 1 .. KEYLEN : w[i] = k[i]
    /\ \A i \in 1 .. Len(f) : w[KEYLEN + i] = f[i]

LEMMA RoundIs ==
    ASSUME NEW f \in Seq(Bytes), NUL \notin ToSet(f), NEW k \in Keys,
           NEW w, w = k \o f \o <<NUL>>
    PROVE  w \in Seq(Bytes) /\ EndsOnce(w) /\ Holds(w, k, f)
<1>1. PICK n \in Nat : n = Len(f) /\ DOMAIN f = 1 .. n
  BY LenProperties
<1>2. PICK c \in Nat : c = KEYLEN
  BY Constants
<1>3. k \in Seq(Bytes) /\ Len(k) = c /\ \A i \in 1 .. c : k[i] # NUL
  BY <1>2, KeyProperties
<1>a. /\ k \o f \in Seq(Bytes) /\ Len(k \o f) = Len(k) + Len(f)
      /\ \A i \in 1 .. Len(k) + Len(f) :
           (k \o f)[i] = IF i <= Len(k) THEN k[i] ELSE f[i - Len(k)]
  BY <1>3, ConcatProperties
<1>4. PICK s \in Seq(Bytes) :
         /\ s = k \o f /\ Len(s) = c + n
         /\ \A i \in 1 .. c + n : s[i] = IF i <= c THEN k[i] ELSE f[i - c]
  BY <1>1, <1>3, <1>a
<1>5. \A i \in 1 .. c : i \in 1 .. c + n /\ i <= c
  OBVIOUS
<1>6. \A i \in 1 .. n : c + i \in 1 .. c + n /\ ~(c + i <= c) /\ c + i - c = i
  OBVIOUS
<1>7. /\ \A i \in 1 .. c : s[i] = k[i]
      /\ \A i \in 1 .. n : s[c + i] = f[i]
  <2>1. \A i \in 1 .. c : s[i] = k[i]
    BY <1>4, <1>5
  <2>2. ASSUME NEW i \in 1 .. n PROVE s[c + i] = f[i]
    <3>1. PICK j \in 1 .. c + n : j = c + i /\ ~(j <= c) /\ j - c = i
      BY <1>6
    <3>2. s[j] = f[j - c]
      BY <1>4, <3>1
    <3> QED BY <3>1, <3>2
  <2> QED BY <2>1, <2>2
<1>8. NUL \notin ToSet(s)
  <2>1. DOMAIN s = 1 .. c + n
    BY <1>4, LenProperties
  <2>2. \A i \in 1 .. n : f[i] # NUL
    BY <1>1 DEF ToSet
  <2>3. \A i \in 1 .. c + n : i \in 1 .. c \/ (i - c \in 1 .. n /\ i = c + (i - c))
    OBVIOUS
  <2>4. ASSUME NEW i \in 1 .. c + n PROVE s[i] # NUL
    <3>1. CASE i \in 1 .. c
      BY <1>3, <1>7, <3>1
    <3>2. CASE i - c \in 1 .. n /\ i = c + (i - c)
      BY <1>7, <2>2, <3>2
    <3> QED BY <2>3, <3>1, <3>2
  <2> QED BY <2>1, <2>4 DEF ToSet
<1>9. /\ w \in Seq(Bytes) /\ EndsOnce(w) /\ Len(w) = c + n + 1
      /\ \A i \in 1 .. c + n : w[i] = s[i]
  BY <1>4, <1>8, NulEnds
<1>10. \A i \in 1 .. c : w[i] = k[i]
  BY <1>5, <1>7, <1>9
<1>11. \A i \in 1 .. n : w[c + i] = f[i]
  BY <1>6, <1>7, <1>9
<1> QED BY <1>1, <1>2, <1>9, <1>10, <1>11 DEF Holds

LEMMA EncryptedIs ==
    ASSUME NEW s \in Seq(Bytes), NEW k \in [Letters -> Bytes]
    PROVE  /\ Encrypted(s, k) \in Seq(Bytes)
           /\ NUL \notin ToSet(s) /\ k \in Keys => NUL \notin ToSet(Encrypted(s, k))
<1>1. PICK text \in Seq(Bytes), n \in Nat, l \in Nat :
         /\ text = Before(EOF, s) /\ n = Len(text) /\ l = Len(s) /\ n <= l
         /\ DOMAIN s = 1 .. l
         /\ \A i \in 1 .. n : text[i] = s[i] /\ text[i] \in Bytes
  <2>1. /\ Before(EOF, s) \in Seq(Bytes) /\ Len(Before(EOF, s)) \in Nat
        /\ Len(Before(EOF, s)) <= Len(s)
        /\ IsFirst(s, Len(Before(EOF, s)), Before(EOF, s))
    BY BeforeIs
  <2>2. PICK text \in Seq(Bytes), n \in Nat : text = Before(EOF, s) /\ n = Len(text)
    BY <2>1
  <2>3. \A i \in 1 .. n : text[i] \in Bytes
    BY <2>2, ElementOfSeq
  <2>4. \A i \in 1 .. n : text[i] = s[i]
    BY <2>1, <2>2 DEF IsFirst
  <2>5. Len(s) \in Nat /\ DOMAIN s = 1 .. Len(s)
    BY LenProperties
  <2> QED BY <2>1, <2>2, <2>3, <2>4, <2>5
<1> DEFINE e == [i \in 1 .. n |-> substitute_char(text[i], k)]
<1>2. e = Encrypted(s, k)
  BY <1>1 DEF Encrypted
<1>3. \A i \in 1 .. n : substitute_char(text[i], k) \in Bytes
  BY <1>1 DEF substitute_char
<1>4. e \in [1 .. n -> Bytes]
  BY <1>3
<1>5. \A i \in 1 .. n : e[i] = substitute_char(text[i], k)
  OBVIOUS
<1>6. DOMAIN e = 1 .. n
  OBVIOUS
<1> HIDE DEF e
<1>7. e \in Seq(Bytes)
  BY <1>4, SeqDef
<1>8. ASSUME NUL \notin ToSet(s), k \in Keys PROVE NUL \notin ToSet(e)
  <2>1. \A i \in 1 .. l : s[i] # NUL
    BY <1>1, <1>8 DEF ToSet
  <2>2. \A i \in 1 .. n : i \in 1 .. l
    BY <1>1
  <2>3. \A i \in 1 .. n : text[i] # NUL
    <3>1. \A i \in 1 .. n : text[i] = s[i]
      BY <1>1
    <3> QED BY <2>1, <2>2, <3>1
  <2>4. \A c \in Letters : k[c] # NUL
    BY <1>8, Constants DEF Keys
  <2>5. \A i \in 1 .. n : e[i] # NUL
    <3> SUFFICES ASSUME NEW i \in 1 .. n PROVE e[i] # NUL
      OBVIOUS
    <3>1. e[i] = substitute_char(text[i], k) /\ text[i] # NUL
      BY <1>5, <2>3
    <3> QED BY <2>4, <3>1 DEF substitute_char
  <2> QED BY <1>6, <2>5 DEF ToSet
<1> QED BY <1>2, <1>7, <1>8

-----------------------------------------------------------------------------
(* Where the server puts what it receives *)

LEMMA KeyThenFileStep ==
    ASSUME TypeOK, NEW data \in Seq(Bytes), KeyThenFile(data)
    PROVE  /\ key' \in [Letters -> Bytes] /\ keylen' \in 0 .. KEYLEN /\ plain' \in Seq(Bytes)
           /\ \A w, p : Received(w, p) /\ IsNext(data, w, p) => Received(w, p + Len(data))'
<1>1. PICK d \in Nat, c \in Nat, k \in Nat, n \in Nat :
         /\ d = Len(data) /\ c = KEYLEN /\ k = keylen /\ k <= c /\ n = Len(plain)
         /\ plain \in Seq(Bytes) /\ key \in [1 .. c -> Bytes]
  <2>1. plain \in Seq(Bytes) /\ keylen \in 0 .. KEYLEN /\ key \in [1 .. KEYLEN -> Bytes]
    BY DEF TypeOK, Letters
  <2>2. Len(data) \in Nat /\ Len(plain) \in Nat
    BY <2>1, LenProperties
  <2>3. KEYLEN \in Nat
    BY Constants
  <2>4. keylen \in Nat /\ keylen <= KEYLEN
    BY <2>1, <2>3
  <2> QED BY <2>1, <2>2, <2>3, <2>4
<1>2. PICK x \in Nat : x = (IF d <= c - k THEN d ELSE c - k) /\ x <= d /\ x <= c - k
                       /\ x = Min({d, c - k})
  <2>1. c - k \in Nat
    BY <1>1
  <2> QED BY <2>1, MinOfTwo
<1>3. PICK part \in Seq(Bytes) :
         part = KeyPart(data) /\ Len(part) = x /\ \A i \in 1 .. x : part[i] = data[i]
  <2>1. KeyPart(data) = SubSeq(data, 1, x)
    BY <1>1, <1>2 DEF KeyPart
  <2>2. SubSeq(data, 1, x) \in Seq(Bytes) /\ IsFirst(data, x, SubSeq(data, 1, x))
    BY <1>1, <1>2, FirstPart
  <2> QED BY <2>1, <2>2 DEF IsFirst
<1>4. PICK rest \in Seq(Bytes) :
         /\ rest = After(data, part) /\ Len(rest) = d - x
         /\ \A i \in 1 .. d - x : rest[i] = data[x + i]
  <2>1. After(data, part) = SubSeq(data, x + 1, Len(data))
    BY <1>3 DEF After
  <2>2. After(data, part) \in Seq(Bytes) /\ IsRest(data, x, After(data, part))
    BY <1>1, <1>2, <2>1, LastPart
  <2> QED BY <1>1, <2>2 DEF IsRest
<1>5. /\ key' = [i \in 1 .. c |-> IF i \in k + 1 .. k + x THEN part[i - k] ELSE key[i]]
      /\ keylen' = k + x
      /\ plain' = plain \o rest
  BY <1>1, <1>3, <1>4 DEF KeyThenFile, Letters
<1>6. /\ plain' \in Seq(Bytes) /\ Len(plain') = n + (d - x)
      /\ \A i \in 1 .. n + (d - x) : plain'[i] = IF i <= n THEN plain[i] ELSE rest[i - n]
  <2>1. /\ plain \o rest \in Seq(Bytes) /\ Len(plain \o rest) = Len(plain) + Len(rest)
        /\ \A i \in 1 .. Len(plain) + Len(rest) :
             (plain \o rest)[i] = IF i <= Len(plain) THEN plain[i] ELSE rest[i - Len(plain)]
    BY <1>1, ConcatProperties
  <2> QED BY <1>1, <1>4, <1>5, <2>1
<1>7. keylen' \in 0 .. c
  BY <1>1, <1>2, <1>5
<1>8. \A i \in 1 .. c : i \in k + 1 .. k + x => i - k \in 1 .. x
  OBVIOUS
<1>9. key' \in [1 .. c -> Bytes]
  <2>1. \A j \in 1 .. x : part[j] \in Bytes
    BY <1>3, ElementOfSeq
  <2> QED BY <1>1, <1>5, <1>8, <2>1
<1>10. ASSUME NEW w, NEW p, Received(w, p), IsNext(data, w, p)
       PROVE  Received(w, p + Len(data))'
  <2>1. /\ p \in Nat /\ k = (IF p <= c THEN p ELSE c) /\ n = p - k
        /\ \A i \in 1 .. k : key[i] = w[i]
        /\ \A i \in 1 .. n : plain[i] = w[c + i]
        /\ \A i \in 1 .. d : data[i] = w[p + i]
    BY <1>1, <1>10 DEF Received, IsNext
  <2>a. /\ p \in Nat /\ k = (IF p <= c THEN p ELSE c) /\ n = p - k
        /\ x = (IF d <= c - k THEN d ELSE c - k)
    BY <1>2, <2>1
  <2>2. p + d \in Nat
    BY <2>1
  <2>3. k + x = IF p + d <= c THEN p + d ELSE c
    BY <2>a
  <2>4. n + (d - x) = p + d - (k + x)
    BY <2>a
  <2>5. ASSUME NEW i \in 1 .. k + x PROVE key'[i] = w[i]
    <3>1. i \in 1 .. c
      BY <1>1, <1>2
    <3>2. CASE i \in k + 1 .. k + x
      <4>1. PICK j \in 1 .. x : j = i - k /\ j \in 1 .. d
        BY <1>2, <3>2
      <4>2. p = k
        BY <2>a, <4>1
      <4>3. p + j = i
        BY <4>1, <4>2
      <4>4. key'[i] = part[j]
        BY <1>5, <3>1, <3>2, <4>1
      <4> QED BY <1>3, <2>1, <4>1, <4>3, <4>4
    <3>3. CASE i \notin k + 1 .. k + x
      <4>1. i \in 1 .. k
        BY <3>3
      <4> QED BY <1>5, <2>1, <3>1, <3>3, <4>1
    <3> QED BY <3>2, <3>3
  <2>6. ASSUME NEW i \in 1 .. n + (d - x) PROVE plain'[i] = w[c + i]
    <3>1. CASE i <= n
      <4>1. i \in 1 .. n
        BY <3>1
      <4> QED BY <1>6, <2>1, <3>1, <4>1
    <3>2. CASE ~(i <= n)
      <4>1. PICK j \in 1 .. d - x : j = i - n
        BY <3>2
      <4>2. x + j \in 1 .. d /\ p + (x + j) = c + i
        BY <2>a, <4>1
      <4>3. plain'[i] = rest[j]
        BY <1>6, <3>2, <4>1
      <4>4. PICK m \in 1 .. d : m = x + j /\ p + m = c + i
        BY <4>2
      <4>5. rest[j] = data[m] /\ data[m] = w[p + m]
        BY <1>4, <2>1, <4>1, <4>4
      <4> QED BY <4>3, <4>4, <4>5
    <3> QED BY <3>1, <3>2
  <2>7. PICK pd \in Nat : pd = p + d /\ pd = p + Len(data)
    BY <1>1, <2>2
  <2>8. keylen' = IF pd <= KEYLEN THEN pd ELSE KEYLEN
    BY <1>1, <1>5, <2>3, <2>7
  <2>9. \A i \in 1 .. keylen' : key'[i] = w[i]
    BY <1>5, <2>5
  <2>10. Len(plain') = pd - keylen'
    <3>1. Len(plain') = n + (d - x)
      BY <1>6
    <3>2. keylen' = k + x /\ pd = p + d
      BY <1>5, <2>7
    <3>3. p \in Nat
      BY <2>1
    <3> QED BY <2>4, <3>1, <3>2, <3>3
  <2>11. \A i \in 1 .. Len(plain') : plain'[i] = w[KEYLEN + i]
    BY <1>1, <1>6, <2>6
  <2>12. Received(w, pd)'
    BY <2>8, <2>9, <2>10, <2>11 DEF Received
  <2> QED BY <2>7, <2>12
<1> QED BY <1>1, <1>6, <1>7, <1>9, <1>10 DEF Letters

-----------------------------------------------------------------------------
(* Every step *)

LEMMA StreamsTyped ==
    ASSUME TypeOK
    PROVE  /\ upstream \in Seq(Bytes) /\ unsent \in Seq(Bytes) /\ Up \in Seq(Bytes)
           /\ downstream \in Seq(Bytes) /\ cipher \in Seq(Bytes) /\ Down \in Seq(Bytes)
           /\ Up = <<>> <=> upstream = <<>> /\ unsent = <<>>
           /\ Down = <<>> <=> downstream = <<>> /\ cipher = <<>>
BY Joined, EmptyJoined DEF TypeOK, Up, Down

LEMMA InitHolds == Init => IInv
<1> SUFFICES ASSUME Init PROVE IInv
  OBVIOUS
<1>1. PICK b \in Bytes : key = [i \in Letters |-> b]
  BY DEF Init
<1>2. key \in [Letters -> Bytes]
  BY <1>1
<1>3. TypeOK
  BY <1>2, EmptyTyped, Constants DEF Init, TypeOK
<1>4. RoundInv
  <2>1. Up = <<>> /\ Down = <<>>
    BY <1>3, StreamsTyped DEF Init
  <2> QED BY <2>1 DEF Init, RoundInv, Idle
<1>5. SendInv
  BY DEF Init, SendInv
<1> QED BY <1>3, <1>4, <1>5 DEF IInv

\* The whole of w is left, or nothing of it has been received.
LEMMA AllLeft ==
    ASSUME NEW w \in Seq(Bytes)
    PROVE  IsLeft(w, w, 0)
<1>1. PICK n \in Nat : n = Len(w)
  BY LenProperties
<1>2. 0 + n = n /\ \A i \in 1 .. n : 0 + i = i
  OBVIOUS
<1> QED BY <1>1, <1>2 DEF IsLeft

LEMMA NothingReceived ==
    ASSUME NEW w, keylen' = 0, plain' = <<>>
    PROVE  Received(w, 0)'
<1>1. 0 <= KEYLEN /\ 0 - 0 = 0 /\ 0 \in Nat /\ Len(<<>>) = 0
  BY Constants, EmptyTyped
<1>2. \A i \in 1 .. 0 : FALSE
  OBVIOUS
<1> QED BY <1>1, <1>2 DEF Received

LEMMA SendFileStep ==
    ASSUME IInv, SendFile
    PROVE  IInv'
<1>1. TypeOK /\ SendInv /\ RoundInv
  BY DEF IInv
<1>2. PICK f \in Files, k \in Keys :
         /\ file' = [bytes |-> f, key |-> k]
         /\ torn' = (torn \/ NUL \in ToSet(f))
         /\ unsent' = (IF rounds = 0 THEN <<>> ELSE <<NUL>>) \o k \o f \o <<NUL>>
  BY DEF SendFile
<1>3. /\ c_pc = "ask" /\ rounds < MaxRounds /\ copy' = <<>> /\ c_pc' = "send"
      /\ rounds' = rounds + 1
      /\ UNCHANGED <<s_pc, key, keylen, plain, cipher, upstream, downstream>>
  BY DEF SendFile, server
<1>4. f \in Seq(Bytes)
  BY Constants
<1>5. k \in Seq(Bytes)
  BY KeyProperties
<1>6. <<NUL>> \in Seq(Bytes) /\ Len(<<NUL>>) = 1 /\ <<NUL>>[1] = NUL
  <2>1. PICK x \in Bytes : x = NUL
    BY Constants
  <2>2. <<x>> \in Seq(Bytes) /\ Len(<<x>>) = 1 /\ <<x>>[1] = x
    OBVIOUS
  <2> QED BY <2>1, <2>2
<1>7. PICK z \in Seq(Bytes) : z = IF rounds = 0 THEN <<>> ELSE <<NUL>>
  BY <1>6, EmptyTyped
<1>8. PICK w \in Seq(Bytes) : w = k \o f \o <<NUL>> /\ w # <<>>
  <2>1. k \o f \in Seq(Bytes)
    BY <1>4, <1>5, Joined
  <2>2. (k \o f) \o <<NUL>> \in Seq(Bytes) /\ <<NUL>> # <<>>
    BY <1>6, <2>1, Joined, EmptyTyped
  <2> QED BY <1>6, <2>1, <2>2, EmptyJoined
<1>9. unsent' = z \o w
  <2>1. k \o f \in Seq(Bytes)
    BY <1>4, <1>5, Joined
  <2>2. (z \o k) \o f = z \o (k \o f)
    BY <1>4, <1>5, ConcatAssociative
  <2>3. (z \o (k \o f)) \o <<NUL>> = z \o ((k \o f) \o <<NUL>>)
    BY <1>6, <2>1, ConcatAssociative
  <2> QED BY <1>2, <1>7, <1>8, <2>2, <2>3
<1>10. TypeOK'
  <2>1. z \o w \in Seq(Bytes)
    BY Joined
  <2>2. rounds' \in 0 .. MaxRounds
    BY <1>1, <1>3, Constants DEF TypeOK
  <2> QED BY <1>1, <1>3, <1>9, <2>1, <2>2, EmptyTyped DEF TypeOK
<1>a. SendInv'
  <2>1. unsent' # <<>>
    BY <1>8, <1>9, EmptyJoined
  <2> QED BY <1>1, <1>3, <2>1 DEF SendInv
<1>b. ASSUME Up = <<>> PROVE Up' = z \o w
  <2>1. upstream' = <<>>
    BY <1>1, <1>3, <1>b, StreamsTyped
  <2>2. upstream' \o unsent' = unsent'
    BY <1>9, <2>1, Joined, ConcatEmptySeq
  <2> QED BY <1>9, <2>2 DEF Up
<1>c. Down = <<>> => Down' = <<>>
  BY <1>3 DEF Down
<1>11. ASSUME ~torn' PROVE RoundInv'
  <2>1. ~torn /\ NUL \notin ToSet(f)
    BY <1>2, <1>11
  <2>2. FileOK' /\ Round' = w
    BY <1>2, <1>4, <1>8, <2>1 DEF FileOK, Round
  <2>3. EndsOnce(w)
    BY <1>4, <1>8, <2>1, RoundIs
  <2>5. rounds' > 0
    BY <1>1, <1>3, Constants DEF TypeOK
  <2>6. Idle \/ (Done /\ rounds > 0)
    BY <1>1, <1>3, <2>1 DEF RoundInv, Announced, Uploading, Uploaded, Downloading
  <2>7. CASE Idle
    <3>1. z = <<>>
      BY <1>7, <2>7 DEF Idle
    <3>2. Up' = w /\ Down' = <<>>
      BY <1>b, <1>c, <2>7, <3>1, ConcatEmptySeq DEF Idle
    <3>3. keylen' = 0 /\ plain' = <<>>
      BY <1>3, <2>7 DEF Idle
    <3>4. Received(w, 0)'
      BY <3>3, NothingReceived
    <3>5. IsLeft(Up', w, 0)
      BY <3>2, AllLeft
    <3>6. Uploading'
      BY <1>3, <1>8, <2>2, <2>7, <3>2, <3>4, <3>5 DEF Uploading, Idle
    <3> QED BY <2>2, <2>5, <3>6 DEF RoundInv
  <2>8. CASE Done /\ rounds > 0
    <3>1. rounds # 0
      BY <1>1, <2>8, Constants DEF TypeOK
    <3>2. z = <<NUL>>
      BY <1>7, <3>1
    <3>a. Up' = z \o w /\ Down' = <<>>
      BY <1>b, <1>c, <2>8 DEF Done
    <3>3. Up' # <<>> /\ Tail(Up') = w
      <4>1. PICK n \in Nat : n = Len(w)
        BY LenProperties
      <4>2. PICK u \in Seq(Bytes) :
               /\ u = Up' /\ Len(u) = n + 1
               /\ \A i \in 1 .. n + 1 : u[i] = IF i <= 1 THEN z[i] ELSE w[i - 1]
        <5>1. /\ z \o w \in Seq(Bytes) /\ Len(z \o w) = Len(z) + Len(w)
              /\ \A i \in 1 .. Len(z) + Len(w) :
                   (z \o w)[i] = IF i <= Len(z) THEN z[i] ELSE w[i - Len(z)]
          BY ConcatProperties
        <5>2. Len(z) = 1 /\ 1 + n = n + 1
          BY <1>6, <3>2
        <5> QED BY <3>a, <4>1, <5>1, <5>2
      <4>3. u # <<>>
        BY <4>2, EmptyTyped
      <4>4. /\ Tail(u) \in Seq(Bytes) /\ Len(Tail(u)) = n
            /\ \A i \in 1 .. n : Tail(u)[i] = u[i + 1]
        <5>1. n + 1 - 1 = n
          OBVIOUS
        <5>2. /\ Tail(u) \in Seq(Bytes) /\ Len(Tail(u)) = Len(u) - 1
              /\ \A i \in 1 .. Len(u) - 1 : Tail(u)[i] = u[i + 1]
          BY <4>3, HeadTailProperties
        <5> QED BY <4>2, <5>1, <5>2
      <4>5. \A i \in 1 .. n : Tail(u)[i] = w[i]
        <5>1. \A i \in 1 .. n : i + 1 \in 1 .. n + 1 /\ ~(i + 1 <= 1) /\ i + 1 - 1 = i
          OBVIOUS
        <5> QED BY <4>2, <4>4, <5>1
      <4>6. Tail(u) = w
        BY <4>1, <4>4, <4>5, SeqEqual
      <4> QED BY <4>2, <4>3, <4>6
    <3>4. IsLeft(Tail(Up'), w, 0)
      BY <3>3, AllLeft
    <3>5. Announced'
      BY <1>3, <2>2, <2>8, <3>3, <3>4, <3>a DEF Announced, Done
    <3> QED BY <2>2, <2>5, <3>5 DEF RoundInv
  <2> QED BY <2>6, <2>7, <2>8
<1>12. RoundInv'
  BY <1>11 DEF RoundInv
<1> QED BY <1>10, <1>12, <1>a DEF IInv

LEMMA SendByteStep ==
    ASSUME IInv, SendByte
    PROVE  IInv'
<1>1. TypeOK /\ SendInv /\ RoundInv
  BY DEF IInv
<1>2. /\ c_pc = "send" /\ upstream' = Append(upstream, Head(unsent)) /\ unsent' = Tail(unsent)
      /\ c_pc' = (IF Tail(unsent) = <<>> THEN "receive" ELSE "send")
      /\ UNCHANGED <<file, copy, s_pc, key, keylen, plain, cipher, downstream, rounds, torn>>
  BY DEF SendByte, server
<1>3. upstream \in Seq(Bytes) /\ unsent \in Seq(Bytes) /\ unsent # <<>>
  BY <1>1, <1>2 DEF TypeOK, SendInv
<1>4. upstream' \in Seq(Bytes) /\ unsent' \in Seq(Bytes) /\ Up' = Up
  BY <1>2, <1>3, ByteMoves DEF Up
<1>5. TypeOK'
  BY <1>1, <1>2, <1>4 DEF TypeOK
<1>6. SendInv'
  BY <1>1, <1>2 DEF SendInv
<1>7. Down' = Down
  BY <1>2 DEF Down
<1>8. ASSUME ~torn' PROVE RoundInv'
  <2>1. FileOK /\ rounds > 0 /\ (Announced \/ Uploading)
    BY <1>1, <1>2, <1>8 DEF RoundInv, Idle, Uploaded, Downloading, Done
  <2>2. FileOK' /\ rounds' > 0 /\ Round' = Round
    BY <1>2, <2>1 DEF FileOK, Round
  <2>3. CASE Announced
    <3>1. Announced'
      BY <1>2, <1>4, <1>7, <2>2, <2>3 DEF Announced
    <3> QED BY <2>2, <3>1 DEF RoundInv
  <2>4. CASE Uploading
    <3>1. PICK w, p : p \in Nat /\ w = Round /\ IsLeft(Up, w, p) /\ Received(w, p)
      BY <2>4 DEF Uploading
    <3>2. Received(w, p)'
      BY <1>2, <3>1 DEF Received
    <3>3. Uploading'
      BY <1>2, <1>4, <1>7, <2>2, <2>4, <3>1, <3>2 DEF Uploading
    <3> QED BY <2>2, <3>3 DEF RoundInv
  <2> QED BY <2>1, <2>3, <2>4
<1>9. RoundInv'
  BY <1>8 DEF RoundInv
<1> QED BY <1>5, <1>6, <1>9 DEF IInv

LEMMA ReplyIs ==
    ASSUME FileOK
    PROVE  /\ Reply \in Seq(Bytes) /\ EndsOnce(Reply)
           /\ Encrypted(file.bytes, file.key) \in Seq(Bytes)
           /\ Len(Reply) = Len(Encrypted(file.bytes, file.key)) + 1
           /\ \A i \in 1 .. Len(Encrypted(file.bytes, file.key)) :
                Reply[i] = Encrypted(file.bytes, file.key)[i]
<1>1. file.bytes \in Seq(Bytes) /\ NUL \notin ToSet(file.bytes) /\ file.key \in Keys
  BY DEF FileOK
<1>2. file.key \in [Letters -> Bytes]
  BY <1>1, KeyProperties, Constants
<1>3. PICK e \in Seq(Bytes) : e = Encrypted(file.bytes, file.key) /\ NUL \notin ToSet(e)
  BY <1>1, <1>2, EncryptedIs
<1> QED BY <1>3, NulEnds DEF Reply

\* Nothing is received from an empty stream.
LEMMA RecvNonempty ==
    ASSUME NEW n, Recv(<<>>, n) # {}, n \in Nat
    PROVE  FALSE
<1>1. \A k \in 1 .. Min({n, 0}) : FALSE
  BY MinOfTwo
<1> QED BY <1>1, EmptyTyped DEF Recv

LEMMA ReceiveCopyStep ==
    ASSUME IInv, ReceiveCopy
    PROVE  IInv'
<1>1. TypeOK /\ SendInv /\ RoundInv
  BY DEF IInv
<1>2. PICK chunk \in Recv(downstream, MAXBUFLEN) :
         /\ downstream' = After(downstream, chunk)
         /\ copy' = copy \o Before(NUL, chunk)
         /\ c_pc' = IF NUL \in ToSet(chunk) THEN "ask" ELSE "receive"
  BY DEF ReceiveCopy
<1>3. /\ c_pc = "receive"
      /\ UNCHANGED <<file, unsent, s_pc, key, keylen, plain, cipher, upstream, rounds, torn>>
  BY DEF ReceiveCopy, server
<1>4. PICK data \in Seq(Bytes), rest \in Seq(Bytes) :
         /\ data = Before(NUL, chunk) /\ rest = After(Down, chunk)
         /\ Down' = rest /\ downstream' \in Seq(Bytes) /\ chunk \in Recv(Down, MAXBUFLEN)
  <2>1. downstream \in Seq(Bytes) /\ cipher \in Seq(Bytes)
    BY <1>1 DEF TypeOK
  <2>2. chunk \in Seq(Bytes) /\ After(downstream, chunk) \in Seq(Bytes)
    BY <2>1, Constants, RecvIs
  <2>3. /\ chunk \in Recv(downstream \o cipher, MAXBUFLEN)
        /\ After(downstream \o cipher, chunk) = After(downstream, chunk) \o cipher
    BY <2>1, Constants, RecvOfMore
  <2>4. /\ chunk \in Recv(Down, MAXBUFLEN) /\ After(Down, chunk) = Down'
        /\ After(downstream, chunk) \o cipher \in Seq(Bytes)
    BY <1>2, <1>3, <2>1, <2>2, <2>3, Joined DEF Down
  <2>5. After(Down, chunk) \in Seq(Bytes)
    BY <1>2, <1>3, <2>4 DEF Down
  <2>6. Before(NUL, chunk) \in Seq(Bytes)
    BY <2>2, BeforeIs
  <2> QED BY <1>2, <2>2, <2>4, <2>5, <2>6
<1>5. copy' \in Seq(Bytes)
  BY <1>1, <1>2, <1>4, Joined DEF TypeOK
<1>a. SendInv'
  BY <1>1, <1>2, <1>3 DEF SendInv
<1>b. Up' = Up
  BY <1>3 DEF Up
<1>6. TypeOK'
  BY <1>1, <1>2, <1>3, <1>4, <1>5 DEF TypeOK
<1>7. ASSUME ~torn' PROVE RoundInv'
  <2>1. FileOK /\ rounds > 0 /\ Downloading
    <3>1. Down # <<>>
      BY <1>4, Constants, RecvNonempty
    <3> QED BY <1>1, <1>3, <1>7, <3>1
              DEF RoundInv, Idle, Announced, Uploading, Uploaded, Done
  <2>2. PICK e \in Seq(Bytes), w \in Seq(Bytes), l \in Nat :
           /\ e = Encrypted(file.bytes, file.key) /\ w = Reply /\ l = Len(e)
           /\ EndsOnce(w) /\ Len(w) = l + 1 /\ \A i \in 1 .. l : w[i] = e[i]
    BY <2>1, ReplyIs, LenProperties
  <2>3. PICK p \in Nat : IsLeft(Down, w, p) /\ Copied(w, p)
    BY <2>1, <2>2 DEF Downloading
  <2>4. PICK d \in Nat :
           /\ d = Len(data) /\ IsNext(data, w, p)
           /\ NUL \in ToSet(chunk) => rest = <<>> /\ p + d + 1 = Len(w)
           /\ NUL \notin ToSet(chunk) => rest # <<>> /\ IsLeft(rest, w, p + d)
    <3>1. Down \in Seq(Bytes)
      BY <1>1, StreamsTyped
    <3>2. EndsOnce(w) /\ p \in Nat /\ IsLeft(Down, w, p)
      BY <2>2, <2>3
    <3>3. /\ Before(NUL, chunk) \in Seq(Bytes) /\ Len(Before(NUL, chunk)) \in Nat
          /\ IsNext(Before(NUL, chunk), w, p)
          /\ NUL \in ToSet(chunk)
               => After(Down, chunk) = <<>> /\ p + Len(Before(NUL, chunk)) + 1 = Len(w)
          /\ NUL \notin ToSet(chunk)
               => /\ After(Down, chunk) # <<>>
                  /\ IsLeft(After(Down, chunk), w, p + Len(Before(NUL, chunk)))
      BY <1>4, <3>1, <3>2, Constants, ReadPart
    <3> QED BY <1>4, <3>3
  <2>5. PICK new \in Seq(Bytes) :
           /\ new = copy' /\ Len(new) = p + d
           /\ \A i \in 1 .. p + d : new[i] = w[i]
    <3>1. copy \in Seq(Bytes) /\ Len(copy) = p /\ \A i \in 1 .. p : copy[i] = w[i]
      BY <1>1, <2>3 DEF TypeOK, Copied
    <3>2. /\ Len(copy \o data) = p + d
          /\ \A i \in 1 .. p + d : (copy \o data)[i] = IF i <= p THEN copy[i] ELSE data[i - p]
      <4>1. /\ Len(copy \o data) = Len(copy) + Len(data)
            /\ \A i \in 1 .. Len(copy) + Len(data) :
                 (copy \o data)[i] = IF i <= Len(copy) THEN copy[i] ELSE data[i - Len(copy)]
        BY <3>1, ConcatProperties
      <4> QED BY <2>4, <3>1, <4>1
    <3>3. \A j \in 1 .. d : data[j] = w[p + j]
      BY <2>4 DEF IsNext
    <3>4. ASSUME NEW i \in 1 .. p + d PROVE (copy \o data)[i] = w[i]
      <4>1. CASE i <= p
        <5>1. i \in 1 .. p
          BY <4>1
        <5> QED BY <3>1, <3>2, <4>1, <5>1
      <4>2. CASE ~(i <= p)
        <5>1. PICK j \in 1 .. d : j = i - p /\ p + j = i
          BY <4>2
        <5> QED BY <3>2, <3>3, <4>2, <5>1
      <4> QED BY <4>1, <4>2
    <3> QED BY <1>2, <1>4, <1>5, <3>2, <3>4
  <2>6. FileOK' /\ rounds' > 0 /\ Reply' = w
    BY <1>3, <2>1, <2>2 DEF FileOK, Reply
  <2>7. s_pc' \in {"send", "wait"} /\ Up' = <<>> /\ Down' = rest
    BY <1>3, <1>4, <1>b, <2>1 DEF Downloading
  <2>8. CASE NUL \in ToSet(chunk)
    <3>1. p + d = l
      BY <2>2, <2>4, <2>8
    <3>2. copy' = e
      <4>1. Len(new) = Len(e) /\ \A i \in 1 .. Len(new) : new[i] = e[i]
        BY <2>2, <2>5, <3>1
      <4> QED BY <2>5, <4>1, SeqEqual
    <3>3. e = Encrypted(file.bytes, file.key)' /\ c_pc' = "ask" /\ rest = <<>>
      BY <1>2, <1>3, <2>2, <2>4, <2>8
    <3>a. cipher' = <<>>
      <4>1. downstream' \in Seq(Bytes) /\ cipher' \in Seq(Bytes)
        BY <1>6 DEF TypeOK
      <4>2. downstream' \o cipher' = <<>>
        BY <2>7, <3>3 DEF Down
      <4> QED BY <4>1, <4>2, EmptyJoined
    <3>b. s_pc' = "wait"
      BY <1>a, <2>7, <3>a DEF SendInv
    <3>4. Done'
      BY <2>7, <3>2, <3>3, <3>b DEF Done
    <3> QED BY <2>6, <3>4 DEF RoundInv
  <2>9. CASE NUL \notin ToSet(chunk)
    <3>1. PICK q \in Nat : q = p + d
      OBVIOUS
    <3>2. Copied(w, q)'
      BY <2>5, <3>1 DEF Copied
    <3>3. c_pc' = "receive" /\ rest # <<>> /\ IsLeft(rest, w, q)
      BY <1>2, <2>4, <2>9, <3>1
    <3>4. Downloading'
      BY <2>6, <2>7, <3>2, <3>3 DEF Downloading
    <3> QED BY <2>6, <3>4 DEF RoundInv
  <2> QED BY <2>8, <2>9
<1>8. RoundInv'
  BY <1>7 DEF RoundInv
<1> QED BY <1>6, <1>8, <1>a DEF IInv

LEMMA CloseStep ==
    ASSUME IInv, Close
    PROVE  IInv'
<1>1. TypeOK /\ SendInv
  BY DEF IInv
<1>2. /\ c_pc' = "closed" /\ copy' = <<>> /\ unsent' = <<>> /\ downstream' = <<>>
      /\ upstream' \in Prefixes(upstream)
      /\ UNCHANGED <<s_pc, key, keylen, plain, cipher, rounds>>
  BY DEF Close, server
<1>3. upstream' \in Seq(Bytes)
  <2>1. PICK x \in 0 .. Len(upstream) : upstream' = SubSeq(upstream, 1, x)
    BY <1>2 DEF Prefixes
  <2>2. upstream \in Seq(Bytes) /\ Len(upstream) \in Nat
    BY <1>1, LenProperties DEF TypeOK
  <2>3. x \in Nat /\ x <= Len(upstream)
    BY <2>2
  <2> QED BY <2>1, <2>2, <2>3, FirstPart
<1>4. TypeOK'
  BY <1>1, <1>2, <1>3, EmptyTyped DEF TypeOK
<1>5. SendInv'
  BY <1>1, <1>2 DEF SendInv
<1> QED BY <1>2, <1>4, <1>5 DEF IInv, RoundInv

LEMMA ReceiveFileStep ==
    ASSUME IInv, ReceiveFile
    PROVE  IInv'
<1>1. TypeOK /\ SendInv /\ RoundInv
  BY DEF IInv
<1>2. PICK chunk \in Recv(upstream, MAXBUFLEN) :
         /\ upstream' = After(upstream, chunk)
         /\ KeyThenFile(Before(NUL, chunk))
         /\ s_pc' = IF NUL \in ToSet(chunk) THEN "encrypt" ELSE "receive"
  BY DEF ReceiveFile, Ends
<1>3. s_pc = "receive" /\ UNCHANGED <<c_pc, file, copy, unsent, cipher, downstream, rounds, torn>>
  BY DEF ReceiveFile, client
<1>4. PICK data \in Seq(Bytes), rest \in Seq(Bytes) :
         /\ data = Before(NUL, chunk) /\ rest = After(Up, chunk)
         /\ Up' = rest /\ upstream' \in Seq(Bytes) /\ chunk \in Recv(Up, MAXBUFLEN)
  <2>1. upstream \in Seq(Bytes) /\ unsent \in Seq(Bytes)
    BY <1>1 DEF TypeOK
  <2>2. chunk \in Seq(Bytes) /\ After(upstream, chunk) \in Seq(Bytes)
    BY <2>1, Constants, RecvIs
  <2>3. /\ chunk \in Recv(upstream \o unsent, MAXBUFLEN)
        /\ After(upstream \o unsent, chunk) = After(upstream, chunk) \o unsent
    BY <2>1, Constants, RecvOfMore
  <2>4. /\ chunk \in Recv(Up, MAXBUFLEN) /\ After(Up, chunk) = Up'
        /\ After(upstream, chunk) \o unsent \in Seq(Bytes)
    BY <1>2, <1>3, <2>1, <2>2, <2>3, Joined DEF Up
  <2>5. After(Up, chunk) \in Seq(Bytes)
    BY <1>2, <1>3, <2>4 DEF Up
  <2>6. Before(NUL, chunk) \in Seq(Bytes)
    BY <2>2, BeforeIs
  <2> QED BY <1>2, <2>2, <2>4, <2>5, <2>6
<1>a. SendInv'
  BY <1>1, <1>2, <1>3 DEF SendInv
<1>b. Down' = Down
  BY <1>3 DEF Down
<1>5. /\ key' \in [Letters -> Bytes] /\ keylen' \in 0 .. KEYLEN /\ plain' \in Seq(Bytes)
      /\ \A w, p : Received(w, p) /\ IsNext(data, w, p) => Received(w, p + Len(data))'
  BY <1>1, <1>2, <1>4, KeyThenFileStep
<1>6. TypeOK'
  BY <1>1, <1>2, <1>3, <1>4, <1>5 DEF TypeOK
<1>7. ASSUME c_pc' # "closed", ~torn' PROVE RoundInv'
  <2>1. FileOK /\ rounds > 0 /\ Uploading
    <3>1. Up # <<>>
      BY <1>4, Constants, RecvNonempty
    <3> QED BY <1>1, <1>3, <1>7, <3>1
              DEF RoundInv, Idle, Announced, Uploaded, Downloading, Done
  <2>a. PICK f \in Seq(Bytes), k \in Keys, n \in Nat, c \in Nat, w \in Seq(Bytes) :
           /\ f = file.bytes /\ k = file.key /\ n = Len(f) /\ c = KEYLEN
           /\ w = Round /\ EndsOnce(w) /\ Holds(w, k, f)
    <3>1. file.bytes \in Seq(Bytes) /\ NUL \notin ToSet(file.bytes) /\ file.key \in Keys
      BY <2>1 DEF FileOK
    <3>2. PICK f \in Seq(Bytes), k \in Keys, n \in Nat, c \in Nat :
             f = file.bytes /\ k = file.key /\ n = Len(f) /\ c = KEYLEN
      BY <3>1, LenProperties, Constants
    <3>3. PICK w : w = k \o f \o <<NUL>>
      OBVIOUS
    <3>4. w = Round /\ NUL \notin ToSet(f)
      BY <3>1, <3>2, <3>3 DEF Round
    <3>5. w \in Seq(Bytes) /\ EndsOnce(w) /\ Holds(w, k, f)
      BY <3>3, <3>4, RoundIs
    <3> QED BY <3>2, <3>4, <3>5
  <2>2. /\ f = file.bytes /\ k = file.key /\ w = Round /\ n = Len(f) /\ c = KEYLEN
        /\ EndsOnce(w) /\ Len(w) = c + n + 1
        /\ \A i \in 1 .. c : w[i] = k[i]
        /\ \A i \in 1 .. n : w[c + i] = f[i]
    BY <2>a DEF Holds
  <2>3. PICK p \in Nat : IsLeft(Up, w, p) /\ Received(w, p)
    BY <2>1, <2>2 DEF Uploading
  <2>4. PICK d \in Nat :
           /\ d = Len(data) /\ IsNext(data, w, p)
           /\ NUL \in ToSet(chunk) => rest = <<>> /\ p + d + 1 = Len(w)
           /\ NUL \notin ToSet(chunk) => rest # <<>> /\ IsLeft(rest, w, p + d)
    <3>1. Up \in Seq(Bytes)
      BY <1>1, StreamsTyped
    <3>2. EndsOnce(w) /\ p \in Nat /\ IsLeft(Up, w, p)
      BY <2>2, <2>3
    <3>3. /\ Before(NUL, chunk) \in Seq(Bytes) /\ Len(Before(NUL, chunk)) \in Nat
          /\ IsNext(Before(NUL, chunk), w, p)
          /\ NUL \in ToSet(chunk)
               => After(Up, chunk) = <<>> /\ p + Len(Before(NUL, chunk)) + 1 = Len(w)
          /\ NUL \notin ToSet(chunk)
               => /\ After(Up, chunk) # <<>>
                  /\ IsLeft(After(Up, chunk), w, p + Len(Before(NUL, chunk)))
      BY <1>4, <3>1, <3>2, Constants, ReadPart
    <3> QED BY <1>4, <3>3
  <2>5. PICK q \in Nat : q = p + d /\ Received(w, q)'
    <3>1. PICK q \in Nat : q = p + d
      OBVIOUS
    <3> QED BY <1>5, <2>3, <2>4, <3>1
  <2>6. FileOK' /\ rounds' > 0 /\ Round' = w /\ file' = file
    BY <1>3, <2>1, <2>2 DEF FileOK, Round
  <2>7. c_pc' \in {"send", "receive"} /\ copy' = <<>> /\ Down' = <<>> /\ Up' = rest
    BY <1>3, <1>4, <1>b, <2>1 DEF Uploading
  <2>8. CASE NUL \in ToSet(chunk)
    <3>1. q = c + n
      <4>1. q = p + d /\ p + d + 1 = c + n + 1
        BY <2>2, <2>4, <2>5, <2>8
      <4> QED BY <4>1
    <3>2. keylen' = c /\ Len(plain') = n
      <4>1. keylen' = (IF q <= c THEN q ELSE c) /\ Len(plain') = q - keylen'
        BY <2>2, <2>5 DEF Received
      <4>2. (IF q <= c THEN q ELSE c) = c /\ q - c = n
        BY <3>1
      <4> QED BY <4>1, <4>2
    <3>3. \A i \in 1 .. c : key'[i] = k[i]
      BY <2>2, <2>5, <3>2 DEF Received
    <3>4. \A i \in 1 .. n : plain'[i] = f[i]
      BY <2>2, <2>5, <3>2 DEF Received
    <3>5. key' = k
      <4>1. k \in [1 .. c -> Letters] /\ key' \in [1 .. c -> Bytes]
        BY <1>5, <2>2, KeyProperties DEF Letters
      <4> QED BY <3>3, <4>1
    <3>6. plain' = f
      <4>1. PICK g \in Seq(Bytes) : g = plain'
        BY <1>5
      <4>2. Len(g) = Len(f) /\ \A i \in 1 .. Len(g) : g[i] = f[i]
        BY <2>2, <3>2, <3>4, <4>1
      <4>3. g = f
        BY <4>2, SeqEqual
      <4> QED BY <4>1, <4>3
    <3>7. s_pc' = "encrypt" /\ rest = <<>>
      BY <1>2, <2>4, <2>8
    <3>a. unsent' = <<>>
      <4>1. upstream' \in Seq(Bytes) /\ unsent' \in Seq(Bytes)
        BY <1>6 DEF TypeOK
      <4>2. upstream' \o unsent' = <<>>
        BY <2>7, <3>7 DEF Up
      <4> QED BY <4>1, <4>2, EmptyJoined
    <3>b. c_pc' = "receive"
      BY <1>a, <2>7, <3>a DEF SendInv
    <3>8. Uploaded'
      BY <2>2, <2>6, <2>7, <3>5, <3>6, <3>7, <3>b DEF Uploaded
    <3> QED BY <2>6, <3>8 DEF RoundInv
  <2>9. CASE NUL \notin ToSet(chunk)
    <3>1. s_pc' = "receive" /\ rest # <<>> /\ IsLeft(rest, w, q)
      BY <1>2, <2>4, <2>5, <2>9
    <3>2. Uploading'
      BY <2>5, <2>6, <2>7, <3>1 DEF Uploading
    <3> QED BY <2>6, <3>2 DEF RoundInv
  <2> QED BY <2>8, <2>9
<1>8. RoundInv'
  BY <1>7 DEF RoundInv
<1> QED BY <1>6, <1>8, <1>a DEF IInv

LEMMA EncryptStep ==
    ASSUME IInv, Encrypt
    PROVE  IInv'
<1>1. TypeOK /\ SendInv /\ RoundInv
  BY DEF IInv
<1>2. /\ s_pc = "encrypt" /\ s_pc' = "send"
      /\ cipher' = Encrypted(plain, key) \o <<NUL>>
      /\ UNCHANGED <<c_pc, file, copy, unsent, key, keylen, plain>>
      /\ UNCHANGED <<upstream, downstream, rounds, torn>>
  BY DEF Encrypt, client
<1>3. <<NUL>> \in Seq(Bytes) /\ <<NUL>> # <<>>
  <2>1. PICK x \in Bytes : x = NUL
    BY Constants
  <2>2. <<x>> \in Seq(Bytes) /\ <<x>> # <<>>
    OBVIOUS
  <2> QED BY <2>1, <2>2
<1>4. Encrypted(plain, key) \in Seq(Bytes)
  BY <1>1, EncryptedIs DEF TypeOK
<1>5. cipher' \in Seq(Bytes) /\ cipher' # <<>>
  BY <1>2, <1>3, <1>4, Joined, EmptyJoined
<1>6. TypeOK'
  BY <1>1, <1>2, <1>5 DEF TypeOK
<1>7. SendInv'
  BY <1>1, <1>2, <1>5 DEF SendInv
<1>8. ASSUME c_pc' # "closed", ~torn' PROVE RoundInv'
  <2>1. FileOK /\ rounds > 0 /\ Uploaded
    BY <1>1, <1>2, <1>8 DEF RoundInv, Idle, Announced, Uploading, Downloading, Done
  <2>2. PICK w \in Seq(Bytes) : w = Reply /\ EndsOnce(w)
    BY <2>1, ReplyIs
  <2>3. Encrypted(plain, key) \o <<NUL>> = w
    BY <2>1, <2>2 DEF Uploaded, Reply
  <2>4. Down' = w
    <3>1. downstream = <<>>
      BY <1>1, <2>1, StreamsTyped DEF Uploaded
    <3>2. downstream \o w = w
      BY <3>1, ConcatEmptySeq
    <3> QED BY <1>2, <2>3, <3>2 DEF Down
  <2>5. FileOK' /\ rounds' > 0 /\ Reply' = w
    BY <1>2, <2>1, <2>2 DEF FileOK, Reply
  <2>6. c_pc' = "receive" /\ copy' = <<>> /\ Up' = <<>>
    BY <1>2, <2>1 DEF Uploaded, Up
  <2>7. w # <<>>
    BY <2>2, EmptyTyped DEF EndsOnce
  <2>8. Copied(w, 0)'
    <3>1. \A i \in 1 .. 0 : FALSE
      OBVIOUS
    <3> QED BY <2>6, <3>1, EmptyTyped DEF Copied
  <2>9. IsLeft(w, w, 0)
    BY AllLeft
  <2>10. Downloading'
    BY <1>2, <2>4, <2>5, <2>6, <2>7, <2>8, <2>9 DEF Downloading
  <2> QED BY <2>5, <2>10 DEF RoundInv
<1>9. RoundInv'
  BY <1>8 DEF RoundInv
<1> QED BY <1>6, <1>7, <1>9 DEF IInv

LEMMA SendCipherStep ==
    ASSUME IInv, SendCipher
    PROVE  IInv'
<1>1. TypeOK /\ SendInv /\ RoundInv
  BY DEF IInv
<1>2. s_pc = "send"
      /\ UNCHANGED <<c_pc, file, copy, unsent, key, keylen, plain, upstream, rounds, torn>>
  BY DEF SendCipher, client
<1>3. CASE /\ downstream' = Append(downstream, Head(cipher)) /\ cipher' = Tail(cipher)
           /\ s_pc' = IF Tail(cipher) = <<>> THEN "wait" ELSE "send"
  <2>1. downstream \in Seq(Bytes) /\ cipher \in Seq(Bytes) /\ cipher # <<>>
    BY <1>1, <1>2 DEF TypeOK, SendInv
  <2>2. downstream' \in Seq(Bytes) /\ cipher' \in Seq(Bytes) /\ Down' = Down
    BY <1>3, <2>1, ByteMoves DEF Down
  <2>3. TypeOK'
    BY <1>1, <1>2, <1>3, <2>2 DEF TypeOK
  <2>4. SendInv'
    BY <1>1, <1>2, <1>3 DEF SendInv
  <2>5. Up' = Up
    BY <1>2 DEF Up
  <2>6. ASSUME c_pc' # "closed", ~torn' PROVE RoundInv'
    <3>1. FileOK /\ rounds > 0 /\ Downloading
      BY <1>1, <1>2, <2>6 DEF RoundInv, Idle, Announced, Uploading, Uploaded, Done
    <3>2. FileOK' /\ rounds' > 0 /\ Reply' = Reply
      BY <1>2, <3>1 DEF FileOK, Reply
    <3>3. PICK w, p : p \in Nat /\ w = Reply /\ IsLeft(Down, w, p) /\ Copied(w, p)
      BY <3>1 DEF Downloading
    <3>4. Copied(w, p)'
      BY <1>2, <3>3 DEF Copied
    <3>5. s_pc' \in {"send", "wait"}
      BY <1>3
    <3>6. Downloading'
      BY <1>2, <2>2, <2>5, <3>1, <3>2, <3>3, <3>4, <3>5 DEF Downloading
    <3> QED BY <3>2, <3>6 DEF RoundInv
  <2>7. RoundInv'
    BY <2>6 DEF RoundInv
  <2> QED BY <2>3, <2>4, <2>7 DEF IInv
<1>4. CASE /\ c_pc = "closed" /\ s_pc' \in {"wait", "exited"}
           /\ cipher' = <<>> /\ UNCHANGED downstream
  <2>1. TypeOK'
    BY <1>1, <1>2, <1>4, EmptyTyped DEF TypeOK
  <2>2. SendInv'
    BY <1>1, <1>2, <1>4 DEF SendInv
  <2> QED BY <1>2, <1>4, <2>1, <2>2 DEF IInv, RoundInv
<1> QED BY <1>3, <1>4 DEF SendCipher

LEMMA NextRoundStep ==
    ASSUME IInv, NextRound
    PROVE  IInv'
<1>1. TypeOK /\ SendInv /\ RoundInv
  BY DEF IInv
<1>2. /\ s_pc = "wait" /\ upstream # <<>> /\ upstream' = Tail(upstream)
      /\ s_pc' = "receive" /\ keylen' = 0 /\ plain' = <<>>
      /\ UNCHANGED <<key, cipher, c_pc, file, copy, unsent, downstream, rounds, torn>>
  BY DEF NextRound, NewRound, WithoutByte, client
<1>3. PICK rest \in Seq(Bytes) : rest = Tail(Up) /\ Up' = rest /\ upstream' \in Seq(Bytes)
  <2>1. upstream \in Seq(Bytes) /\ unsent \in Seq(Bytes)
    BY <1>1 DEF TypeOK
  <2>2. Tail(upstream) \in Seq(Bytes) /\ Tail(upstream) \o unsent = Tail(upstream \o unsent)
    BY <1>2, <2>1, TailOfMore
  <2>3. Tail(upstream) \o unsent \in Seq(Bytes)
    BY <2>1, <2>2, Joined
  <2> QED BY <1>2, <2>2, <2>3 DEF Up
<1>a. SendInv'
  BY <1>1, <1>2 DEF SendInv
<1>b. Down' = Down
  BY <1>2 DEF Down
<1>4. TypeOK'
  BY <1>1, <1>2, <1>3, EmptyTyped, Constants DEF TypeOK
<1>5. ASSUME c_pc' # "closed", ~torn' PROVE RoundInv'
  <2>1. FileOK /\ rounds > 0 /\ Announced
    <3>1. Up # <<>>
      BY <1>1, <1>2, StreamsTyped
    <3> QED BY <1>1, <1>2, <1>5, <3>1 DEF RoundInv, Idle, Uploading, Uploaded, Downloading, Done
  <2>2. PICK w \in Seq(Bytes) : w = Round /\ EndsOnce(w)
    BY <2>1, RoundIs DEF FileOK, Round
  <2>3. FileOK' /\ rounds' > 0 /\ Round' = w
    BY <1>2, <2>1, <2>2 DEF FileOK, Round
  <2>4. Received(w, 0)'
    BY <1>2, NothingReceived
  <2>5. IsLeft(rest, w, 0)
    BY <1>3, <2>1, <2>2 DEF Announced
  <2>6. rest # <<>>
    <3>1. 0 + Len(rest) = Len(w) /\ Len(w) > 0 /\ Len(rest) \in Nat
      BY <2>2, <2>5, LenProperties DEF IsLeft, EndsOnce
    <3> QED BY <3>1, EmptyTyped
  <2>7. c_pc' \in {"send", "receive"} /\ copy' = <<>> /\ Down' = <<>>
    BY <1>2, <1>b, <2>1 DEF Announced
  <2>8. Uploading'
    BY <1>2, <1>3, <2>3, <2>4, <2>5, <2>6, <2>7 DEF Uploading
  <2> QED BY <2>3, <2>8 DEF RoundInv
<1>6. RoundInv'
  BY <1>5 DEF RoundInv
<1> QED BY <1>4, <1>6, <1>a DEF IInv

LEMMA HangupStep ==
    ASSUME IInv, Hangup
    PROVE  IInv'
<1>1. /\ c_pc' = "closed" /\ s_pc' = "exited"
      /\ s_pc \in {"receive", "wait"}
      /\ UNCHANGED <<c_pc, copy, unsent, key, keylen, plain, cipher, upstream, downstream, rounds>>
  BY DEF Hangup, client
<1>2. TypeOK'
  BY <1>1 DEF IInv, TypeOK
<1>3. SendInv'
  BY <1>1 DEF IInv, SendInv
<1> QED BY <1>1, <1>2, <1>3 DEF IInv, RoundInv

LEMMA NextKeeps == IInv /\ [Next]_vars => IInv'
<1> SUFFICES ASSUME IInv, [Next]_vars PROVE IInv'
  OBVIOUS
<1>1. CASE SendFile
  BY <1>1, SendFileStep
<1>2. CASE ReceiveCopy
  BY <1>2, ReceiveCopyStep
<1>3. CASE Close
  BY <1>3, CloseStep
<1>4. CASE ReceiveFile
  BY <1>4, ReceiveFileStep
<1>5. CASE SendCipher
  BY <1>5, SendCipherStep
<1>6. CASE NextRound
  BY <1>6, NextRoundStep
<1>7. CASE Hangup
  BY <1>7, HangupStep
<1>9. CASE SendByte
  BY <1>9, SendByteStep
<1>10. CASE Encrypt
  BY <1>10, EncryptStep
<1>8. CASE UNCHANGED vars
  BY <1>8 DEF vars, client, server, IInv, TypeOK, SendInv, Up, Down, RoundInv, FileOK, Idle, Announced, Uploading,
              Uploaded, Downloading, Done, Round, Reply, Received, Copied
<1> QED BY <1>1, <1>2, <1>3, <1>4, <1>5, <1>6, <1>7, <1>8, <1>9, <1>10 DEF Next, Child

-----------------------------------------------------------------------------
(* Theorems *)

\* Every reachable state of a connection satisfies the inductive invariant.
THEOREM Invariance == Spec => []IInv
<1> QED BY InitHolds, NextKeeps, PTL DEF Spec

\* Every variable keeps its type, whatever bytes the files are made of.
THEOREM TypeCorrectness == Spec => []TypeOK
<1>1. IInv => TypeOK
  BY DEF IInv
<1> QED BY <1>1, Invariance, PTL

\* However TCP cuts the streams into pieces, the client has each file back whole,
\* encrypted with the key of its round, unless a file had a NUL in it.
THEOREM CopiesAreRight == Spec => []CopyIsRight
<1>1. IInv => CopyIsRight
  <2> SUFFICES ASSUME IInv, c_pc = "ask", rounds > 0, ~torn
               PROVE  /\ copy = Encrypted(file.bytes, file.key)
                      /\ upstream = <<>> /\ downstream = <<>>
                      /\ s_pc = "wait"
    BY DEF CopyIsRight
  <2>1. rounds # 0
    BY Constants DEF IInv, TypeOK
  <2>2. Done
    BY <2>1 DEF IInv, RoundInv, Idle, Announced, Uploading, Uploaded, Downloading
  <2> QED BY <2>2, StreamsTyped DEF IInv, Done
<1> QED BY <1>1, Invariance, PTL
=============================================================================
