-------------------------- MODULE KTPTransferProofs --------------------------
(***************************************************************************)
(* Proofs about KTPTransfer, for every window size, sequence space and     *)
(* number of messages, when packets may be lost but stay in order.         *)
(***************************************************************************)
EXTENDS KTPTransfer, SequenceTheorems, TLAPS

-----------------------------------------------------------------------------
(* The window arithmetic of KTPWindow, for every WINDOWSIZE and MAXSEQ: what *)
(* the modulo operations of the code compute.                                *)

\* Division leaves a unique remainder.
LEMMA ModUnique ==
    ASSUME NEW m \in Nat \ {0}, NEW q \in Int, NEW r \in 0 .. m - 1
    PROVE  (m * q + r) % m = r
<1> DEFINE x == m * q + r
<1>1. x \in Int /\ x % m \in 0 .. m - 1 /\ x \div m \in Int
  OBVIOUS
<1>2. x = m * (x \div m) + (x % m)
  OBVIOUS
<1> DEFINE d == x \div m
<1>3. m * (q - d) = (x % m) - r
  BY <1>1, <1>2
<1>4. q - d \in Int
  BY <1>1
<1>5. CASE q - d >= 1
  <2>1. m * (q - d) >= m
    BY <1>4, <1>5
  <2> QED BY <2>1, <1>3, <1>1
<1>6. CASE q - d <= -1
  <2>1. m * (q - d) <= -m
    BY <1>4, <1>6
  <2> QED BY <2>1, <1>3, <1>1
<1>7. CASE q - d = 0
  BY <1>1, <1>3, <1>7
<1> QED BY <1>4, <1>5, <1>6, <1>7

\* One turn around the ring at most: modulo is a subtraction.
LEMMA ModOneTurn ==
    ASSUME NEW m \in Nat \ {0}, NEW x \in 0 .. 2 * m - 1
    PROVE  x % m = IF x < m THEN x ELSE x - m
<1>1. CASE x < m
  <2>1. (m * 0 + x) % m = x
    BY <1>1, ModUnique
  <2> QED BY <2>1, <1>1
<1>2. CASE x >= m
  <2>1. (m * 1 + (x - m)) % m = x - m
    BY <1>2, ModUnique
  <2> QED BY <2>1, <1>2
<1> QED BY <1>1, <1>2

-----------------------------------------------------------------------------
(* Sequence numbers *)

\* The sequence number of the n-th message of a connection.
SeqOf(n) == ((n - 1) % MAXSEQ) + 1

\* d messages further on, the number has wrapped at most once.
LEMMA SeqAdd ==
    ASSUME NEW n \in Nat \ {0}, NEW d \in 0 .. MAXSEQ
    PROVE  /\ SeqOf(n) \in 1 .. MAXSEQ
           /\ SeqOf(n + d) = IF SeqOf(n) + d <= MAXSEQ
                             THEN SeqOf(n) + d ELSE SeqOf(n) + d - MAXSEQ
<1> DEFINE x == n - 1
           q == x \div MAXSEQ
           r == x % MAXSEQ
<1>1. MAXSEQ \in Nat \ {0}
  BY WindowAssumption
<1>2. x \in Nat
  OBVIOUS
<1>3. q \in Int /\ r \in 0 .. MAXSEQ - 1 /\ x = MAXSEQ * q + r
  BY <1>1, <1>2
<1>4. SeqOf(n) = r + 1
  BY DEF SeqOf
<1>5. SeqOf(n + d) = ((x + d) % MAXSEQ) + 1
  BY DEF SeqOf
<1> HIDE DEF x, q, r
<1>6. CASE r + d < MAXSEQ
  <2>1. x + d = MAXSEQ * q + (r + d)
    BY <1>1, <1>3, <1>6
  <2>2. (MAXSEQ * q + (r + d)) % MAXSEQ = r + d
    BY <1>1, <1>3, <1>6, ModUnique
  <2> QED BY <2>1, <2>2, <1>3, <1>4, <1>5, <1>6, <1>1
<1>7. CASE ~(r + d < MAXSEQ)
  <2>1. x + d = MAXSEQ * (q + 1) + (r + d - MAXSEQ)
    BY <1>1, <1>3, <1>7
  <2>2. r + d - MAXSEQ \in 0 .. MAXSEQ - 1 /\ q + 1 \in Int
    BY <1>1, <1>3, <1>7
  <2>3. (MAXSEQ * (q + 1) + (r + d - MAXSEQ)) % MAXSEQ = r + d - MAXSEQ
    BY <1>1, <2>2, ModUnique
  <2> QED BY <2>1, <2>3, <1>3, <1>4, <1>5, <1>7, <1>1
<1> QED BY <1>6, <1>7

\* Numbers of messages less than MAXSEQ apart identify the messages.
LEMMA SeqInjective ==
    ASSUME NEW m \in Nat \ {0}, NEW n \in Nat \ {0},
           m - n < MAXSEQ, n - m < MAXSEQ, SeqOf(m) = SeqOf(n)
    PROVE  m = n
<1>0. MAXSEQ \in Nat \ {0}
  BY WindowAssumption
<1>1. ASSUME NEW a \in Nat \ {0}, NEW b \in Nat \ {0},
             a < b, b - a < MAXSEQ
      PROVE  SeqOf(a) # SeqOf(b)
  <2>1. PICK d \in 1 .. MAXSEQ - 1 : b = a + d
    <3>1. b - a \in 1 .. MAXSEQ - 1 /\ b = a + (b - a)
      BY <1>0, <1>1
    <3> QED BY <3>1
  <2>2. PICK s \in 1 .. MAXSEQ : s = SeqOf(a)
    BY <1>0, SeqAdd
  <2>3. SeqOf(a + d) = IF s + d <= MAXSEQ THEN s + d ELSE s + d - MAXSEQ
    <3>1. d \in 0 .. MAXSEQ
      BY <1>0
    <3>2. SeqOf(a + d) = IF SeqOf(a) + d <= MAXSEQ
                         THEN SeqOf(a) + d ELSE SeqOf(a) + d - MAXSEQ
      BY <3>1, SeqAdd
    <3> QED BY <2>2, <3>2
  <2>4. SeqOf(a + d) # s
    BY <1>0, <2>3
  <2> QED BY <2>1, <2>2, <2>4
<1> QED BY <1>0, <1>1

LEMMA NthSeqValue ==
    ASSUME NEW last \in 1 .. MAXSEQ, NEW k \in 1 .. WINDOWSIZE
    PROVE  NthSeq(last, k) = IF last + k <= MAXSEQ
                             THEN last + k ELSE last + k - MAXSEQ
<1>1. MAXSEQ \in Nat \ {0} /\ WINDOWSIZE \in Nat /\ WINDOWSIZE <= MAXSEQ
  BY WindowAssumption
<1>2. PICK x \in 0 .. 2 * MAXSEQ - 1 : x = last + k - 1
  BY <1>1
<1>3. x % MAXSEQ = IF x < MAXSEQ THEN x ELSE x - MAXSEQ
  BY <1>1, ModOneTurn
<1> QED BY <1>1, <1>2, <1>3 DEF NthSeq

\* The renumbering of a slide continues the numbering of the messages.
LEMMA NthSeqContinues ==
    ASSUME NEW n \in Nat \ {0}, NEW k \in 1 .. WINDOWSIZE
    PROVE  NthSeq(SeqOf(n), k) = SeqOf(n + k)
<1>1. MAXSEQ \in Nat \ {0} /\ k \in 0 .. MAXSEQ
  BY WindowAssumption
<1>2. PICK s \in 1 .. MAXSEQ : s = SeqOf(n)
  BY <1>1, SeqAdd
<1>3. SeqOf(n + k) = IF s + k <= MAXSEQ THEN s + k ELSE s + k - MAXSEQ
  BY <1>1, <1>2, SeqAdd
<1>4. NthSeq(s, k) = IF s + k <= MAXSEQ THEN s + k ELSE s + k - MAXSEQ
  BY NthSeqValue
<1> QED BY <1>2, <1>3, <1>4

-----------------------------------------------------------------------------
(* Slots *)

LEMMA OffsetValue ==
    ASSUME NEW w, NEW base \in Slots, w.base = base, NEW j \in Slots
    PROVE  /\ Offset(w, j) \in Slots
           /\ Offset(w, j) = IF j >= base THEN j - base ELSE j - base + WINDOWSIZE
<1>1. WINDOWSIZE \in Nat \ {0}
  BY WindowAssumption
<1>2. PICK x \in 0 .. 2 * WINDOWSIZE - 1 : x = j - base + WINDOWSIZE
  BY <1>1 DEF Slots
<1>3. x % WINDOWSIZE = IF x < WINDOWSIZE THEN x ELSE x - WINDOWSIZE
  BY <1>1, ModOneTurn
<1>4. Offset(w, j) = x % WINDOWSIZE
  BY <1>2 DEF Offset
<1> QED BY <1>1, <1>2, <1>3, <1>4 DEF Slots

LEMMA AtValue ==
    ASSUME NEW w, NEW base \in Slots, w.base = base, NEW k \in 0 .. WINDOWSIZE
    PROVE  /\ At(w, k) \in Slots
           /\ At(w, k) = IF base + k < WINDOWSIZE THEN base + k
                         ELSE base + k - WINDOWSIZE
<1>1. WINDOWSIZE \in Nat \ {0}
  BY WindowAssumption
<1>2. PICK x \in 0 .. 2 * WINDOWSIZE - 1 : x = base + k
  BY <1>1 DEF Slots
<1>3. x % WINDOWSIZE = IF x < WINDOWSIZE THEN x ELSE x - WINDOWSIZE
  BY <1>1, ModOneTurn
<1>4. At(w, k) = x % WINDOWSIZE
  BY <1>2 DEF At
<1> QED BY <1>1, <1>2, <1>3, <1>4 DEF Slots

\* Slots and offsets correspond one to one.
LEMMA OffsetAt ==
    ASSUME NEW w, w.base \in Slots, NEW k \in Slots
    PROVE  At(w, k) \in Slots /\ Offset(w, At(w, k)) = k
<1>1. WINDOWSIZE \in Nat \ {0} /\ k \in 0 .. WINDOWSIZE
  BY WindowAssumption DEF Slots
<1>2. PICK base \in Slots : base = w.base
  OBVIOUS
<1>3. PICK j \in Slots : j = At(w, k)
  BY <1>1, <1>2, AtValue
<1>4. j = IF base + k < WINDOWSIZE THEN base + k ELSE base + k - WINDOWSIZE
  BY <1>1, <1>2, <1>3, AtValue
<1>5. Offset(w, j) = IF j >= base THEN j - base ELSE j - base + WINDOWSIZE
  BY <1>2, OffsetValue
<1>6. Offset(w, j) = k
  BY <1>1, <1>4, <1>5 DEF Slots
<1> QED BY <1>3, <1>6

LEMMA AtOffset ==
    ASSUME NEW w, w.base \in Slots, NEW j \in Slots
    PROVE  At(w, Offset(w, j)) = j
<1>1. WINDOWSIZE \in Nat \ {0}
  BY WindowAssumption
<1>2. PICK base \in Slots : base = w.base
  OBVIOUS
<1>3. PICK k \in Slots : k = Offset(w, j)
  BY <1>2, OffsetValue
<1>4. k = IF j >= base THEN j - base ELSE j - base + WINDOWSIZE
  BY <1>2, <1>3, OffsetValue
<1>5. At(w, k) = IF base + k < WINDOWSIZE THEN base + k
                 ELSE base + k - WINDOWSIZE
  BY <1>1, <1>2, AtValue DEF Slots
<1>6. At(w, k) = j
  BY <1>1, <1>4, <1>5 DEF Slots
<1> QED BY <1>3, <1>6

\* After a slide by n, offsets are smaller by n, around the ring.
LEMMA OffsetAfterSlide ==
    ASSUME NEW w, w.base \in Slots, NEW v, NEW n \in 0 .. WINDOWSIZE,
           v.base = At(w, n), NEW j \in Slots
    PROVE  /\ v.base \in Slots
           /\ Offset(w, j) \in Slots
           /\ Offset(v, j) = IF Offset(w, j) < n
                             THEN Offset(w, j) - n + WINDOWSIZE
                             ELSE Offset(w, j) - n
<1>1. WINDOWSIZE \in Nat \ {0}
  BY WindowAssumption
<1>2. PICK base \in Slots : base = w.base
  OBVIOUS
<1>3. PICK next \in Slots : next = v.base
  BY <1>2, AtValue
<1>4. next = IF base + n < WINDOWSIZE THEN base + n ELSE base + n - WINDOWSIZE
  BY <1>2, <1>3, AtValue
<1>5. PICK k \in Slots : k = Offset(w, j)
  BY <1>2, OffsetValue
<1>6. k = IF j >= base THEN j - base ELSE j - base + WINDOWSIZE
  BY <1>2, <1>5, OffsetValue
<1>7. Offset(v, j) = IF j >= next THEN j - next ELSE j - next + WINDOWSIZE
  BY <1>3, OffsetValue
<1>8. Offset(v, j) = IF k < n THEN k - n + WINDOWSIZE ELSE k - n
  BY <1>1, <1>4, <1>6, <1>7 DEF Slots
<1> QED BY <1>3, <1>5, <1>8

-----------------------------------------------------------------------------
(* Sliding *)

LEMMA NthSeqInRange ==
    ASSUME NEW last \in 1 .. MAXSEQ, NEW k \in 1 .. WINDOWSIZE
    PROVE  NthSeq(last, k) \in 1 .. MAXSEQ
<1>1. MAXSEQ \in Nat /\ WINDOWSIZE \in Nat /\ WINDOWSIZE <= MAXSEQ
  BY WindowAssumption
<1>2. NthSeq(last, k) = IF last + k <= MAXSEQ
                        THEN last + k ELSE last + k - MAXSEQ
  BY NthSeqValue
<1> QED BY <1>1, <1>2

\* A slide keeps the types of the fields it changes.
LEMMA SlideType ==
    ASSUME NEW w, w.base \in Slots, w.last_seq \in 1 .. MAXSEQ,
           w.msg_seq \in [Slots -> 1 .. MAXSEQ], NEW n \in 1 .. WINDOWSIZE
    PROVE  /\ At(w, n) \in Slots
           /\ NthSeq(w.last_seq, n) \in 1 .. MAXSEQ
           /\ [j \in Slots |-> IF Offset(w, j) < n
                               THEN NthSeq(w.last_seq, Offset(w, j) + 1)
                               ELSE w.msg_seq[j]] \in [Slots -> 1 .. MAXSEQ]
<1>1. WINDOWSIZE \in Nat \ {0} /\ n \in 0 .. WINDOWSIZE
  BY WindowAssumption
<1>2. At(w, n) \in Slots
  BY <1>1, AtValue
<1>3. NthSeq(w.last_seq, n) \in 1 .. MAXSEQ
  BY NthSeqInRange
<1>4. ASSUME NEW j \in Slots
      PROVE  NthSeq(w.last_seq, Offset(w, j) + 1) \in 1 .. MAXSEQ
  <2>1. PICK k \in Slots : k = Offset(w, j)
    BY OffsetValue
  <2>2. k + 1 \in 1 .. WINDOWSIZE
    BY <1>1 DEF Slots
  <2> QED BY <2>1, <2>2, NthSeqInRange
<1> QED BY <1>2, <1>3, <1>4

\* A window that carries the numbers of the WINDOWSIZE messages after c carries,
\* once slid by n, those of the messages after c + n.
LEMMA SlideNumbers ==
    ASSUME NEW w, w.base \in Slots, NEW c \in Nat, NEW n \in 1 .. WINDOWSIZE,
           w.last_seq = SeqOf(c + WINDOWSIZE)
    PROVE  /\ NthSeq(w.last_seq, n) = SeqOf(c + n + WINDOWSIZE)
           /\ \A j \in Slots :
                NthSeq(w.last_seq, Offset(w, j) + 1) =
                  SeqOf(c + Offset(w, j) + 1 + WINDOWSIZE)
<1>1. WINDOWSIZE \in Nat \ {0} /\ c + WINDOWSIZE \in Nat \ {0}
  BY WindowAssumption
<1>2. ASSUME NEW k \in 1 .. WINDOWSIZE
      PROVE  NthSeq(w.last_seq, k) = SeqOf(c + k + WINDOWSIZE)
  <2>1. NthSeq(SeqOf(c + WINDOWSIZE), k) = SeqOf((c + WINDOWSIZE) + k)
    BY <1>1, NthSeqContinues
  <2>2. (c + WINDOWSIZE) + k = c + k + WINDOWSIZE
    BY <1>1
  <2> QED BY <2>1, <2>2
<1>3. ASSUME NEW j \in Slots
      PROVE  NthSeq(w.last_seq, Offset(w, j) + 1) =
               SeqOf(c + Offset(w, j) + 1 + WINDOWSIZE)
  <2>1. PICK o \in Slots : o = Offset(w, j)
    BY OffsetValue
  <2>2. o + 1 \in 1 .. WINDOWSIZE /\ c + (o + 1) = c + o + 1
    BY <1>1 DEF Slots
  <2> QED BY <1>2, <2>1, <2>2
<1> QED BY <1>2, <1>3

-----------------------------------------------------------------------------
(* Channels *)

\* Taking the first packet off a channel.
LEMMA WithoutFirst ==
    ASSUME NEW S, NEW net \in Seq(S), Len(net) > 0
    PROVE  /\ Without(net, 1) \in Seq(S)
           /\ Len(Without(net, 1)) = Len(net) - 1
           /\ \A k \in 1 .. Len(net) - 1 : Without(net, 1)[k] = net[k + 1]
<1>1. PICK n \in Nat : n + 1 = Len(net)
  <2>1. Len(net) \in Nat
    BY LenProperties
  <2>2. Len(net) - 1 \in Nat /\ (Len(net) - 1) + 1 = Len(net)
    BY <2>1
  <2> QED BY <2>2
<1>2. net \in [1 .. n + 1 -> S]
  BY <1>1, LenProperties
<1>3. \A k \in 1 .. n : k + 1 \in 1 .. n + 1 /\ ~(k < 1)
  OBVIOUS
<1>4. Without(net, 1) = [k \in 1 .. n |-> net[k + 1]]
  <2>1. Len(net) - 1 = n
    BY <1>1
  <2> QED BY <2>1, <1>3 DEF Without
<1>5. Without(net, 1) \in [1 .. n -> S]
  BY <1>2, <1>3, <1>4
<1>6. Without(net, 1) \in Seq(S)
  BY <1>5, SeqDef
<1>7. Len(Without(net, 1)) = n
  BY <1>4, <1>6, LenProperties
<1> QED BY <1>1, <1>4, <1>6, <1>7

-----------------------------------------------------------------------------
(* The inductive invariant *)

\* The message that slot j of the send window, of the receive window stands for.
SendMsg(j) == acked + Offset(swnd, j) + 1
RecvMsg(j) == InOrderCount + Offset(rwnd, j) + 1

\* Slot j of the receive window keeps a message that is ahead of a gap.
Early(j) == Offset(rwnd, j) < rwnd.size /\ rwnd.received[j]

AckOf(n) == IF n = 0 THEN 0 ELSE SeqOf(n)

\* The send window continues the numbering at acked; its occupied slots hold
\* the messages after acked, and only those have timers.
SenderInv ==
    /\ acked <= sent
    /\ sent <= acked + WINDOWSIZE
    /\ swnd.last_seq = SeqOf(acked + WINDOWSIZE)
    /\ \A j \in Slots :
         /\ swnd.msg_seq[j] = SeqOf(SendMsg(j))
         /\ send_buff_empty[j] <=> SendMsg(j) > sent
         /\ ~send_buff_empty[j] => send_buff[j] = SendMsg(j)
         /\ swnd.timeout[j] # Unset => ~send_buff_empty[j]

\* The receive window continues the numbering at InOrderCount; the slots behind
\* it hold the messages the application has not read, those inside it what
\* arrived early, and the first slot inside is a gap.
ReceiverInv ==
    /\ rwnd.last_seq = SeqOf(InOrderCount + WINDOWSIZE)
    /\ rwnd.last_ack = AckOf(InOrderCount)
    /\ rwnd.size > 0 => ~rwnd.received[rwnd.base]
    /\ \A j \in Slots :
         /\ rwnd.msg_seq[j] = SeqOf(RecvMsg(j))
         /\ Early(j) => recv_buff[j] = RecvMsg(j) /\ RecvMsg(j) <= sent
         /\ Offset(rwnd, j) >= rwnd.size =>
              rwnd.received[j] /\ recv_buff[j] = RecvMsg(j) - WINDOWSIZE
    /\ \A i \in 1 .. Len(delivered) : delivered[i] = i

AgreementInv == acked <= InOrderCount /\ InOrderCount <= sent

\* A DATA packet carries the number of its payload.  Whatever the receiver got,
\* or will get before it, is less than a window ahead of it.
DataInv ==
    /\ \A i \in 1 .. Len(data_net) :
         /\ data_net[i].seq = SeqOf(data_net[i].msg)
         /\ data_net[i].msg <= sent
         /\ InOrderCount < data_net[i].msg + WINDOWSIZE
         /\ \A j \in Slots :
              Early(j) => RecvMsg(j) < data_net[i].msg + WINDOWSIZE
    /\ \A i, k \in 1 .. Len(data_net) :
         i < k => data_net[i].msg < data_net[k].msg + WINDOWSIZE

\* The ACKs under way acknowledge more and more, and all of it is received.
AckInv ==
    /\ \A i \in 1 .. Len(ack_net) :
         /\ ack_net[i].seq = AckOf(ack_net[i].upto)
         /\ acked <= ack_net[i].upto
         /\ ack_net[i].upto <= InOrderCount
    /\ \A i, k \in 1 .. Len(ack_net) :
         i < k => ack_net[i].upto <= ack_net[k].upto

IInv ==
    /\ TypeOK
    /\ SenderInv
    /\ ReceiverInv
    /\ AgreementInv
    /\ DataInv
    /\ AckInv

-----------------------------------------------------------------------------
(* Facts used throughout *)

LEMMA Constants ==
    /\ WINDOWSIZE \in Nat \ {0}
    /\ MAXSEQ \in Nat \ {0}
    /\ 2 * WINDOWSIZE <= MAXSEQ
    /\ MaxMsgs \in Nat
    /\ 0 \in Slots
    /\ \A j \in Slots : j \in Nat /\ j < WINDOWSIZE /\ j \in 0 .. WINDOWSIZE
BY WindowAssumption, TransferAssumption DEF Slots

LEMMA Counts ==
    ASSUME TypeOK
    PROVE  /\ sent \in Nat /\ acked \in Nat
           /\ swnd.size \in 0 .. WINDOWSIZE /\ rwnd.size \in 0 .. WINDOWSIZE
           /\ swnd.base \in Slots /\ rwnd.base \in Slots
           /\ InOrderCount \in Nat
           /\ Len(delivered) \in Nat
           /\ \A j \in Slots : /\ Offset(swnd, j) \in Slots
                             /\ Offset(rwnd, j) \in Slots
                             /\ SendMsg(j) \in Nat \ {0}
                             /\ RecvMsg(j) \in Nat \ {0}
<1>1. /\ sent \in Nat /\ acked \in Nat
      /\ swnd.size \in 0 .. WINDOWSIZE /\ rwnd.size \in 0 .. WINDOWSIZE
      /\ swnd.base \in Slots /\ rwnd.base \in Slots
      /\ delivered \in Seq(1 .. MaxMsgs)
  <2>1. sent \in Nat /\ acked \in Nat
    BY Constants DEF TypeOK
  <2> QED BY <2>1 DEF TypeOK
<1>2. Len(delivered) \in Nat
  BY <1>1, LenProperties
<1>3. InOrderCount \in Nat
  BY <1>1, <1>2, Constants DEF InOrderCount
<1>4. \A j \in Slots : Offset(swnd, j) \in Slots /\ Offset(rwnd, j) \in Slots
  BY <1>1, OffsetValue
<1>5. \A j \in Slots : SendMsg(j) \in Nat \ {0} /\ RecvMsg(j) \in Nat \ {0}
  <2> SUFFICES ASSUME NEW j \in Slots
               PROVE  SendMsg(j) \in Nat \ {0} /\ RecvMsg(j) \in Nat \ {0}
    OBVIOUS
  <2>1. PICK x \in Nat, y \in Nat : x = Offset(swnd, j) /\ y = Offset(rwnd, j)
    BY <1>4, Constants
  <2>2. PICK u \in Nat, v \in Nat : u = acked /\ v = InOrderCount
    BY <1>1, <1>3
  <2>3. SendMsg(j) = u + x + 1 /\ RecvMsg(j) = v + y + 1
    BY <2>1, <2>2 DEF SendMsg, RecvMsg
  <2> QED BY <2>3
<1> QED BY <1>1, <1>2, <1>3, <1>4, <1>5

LEMMA PacketTypes ==
    ASSUME TypeOK
    PROVE  /\ Len(data_net) \in Nat /\ Len(ack_net) \in Nat
           /\ \A i \in 1 .. Len(data_net) :
                /\ data_net[i] \in DataPackets
                /\ data_net[i].seq \in 1 .. MAXSEQ
                /\ data_net[i].msg \in Nat \ {0}
           /\ \A i \in 1 .. Len(ack_net) :
                /\ ack_net[i] \in AckPackets
                /\ ack_net[i].rwnd \in 0 .. WINDOWSIZE
                /\ ack_net[i].upto \in Nat
<1>1. data_net \in Seq(DataPackets) /\ ack_net \in Seq(AckPackets)
  BY DEF TypeOK
<1>2. /\ Len(data_net) \in Nat /\ data_net \in [1 .. Len(data_net) -> DataPackets]
      /\ Len(ack_net) \in Nat /\ ack_net \in [1 .. Len(ack_net) -> AckPackets]
  BY <1>1, LenProperties
<1>3. \A i \in 1 .. Len(data_net) :
        /\ data_net[i].seq \in 1 .. MAXSEQ
        /\ data_net[i].msg \in 1 .. MaxMsgs
  BY <1>2 DEF DataPackets
<1>4. \A i \in 1 .. Len(ack_net) :
        /\ ack_net[i].rwnd \in 0 .. WINDOWSIZE
        /\ ack_net[i].upto \in 0 .. MaxMsgs
  BY <1>2 DEF AckPackets
<1>5. /\ \A x \in 1 .. MaxMsgs : x \in Nat \ {0}
      /\ \A x \in 0 .. MaxMsgs : x \in Nat
  BY Constants
<1>6. /\ \A i \in 1 .. Len(data_net) : data_net[i] \in DataPackets
      /\ \A i \in 1 .. Len(ack_net) : ack_net[i] \in AckPackets
  BY <1>2
<1> QED BY <1>2, <1>3, <1>4, <1>5, <1>6

\* The first numbers are the messages' own.
LEMMA SeqOfSmall ==
    ASSUME NEW n \in 1 .. MAXSEQ
    PROVE  SeqOf(n) = n
<1>1. PICK x \in 0 .. 2 * MAXSEQ - 1 : x = n - 1 /\ x < MAXSEQ
  BY Constants
<1>2. x % MAXSEQ = x
  BY <1>1, Constants, ModOneTurn
<1> QED BY <1>1, <1>2 DEF SeqOf

LEMMA InitEstablishes ==
    ASSUME Init
    PROVE  IInv
<1> USE Constants
<1>1. /\ swnd.base = 0 /\ swnd.size = WINDOWSIZE /\ swnd.last_seq = WINDOWSIZE
      /\ swnd.msg_seq = [j \in Slots |-> j + 1]
      /\ swnd.timeout = [j \in Slots |-> Unset]
  BY DEF Init, init_swnd, init_window
<1>2. /\ rwnd.base = 0 /\ rwnd.size = WINDOWSIZE /\ rwnd.last_seq = WINDOWSIZE
      /\ rwnd.msg_seq = [j \in Slots |-> j + 1] /\ rwnd.last_ack = 0
      /\ rwnd.received = [j \in Slots |-> FALSE]
  BY DEF Init, init_rwnd, init_window
<1>3. /\ sent = 0 /\ acked = 0 /\ delivered = <<>> /\ Len(delivered) = 0
      /\ send_buff_empty = [j \in Slots |-> TRUE]
      /\ data_net = <<>> /\ ack_net = <<>>
      /\ Len(data_net) = 0 /\ Len(ack_net) = 0
  BY DEF Init
<1>4. InOrderCount = 0
  BY <1>2, <1>3 DEF InOrderCount
<1>5. \A j \in Slots : Offset(swnd, j) = j /\ Offset(rwnd, j) = j
  BY <1>1, <1>2, OffsetValue
<1>6. \A j \in Slots : SendMsg(j) = j + 1 /\ RecvMsg(j) = j + 1
  BY <1>3, <1>4, <1>5 DEF SendMsg, RecvMsg
<1>7. \A j \in Slots : j + 1 \in 1 .. MAXSEQ /\ SeqOf(j + 1) = j + 1
  BY SeqOfSmall
<1>8. SeqOf(0 + WINDOWSIZE) = WINDOWSIZE
  BY SeqOfSmall
<1>9. TypeOK
  <2>1. swnd \in [base : Slots, size : 0 .. WINDOWSIZE, last_seq : 1 .. MAXSEQ,
                  msg_seq : [Slots -> 1 .. MAXSEQ],
                  timeout : [Slots -> {Unset, Armed}]]
    BY <1>7 DEF Init, init_swnd, init_window
  <2>2. rwnd \in [base : Slots, size : 0 .. WINDOWSIZE, last_seq : 1 .. MAXSEQ,
                  msg_seq : [Slots -> 1 .. MAXSEQ], last_ack : 0 .. MAXSEQ,
                  received : [Slots -> BOOLEAN]]
    BY <1>7 DEF Init, init_rwnd, init_window
  <2>3. /\ send_buff \in [Slots -> 0 .. MaxMsgs]
        /\ recv_buff \in [Slots -> 0 .. MaxMsgs]
        /\ send_buff_empty \in [Slots -> BOOLEAN]
        /\ s_ctr \in 0 .. WINDOWSIZE
        /\ sent \in 0 .. MaxMsgs /\ acked \in 0 .. MaxMsgs
    BY DEF Init
  <2>4. /\ data_net \in Seq(DataPackets) /\ ack_net \in Seq(AckPackets)
        /\ delivered \in Seq(1 .. MaxMsgs)
    BY <1>3, EmptySeq
  <2>5. /\ s_pc \in {"asleep", "retransmit", "between", "send"}
        /\ nospace \in BOOLEAN
    BY DEF Init
  <2> QED BY <2>1, <2>2, <2>3, <2>4, <2>5 DEF TypeOK
<1>10. SenderInv
  BY <1>1, <1>3, <1>6, <1>7, <1>8 DEF SenderInv, Unset
<1>11. ReceiverInv
  <2>1. rwnd.size > 0 => ~rwnd.received[rwnd.base]
    BY <1>2
  <2>2. \A j \in Slots : ~Early(j) /\ ~(Offset(rwnd, j) >= rwnd.size)
    BY <1>2, <1>5 DEF Early
  <2> QED BY <1>2, <1>3, <1>4, <1>6, <1>7, <1>8, <2>1, <2>2 DEF ReceiverInv, AckOf
<1>12. AgreementInv /\ DataInv /\ AckInv
  BY <1>3, <1>4 DEF AgreementInv, DataInv, AckInv
<1> QED BY <1>9, <1>10, <1>11, <1>12 DEF IInv

-----------------------------------------------------------------------------
(* What a step leaves alone *)

LEMMA SenderFrame ==
    ASSUME SenderInv, UNCHANGED sender
    PROVE  SenderInv'
BY DEF SenderInv, sender, SendMsg

LEMMA ReceiverFrame ==
    ASSUME TypeOK, ReceiverInv, UNCHANGED <<rwnd, recv_buff, delivered>>,
           sent' \in Nat, sent <= sent'
    PROVE  ReceiverInv'
<1>1. InOrderCount' = InOrderCount
  BY DEF InOrderCount
<1>2. \A j \in Slots : RecvMsg(j)' = RecvMsg(j) /\ Early(j)' = Early(j)
  BY <1>1 DEF RecvMsg, Early
<1>3. \A j \in Slots : RecvMsg(j) <= sent => RecvMsg(j) <= sent'
  BY Counts
<1> QED BY <1>1, <1>2, <1>3 DEF ReceiverInv

LEMMA DataFrame ==
    ASSUME TypeOK, DataInv, UNCHANGED <<rwnd, delivered, data_net>>,
           sent' \in Nat, sent <= sent'
    PROVE  DataInv'
<1>1. InOrderCount' = InOrderCount
  BY DEF InOrderCount
<1>2. \A j \in Slots : RecvMsg(j)' = RecvMsg(j) /\ Early(j)' = Early(j)
  BY <1>1 DEF RecvMsg, Early
<1>3. \A i \in 1 .. Len(data_net) :
        data_net[i].msg \in Nat /\ data_net[i].msg <= sent'
  <2> SUFFICES ASSUME NEW i \in 1 .. Len(data_net)
               PROVE  data_net[i].msg \in Nat /\ data_net[i].msg <= sent'
    OBVIOUS
  <2> QED BY PacketTypes, Counts DEF DataInv
<1> QED BY <1>1, <1>2, <1>3 DEF DataInv

LEMMA AckKept ==
    ASSUME AckInv, UNCHANGED <<acked, ack_net>>, InOrderCount' = InOrderCount
    PROVE  AckInv'
BY DEF AckInv

LEMMA AckFrame ==
    ASSUME AckInv, UNCHANGED <<acked, rwnd, delivered, ack_net>>
    PROVE  AckInv'
BY AckKept DEF InOrderCount

LEMMA AgreementFrame ==
    ASSUME TypeOK, AgreementInv, UNCHANGED <<acked, rwnd, delivered>>,
           sent' \in Nat, sent <= sent'
    PROVE  AgreementInv'
<1>1. InOrderCount' = InOrderCount
  BY DEF InOrderCount
<1> QED BY <1>1, Counts DEF AgreementInv

-----------------------------------------------------------------------------
(* Thread S and k_sendto *)

LEMMA ThreadMoves ==
    ASSUME IInv, UNCHANGED <<sender, receiver, data_net, ack_net>>,
           s_pc' \in {"asleep", "retransmit", "between", "send"},
           s_ctr' \in 0 .. WINDOWSIZE
    PROVE  IInv'
<1>1. TypeOK'
  BY DEF IInv, TypeOK, sender, receiver
<1>2. sent' \in Nat /\ sent <= sent'
  BY Counts DEF IInv, sender
<1>3. UNCHANGED <<rwnd, recv_buff, delivered, acked>>
  BY DEF receiver, sender
<1> QED BY <1>1, <1>2, <1>3, SenderFrame, ReceiverFrame, DataFrame, AckFrame,
           AgreementFrame DEF IInv

\* The first free slot is the one that the next message belongs to.
LEMMA FirstFreeSlot ==
    ASSUME TypeOK, SenderInv, NEW k \in Slots,
           send_buff_empty[At(swnd, k)],
           \A i \in 0 .. k - 1 : ~send_buff_empty[At(swnd, i)]
    PROVE  k = sent - acked
<1>1. PICK a \in Nat, s \in Nat : a = acked /\ s = sent /\ a <= s
  BY Counts DEF SenderInv
<1>2. \A i \in Slots : /\ At(swnd, i) \in Slots
                      /\ SendMsg(At(swnd, i)) = a + i + 1
  BY <1>1, Counts, OffsetAt DEF SendMsg
<1>3. a + k + 1 > s
  BY <1>1, <1>2 DEF SenderInv
<1>4. CASE k = 0
  BY <1>1, <1>3, <1>4
<1>5. CASE k # 0
  <2>1. k - 1 \in Slots /\ k - 1 \in 0 .. k - 1
    BY <1>5, Constants DEF Slots
  <2>2. ~(a + (k - 1) + 1 > s)
    BY <1>1, <1>2, <2>1 DEF SenderInv
  <2> QED BY <1>1, <1>3, <2>2, Constants
<1> QED BY <1>4, <1>5

LEMMA SendtoStep ==
    ASSUME IInv, k_sendto
    PROVE  IInv'
<1>1. TypeOK /\ SenderInv
  BY DEF IInv
<1>2. PICK k \in Slots :
         /\ send_buff_empty[At(swnd, k)]
         /\ \A i \in 0 .. k - 1 : ~send_buff_empty[At(swnd, i)]
         /\ send_buff' = [send_buff EXCEPT ![At(swnd, k)] = sent + 1]
         /\ send_buff_empty' = [send_buff_empty EXCEPT ![At(swnd, k)] = FALSE]
         /\ swnd' = [swnd EXCEPT !.timeout[At(swnd, k)] = Unset]
  BY DEF k_sendto
<1>3. /\ sent' = sent + 1 /\ sent < MaxMsgs /\ acked' = acked
      /\ UNCHANGED <<s_pc, s_ctr, rwnd, recv_buff, nospace, delivered,
                     data_net, ack_net>>
  BY DEF k_sendto, thread, receiver
<1>4. PICK j0 \in Slots : j0 = At(swnd, k) /\ Offset(swnd, j0) = k
  BY <1>1, Counts, OffsetAt
<1>5. k = sent - acked
  BY <1>1, <1>2, FirstFreeSlot
<1>6. sent' \in Nat /\ sent <= sent' /\ sent' \in 0 .. MaxMsgs
  BY <1>1, <1>3, Counts, Constants
<1>7. /\ swnd'.base = swnd.base /\ swnd'.size = swnd.size
      /\ swnd'.last_seq = swnd.last_seq /\ swnd'.msg_seq = swnd.msg_seq
      /\ \A j \in Slots :
           swnd'.timeout[j] = IF j = j0 THEN Unset ELSE swnd.timeout[j]
  BY <1>1, <1>2, <1>4 DEF TypeOK
<1>8. TypeOK'
  <2>1. swnd' \in [base : Slots, size : 0 .. WINDOWSIZE, last_seq : 1 .. MAXSEQ,
                   msg_seq : [Slots -> 1 .. MAXSEQ],
                   timeout : [Slots -> {Unset, Armed}]]
    BY <1>1, <1>2, <1>4 DEF TypeOK
  <2>2. /\ send_buff' \in [Slots -> 0 .. MaxMsgs]
        /\ send_buff_empty' \in [Slots -> BOOLEAN]
    BY <1>1, <1>2, <1>3, <1>4, <1>6 DEF TypeOK
  <2> QED BY <1>1, <1>3, <1>6, <2>1, <2>2 DEF TypeOK
<1>9. SenderInv'
  <2>1. PICK a \in Nat, s \in Nat : a = acked /\ s = sent
    BY <1>1, Counts
  <2>2. \A j \in Slots : SendMsg(j)' = SendMsg(j)
    BY <1>3, <1>7 DEF SendMsg, Offset
  <2>3. SendMsg(j0) = s + 1
    BY <1>4, <1>5, <2>1, Constants DEF SendMsg
  <2>4. \A j \in Slots : j # j0 => SendMsg(j) # s + 1
    <3> SUFFICES ASSUME NEW j \in Slots, SendMsg(j) = s + 1
                 PROVE  j = j0
      OBVIOUS
    <3>1. PICK x \in Slots : x = Offset(swnd, j)
      BY <1>1, Counts
    <3>2. a + x + 1 = s + 1
      BY <2>1, <3>1 DEF SendMsg
    <3>3. x = k
      BY <1>5, <2>1, <3>2, Constants
    <3> QED BY <1>1, <1>4, <3>1, <3>3, Counts, AtOffset
  <2>5. acked' <= sent' /\ sent' <= acked' + WINDOWSIZE
    BY <1>1, <1>3, <1>5, <2>1, Constants DEF SenderInv
  <2>6. swnd'.last_seq = SeqOf(acked' + WINDOWSIZE)
    BY <1>1, <1>3, <1>7 DEF SenderInv
  <2>7. ASSUME NEW j \in Slots
        PROVE  /\ swnd'.msg_seq[j] = SeqOf(SendMsg(j)')
               /\ send_buff_empty'[j] <=> SendMsg(j)' > sent'
               /\ ~send_buff_empty'[j] => send_buff'[j] = SendMsg(j)'
               /\ swnd'.timeout[j] # Unset => ~send_buff_empty'[j]
    <3>1. CASE j = j0
      <4>1. /\ send_buff_empty'[j] = FALSE
            /\ send_buff'[j] = s + 1
            /\ swnd'.timeout[j] = Unset
        BY <1>1, <1>2, <1>4, <1>7, <2>1, <3>1 DEF TypeOK
      <4>2. SendMsg(j)' = s + 1 /\ sent' = s + 1 /\ ~(s + 1 > s + 1)
        BY <1>3, <2>1, <2>2, <2>3, <3>1
      <4>3. swnd'.msg_seq[j] = SeqOf(SendMsg(j)')
        BY <1>1, <1>7, <2>2 DEF SenderInv
      <4> QED BY <4>1, <4>2, <4>3
    <3>2. CASE j # j0
      <4>1. PICK x \in Nat : x = SendMsg(j)
        BY <1>1, Counts
      <4>2. x # s + 1
        BY <2>4, <3>2, <4>1
      <4>3. (x > s) <=> (x > s + 1)
        BY <4>2
      <4>4. /\ send_buff_empty'[j] = send_buff_empty[j]
            /\ send_buff'[j] = send_buff[j]
            /\ swnd'.timeout[j] = swnd.timeout[j]
        BY <1>1, <1>2, <1>4, <1>7, <3>2 DEF TypeOK
      <4> QED BY <1>1, <1>3, <1>7, <2>1, <2>2, <4>1, <4>3, <4>4 DEF SenderInv
    <3> QED BY <3>1, <3>2
  <2> QED BY <2>5, <2>6, <2>7 DEF SenderInv
<1> QED BY <1>3, <1>6, <1>8, <1>9, ReceiverFrame, DataFrame, AckFrame,
           AgreementFrame DEF IInv

\* Thread S puts the message of an occupied slot on the channel.
LEMMA PacketSent ==
    ASSUME IInv, NEW j \in Slots, ~send_buff_empty[j],
           data_net' = Append(data_net, DataPacket(j)),
           UNCHANGED <<acked, sent, rwnd, delivered>>
    PROVE  data_net' \in Seq(DataPackets) /\ DataInv'
<1>1. TypeOK /\ SenderInv /\ ReceiverInv /\ AgreementInv /\ DataInv
  BY DEF IInv
<1>2. PICK m \in Nat \ {0}, a \in Nat, s \in Nat, r \in Nat :
         m = SendMsg(j) /\ a = acked /\ s = sent /\ r = InOrderCount
  BY <1>1, Counts
<1>3. m <= s /\ s < m + WINDOWSIZE /\ r <= s
  <2>1. ~(m > s) /\ s <= a + WINDOWSIZE /\ r <= s
    BY <1>1, <1>2 DEF SenderInv, AgreementInv
  <2>2. PICK x \in Nat : x = Offset(swnd, j)
    BY <1>1, Counts, Constants
  <2>3. m = a + x + 1
    BY <1>2, <2>2 DEF SendMsg
  <2> QED BY <2>1, <2>3, Constants
<1>4. PICK p : p = DataPacket(j) /\ p.seq = SeqOf(m) /\ p.msg = m /\ p \in DataPackets
  <2>1. DataPacket(j) = [seq |-> swnd.msg_seq[j], msg |-> send_buff[j]]
    BY DEF DataPacket
  <2>2. swnd.msg_seq[j] = SeqOf(m) /\ send_buff[j] = m
    BY <1>1, <1>2 DEF SenderInv
  <2>3. swnd.msg_seq[j] \in 1 .. MAXSEQ /\ send_buff[j] \in 0 .. MaxMsgs
    BY <1>1 DEF TypeOK
  <2>4. m \in 1 .. MaxMsgs
    BY <2>2, <2>3, Constants
  <2> QED BY <2>1, <2>2, <2>3, <2>4 DEF DataPackets
<1>5. PICK n \in Nat : n = Len(data_net)
  BY <1>1, PacketTypes
<1>6. /\ data_net' \in Seq(DataPackets)
      /\ Len(data_net') = n + 1
      /\ \A i \in 1 .. n : data_net'[i] = data_net[i]
      /\ data_net'[n + 1] = p
  BY <1>1, <1>4, <1>5, AppendProperties DEF TypeOK
<1>7. InOrderCount' = r
  BY <1>2 DEF InOrderCount
<1>8. \A k \in Slots : RecvMsg(k)' = RecvMsg(k) /\ Early(k)' = Early(k)
  BY <1>2, <1>7 DEF RecvMsg, Early
<1>9. ASSUME NEW i \in 1 .. n + 1
      PROVE  /\ data_net'[i].seq = SeqOf(data_net'[i].msg)
             /\ data_net'[i].msg <= sent'
             /\ InOrderCount' < data_net'[i].msg + WINDOWSIZE
             /\ \A k \in Slots :
                  Early(k)' => RecvMsg(k)' < data_net'[i].msg + WINDOWSIZE
  <2>1. CASE i = n + 1
    <3>1. r < m + WINDOWSIZE
      BY <1>3, Constants
    <3>2. ASSUME NEW k \in Slots, Early(k)
          PROVE  RecvMsg(k) < m + WINDOWSIZE
      <4>1. PICK y \in Nat : y = RecvMsg(k) /\ y <= s
        BY <1>1, <1>2, <3>2, Counts DEF ReceiverInv
      <4> QED BY <1>3, <4>1, Constants
    <3> QED BY <1>2, <1>3, <1>4, <1>6, <1>7, <1>8, <2>1, <3>1, <3>2
  <2>2. CASE i # n + 1
    <3>1. i \in 1 .. n
      BY <2>2
    <3> QED BY <1>1, <1>2, <1>5, <1>6, <1>7, <1>8, <3>1 DEF DataInv
  <2> QED BY <2>1, <2>2
<1>10. ASSUME NEW i \in 1 .. n + 1, NEW k \in 1 .. n + 1, i < k
       PROVE  data_net'[i].msg < data_net'[k].msg + WINDOWSIZE
  <2>1. i \in 1 .. n
    BY <1>10
  <2>2. PICK y \in Nat : y = data_net[i].msg /\ y <= s
    BY <1>1, <1>2, <1>5, <2>1, PacketTypes DEF DataInv
  <2>3. CASE k = n + 1
    BY <1>3, <1>4, <1>6, <2>1, <2>2, <2>3, Constants
  <2>4. CASE k # n + 1
    <3>1. k \in 1 .. n
      BY <2>4
    <3> QED BY <1>1, <1>5, <1>6, <1>10, <2>1, <3>1 DEF DataInv
  <2> QED BY <2>3, <2>4
<1> QED BY <1>6, <1>9, <1>10 DEF DataInv

LEMMA LoopSlot ==
    ASSUME TypeOK, s_ctr < swnd.size
    PROVE  s_ctr \in Slots /\ s_ctr + 1 \in 0 .. WINDOWSIZE
<1>1. PICK c \in 0 .. WINDOWSIZE, z \in 0 .. WINDOWSIZE : c = s_ctr /\ z = swnd.size
  BY DEF TypeOK
<1>2. c < z
  BY <1>1
<1> QED BY <1>1, <1>2, Constants DEF Slots

LEMMA RetransmitStep ==
    ASSUME IInv, Retransmit
    PROVE  IInv'
<1>1. TypeOK /\ SenderInv
  BY DEF IInv
<1>2. s_ctr \in Slots /\ s_ctr + 1 \in 0 .. WINDOWSIZE
  BY <1>1, LoopSlot DEF Retransmit
<1>3. PICK j \in Slots : j = At(swnd, s_ctr)
  BY <1>1, <1>2, Counts, OffsetAt
<1>4. ~send_buff_empty[j]
  BY <1>1, <1>3 DEF Retransmit, SenderInv
<1>5. /\ data_net' = Append(data_net, DataPacket(j))
      /\ UNCHANGED <<swnd, send_buff, send_buff_empty, sent, acked, s_pc, rwnd,
                     recv_buff, nospace, delivered, ack_net>>
      /\ s_ctr' = s_ctr + 1
  BY <1>3 DEF Retransmit, sender, receiver
<1>6. data_net' \in Seq(DataPackets) /\ DataInv'
  BY <1>4, <1>5, PacketSent
<1>7. s_ctr' \in 0 .. WINDOWSIZE
  BY <1>2, <1>5
<1>8. TypeOK'
  BY <1>1, <1>5, <1>6, <1>7 DEF TypeOK
<1>9. sent' \in Nat /\ sent <= sent'
  BY <1>1, <1>5, Counts
<1> QED BY <1>5, <1>6, <1>8, <1>9, SenderFrame, ReceiverFrame, AckFrame,
           AgreementFrame DEF IInv, sender

LEMMA SendNewStep ==
    ASSUME IInv, SendNew
    PROVE  IInv'
<1>1. TypeOK /\ SenderInv
  BY DEF IInv
<1>2. s_ctr \in Slots /\ s_ctr + 1 \in 0 .. WINDOWSIZE
  BY <1>1, LoopSlot DEF SendNew
<1>3. PICK j0 \in Slots : j0 = At(swnd, s_ctr)
  BY <1>1, <1>2, Counts, OffsetAt
<1>4. ~send_buff_empty[j0]
  BY <1>3 DEF SendNew, Unsent
<1>5. /\ data_net' = Append(data_net, DataPacket(j0))
      /\ swnd' = [swnd EXCEPT !.timeout[j0] = Armed]
      /\ UNCHANGED <<send_buff, send_buff_empty, sent, acked, s_pc, rwnd,
                     recv_buff, nospace, delivered, ack_net>>
      /\ s_ctr' = s_ctr + 1
  BY <1>3 DEF SendNew, receiver
<1>6. data_net' \in Seq(DataPackets) /\ DataInv'
  BY <1>4, <1>5, PacketSent
<1>7. s_ctr' \in 0 .. WINDOWSIZE
  BY <1>2, <1>5
<1>8. swnd' \in [base : Slots, size : 0 .. WINDOWSIZE, last_seq : 1 .. MAXSEQ,
                 msg_seq : [Slots -> 1 .. MAXSEQ],
                 timeout : [Slots -> {Unset, Armed}]]
  BY <1>1, <1>5 DEF TypeOK
<1>9. TypeOK'
  BY <1>1, <1>5, <1>6, <1>7, <1>8 DEF TypeOK
<1>10. SenderInv'
  <2>1. /\ swnd'.base = swnd.base /\ swnd'.last_seq = swnd.last_seq
        /\ swnd'.msg_seq = swnd.msg_seq
        /\ \A j \in Slots :
             swnd'.timeout[j] = IF j = j0 THEN Armed ELSE swnd.timeout[j]
    BY <1>1, <1>5 DEF TypeOK
  <2>2. \A j \in Slots : SendMsg(j)' = SendMsg(j)
    BY <1>5, <2>1 DEF SendMsg, Offset
  <2> QED BY <1>1, <1>4, <1>5, <2>1, <2>2 DEF SenderInv
<1>11. sent' \in Nat /\ sent <= sent'
  BY <1>1, <1>5, Counts
<1> QED BY <1>5, <1>6, <1>9, <1>10, <1>11, ReceiverFrame, AckFrame,
           AgreementFrame DEF IInv

-----------------------------------------------------------------------------
(* Taking packets off the channels *)

\* In order means: from the front.
LEMMA FirstOnly ==
    ASSUME ~Reordering, NEW S, NEW net \in Seq(S), NEW i \in Arrivals(net)
    PROVE  i = 1 /\ Len(net) > 0
<1>1. i \in 1 .. Len(net) /\ Len(net) \in Nat
  BY LenProperties DEF Arrivals
<1>2. i = 1
  BY DEF Arrivals
<1> QED BY <1>1, <1>2

\* What is left of the DATA packets satisfies the invariant, for every receiver
\* that is not too far ahead of them.
LEMMA DataRemoved ==
    ASSUME TypeOK, DataInv, Len(data_net) > 0, data_net' = Without(data_net, 1),
           sent' = sent,
           \A i \in 2 .. Len(data_net) :
              /\ InOrderCount' < data_net[i].msg + WINDOWSIZE
              /\ \A j \in Slots :
                   Early(j)' => RecvMsg(j)' < data_net[i].msg + WINDOWSIZE
    PROVE  data_net' \in Seq(DataPackets) /\ DataInv'
<1>1. PICK n \in Nat : n + 1 = Len(data_net) /\ n = Len(data_net) - 1
  <2>1. PICK m \in Nat : m = Len(data_net) /\ m > 0
    BY PacketTypes
  <2>2. m - 1 \in Nat /\ (m - 1) + 1 = m
    BY <2>1
  <2> QED BY <2>1, <2>2
<1>2. /\ data_net' \in Seq(DataPackets)
      /\ Len(data_net') = n
      /\ \A k \in 1 .. n : data_net'[k] = data_net[k + 1]
  BY <1>1, WithoutFirst DEF TypeOK
<1>3. \A k \in 1 .. n : k + 1 \in 1 .. n + 1 /\ k + 1 \in 2 .. n + 1
  OBVIOUS
<1>4. ASSUME NEW i \in 1 .. n
      PROVE  /\ data_net'[i].seq = SeqOf(data_net'[i].msg)
             /\ data_net'[i].msg <= sent'
             /\ InOrderCount' < data_net'[i].msg + WINDOWSIZE
             /\ \A j \in Slots :
                  Early(j)' => RecvMsg(j)' < data_net'[i].msg + WINDOWSIZE
  BY <1>1, <1>2, <1>3 DEF DataInv
<1>5. ASSUME NEW i \in 1 .. n, NEW k \in 1 .. n, i < k
      PROVE  data_net'[i].msg < data_net'[k].msg + WINDOWSIZE
  <2>1. i + 1 \in 1 .. n + 1 /\ k + 1 \in 1 .. n + 1 /\ i + 1 < k + 1
    BY <1>5
  <2> QED BY <1>1, <1>2, <2>1 DEF DataInv
<1> QED BY <1>2, <1>4, <1>5 DEF DataInv

\* As DataRemoved, when the receiver does not change at all.
LEMMA DataRemovedOnly ==
    ASSUME TypeOK, DataInv, Len(data_net) > 0, data_net' = Without(data_net, 1),
           UNCHANGED <<sent, rwnd, delivered>>
    PROVE  data_net' \in Seq(DataPackets) /\ DataInv'
<1>1. InOrderCount' = InOrderCount
  BY DEF InOrderCount
<1>2. \A j \in Slots : RecvMsg(j)' = RecvMsg(j) /\ Early(j)' = Early(j)
  BY <1>1 DEF RecvMsg, Early
<1>3. \A i \in 2 .. Len(data_net) : i \in 1 .. Len(data_net)
  BY PacketTypes
<1>4. \A i \in 2 .. Len(data_net) :
        /\ InOrderCount' < data_net[i].msg + WINDOWSIZE
        /\ \A j \in Slots :
             Early(j)' => RecvMsg(j)' < data_net[i].msg + WINDOWSIZE
  BY <1>1, <1>2, <1>3 DEF DataInv
<1> QED BY <1>4, DataRemoved

LEMMA DropDataStep ==
    ASSUME ~Reordering, IInv, DropData
    PROVE  IInv'
<1>1. TypeOK /\ DataInv /\ data_net \in Seq(DataPackets)
  BY DEF IInv, TypeOK
<1>2. /\ data_net' = Without(data_net, 1) /\ Len(data_net) > 0
      /\ UNCHANGED <<sender, thread, receiver, ack_net>>
  BY <1>1, FirstOnly DEF DropData
<1>3. UNCHANGED <<sent, acked, rwnd, recv_buff, delivered>>
  BY <1>2 DEF sender, receiver
<1>4. data_net' \in Seq(DataPackets) /\ DataInv'
  BY <1>1, <1>2, <1>3, DataRemovedOnly
<1>5. TypeOK'
  BY <1>1, <1>2, <1>4 DEF TypeOK, sender, thread, receiver
<1>6. sent' \in Nat /\ sent <= sent'
  BY <1>1, <1>3, Counts
<1> QED BY <1>2, <1>3, <1>4, <1>5, <1>6, SenderFrame, ReceiverFrame, AckFrame,
           AgreementFrame DEF IInv

\* What is left of the ACKs satisfies the invariant, for every value of acked
\* up to what the first of them acknowledges.
LEMMA AckRemoved ==
    ASSUME TypeOK, AckInv, Len(ack_net) > 0, ack_net' = Without(ack_net, 1),
           UNCHANGED <<rwnd, delivered>>,
           acked' \in Nat, acked' <= ack_net[1].upto
    PROVE  ack_net' \in Seq(AckPackets) /\ AckInv'
<1>1. PICK n \in Nat : n + 1 = Len(ack_net) /\ n = Len(ack_net) - 1
  BY PacketTypes
<1>2. /\ ack_net' \in Seq(AckPackets)
      /\ Len(ack_net') = n
      /\ \A k \in 1 .. n : ack_net'[k] = ack_net[k + 1]
  BY <1>1, WithoutFirst DEF TypeOK
<1>3. InOrderCount' = InOrderCount
  BY DEF InOrderCount
<1>4. ASSUME NEW i \in 1 .. n
      PROVE  /\ ack_net'[i].seq = AckOf(ack_net'[i].upto)
             /\ acked' <= ack_net'[i].upto
             /\ ack_net'[i].upto <= InOrderCount'
  <2>1. i + 1 \in 1 .. n + 1 /\ 1 \in 1 .. n + 1 /\ 1 < i + 1
    OBVIOUS
  <2>2. ack_net[1].upto \in Nat /\ ack_net[i + 1].upto \in Nat
    BY <1>1, <2>1, PacketTypes
  <2>3. ack_net[1].upto <= ack_net[i + 1].upto
    BY <1>1, <2>1 DEF AckInv
  <2>4. acked' <= ack_net[i + 1].upto
    BY <2>2, <2>3
  <2> QED BY <1>1, <1>2, <1>3, <2>1, <2>4 DEF AckInv
<1>5. ASSUME NEW i \in 1 .. n, NEW k \in 1 .. n, i < k
      PROVE  ack_net'[i].upto <= ack_net'[k].upto
  <2>1. i + 1 \in 1 .. n + 1 /\ k + 1 \in 1 .. n + 1 /\ i + 1 < k + 1
    BY <1>5
  <2> QED BY <1>1, <1>2, <2>1 DEF AckInv
<1> QED BY <1>2, <1>4, <1>5 DEF AckInv

LEMMA DropAckStep ==
    ASSUME ~Reordering, IInv, DropAck
    PROVE  IInv'
<1>1. TypeOK /\ AckInv /\ ack_net \in Seq(AckPackets)
  BY DEF IInv, TypeOK
<1>2. /\ ack_net' = Without(ack_net, 1) /\ Len(ack_net) > 0
      /\ UNCHANGED <<sender, thread, receiver, data_net>>
  BY <1>1, FirstOnly DEF DropAck
<1>3. UNCHANGED <<sent, acked, rwnd, recv_buff, delivered>>
  BY <1>2 DEF sender, receiver
<1>4. 1 \in 1 .. Len(ack_net) /\ acked \in Nat /\ sent \in Nat /\ sent <= sent
  BY <1>1, <1>2, PacketTypes, Counts
<1>5. acked' \in Nat /\ acked' <= ack_net[1].upto
  BY <1>1, <1>3, <1>4 DEF AckInv
<1>6. ack_net' \in Seq(AckPackets) /\ AckInv'
  BY <1>1, <1>2, <1>3, <1>5, AckRemoved
<1>7. TypeOK'
  BY <1>1, <1>2, <1>6 DEF TypeOK, sender, thread, receiver
<1> QED BY <1>2, <1>3, <1>4, <1>6, <1>7, SenderFrame, ReceiverFrame, DataFrame,
           AgreementFrame DEF IInv

-----------------------------------------------------------------------------
(* The ACK half of thread R *)

\* An ACK that hits slot j of the send window acknowledges the message of j.
LEMMA AckHitsItsMessage ==
    ASSUME IInv, Len(ack_net) > 0, NEW j \in Slots,
           swnd.msg_seq[j] = ack_net[1].seq
    PROVE  ack_net[1].upto = SendMsg(j)
<1>1. /\ TypeOK /\ SenderInv /\ AgreementInv /\ AckInv
      /\ 1 \in 1 .. Len(ack_net)
  BY PacketTypes DEF IInv
<1>2. PICK u \in Nat, m \in Nat \ {0}, a \in Nat, s \in Nat, r \in Nat :
         /\ u = ack_net[1].upto /\ m = SendMsg(j)
         /\ a = acked /\ s = sent /\ r = InOrderCount
  BY <1>1, Counts, PacketTypes
<1>3. PICK o \in Nat : o = Offset(swnd, j) /\ o < WINDOWSIZE
  BY <1>1, Counts, Constants
<1>4. m = a + o + 1
  BY <1>2, <1>3 DEF SendMsg
<1>5. a <= u /\ u <= r /\ r <= s /\ s <= a + WINDOWSIZE
  BY <1>1, <1>2 DEF AckInv, AgreementInv, SenderInv
<1>6. SeqOf(m) = AckOf(u) /\ SeqOf(m) \in 1 .. MAXSEQ
  <2>1. 0 \in 0 .. MAXSEQ
    BY Constants
  <2> QED BY <1>1, <1>2, <2>1, SeqAdd DEF SenderInv, AckInv
<1>7. u # 0 /\ SeqOf(m) = SeqOf(u)
  BY <1>6 DEF AckOf
<1>8. m - u < MAXSEQ /\ u - m < MAXSEQ
  <2>1. PICK w \in Nat, x \in Nat : w = WINDOWSIZE /\ x = MAXSEQ /\ w < x
    BY Constants
  <2>2. m - u <= w
    BY <1>3, <1>4, <1>5, <2>1
  <2>3. u - m < w
    BY <1>4, <1>5, <2>1
  <2> QED BY <2>1, <2>2, <2>3
<1>9. m = u
  BY <1>2, <1>7, <1>8, SeqInjective
<1> QED BY <1>2, <1>9

LEMMA AckSlidesStep ==
    ASSUME IInv, Len(ack_net) > 0, AckSlides(ack_net[1]),
           ack_net' = Without(ack_net, 1),
           UNCHANGED <<send_buff, sent, thread, receiver, data_net>>
    PROVE  IInv'
<1>1. /\ TypeOK /\ SenderInv /\ AgreementInv /\ AckInv
      /\ 1 \in 1 .. Len(ack_net)
  BY PacketTypes DEF IInv
<1> DEFINE p == ack_net[1]
           first(n) == {k \in Slots : Offset(swnd, k) < n}
<1>2. PICK j0 \in Slots :
        /\ IsFirstHit(swnd, p.seq, j0)
        /\ swnd' = [Slide(swnd, Offset(swnd, j0) + 1) EXCEPT
                       !.size    = p.rwnd,
                       !.timeout = [k \in Slots |->
                                       IF k \in first(Offset(swnd, j0) + 1)
                                       THEN Unset ELSE swnd.timeout[k]]]
        /\ send_buff_empty' = [k \in Slots |->
                                  k \in first(Offset(swnd, j0) + 1)
                                    \/ send_buff_empty[k]]
        /\ acked' = acked + (Offset(swnd, j0) + 1)
  BY DEF AckSlides, AckFrees
<1>3. PICK n \in 1 .. WINDOWSIZE :
        n = Offset(swnd, j0) + 1 /\ n \in 0 .. WINDOWSIZE
  <2>1. PICK o \in Nat : o = Offset(swnd, j0) /\ o < WINDOWSIZE
    BY <1>1, Counts, Constants
  <2>2. o + 1 \in 1 .. WINDOWSIZE /\ o + 1 \in 0 .. WINDOWSIZE
    BY <2>1, Constants
  <2> QED BY <2>1, <2>2
<1>4. PICK a \in Nat, s \in Nat, r \in Nat, u \in Nat :
        a = acked /\ s = sent /\ r = InOrderCount /\ u = p.upto
  BY <1>1, Counts, PacketTypes
<1>5. u = a + n
  <2>1. p.upto = SendMsg(j0)
    BY <1>2, AckHitsItsMessage DEF IsFirstHit
  <2>2. PICK o \in Nat : o = Offset(swnd, j0)
    BY <1>1, Counts, Constants
  <2> QED BY <1>3, <1>4, <2>1, <2>2 DEF SendMsg
<1>6. a <= u /\ u <= r /\ r <= s /\ s <= a + WINDOWSIZE
  BY <1>1, <1>4 DEF AckInv, AgreementInv, SenderInv
<1>7. acked' = u
  BY <1>2, <1>3, <1>4, <1>5
<1>8. UNCHANGED <<s_pc, s_ctr, rwnd, recv_buff, nospace, delivered>>
  BY DEF thread, receiver
<1>9. InOrderCount' = r
  BY <1>4, <1>8 DEF InOrderCount
<1>10. /\ swnd'.base = At(swnd, n) /\ swnd'.size = p.rwnd
       /\ swnd'.last_seq = NthSeq(swnd.last_seq, n)
       /\ \A k \in Slots :
            /\ swnd'.msg_seq[k] = IF Offset(swnd, k) < n
                                  THEN NthSeq(swnd.last_seq, Offset(swnd, k) + 1)
                                  ELSE swnd.msg_seq[k]
            /\ swnd'.timeout[k] = IF Offset(swnd, k) < n THEN Unset
                                  ELSE swnd.timeout[k]
            /\ send_buff_empty'[k] = (Offset(swnd, k) < n \/ send_buff_empty[k])
  BY <1>1, <1>2, <1>3 DEF Slide, TypeOK
<1> HIDE DEF p, first
<1>11. TypeOK'
  <2>1. swnd' \in [base : Slots, size : 0 .. WINDOWSIZE, last_seq : 1 .. MAXSEQ,
                   msg_seq : [Slots -> 1 .. MAXSEQ],
                   timeout : [Slots -> {Unset, Armed}]]
    <3>1. /\ At(swnd, n) \in Slots
          /\ NthSeq(swnd.last_seq, n) \in 1 .. MAXSEQ
          /\ [j \in Slots |-> IF Offset(swnd, j) < n
                              THEN NthSeq(swnd.last_seq, Offset(swnd, j) + 1)
                              ELSE swnd.msg_seq[j]] \in [Slots -> 1 .. MAXSEQ]
      BY <1>1, SlideType DEF TypeOK
    <3>2. p.rwnd \in 0 .. WINDOWSIZE
      BY <1>1, PacketTypes DEF p
    <3>3. [k \in Slots |-> IF k \in first(n) THEN Unset ELSE swnd.timeout[k]]
             \in [Slots -> {Unset, Armed}]
      BY <1>1 DEF TypeOK
    <3> QED BY <1>1, <1>2, <1>3, <3>1, <3>2, <3>3 DEF Slide, TypeOK
  <2>2. send_buff_empty' \in [Slots -> BOOLEAN]
    BY <1>1, <1>2, <1>3 DEF TypeOK, first
  <2>3. acked' \in 0 .. MaxMsgs
    <3>1. s <= MaxMsgs
      BY <1>1, <1>4 DEF TypeOK
    <3> QED BY <1>4, <1>6, <1>7, <3>1, Constants
  <2>4. ack_net' \in Seq(AckPackets)
    BY <1>1, WithoutFirst DEF TypeOK
  <2> QED BY <1>1, <1>8, <2>1, <2>2, <2>3, <2>4 DEF TypeOK
<1>12. SenderInv'
  <2>1. /\ NthSeq(swnd.last_seq, n) = SeqOf(a + n + WINDOWSIZE)
        /\ \A j \in Slots : NthSeq(swnd.last_seq, Offset(swnd, j) + 1) =
                              SeqOf(a + Offset(swnd, j) + 1 + WINDOWSIZE)
    BY <1>1, <1>4, Counts, SlideNumbers DEF SenderInv
  <2>2. acked' <= sent' /\ sent' <= acked' + WINDOWSIZE
    BY <1>4, <1>5, <1>6, <1>7, Constants
  <2>3. swnd'.last_seq = SeqOf(acked' + WINDOWSIZE)
    BY <1>5, <1>7, <1>10, <2>1
  <2>4. ASSUME NEW j \in Slots
        PROVE  /\ swnd'.msg_seq[j] = SeqOf(SendMsg(j)')
               /\ send_buff_empty'[j] <=> SendMsg(j)' > sent'
               /\ ~send_buff_empty'[j] => send_buff'[j] = SendMsg(j)'
               /\ swnd'.timeout[j] # Unset => ~send_buff_empty'[j]
    <3>1. PICK o \in Nat : o = Offset(swnd, j) /\ o < WINDOWSIZE
      BY <1>1, Counts, Constants
    <3>2. Offset(swnd', j) = IF o < n THEN o - n + WINDOWSIZE ELSE o - n
      <4>1. swnd.base \in Slots /\ swnd'.base = At(swnd, n) /\ n \in 0 .. WINDOWSIZE
        BY <1>1, <1>3, <1>10, Counts
      <4>2. Offset(swnd', j) = IF Offset(swnd, j) < n
                               THEN Offset(swnd, j) - n + WINDOWSIZE
                               ELSE Offset(swnd, j) - n
        BY <4>1, OffsetAfterSlide
      <4> QED BY <3>1, <4>2
    <3>3. SendMsg(j)' = u + Offset(swnd', j) + 1
      BY <1>7 DEF SendMsg, Offset
    <3>4. CASE o < n
      <4>1. SendMsg(j)' = a + o + 1 + WINDOWSIZE
        BY <1>5, <3>1, <3>2, <3>3, <3>4, Constants
      <4>2. send_buff_empty'[j] /\ swnd'.timeout[j] = Unset
        BY <1>10, <3>1, <3>4
      <4>3. swnd'.msg_seq[j] = SeqOf(SendMsg(j)')
        BY <1>10, <2>1, <3>1, <3>4, <4>1
      <4>4. SendMsg(j)' > sent'
        BY <1>4, <1>6, <4>1, <3>1, Constants
      <4> QED BY <4>2, <4>3, <4>4
    <3>5. CASE ~(o < n)
      <4>1. SendMsg(j)' = a + o + 1
        BY <1>5, <3>1, <3>2, <3>3, <3>5, Constants
      <4>2. SendMsg(j)' = SendMsg(j)
        BY <1>4, <3>1, <4>1 DEF SendMsg
      <4>3. /\ swnd'.msg_seq[j] = swnd.msg_seq[j]
            /\ swnd'.timeout[j] = swnd.timeout[j]
            /\ send_buff_empty'[j] = send_buff_empty[j]
        BY <1>1, <1>10, <3>1, <3>5 DEF TypeOK
      <4> QED BY <1>1, <4>2, <4>3 DEF SenderInv
    <3> QED BY <3>4, <3>5
  <2> QED BY <2>2, <2>3, <2>4 DEF SenderInv
<1>13. AgreementInv'
  BY <1>4, <1>6, <1>7, <1>9 DEF AgreementInv
<1>14. AckInv'
  <2>1. acked' \in Nat /\ acked' <= ack_net[1].upto
    BY <1>4, <1>7 DEF p
  <2> QED BY <1>1, <1>8, <2>1, AckRemoved, PacketTypes
<1>15. sent' \in Nat /\ sent <= sent'
  BY <1>4
<1> QED BY <1>1, <1>8, <1>11, <1>12, <1>13, <1>14, <1>15, ReceiverFrame, DataFrame
           DEF IInv

LEMMA AckResizesStep ==
    ASSUME IInv, Len(ack_net) > 0, AckOnlyResizes(ack_net[1]),
           ack_net' = Without(ack_net, 1),
           UNCHANGED <<send_buff, sent, thread, receiver, data_net>>
    PROVE  IInv'
<1>1. /\ TypeOK /\ SenderInv /\ AgreementInv /\ AckInv
      /\ 1 \in 1 .. Len(ack_net)
  BY PacketTypes DEF IInv
<1>2. /\ swnd' = [swnd EXCEPT !.size = ack_net[1].rwnd]
      /\ UNCHANGED <<send_buff_empty, acked, s_pc, s_ctr, rwnd, recv_buff,
                     nospace, delivered>>
  BY DEF AckOnlyResizes, thread, receiver
<1>3. acked' \in Nat /\ acked' <= ack_net[1].upto
  BY <1>1, <1>2, Counts DEF AckInv
<1>4. ack_net' \in Seq(AckPackets) /\ AckInv'
  BY <1>1, <1>2, <1>3, AckRemoved
<1>5. /\ swnd'.base = swnd.base /\ swnd'.last_seq = swnd.last_seq
      /\ swnd'.msg_seq = swnd.msg_seq /\ swnd'.timeout = swnd.timeout
  BY <1>1, <1>2 DEF TypeOK
<1>6. TypeOK'
  <2>1. swnd' \in [base : Slots, size : 0 .. WINDOWSIZE, last_seq : 1 .. MAXSEQ,
                   msg_seq : [Slots -> 1 .. MAXSEQ],
                   timeout : [Slots -> {Unset, Armed}]]
    <3>1. ack_net[1].rwnd \in 0 .. WINDOWSIZE
      BY <1>1, PacketTypes
    <3> QED BY <1>1, <1>2, <3>1 DEF TypeOK
  <2> QED BY <1>1, <1>2, <1>4, <2>1 DEF TypeOK
<1>7. SenderInv'
  <2>1. \A j \in Slots : SendMsg(j)' = SendMsg(j)
    BY <1>2, <1>5 DEF SendMsg, Offset
  <2> QED BY <1>1, <1>2, <1>5, <2>1 DEF SenderInv
<1>8. sent' \in Nat /\ sent <= sent'
  BY <1>1, Counts
<1> QED BY <1>1, <1>2, <1>4, <1>6, <1>7, <1>8, ReceiverFrame, DataFrame,
           AgreementFrame DEF IInv

LEMMA AckArrivesStep ==
    ASSUME ~Reordering, IInv, AckArrives
    PROVE  IInv'
<1>1. ack_net \in Seq(AckPackets)
  BY DEF IInv, TypeOK
<1>2. PICK i \in Arrivals(ack_net) :
         /\ ack_net' = Without(ack_net, i)
         /\ AckSlides(ack_net[i]) \/ AckOnlyResizes(ack_net[i])
  BY DEF AckArrives
<1>3. i = 1 /\ Len(ack_net) > 0
  BY <1>1, FirstOnly
<1>4. UNCHANGED <<send_buff, sent, thread, receiver, data_net>>
  BY DEF AckArrives
<1> QED BY <1>2, <1>3, <1>4, AckSlidesStep, AckResizesStep

-----------------------------------------------------------------------------
(* The receiving side *)

\* The ACKs under way, with one more for what is received in order now.
LEMMA AckSent ==
    ASSUME TypeOK, AckInv, AgreementInv, NEW p \in AckPackets,
           ack_net' = Append(ack_net, p),
           p.seq = AckOf(p.upto), p.upto = InOrderCount',
           InOrderCount' \in Nat, InOrderCount <= InOrderCount', acked' = acked
    PROVE  ack_net' \in Seq(AckPackets) /\ AckInv'
<1>1. PICK n \in Nat : n = Len(ack_net)
  BY PacketTypes
<1>2. /\ ack_net' \in Seq(AckPackets)
      /\ Len(ack_net') = n + 1
      /\ \A i \in 1 .. n : ack_net'[i] = ack_net[i]
      /\ ack_net'[n + 1] = p
  BY <1>1, AppendProperties DEF TypeOK
<1>3. PICK r \in Nat, q \in Nat, a \in Nat :
         r = InOrderCount /\ q = InOrderCount' /\ a = acked /\ r <= q /\ a <= r
  BY Counts DEF AgreementInv
<1>4. ASSUME NEW i \in 1 .. n + 1
      PROVE  /\ ack_net'[i].seq = AckOf(ack_net'[i].upto)
             /\ acked' <= ack_net'[i].upto
             /\ ack_net'[i].upto <= InOrderCount'
  <2>1. CASE i = n + 1
    BY <1>2, <1>3, <2>1
  <2>2. CASE i # n + 1
    <3>1. i \in 1 .. n
      BY <2>2
    <3>2. PICK u \in Nat : u = ack_net[i].upto /\ u <= r
      BY <1>1, <1>3, <3>1, PacketTypes DEF AckInv
    <3> QED BY <1>1, <1>2, <1>3, <3>1, <3>2 DEF AckInv
  <2> QED BY <2>1, <2>2
<1>5. ASSUME NEW i \in 1 .. n + 1, NEW k \in 1 .. n + 1, i < k
      PROVE  ack_net'[i].upto <= ack_net'[k].upto
  <2>1. i \in 1 .. n
    BY <1>5
  <2>2. CASE k = n + 1
    <3>1. PICK u \in Nat : u = ack_net[i].upto /\ u <= r
      BY <1>1, <1>3, <2>1, PacketTypes DEF AckInv
    <3> QED BY <1>2, <1>3, <2>1, <2>2, <3>1
  <2>3. CASE k # n + 1
    <3>1. k \in 1 .. n
      BY <2>3
    <3> QED BY <1>1, <1>2, <1>5, <2>1, <3>1 DEF AckInv
  <2> QED BY <2>2, <2>3
<1> QED BY <1>2, <1>4, <1>5 DEF AckInv

\* The acknowledgement that the present receive window sends is one of the
\* invariant's.
LEMMA LastAckAgain ==
    ASSUME IInv, ack_net' = Append(ack_net, AckPacket(rwnd, InOrderCount)),
           UNCHANGED <<rwnd, delivered, acked>>
    PROVE  ack_net' \in Seq(AckPackets) /\ AckInv'
<1>1. TypeOK /\ ReceiverInv /\ AgreementInv /\ AckInv
  BY DEF IInv
<1>2. InOrderCount' = InOrderCount /\ InOrderCount \in Nat
  BY <1>1, Counts DEF InOrderCount
<1>3. PICK r \in Nat : r = InOrderCount /\ r <= InOrderCount /\ r \in 0 .. MaxMsgs
  <2>1. PICK r \in Nat, s \in 0 .. MaxMsgs : r = InOrderCount /\ s = sent /\ r <= s
    BY <1>1, <1>2 DEF TypeOK, AgreementInv
  <2> QED BY <2>1, Constants
<1>4. PICK p \in AckPackets : /\ p = AckPacket(rwnd, InOrderCount)
                              /\ p.seq = AckOf(InOrderCount)
                              /\ p.upto = InOrderCount
  <2>1. rwnd.last_ack \in 0 .. MAXSEQ /\ rwnd.size \in 0 .. WINDOWSIZE
    BY <1>1 DEF TypeOK
  <2>2. rwnd.last_ack = AckOf(InOrderCount)
    BY <1>1 DEF ReceiverInv
  <2> QED BY <1>3, <2>1, <2>2 DEF AckPacket, AckPackets
<1> QED BY <1>1, <1>2, <1>3, <1>4, AckSent

LEMMA WindowUpdateStep ==
    ASSUME IInv, WindowUpdate
    PROVE  IInv'
<1>1. TypeOK
  BY DEF IInv
<1>2. /\ ack_net' = Append(ack_net, AckPacket(rwnd, InOrderCount))
      /\ UNCHANGED <<sender, thread, receiver, data_net>>
  BY DEF WindowUpdate
<1>3. UNCHANGED <<sent, acked, rwnd, recv_buff, delivered>>
  BY <1>2 DEF sender, receiver
<1>4. ack_net' \in Seq(AckPackets) /\ AckInv'
  BY <1>2, <1>3, LastAckAgain
<1>5. TypeOK'
  BY <1>1, <1>2, <1>4 DEF TypeOK, sender, thread, receiver
<1>6. sent' \in Nat /\ sent <= sent'
  BY <1>1, <1>3, Counts
<1> QED BY <1>2, <1>3, <1>4, <1>5, <1>6, SenderFrame, ReceiverFrame, DataFrame,
           AgreementFrame DEF IInv

LEMMA DuplicateStep ==
    ASSUME IInv, Len(data_net) > 0, DuplicateMessage(data_net[1]),
           data_net' = Without(data_net, 1), nospace' \in BOOLEAN,
           UNCHANGED <<sender, thread, delivered>>
    PROVE  IInv'
<1>1. TypeOK /\ DataInv
  BY DEF IInv
<1>2. /\ ack_net' = Append(ack_net, AckPacket(rwnd, InOrderCount))
      /\ UNCHANGED <<rwnd, recv_buff>>
  BY DEF DuplicateMessage
<1>3. UNCHANGED <<sent, acked>>
  BY DEF sender
<1>4. ack_net' \in Seq(AckPackets) /\ AckInv'
  BY <1>2, <1>3, LastAckAgain
<1>5. data_net' \in Seq(DataPackets) /\ DataInv'
  BY <1>1, <1>2, <1>3, DataRemovedOnly
<1>6. TypeOK'
  BY <1>1, <1>2, <1>4, <1>5 DEF TypeOK, sender, thread
<1>7. sent' \in Nat /\ sent <= sent'
  BY <1>1, <1>3, Counts
<1> QED BY <1>2, <1>3, <1>4, <1>5, <1>6, <1>7, SenderFrame, ReceiverFrame,
           AgreementFrame DEF IInv

\* A DATA packet that hits slot j of the receive window brings the message of j.
LEMMA DataHitsItsMessage ==
    ASSUME IInv, Len(data_net) > 0, NEW j \in Slots,
           rwnd.msg_seq[j] = data_net[1].seq
    PROVE  data_net[1].msg = RecvMsg(j)
<1>1. /\ TypeOK /\ SenderInv /\ ReceiverInv /\ AgreementInv /\ DataInv
      /\ 1 \in 1 .. Len(data_net)
  BY PacketTypes DEF IInv
<1>2. PICK m \in Nat \ {0}, x \in Nat \ {0}, a \in Nat, s \in Nat, r \in Nat :
         /\ m = data_net[1].msg /\ x = RecvMsg(j)
         /\ a = acked /\ s = sent /\ r = InOrderCount
  BY <1>1, Counts, PacketTypes
<1>3. PICK o \in Nat : o = Offset(rwnd, j) /\ o < WINDOWSIZE
  BY <1>1, Counts, Constants
<1>4. x = r + o + 1
  BY <1>2, <1>3 DEF RecvMsg
<1>5. m <= s /\ r < m + WINDOWSIZE /\ a <= r /\ s <= a + WINDOWSIZE
  BY <1>1, <1>2 DEF DataInv, AgreementInv, SenderInv
<1>6. SeqOf(m) = SeqOf(x)
  BY <1>1, <1>2 DEF ReceiverInv, DataInv
<1>7. m - x < MAXSEQ /\ x - m < MAXSEQ
  <2>1. PICK w \in Nat, q \in Nat : w = WINDOWSIZE /\ q = MAXSEQ /\ 2 * w <= q
    BY Constants
  <2> QED BY <1>2, <1>3, <1>4, <1>5, <2>1
<1> QED BY <1>2, <1>6, <1>7, SeqInjective

LEMMA NewMessageStep ==
    ASSUME IInv, Len(data_net) > 0, NewMessage(data_net[1]),
           data_net' = Without(data_net, 1), nospace' \in BOOLEAN,
           UNCHANGED <<sender, thread, delivered>>
    PROVE  IInv'
<1>1. /\ TypeOK /\ ReceiverInv /\ AgreementInv /\ DataInv /\ AckInv
      /\ 1 \in 1 .. Len(data_net)
  BY PacketTypes DEF IInv
<1> DEFINE p == data_net[1]
           stored(j) == [rwnd EXCEPT
                            !.received = [rwnd.received EXCEPT ![j] = TRUE]]
           slid(j, n) == [Slide(stored(j), n) EXCEPT
                             !.last_ack = stored(j).msg_seq[At(stored(j), n - 1)],
                             !.size     = rwnd.size - n]
<1>2. PICK j0 \in Slots, n \in 0 .. rwnd.size :
        /\ IsFirstHit(rwnd, p.seq, j0)
        /\ ~rwnd.received[j0]
        /\ IsReceivedRun([rwnd.received EXCEPT ![j0] = TRUE], n)
        /\ recv_buff' = [recv_buff EXCEPT ![j0] = p.msg]
        /\ \/ /\ n = 0
              /\ rwnd' = stored(j0)
              /\ UNCHANGED ack_net
           \/ /\ n > 0
              /\ rwnd' = slid(j0, n)
              /\ ack_net' = Append(ack_net,
                                   AckPacket(slid(j0, n), InOrderCount + n))
  BY DEF NewMessage
<1>3. PICK z \in 0 .. WINDOWSIZE, d \in Nat, r \in Nat, s \in 0 .. MaxMsgs :
        /\ z = rwnd.size /\ d = Len(delivered) /\ r = InOrderCount /\ s = sent
        /\ r = d + WINDOWSIZE - z /\ n <= z /\ n \in 0 .. WINDOWSIZE
        /\ n \in Nat /\ z \in Nat /\ z - n \in 0 .. WINDOWSIZE
  <2>1. PICK z \in 0 .. WINDOWSIZE, d \in Nat, r \in Nat, s \in 0 .. MaxMsgs :
           z = rwnd.size /\ d = Len(delivered) /\ r = InOrderCount /\ s = sent
    BY <1>1, Counts DEF TypeOK
  <2>2. r = d + WINDOWSIZE - z
    BY <2>1 DEF InOrderCount
  <2>3. /\ n <= z /\ n \in 0 .. WINDOWSIZE
        /\ n \in Nat /\ z \in Nat /\ z - n \in 0 .. WINDOWSIZE
    BY <2>1, Constants
  <2> QED BY <2>1, <2>2, <2>3
<1>4. \A j \in Slots : /\ Offset(rwnd, j) \in Slots
                        /\ Offset(rwnd, j) \in Nat /\ Offset(rwnd, j) < WINDOWSIZE
                        /\ RecvMsg(j) = r + Offset(rwnd, j) + 1
                        /\ RecvMsg(j) \in Nat
  BY <1>1, <1>3, Counts, Constants DEF RecvMsg
<1>5. /\ p.msg = RecvMsg(j0) /\ Offset(rwnd, j0) < z
      /\ p.msg \in Nat /\ p.msg <= s /\ p.msg \in 1 .. MaxMsgs
  <2>1. p.msg = RecvMsg(j0) /\ Offset(rwnd, j0) < z
    BY <1>2, <1>3, DataHitsItsMessage DEF IsFirstHit
  <2>2. p.msg \in Nat \ {0} /\ p.msg <= s
    BY <1>1, <1>3, PacketTypes DEF DataInv
  <2> QED BY <2>1, <2>2, Constants
<1>6. UNCHANGED <<swnd, send_buff, send_buff_empty, sent, acked, s_pc, s_ctr>>
  BY DEF sender, thread
\* What the slots hold once the message is stored.
<1> DEFINE Known(j) == Early(j) \/ j = j0
<1>7. ASSUME NEW j \in Slots, Known(j)
      PROVE  /\ recv_buff'[j] = RecvMsg(j) /\ RecvMsg(j) <= s
             /\ \A i \in 2 .. Len(data_net) :
                  RecvMsg(j) < data_net[i].msg + WINDOWSIZE
  <2>1. \A i \in 2 .. Len(data_net) : i \in 1 .. Len(data_net) /\ 1 < i
    BY <1>1, PacketTypes
  <2>2. CASE j = j0
    <3>1. recv_buff'[j] = RecvMsg(j)
      BY <1>1, <1>2, <1>5, <2>2 DEF TypeOK
    <3>2. \A i \in 2 .. Len(data_net) : p.msg < data_net[i].msg + WINDOWSIZE
      BY <1>1, <2>1 DEF DataInv
    <3> QED BY <1>5, <2>2, <3>1, <3>2
  <2>3. CASE j # j0
    <3>1. Early(j)
      BY <1>7, <2>3
    <3>2. recv_buff'[j] = recv_buff[j]
      BY <1>1, <1>2, <2>3 DEF TypeOK
    <3> QED BY <1>1, <1>3, <2>1, <3>1, <3>2 DEF ReceiverInv, DataInv
  <2> QED BY <2>2, <2>3
<1>8. \A j \in Slots : Offset(rwnd, j) < n => Known(j)
  <2> SUFFICES ASSUME NEW j \in Slots, Offset(rwnd, j) < n
               PROVE  Known(j)
    OBVIOUS
  <2>1. PICK o \in Nat : o = Offset(rwnd, j) /\ o \in 0 .. n - 1 /\ o < z
    BY <1>3, <1>4
  <2>2. At(rwnd, o) = j
    BY <1>1, <2>1, Counts, AtOffset
  <2>3. [rwnd.received EXCEPT ![j0] = TRUE][j]
    BY <1>2, <2>1, <2>2 DEF IsReceivedRun
  <2>4. j = j0 \/ rwnd.received[j]
    BY <1>1, <2>3 DEF TypeOK
  <2> QED BY <1>3, <2>1, <2>4 DEF Early
<1>9. n > 0 => \E j \in Slots : /\ j = At(rwnd, n - 1) /\ Known(j)
                                /\ RecvMsg(j) = r + n
  <2> SUFFICES ASSUME n > 0
               PROVE  \E j \in Slots : /\ j = At(rwnd, n - 1) /\ Known(j)
                                        /\ RecvMsg(j) = r + n
    OBVIOUS
  <2>1. PICK k \in Slots : k = n - 1
    BY <1>3, Constants DEF Slots
  <2>2. PICK j \in Slots : j = At(rwnd, k) /\ Offset(rwnd, j) = k
    BY <1>1, Counts, OffsetAt
  <2>3. k < n /\ r + k + 1 = r + n
    BY <1>3, <2>1
  <2> QED BY <1>4, <1>8, <2>1, <2>2, <2>3
<1> HIDE DEF Known
\* The new window, whether it slides or not.
<1>10. /\ rwnd'.base = At(rwnd, n) /\ rwnd'.size = z - n
       /\ \A j \in Slots : rwnd'.received[j] = (j = j0 \/ rwnd.received[j])
  <2>1. CASE n = 0
    <3>1. At(rwnd, 0) = rwnd.base
      <4>1. 0 \in 0 .. WINDOWSIZE /\ rwnd.base \in Slots /\ rwnd.base \in Nat
            /\ rwnd.base < WINDOWSIZE
        BY <1>1, Counts, Constants
      <4>2. rwnd.base + 0 = rwnd.base
        BY <4>1
      <4> QED BY <4>1, <4>2, AtValue
    <3>2. /\ rwnd'.base = rwnd.base /\ rwnd'.size = rwnd.size
          /\ \A j \in Slots : rwnd'.received[j] = (j = j0 \/ rwnd.received[j])
      <4>1. rwnd' = stored(j0)
        BY <1>2, <2>1
      <4> QED BY <1>1, <4>1 DEF TypeOK
    <3> QED BY <1>3, <2>1, <3>1, <3>2
  <2>2. CASE n > 0
    <3>1. rwnd' = slid(j0, n)
      BY <1>2, <2>2
    <3>2. /\ rwnd'.base = At(rwnd, n) /\ rwnd'.size = rwnd.size - n
          /\ \A j \in Slots : rwnd'.received[j] = (j = j0 \/ rwnd.received[j])
      BY <1>1, <3>1 DEF TypeOK, Slide, At
    <3> QED BY <1>3, <3>2
  <2> QED BY <1>3, <2>1, <2>2
<1>11. /\ rwnd'.last_seq = SeqOf(r + n + WINDOWSIZE)
       /\ rwnd'.last_ack = AckOf(r + n)
       /\ \A j \in Slots :
            rwnd'.msg_seq[j] = IF Offset(rwnd, j) < n
                               THEN SeqOf(r + Offset(rwnd, j) + 1 + WINDOWSIZE)
                               ELSE rwnd.msg_seq[j]
  <2>1. CASE n = 0
    <3>1. /\ rwnd'.last_seq = rwnd.last_seq /\ rwnd'.last_ack = rwnd.last_ack
          /\ rwnd'.msg_seq = rwnd.msg_seq
      <4>1. rwnd' = stored(j0)
        BY <1>2, <2>1
      <4> QED BY <1>1, <4>1 DEF TypeOK
    <3>2. r + n + WINDOWSIZE = r + WINDOWSIZE /\ r + n = r
          /\ \A j \in Slots : ~(Offset(rwnd, j) < n)
      BY <1>3, <1>4, <2>1, Constants
    <3> QED BY <1>1, <1>3, <3>1, <3>2 DEF ReceiverInv
  <2>2. CASE n > 0
    <3>1. rwnd' = slid(j0, n)
      BY <1>2, <2>2
    <3>2. /\ rwnd'.last_seq = NthSeq(rwnd.last_seq, n)
          /\ rwnd'.last_ack = rwnd.msg_seq[At(rwnd, n - 1)]
          /\ \A j \in Slots :
               rwnd'.msg_seq[j] = IF Offset(rwnd, j) < n
                                  THEN NthSeq(rwnd.last_seq, Offset(rwnd, j) + 1)
                                  ELSE rwnd.msg_seq[j]
      BY <1>1, <3>1 DEF TypeOK, Slide, At, Offset
    <3>3. n \in 1 .. WINDOWSIZE
      BY <1>3, <2>2
    <3>4. rwnd.base \in Slots /\ rwnd.last_seq = SeqOf(r + WINDOWSIZE)
      BY <1>1, <1>3, Counts DEF ReceiverInv
    <3>5. /\ NthSeq(rwnd.last_seq, n) = SeqOf(r + n + WINDOWSIZE)
          /\ \A j \in Slots : NthSeq(rwnd.last_seq, Offset(rwnd, j) + 1) =
                                SeqOf(r + Offset(rwnd, j) + 1 + WINDOWSIZE)
      BY <3>3, <3>4, SlideNumbers
    <3>6. rwnd.msg_seq[At(rwnd, n - 1)] = SeqOf(r + n)
      BY <1>1, <1>9, <2>2 DEF ReceiverInv
    <3>7. SeqOf(r + n) = AckOf(r + n)
      BY <1>3, <2>2 DEF AckOf
    <3> QED BY <3>2, <3>5, <3>6, <3>7
  <2> QED BY <1>3, <2>1, <2>2
<1>12. n < z => ~rwnd'.received[rwnd'.base]
  <2> SUFFICES ASSUME n < z
               PROVE  ~rwnd'.received[rwnd'.base]
    OBVIOUS
  <2>1. ~[rwnd.received EXCEPT ![j0] = TRUE][At(rwnd, n)] /\ At(rwnd, n) \in Slots
    BY <1>1, <1>2, <1>3, Counts, AtValue DEF IsReceivedRun
  <2> QED BY <1>1, <1>10, <2>1 DEF TypeOK
<1>13. InOrderCount' = r + n
  <2>1. InOrderCount' = d + WINDOWSIZE - (z - n)
    BY <1>3, <1>10 DEF InOrderCount
  <2>2. r = d + WINDOWSIZE - z /\ WINDOWSIZE \in Nat /\ n \in Nat /\ z \in Nat
    BY <1>3, Constants
  <2> QED BY <2>1, <2>2
<1>14. \A j \in Slots : Offset(rwnd', j) = IF Offset(rwnd, j) < n
                                            THEN Offset(rwnd, j) - n + WINDOWSIZE
                                            ELSE Offset(rwnd, j) - n
  BY <1>1, <1>3, <1>10, Counts, OffsetAfterSlide
<1>15. ASSUME NEW j \in Slots
       PROVE  RecvMsg(j)' = IF Offset(rwnd, j) < n
                            THEN RecvMsg(j) + WINDOWSIZE ELSE RecvMsg(j)
  <2>1. PICK o \in Nat : o = Offset(rwnd, j)
    BY <1>4
  <2>2. RecvMsg(j)' = r + n + Offset(rwnd', j) + 1
    BY <1>13 DEF RecvMsg, Offset
  <2>3. RecvMsg(j) = r + o + 1
    BY <1>4, <2>1
  <2>4. Offset(rwnd', j) = IF o < n THEN o - n + WINDOWSIZE ELSE o - n
    BY <1>14, <2>1
  <2>5. WINDOWSIZE \in Nat /\ n \in Nat
    BY <1>3, Constants
  <2>6. CASE o < n
    <3>1. RecvMsg(j)' = r + n + (o - n + WINDOWSIZE) + 1
      BY <2>2, <2>4, <2>6
    <3> QED BY <2>1, <2>3, <2>5, <2>6, <3>1
  <2>7. CASE ~(o < n)
    <3>1. RecvMsg(j)' = r + n + (o - n) + 1
      BY <2>2, <2>4, <2>7
    <3> QED BY <2>1, <2>3, <2>5, <2>7, <3>1
  <2> QED BY <2>6, <2>7
<1>16. ASSUME NEW j \in Slots
       PROVE  /\ Early(j)' => Known(j) /\ ~(Offset(rwnd, j) < n)
              /\ Offset(rwnd', j) >= z - n =>
                   Offset(rwnd, j) < n \/ Offset(rwnd, j) >= z
  <2>1. PICK o \in Nat : o = Offset(rwnd, j) /\ o < WINDOWSIZE
    BY <1>4
  <2>2. Early(j)' => Offset(rwnd', j) < z - n /\ (j = j0 \/ rwnd.received[j])
    BY <1>10 DEF Early, Offset
  <2>3. Offset(rwnd', j) = IF o < n THEN o - n + WINDOWSIZE ELSE o - n
    BY <1>14, <2>1
  <2>4. /\ n \in Nat /\ z \in Nat /\ WINDOWSIZE \in Nat
        /\ z <= WINDOWSIZE /\ n <= z
    BY <1>3, Constants
  <2>5. CASE o < n
    <3>1. ~(o - n + WINDOWSIZE < z - n)
      BY <2>1, <2>4
    <3> QED BY <1>10, <2>1, <2>2, <2>3, <2>5, <3>1
  <2>6. CASE ~(o < n)
    <3>1. (o - n < z - n <=> o < z) /\ (o - n >= z - n <=> o >= z)
      BY <2>1, <2>4
    <3> QED BY <1>3, <2>1, <2>2, <2>3, <2>6, <3>1 DEF Known, Early
  <2> QED BY <2>5, <2>6
<1>17. ReceiverInv'
  <2>1. ASSUME NEW j \in Slots
        PROVE  /\ rwnd'.msg_seq[j] = SeqOf(RecvMsg(j)')
               /\ Early(j)' => /\ recv_buff'[j] = RecvMsg(j)'
                               /\ RecvMsg(j)' <= sent'
               /\ Offset(rwnd', j) >= rwnd'.size =>
                    /\ rwnd'.received[j]
                    /\ recv_buff'[j] = RecvMsg(j)' - WINDOWSIZE
    <3>1. rwnd'.msg_seq[j] = SeqOf(RecvMsg(j)')
      <4>1. CASE Offset(rwnd, j) < n
        <5>1. RecvMsg(j)' = r + Offset(rwnd, j) + 1 + WINDOWSIZE
          BY <1>4, <1>15, <4>1
        <5> QED BY <1>11, <4>1, <5>1
      <4>2. CASE ~(Offset(rwnd, j) < n)
        BY <1>1, <1>11, <1>15, <4>2 DEF ReceiverInv
      <4> QED BY <4>1, <4>2
    <3>2. Early(j)' => recv_buff'[j] = RecvMsg(j)' /\ RecvMsg(j)' <= sent'
      BY <1>3, <1>6, <1>7, <1>15, <1>16
    <3>3. ASSUME Offset(rwnd', j) >= rwnd'.size
          PROVE  /\ rwnd'.received[j]
                 /\ recv_buff'[j] = RecvMsg(j)' - WINDOWSIZE
      <4>1. CASE Offset(rwnd, j) < n
        <5>1. Known(j) /\ recv_buff'[j] = RecvMsg(j)
          BY <1>7, <1>8, <4>1
        <5>2. rwnd'.received[j]
          BY <1>10, <5>1 DEF Known, Early
        <5>3. RecvMsg(j)' - WINDOWSIZE = RecvMsg(j)
          BY <1>4, <1>15, <4>1, Constants
        <5> QED BY <5>1, <5>2, <5>3
      <4>2. CASE ~(Offset(rwnd, j) < n)
        <5>1. Offset(rwnd, j) >= z
          BY <1>10, <1>16, <3>3, <4>2
        <5>2. j # j0
          BY <1>3, <1>4, <1>5, <5>1
        <5>3. recv_buff'[j] = recv_buff[j]
          BY <1>1, <1>2, <5>2 DEF TypeOK
        <5>4. rwnd.received[j] /\ recv_buff[j] = RecvMsg(j) - WINDOWSIZE
          BY <1>1, <1>3, <5>1 DEF ReceiverInv
        <5> QED BY <1>10, <1>15, <4>2, <5>3, <5>4
      <4> QED BY <4>1, <4>2
    <3> QED BY <3>1, <3>2, <3>3
  <2>2. rwnd'.size > 0 => ~rwnd'.received[rwnd'.base]
    BY <1>3, <1>10, <1>12
  <2>3. \A i \in 1 .. Len(delivered') : delivered'[i] = i
    BY <1>1 DEF ReceiverInv
  <2> QED BY <1>11, <1>13, <2>1, <2>2, <2>3 DEF ReceiverInv, Early
<1>18. r + n \in Nat /\ r + n <= s /\ r <= r + n /\ r + n \in 0 .. MaxMsgs
  <2>1. r <= s
    BY <1>1, <1>3 DEF AgreementInv
  <2>2. CASE n = 0
    BY <1>3, <2>1, <2>2, Constants
  <2>3. CASE n > 0
    <3>1. r + n <= s
      BY <1>7, <1>9, <2>3
    <3>2. MaxMsgs \in Nat
      BY Constants
    <3> QED BY <1>3, <2>3, <3>1, <3>2
  <2> QED BY <1>3, <2>2, <2>3
<1>19. AgreementInv'
  <2>1. PICK a \in Nat : a = acked /\ a <= r
    BY <1>1, <1>3, Counts DEF AgreementInv
  <2>2. a <= r + n
    BY <1>3, <2>1
  <2> QED BY <1>3, <1>6, <1>13, <1>18, <2>1, <2>2 DEF AgreementInv
<1>20. data_net' \in Seq(DataPackets) /\ DataInv'
  <2>1. ASSUME NEW i \in 2 .. Len(data_net)
        PROVE  /\ InOrderCount' < data_net[i].msg + WINDOWSIZE
               /\ \A j \in Slots :
                    Early(j)' => RecvMsg(j)' < data_net[i].msg + WINDOWSIZE
    <3>1. i \in 1 .. Len(data_net)
      BY <1>1, PacketTypes
    <3>2. InOrderCount' < data_net[i].msg + WINDOWSIZE
      <4>1. CASE n = 0
        <5>1. r + n = r
          BY <1>3, <4>1
        <5> QED BY <1>1, <1>3, <1>13, <3>1, <5>1 DEF DataInv
      <4>2. CASE n > 0
        BY <1>7, <1>9, <1>13, <4>2
      <4> QED BY <1>3, <4>1, <4>2
    <3>3. \A j \in Slots :
            Early(j)' => RecvMsg(j)' < data_net[i].msg + WINDOWSIZE
      BY <1>7, <1>15, <1>16
    <3> QED BY <3>2, <3>3
  <2> QED BY <1>1, <1>6, <2>1, DataRemoved
<1>21. ack_net' \in Seq(AckPackets) /\ AckInv'
  <2>1. CASE n = 0
    <3>1. ack_net' = ack_net /\ InOrderCount' = InOrderCount /\ acked' = acked
      BY <1>2, <1>3, <1>6, <1>13, <2>1
    <3> QED BY <1>1, <3>1, AckKept DEF TypeOK
  <2>2. CASE n > 0
    <3>1. rwnd' = slid(j0, n) /\ ack_net' = Append(ack_net, AckPacket(rwnd', r + n))
      BY <1>2, <1>3, <2>2
    <3>2. rwnd'.last_ack \in 0 .. MAXSEQ /\ rwnd'.size \in 0 .. WINDOWSIZE
      <4>1. r + n \in Nat \ {0} /\ rwnd'.last_ack = SeqOf(r + n)
        BY <1>3, <1>11, <1>18, <2>2 DEF AckOf
      <4>2. 0 \in 0 .. MAXSEQ
        BY Constants
      <4>3. SeqOf(r + n) \in 1 .. MAXSEQ
        BY <4>1, <4>2, SeqAdd
      <4>4. SeqOf(r + n) \in 0 .. MAXSEQ
        BY <4>3, Constants
      <4>5. z - n \in 0 .. WINDOWSIZE
        BY <1>3
      <4> QED BY <1>10, <4>1, <4>4, <4>5
    <3>3. PICK q \in AckPackets : /\ q = AckPacket(rwnd', r + n)
                                  /\ q.seq = AckOf(q.upto) /\ q.upto = r + n
      <4>1. AckPacket(rwnd', r + n) \in AckPackets
        BY <1>18, <3>2 DEF AckPacket, AckPackets
      <4>2. /\ AckPacket(rwnd', r + n).seq = rwnd'.last_ack
            /\ AckPacket(rwnd', r + n).upto = r + n
        BY DEF AckPacket
      <4> QED BY <1>11, <4>1, <4>2
    <3>4. InOrderCount <= InOrderCount' /\ InOrderCount' \in Nat
      BY <1>3, <1>13, <1>18
    <3> QED BY <1>1, <1>6, <1>13, <3>1, <3>3, <3>4, AckSent
  <2> QED BY <1>3, <2>1, <2>2
<1>22. TypeOK'
  <2>1. rwnd' \in [base : Slots, size : 0 .. WINDOWSIZE, last_seq : 1 .. MAXSEQ,
                   msg_seq : [Slots -> 1 .. MAXSEQ], last_ack : 0 .. MAXSEQ,
                   received : [Slots -> BOOLEAN]]
    <3>1. stored(j0) \in [base : Slots, size : 0 .. WINDOWSIZE,
                          last_seq : 1 .. MAXSEQ, msg_seq : [Slots -> 1 .. MAXSEQ],
                          last_ack : 0 .. MAXSEQ, received : [Slots -> BOOLEAN]]
      BY <1>1 DEF TypeOK
    <3>2. CASE n = 0
      <4>1. rwnd' = stored(j0)
        BY <1>2, <3>2
      <4> QED BY <3>1, <4>1
    <3>3. CASE n > 0
      <4>1. n \in 1 .. WINDOWSIZE /\ z - n \in 0 .. WINDOWSIZE
        BY <1>3, <3>3
      <4>2. /\ At(stored(j0), n) \in Slots
            /\ NthSeq(stored(j0).last_seq, n) \in 1 .. MAXSEQ
            /\ [j \in Slots |-> IF Offset(stored(j0), j) < n
                   THEN NthSeq(stored(j0).last_seq, Offset(stored(j0), j) + 1)
                   ELSE stored(j0).msg_seq[j]] \in [Slots -> 1 .. MAXSEQ]
        <5>1. /\ stored(j0).base \in Slots /\ stored(j0).last_seq \in 1 .. MAXSEQ
              /\ stored(j0).msg_seq \in [Slots -> 1 .. MAXSEQ]
          BY <3>1
        <5> HIDE DEF stored
        <5> QED BY <4>1, <5>1, SlideType
      <4>3. stored(j0).msg_seq[At(stored(j0), n - 1)] \in 0 .. MAXSEQ
        <5>1. At(rwnd, n - 1) \in Slots
          BY <1>9, <3>3
        <5>2. rwnd.msg_seq[At(rwnd, n - 1)] \in 1 .. MAXSEQ
          BY <1>1, <5>1 DEF TypeOK
        <5>3. \A x \in 1 .. MAXSEQ : x \in 0 .. MAXSEQ
          BY Constants
        <5>4. stored(j0).msg_seq[At(stored(j0), n - 1)] = rwnd.msg_seq[At(rwnd, n - 1)]
          BY <1>1 DEF TypeOK, At
        <5> QED BY <5>2, <5>3, <5>4
      <4>4. rwnd' = slid(j0, n)
        BY <1>2, <3>3
      <4> HIDE DEF stored
      <4> QED BY <1>3, <3>1, <4>1, <4>2, <4>3, <4>4 DEF Slide
    <3> QED BY <1>3, <3>2, <3>3
  <2>2. recv_buff' \in [Slots -> 0 .. MaxMsgs]
    <3>1. p.msg \in 0 .. MaxMsgs
      BY <1>5, Constants
    <3> HIDE DEF p
    <3> QED BY <1>1, <1>2, <3>1 DEF TypeOK
  <2> QED BY <1>1, <1>6, <1>20, <1>21, <2>1, <2>2 DEF TypeOK
<1>23. SenderInv'
  BY <1>6, SenderFrame DEF IInv, sender
<1> QED BY <1>17, <1>19, <1>20, <1>21, <1>22, <1>23 DEF IInv

LEMMA DataArrivesStep ==
    ASSUME ~Reordering, IInv, DataArrives
    PROVE  IInv'
<1>1. data_net \in Seq(DataPackets)
  BY DEF IInv, TypeOK
<1>2. PICK i \in Arrivals(data_net) :
         /\ data_net' = Without(data_net, i)
         /\ NewMessage(data_net[i]) \/ DuplicateMessage(data_net[i])
  BY DEF DataArrives
<1>3. i = 1 /\ Len(data_net) > 0
  BY <1>1, FirstOnly
<1>4. nospace' \in BOOLEAN /\ UNCHANGED <<sender, thread, delivered>>
  BY DEF DataArrives
<1> QED BY <1>2, <1>3, <1>4, NewMessageStep, DuplicateStep

\* k_recvfrom never takes the slot at the base of a window that is still full
\* size, and the message it does take is the next one.
LEMMA NextMessageRead ==
    ASSUME IInv, rwnd.received[At(rwnd, rwnd.size)]
    PROVE  /\ rwnd.size \in Slots
           /\ At(rwnd, rwnd.size) \in Slots
           /\ Offset(rwnd, At(rwnd, rwnd.size)) = rwnd.size
           /\ recv_buff[At(rwnd, rwnd.size)] = Len(delivered) + 1
<1>1. TypeOK /\ ReceiverInv
  BY DEF IInv
<1>2. PICK z \in 0 .. WINDOWSIZE, d \in Nat, b \in Slots :
        z = rwnd.size /\ d = Len(delivered) /\ b = rwnd.base
  BY <1>1, Counts
<1>3. WINDOWSIZE \in Nat /\ WINDOWSIZE > 0 /\ b \in Nat /\ b < WINDOWSIZE
      /\ WINDOWSIZE \in 0 .. WINDOWSIZE
  BY Constants
<1>4. z # WINDOWSIZE
  <2> SUFFICES ASSUME z = WINDOWSIZE
               PROVE  FALSE
    OBVIOUS
  <2>1. ~(b + WINDOWSIZE < WINDOWSIZE) /\ b + WINDOWSIZE - WINDOWSIZE = b
    BY <1>3
  <2>2. At(rwnd, WINDOWSIZE) = b
    BY <1>2, <1>3, <2>1, AtValue
  <2> QED BY <1>1, <1>2, <1>3, <2>2 DEF ReceiverInv
<1>5. z \in Slots
  BY <1>2, <1>3, <1>4 DEF Slots
<1>6. PICK j \in Slots : j = At(rwnd, z) /\ Offset(rwnd, j) = z
  BY <1>1, <1>2, <1>5, OffsetAt
<1>7. recv_buff[j] = RecvMsg(j) - WINDOWSIZE
  <2>1. z >= z
    BY <1>2
  <2> QED BY <1>1, <1>2, <1>6, <2>1 DEF ReceiverInv
<1>8. RecvMsg(j) = (d + WINDOWSIZE - z) + z + 1
  BY <1>2, <1>6 DEF RecvMsg, InOrderCount
<1>9. recv_buff[j] = d + 1
  BY <1>2, <1>3, <1>7, <1>8
<1> QED BY <1>2, <1>5, <1>6, <1>9

LEMMA RecvfromStep ==
    ASSUME IInv, k_recvfrom
    PROVE  IInv'
<1>1. TypeOK /\ ReceiverInv /\ AgreementInv /\ DataInv /\ AckInv
  BY DEF IInv
<1>2. PICK d \in Nat, z \in Slots, slot \in Slots :
        /\ d = Len(delivered) /\ z = rwnd.size /\ slot = At(rwnd, rwnd.size)
        /\ Offset(rwnd, slot) = z
        /\ recv_buff[slot] = d + 1
  BY <1>1, NextMessageRead, Counts DEF k_recvfrom
<1>3. /\ delivered' = Append(delivered, d + 1)
      /\ rwnd' = [rwnd EXCEPT !.received[slot] = FALSE, !.size = @ + 1]
      /\ UNCHANGED <<sender, thread, recv_buff, nospace, data_net, ack_net>>
  BY <1>2 DEF k_recvfrom
<1>4. UNCHANGED <<sent, acked>>
  BY <1>3 DEF sender
<1>5. WINDOWSIZE \in Nat /\ z \in Nat /\ z + 1 \in 0 .. WINDOWSIZE
  BY Constants DEF Slots
<1>6. /\ rwnd'.base = rwnd.base /\ rwnd'.last_seq = rwnd.last_seq
      /\ rwnd'.msg_seq = rwnd.msg_seq /\ rwnd'.last_ack = rwnd.last_ack
      /\ rwnd'.size = z + 1
      /\ \A j \in Slots :
           rwnd'.received[j] = IF j = slot THEN FALSE ELSE rwnd.received[j]
  BY <1>1, <1>2, <1>3 DEF TypeOK
<1>7. d + 1 \in 1 .. MaxMsgs
  <2>1. recv_buff[slot] \in 0 .. MaxMsgs
    BY <1>1 DEF TypeOK
  <2> QED BY <1>2, <2>1, Constants
<1>8. /\ delivered' \in Seq(1 .. MaxMsgs)
      /\ Len(delivered') = d + 1
      /\ \A i \in 1 .. d : delivered'[i] = delivered[i]
      /\ delivered'[d + 1] = d + 1
  BY <1>1, <1>2, <1>3, <1>7, AppendProperties DEF TypeOK
<1>9. InOrderCount' = InOrderCount
  <2>1. InOrderCount = d + WINDOWSIZE - z
    BY <1>2 DEF InOrderCount
  <2>2. InOrderCount' = (d + 1) + WINDOWSIZE - (z + 1)
    BY <1>6, <1>8 DEF InOrderCount
  <2>3. (d + 1) + WINDOWSIZE - (z + 1) = d + WINDOWSIZE - z
    BY <1>5
  <2> QED BY <2>1, <2>2, <2>3
<1>10. \A j \in Slots : /\ RecvMsg(j)' = RecvMsg(j)
                         /\ Offset(rwnd', j) = Offset(rwnd, j)
  BY <1>6, <1>9 DEF RecvMsg, Offset
<1>11. ASSUME NEW j \in Slots
       PROVE  /\ Early(j)' => Early(j)
              /\ Offset(rwnd, j) >= z + 1 => Offset(rwnd, j) >= z /\ j # slot
  <2>1. PICK o \in Nat : o = Offset(rwnd, j)
    BY <1>1, Counts, Constants
  <2>2. o = z => j = slot
    BY <1>1, <1>2, <2>1, Counts, AtOffset
  <2>3. Early(j)' <=> o < z + 1 /\ rwnd'.received[j]
    BY <1>6, <1>10, <2>1 DEF Early
  <2>4. o < z + 1 => o < z \/ o = z
    BY <1>5, <2>1
  <2>5. o >= z + 1 => o >= z /\ o # z
    BY <1>5, <2>1
  <2> QED BY <1>2, <1>6, <2>1, <2>2, <2>3, <2>4, <2>5 DEF Early
<1>12. TypeOK'
  <2>1. rwnd' \in [base : Slots, size : 0 .. WINDOWSIZE, last_seq : 1 .. MAXSEQ,
                   msg_seq : [Slots -> 1 .. MAXSEQ], last_ack : 0 .. MAXSEQ,
                   received : [Slots -> BOOLEAN]]
    BY <1>1, <1>2, <1>3, <1>5 DEF TypeOK
  <2> QED BY <1>1, <1>3, <1>8, <2>1 DEF TypeOK, sender, thread
<1>13. ReceiverInv'
  <2>1. rwnd'.size > 0 => ~rwnd'.received[rwnd'.base]
    <3>1. PICK b \in Slots : b = rwnd.base
      BY <1>1, Counts
    <3>2. CASE z > 0
      BY <1>1, <1>2, <1>6, <3>1, <3>2 DEF ReceiverInv
    <3>3. CASE ~(z > 0)
      <4>1. z = 0
        BY <1>5, <3>3
      <4>2. b + 0 = b /\ b < WINDOWSIZE /\ 0 \in 0 .. WINDOWSIZE
        BY Constants
      <4>3. slot = b
        BY <1>2, <3>1, <4>1, <4>2, AtValue
      <4> QED BY <1>6, <3>1, <4>3
    <3> QED BY <3>2, <3>3
  <2>2. ASSUME NEW j \in Slots
        PROVE  /\ rwnd'.msg_seq[j] = SeqOf(RecvMsg(j)')
               /\ Early(j)' => /\ recv_buff'[j] = RecvMsg(j)'
                               /\ RecvMsg(j)' <= sent'
               /\ Offset(rwnd', j) >= rwnd'.size =>
                    /\ rwnd'.received[j]
                    /\ recv_buff'[j] = RecvMsg(j)' - WINDOWSIZE
    <3>1. recv_buff' = recv_buff
      BY <1>3
    <3>2. Offset(rwnd', j) >= rwnd'.size => rwnd'.received[j]
                                /\ recv_buff[j] = RecvMsg(j) - WINDOWSIZE
      BY <1>1, <1>2, <1>6, <1>10, <1>11 DEF ReceiverInv
    <3> QED BY <1>1, <1>4, <1>6, <1>10, <1>11, <3>1, <3>2 DEF ReceiverInv
  <2>3. ASSUME NEW i \in 1 .. d + 1
        PROVE  delivered'[i] = i
    <3>1. i \in 1 .. d \/ i = d + 1
      BY <1>2
    <3> QED BY <1>1, <1>2, <1>8, <3>1 DEF ReceiverInv
  <2> QED BY <1>1, <1>6, <1>8, <1>9, <2>1, <2>2, <2>3 DEF ReceiverInv
<1>14. AgreementInv' /\ AckInv'
  BY <1>1, <1>3, <1>4, <1>9, AckKept DEF AgreementInv
<1>15. DataInv'
  BY <1>1, <1>3, <1>4, <1>9, <1>10, <1>11 DEF DataInv
<1>16. SenderInv'
  BY <1>3, SenderFrame DEF IInv
<1> QED BY <1>12, <1>13, <1>14, <1>15, <1>16 DEF IInv

-----------------------------------------------------------------------------
(* Every step *)

LEMMA ThreadSStep ==
    ASSUME IInv, ThreadS
    PROVE  IInv'
<1>1. TypeOK /\ 0 \in 0 .. WINDOWSIZE
  BY Constants DEF IInv
<1>2. CASE BeginRetransmit
  BY <1>1, <1>2, ThreadMoves DEF BeginRetransmit
<1>3. CASE NothingExpired
  BY <1>1, <1>3, ThreadMoves DEF NothingExpired, TypeOK
<1>4. CASE Retransmit
  BY <1>4, RetransmitStep
<1>5. CASE EndRetransmit
  BY <1>1, <1>5, ThreadMoves DEF EndRetransmit, TypeOK
<1>6. CASE BeginSend
  BY <1>1, <1>6, ThreadMoves DEF BeginSend
<1>7. CASE SendNew
  BY <1>7, SendNewStep
<1>8. CASE SkipSlot
  <2>1. s_ctr' \in 0 .. WINDOWSIZE
    BY <1>1, <1>8, LoopSlot DEF SkipSlot
  <2> QED BY <1>1, <1>8, <2>1, ThreadMoves DEF SkipSlot, TypeOK
<1>9. CASE EndSend
  BY <1>1, <1>9, ThreadMoves DEF EndSend, TypeOK
<1> QED BY <1>2, <1>3, <1>4, <1>5, <1>6, <1>7, <1>8, <1>9 DEF ThreadS

LEMMA NextKeeps ==
    ASSUME ~Reordering, IInv, [Next]_vars
    PROVE  IInv'
<1>1. CASE k_sendto
  BY <1>1, SendtoStep
<1>2. CASE ThreadS
  BY <1>2, ThreadSStep
<1>3. CASE AckArrives
  BY <1>3, AckArrivesStep
<1>4. CASE DataArrives
  BY <1>4, DataArrivesStep
<1>5. CASE WindowUpdate
  BY <1>5, WindowUpdateStep
<1>6. CASE k_recvfrom
  BY <1>6, RecvfromStep
<1>7. CASE DropData
  BY <1>7, DropDataStep
<1>8. CASE DropAck
  BY <1>8, DropAckStep
<1>9. CASE UNCHANGED vars
  <2>1. /\ UNCHANGED <<sender, receiver, data_net, ack_net>>
        /\ s_pc' = s_pc /\ s_ctr' = s_ctr
    BY <1>9 DEF vars, sender, receiver
  <2> QED BY <2>1, ThreadMoves DEF IInv, TypeOK
<1> QED BY <1>1, <1>2, <1>3, <1>4, <1>5, <1>6, <1>7, <1>8, <1>9 DEF Next

-----------------------------------------------------------------------------
(* Theorems *)

\* As long as packets stay in order, every reachable state of the connection
\* satisfies the inductive invariant.
THEOREM Invariance ==
    ASSUME ~Reordering
    PROVE  Spec => []IInv
<1>1. Init => IInv
  BY InitEstablishes
<1>2. IInv /\ [Next]_vars => IInv'
  BY NextKeeps
<1> QED BY <1>1, <1>2, PTL DEF Spec

\* Type correctness: in particular the windows of threadR, k_sendto and
\* k_recvfrom never grow past the ring or leave the sequence space.
THEOREM TypeCorrectness ==
    ASSUME ~Reordering
    PROVE  Spec => []TypeOK
<1>1. IInv => TypeOK
  BY DEF IInv
<1> QED BY <1>1, Invariance, PTL

\* Whatever is lost, repeated or retransmitted, k_recvfrom returns the messages
\* given to k_sendto, each once and in order.
THEOREM InOrder ==
    ASSUME ~Reordering
    PROVE  Spec => []InOrderDelivery
<1>1. ASSUME IInv
      PROVE  InOrderDelivery
  <2>1. TypeOK /\ ReceiverInv /\ AgreementInv
    BY <1>1 DEF IInv
  <2>2. PICK d \in Nat, z \in 0 .. WINDOWSIZE, s \in Nat :
           d = Len(delivered) /\ z = rwnd.size /\ s = sent
    BY <2>1, Counts
  <2>3. d + WINDOWSIZE - z <= s
    BY <2>1, <2>2 DEF AgreementInv, InOrderCount
  <2>4. d <= s
    <3>1. WINDOWSIZE \in Nat
      BY Constants
    <3> QED BY <2>2, <2>3, <3>1
  <2>5. DOMAIN delivered = 1 .. Len(delivered)
    BY <2>1, LenProperties DEF TypeOK
  <2> QED BY <2>1, <2>2, <2>4, <2>5 DEF InOrderDelivery, ReceiverInv
<1> QED BY <1>1, Invariance, PTL

\* The sender gives up a message only when the receiver holds it in order.
THEOREM SafeToForget ==
    ASSUME ~Reordering
    PROVE  Spec => []NothingForgotten
<1>1. IInv => NothingForgotten
  BY DEF IInv, NothingForgotten, AgreementInv, SenderInv
<1> QED BY <1>1, Invariance, PTL

\* k_sendto and k_recvfrom implement the pipe: a message goes in only while the
\* two windows have room for it, and the next one comes out.
THEOREM ImplementsPipe ==
    ASSUME ~Reordering
    PROVE  Spec => PipeSpec
<1>1. Init => Pipe!Init
  BY DEF Init, Pipe!Init
<1>2. ASSUME IInv, [Next]_vars
      PROVE  [Pipe!Next]_<<sent, delivered>>
  <2>1. TypeOK /\ SenderInv /\ ReceiverInv /\ AgreementInv
    BY <1>2 DEF IInv
  <2>2. PICK d \in Nat, z \in 0 .. WINDOWSIZE, s \in Nat, a \in Nat, r \in Nat :
           /\ d = Len(delivered) /\ z = rwnd.size /\ s = sent /\ a = acked
           /\ r = InOrderCount
    BY <2>1, Counts
  <2>3. /\ r = d + WINDOWSIZE - z /\ a <= r /\ r <= s
        /\ WINDOWSIZE \in Nat /\ WINDOWSIZE > 0
    BY <2>1, <2>2, Constants DEF InOrderCount, AgreementInv
  <2>4. CASE k_sendto
    <3>1. PICK k \in Slots : k = s - a
      <4>1. \E k \in Slots :
               /\ send_buff_empty[At(swnd, k)]
               /\ \A i \in 0 .. k - 1 : ~send_buff_empty[At(swnd, i)]
        BY <2>4 DEF k_sendto
      <4> QED BY <2>1, <2>2, <4>1, FirstFreeSlot
    <3>2. k \in Nat /\ k < WINDOWSIZE
      BY Constants
    <3>3. s - d < 2 * WINDOWSIZE
      BY <2>2, <2>3, <3>1, <3>2
    <3>4. /\ sent < MaxMsgs /\ sent' = sent + 1 /\ delivered' = delivered
      BY <2>4 DEF k_sendto, receiver
    <3> QED BY <2>2, <3>3, <3>4 DEF Pipe!Next, Pipe!Accept
  <2>5. CASE k_recvfrom
    <3>1. /\ z \in Slots
          /\ recv_buff[At(rwnd, rwnd.size)] = d + 1
      BY <1>2, <2>2, <2>5, NextMessageRead DEF k_recvfrom
    <3>2. z < WINDOWSIZE
      BY <3>1, Constants
    <3>3. d < s
      BY <2>2, <2>3, <3>2
    <3>4. delivered' = Append(delivered, d + 1) /\ sent' = sent
      BY <2>5, <3>1 DEF k_recvfrom, sender
    <3> QED BY <2>2, <3>3, <3>4 DEF Pipe!Next, Pipe!Deliver
  <2>6. CASE ThreadS
    BY <2>6 DEF ThreadS, BeginRetransmit, NothingExpired, Retransmit,
                EndRetransmit, BeginSend, SendNew, SkipSlot, EndSend, sender,
                receiver
  <2>7. CASE AckArrives \/ DataArrives \/ WindowUpdate \/ DropData \/ DropAck
    BY <2>7 DEF AckArrives, DataArrives, WindowUpdate, DropData, DropAck,
                sender, receiver
  <2>8. CASE UNCHANGED vars
    BY <2>8 DEF vars
  <2> QED BY <1>2, <2>4, <2>5, <2>6, <2>7, <2>8 DEF Next
<1> QED BY <1>1, <1>2, Invariance, PTL DEF Spec, PipeSpec, Pipe!Spec

-----------------------------------------------------------------------------
(* Flow control, on top of IInv: how the edges of the two windows, the last *)
(* message that the sender may send and the last that the receiver has room *)
(* for, follow each other through the ACKs.                                 *)

\* The last message the sender may send, the last the receiver has room for, and
\* the edge that an ACK tells the sender.
SendEdge == acked + swnd.size
RoomEdge == Len(delivered) + WINDOWSIZE
AckEdge(p) == p.upto + p.rwnd

\* What the sender may send fits the receive buffer, and what the receiver has,
\* in order or ahead of a gap, the sender may send.
WindowEdges ==
    /\ SendEdge <= RoomEdge
    /\ InOrderCount <= SendEdge
    /\ \A j \in Slots : recv_buff[j] <= SendEdge

\* So is what is under way.
DataEdges == \A i \in 1 .. Len(data_net) : data_net[i].msg <= SendEdge

\* The edges that the ACKs under way tell lie between the two, and never move back.
AckEdges ==
    /\ \A i \in 1 .. Len(ack_net) :
          SendEdge <= AckEdge(ack_net[i]) /\ AckEdge(ack_net[i]) <= RoomEdge
    /\ \A i, k \in 1 .. Len(ack_net) :
          i < k => AckEdge(ack_net[i]) <= AckEdge(ack_net[k])

EdgeInv == WindowEdges /\ DataEdges /\ AckEdges

-----------------------------------------------------------------------------
(* Facts used throughout *)

LEMMA Edges ==
    ASSUME TypeOK
    PROVE  /\ acked \in Nat /\ swnd.size \in Nat /\ SendEdge \in Nat
           /\ RoomEdge \in Nat /\ InOrderCount \in Nat
           /\ Len(delivered) \in Nat /\ rwnd.size \in Nat /\ WINDOWSIZE \in Nat
           /\ RoomEdge = InOrderCount + rwnd.size
           /\ \A j \in Slots : recv_buff[j] \in Nat
           /\ \A i \in 1 .. Len(data_net) : data_net[i].msg \in Nat
           /\ \A i \in 1 .. Len(ack_net) : AckEdge(ack_net[i]) \in Nat
<1>1. PICK a \in Nat, y \in Nat, d \in Nat, z \in Nat, w \in Nat :
        /\ a = acked /\ y = swnd.size /\ d = Len(delivered) /\ z = rwnd.size
        /\ w = WINDOWSIZE /\ z <= w
  <2>1. \A x \in 0 .. WINDOWSIZE : x \in Nat /\ x <= WINDOWSIZE
    BY Constants
  <2> QED BY <2>1, Counts, Constants
<1>2. SendEdge = a + y /\ RoomEdge = d + w /\ InOrderCount = d + w - z
  BY <1>1 DEF SendEdge, RoomEdge, InOrderCount
<1>3. \A j \in Slots : recv_buff[j] \in Nat
  BY Constants DEF TypeOK
<1>4. \A i \in 1 .. Len(data_net) : data_net[i].msg \in Nat
  BY PacketTypes
<1>5. ASSUME NEW i \in 1 .. Len(ack_net) PROVE AckEdge(ack_net[i]) \in Nat
  <2>1. PICK u \in Nat, x \in Nat : u = ack_net[i].upto /\ x = ack_net[i].rwnd
    <3>1. \A x \in 0 .. WINDOWSIZE : x \in Nat
      BY Constants
    <3> QED BY <3>1, PacketTypes
  <2> QED BY <2>1 DEF AckEdge
<1>6. SendEdge \in Nat /\ RoomEdge \in Nat /\ InOrderCount \in Nat
  <2>1. a + y \in Nat /\ d + w \in Nat
    OBVIOUS
  <2> QED BY <1>2, <2>1, Counts
<1>7. RoomEdge = InOrderCount + rwnd.size
  <2>1. d + w = (d + w - z) + z
    OBVIOUS
  <2> QED BY <1>1, <1>2, <2>1
<1> QED BY <1>1, <1>3, <1>4, <1>5, <1>6, <1>7

LEMMA AppendAny ==
    ASSUME NEW S, NEW net \in Seq(S), NEW p
    PROVE  /\ Len(net) \in Nat
           /\ Len(Append(net, p)) = Len(net) + 1
           /\ \A i \in 1 .. Len(net) : Append(net, p)[i] = net[i]
           /\ Append(net, p)[Len(net) + 1] = p
<1>1. net \in Seq(S \cup {p}) /\ Len(net) \in Nat
  <2>1. Len(net) \in Nat /\ net \in [1 .. Len(net) -> S]
    BY LenProperties
  <2>2. net \in [1 .. Len(net) -> S \cup {p}]
    BY <2>1
  <2> QED BY <2>1, <2>2, SeqDef
<1> QED BY <1>1, AppendProperties

-----------------------------------------------------------------------------
(* What happens to the channels *)

\* No edge moves.
LEMMA EdgesKept ==
    ASSUME WindowEdges, UNCHANGED <<acked, swnd.size, rwnd.size, recv_buff, delivered>>
    PROVE  WindowEdges' /\ SendEdge' = SendEdge /\ RoomEdge' = RoomEdge
           /\ InOrderCount' = InOrderCount
<1>1. SendEdge' = SendEdge /\ RoomEdge' = RoomEdge /\ InOrderCount' = InOrderCount
  BY DEF SendEdge, RoomEdge, InOrderCount
<1> QED BY <1>1 DEF WindowEdges

LEMMA DataEdgesKept ==
    ASSUME TypeOK, DataEdges, SendEdge' \in Nat, SendEdge <= SendEdge',
           UNCHANGED data_net
    PROVE  DataEdges'
<1>1. ASSUME NEW i \in 1 .. Len(data_net) PROVE data_net[i].msg <= SendEdge'
  BY Edges DEF DataEdges
<1> QED BY <1>1 DEF DataEdges

LEMMA DataEdgesTaken ==
    ASSUME TypeOK, DataEdges, SendEdge' = SendEdge, Len(data_net) > 0,
           data_net' = Without(data_net, 1)
    PROVE  DataEdges'
<1>1. PICK n \in Nat : n = Len(data_net) - 1 /\ n + 1 = Len(data_net)
  <2>1. PICK m \in Nat : m = Len(data_net) /\ m > 0
    BY PacketTypes
  <2>2. m - 1 \in Nat /\ (m - 1) + 1 = m
    BY <2>1
  <2> QED BY <2>1, <2>2
<1>2. Len(data_net') = n /\ \A k \in 1 .. n : data_net'[k] = data_net[k + 1]
  BY <1>1, WithoutFirst DEF TypeOK
<1>3. \A k \in 1 .. n : k + 1 \in 1 .. n + 1
  OBVIOUS
<1> QED BY <1>1, <1>2, <1>3 DEF DataEdges

\* Thread S sends the slots inside the window, and no others.
LEMMA DataEdgesSent ==
    ASSUME TypeOK, SenderInv, DataEdges, SendEdge' = SendEdge,
           s_ctr < swnd.size, ~send_buff_empty[At(swnd, s_ctr)],
           data_net' = Append(data_net, DataPacket(At(swnd, s_ctr)))
    PROVE  DataEdges'
<1>1. PICK c \in Slots : c = s_ctr
  BY LoopSlot
<1>2. PICK j \in Slots : j = At(swnd, c) /\ Offset(swnd, j) = c
  BY Counts, OffsetAt
<1>3. DataPacket(j).msg = SendMsg(j)
  BY <1>1, <1>2 DEF SenderInv, DataPacket
<1>4. SendMsg(j) <= SendEdge
  <2>1. PICK a \in Nat, y \in Nat, x \in Nat : a = acked /\ y = swnd.size /\ x = c /\ x < y
    BY <1>1, Edges, Constants
  <2>2. SendMsg(j) = a + x + 1 /\ SendEdge = a + y
    BY <1>2, <2>1 DEF SendMsg, SendEdge
  <2> QED BY <2>1, <2>2
<1>5. PICK n \in Nat :
        /\ n = Len(data_net) /\ Len(data_net') = n + 1
        /\ \A i \in 1 .. n : data_net'[i] = data_net[i]
        /\ data_net'[n + 1] = DataPacket(j)
  <2>1. /\ data_net \in Seq(DataPackets)
        /\ data_net' = Append(data_net, DataPacket(j))
    BY <1>1, <1>2 DEF TypeOK
  <2> HIDE DEF DataPacket
  <2> QED BY <2>1, AppendAny
<1>6. ASSUME NEW i \in 1 .. n + 1 PROVE data_net'[i].msg <= SendEdge
  <2>1. CASE i = n + 1
    BY <1>3, <1>4, <1>5, <2>1
  <2>2. CASE i \in 1 .. n
    BY <1>5, <2>2 DEF DataEdges
  <2>3. i = n + 1 \/ i \in 1 .. n
    OBVIOUS
  <2> QED BY <2>1, <2>2, <2>3
<1> QED BY <1>5, <1>6 DEF DataEdges

LEMMA AckEdgesKept ==
    ASSUME TypeOK, AckEdges, SendEdge' = SendEdge, RoomEdge' \in Nat,
           RoomEdge <= RoomEdge', UNCHANGED ack_net
    PROVE  AckEdges'
<1>1. ASSUME NEW i \in 1 .. Len(ack_net)
      PROVE  SendEdge <= AckEdge(ack_net[i]) /\ AckEdge(ack_net[i]) <= RoomEdge'
  <2>1. SendEdge <= AckEdge(ack_net[i]) /\ AckEdge(ack_net[i]) <= RoomEdge
    BY DEF AckEdges
  <2>2. AckEdge(ack_net[i]) \in Nat /\ RoomEdge \in Nat
    BY Edges
  <2> HIDE DEF AckEdge, RoomEdge
  <2> QED BY <2>1, <2>2
<1> QED BY <1>1 DEF AckEdges, AckEdge

\* The ACKs behind the one that is taken still tell no less than the sender knows.
LEMMA AckEdgesTaken ==
    ASSUME TypeOK, AckEdges, Len(ack_net) > 0, ack_net' = Without(ack_net, 1),
           SendEdge' \in Nat, SendEdge' <= AckEdge(ack_net[1]), RoomEdge' = RoomEdge
    PROVE  AckEdges'
<1>1. PICK n \in Nat : n = Len(ack_net) - 1 /\ n + 1 = Len(ack_net)
  <2>1. PICK m \in Nat : m = Len(ack_net) /\ m > 0
    BY PacketTypes
  <2>2. m - 1 \in Nat /\ (m - 1) + 1 = m
    BY <2>1
  <2> QED BY <2>1, <2>2
<1>2. Len(ack_net') = n /\ \A k \in 1 .. n : ack_net'[k] = ack_net[k + 1]
  BY <1>1, WithoutFirst DEF TypeOK
<1>3. ASSUME NEW k \in 1 .. n
      PROVE  SendEdge' <= AckEdge(ack_net[k + 1]) /\ AckEdge(ack_net[k + 1]) <= RoomEdge
  <2>1. 1 \in 1 .. n + 1 /\ k + 1 \in 1 .. n + 1 /\ 1 < k + 1
    OBVIOUS
  <2>2. PICK e \in Nat, f \in Nat : e = AckEdge(ack_net[1]) /\ f = AckEdge(ack_net[k + 1])
    BY <1>1, <2>1, Edges
  <2>3. e <= f /\ f <= RoomEdge
    BY <1>1, <2>1, <2>2 DEF AckEdges
  <2> QED BY <2>2, <2>3
<1>4. \A k \in 1 .. n : AckEdge(ack_net'[k]) = AckEdge(ack_net[k + 1])
  BY <1>2
<1>5. ASSUME NEW i \in 1 .. n, NEW k \in 1 .. n, i < k
      PROVE  AckEdge(ack_net'[i]) <= AckEdge(ack_net'[k])
  <2>1. i + 1 \in 1 .. n + 1 /\ k + 1 \in 1 .. n + 1 /\ i + 1 < k + 1
    BY <1>5
  <2> QED BY <1>1, <1>4, <2>1 DEF AckEdges
<1>6. ASSUME NEW k \in 1 .. n
      PROVE  SendEdge' <= AckEdge(ack_net'[k]) /\ AckEdge(ack_net'[k]) <= RoomEdge'
  BY <1>3, <1>4
<1> QED BY <1>2, <1>5, <1>6 DEF AckEdges, AckEdge

\* A new ACK tells the edge of the receive buffer as it is.
LEMMA AckEdgesSent ==
    ASSUME TypeOK, WindowEdges, AckEdges, NEW p, ack_net' = Append(ack_net, p),
           AckEdge(p) = RoomEdge, SendEdge' = SendEdge, RoomEdge' = RoomEdge
    PROVE  AckEdges'
<1>1. PICK n \in Nat :
        /\ n = Len(ack_net) /\ Len(ack_net') = n + 1
        /\ \A i \in 1 .. n : ack_net'[i] = ack_net[i]
        /\ ack_net'[n + 1] = p
  <2>1. ack_net \in Seq(AckPackets)
    BY DEF TypeOK
  <2> QED BY <2>1, AppendAny
<1>2. \A i \in 1 .. n + 1 : i = n + 1 \/ i \in 1 .. n
  OBVIOUS
<1>3. \A i, k \in 1 .. n + 1 : i < k => i \in 1 .. n
  OBVIOUS
<1>4. \A i \in 1 .. n + 1 : /\ i \in 1 .. n => AckEdge(ack_net'[i]) = AckEdge(ack_net[i])
                            /\ i = n + 1 => AckEdge(ack_net'[i]) = RoomEdge
  BY <1>1
<1>5. ASSUME NEW i \in 1 .. n + 1
      PROVE  SendEdge <= AckEdge(ack_net'[i]) /\ AckEdge(ack_net'[i]) <= RoomEdge
  BY <1>1, <1>2, <1>4, Edges DEF AckEdges, WindowEdges
<1>6. ASSUME NEW i \in 1 .. n + 1, NEW k \in 1 .. n + 1, i < k
      PROVE  AckEdge(ack_net'[i]) <= AckEdge(ack_net'[k])
  <2>1. i \in 1 .. n
    BY <1>3, <1>6
  <2>2. CASE k = n + 1
    BY <1>4, <1>5, <2>2
  <2>3. CASE k \in 1 .. n
    BY <1>1, <1>4, <1>6, <2>1, <2>3 DEF AckEdges
  <2> QED BY <1>2, <2>2, <2>3
<1> QED BY <1>1, <1>5, <1>6 DEF AckEdges, AckEdge

-----------------------------------------------------------------------------
(* Every step *)

LEMMA InitEdges == Init => EdgeInv
<1> SUFFICES ASSUME Init PROVE EdgeInv
  OBVIOUS
<1>1. /\ acked = 0 /\ swnd.size = WINDOWSIZE /\ rwnd.size = WINDOWSIZE
      /\ delivered = <<>> /\ data_net = <<>> /\ ack_net = <<>>
      /\ \A j \in Slots : recv_buff[j] = 0
  BY DEF Init, init_swnd, init_rwnd, init_window
<1>2. SendEdge = WINDOWSIZE /\ RoomEdge = WINDOWSIZE /\ InOrderCount = 0
      /\ WINDOWSIZE \in Nat
  BY <1>1, Constants DEF SendEdge, RoomEdge, InOrderCount
<1>3. WindowEdges
  BY <1>1, <1>2 DEF WindowEdges
<1> QED BY <1>1, <1>3 DEF EdgeInv, DataEdges, AckEdges

\* A step that moves no window and leaves the ACKs alone, and sends DATA within
\* the window or takes some.
LEMMA SenderStep ==
    ASSUME IInv, EdgeInv, k_sendto \/ ThreadS
    PROVE  EdgeInv'
<1>1. TypeOK /\ SenderInv /\ WindowEdges /\ DataEdges /\ AckEdges
  BY DEF IInv, EdgeInv
<1>2. UNCHANGED <<acked, swnd.size, rwnd.size, recv_buff, delivered, ack_net>>
  <2>1. CASE k_sendto
    BY <1>1, <2>1 DEF k_sendto, receiver, TypeOK
  <2>2. CASE SendNew
    BY <1>1, <2>2 DEF SendNew, receiver, TypeOK
  <2>3. CASE ThreadS /\ ~SendNew
    BY <2>3 DEF ThreadS, BeginRetransmit, NothingExpired, Retransmit, EndRetransmit,
                BeginSend, SkipSlot, EndSend, sender, receiver
  <2> QED BY <2>1, <2>2, <2>3
<1>3. WindowEdges' /\ SendEdge' = SendEdge /\ RoomEdge' = RoomEdge
  BY <1>1, <1>2, EdgesKept
<1>4. SendEdge' \in Nat /\ SendEdge <= SendEdge' /\ RoomEdge' \in Nat
      /\ RoomEdge <= RoomEdge'
  BY <1>1, <1>3, Edges
<1>5. DataEdges'
  <2>1. CASE Retransmit \/ SendNew
    <3>1. /\ s_ctr < swnd.size
          /\ data_net' = Append(data_net, DataPacket(At(swnd, s_ctr)))
      BY <2>1 DEF Retransmit, SendNew
    <3>2. PICK j \in Slots : j = At(swnd, s_ctr)
      BY <1>1, <3>1, LoopSlot, Counts, OffsetAt
    <3>3. ~send_buff_empty[j]
      BY <1>1, <2>1, <3>2 DEF Retransmit, SendNew, Unsent, SenderInv
    <3> QED BY <1>1, <1>3, <3>1, <3>2, <3>3, DataEdgesSent
  <2>2. CASE ~(Retransmit \/ SendNew)
    <3>1. UNCHANGED data_net
      BY <2>2 DEF k_sendto, ThreadS, BeginRetransmit, NothingExpired, EndRetransmit,
                  BeginSend, SkipSlot, EndSend
    <3> QED BY <1>1, <1>4, <3>1, DataEdgesKept
  <2> QED BY <2>1, <2>2
<1>6. AckEdges'
  BY <1>1, <1>2, <1>3, <1>4, AckEdgesKept
<1> QED BY <1>3, <1>5, <1>6 DEF EdgeInv

\* Losses and window updates.
LEMMA ChannelStep ==
    ASSUME ~Reordering, IInv, EdgeInv, DropData \/ DropAck \/ WindowUpdate
    PROVE  EdgeInv'
<1>1. /\ TypeOK /\ WindowEdges /\ DataEdges /\ AckEdges
      /\ data_net \in Seq(DataPackets) /\ ack_net \in Seq(AckPackets)
  BY DEF IInv, EdgeInv, TypeOK
<1>2. UNCHANGED <<acked, swnd, rwnd, recv_buff, delivered>>
  BY DEF DropData, DropAck, WindowUpdate, sender, receiver
<1>3. WindowEdges' /\ SendEdge' = SendEdge /\ RoomEdge' = RoomEdge
  BY <1>1, <1>2, EdgesKept
<1>4. SendEdge' \in Nat /\ SendEdge <= SendEdge' /\ RoomEdge' \in Nat
      /\ RoomEdge <= RoomEdge'
  BY <1>1, <1>3, Edges
<1>5. CASE DropData
  <2>1. data_net' = Without(data_net, 1) /\ Len(data_net) > 0 /\ UNCHANGED ack_net
    BY <1>1, <1>5, FirstOnly DEF DropData
  <2> QED BY <1>1, <1>3, <1>4, <2>1, DataEdgesTaken, AckEdgesKept DEF EdgeInv
<1>6. CASE DropAck
  <2>1. ack_net' = Without(ack_net, 1) /\ Len(ack_net) > 0 /\ UNCHANGED data_net
    BY <1>1, <1>6, FirstOnly DEF DropAck
  <2>2. SendEdge' <= AckEdge(ack_net[1])
    BY <1>1, <1>3, <2>1, PacketTypes DEF AckEdges
  <2> QED BY <1>1, <1>3, <1>4, <2>1, <2>2, DataEdgesKept, AckEdgesTaken DEF EdgeInv
<1>7. CASE WindowUpdate
  <2>1. /\ ack_net' = Append(ack_net, AckPacket(rwnd, InOrderCount))
        /\ UNCHANGED data_net
    BY <1>7 DEF WindowUpdate
  <2>2. AckEdge(AckPacket(rwnd, InOrderCount)) = RoomEdge
    BY <1>1, Edges DEF AckEdge, AckPacket
  <2> QED BY <1>1, <1>3, <1>4, <2>1, <2>2, DataEdgesKept, AckEdgesSent DEF EdgeInv
<1> QED BY <1>5, <1>6, <1>7

LEMMA RecvfromEdges ==
    ASSUME IInv, EdgeInv, k_recvfrom
    PROVE  EdgeInv'
<1>1. TypeOK /\ WindowEdges /\ DataEdges /\ AckEdges
  BY DEF IInv, EdgeInv
<1>2. PICK d \in Nat, z \in Nat, w \in Nat, e \in Nat :
        d = Len(delivered) /\ z = rwnd.size /\ w = WINDOWSIZE /\ e = SendEdge
  BY <1>1, Edges
<1>3. rwnd'.size = z + 1
  BY <1>1, <1>2, NextMessageRead DEF k_recvfrom, TypeOK
<1>4. Len(delivered') = d + 1
  <2>1. delivered \in Seq(1 .. MaxMsgs)
    BY <1>1 DEF TypeOK
  <2>2. PICK m : delivered' = Append(delivered, m)
    BY DEF k_recvfrom
  <2> QED BY <1>2, <2>1, <2>2, AppendAny
<1>5. /\ UNCHANGED <<acked, swnd, recv_buff, data_net, ack_net>>
      /\ SendEdge' = e
  BY <1>2 DEF k_recvfrom, sender, SendEdge
<1>6. RoomEdge' = d + 1 + w /\ RoomEdge = d + w
  BY <1>2, <1>4 DEF RoomEdge
<1>7. InOrderCount' = InOrderCount
  <2>1. InOrderCount' = (d + 1) + w - (z + 1) /\ InOrderCount = d + w - z
    BY <1>2, <1>3, <1>4 DEF InOrderCount
  <2> QED BY <2>1
<1>8. WindowEdges'
  <2>1. e <= d + w
    BY <1>1, <1>2, <1>6 DEF WindowEdges
  <2>2. e <= d + 1 + w
    BY <2>1
  <2> QED BY <1>1, <1>2, <1>5, <1>6, <1>7, <2>2 DEF WindowEdges
<1>9. RoomEdge' \in Nat /\ RoomEdge <= RoomEdge'
  BY <1>6
<1>10. SendEdge' \in Nat /\ SendEdge <= SendEdge' /\ SendEdge' = SendEdge
  BY <1>2, <1>5
<1> QED BY <1>1, <1>5, <1>8, <1>9, <1>10, DataEdgesKept, AckEdgesKept DEF EdgeInv

-----------------------------------------------------------------------------
(* The receiving side *)

\* The last message received in order is still in the receive buffer, unless
\* the application has read them all.
LastStays ==
    rwnd.size < WINDOWSIZE => \E j \in Slots : recv_buff[j] = InOrderCount

LEMMA LastInOrder == IInv => LastStays
<1> SUFFICES ASSUME IInv, rwnd.size < WINDOWSIZE
             PROVE  \E j \in Slots : recv_buff[j] = InOrderCount
  BY DEF LastStays
<1>1. TypeOK /\ ReceiverInv
  BY DEF IInv
<1>2. PICK w \in Nat, z \in Nat, r \in Nat, k \in Slots :
        /\ w = WINDOWSIZE /\ z = rwnd.size /\ r = InOrderCount
        /\ k = w - 1 /\ k >= z /\ z < w
  <2>1. WINDOWSIZE - 1 \in Slots /\ WINDOWSIZE \in Nat
    BY Constants DEF Slots
  <2>2. rwnd.size \in Nat /\ InOrderCount \in Nat
    BY <1>1, Edges
  <2> QED BY <2>1, <2>2
<1>3. PICK j \in Slots : j = At(rwnd, k) /\ Offset(rwnd, j) = k
  BY <1>1, Counts, OffsetAt
<1>4. recv_buff[j] = RecvMsg(j) - w
  BY <1>1, <1>2, <1>3 DEF ReceiverInv
<1>5. RecvMsg(j) = r + (w - 1) + 1
  BY <1>2, <1>3 DEF RecvMsg
<1>6. recv_buff[j] = r
  BY <1>2, <1>4, <1>5
<1> QED BY <1>2, <1>6

LEMMA LastInOrderNext == IInv' => LastStays'
BY LastInOrder, PTL

\* A message that is kept is one the sender may send.
LEMMA NewMessageEdges ==
    ASSUME IInv, IInv', EdgeInv, Len(data_net) > 0, NewMessage(data_net[1]),
           data_net' = Without(data_net, 1), UNCHANGED <<sender, delivered>>
    PROVE  EdgeInv'
<1>1. /\ TypeOK /\ WindowEdges /\ DataEdges /\ AckEdges
      /\ 1 \in 1 .. Len(data_net)
  BY PacketTypes DEF IInv, EdgeInv
<1>2. PICK w \in Nat, z \in Nat, r \in Nat, e \in Nat, m \in Nat :
        /\ w = WINDOWSIZE /\ z = rwnd.size /\ r = InOrderCount /\ e = SendEdge
        /\ m = data_net[1].msg /\ RoomEdge = r + z /\ m <= e /\ z <= w
  <2>1. rwnd.size <= WINDOWSIZE
    BY <1>1, Counts, Constants
  <2> QED BY <1>1, <2>1, Edges DEF DataEdges
<1>3. PICK j0 \in Slots, n \in 0 .. rwnd.size :
        /\ recv_buff' = [recv_buff EXCEPT ![j0] = m]
        /\ rwnd'.size = z - n
        /\ \/ UNCHANGED ack_net
           \/ \E q : ack_net' = Append(ack_net, q) /\ AckEdge(q) = (r + n) + (z - n)
  <2>1. PICK j0 \in Slots, n \in 0 .. rwnd.size :
          LET stored == [rwnd EXCEPT !.received = [rwnd.received EXCEPT ![j0] = TRUE]]
              slid   == [Slide(stored, n) EXCEPT
                            !.last_ack = stored.msg_seq[At(stored, n - 1)],
                            !.size     = rwnd.size - n]
          IN  /\ recv_buff' = [recv_buff EXCEPT ![j0] = m]
              /\ \/ n = 0 /\ rwnd' = stored /\ UNCHANGED ack_net
                 \/ /\ rwnd' = slid
                    /\ ack_net' = Append(ack_net, AckPacket(slid, InOrderCount + n))
    BY <1>2 DEF NewMessage
  <2>2. CASE n = 0 /\ UNCHANGED ack_net /\
             rwnd' = [rwnd EXCEPT !.received = [rwnd.received EXCEPT ![j0] = TRUE]]
    <3>1. rwnd'.size = z - n
      BY <1>1, <1>2, <2>2 DEF TypeOK
    <3> QED BY <2>1, <2>2, <3>1
  <2>3. CASE rwnd'.size = rwnd.size - n
             /\ ack_net' = Append(ack_net, AckPacket(rwnd', InOrderCount + n))
    <3>1. AckEdge(AckPacket(rwnd', r + n)) = (r + n) + (z - n)
      BY <1>2, <2>3 DEF AckEdge, AckPacket
    <3> QED BY <1>2, <2>1, <2>3, <3>1
  <2>4. \/ n = 0 /\ UNCHANGED ack_net /\
           rwnd' = [rwnd EXCEPT !.received = [rwnd.received EXCEPT ![j0] = TRUE]]
        \/ rwnd'.size = rwnd.size - n
           /\ ack_net' = Append(ack_net, AckPacket(rwnd', InOrderCount + n))
    BY <1>1, <2>1 DEF Slide, TypeOK
  <2> QED BY <2>2, <2>3, <2>4
<1>4. SendEdge' = e /\ RoomEdge' = r + z /\ SendEdge' = SendEdge /\ RoomEdge' = RoomEdge
  BY <1>2 DEF sender, SendEdge, RoomEdge
<1>5. n \in Nat /\ n <= z /\ (r + n) + (z - n) = r + z
  BY <1>2
<1>6. \A j \in Slots : recv_buff'[j] <= e
  <2>1. \A j \in Slots : recv_buff'[j] = IF j = j0 THEN m ELSE recv_buff[j]
    BY <1>1, <1>3 DEF TypeOK
  <2> QED BY <1>1, <1>2, <2>1 DEF WindowEdges
<1>7. InOrderCount' <= e
  <2>1. CASE rwnd'.size < WINDOWSIZE
    <3>1. \E j \in Slots : recv_buff'[j] = InOrderCount'
      BY <2>1, LastInOrderNext DEF LastStays
    <3> QED BY <1>6, <3>1
  <2>2. CASE ~(rwnd'.size < WINDOWSIZE)
    <3>1. n = 0
      BY <1>2, <1>3, <1>5, <2>2
    <3>2. rwnd'.size = rwnd.size
      BY <1>2, <1>3, <3>1
    <3>3. InOrderCount' = InOrderCount
      BY <3>2 DEF InOrderCount
    <3> QED BY <1>1, <1>2, <3>3 DEF WindowEdges
  <2> QED BY <2>1, <2>2
<1>8. WindowEdges'
  BY <1>1, <1>2, <1>4, <1>6, <1>7 DEF WindowEdges
<1>9. DataEdges'
  BY <1>1, <1>4, DataEdgesTaken
<1>10. AckEdges'
  <2>1. CASE UNCHANGED ack_net
    BY <1>1, <1>2, <1>4, <2>1, AckEdgesKept
  <2>2. CASE \E q : ack_net' = Append(ack_net, q) /\ AckEdge(q) = (r + n) + (z - n)
    BY <1>1, <1>2, <1>4, <1>5, <2>2, AckEdgesSent
  <2> QED BY <1>3, <2>1, <2>2
<1> QED BY <1>8, <1>9, <1>10 DEF EdgeInv

LEMMA DataArrivesEdges ==
    ASSUME ~Reordering, IInv, IInv', EdgeInv, DataArrives
    PROVE  EdgeInv'
<1>1. /\ TypeOK /\ WindowEdges /\ DataEdges /\ AckEdges
      /\ data_net \in Seq(DataPackets)
  BY DEF IInv, EdgeInv, TypeOK
<1>2. PICK i \in Arrivals(data_net) :
         /\ data_net' = Without(data_net, i)
         /\ NewMessage(data_net[i]) \/ DuplicateMessage(data_net[i])
  BY DEF DataArrives
<1>3. i = 1 /\ Len(data_net) > 0
  BY <1>1, FirstOnly
<1>4. UNCHANGED <<sender, delivered>>
  BY DEF DataArrives
<1>5. CASE NewMessage(data_net[1])
  BY <1>2, <1>3, <1>4, <1>5, NewMessageEdges
<1>6. CASE DuplicateMessage(data_net[1])
  <2>1. /\ ack_net' = Append(ack_net, AckPacket(rwnd, InOrderCount))
        /\ UNCHANGED <<rwnd, recv_buff, acked, swnd, delivered>>
    BY <1>4, <1>6 DEF DuplicateMessage, sender
  <2>2. WindowEdges' /\ SendEdge' = SendEdge /\ RoomEdge' = RoomEdge
    BY <1>1, <2>1, EdgesKept
  <2>3. AckEdge(AckPacket(rwnd, InOrderCount)) = RoomEdge
    BY <1>1, Edges DEF AckEdge, AckPacket
  <2> QED BY <1>1, <1>2, <1>3, <2>1, <2>2, <2>3, DataEdgesTaken, AckEdgesSent
             DEF EdgeInv
<1> QED BY <1>2, <1>3, <1>5, <1>6

-----------------------------------------------------------------------------
(* The sending side *)

\* An ACK for something new is found inside the window.
LEMMA NewAckHits ==
    ASSUME IInv, EdgeInv, Len(ack_net) > 0, NoHit(swnd, ack_net[1].seq)
    PROVE  ack_net[1].upto = acked
<1>1. /\ TypeOK /\ SenderInv /\ AckInv /\ WindowEdges /\ 1 \in 1 .. Len(ack_net)
  BY PacketTypes DEF IInv, EdgeInv
<1>2. PICK a \in Nat, y \in 0 .. WINDOWSIZE, r \in Nat, u \in Nat :
        /\ a = acked /\ y = swnd.size /\ r = InOrderCount /\ u = ack_net[1].upto
        /\ a <= u /\ u <= r /\ r <= a + y
  <2>1. PICK a \in Nat, y \in 0 .. WINDOWSIZE, r \in Nat, u \in Nat :
          a = acked /\ y = swnd.size /\ r = InOrderCount /\ u = ack_net[1].upto
    BY <1>1, Counts, PacketTypes
  <2>2. a <= u /\ u <= r /\ r <= a + y
    BY <1>1, <2>1 DEF AckInv, WindowEdges, SendEdge
  <2> QED BY <2>1, <2>2
<1>3. CASE u > a
  <2>1. PICK w \in Nat : w = WINDOWSIZE /\ y <= w /\ y \in Nat
    BY Constants
  <2>2. PICK k \in Nat : k = u - a - 1
    <3>1. u - a - 1 \in Nat
      BY <1>3
    <3> QED BY <3>1
  <2>3. k < y /\ k < w /\ a + k + 1 = u
    <3>1. u <= a + y
      BY <1>2, <2>1
    <3>2. k < y
      BY <2>1, <2>2, <3>1
    <3> QED BY <2>1, <2>2, <3>2
  <2>4. k \in Slots
    BY <2>1, <2>3, Constants DEF Slots
  <2>5. PICK j \in Slots : j = At(swnd, k) /\ Offset(swnd, j) = k
    BY <1>1, <2>4, Counts, OffsetAt
  <2>6. SendMsg(j) = u
    BY <1>2, <2>3, <2>5 DEF SendMsg
  <2>7. swnd.msg_seq[j] = ack_net[1].seq
    <3>1. AckOf(u) = SeqOf(u)
      BY <1>3 DEF AckOf
    <3> QED BY <1>1, <1>2, <2>6, <3>1 DEF SenderInv, AckInv
  <2> QED BY <1>2, <2>3, <2>5, <2>7 DEF NoHit
<1>4. CASE ~(u > a)
  BY <1>2, <1>4
<1> QED BY <1>3, <1>4

\* Whichever it is, the window ends where the ACK says.
LEMMA AckSetsEdge ==
    ASSUME IInv, EdgeInv, Len(ack_net) > 0,
           AckSlides(ack_net[1]) \/ AckOnlyResizes(ack_net[1])
    PROVE  SendEdge' = AckEdge(ack_net[1])
<1>1. /\ TypeOK /\ 1 \in 1 .. Len(ack_net)
  BY PacketTypes DEF IInv
<1>2. CASE AckOnlyResizes(ack_net[1])
  <2>1. swnd'.size = ack_net[1].rwnd /\ acked' = acked
    BY <1>1, <1>2 DEF AckOnlyResizes, TypeOK
  <2>2. ack_net[1].upto = acked
    BY <1>2, NewAckHits DEF AckOnlyResizes
  <2> QED BY <2>1, <2>2 DEF SendEdge, AckEdge
<1>3. CASE AckSlides(ack_net[1])
  <2>1. PICK j \in Slots :
          /\ IsFirstHit(swnd, ack_net[1].seq, j)
          /\ AckFrees(Offset(swnd, j) + 1, ack_net[1].rwnd)
    BY <1>3 DEF AckSlides
  <2>2. swnd'.size = ack_net[1].rwnd /\ acked' = acked + (Offset(swnd, j) + 1)
    BY <1>1, <2>1 DEF AckFrees, Slide, TypeOK
  <2>3. ack_net[1].upto = SendMsg(j)
    BY <2>1, AckHitsItsMessage DEF IsFirstHit
  <2>4. acked' = ack_net[1].upto
    <3>1. PICK a \in Nat, o \in Nat : a = acked /\ o = Offset(swnd, j)
      BY <1>1, Counts, Constants
    <3> QED BY <2>2, <2>3, <3>1 DEF SendMsg
  <2> QED BY <2>2, <2>4 DEF SendEdge, AckEdge
<1> QED BY <1>2, <1>3

LEMMA AckArrivesEdges ==
    ASSUME ~Reordering, IInv, EdgeInv, AckArrives
    PROVE  EdgeInv' /\ SendEdge <= SendEdge'
<1>1. /\ TypeOK /\ WindowEdges /\ DataEdges /\ AckEdges
      /\ ack_net \in Seq(AckPackets)
  BY DEF IInv, EdgeInv, TypeOK
<1>2. PICK i \in Arrivals(ack_net) :
         /\ ack_net' = Without(ack_net, i)
         /\ AckSlides(ack_net[i]) \/ AckOnlyResizes(ack_net[i])
  BY DEF AckArrives
<1>3. i = 1 /\ Len(ack_net) > 0 /\ 1 \in 1 .. Len(ack_net)
  BY <1>1, <1>2, FirstOnly, PacketTypes
<1>4. UNCHANGED <<rwnd, recv_buff, delivered, data_net>>
  BY DEF AckArrives, receiver
<1>5. PICK e \in Nat, f \in Nat, g \in Nat, r \in Nat :
        /\ e = SendEdge /\ f = AckEdge(ack_net[1]) /\ g = RoomEdge
        /\ r = InOrderCount /\ SendEdge' = f
  BY <1>1, <1>2, <1>3, AckSetsEdge, Edges
<1>6. RoomEdge' = g /\ InOrderCount' = r
  BY <1>4, <1>5 DEF RoomEdge, InOrderCount
<1>7. e <= f /\ f <= g /\ r <= e
  BY <1>1, <1>3, <1>5 DEF AckEdges, WindowEdges
<1>8. WindowEdges'
  <2>1. \A j \in Slots : recv_buff[j] <= f
    <3>1. \A j \in Slots : recv_buff[j] \in Nat /\ recv_buff[j] <= e
      BY <1>1, <1>5, Edges DEF WindowEdges
    <3> QED BY <1>7, <3>1
  <2>2. r <= f
    BY <1>7
  <2> QED BY <1>4, <1>5, <1>6, <1>7, <2>1, <2>2 DEF WindowEdges
<1>9. SendEdge' \in Nat /\ SendEdge <= SendEdge' /\ RoomEdge' = RoomEdge
  BY <1>5, <1>6, <1>7
<1>10. SendEdge' <= AckEdge(ack_net[1])
  BY <1>5
<1> QED BY <1>1, <1>2, <1>3, <1>4, <1>8, <1>9, <1>10, DataEdgesKept, AckEdgesTaken
           DEF EdgeInv

-----------------------------------------------------------------------------
(* Every step *)

\* Only an ACK moves the edge of the send window.
LEMMA OthersKeepEdge ==
    ASSUME TypeOK, [Next]_vars, ~AckArrives
    PROVE  SendEdge' = SendEdge
<1>1. UNCHANGED <<acked, swnd.size>>
  <2>1. CASE k_sendto
    BY <2>1 DEF k_sendto, TypeOK
  <2>2. CASE SendNew
    BY <2>2 DEF SendNew, TypeOK
  <2>3. CASE ThreadS /\ ~SendNew
    BY <2>3 DEF ThreadS, BeginRetransmit, NothingExpired, Retransmit, EndRetransmit,
                BeginSend, SkipSlot, EndSend, sender
  <2>4. CASE DataArrives \/ WindowUpdate \/ k_recvfrom \/ DropData \/ DropAck
    BY <2>4 DEF DataArrives, WindowUpdate, k_recvfrom, DropData, DropAck, sender
  <2>5. CASE UNCHANGED vars
    BY <2>5 DEF vars
  <2> QED BY <2>1, <2>2, <2>3, <2>4, <2>5 DEF Next
<1> QED BY <1>1 DEF SendEdge

LEMMA NextKeepsEdges ==
    ASSUME ~Reordering, IInv, IInv', EdgeInv, [Next]_vars
    PROVE  EdgeInv'
<1>1. CASE k_sendto \/ ThreadS
  BY <1>1, SenderStep
<1>2. CASE AckArrives
  BY <1>2, AckArrivesEdges
<1>3. CASE DataArrives
  BY <1>3, DataArrivesEdges
<1>4. CASE k_recvfrom
  BY <1>4, RecvfromEdges
<1>5. CASE WindowUpdate \/ DropData \/ DropAck
  BY <1>5, ChannelStep
<1>6. CASE UNCHANGED vars
  <2>1. UNCHANGED <<acked, swnd, rwnd, recv_buff, delivered, data_net, ack_net>>
    BY <1>6 DEF vars
  <2> QED BY <2>1 DEF EdgeInv, WindowEdges, DataEdges, AckEdges, SendEdge, RoomEdge,
                      InOrderCount, AckEdge
<1> QED BY <1>1, <1>2, <1>3, <1>4, <1>5, <1>6 DEF Next

-----------------------------------------------------------------------------
(* Theorems *)

\* As long as packets stay in order, the edge of the send window never passes
\* that of the receive buffer, nor does a packet that is under way.
THEOREM EdgeInvariance ==
    ASSUME ~Reordering
    PROVE  Spec => []EdgeInv
<1>1. Init => EdgeInv
  BY InitEdges
<1>2. IInv /\ IInv' /\ EdgeInv /\ [Next]_vars => EdgeInv'
  BY NextKeepsEdges
<1> QED BY <1>1, <1>2, Invariance, PTL DEF Spec

\* Flow control: a DATA packet never meets a receive buffer that has no room for
\* it, so threadR refuses none as a false duplicate.
THEOREM FlowControl ==
    ASSUME ~Reordering
    PROVE  Spec => []NoOverrun
<1>1. ASSUME IInv, EdgeInv
      PROVE  NoOverrun
  <2>1. TypeOK /\ WindowEdges /\ DataEdges
    BY <1>1 DEF IInv, EdgeInv
  <2>2. DOMAIN data_net = 1 .. Len(data_net)
    BY <2>1, LenProperties DEF TypeOK
  <2>3. \A i \in 1 .. Len(data_net) : data_net[i].msg <= RoomEdge
    BY <2>1, Edges DEF WindowEdges, DataEdges
  <2> QED BY <2>2, <2>3 DEF NoOverrun, RoomEdge
<1> QED BY <1>1, Invariance, EdgeInvariance, PTL

\* The ACK branch of threadR, which looks for the number of an ACK inside the
\* send window only, finds the number of every ACK for something new.
THEOREM AckIsFound ==
    ASSUME ~Reordering
    PROVE  Spec => []NewAckIsFound
<1>1. ASSUME IInv, EdgeInv
      PROVE  NewAckIsFound
  <2>1. TypeOK /\ AckInv /\ WindowEdges /\ ack_net \in Seq(AckPackets)
    BY <1>1 DEF IInv, EdgeInv, TypeOK
  <2>2. CASE ack_net # <<>>
    <3>1. 1 \in 1 .. Len(ack_net)
      <4>1. Len(ack_net) \in Nat /\ Len(ack_net) # 0
        BY <2>1, <2>2, EmptySeq, LenProperties
      <4> QED BY <4>1
    <3>2. PICK e \in Nat, r \in Nat, u \in Nat :
            e = SendEdge /\ r = InOrderCount /\ u = ack_net[1].upto
      BY <2>1, <3>1, Edges, PacketTypes
    <3>3. u <= r /\ r <= e
      BY <2>1, <3>1, <3>2 DEF AckInv, WindowEdges
    <3>4. u <= e
      BY <3>3
    <3> QED BY <3>2, <3>4 DEF NewAckIsFound, SendEdge
  <2> QED BY <2>2 DEF NewAckIsFound
<1> QED BY <1>1, Invariance, EdgeInvariance, PTL

\* An ACK shrinks the send window by no more than it slides it: what the sender
\* was once allowed to send stays allowed.
THEOREM EdgeMonotone ==
    ASSUME ~Reordering
    PROVE  Spec => EdgeNeverRetracts
<1>1. ASSUME IInv, EdgeInv, [Next]_vars
      PROVE  [acked' + swnd'.size >= acked + swnd.size]_vars
  <2>1. SendEdge \in Nat /\ TypeOK
    BY <1>1, Edges DEF IInv
  <2>2. SendEdge' \in Nat /\ SendEdge <= SendEdge'
    <3>1. CASE AckArrives
      <4>1. PICK i \in Arrivals(ack_net) :
               AckSlides(ack_net[i]) \/ AckOnlyResizes(ack_net[i])
        BY <3>1 DEF AckArrives
      <4>2. i = 1 /\ Len(ack_net) > 0 /\ 1 \in 1 .. Len(ack_net)
        BY <2>1, <4>1, FirstOnly, PacketTypes DEF TypeOK
      <4>3. SendEdge' = AckEdge(ack_net[1])
        BY <1>1, <4>1, <4>2, AckSetsEdge
      <4> QED BY <1>1, <2>1, <3>1, <4>2, <4>3, AckArrivesEdges, Edges
    <3>2. CASE ~AckArrives
      BY <1>1, <2>1, <3>2, OthersKeepEdge
    <3> QED BY <3>1, <3>2
  <2> QED BY <2>1, <2>2 DEF SendEdge
<1> QED BY <1>1, Invariance, EdgeInvariance, PTL DEF Spec, EdgeNeverRetracts
==============================================================================
