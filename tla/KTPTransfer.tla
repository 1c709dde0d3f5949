----------------------------- MODULE KTPTransfer -----------------------------
(***************************************************************************)
(* One direction of a KTP connection: the application that calls k_sendto, *)
(* thread S and the ACK half of thread R on the sending side, the DATA     *)
(* half of thread R and the application that calls k_recvfrom on the       *)
(* receiving side, and the two UDP channels between them.  The opposite    *)
(* direction uses the other window and buffer of each socket and shares    *)
(* nothing with this one but the semaphore.                                *)
(*                                                                         *)
(* Every handler runs under the semaphore of its socket and is one action; *)
(* only thread S, which sends packet after packet while holding it, is     *)
(* split, so that packets arrive at the peer between two sends.  The n-th  *)
(* message that k_sendto accepts has the payload n.                        *)
(***************************************************************************)
EXTENDS KTPWindow, Sequences

CONSTANTS
    MaxMsgs,        \* bound: how many messages the application sends
    Cap,            \* bound: packets on their way, both channels together
    Lossy,          \* whether packets are lost on the way (dropMessage, UDP)
    Reordering      \* whether packets overtake each other

ASSUME TransferAssumption ==
    /\ MaxMsgs \in Nat
    /\ Cap \in Nat /\ Cap > WINDOWSIZE
    /\ Lossy \in BOOLEAN
    /\ Reordering \in BOOLEAN

VARIABLES
    swnd,               \* send window of the sending socket
    send_buff,          \* its send buffer
    send_buff_empty,    \* which slots of the send buffer are free
    s_pc,               \* where thread S is with respect to this socket
    s_ctr,              \* its loop counter
    rwnd,               \* receive window of the receiving socket
    recv_buff,          \* its receive buffer
    nospace,            \* its flag: the receive buffer was full
    data_net,           \* DATA packets on their way to the receiver
    ack_net,            \* ACK packets on their way to the sender
    sent,               \* history: messages k_sendto has accepted
    acked,              \* history: messages the send window has slid past
    delivered           \* history: messages k_recvfrom has returned

sender   == <<swnd, send_buff, send_buff_empty, sent, acked>>
thread   == <<s_pc, s_ctr>>
receiver == <<rwnd, recv_buff, nospace, delivered>>
vars     == <<swnd, send_buff, send_buff_empty, s_pc, s_ctr, rwnd, recv_buff,
              nospace, data_net, ack_net, sent, acked, delivered>>

-----------------------------------------------------------------------------
(* The channels *)

\* Bound of the model: thread S starts a loop, which sends a window at most, only
\* while that leaves no more than Cap packets under way, and thread R an update
\* only while there is room for such a loop beside it.  A DATA packet that
\* arrives makes room for the ACK it may cause.
Room(n) == Len(data_net) + Len(ack_net) + n <= Cap

\* The positions from which the next packet may be received.
Arrivals(net) == {i \in DOMAIN net : Reordering \/ i = 1}

Without(net, i) ==
    [k \in 1 .. Len(net) - 1 |-> IF k < i THEN net[k] ELSE net[k + 1]]

\* A DATA packet carries the number and the payload of its slot.
DataPacket(j) == [seq |-> swnd.msg_seq[j], msg |-> send_buff[j]]

\* Messages received in order so far: those the application took and those
\* that wait for it behind the receive window.
InOrderCount == Len(delivered) + WINDOWSIZE - rwnd.size

\* An ACK of receive window w; upto is history, the count w.last_ack stands for.
AckPacket(w, count) == [seq |-> w.last_ack, rwnd |-> w.size, upto |-> count]

-----------------------------------------------------------------------------
(* The sending side *)

\* Thread S holds the socket's semaphore inside either of its two loops.
SemaphoreFree == s_pc \in {"asleep", "between"}

\* k_sendto: the message goes to the first free slot, counted from the base of
\* the window and across the whole buffer; a full buffer changes nothing.
k_sendto ==
    /\ SemaphoreFree
    /\ sent < MaxMsgs
    /\ \E k \in Slots :
         /\ send_buff_empty[At(swnd, k)]
         /\ \A i \in 0 .. k - 1 : ~send_buff_empty[At(swnd, i)]
         /\ send_buff' = [send_buff EXCEPT ![At(swnd, k)] = sent + 1]
         /\ send_buff_empty' = [send_buff_empty EXCEPT ![At(swnd, k)] = FALSE]
         /\ swnd' = [swnd EXCEPT !.timeout[At(swnd, k)] = Unset]
    /\ sent' = sent + 1
    /\ UNCHANGED <<thread, receiver, data_net, ack_net, acked>>

\* Thread S wakes up and finds the timer of the oldest message over.
BeginRetransmit ==
    /\ s_pc = "asleep"
    /\ swnd.timeout[swnd.base] # Unset
    /\ Room(WINDOWSIZE)
    /\ s_pc' = "retransmit"
    /\ s_ctr' = 0
    /\ UNCHANGED <<sender, receiver, data_net, ack_net>>

\* Thread S wakes up and finds no timer over.
NothingExpired ==
    /\ s_pc = "asleep"
    /\ s_pc' = "between"
    /\ UNCHANGED <<sender, s_ctr, receiver, data_net, ack_net>>

Retransmit ==
    /\ s_pc = "retransmit"
    /\ s_ctr < swnd.size
    /\ swnd.timeout[At(swnd, s_ctr)] # Unset
    /\ data_net' = Append(data_net, DataPacket(At(swnd, s_ctr)))
    /\ s_ctr' = s_ctr + 1
    /\ UNCHANGED <<sender, s_pc, receiver, ack_net>>

EndRetransmit ==
    /\ s_pc = "retransmit"
    /\ s_ctr < swnd.size => swnd.timeout[At(swnd, s_ctr)] = Unset
    /\ s_pc' = "between"
    /\ UNCHANGED <<sender, s_ctr, receiver, data_net, ack_net>>

\* Second loop of thread S: send what is in the window, present and unsent.
BeginSend ==
    /\ s_pc = "between"
    /\ Room(WINDOWSIZE)
    /\ s_pc' = "send"
    /\ s_ctr' = 0
    /\ UNCHANGED <<sender, receiver, data_net, ack_net>>

Unsent(j) == swnd.timeout[j] = Unset /\ ~send_buff_empty[j]

\* Fault of SendNew: the loop runs over the buffer instead of the window.
SendNewBeyondWindow ==
    /\ s_pc = "send"
    /\ s_ctr < WINDOWSIZE
    /\ Unsent(At(swnd, s_ctr))
    /\ data_net' = Append(data_net, DataPacket(At(swnd, s_ctr)))
    /\ swnd' = [swnd EXCEPT !.timeout[At(swnd, s_ctr)] = Armed]
    /\ s_ctr' = s_ctr + 1
    /\ UNCHANGED <<send_buff, send_buff_empty, sent, acked, s_pc, receiver,
                   ack_net>>

SendNew ==
    /\ s_pc = "send"
    /\ s_ctr < swnd.size
    /\ Unsent(At(swnd, s_ctr))
    /\ data_net' = Append(data_net, DataPacket(At(swnd, s_ctr)))
    /\ swnd' = [swnd EXCEPT !.timeout[At(swnd, s_ctr)] = Armed]
    /\ s_ctr' = s_ctr + 1
    /\ UNCHANGED <<send_buff, send_buff_empty, sent, acked, s_pc, receiver,
                   ack_net>>

SkipSlot ==
    /\ s_pc = "send"
    /\ s_ctr < swnd.size
    /\ ~Unsent(At(swnd, s_ctr))
    /\ s_ctr' = s_ctr + 1
    /\ UNCHANGED <<sender, s_pc, receiver, data_net, ack_net>>

EndSend ==
    /\ s_pc = "send"
    /\ s_ctr >= swnd.size
    /\ s_pc' = "asleep"
    /\ UNCHANGED <<sender, s_ctr, receiver, data_net, ack_net>>

\* The slide of an ACK that frees n slots and leaves a window of the given size.
AckFrees(n, size) ==
    LET first == {k \in Slots : Offset(swnd, k) < n}
    IN  /\ swnd' = [Slide(swnd, n) EXCEPT
                       !.size    = size,
                       !.timeout = [k \in Slots |->
                                       IF k \in first THEN Unset
                                       ELSE swnd.timeout[k]]]
        /\ send_buff_empty' = [k \in Slots |->
                                  k \in first \/ send_buff_empty[k]]
        /\ acked' = acked + n

\* Faults of AckSlides: it frees one slot too many, or keeps the old size.
AckSlidesTooFar(p) ==
    \E j \in Slots :
        /\ IsFirstHit(swnd, p.seq, j)
        /\ AckFrees(Offset(swnd, j) + 2, p.rwnd)

AckSlidesKeepsSize(p) ==
    \E j \in Slots :
        /\ IsFirstHit(swnd, p.seq, j)
        /\ AckFrees(Offset(swnd, j) + 1, swnd.size)

\* Thread R, ACK: the window slides past the acknowledged message if that is
\* inside the window, and takes the advertised size in any case.
AckSlides(p) ==
    \E j \in Slots :
        /\ IsFirstHit(swnd, p.seq, j)
        /\ AckFrees(Offset(swnd, j) + 1, p.rwnd)

\* Fault: a number that the loop does not find counts as the last of the window.
AckUnknownSlides(p) ==
    /\ NoHit(swnd, p.seq)
    /\ AckFrees(swnd.size, p.rwnd)

AckOnlyResizes(p) ==
    /\ NoHit(swnd, p.seq)
    /\ swnd' = [swnd EXCEPT !.size = p.rwnd]
    /\ UNCHANGED <<send_buff_empty, acked>>

AckArrives ==
    /\ SemaphoreFree
    /\ \E i \in Arrivals(ack_net) :
         /\ ack_net' = Without(ack_net, i)
         /\ AckSlides(ack_net[i]) \/ AckOnlyResizes(ack_net[i])
    /\ UNCHANGED <<send_buff, sent, thread, receiver, data_net>>

-----------------------------------------------------------------------------
(* The receiving side *)

\* n is the length of the run of received slots at the start of the window.
IsReceivedRun(received, n) ==
    /\ \A k \in 0 .. n - 1 : received[At(rwnd, k)]
    /\ n < rwnd.size => ~received[At(rwnd, n)]

\* A message inside the window that was not there yet is kept.  If it closes
\* the gap at the base, the window slides behind the messages now in order,
\* shrinks by as many slots, and the receiver acknowledges them.
NewMessage(p) ==
    \E j \in Slots, n \in 0 .. rwnd.size :
        LET received == [rwnd.received EXCEPT ![j] = TRUE]
            stored   == [rwnd EXCEPT !.received = received]
            slid     == [Slide(stored, n) EXCEPT
                            !.last_ack = stored.msg_seq[At(stored, n - 1)],
                            !.size     = rwnd.size - n]
        IN  /\ IsFirstHit(rwnd, p.seq, j)
            /\ ~rwnd.received[j]
            /\ IsReceivedRun(received, n)
            /\ recv_buff' = [recv_buff EXCEPT ![j] = p.msg]
            /\ \/ /\ n = 0
                  /\ rwnd' = stored
                  /\ UNCHANGED ack_net
               \/ /\ n > 0
                  /\ rwnd' = slid
                  /\ ack_net' = Append(ack_net, AckPacket(slid, InOrderCount + n))

\* Faults of DuplicateMessage: it advertises no space, or says nothing.
DuplicateMessageClosesWindow(p) ==
    /\ \/ NoHit(rwnd, p.seq)
       \/ \E j \in Slots : IsFirstHit(rwnd, p.seq, j) /\ rwnd.received[j]
    /\ ack_net' = Append(ack_net, [AckPacket(rwnd, InOrderCount) EXCEPT !.rwnd = 0])
    /\ UNCHANGED <<rwnd, recv_buff>>

DuplicateMessageSilent(p) ==
    /\ \/ NoHit(rwnd, p.seq)
       \/ \E j \in Slots : IsFirstHit(rwnd, p.seq, j) /\ rwnd.received[j]
    /\ UNCHANGED <<rwnd, recv_buff, ack_net>>

\* Any other message counts as a duplicate and is answered with the last ACK.
DuplicateMessage(p) ==
    /\ \/ NoHit(rwnd, p.seq)
       \/ \E j \in Slots : IsFirstHit(rwnd, p.seq, j) /\ rwnd.received[j]
    /\ ack_net' = Append(ack_net, AckPacket(rwnd, InOrderCount))
    /\ UNCHANGED <<rwnd, recv_buff>>

\* Thread R, DATA: whichever it is, the flag nospace is computed afresh.
DataArrives ==
    /\ \E i \in Arrivals(data_net) :
         /\ data_net' = Without(data_net, i)
         /\ NewMessage(data_net[i]) \/ DuplicateMessage(data_net[i])
    /\ nospace' = (rwnd'.size = 0)
    /\ UNCHANGED <<sender, thread, delivered>>

\* Thread R, select timed out: the flag is set and there is space again.
WindowUpdate ==
    /\ nospace
    /\ rwnd.size > 0
    /\ Room(WINDOWSIZE + 1)
    /\ ack_net' = Append(ack_net, AckPacket(rwnd, InOrderCount))
    /\ UNCHANGED <<sender, thread, receiver, data_net>>

\* Faults of k_recvfrom: the slot is not emptied, or it is the newest one.
k_recvfromKeeps ==
    LET slot == At(rwnd, rwnd.size)
    IN  /\ rwnd.received[slot]
        /\ rwnd.size < WINDOWSIZE
        /\ delivered' = Append(delivered, recv_buff[slot])
        /\ rwnd' = [rwnd EXCEPT !.size = @ + 1]
        /\ UNCHANGED <<sender, thread, recv_buff, nospace, data_net, ack_net>>

k_recvfromNewest ==
    LET slot == At(rwnd, WINDOWSIZE - 1)
    IN  /\ rwnd.received[slot]
        /\ rwnd.size < WINDOWSIZE
        /\ delivered' = Append(delivered, recv_buff[slot])
        /\ rwnd' = [rwnd EXCEPT !.received[slot] = FALSE, !.size = @ + 1]
        /\ UNCHANGED <<sender, thread, recv_buff, nospace, data_net, ack_net>>

\* k_recvfrom: the slot behind the window, if it holds a message.
k_recvfrom ==
    LET slot == At(rwnd, rwnd.size)
    IN  /\ rwnd.received[slot]
        /\ delivered' = Append(delivered, recv_buff[slot])
        /\ rwnd' = [rwnd EXCEPT !.received[slot] = FALSE, !.size = @ + 1]
        /\ UNCHANGED <<sender, thread, recv_buff, nospace, data_net, ack_net>>

-----------------------------------------------------------------------------
(* Loss: by dropMessage, which runs where the handlers do, or by the network; *)
(* from outside, the two look the same.                                     *)

DropData ==
    /\ Lossy
    /\ \E i \in Arrivals(data_net) : data_net' = Without(data_net, i)
    /\ UNCHANGED <<sender, thread, receiver, ack_net>>

DropAck ==
    /\ Lossy
    /\ SemaphoreFree
    /\ \E i \in Arrivals(ack_net) : ack_net' = Without(ack_net, i)
    /\ UNCHANGED <<sender, thread, receiver, data_net>>

-----------------------------------------------------------------------------

\* k_socket: both ends start from init_window.  The buffers hold whatever the
\* shared memory held; no slot of them is read before it is written.
Init ==
    /\ swnd = init_swnd
    /\ send_buff = [j \in Slots |-> 0]
    /\ send_buff_empty = [j \in Slots |-> TRUE]
    /\ s_pc = "asleep"
    /\ s_ctr = 0
    /\ rwnd = init_rwnd
    /\ recv_buff = [j \in Slots |-> 0]
    /\ nospace = FALSE
    /\ data_net = <<>>
    /\ ack_net = <<>>
    /\ sent = 0
    /\ acked = 0
    /\ delivered = <<>>

ThreadS ==
    \/ BeginRetransmit
    \/ NothingExpired
    \/ Retransmit
    \/ EndRetransmit
    \/ BeginSend
    \/ SendNew
    \/ SkipSlot
    \/ EndSend

Next ==
    \/ k_sendto
    \/ ThreadS
    \/ AckArrives
    \/ DataArrives
    \/ WindowUpdate
    \/ k_recvfrom
    \/ DropData
    \/ DropAck

Spec == Init /\ [][Next]_vars

-----------------------------------------------------------------------------
(* Safety *)

DataPackets == [seq : 1 .. MAXSEQ, msg : 1 .. MaxMsgs]
AckPackets  == [seq : 0 .. MAXSEQ, rwnd : 0 .. WINDOWSIZE, upto : 0 .. MaxMsgs]

\* Every variable keeps its type; in particular no window grows past the ring
\* and no sequence number leaves 1 .. MAXSEQ.
TypeOK ==
    /\ swnd \in [base : Slots, size : 0 .. WINDOWSIZE, last_seq : 1 .. MAXSEQ,
                 msg_seq : [Slots -> 1 .. MAXSEQ],
                 timeout : [Slots -> {Unset, Armed}]]
    /\ send_buff \in [Slots -> 0 .. MaxMsgs]
    /\ send_buff_empty \in [Slots -> BOOLEAN]
    /\ s_pc \in {"asleep", "retransmit", "between", "send"}
    /\ s_ctr \in 0 .. WINDOWSIZE
    /\ rwnd \in [base : Slots, size : 0 .. WINDOWSIZE, last_seq : 1 .. MAXSEQ,
                 msg_seq : [Slots -> 1 .. MAXSEQ], last_ack : 0 .. MAXSEQ,
                 received : [Slots -> BOOLEAN]]
    /\ recv_buff \in [Slots -> 0 .. MaxMsgs]
    /\ nospace \in BOOLEAN
    /\ data_net \in Seq(DataPackets)
    /\ ack_net \in Seq(AckPackets)
    /\ sent \in 0 .. MaxMsgs
    /\ acked \in 0 .. MaxMsgs
    /\ delivered \in Seq(1 .. MaxMsgs)

\* The receiving application reads what the sending one wrote: the i-th message
\* read is the i-th written, whatever was lost, repeated or retransmitted and
\* however often the sequence numbers wrapped (k_sendto, k_recvfrom, threadR).
InOrderDelivery ==
    /\ Len(delivered) <= sent
    /\ \A i \in DOMAIN delivered : delivered[i] = i

\* The sender gives up its copy of a message (the ACK branch of threadR sets
\* send_buff_empty) only when the receiver holds it in order, and the receiver
\* is never more than a window behind what the sender accepted.
NothingForgotten ==
    /\ acked <= InOrderCount
    /\ InOrderCount <= sent
    /\ sent <= acked + WINDOWSIZE

\* Flow control: when packets stay in order, no DATA packet on its way is
\* beyond what the receive buffer has room for, so none is refused as a false
\* duplicate (swnd.size follows the rwnd piggybacked on the ACKs).
NoOverrun ==
    \A i \in DOMAIN data_net :
        data_net[i].msg <= Len(delivered) + WINDOWSIZE

\* When packets stay in order, an ACK for something new finds its number inside
\* the send window, which is the only place threadR looks for it.
NewAckIsFound ==
    ack_net # <<>> /\ ack_net[1].upto > acked
        => ack_net[1].upto <= acked + swnd.size

\* When packets stay in order, the last message the sender may send never
\* moves back: an ACK may shrink the window, but by no more than it slides.
EdgeNeverRetracts ==
    [][acked' + swnd'.size >= acked + swnd.size]_vars

\* The connection is a pipe that holds at most two windows of messages.
Pipe == INSTANCE KTPPipe
            WITH accepted <- sent, Bound <- 2 * WINDOWSIZE

\* k_sendto and k_recvfrom implement that pipe; everything the two daemons and
\* the network do in between is invisible.
PipeSpec == Pipe!Spec

-----------------------------------------------------------------------------
(* Liveness *)

\* The threads of both daemons and the receiving application keep running.  A
\* timer that stays armed runs out one day.  What is sent again and again gets
\* through one day, since dropMessage throws the dice for each packet anew.
\* The sending application owes nothing.
MessageGetsThrough(n) ==
    /\ data_net # <<>>
    /\ data_net[1].msg = n
    /\ DataArrives

Fairness ==
    /\ WF_vars(ThreadS)
    /\ SF_vars(BeginRetransmit)
    /\ WF_vars(WindowUpdate)
    /\ WF_vars(k_recvfrom)
    /\ SF_vars(AckArrives)
    /\ \A n \in 1 .. MaxMsgs : SF_vars(MessageGetsThrough(n))

FairSpec == Spec /\ Fairness

\* The sender believes the receiver full and has nothing to send, the receiver
\* has space and believes the sender knows, and no packet under way tells
\* either of them otherwise.
Stalled ==
    /\ swnd.size = 0
    /\ rwnd.size > 0
    /\ ~nospace
    /\ data_net = <<>>
    /\ \A i \in DOMAIN ack_net : ack_net[i].rwnd = 0

\* Reliable delivery: every message k_sendto accepts is one day returned by
\* k_recvfrom.
EveryMessageDelivered ==
    \A n \in 1 .. MaxMsgs : sent >= n ~> Len(delivered) >= n

\* It fails in one way only: a message stays behind only if the connection
\* comes to the standstill above.
DeliveredUnlessStalled ==
    \A n \in 1 .. MaxMsgs : sent >= n ~> Len(delivered) >= n \/ Stalled
=============================================================================
