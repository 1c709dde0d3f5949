------------------------------ MODULE KTPWindow ------------------------------
(***************************************************************************)
(* The circular windows of KTP: the struct window of A4/ksocket.h, which a *)
(* socket keeps twice, as its send window (swnd) and as its receive window *)
(* (rwnd).  A window is a ring of WINDOWSIZE slots.  It starts at slot     *)
(* base and spans size slots; the slots after the span are those whose     *)
(* message the other side may not send yet (swnd) or the reader has not    *)
(* taken yet (rwnd).  Each slot carries the sequence number of the message *)
(* that is next to occupy it.                                              *)
(***************************************************************************)
EXTENDS Integers

CONSTANTS
    WINDOWSIZE,     \* slots of a window and of a buffer (10 in the code)
    MAXSEQ          \* sequence numbers run from 1 to MAXSEQ (32 in the code)

ASSUME WindowAssumption ==
    /\ WINDOWSIZE \in Nat \ {0}
    /\ MAXSEQ \in Nat
    /\ MAXSEQ >= 2 * WINDOWSIZE

Slots == 0 .. WINDOWSIZE - 1

\* The slot k places after the base.
At(w, k) == (w.base + k) % WINDOWSIZE

\* How many places slot j lies after the base.
Offset(w, j) == (j - w.base + WINDOWSIZE) % WINDOWSIZE

\* The loop "j = base, ctr = 0; ctr < size" visits the slots at offsets below
\* size and stops at the first one that carries seq.
IsFirstHit(w, seq, j) ==
    /\ Offset(w, j) < w.size
    /\ w.msg_seq[j] = seq
    /\ \A i \in Slots : Offset(w, i) < Offset(w, j) => w.msg_seq[i] # seq

NoHit(w, seq) ==
    \A j \in Slots : Offset(w, j) < w.size => w.msg_seq[j] # seq

\* Faults of NthSeq, for the mutation of the checks: numbers that start from 0,
\* and a sequence space that is one too small.
NthSeqFromZero(last, k) == (last + k) % MAXSEQ
NthSeqTooFew(last, k) == ((last + k - 1) % (MAXSEQ - 1)) + 1

\* The sequence number handed out k-th after last: what k rounds of
\* "last_seq = last_seq % MAXSEQ + 1" yield.
NthSeq(last, k) == ((last + k - 1) % MAXSEQ) + 1

\* Sliding a window past its first n slots: they get fresh sequence numbers
\* in ring order, and the base moves behind them.
Slide(w, n) ==
    [w EXCEPT !.msg_seq  = [j \in Slots |->
                               IF Offset(w, j) < n
                               THEN NthSeq(w.last_seq, Offset(w, j) + 1)
                               ELSE w.msg_seq[j]],
              !.last_seq = NthSeq(w.last_seq, n),
              !.base     = At(w, n)]

\* The values a send window's timeout entry takes here: not sent, or sent with
\* a running timer (the code stores the time; when it is over is left open).
Unset == -1
Armed == 1

\* Both windows start out full-size with the first WINDOWSIZE numbers.  The
\* code writes last_seq = 10, which is WINDOWSIZE only as long as that is 10.
init_window ==
    [base |-> 0, size |-> WINDOWSIZE, last_seq |-> WINDOWSIZE,
     msg_seq |-> [j \in Slots |-> j + 1]]

\* The half of struct window that a send window uses, and the half that a
\* receive window uses.
init_swnd ==
    [base |-> init_window.base, size |-> init_window.size,
     last_seq |-> init_window.last_seq, msg_seq |-> init_window.msg_seq,
     timeout |-> [j \in Slots |-> Unset]]

init_rwnd ==
    [base |-> init_window.base, size |-> init_window.size,
     last_seq |-> init_window.last_seq, msg_seq |-> init_window.msg_seq,
     last_ack |-> 0, received |-> [j \in Slots |-> FALSE]]
==============================================================================
