------------------------------- MODULE KTPPipe -------------------------------
(***************************************************************************)
(* What a KTP connection promises to the two applications: a pipe.         *)
(* Messages come out one at a time, in the order they went in, each once,  *)
(* and at most Bound of them are inside.                                   *)
(***************************************************************************)
EXTENDS Integers, Sequences

CONSTANTS MaxMsgs, Bound

VARIABLES
    accepted,       \* how many messages went in; the n-th has the payload n
    delivered       \* the messages that came out

Init == accepted = 0 /\ delivered = <<>>

\* k_sendto accepts a message.
Accept ==
    /\ accepted < MaxMsgs
    /\ accepted - Len(delivered) < Bound
    /\ accepted' = accepted + 1
    /\ UNCHANGED delivered

\* k_recvfrom returns the next message.
Deliver ==
    /\ Len(delivered) < accepted
    /\ delivered' = Append(delivered, Len(delivered) + 1)
    /\ UNCHANGED accepted

Next == Accept \/ Deliver

Spec == Init /\ [][Next]_<<accepted, delivered>>
==============================================================================
