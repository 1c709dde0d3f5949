------------------------------ MODULE EncFile ------------------------------
(***************************************************************************)
(* One connection of the encryption service of A3: the client              *)
(* retrieveencfileclient.c and the child of doencfileserver.c that serves  *)
(* it.  In a round the client sends a key and a file that ends with NUL,   *)
(* and the server sends the encrypted file, with a NUL again.  A byte in   *)
(* between says that there is another round.  Children share nothing, for  *)
(* the names of their files contain the port of the client.                *)
(*                                                                         *)
(* TCP keeps bytes, not messages: a recv returns any first part of what is *)
(* there, up to the size of its buffer, and what it returns behind a NUL   *)
(* is lost.  A send waits until there is room for its bytes, which go out  *)
(* one by one here: a chunk is no more than several of them.               *)
(***************************************************************************)
EXTENDS Integers, FiniteSetsExt, SequencesExt

CONSTANTS
    KEYLEN,         \* the number of letters, and the length of a key
    MAXBUFLEN,      \* the buffer of a recv
    UpRoom,         \* the bytes for which the two sockets have room on their way
    DownRoom,       \* to the server, and on their way back
    OtherBytes,     \* bytes that are neither letters nor special
    Files,          \* the files that the client sends
    MaxRounds       \* bound: the rounds of the connection

NUL == 0
EOF == 255          \* the byte that a char cannot tell from EOF
Letters == 1 .. KEYLEN
Bytes == Letters \cup OtherBytes \cup {NUL, EOF}

ASSUME EncAssumption ==
    /\ KEYLEN \in Nat \ {0} /\ KEYLEN < EOF
    /\ MAXBUFLEN \in Nat \ {0} /\ UpRoom \in Nat \ {0} /\ DownRoom \in Nat \ {0}
    /\ OtherBytes \subseteq KEYLEN + 1 .. EOF - 1
    /\ Files \subseteq Seq(Bytes)
    /\ MaxRounds \in Nat

VARIABLES
    c_pc,           \* where the client is
    file,           \* the file it sends and the key it sends with it
    copy,           \* what it has written to its .enc file
    unsent,         \* what it has yet to send of a round
    s_pc,           \* where the child is
    key, keylen,    \* its array for the key, and how much of it was received
    plain,          \* what it has written to its own file
    cipher,         \* what it has yet to send of the encrypted file
    upstream, downstream,       \* the bytes under way, in each direction
    rounds,         \* the number of rounds, for the bound
    torn            \* history: a file that contains a NUL has been sent

client == <<c_pc, file, copy, unsent>>
server == <<s_pc, key, keylen, plain, cipher>>
vars   == <<client, server, upstream, downstream, rounds, torn>>

-----------------------------------------------------------------------------

\* The part of s before the first byte b.
Before(b, s) ==
    LET i == SelectInSeq(s, LAMBDA x : x = b)
    IN  IF i = 0 THEN s ELSE SubSeq(s, 1, i - 1)

\* What recv may return of a stream, for a buffer of n bytes.
Recv(stream, n) == {SubSeq(stream, 1, k) : k \in 1 .. Min({n, Len(stream)})}

After(stream, chunk) == SubSeq(stream, Len(chunk) + 1, Len(stream))

\* validate_key: every letter once.
Keys == {k \in [Letters -> Letters] : Range(k) = Letters}

NoFile == [bytes |-> <<>>, key |-> <<>>]

substitute_char(c, k) == IF c \in Letters THEN k[c] ELSE c

\* Reading ends at the first byte that looks like EOF.
Encrypted(s, k) ==
    LET text == Before(EOF, s)
    IN  [i \in 1 .. Len(text) |-> substitute_char(text[i], k)]

-----------------------------------------------------------------------------
(* The client *)

\* The key and the file are to go out, after the byte that announces another round.
SendFile ==
    /\ c_pc = "ask"
    /\ rounds < MaxRounds
    /\ \E f \in Files, k \in Keys :
         /\ file' = [bytes |-> f, key |-> k]
         /\ torn' = (torn \/ NUL \in ToSet(f))
         /\ unsent' = (IF rounds = 0 THEN <<>> ELSE <<NUL>>) \o k \o f \o <<NUL>>
    /\ copy' = <<>>
    /\ c_pc' = "send"
    /\ rounds' = rounds + 1
    /\ UNCHANGED <<server, upstream, downstream>>

\* The client does not receive before it has sent everything.
SendByte ==
    /\ c_pc = "send"
    /\ Len(upstream) < UpRoom
    /\ upstream' = Append(upstream, Head(unsent))
    /\ unsent' = Tail(unsent)
    /\ c_pc' = IF Tail(unsent) = <<>> THEN "receive" ELSE "send"
    /\ UNCHANGED <<file, copy, server, downstream, rounds, torn>>

ReceiveCopy ==
    /\ c_pc = "receive"
    /\ \E chunk \in Recv(downstream, MAXBUFLEN) :
         /\ downstream' = After(downstream, chunk)
         /\ copy' = copy \o Before(NUL, chunk)
         /\ c_pc' = IF NUL \in ToSet(chunk) THEN "ask" ELSE "receive"
    /\ UNCHANGED <<file, unsent, server, upstream, rounds, torn>>

\* "No", or the client is interrupted.  Its variables end with it, and nothing looks
\* at its files any more.  If it leaves bytes unread, TCP may drop what it has sent.
Close ==
    /\ c_pc # "closed"
    /\ c_pc' = "closed"
    /\ upstream' \in Prefixes(upstream)
    /\ downstream' = <<>>
    /\ file' = NoFile /\ copy' = <<>> /\ unsent' = <<>> /\ torn' = FALSE
    /\ UNCHANGED <<server, rounds>>

-----------------------------------------------------------------------------
(* The child of the server *)

\* fopen(filename, "w"): the file of the last round is gone.
NewRound ==
    /\ s_pc' = "receive"
    /\ keylen' = 0
    /\ plain' = <<>>
    /\ UNCHANGED <<key, cipher>>

\* Fault: all of a recv goes into the key until the key is full.
KeyPartAll(data) == IF keylen < KEYLEN THEN data ELSE <<>>

KeyPart(data) == SubSeq(data, 1, Min({Len(data), KEYLEN - keylen}))

\* The first KEYLEN bytes of a round are the key, the others are the file.
KeyThenFile(data) ==
    LET part == KeyPart(data)
    IN  /\ key' = [i \in Letters |->
                      IF i \in keylen + 1 .. keylen + Len(part)
                      THEN part[i - keylen] ELSE key[i]]
        /\ keylen' = keylen + Len(part)
        /\ plain' = plain \o After(data, part)

\* Fault: the end is not looked for in a recv that holds a part of the key.
EndsLate(chunk) == keylen = KEYLEN /\ NUL \in ToSet(chunk)

Ends(chunk) == NUL \in ToSet(chunk)

ReceiveFile ==
    /\ s_pc = "receive"
    /\ \E chunk \in Recv(upstream, MAXBUFLEN) :
         /\ upstream' = After(upstream, chunk)
         /\ KeyThenFile(Before(NUL, chunk))
         /\ s_pc' = IF Ends(chunk) THEN "encrypt" ELSE "receive"
    /\ UNCHANGED <<client, cipher, downstream, rounds, torn>>

Encrypt ==
    /\ s_pc = "encrypt"
    /\ cipher' = Encrypted(plain, key) \o <<NUL>>
    /\ s_pc' = "send"
    /\ UNCHANGED <<client, key, keylen, plain, upstream, downstream, rounds, torn>>

\* A send to a client that is gone has no effect, or raises SIGPIPE.
SendCipher ==
    /\ s_pc = "send"
    /\ \/ /\ c_pc # "closed"
          /\ Len(downstream) < DownRoom
          /\ downstream' = Append(downstream, Head(cipher))
          /\ cipher' = Tail(cipher)
          /\ s_pc' = IF Tail(cipher) = <<>> THEN "wait" ELSE "send"
       \/ /\ c_pc = "closed"
          /\ s_pc' \in {"wait", "exited"}
          /\ cipher' = <<>>
          /\ UNCHANGED downstream
    /\ UNCHANGED <<client, key, keylen, plain, upstream, rounds, torn>>

\* Fault: it is received with a whole buffer.
WithoutBuffer(stream) == SubSeq(stream, Min({MAXBUFLEN, Len(stream)}) + 1, Len(stream))

WithoutByte(stream) == Tail(stream)

\* One byte between two rounds, whatever it is.
NextRound ==
    /\ s_pc = "wait"
    /\ upstream # <<>>
    /\ upstream' = WithoutByte(upstream)
    /\ NewRound
    /\ UNCHANGED <<client, downstream, rounds, torn>>

\* recv returns 0.
Hangup ==
    /\ s_pc \in {"receive", "wait"}
    /\ upstream = <<>>
    /\ c_pc = "closed"
    /\ s_pc' = "exited"
    /\ UNCHANGED <<client, key, keylen, plain, cipher, upstream, downstream, rounds, torn>>

-----------------------------------------------------------------------------

\* The array key is not initialized.
Init ==
    /\ c_pc = "ask"
    /\ file = NoFile
    /\ copy = <<>> /\ unsent = <<>>
    /\ s_pc = "receive"
    /\ key \in {[i \in Letters |-> b] : b \in Bytes}
    /\ keylen = 0
    /\ plain = <<>> /\ cipher = <<>>
    /\ upstream = <<>> /\ downstream = <<>>
    /\ rounds = 0
    /\ torn = FALSE

Child == ReceiveFile \/ Encrypt \/ SendCipher \/ NextRound \/ Hangup

Next == SendFile \/ SendByte \/ ReceiveCopy \/ Close \/ Child

Spec == Init /\ [][Next]_vars

\* Both programs keep running; the user owes nothing.
FairSpec == Spec /\ WF_vars(SendByte \/ ReceiveCopy) /\ WF_vars(Child)

-----------------------------------------------------------------------------

\* Every variable keeps its type, however the streams are cut: no more of the key is
\* stored than it has letters.
TypeOK ==
    /\ c_pc \in {"ask", "send", "receive", "closed"}
    /\ s_pc \in {"receive", "encrypt", "send", "wait", "exited"}
    /\ key \in [Letters -> Bytes]
    /\ keylen \in 0 .. KEYLEN
    /\ copy \in Seq(Bytes) /\ plain \in Seq(Bytes)
    /\ unsent \in Seq(Bytes) /\ cipher \in Seq(Bytes)
    /\ upstream \in Seq(Bytes) /\ downstream \in Seq(Bytes)
    /\ rounds \in 0 .. MaxRounds

\* However TCP cuts the streams into pieces, and whatever rounds went before, what
\* the client has when it asks for the next file is this file encrypted with this
\* key, all of it up to a byte 255, and nothing is left in the streams; unless some
\* file had a NUL in it.
CopyIsRight ==
    c_pc = "ask" /\ rounds > 0 /\ ~torn =>
        /\ copy = Encrypted(file.bytes, file.key)
        /\ upstream = <<>> /\ downstream = <<>>
        /\ s_pc = "wait"

\* Both sides wait in send for the other, which would have to receive.
Jammed ==
    /\ c_pc = "send" /\ Len(upstream) = UpRoom
    /\ s_pc = "send" /\ Len(downstream) = DownRoom

\* The client never waits for ever, even when a NUL in a file has put the two out
\* of step, for every round that it sends brings it an answer; except that then the
\* answers may jam with what the client is still sending.
EveryRoundEnds ==
    c_pc \in {"send", "receive"} ~> c_pc \in {"ask", "closed"} \/ (torn /\ Jammed)
=============================================================================
