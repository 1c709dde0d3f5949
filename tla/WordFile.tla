------------------------------ MODULE WordFile ------------------------------
(***************************************************************************)
(* The word server and the word clients of A2, over UDP.  A client asks    *)
(* for one word after the other, and gives up when an answer does not come *)
(* in time.  The server takes any request, of any client, for a request of *)
(* the next word: only the first one, which opens the file, is looked at.  *)
(* A server ends with the file; another one may then be started.           *)
(***************************************************************************)
EXTENDS Integers, SequencesExt

CONSTANTS
    Clients,        \* client processes, each of which runs once
    Words,          \* the ordinary words
    Size,           \* the bytes of a line, for each word
    MaxWords,       \* bound: the words in the file, the lines that are kept of it,
                    \* the streams that are left open
    MaxRuns         \* bound: the servers that are started, one after the other

VARIABLES
    text,           \* the words of the file that exists
    running,        \* the server: whether it runs
    fp,             \* ... the words that it has not read, or NULL
    res,            \* ... the last word that it has read
    runs,           \* ... how many there have been
    requests,       \* the datagrams in its queue
    c_pc,           \* each client
    answer,         \* the datagram in its queue, or Nothing
    response,       \* the lines that it has printed to fp, or Unopened
    left,           \* those of the streams that it has left open, the oldest first
    served          \* history: the clients that have been answered

server  == <<running, fp, res, runs>>
clients == <<c_pc, response, left>>
vars    == <<text, server, requests, clients, answer, served>>

-----------------------------------------------------------------------------

hellomsg == "HELLO"
finishmsg == "FINISH"
NOTFOUND == "NOTFOUND WORD"     \* for a name that the client did not ask for
NotFound == "NOTFOUND"          \* notfounderr: for the one it did
Junk == "uninitialized"

NULL == <<Junk>>
Unopened == <<Junk>>
Nothing == "nothing"

\* What a request may ask for: the file, one that does not exist, the next word.
Names == {"file", "no file"}
WORD == "WORD"

Contents == Words \cup {hellomsg, finishmsg}
Texts == BoundedSeq(Contents, MaxWords)
Requests == [from : Clients, what : Names \cup {WORD}]
Answers == Contents \cup {Junk, NOTFOUND, NotFound}
Files == {words \in Seq(Answers) : Len(words) > 0 /\ words[1] = hellomsg}

ASSUME WordAssumption ==
    MaxWords \in Nat /\ MaxRuns \in Nat /\ Size \in [Answers -> Nat]

\* A datagram to a server that does not run is lost.
SendTo(c, what) ==
    requests' = IF running THEN Append(requests, [from |-> c, what |-> what])
                ELSE requests

-----------------------------------------------------------------------------
(* The clients *)

Start(c) ==
    /\ c_pc[c] = "idle"
    /\ c_pc' = [c_pc EXCEPT ![c] = "waiting"]
    /\ \E name \in Names : SendTo(c, name)
    /\ UNCHANGED <<text, server, answer, response, left, served>>

\* Fault: the response file is never opened.
FileAfterNoOpen(c, word) == Append(response[c], word)

\* Fault: every HELLO is taken for a word.
FileAfterNoHello(c, word) ==
    IF word = hellomsg /\ response[c] = Unopened THEN <<word>>
    ELSE Append(response[c], word)

\* HELLO opens the response file anew, and fp is the new stream.
FileAfter(c, word) ==
    IF word = hellomsg THEN <<word>> ELSE Append(response[c], word)

\* The stream that fp was until then is not closed.
LeftAfter(c, word) ==
    IF word = hellomsg /\ response[c] # Unopened /\ Len(left[c]) < MaxWords
    THEN Append(left[c], response[c]) ELSE left[c]

\* fp is not initialized: a client whose first word is not HELLO ends here, with
\* an error or with a crash.
Receive(c) ==
    /\ c_pc[c] = "waiting"
    /\ answer[c] # Nothing
    /\ answer' = [answer EXCEPT ![c] = Nothing]
    /\ LET word == answer[c]
           file == FileAfter(c, word)
       IN  \/ /\ word = NotFound
              /\ c_pc' = [c_pc EXCEPT ![c] = "failed"]
              /\ UNCHANGED <<requests, response, left>>
           \/ /\ word \notin {NotFound, hellomsg} /\ response[c] = Unopened
              /\ c_pc' = [c_pc EXCEPT ![c] = "failed"]
              /\ UNCHANGED <<requests, response, left>>
           \/ /\ word # NotFound
              /\ word = hellomsg \/ response[c] # Unopened
              /\ IF Len(file) <= MaxWords
                 THEN response' = [response EXCEPT ![c] = file]
                 ELSE UNCHANGED response
              /\ left' = [left EXCEPT ![c] = LeftAfter(c, word)]
              /\ IF word = finishmsg
                 THEN c_pc' = [c_pc EXCEPT ![c] = "done"] /\ UNCHANGED requests
                 ELSE SendTo(c, WORD) /\ UNCHANGED c_pc
    /\ UNCHANGED <<text, server, served>>

Bytes(lines) ==
    FlattenSeq([k \in DOMAIN lines |-> [i \in 1 .. Size[lines[k]] |-> <<lines[k], i>>]])

Reaching(streams, i) == {k \in DOMAIN streams : i \in DOMAIN Bytes(streams[k])}

\* Each stream is written from the start of the file on, the first one last.
Laid(streams) ==
    [i \in UNION {DOMAIN Bytes(streams[k]) : k \in DOMAIN streams} |->
        Bytes(streams[Min(Reaching(streams, i))])[i]]

\* What a client that ends leaves in its response file: the lines were in buffers, and
\* FINISH writes those of fp, the exit then those of the streams that are left open,
\* from the newest to the oldest.
ResponseFile(c) == Laid(Append(left[c], response[c]))

\* Fault: only the first answer is waited for with a timeout.
MayExpireFirst(c) == c_pc[c] = "waiting" /\ response[c] = Unopened

MayExpire(c) == c_pc[c] = "waiting"

\* No answer within 5 seconds, because it or the request was lost, or is late.
Timeout(c) ==
    /\ MayExpire(c)
    /\ c_pc' = [c_pc EXCEPT ![c] = "failed"]
    /\ answer' = [answer EXCEPT ![c] = Nothing]
    /\ UNCHANGED <<text, server, requests, response, left, served>>

LoseRequest ==
    /\ requests # <<>>
    /\ requests' = Tail(requests)
    /\ UNCHANGED <<text, server, clients, answer, served>>

LoseAnswer(c) ==
    /\ answer[c] # Nothing
    /\ answer' = [answer EXCEPT ![c] = Nothing]
    /\ UNCHANGED <<text, server, requests, clients, served>>

-----------------------------------------------------------------------------
(* The server *)

Reply(c, word) ==
    /\ answer' = IF c_pc[c] = "waiting" THEN [answer EXCEPT ![c] = word] ELSE answer
    /\ served' = served \cup {c}

\* The queue of a server ends with it.
End == running' = FALSE /\ requests' = <<>>

\* The first request names the file.
Opened(request) == IF fp # NULL THEN fp
                   ELSE IF request.what = "file" THEN text ELSE NULL

\* fscanf leaves res as it was at the end of the file.
WordOf(file) == IF file = <<>> THEN res ELSE Head(file)

Serve ==
    /\ running
    /\ requests # <<>>
    /\ LET request == Head(requests)
           file == Opened(request)
       IN  IF file = NULL
           THEN /\ Reply(request.from, IF request.what = WORD THEN NOTFOUND ELSE NotFound)
                /\ End
                /\ UNCHANGED <<fp, res>>
           ELSE /\ res' = WordOf(file)
                /\ fp' = IF file = <<>> THEN <<>> ELSE Tail(file)
                /\ Reply(request.from, res')
                /\ IF res' = finishmsg THEN End
                   ELSE requests' = Tail(requests) /\ UNCHANGED running
    /\ UNCHANGED <<text, runs, clients>>

Run ==
    /\ ~running
    /\ runs < MaxRuns
    /\ running' = TRUE
    /\ runs' = runs + 1
    /\ fp' = NULL /\ res' = Junk
    /\ UNCHANGED <<text, requests, clients, answer, served>>

\* The server is interrupted.
Interrupt ==
    /\ running
    /\ End
    /\ UNCHANGED <<text, fp, res, runs, clients, answer, served>>

-----------------------------------------------------------------------------

Init ==
    /\ text \in Texts
    /\ running = FALSE /\ fp = NULL /\ res = Junk /\ runs = 0
    /\ requests = <<>>
    /\ c_pc = [c \in Clients |-> "idle"]
    /\ answer = [c \in Clients |-> Nothing]
    /\ response = [c \in Clients |-> Unopened]
    /\ left = [c \in Clients |-> <<>>]
    /\ served = {}

Client(c) == Start(c) \/ Receive(c) \/ Timeout(c)

Server == Serve \/ Run \/ Interrupt

Next ==
    \/ \E c \in Clients : Client(c) \/ LoseAnswer(c)
    \/ LoseRequest
    \/ Server

Spec == Init /\ [][Next]_vars

-----------------------------------------------------------------------------

\* Every variable keeps its type, whoever asks and whatever is lost: a response file
\* that is written to has been opened by HELLO.
TypeOK ==
    /\ text \in Texts
    /\ running \in BOOLEAN /\ runs \in 0 .. MaxRuns
    /\ fp \in {NULL} \cup Seq(Contents) /\ res \in Contents \cup {Junk}
    /\ requests \in Seq(Requests)
    /\ c_pc \in [Clients -> {"idle", "waiting", "failed", "done"}]
    /\ answer \in [Clients -> Answers \cup {Nothing}]
    /\ response \in [Clients -> {Unopened} \cup Files]
    /\ left \in [Clients -> Seq(Files)]
    /\ served \subseteq Clients

IsHello(word) == word = hellomsg
IsFinish(word) == word = finishmsg

\* From the last HELLO to the first FINISH.
Whole(words) ==
    LET end == SelectInSeq(words, IsFinish)
        start == SelectLastInSubSeq(words, 1, end, IsHello)
    IN  SubSeq(words, start, end)

\* From the first HELLO to the word before the second one.
First(words) ==
    LET start == SelectInSeq(words, IsHello)
        next == SelectInSubSeq(words, start + 1, Len(words), IsHello)
    IN  SubSeq(words, start, next - 1)

\* There is one HELLO up to the first FINISH.
HelloOnce(words) ==
    \A i, j \in 1 .. SelectInSeq(words, IsFinish) :
        IsHello(words[i]) /\ IsHello(words[j]) => i = j

BeginsWith(file, bytes) ==
    \A i \in DOMAIN bytes : i \in DOMAIN file /\ file[i] = bytes[i]

Alone(c) == served \subseteq {c}

\* A client that has finished, and was alone with the servers that ran, has printed
\* the whole file, whatever datagrams were lost or late and whenever a server ended: it
\* never misses a word and has none twice.  Its response file holds just that, if the
\* file says HELLO once; or else it begins with the lines up to the second HELLO, which
\* the exit writes over those that came later.
WholeFile ==
    \A c \in Clients :
        c_pc[c] = "done" /\ Alone(c) =>
            /\ response[c] = Whole(text)
            /\ IF HelloOnce(text)
               THEN /\ BeginsWith(ResponseFile(c), Bytes(Whole(text)))
                    /\ BeginsWith(Bytes(Whole(text)), ResponseFile(c))
               ELSE BeginsWith(ResponseFile(c), Bytes(First(text)))

UnderWay(c) == answer[c] # Nothing \/ \E k \in DOMAIN requests : requests[k].from = c

\* The programs keep running, and a timeout ends when nothing comes any more.
FairSpec ==
    /\ Spec
    /\ WF_vars(Serve)
    /\ \A c \in Clients : WF_vars(Receive(c)) /\ WF_vars(~UnderWay(c) /\ Timeout(c))

\* Every client ends one day, done or not, though nothing is ever sent twice: but
\* only if the file says FINISH, for at its end the last word is sent for ever.
EveryClientEnds ==
    \A c \in Clients :
        (c_pc[c] = "waiting" /\ finishmsg \in ToSet(text)) ~> (c_pc[c] # "waiting")
=============================================================================
