------------------------------ MODULE ChatGame ------------------------------
(***************************************************************************)
(* The number game of LT1: chatserver.c, which is one loop around select,  *)
(* and its clients.  In each round every client sends a number, and the    *)
(* server announces the greatest.                                          *)
(*                                                                         *)
(* A client that leaves keeps its slot, and its closed descriptor stays in *)
(* the set master.  Descriptors are given out lowest first, so that the    *)
(* next client gets the same one and is found at the old slot.             *)
(*                                                                         *)
(* What select sees and the recv or accept that follows are one action:    *)
(* whatever arrives between them could as well arrive after them.  A recv  *)
(* takes all that has arrived and atoi reads the first number of it, so    *)
(* that what a client sends before it is read once adds nothing.  The      *)
(* number N of the round is only printed and is left out.                  *)
(***************************************************************************)
EXTENDS Integers, Sequences, FiniteSets

CONSTANTS
    Clients,        \* client processes, each of which connects once
    Numbers,        \* the numbers that they send
    Garbage,        \* what the array numbers may hold before it is written
    MINCLIENTS,
    MAXCLIENTS

ASSUME ChatAssumption ==
    /\ IsFiniteSet(Clients) /\ "none" \notin Clients
    /\ Numbers \subseteq Nat \ {0}
    /\ Garbage \subseteq Int
    /\ MINCLIENTS \in Nat \ {0}
    /\ MAXCLIENTS \in Nat /\ MAXCLIENTS >= MINCLIENTS

VARIABLES
    peer,           \* each connection, as the server's side of TCP sees it
    inbox,          \* the first unread number on it, or Nothing
    backlog,        \* the connections that wait for accept
    conn,           \* the server's descriptors: the connection of each
    pc,             \* where the server is
    clientsocketfd, is_received, is_closed,         \* the slots in use
    numbers,        \* the number in each slot, used or not
    master,         \* the clients' descriptors in the set for select
    game_started,
    client_addr,    \* the last client whose address was got, or None
    heard,          \* history: the number of each client in this round
    announced       \* history: the last maximum, and whose it is said to be

slots == <<clientsocketfd, is_received, is_closed, master>>
game  == <<numbers, game_started, client_addr, heard, announced>>
vars  == <<peer, inbox, backlog, conn, pc, slots, game>>

-----------------------------------------------------------------------------

None == "none"
Nothing == 0
NoResult == [num |-> Nothing, from |-> None]

Fds == 1 .. Cardinality(Clients)

numclient == Len(clientsocketfd)
Slots == 1 .. numclient

\* The client at the other end of slot i, or None when its descriptor is closed.
ClientAt(i) == conn[clientsocketfd[i]]

LowestFree == CHOOSE f \in Fds : /\ conn[f] = None
                                 /\ \A g \in 1 .. f - 1 : conn[g] # None

\* A closed descriptor in the set: select fails and leaves its argument as it
\* was, so that the listening socket always seems ready.
SelectFails == \E f \in master : conn[f] = None

Readable(i) ==
    /\ ClientAt(i) # None
    /\ inbox[ClientAt(i)] # Nothing \/ peer[ClientAt(i)] # "open"

Reset(c) == peer[c] \in {"rst", "gone"}

\* A descriptor that is closed, or whose connection has been reset.
NotConnected(i) == ClientAt(i) = None \/ Reset(ClientAt(i))

\* getpeername, whose result is not looked at: when it fails, the address that is
\* then printed or announced is an earlier one.
AddressAt(i) == IF NotConnected(i) THEN client_addr ELSE ClientAt(i)

FirstReadable(i) == Readable(i) /\ \A j \in 1 .. i - 1 : ~Readable(j)

-----------------------------------------------------------------------------
(* TCP *)

\* A connection after k messages have been sent to it.  The first one sent after
\* the peer has left is answered by a reset (or reports one), and the next raises
\* SIGPIPE, which ends the server.
AfterSends(state, k) ==
    IF k = 0 \/ state = "open" THEN state
    ELSE IF state = "gone" \/ k > 1 THEN "sigpipe"
    ELSE "gone"

\* howMany[c] messages are sent to each client c, and the server goes to next.
Send(howMany, next) ==
    /\ peer' = [c \in Clients |-> AfterSends(peer[c], howMany[c])]
    /\ pc' = IF \E c \in Clients : peer'[c] = "sigpipe" THEN "killed" ELSE next

\* One message for each slot; send fails at a closed descriptor.
ToEachSlot == [c \in Clients |-> Cardinality({i \in Slots : ClientAt(i) = c})]

ToOnly(c) == [d \in Clients |-> IF d = c THEN 1 ELSE 0]
ToNobody == [d \in Clients |-> 0]

-----------------------------------------------------------------------------
(* The clients *)

Connect(c) ==
    /\ peer[c] = "absent"
    /\ peer' = [peer EXCEPT ![c] = "open"]
    /\ backlog' = Append(backlog, c)
    /\ UNCHANGED <<inbox, conn, pc, slots, game>>

SendNumber(c) ==
    /\ peer[c] = "open"
    /\ inbox[c] = Nothing
    /\ \E n \in Numbers : inbox' = [inbox EXCEPT ![c] = n]
    /\ UNCHANGED <<peer, backlog, conn, pc, slots, game>>

\* A client is interrupted.  If it has not read all it was sent, the connection
\* is reset and not shut down in order.
Leave(c) ==
    /\ peer[c] = "open"
    /\ \/ peer' = [peer EXCEPT ![c] = "fin"]
       \/ /\ game_started
          /\ \E i \in Slots : ClientAt(i) = c
          /\ peer' = [peer EXCEPT ![c] = "rst"]
    /\ UNCHANGED <<inbox, backlog, conn, pc, slots, game>>

-----------------------------------------------------------------------------
(* The server *)

\* Fault: the limit is compared with the clients before this one.
FullLate == numclient > MAXCLIENTS

Full == numclient + 1 > MAXCLIENTS

\* A connection beyond MAXCLIENTS is accepted and forgotten: it keeps its
\* descriptor, which may be one that master still holds.
Accept ==
    /\ pc = "select"
    /\ backlog # <<>>
    /\ LET c == Head(backlog)
       IN  /\ conn' = [conn EXCEPT ![LowestFree] = c]
           /\ \/ /\ Full
                 /\ Send(ToNobody, "judge")
                 /\ UNCHANGED slots
              \/ /\ ~Full
                 /\ clientsocketfd' = Append(clientsocketfd, LowestFree)
                 /\ is_received' = Append(is_received, FALSE)
                 /\ is_closed' = Append(is_closed, FALSE)
                 /\ master' = master \cup {LowestFree}
                 /\ Send(IF game_started THEN ToOnly(c) ELSE ToNobody, "judge")
          /\ client_addr' = c
    /\ backlog' = Tail(backlog)
    /\ UNCHANGED <<inbox, numbers, game_started, heard, announced>>

\* The slots are only looked at when the listening socket is not ready.
Looks(i) ==
    /\ pc = "select"
    /\ backlog = <<>> /\ ~SelectFails
    /\ FirstReadable(i)

\* A number that is not dropped, at a slot that has none yet.
Take(i) ==
    /\ is_received' = [is_received EXCEPT ![i] = TRUE]
    /\ numbers' = [numbers EXCEPT ![i] = inbox[ClientAt(i)]]
    /\ heard' = [heard EXCEPT ![ClientAt(i)] = inbox[ClientAt(i)]]

Hear(i) ==
    /\ Looks(i)
    /\ LET c == ClientAt(i)
           duplicate == game_started /\ is_received[i]
       IN  /\ inbox[c] # Nothing
           /\ inbox' = [inbox EXCEPT ![c] = Nothing]
           /\ \/ ~game_started /\ UNCHANGED <<numbers, is_received, heard>>
              \/ duplicate /\ UNCHANGED <<numbers, is_received, heard>>
              \/ game_started /\ ~is_received[i] /\ Take(i)
           /\ Send(IF duplicate THEN ToOnly(c) ELSE ToNobody, "judge")
    /\ client_addr' = AddressAt(i)
    /\ UNCHANGED <<backlog, conn, clientsocketfd, is_closed, master, game_started,
                   announced>>

\* recv fails: the error is only printed.
HearError(i) ==
    /\ Looks(i)
    /\ inbox[ClientAt(i)] = Nothing
    /\ peer[ClientAt(i)] = "rst"
    /\ peer' = [peer EXCEPT ![ClientAt(i)] = "gone"]
    /\ pc' = "judge"
    /\ UNCHANGED <<inbox, backlog, conn, slots, game>>

\* Fault: the slot is marked and its descriptor left open.
NotClosed(f) == conn

Closed(f) == [conn EXCEPT ![f] = None]

\* recv returns 0.  The descriptor stays in master and in its slot.
HearEnd(i) ==
    /\ Looks(i)
    /\ inbox[ClientAt(i)] = Nothing
    /\ peer[ClientAt(i)] \in {"fin", "gone"}
    /\ is_closed' = [is_closed EXCEPT ![i] = TRUE]
    /\ conn' = Closed(clientsocketfd[i])
    /\ pc' = "judge"
    /\ UNCHANGED <<peer, inbox, backlog, clientsocketfd, is_received, master, game>>

\* select times out.
Idle ==
    /\ pc = "select"
    /\ backlog = <<>> /\ ~SelectFails
    /\ \A i \in Slots : ~Readable(i)
    /\ pc' = "judge"
    /\ UNCHANGED <<peer, inbox, backlog, conn, slots, game>>

RoundComplete == \A i \in Slots : is_received[i] \/ is_closed[i]

StartGame ==
    /\ pc = "judge"
    /\ ~game_started
    /\ numclient >= MINCLIENTS
    /\ game_started' = TRUE
    /\ Send(ToEachSlot, "select")
    /\ UNCHANGED <<inbox, backlog, conn, slots, numbers, client_addr, heard, announced>>

\* Fault: the slot that joined last is left out.
GreatestButLast ==
    CHOOSE n \in {numbers[i] : i \in 1 .. numclient - 1} :
        \A i \in 1 .. numclient - 1 : numbers[i] <= n

\* The greatest of all slots, of those whose client has left too.
Greatest ==
    CHOOSE n \in {numbers[i] : i \in Slots} : \A i \in Slots : numbers[i] <= n

\* The client it is said to be from is that of the first slot that holds it, if its
\* address can be got.
Winner ==
    LET w == CHOOSE i \in Slots : /\ numbers[i] = Greatest
                                  /\ \A j \in 1 .. i - 1 : numbers[j] # Greatest
    IN  AddressAt(w)

Announce ==
    /\ pc = "judge"
    /\ game_started
    /\ RoundComplete
    /\ is_received' = [i \in Slots |-> FALSE]
    /\ client_addr' = Winner
    /\ announced' = [num |-> Greatest, from |-> Winner]
    /\ heard' = [c \in Clients |-> Nothing]
    /\ Send(ToEachSlot, "sleep")
    /\ UNCHANGED <<inbox, backlog, conn, clientsocketfd, is_closed, master, numbers,
                   game_started>>

\* After sleep(1): "Enter the number for Round N+1".
AskNext ==
    /\ pc = "sleep"
    /\ Send(ToEachSlot, "select")
    /\ announced' = NoResult
    /\ UNCHANGED <<inbox, backlog, conn, slots, numbers, game_started, client_addr, heard>>

NothingToJudge ==
    /\ pc = "judge"
    /\ IF game_started THEN ~RoundComplete ELSE numclient < MINCLIENTS
    /\ pc' = "select"
    /\ UNCHANGED <<peer, inbox, backlog, conn, slots, game>>

-----------------------------------------------------------------------------

Init ==
    /\ peer = [c \in Clients |-> "absent"]
    /\ inbox = [c \in Clients |-> Nothing]
    /\ backlog = <<>>
    /\ conn = [f \in Fds |-> None]
    /\ pc = "select"
    /\ clientsocketfd = <<>> /\ is_received = <<>> /\ is_closed = <<>>
    /\ numbers \in [1 .. MAXCLIENTS -> Garbage]
    /\ master = {}
    /\ game_started = FALSE
    /\ client_addr = None
    /\ heard = [c \in Clients |-> Nothing]
    /\ announced = NoResult

Client(c) == Connect(c) \/ SendNumber(c) \/ Leave(c)

Reads(i) == Hear(i) \/ HearError(i) \/ HearEnd(i)

Server ==
    \/ Accept
    \/ \E i \in Slots : Reads(i)
    \/ Idle
    \/ StartGame
    \/ Announce
    \/ AskNext
    \/ NothingToJudge

Next == Server \/ \E c \in Clients : Client(c)

Spec == Init /\ [][Next]_vars

-----------------------------------------------------------------------------
(* Safety *)

\* Every variable keeps its type, whoever comes, leaves and takes the descriptor of
\* another: the slots stay within the arrays, and master has their descriptors.
TypeOK ==
    /\ peer \in [Clients -> {"absent", "open", "fin", "rst", "gone", "sigpipe"}]
    /\ inbox \in [Clients -> Numbers \cup {Nothing}]
    /\ backlog \in Seq(Clients)
    /\ conn \in [Fds -> Clients \cup {None}]
    /\ pc \in {"select", "judge", "sleep", "killed"}
    /\ numclient \in 0 .. MAXCLIENTS
    /\ clientsocketfd \in [Slots -> Fds]
    /\ is_received \in [Slots -> BOOLEAN]
    /\ is_closed \in [Slots -> BOOLEAN]
    /\ numbers \in [1 .. MAXCLIENTS -> Numbers \cup Garbage]
    /\ master = {clientsocketfd[i] : i \in Slots}
    /\ game_started \in BOOLEAN
    /\ client_addr \in Clients \cup {None}
    /\ heard \in [Clients -> Numbers \cup {Nothing}]
    /\ announced.from \in Clients \cup {None}

\* What is announced is at least every number of the round, even when clients have
\* left or share a descriptor.  As long as no slot is closed it is a number of this
\* round, and the client that is named sent it, unless the connection of one that
\* did has been reset: another may then be named.
MaximumIsRight ==
    [][ announced' \notin {announced, NoResult} =>
          /\ \A c \in Clients : heard[c] # Nothing => heard[c] <= announced'.num
          /\ (\A i \in Slots : ~is_closed[i])
               => \/ heard[announced'.from] = announced'.num
                  \/ \E c \in Clients : Reset(c) /\ heard[c] = announced'.num ]_vars

-----------------------------------------------------------------------------
(* Liveness *)

\* The loop of the server has no exit; clients owe nothing.
FairSpec == Spec /\ WF_vars(Server)

\* The server waits in accept although nobody wants to connect.
Stuck == SelectFails /\ backlog = <<>>

Waits(c) == inbox[c] # Nothing /\ \E i \in Slots : ClientAt(i) = c

\* Clients in earlier slots that keep sending.
Outtalked(c) ==
    \E i \in Slots : /\ ClientAt(i) # None /\ inbox[ClientAt(i)] # Nothing
                     /\ \A j \in Slots : ClientAt(j) = c => i < j

\* A number that has arrived is read, unless the server has been killed, waits in
\* accept for good because a client has left, or is kept busy by clients in earlier
\* slots, for it always serves the first one first.
HeardUnlessOuttalked ==
    \A c \in Clients :
        \/ []<>(~Waits(c))
        \/ <>[](pc = "killed" \/ Stuck)
        \/ []<>Outtalked(c)
=============================================================================
