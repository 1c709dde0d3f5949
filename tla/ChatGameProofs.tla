--------------------------- MODULE ChatGameProofs ---------------------------
(***************************************************************************)
(* Proofs about ChatGame, for any finite set of clients, any limits and    *)
(* whatever each element of the array numbers holds at first.              *)
(***************************************************************************)
EXTENDS ChatGame, SequenceTheorems, FiniteSetTheorems, WellFoundedInduction, TLAPS

-----------------------------------------------------------------------------
(* The least and the greatest *)

LEMMA LeastNat ==
    ASSUME NEW T \in SUBSET Nat, T # {}
    PROVE  \E m \in T : \A k \in T : ~(k < m)
<1> DEFINE R == OpToRel(<, Nat)
<1>1. IsWellFoundedOn(R, Nat)
  BY NatLessThanWellFounded
<1>2. \A i, j \in Nat : <<i, j>> \in R <=> i < j
  BY DEF OpToRel
<1> HIDE DEF R
<1>3. PICK m \in T : \A k \in T : ~(<<k, m>> \in R)
  BY <1>1, WFMin
<1> QED BY <1>2, <1>3

\* One of the first n of m integers is the greatest of them.
LEMMA GreatestOfFirst ==
    ASSUME NEW m \in Nat, NEW f \in [1 .. m -> Int], NEW n \in 1 .. m
    PROVE  \E i \in 1 .. n : \A j \in 1 .. n : f[j] <= f[i]
<1> DEFINE T == {k \in 1 .. m : ~ \E i \in 1 .. k : \A j \in 1 .. k : f[j] <= f[i]}
<1> SUFFICES ASSUME T # {} PROVE FALSE
  OBVIOUS
<1>0. T \in SUBSET Nat
  OBVIOUS
<1> HIDE DEF T
<1>1. PICK k \in T : \A l \in T : ~(l < k)
  BY <1>0, LeastNat
<1> USE DEF T
<1>2. k \in 1 .. m /\ \A j \in 1 .. k : f[j] \in Int
  OBVIOUS
<1>3. k # 1
  <2>1. 1 .. 1 = {1} /\ f[1] \in Int
    OBVIOUS
  <2>2. \A j \in {1} : f[j] <= f[1]
    BY <2>1
  <2> QED BY <2>1, <2>2
<1>4. k - 1 \in 1 .. m /\ k - 1 < k
  BY <1>2, <1>3
<1>5. PICK i \in 1 .. k - 1 : \A j \in 1 .. k - 1 : f[j] <= f[i]
  BY <1>1, <1>4
<1>6. \A j \in 1 .. k : j \in 1 .. k - 1 \/ j = k
  BY <1>2
<1>7. PICK x \in Int, y \in Int : x = f[i] /\ y = f[k]
  <2>1. i \in 1 .. k /\ k \in 1 .. k
    BY <1>2, <1>4
  <2> QED BY <1>2, <2>1
<1>8. CASE y <= x
  <2>1. ASSUME NEW j \in 1 .. k PROVE f[j] <= f[i]
    BY <1>5, <1>6, <1>7, <1>8
  <2>2. i \in 1 .. k
    BY <1>2
  <2> QED BY <2>1, <2>2
<1>9. CASE x <= y
  <2>1. ASSUME NEW j \in 1 .. k PROVE f[j] <= f[k]
    <3>1. CASE j \in 1 .. k - 1
      <4>1. PICK z \in Int : z = f[j]
        BY <1>2
      <4>2. z <= x
        BY <4>1, <3>1, <1>5, <1>7
      <4>3. z <= y
        BY <4>2, <1>7, <1>9
      <4> QED BY <4>1, <4>3, <1>7
    <3>2. CASE j = k
      BY <1>7, <3>2
    <3> QED BY <1>6, <3>1, <3>2
  <2>2. k \in 1 .. k
    BY <1>2
  <2> QED BY <2>1, <2>2
<1> QED BY <1>7, <1>8, <1>9

-----------------------------------------------------------------------------
(* The inductive invariant *)

\* A connection has one descriptor at most, or else waits once in the backlog;
\* a client that has not connected has neither.
ConnInv ==
    /\ \A f, g \in Fds : conn[f] = conn[g] /\ conn[f] # None => f = g
    /\ \A i, j \in 1 .. Len(backlog) : backlog[i] = backlog[j] => i = j
    /\ \A i \in 1 .. Len(backlog) : peer[backlog[i]] # "absent"
    /\ \A f \in Fds : conn[f] # None =>
          /\ peer[conn[f]] # "absent"
          /\ \A i \in 1 .. Len(backlog) : backlog[i] # conn[f]

GameInv == game_started => numclient >= MINCLIENTS

\* A number of the round stays in a slot to the end of the round, also when its
\* client has left and another one speaks at the slot.
HeardInv ==
    \A c \in Clients : heard[c] # Nothing =>
        \E i \in Slots : is_received[i] /\ numbers[i] = heard[c]

\* As long as nobody has left, every client in the game has one slot, and what is
\* there is its number.
OpenInv ==
    (\A i \in Slots : ~is_closed[i]) =>
        /\ \A i, j \in Slots : clientsocketfd[i] = clientsocketfd[j] => i = j
        /\ \A i \in Slots : ClientAt(i) # None
        /\ \A i \in Slots : is_received[i] => numbers[i] = heard[ClientAt(i)]

IInv == TypeOK /\ ConnInv /\ GameInv /\ HeardInv /\ OpenInv

LEMMA Constants ==
    /\ IsFiniteSet(Clients) /\ None \notin Clients
    /\ Cardinality(Clients) \in Nat
    /\ Nothing = 0 /\ Nothing \notin Numbers
    /\ Numbers \subseteq Int /\ Garbage \subseteq Int
    /\ MINCLIENTS \in Nat \ {0} /\ MAXCLIENTS \in Nat
BY ChatAssumption, FS_CardinalityType DEF None, Nothing

\* What the types say of the slots.
LEMMA SlotTypes ==
    ASSUME TypeOK
    PROVE  /\ numclient \in Nat /\ numclient <= MAXCLIENTS
           /\ \A i \in Slots : /\ i \in 1 .. MAXCLIENTS
                               /\ clientsocketfd[i] \in Fds
                               /\ ClientAt(i) \in Clients \cup {None}
                               /\ numbers[i] \in Int
           /\ clientsocketfd \in Seq(Fds) /\ Len(clientsocketfd) = numclient
           /\ is_received \in Seq(BOOLEAN) /\ Len(is_received) = numclient
           /\ is_closed \in Seq(BOOLEAN) /\ Len(is_closed) = numclient
<1>1. PICK n \in 0 .. MAXCLIENTS : n = numclient
  BY DEF TypeOK
<1>2. n \in Nat /\ n <= MAXCLIENTS /\ 1 .. n \subseteq 1 .. MAXCLIENTS
  BY Constants
<1>3. /\ clientsocketfd \in [1 .. n -> Fds]
      /\ is_received \in [1 .. n -> BOOLEAN] /\ is_closed \in [1 .. n -> BOOLEAN]
  BY <1>1 DEF TypeOK, Slots
<1>4. /\ clientsocketfd \in Seq(Fds) /\ Len(clientsocketfd) = n
      /\ is_received \in Seq(BOOLEAN) /\ Len(is_received) = n
      /\ is_closed \in Seq(BOOLEAN) /\ Len(is_closed) = n
  <2>1. \A S : \A s \in [1 .. n -> S] : s \in Seq(S) /\ Len(s) = n
    BY <1>2, IsASeq, LenProperties
  <2> QED BY <1>3, <2>1
<1>5. ASSUME NEW i \in Slots
      PROVE  /\ i \in 1 .. MAXCLIENTS /\ clientsocketfd[i] \in Fds
             /\ ClientAt(i) \in Clients \cup {None} /\ numbers[i] \in Int
  <2>1. i \in 1 .. n
    BY <1>1 DEF Slots
  <2>2. i \in 1 .. MAXCLIENTS /\ clientsocketfd[i] \in Fds
    BY <1>2, <1>3, <2>1
  <2> QED BY <2>2, Constants DEF ClientAt, TypeOK
<1> QED BY <1>1, <1>2, <1>4, <1>5

LEMMA InitHolds == Init => IInv
<1> SUFFICES ASSUME Init PROVE IInv
  OBVIOUS
<1>1. numclient = 0 /\ Slots = {} /\ 1 .. Len(backlog) = {} /\ 0 \in 0 .. MAXCLIENTS
  BY Constants DEF Init, numclient, Slots
<1>2. TypeOK
  <2>2. numbers \in [1 .. MAXCLIENTS -> Numbers \cup Garbage]
    BY DEF Init
  <2>3. /\ clientsocketfd \in [Slots -> Fds] /\ is_received \in [Slots -> BOOLEAN]
        /\ is_closed \in [Slots -> BOOLEAN]
    <3>1. \A S : <<>> \in [{} -> S]
      OBVIOUS
    <3> QED BY <1>1, <3>1 DEF Init
  <2>4. master = {clientsocketfd[i] : i \in Slots}
    BY <1>1 DEF Init
  <2>5. backlog \in Seq(Clients) /\ announced.from \in Clients \cup {None}
    BY DEF Init, NoResult
  <2>6. conn \in [Fds -> Clients \cup {None}]
    BY DEF Init
  <2>7. /\ peer \in [Clients -> {"absent", "open", "fin", "rst", "gone", "sigpipe"}]
        /\ inbox \in [Clients -> Numbers \cup {Nothing}]
        /\ heard \in [Clients -> Numbers \cup {Nothing}]
    BY DEF Init
  <2>8. /\ pc \in {"select", "judge", "sleep", "killed"} /\ game_started \in BOOLEAN
        /\ client_addr \in Clients \cup {None}
    BY DEF Init
  <2> QED BY <1>1, <2>2, <2>3, <2>4, <2>5, <2>6, <2>7, <2>8 DEF TypeOK
<1>3. ConnInv /\ GameInv /\ HeardInv /\ OpenInv
  BY <1>1 DEF Init, ConnInv, GameInv, HeardInv, OpenInv
<1> QED BY <1>2, <1>3 DEF IInv

-----------------------------------------------------------------------------
(* Steps that leave the slots and the descriptors alone *)

\* However many messages are sent, a connection keeps its type, and there is one
\* after if there was one before.
LEMMA Sent ==
    ASSUME TypeOK, NEW howMany, NEW next \in {"select", "judge", "sleep"},
           Send(howMany, next)
    PROVE  /\ peer' \in [Clients -> {"absent", "open", "fin", "rst", "gone", "sigpipe"}]
           /\ pc' \in {"select", "judge", "sleep", "killed"}
           /\ \A c \in Clients : peer[c] # "absent" => peer'[c] # "absent"
BY DEF TypeOK, Send, AfterSends

LEMMA ConnKept ==
    ASSUME TypeOK, ConnInv, UNCHANGED <<conn, backlog>>,
           \A c \in Clients : peer[c] # "absent" => peer'[c] # "absent"
    PROVE  ConnInv'
<1>1. \A i \in 1 .. Len(backlog) : backlog[i] \in Clients
  BY ElementOfSeq DEF TypeOK
<1> QED BY <1>1 DEF ConnInv, TypeOK

LEMMA SlotsKept ==
    ASSUME IInv, UNCHANGED <<conn, slots, numbers, heard, is_received>>
    PROVE  HeardInv' /\ OpenInv'
BY DEF IInv, HeardInv, OpenInv, slots, Slots, numclient, ClientAt

LEMMA ConnectStep == ASSUME IInv, NEW c \in Clients, Connect(c) PROVE IInv'
<1>1. TypeOK /\ ConnInv
  BY DEF IInv
<1>2. /\ backlog' \in Seq(Clients) /\ Len(backlog) \in Nat
      /\ Len(backlog') = Len(backlog) + 1
      /\ \A i \in 1 .. Len(backlog) : backlog'[i] = backlog[i] /\ backlog[i] \in Clients
      /\ backlog'[Len(backlog) + 1] = c
  BY <1>1, AppendProperties, ElementOfSeq DEF Connect, TypeOK
<1>3. TypeOK'
  BY <1>1, <1>2 DEF Connect, TypeOK, slots, game, Slots, numclient
<1>4. /\ \A i \in 1 .. Len(backlog) : backlog[i] # c
      /\ \A f \in Fds : conn[f] # c
  BY <1>1, Constants DEF Connect, ConnInv
<1>5. PICK n \in Nat : n = Len(backlog)
  BY <1>2
<1>6. \A i \in 1 .. n + 1 : i \in 1 .. n \/ i = n + 1
  BY <1>5
<1>7. peer[c] = "absent" /\ peer'[c] = "open" /\ conn' = conn
      /\ \A d \in Clients : d # c => peer'[d] = peer[d]
  BY <1>1 DEF Connect, TypeOK
<1>8. ConnInv'
  <2>1. \A i, j \in 1 .. n + 1 : backlog'[i] = backlog'[j] => i = j
    BY <1>1, <1>2, <1>4, <1>5, <1>6 DEF ConnInv
  <2>2. \A i \in 1 .. n + 1 : peer'[backlog'[i]] # "absent"
    BY <1>1, <1>2, <1>5, <1>6, <1>7 DEF ConnInv
  <2>3. \A f \in Fds : conn[f] # None =>
          peer'[conn[f]] # "absent" /\ \A i \in 1 .. n + 1 : backlog'[i] # conn[f]
    BY <1>1, <1>2, <1>4, <1>5, <1>6, <1>7 DEF ConnInv, TypeOK
  <2> QED BY <1>1, <1>2, <1>5, <1>7, <2>1, <2>2, <2>3 DEF ConnInv
<1>9. HeardInv' /\ OpenInv' /\ GameInv'
  BY SlotsKept DEF Connect, slots, game, IInv, GameInv, numclient
<1> QED BY <1>3, <1>8, <1>9 DEF IInv

\* A client sends or leaves, recv fails, select times out, or the server asks for
\* the next number or starts the game.
LEMMA QuietStep ==
    ASSUME IInv, UNCHANGED <<conn, backlog, slots, numbers, heard>>,
           inbox' \in [Clients -> Numbers \cup {Nothing}],
           peer' \in [Clients -> {"absent", "open", "fin", "rst", "gone", "sigpipe"}],
           \A c \in Clients : peer[c] # "absent" => peer'[c] # "absent",
           pc' \in {"select", "judge", "sleep", "killed"},
           game_started' \in BOOLEAN, announced'.from \in Clients \cup {None},
           client_addr' \in Clients \cup {None},
           game_started' => game_started \/ numclient >= MINCLIENTS
    PROVE  IInv'
<1>1. TypeOK'
  BY DEF IInv, TypeOK, slots, Slots, numclient
<1>2. ConnInv'
  BY ConnKept DEF IInv
<1>3. HeardInv' /\ OpenInv'
  BY SlotsKept DEF slots
<1>4. GameInv'
  BY DEF IInv, GameInv, slots, numclient
<1> QED BY <1>1, <1>2, <1>3, <1>4 DEF IInv

LEMMA QuietSteps ==
    ASSUME IInv,
           \/ \E c \in Clients : SendNumber(c) \/ Leave(c)
           \/ \E i \in Slots : HearError(i)
           \/ Idle \/ StartGame \/ AskNext \/ NothingToJudge \/ UNCHANGED vars
    PROVE  IInv'
<1>0. TypeOK
  BY DEF IInv
<1>1. ASSUME NEW c \in Clients, SendNumber(c) PROVE IInv'
  BY <1>0, <1>1, QuietStep DEF SendNumber, TypeOK, slots, game
<1>2. ASSUME NEW c \in Clients, Leave(c) PROVE IInv'
  BY <1>0, <1>2, QuietStep DEF Leave, TypeOK, slots, game
<1>3. ASSUME NEW i \in Slots, HearError(i) PROVE IInv'
  BY <1>0, <1>3, QuietStep DEF HearError, TypeOK, slots, game
<1>4. CASE Idle
  BY <1>0, <1>4, QuietStep DEF Idle, TypeOK, slots, game
<1>5. CASE StartGame
  <2>1. Send(ToEachSlot, "select") /\ numclient >= MINCLIENTS
    BY <1>5 DEF StartGame
  <2> QED BY <1>0, <1>5, <2>1, Sent, QuietStep DEF StartGame, TypeOK, slots
<1>6. CASE AskNext
  <2>1. Send(ToEachSlot, "select")
    BY <1>6 DEF AskNext
  <2> QED BY <1>0, <1>6, <2>1, Sent, QuietStep DEF AskNext, TypeOK, slots, NoResult
<1>7. CASE NothingToJudge
  BY <1>0, <1>7, QuietStep DEF NothingToJudge, TypeOK, slots, game
<1>8. CASE UNCHANGED vars
  BY <1>0, <1>8, QuietStep DEF vars, TypeOK, slots, game
<1> QED BY <1>1, <1>2, <1>3, <1>4, <1>5, <1>6, <1>7, <1>8

-----------------------------------------------------------------------------
(* A descriptor for a new connection *)

\* While a connection waits there is a descriptor for it.
LEMMA FreeDescriptor ==
    ASSUME TypeOK, ConnInv, backlog # <<>>
    PROVE  /\ LowestFree \in Fds /\ conn[LowestFree] = None
           /\ Head(backlog) \in Clients /\ Head(backlog) = backlog[1]
           /\ \A f \in Fds : conn[f] # Head(backlog)
<1> DEFINE c == Head(backlog)
<1>1. Len(backlog) \in Nat /\ 1 \in 1 .. Len(backlog) /\ c = backlog[1] /\ c \in Clients
  BY EmptySeq, LenProperties, ElementOfSeq, HeadTailProperties DEF TypeOK
<1>2. \A f \in Fds : conn[f] # c
  BY <1>1, Constants DEF ConnInv
<1> HIDE DEF c
<1>3. \E f \in Fds : conn[f] = None
  <2> SUFFICES ASSUME \A f \in Fds : conn[f] # None PROVE FALSE
    OBVIOUS
  <2>1. conn \in [Fds -> Clients \ {c}]
    BY <1>2 DEF TypeOK
  <2>2. IsFiniteSet(Fds) /\ Cardinality(Fds) = Cardinality(Clients)
    BY Constants, FS_Interval DEF Fds
  <2>3. /\ IsFiniteSet(Clients \ {c})
        /\ Cardinality(Clients \ {c}) = Cardinality(Clients) - 1
    BY <1>1, Constants, FS_RemoveElement
  <2>4. Cardinality(Clients \ {c}) < Cardinality(Fds)
    BY <2>2, <2>3, Constants
  <2>5. \E f, g \in Fds : f # g /\ conn[f] = conn[g]
    BY <2>1, <2>2, <2>3, <2>4, FS_PigeonHole
  <2> QED BY <2>5 DEF ConnInv
<1>4. \E f \in Fds : conn[f] = None /\ \A g \in 1 .. f - 1 : conn[g] # None
  <2> DEFINE T == {f \in Fds : conn[f] = None}
  <2>1. T \in SUBSET Nat /\ T # {}
    BY <1>3, Constants DEF Fds
  <2> HIDE DEF T
  <2>2. PICK f \in T : \A g \in T : ~(g < f)
    BY <2>1, LeastNat
  <2>3. f \in Fds /\ conn[f] = None /\ \A g \in Fds : conn[g] = None => ~(g < f)
    BY <2>2 DEF T
  <2>4. ASSUME NEW g \in 1 .. f - 1 PROVE conn[g] # None
    <3>1. g \in Fds /\ g < f
      BY <2>3, <2>4, Constants DEF Fds
    <3> QED BY <2>3, <3>1
  <2> QED BY <2>3, <2>4
<1> QED BY <1>1, <1>2, <1>4 DEF LowestFree, c

\* The server takes the first connection that waits, in the game or beyond it.
AcceptConn ==
    /\ conn' = [conn EXCEPT ![LowestFree] = Head(backlog)]
    /\ backlog' = Tail(backlog)

LEMMA AcceptKeepsConn ==
    ASSUME TypeOK, ConnInv, backlog # <<>>, AcceptConn,
           \A d \in Clients : peer[d] # "absent" => peer'[d] # "absent"
    PROVE  /\ ConnInv' /\ backlog' \in Seq(Clients)
           /\ conn' \in [Fds -> Clients \cup {None}]
<1>1. PICK c \in Clients, l \in Fds :
        /\ c = backlog[1] /\ c = Head(backlog) /\ l = LowestFree /\ conn[l] = None
        /\ \A f \in Fds : conn[f] # c
  BY FreeDescriptor
<1>2. conn' = [conn EXCEPT ![l] = c] /\ conn' \in [Fds -> Clients \cup {None}]
  BY <1>1 DEF AcceptConn, TypeOK
<1>3. PICK n \in Nat : n = Len(backlog) /\ n > 0
  BY EmptySeq, LenProperties DEF TypeOK
<1>4. /\ backlog' \in Seq(Clients) /\ Len(backlog') = n - 1
      /\ \A i \in 1 .. n - 1 : backlog'[i] = backlog[i + 1]
  BY <1>3, HeadTailProperties DEF AcceptConn, TypeOK
<1>5. /\ 1 \in 1 .. n
      /\ \A i \in 1 .. n - 1 : i + 1 \in 1 .. n /\ i + 1 # 1
      /\ \A i, j \in 1 .. n - 1 : i + 1 = j + 1 => i = j
  BY <1>3
<1>6. /\ \A i, j \in 1 .. n : backlog[i] = backlog[j] => i = j
      /\ \A i \in 1 .. n : backlog[i] \in Clients /\ peer[backlog[i]] # "absent"
  BY <1>3, ElementOfSeq DEF ConnInv, TypeOK
<1>7. \A i \in 1 .. n - 1 : backlog'[i] # c
  BY <1>1, <1>4, <1>5, <1>6
<1>8. \A f \in Fds : conn'[f] = IF f = l THEN c ELSE conn[f]
  BY <1>2 DEF TypeOK
<1>9. ConnInv'
  <2>1. \A f, g \in Fds : conn'[f] = conn'[g] /\ conn'[f] # None => f = g
    BY <1>1, <1>8 DEF ConnInv
  <2>2. \A i, j \in 1 .. n - 1 : backlog'[i] = backlog'[j] => i = j
    BY <1>4, <1>5, <1>6
  <2>3. \A i \in 1 .. n - 1 : peer'[backlog'[i]] # "absent"
    BY <1>4, <1>5, <1>6
  <2>4. ASSUME NEW f \in Fds, conn'[f] # None
        PROVE  /\ peer'[conn'[f]] # "absent"
               /\ \A i \in 1 .. n - 1 : backlog'[i] # conn'[f]
    <3>1. CASE f = l
      BY <1>1, <1>5, <1>6, <1>7, <1>8, <3>1
    <3>2. CASE f # l
      <4>1. conn'[f] = conn[f] /\ conn[f] \in Clients /\ peer[conn[f]] # "absent"
            /\ \A i \in 1 .. n : backlog[i] # conn[f]
        BY <1>3, <1>8, <2>4, <3>2 DEF ConnInv, TypeOK
      <4> QED BY <1>4, <1>5, <4>1
    <3> QED BY <3>1, <3>2
  <2> QED BY <1>4, <2>1, <2>2, <2>3, <2>4 DEF ConnInv
<1> QED BY <1>2, <1>4, <1>9

LEMMA FlagAdded ==
    ASSUME NEW n \in Nat, NEW s \in Seq(BOOLEAN), Len(s) = n
    PROVE  /\ Append(s, FALSE) \in Seq(BOOLEAN) /\ Len(Append(s, FALSE)) = n + 1
           /\ \A i \in 1 .. n : Append(s, FALSE)[i] = s[i]
           /\ Append(s, FALSE)[n + 1] = FALSE
<1>1. ASSUME NEW S, NEW e \in S, NEW q \in Seq(S), Len(q) = n
      PROVE  /\ Append(q, e) \in Seq(S) /\ Len(Append(q, e)) = n + 1
             /\ \A i \in 1 .. n : Append(q, e)[i] = q[i]
             /\ Append(q, e)[n + 1] = e
  BY <1>1, AppendProperties
<1>2. FALSE \in BOOLEAN
  OBVIOUS
<1> QED BY <1>1, <1>2, Zenon

\* A new slot at the end, with a descriptor of its own.
LEMMA SlotAdded ==
    ASSUME IInv, NEW l \in Fds, conn[l] = None, ~Full,
           NEW c \in Clients, conn' = [conn EXCEPT ![l] = c],
           clientsocketfd' = Append(clientsocketfd, l),
           is_received' = Append(is_received, FALSE),
           is_closed' = Append(is_closed, FALSE),
           master' = master \cup {l},
           UNCHANGED <<numbers, heard>>
    PROVE  /\ numclient' \in 0 .. MAXCLIENTS /\ numclient' >= numclient
           /\ clientsocketfd' \in [Slots' -> Fds]
           /\ is_received' \in [Slots' -> BOOLEAN] /\ is_closed' \in [Slots' -> BOOLEAN]
           /\ master' = {clientsocketfd'[i] : i \in Slots'}
           /\ HeardInv' /\ OpenInv'
<1>0. TypeOK
  BY DEF IInv
<1>1. PICK n \in Nat : n = numclient /\ n + 1 <= MAXCLIENTS
  BY <1>0, SlotTypes, Constants DEF Full
<1>2. Slots = 1 .. n
  BY <1>1 DEF Slots
<1>3. /\ clientsocketfd' \in Seq(Fds) /\ Len(clientsocketfd') = n + 1
      /\ \A i \in 1 .. n : clientsocketfd'[i] = clientsocketfd[i]
      /\ clientsocketfd'[n + 1] = l
  BY <1>0, <1>1, SlotTypes, AppendProperties
<1>4. /\ is_received' \in Seq(BOOLEAN) /\ Len(is_received') = n + 1
      /\ \A i \in 1 .. n : is_received'[i] = is_received[i]
      /\ is_received'[n + 1] = FALSE
  <2>1. is_received \in Seq(BOOLEAN) /\ Len(is_received) = n
    BY <1>0, <1>1, SlotTypes
  <2> QED BY <2>1, FlagAdded, Zenon
<1>5. /\ is_closed' \in Seq(BOOLEAN) /\ Len(is_closed') = n + 1
      /\ \A i \in 1 .. n : is_closed'[i] = is_closed[i]
      /\ is_closed'[n + 1] = FALSE
  <2>1. is_closed \in Seq(BOOLEAN) /\ Len(is_closed) = n
    BY <1>0, <1>1, SlotTypes
  <2> QED BY <2>1, FlagAdded, Zenon
<1>6. numclient' = n + 1 /\ Slots' = 1 .. n + 1
  BY <1>3 DEF Slots, numclient
<1>7. /\ n + 1 \in 0 .. MAXCLIENTS /\ n + 1 >= n
      /\ n + 1 \in 1 .. n + 1 /\ 1 .. n \subseteq 1 .. n + 1
      /\ \A i \in 1 .. n + 1 : i \in 1 .. n \/ i = n + 1
      /\ n + 1 \notin 1 .. n
  BY <1>1, Constants
<1>8. /\ clientsocketfd' \in [1 .. n + 1 -> Fds]
      /\ is_received' \in [1 .. n + 1 -> BOOLEAN]
      /\ is_closed' \in [1 .. n + 1 -> BOOLEAN]
  BY <1>3, <1>4, <1>5, LenProperties
<1>9. master' = {clientsocketfd'[i] : i \in 1 .. n + 1}
  <2>1. master = {clientsocketfd[i] : i \in 1 .. n}
    BY <1>0, <1>2 DEF TypeOK
  <2> QED BY <1>3, <1>7, <2>1
<1>10. HeardInv'
  <2>1. ASSUME NEW d \in Clients, heard'[d] # Nothing
        PROVE  \E i \in 1 .. n + 1 : is_received'[i] /\ numbers'[i] = heard'[d]
    <3>1. PICK i \in 1 .. n : is_received[i] /\ numbers[i] = heard[d]
      BY <1>2, <2>1 DEF IInv, HeardInv
    <3> QED BY <1>4, <1>7, <3>1
  <2> QED BY <1>6, <2>1 DEF HeardInv
<1>11. OpenInv'
  <2> SUFFICES ASSUME \A i \in 1 .. n + 1 : ~is_closed'[i]
               PROVE  /\ \A i, j \in 1 .. n + 1 :
                            clientsocketfd'[i] = clientsocketfd'[j] => i = j
                      /\ \A i \in 1 .. n + 1 : ClientAt(i)' # None
                      /\ \A i \in 1 .. n + 1 :
                            is_received'[i] => numbers'[i] = heard'[ClientAt(i)']
    BY <1>6 DEF OpenInv
  <2>1. \A i \in 1 .. n : ~is_closed[i]
    BY <1>5, <1>7
  <2>2. /\ \A i, j \in 1 .. n : clientsocketfd[i] = clientsocketfd[j] => i = j
        /\ \A i \in 1 .. n : conn[clientsocketfd[i]] # None
        /\ \A i \in 1 .. n : is_received[i] => numbers[i] = heard[conn[clientsocketfd[i]]]
        /\ \A i \in 1 .. n : clientsocketfd[i] \in Fds
    BY <1>0, <1>2, <2>1, SlotTypes DEF IInv, OpenInv, ClientAt
  <2>3. \A i \in 1 .. n : ClientAt(i)' = conn[clientsocketfd[i]] /\ clientsocketfd[i] # l
    BY <1>0, <1>3, <2>2 DEF ClientAt, TypeOK
  <2>4. ClientAt(n + 1)' = c
    BY <1>0, <1>3 DEF ClientAt, TypeOK
  <2>5. \A i, j \in 1 .. n + 1 : clientsocketfd'[i] = clientsocketfd'[j] => i = j
    <3>1. \A i \in 1 .. n : clientsocketfd'[i] = clientsocketfd[i] /\ clientsocketfd'[i] # l
      BY <1>3, <2>3
    <3>2. clientsocketfd'[n + 1] = l
      BY <1>3
    <3>3. ASSUME NEW i \in 1 .. n + 1, NEW j \in 1 .. n + 1,
                 clientsocketfd'[i] = clientsocketfd'[j]
          PROVE  i = j
      <4>1. CASE i \in 1 .. n /\ j \in 1 .. n
        BY <2>2, <3>1, <3>3, <4>1
      <4>2. CASE i = n + 1 \/ j = n + 1
        BY <1>7, <3>1, <3>2, <3>3, <4>2
      <4> QED BY <1>7, <4>1, <4>2
    <3> QED BY <3>3
  <2>6. \A i \in 1 .. n + 1 : ClientAt(i)' # None
    BY <1>7, <2>2, <2>3, <2>4, Constants
  <2>7. \A i \in 1 .. n + 1 : is_received'[i] => numbers'[i] = heard'[ClientAt(i)']
    BY <1>4, <1>7, <2>2, <2>3
  <2> QED BY <2>5, <2>6, <2>7
<1> QED BY <1>1, <1>6, <1>7, <1>8, <1>9, <1>10, <1>11

LEMMA AcceptStep == ASSUME IInv, Accept PROVE IInv'
<1>0. TypeOK /\ ConnInv /\ backlog # <<>> /\ AcceptConn
  BY DEF IInv, Accept, AcceptConn
<1>1. PICK howMany : Send(howMany, "judge")
  BY DEF Accept
<1>2. /\ peer' \in [Clients -> {"absent", "open", "fin", "rst", "gone", "sigpipe"}]
      /\ pc' \in {"select", "judge", "sleep", "killed"}
      /\ \A c \in Clients : peer[c] # "absent" => peer'[c] # "absent"
  BY <1>0, <1>1, Sent
<1>3. /\ ConnInv' /\ backlog' \in Seq(Clients)
      /\ conn' \in [Fds -> Clients \cup {None}]
  BY <1>0, <1>2, AcceptKeepsConn
<1>4. /\ UNCHANGED <<inbox, numbers, game_started, heard, announced>>
      /\ client_addr' \in Clients \cup {None}
  BY <1>0, FreeDescriptor DEF Accept
<1>5. PICK c \in Clients, l \in Fds :
        c = Head(backlog) /\ l = LowestFree /\ conn[l] = None
  BY <1>0, FreeDescriptor
<1>6. CASE Full /\ UNCHANGED slots
  <2>1. TypeOK'
    BY <1>0, <1>2, <1>3, <1>4, <1>6 DEF TypeOK, slots, Slots, numclient
  <2>2. HeardInv'
    BY <1>4, <1>6 DEF IInv, HeardInv, slots, Slots, numclient
  <2>3. \A i \in Slots : ClientAt(i) # None => ClientAt(i)' = ClientAt(i)
    BY <1>0, <1>5, <1>6, SlotTypes DEF AcceptConn, ClientAt, TypeOK, slots
  <2>4. OpenInv'
    BY <1>4, <1>6, <2>3 DEF IInv, OpenInv, slots, Slots, numclient
  <2>5. GameInv'
    BY <1>4, <1>6 DEF IInv, GameInv, slots, numclient
  <2> QED BY <1>3, <2>1, <2>2, <2>4, <2>5 DEF IInv
<1>7. CASE ~Full
  <2>1. /\ clientsocketfd' = Append(clientsocketfd, l)
        /\ is_received' = Append(is_received, FALSE)
        /\ is_closed' = Append(is_closed, FALSE)
        /\ master' = master \cup {l} /\ conn' = [conn EXCEPT ![l] = c]
    BY <1>5, <1>7 DEF Accept
  <2>2. /\ numclient' \in 0 .. MAXCLIENTS /\ numclient' >= numclient
        /\ clientsocketfd' \in [Slots' -> Fds]
        /\ is_received' \in [Slots' -> BOOLEAN] /\ is_closed' \in [Slots' -> BOOLEAN]
        /\ master' = {clientsocketfd'[i] : i \in Slots'}
        /\ HeardInv' /\ OpenInv'
    BY <1>4, <1>5, <1>7, <2>1, SlotAdded
  <2>3. TypeOK'
    BY <1>0, <1>2, <1>3, <1>4, <2>2 DEF TypeOK
  <2>4. numclient \in Nat /\ numclient' \in Nat
    BY <1>0, <2>2, SlotTypes, Constants
  <2>5. GameInv'
    <3>1. PICK a \in Nat, b \in Nat, k \in Nat : a = numclient /\ b = numclient' /\ k = MINCLIENTS
      BY <2>4, Constants
    <3>2. game_started => a >= k
      BY <3>1 DEF IInv, GameInv
    <3>3. game_started' => b >= k
      BY <1>4, <2>2, <3>1, <3>2
    <3> QED BY <3>1, <3>3 DEF GameInv
  <2> QED BY <1>3, <2>2, <2>3, <2>5 DEF IInv
<1> QED BY <1>6, <1>7 DEF Accept

-----------------------------------------------------------------------------
(* Steps that change the slots *)

LEMMA HearStep == ASSUME IInv, NEW i \in Slots, Hear(i) PROVE IInv'
<1>0. TypeOK
  BY DEF IInv
<1>1. PICK c \in Clients : c = ClientAt(i) /\ inbox[c] \in Numbers
                           /\ inbox' = [inbox EXCEPT ![c] = Nothing]
  BY <1>0, SlotTypes DEF Hear, Looks, FirstReadable, Readable, TypeOK
<1>2. PICK howMany : Send(howMany, "judge")
  BY DEF Hear
<1>3. /\ peer' \in [Clients -> {"absent", "open", "fin", "rst", "gone", "sigpipe"}]
      /\ pc' \in {"select", "judge", "sleep", "killed"}
      /\ \A d \in Clients : peer[d] # "absent" => peer'[d] # "absent"
  BY <1>0, <1>2, Sent
<1>4. inbox' \in [Clients -> Numbers \cup {Nothing}]
  BY <1>0, <1>1 DEF TypeOK
<1>5. /\ UNCHANGED <<backlog, conn, clientsocketfd, is_closed, master, game_started,
                     announced>>
      /\ client_addr' \in Clients \cup {None}
  BY <1>0, SlotTypes DEF Hear, AddressAt, TypeOK
<1>6. CASE UNCHANGED <<numbers, is_received, heard>>
  BY <1>0, <1>3, <1>4, <1>5, <1>6, QuietStep DEF slots, TypeOK
<1>7. CASE ~is_received[i] /\ Take(i)
  <2>1. Slots' = Slots /\ numclient' = numclient /\ \A j \in Slots : ClientAt(j)' = ClientAt(j)
    BY <1>5 DEF Slots, numclient, ClientAt
  <2>2. /\ is_received' \in [Slots -> BOOLEAN]
        /\ is_received'[i] = TRUE
        /\ \A j \in Slots : j # i => is_received'[j] = is_received[j]
    <3>1. is_received \in [Slots -> BOOLEAN] /\ is_received' = [is_received EXCEPT ![i] = TRUE]
      BY <1>0, <1>7 DEF Take, TypeOK
    <3> QED BY <3>1
  <2>3. /\ numbers' \in [1 .. MAXCLIENTS -> Numbers \cup Garbage]
        /\ numbers'[i] = inbox[c]
        /\ \A j \in Slots : j # i => numbers'[j] = numbers[j]
    <3>1. i \in 1 .. MAXCLIENTS /\ \A j \in Slots : j \in 1 .. MAXCLIENTS
      BY <1>0, SlotTypes
    <3> QED BY <1>0, <1>1, <1>7, <3>1 DEF Take, TypeOK
  <2>4. /\ heard' \in [Clients -> Numbers \cup {Nothing}]
        /\ heard'[c] = inbox[c]
        /\ \A d \in Clients : d # c => heard'[d] = heard[d]
    BY <1>0, <1>1, <1>7 DEF Take, TypeOK
  <2>5. TypeOK'
    BY <1>0, <1>3, <1>4, <1>5, <2>1, <2>2, <2>3, <2>4 DEF TypeOK
  <2>6. HeardInv'
    <3>1. ASSUME NEW d \in Clients, heard'[d] # Nothing
          PROVE  \E j \in Slots : is_received'[j] /\ numbers'[j] = heard'[d]
      <4>1. CASE d = c
        BY <2>2, <2>3, <2>4, <4>1
      <4>2. CASE d # c
        <5>1. PICK j \in Slots : is_received[j] /\ numbers[j] = heard[d]
          BY <2>4, <3>1, <4>2 DEF IInv, HeardInv
        <5>2. j # i
          BY <1>7, <5>1
        <5> QED BY <2>2, <2>3, <2>4, <4>2, <5>1, <5>2
      <4> QED BY <4>1, <4>2
    <3> QED BY <2>1, <3>1 DEF HeardInv
  <2>7. OpenInv'
    <3> SUFFICES ASSUME \A j \in Slots : ~is_closed[j]
                 PROVE  /\ \A j, k \in Slots :
                              clientsocketfd[j] = clientsocketfd[k] => j = k
                        /\ \A j \in Slots : ClientAt(j) # None
                        /\ \A j \in Slots :
                              is_received'[j] => numbers'[j] = heard'[ClientAt(j)]
      BY <1>5, <2>1 DEF OpenInv
    <3>1. /\ \A j, k \in Slots : clientsocketfd[j] = clientsocketfd[k] => j = k
          /\ \A j \in Slots : ClientAt(j) # None
          /\ \A j \in Slots : is_received[j] => numbers[j] = heard[ClientAt(j)]
      BY DEF IInv, OpenInv
    <3>2. ASSUME NEW j \in Slots, is_received'[j]
          PROVE  numbers'[j] = heard'[ClientAt(j)]
      <4>1. CASE j = i
        BY <1>1, <2>3, <2>4, <4>1
      <4>2. CASE j # i
        <5>1. clientsocketfd[j] # clientsocketfd[i]
              /\ clientsocketfd[j] \in Fds /\ clientsocketfd[i] \in Fds
          BY <1>0, <3>1, <4>2, SlotTypes
        <5>2. ClientAt(j) # c
          BY <1>1, <5>1, Constants DEF IInv, ConnInv, ClientAt
        <5>3. ClientAt(j) \in Clients
          BY <1>0, <3>1, SlotTypes
        <5> QED BY <2>2, <2>3, <2>4, <3>1, <3>2, <4>2, <5>2, <5>3
      <4> QED BY <4>1, <4>2
    <3> QED BY <3>1, <3>2
  <2>8. ConnInv' /\ GameInv'
    BY <1>3, <1>5, <2>1, ConnKept DEF IInv, GameInv
  <2> QED BY <2>5, <2>6, <2>7, <2>8 DEF IInv
<1> QED BY <1>6, <1>7 DEF Hear

LEMMA HearEndStep == ASSUME IInv, NEW i \in Slots, HearEnd(i) PROVE IInv'
<1>0. TypeOK
  BY DEF IInv
<1>1. PICK f \in Fds : f = clientsocketfd[i] /\ conn' = [conn EXCEPT ![f] = None]
  BY <1>0, SlotTypes DEF HearEnd, Closed
<1>2. UNCHANGED <<peer, inbox, backlog, clientsocketfd, is_received, master, game>>
      /\ pc' = "judge" /\ is_closed' = [is_closed EXCEPT ![i] = TRUE]
  BY DEF HearEnd
<1>3. Slots' = Slots /\ numclient' = numclient
  BY <1>2 DEF Slots, numclient
<1>4. is_closed' \in [Slots -> BOOLEAN] /\ is_closed'[i] = TRUE
  <2>1. is_closed \in [Slots -> BOOLEAN]
    BY <1>0 DEF TypeOK
  <2> QED BY <1>2, <2>1
<1>5. /\ conn' \in [Fds -> Clients \cup {None}]
      /\ \A g \in Fds : conn'[g] # None => conn'[g] = conn[g]
  BY <1>0, <1>1 DEF TypeOK
<1>6. TypeOK'
  BY <1>0, <1>2, <1>3, <1>4, <1>5 DEF TypeOK, game
<1>7. ConnInv'
  BY <1>2, <1>5 DEF IInv, ConnInv
<1>8. HeardInv' /\ GameInv'
  BY <1>2, <1>3 DEF IInv, HeardInv, GameInv, game
<1>9. OpenInv'
  BY <1>3, <1>4 DEF OpenInv
<1> QED BY <1>6, <1>7, <1>8, <1>9 DEF IInv

\* The greatest number is that of the first slot that has it.
LEMMA WinnerFound ==
    ASSUME TypeOK, numclient # 0
    PROVE  \E w \in Slots : /\ numbers[w] = Greatest /\ Winner = AddressAt(w)
                            /\ \A i \in Slots : numbers[i] <= Greatest
<1>1. PICK n \in Nat : n = numclient /\ n \in 1 .. MAXCLIENTS /\ Slots = 1 .. n
  <2>1. PICK n \in Nat : n = numclient /\ n <= MAXCLIENTS
    BY SlotTypes
  <2> QED BY <2>1, Constants DEF Slots
<1>2. numbers \in [1 .. MAXCLIENTS -> Int]
  BY Constants DEF TypeOK
<1>3. \E i \in 1 .. n : \A j \in 1 .. n : numbers[j] <= numbers[i]
  BY <1>1, <1>2, Constants, GreatestOfFirst
<1>4. /\ Greatest \in {numbers[i] : i \in Slots}
      /\ \A i \in Slots : numbers[i] <= Greatest
  BY <1>1, <1>3 DEF Greatest
<1>5. PICK g : g = Greatest
  OBVIOUS
<1>6. \E w \in Slots : numbers[w] = g /\ \A j \in 1 .. w - 1 : numbers[j] # g
  <2> DEFINE T == {i \in Slots : numbers[i] = g}
  <2>1. T \in SUBSET Nat /\ T # {}
    BY <1>1, <1>4, <1>5
  <2> HIDE DEF T
  <2>2. PICK w \in T : \A k \in T : ~(k < w)
    BY <2>1, LeastNat
  <2>3. w \in 1 .. n /\ numbers[w] = g
        /\ \A k \in 1 .. n : numbers[k] = g => ~(k < w)
    BY <1>1, <2>2 DEF T
  <2>4. ASSUME NEW j \in 1 .. w - 1 PROVE numbers[j] # g
    <3>1. j \in 1 .. n /\ j < w
      BY <2>3, <2>4
    <3> QED BY <2>3, <3>1
  <2> QED BY <1>1, <2>3, <2>4
<1>7. PICK w \in Slots : numbers[w] = g /\ Winner = AddressAt(w)
  BY <1>5, <1>6 DEF Winner
<1> QED BY <1>4, <1>5, <1>7

LEMMA AnnounceStep == ASSUME IInv, Announce PROVE IInv'
<1>0. TypeOK /\ Send(ToEachSlot, "sleep")
  BY DEF IInv, Announce
<1>1. /\ peer' \in [Clients -> {"absent", "open", "fin", "rst", "gone", "sigpipe"}]
      /\ pc' \in {"select", "judge", "sleep", "killed"}
      /\ \A d \in Clients : peer[d] # "absent" => peer'[d] # "absent"
  BY <1>0, Sent
<1>2. /\ UNCHANGED <<inbox, backlog, conn, clientsocketfd, is_closed, master, numbers,
                     game_started>>
      /\ is_received' = [i \in Slots |-> FALSE]
      /\ heard' = [c \in Clients |-> Nothing]
      /\ announced' = [num |-> Greatest, from |-> Winner] /\ client_addr' = Winner
  BY DEF Announce
<1>3. Slots' = Slots /\ numclient' = numclient /\ \A i \in Slots : ClientAt(i)' = ClientAt(i)
  BY <1>2 DEF Slots, numclient, ClientAt
<1>4. numclient # 0
  BY <1>0, Constants, SlotTypes DEF IInv, GameInv, Announce
<1>5. announced'.from \in Clients \cup {None} /\ client_addr' \in Clients \cup {None}
  <2>1. PICK w \in Slots : Winner = AddressAt(w)
    BY <1>0, <1>4, WinnerFound
  <2>2. AddressAt(w) \in Clients \cup {None}
    BY <1>0, SlotTypes DEF AddressAt, TypeOK
  <2> QED BY <1>2, <2>1, <2>2
<1>6. TypeOK'
  BY <1>0, <1>1, <1>2, <1>3, <1>5 DEF TypeOK
<1>7. ConnInv' /\ GameInv'
  BY <1>0, <1>1, <1>2, <1>3, ConnKept DEF IInv, GameInv
<1>8. HeardInv'
  BY <1>2 DEF HeardInv
<1>9. OpenInv'
  BY <1>2, <1>3 DEF IInv, OpenInv
<1> QED BY <1>6, <1>7, <1>8, <1>9 DEF IInv

LEMMA NextKeeps == ASSUME IInv, [Next]_vars PROVE IInv'
BY ConnectStep, QuietSteps, AcceptStep, HearStep, HearEndStep, AnnounceStep
   DEF Next, Server, Client, Reads

-----------------------------------------------------------------------------
(* Theorems *)

\* Every reachable state of the number game satisfies the inductive invariant.
THEOREM Invariance == Spec => []IInv
BY InitHolds, NextKeeps, PTL DEF Spec

\* Every variable keeps its type; in particular accept finds a descriptor, and
\* numclient stays within the arrays.
THEOREM TypeCorrectness == Spec => []TypeOK
<1>1. IInv => TypeOK
  BY DEF IInv
<1> QED BY <1>1, Invariance, PTL

\* What chatserver announces is at least every number of the round.  While no slot is
\* closed it is the number of the client that it names, or of one whose connection has
\* been reset, so that getpeername fails and another is named.
THEOREM MaximumAnnounced == Spec => MaximumIsRight
<1> DEFINE A == announced' \notin {announced, NoResult} =>
                  /\ \A c \in Clients : heard[c] # Nothing => heard[c] <= announced'.num
                  /\ (\A i \in Slots : ~is_closed[i])
                       => \/ heard[announced'.from] = announced'.num
                          \/ \E c \in Clients : Reset(c) /\ heard[c] = announced'.num
<1>1. ASSUME IInv, [Next]_vars PROVE [A]_vars
  <2> SUFFICES ASSUME announced' \notin {announced, NoResult} PROVE A
    OBVIOUS
  <2>1. Announce
    BY <1>1 DEF Next, Server, Client, Reads, Connect, SendNumber, Leave, Accept, Hear,
       HearError, HearEnd, Idle, StartGame, AskNext, NothingToJudge, vars, game
  <2>2. TypeOK /\ numclient # 0
    BY <1>1, <2>1, Constants, SlotTypes DEF IInv, GameInv, Announce
  <2>3. PICK w \in Slots : /\ numbers[w] = Greatest /\ Winner = AddressAt(w)
                           /\ \A i \in Slots : numbers[i] <= Greatest
    BY <2>2, WinnerFound
  <2>4. announced'.num = Greatest /\ announced'.from = Winner
    BY <2>1 DEF Announce
  <2>5. \A c \in Clients : heard[c] # Nothing => heard[c] <= Greatest
    BY <1>1, <2>3 DEF IInv, HeardInv
  <2>6. ASSUME \A i \in Slots : ~is_closed[i]
        PROVE  \/ heard[Winner] = Greatest
               \/ \E c \in Clients : Reset(c) /\ heard[c] = Greatest
    <3>1. is_received[w]
      BY <2>1, <2>6 DEF Announce, RoundComplete
    <3>2. PICK c \in Clients : c = ClientAt(w) /\ heard[c] = Greatest
      BY <1>1, <2>2, <2>3, <2>6, <3>1, SlotTypes DEF IInv, OpenInv
    <3>3. CASE Reset(c)
      BY <3>2, <3>3
    <3>4. CASE ~Reset(c)
      <4>1. Winner = c
        BY <2>3, <3>2, <3>4, Constants DEF AddressAt, NotConnected
      <4> QED BY <3>2, <4>1
    <3> QED BY <3>3, <3>4
  <2> QED BY <2>4, <2>5, <2>6
<1> QED BY <1>1, Invariance, PTL DEF Spec, MaximumIsRight
=============================================================================
