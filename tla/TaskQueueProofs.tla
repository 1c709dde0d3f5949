--------------------------- MODULE TaskQueueProofs ---------------------------
(***************************************************************************)
(* Proofs about TaskQueue, for every size of the ring, number of tasks and *)
(* set of clients, as long as the file has fewer tasks than the ring has   *)
(* slots: one more and the full ring looks empty.                          *)
(***************************************************************************)
EXTENDS TaskQueue, FiniteSetTheorems, TLAPS

-----------------------------------------------------------------------------
(* The arithmetic of the ring *)

LEMMA SlotsType ==
    MAXTASKS \in Nat \ {0} /\ Lines \in Nat /\ 0 \in Slots /\ Slots \subseteq Nat
  BY TaskQueueAssumption DEF Slots

\* Division leaves a unique remainder.
LEMMA UniqueRemainder ==
    ASSUME NEW q \in Int, NEW r \in Slots
    PROVE  (MAXTASKS * q + r) % MAXTASKS = r
<1> DEFINE m == MAXTASKS
           x == m * q + r
           d == x \div m
<1>0. m \in Nat \ {0} /\ r \in 0 .. m - 1
  BY SlotsType DEF Slots
<1>1. x \in Int /\ x % m \in 0 .. m - 1 /\ d \in Int /\ x = m * d + (x % m)
  BY <1>0
<1>2. m * (q - d) = (x % m) - r /\ q - d \in Int
  BY <1>0, <1>1
<1>3. CASE q - d >= 1
  <2>1. m * (q - d) >= m
    BY <1>0, <1>2, <1>3
  <2> QED BY <2>1, <1>0, <1>1, <1>2
<1>4. CASE q - d <= -1
  <2>1. m * (q - d) <= -m
    BY <1>0, <1>2, <1>4
  <2> QED BY <2>1, <1>0, <1>1, <1>2
<1>5. CASE q = d
  BY <1>0, <1>1, <1>5
<1> QED BY <1>1, <1>2, <1>3, <1>4, <1>5

\* One turn of the ring, forwards or backwards.
LEMMA OneTurn ==
    ASSUME NEW x \in Int, -MAXTASKS <= x, x < 2 * MAXTASKS
    PROVE  x % MAXTASKS = IF x < 0 THEN x + MAXTASKS
                          ELSE IF x < MAXTASKS THEN x ELSE x - MAXTASKS
<1>0. MAXTASKS \in Nat \ {0}
  BY SlotsType
<1>1. CASE x < 0
  <2>1. x + MAXTASKS \in Slots /\ MAXTASKS * (-1) + (x + MAXTASKS) = x
    BY <1>0, <1>1 DEF Slots
  <2>2. (MAXTASKS * (-1) + (x + MAXTASKS)) % MAXTASKS = x + MAXTASKS
    BY <2>1, UniqueRemainder
  <2> QED BY <2>1, <2>2, <1>1
<1>2. CASE x \in Slots
  <2>1. (MAXTASKS * 0 + x) % MAXTASKS = x
    BY <1>2, UniqueRemainder
  <2> QED BY <2>1, <1>0, <1>2 DEF Slots
<1>3. CASE x >= MAXTASKS
  <2>1. x - MAXTASKS \in Slots /\ MAXTASKS * 1 + (x - MAXTASKS) = x
    BY <1>0, <1>3 DEF Slots
  <2>2. (MAXTASKS * 1 + (x - MAXTASKS)) % MAXTASKS = x - MAXTASKS
    BY <2>1, UniqueRemainder
  <2> QED BY <2>1, <2>2, <1>0, <1>3
<1> QED BY <1>0, <1>1, <1>2, <1>3 DEF Slots

\* The slots from front f to rear r.
From(f, r) == {s \in Slots : (s - f) % MAXTASKS < (r - f) % MAXTASKS}

LEMMA UsedIsFrom == Used = From(TQ.front, TQ.rear)
  BY DEF Used, From

LEMMA Distance ==
    ASSUME NEW a \in Slots, NEW b \in Slots
    PROVE  (a - b) % MAXTASKS = IF b <= a THEN a - b ELSE a - b + MAXTASKS
<1>1. a - b \in Int /\ -MAXTASKS <= a - b /\ a - b < MAXTASKS
  BY SlotsType DEF Slots
<1>2. PICK x \in Int : x = a - b
  BY <1>1
<1>3. x % MAXTASKS = IF x < 0 THEN x + MAXTASKS
                     ELSE IF x < MAXTASKS THEN x ELSE x - MAXTASKS
  BY <1>1, <1>2, SlotsType, OneTurn
<1> QED BY <1>1, <1>2, <1>3, SlotsType DEF Slots

LEMMA NextSlot ==
    ASSUME NEW a \in Slots
    PROVE  /\ (a + 1) % MAXTASKS \in Slots
           /\ (a + 1) % MAXTASKS = IF a + 1 = MAXTASKS THEN 0 ELSE a + 1
<1>1. a + 1 \in Int /\ -MAXTASKS <= a + 1 /\ a + 1 < 2 * MAXTASKS /\ a + 1 >= 0
  BY SlotsType DEF Slots
<1>2. PICK x \in Int : x = a + 1
  BY <1>1
<1>3. x % MAXTASKS = IF x < 0 THEN x + MAXTASKS
                     ELSE IF x < MAXTASKS THEN x ELSE x - MAXTASKS
  BY <1>1, <1>2, OneTurn
<1> QED BY <1>1, <1>2, <1>3, SlotsType DEF Slots

\* A ring whose front is its rear is empty.
LEMMA EmptyRing == ASSUME NEW f \in Slots PROVE From(f, f) = {}
<1>1. ASSUME NEW s \in From(f, f) PROVE FALSE
  <2>1. s \in Slots /\ (s - f) % MAXTASKS < (f - f) % MAXTASKS
    BY DEF From
  <2> QED BY <2>1, Distance, SlotsType DEF Slots
<1> QED BY <1>1

\* Taking from the front frees that slot and no other.
LEMMA FrontRemoved ==
    ASSUME NEW f \in Slots, NEW r \in Slots, f # r
    PROVE  /\ f \in From(f, r)
           /\ From((f + 1) % MAXTASKS, r) = From(f, r) \ {f}
<1>1. PICK g \in Slots : /\ g = (f + 1) % MAXTASKS
                         /\ g = IF f + 1 = MAXTASKS THEN 0 ELSE f + 1
  BY NextSlot
<1>2. (f - f) % MAXTASKS < (r - f) % MAXTASKS
  BY Distance, SlotsType DEF Slots
<1>3. ASSUME NEW s \in Slots
      PROVE  (s - g) % MAXTASKS < (r - g) % MAXTASKS
               <=> (s - f) % MAXTASKS < (r - f) % MAXTASKS /\ s # f
  <2>1. /\ (s - g) % MAXTASKS = IF g <= s THEN s - g ELSE s - g + MAXTASKS
        /\ (r - g) % MAXTASKS = IF g <= r THEN r - g ELSE r - g + MAXTASKS
        /\ (s - f) % MAXTASKS = IF f <= s THEN s - f ELSE s - f + MAXTASKS
        /\ (r - f) % MAXTASKS = IF f <= r THEN r - f ELSE r - f + MAXTASKS
    BY Distance
  <2>2. s \in 0 .. MAXTASKS - 1 /\ f \in 0 .. MAXTASKS - 1 /\ r \in 0 .. MAXTASKS - 1
    BY DEF Slots
  <2> QED BY <1>1, <2>1, <2>2, SlotsType
<1> QED BY <1>1, <1>2, <1>3 DEF From

\* Putting at the rear takes that slot, when one is left.
LEMMA RearAdded ==
    ASSUME NEW f \in Slots, NEW r \in Slots, (r + 1) % MAXTASKS # f
    PROVE  /\ r \notin From(f, r)
           /\ From(f, (r + 1) % MAXTASKS) = From(f, r) \cup {r}
<1>1. PICK q \in Slots : /\ q = (r + 1) % MAXTASKS
                         /\ q = IF r + 1 = MAXTASKS THEN 0 ELSE r + 1
  BY NextSlot
<1>2. ASSUME NEW s \in Slots
      PROVE  (s - f) % MAXTASKS < (q - f) % MAXTASKS
               <=> (s - f) % MAXTASKS < (r - f) % MAXTASKS \/ s = r
  BY <1>1, Distance, SlotsType DEF Slots
<1>3. ~((r - f) % MAXTASKS < (r - f) % MAXTASKS)
  BY Distance, SlotsType DEF Slots
<1> QED BY <1>1, <1>2, <1>3 DEF From

\* A ring with no slot left to put a task in has all slots but one in use.
LEMMA FullRing ==
    ASSUME NEW f \in Slots, NEW r \in Slots, (r + 1) % MAXTASKS = f
    PROVE  From(f, r) = Slots \ {r}
<1>1. f = IF r + 1 = MAXTASKS THEN 0 ELSE r + 1
  BY NextSlot
<1>2. ASSUME NEW s \in Slots
      PROVE  (s - f) % MAXTASKS < (r - f) % MAXTASKS <=> s # r
  BY <1>1, Distance, SlotsType DEF Slots
<1> QED BY <1>2 DEF From

-----------------------------------------------------------------------------
(* The inductive invariant *)

\* The slots in use hold different tasks, each without a result and with no
\* child.
QueueInv ==
    /\ \A s, u \in Used : TQ.tasks[s] = TQ.tasks[u] => s = u
    /\ \A s \in Used :
          /\ TQ.tasks[s] \in Tasks
          /\ results[TQ.tasks[s]] = None
          /\ \A c \in Clients : pending_task[c] # TQ.tasks[s]

\* No two children have handed out the same task, and none has one with a result.
HolderInv ==
    /\ \A c, d \in Clients :
          pending_task[c] = pending_task[d] /\ pending_task[c] # None => c = d
    /\ \A c \in Clients :
          pending_task[c] # None => results[pending_task[c]] = None

\* A task without a result is in the queue or with a child.
NoneLost ==
    \A t \in Tasks :
        results[t] = None => \/ \E s \in Used : TQ.tasks[s] = t
                             \/ \E c \in Clients : pending_task[c] = t

\* Request and reply alternate, so that what a client computed last is the task
\* that its child has pending, unless that task is still on its way.
MessageInv ==
    \A c \in Clients :
        /\ reply[c] # NoMsg => request[c] = NoMsg /\ client[c] \in {"waiting", "gone"}
        /\ client[c] \in {"off", "menu"} => request[c] = NoMsg /\ reply[c] = NoMsg
        /\ pending_task[c] # None =>
              /\ client[c] # "gone" /\ reply[c].type # "Task" => res[c] = pending_task[c]
              /\ reply[c].type = "Task" => reply[c].task = pending_task[c]
              /\ request[c].type = "RESULT" => request[c].res = pending_task[c]
        /\ child[c] = "refusing" => /\ request[c] = NoMsg /\ reply[c] = NoMsg
                                    /\ client[c] \in {"waiting", "gone"}

\* A child that is about to refuse has missed only what was put back since.
RefusalInv ==
    \A c \in Clients : child[c] = "refusing" =>
        \A t \in Tasks : results[t] # None \/ Holders(t) # {} \/ t \in back[c]

PlaceInv == QueueInv /\ HolderInv /\ NoneLost
IInv == TypeOK /\ PlaceInv /\ MessageInv /\ RightResult /\ RefusalInv

-----------------------------------------------------------------------------
(* The initial state *)

LEMMA LoadedRing ==
    ASSUME Lines < MAXTASKS
    PROVE  /\ Loaded \in [tasks : [Slots -> 0 .. Lines], front : Slots, rear : Slots]
           /\ Loaded.front = 0 /\ Loaded.rear = Lines
           /\ \A s \in Slots : s < Lines => Loaded.tasks[s] = s + 1
           /\ From(0, Lines) = {s \in Slots : s < Lines}
<1>0. Lines \in Slots /\ 0 \in Slots /\ Lines \in Nat /\ MAXTASKS \in Nat \ {0}
  BY SlotsType DEF Slots
<1>1. ASSUME NEW s \in Slots
      PROVE  (s - 0) % MAXTASKS = s
  BY <1>0, Distance DEF Slots
<1>2. Lines % MAXTASKS = Lines
  BY <1>0, OneTurn
<1>3. ASSUME NEW s \in Slots
      PROVE  LastLine(s) = IF s < Lines THEN s + 1 ELSE s + 1 - MAXTASKS
  <2>1. PICK x \in Int : x = Lines - 1 - s
    BY <1>0 DEF Slots
  <2>2. -MAXTASKS <= x /\ x < MAXTASKS
    BY <1>0, <2>1 DEF Slots
  <2>3. x % MAXTASKS = IF x < 0 THEN x + MAXTASKS ELSE x
    BY <1>0, <2>2, OneTurn
  <2> QED BY <1>0, <2>1, <2>3 DEF LastLine, Slots
<1>4. \A s \in Slots : (IF LastLine(s) > 0 THEN LastLine(s) ELSE 0)
                         = IF s < Lines THEN s + 1 ELSE 0
  BY <1>0, <1>3 DEF Slots
<1>5. Loaded = [tasks |-> [s \in Slots |-> IF s < Lines THEN s + 1 ELSE 0],
                front |-> 0, rear |-> Lines]
  BY <1>2, <1>4 DEF Loaded
<1>6. From(0, Lines) = {s \in Slots : s < Lines}
  BY <1>0, <1>1 DEF From
<1> QED BY <1>0, <1>5, <1>6 DEF Slots

LEMMA InitHolds ==
    ASSUME Lines < MAXTASKS, Init
    PROVE  IInv
<1>0. Lines \in Nat /\ MAXTASKS \in Nat \ {0}
  BY SlotsType
<1>1. TypeOK
  BY LoadedRing, <1>0 DEF Init, TypeOK, Requests, Replies, Msg, NoMsg, None
<1>2. Used = {s \in Slots : s < Lines}
  BY LoadedRing, UsedIsFrom DEF Init
<1>3. \A s \in Used : TQ.tasks[s] = s + 1 /\ s + 1 \in Tasks
  BY <1>0, <1>2, LoadedRing DEF Init, Tasks, Slots
<1>4. QueueInv
  BY <1>0, <1>2, <1>3 DEF Init, QueueInv, Slots, Tasks, None
<1>5. HolderInv
  BY DEF Init, HolderInv
<1>6. NoneLost
  <2>1. ASSUME NEW t \in Tasks PROVE t - 1 \in Used /\ TQ.tasks[t - 1] = t
    BY <1>0, <1>2, <1>3 DEF Tasks, Slots
  <2> QED BY <2>1 DEF NoneLost
<1>7. MessageInv /\ RightResult /\ RefusalInv
  BY DEF Init, MessageInv, RightResult, RefusalInv, NoMsg
<1> QED BY <1>1, <1>4, <1>5, <1>6, <1>7 DEF IInv, PlaceInv

-----------------------------------------------------------------------------
(* What a step keeps *)

\* While a child has a task, the ring has a slot for it: a full ring would hold
\* as many tasks as there are, and none of them is that one.
LEMMA RoomForOne ==
    ASSUME Lines < MAXTASKS, TypeOK, QueueInv,
           NEW c \in Clients, pending_task[c] # None
    PROVE  (TQ.rear + 1) % MAXTASKS # TQ.front
<1> SUFFICES ASSUME (TQ.rear + 1) % MAXTASKS = TQ.front PROVE FALSE
  OBVIOUS
<1> DEFINE S == Slots \ {TQ.rear}
           T == Tasks \ {pending_task[c]}
           f == [s \in S |-> TQ.tasks[s]]
<1>0. /\ TQ.front \in Slots /\ TQ.rear \in Slots
      /\ pending_task[c] \in Tasks
  BY DEF TypeOK
<1>1. Used = S
  BY <1>0, UsedIsFrom, FullRing
<1>2. f \in [S -> T]
  BY <1>1 DEF QueueInv
<1>3. IsFiniteSet(S) /\ Cardinality(S) = MAXTASKS - 1
  <2>1. IsFiniteSet(Slots) /\ Cardinality(Slots) = MAXTASKS
    BY SlotsType, FS_Interval DEF Slots
  <2> QED BY <1>0, <2>1, FS_RemoveElement, SlotsType
<1>4. IsFiniteSet(T) /\ Cardinality(T) = Lines - 1
  <2>1. /\ IsFiniteSet(1 .. Lines)
        /\ Cardinality(1 .. Lines) = IF 1 > Lines THEN 0 ELSE Lines - 1 + 1
    BY SlotsType, FS_Interval
  <2>2. IsFiniteSet(Tasks) /\ Cardinality(Tasks) = Lines
    BY <2>1, SlotsType DEF Tasks
  <2> QED BY <1>0, <2>2, FS_RemoveElement, SlotsType
<1>5. Cardinality(T) < Cardinality(S)
  BY <1>3, <1>4, SlotsType
<1> HIDE DEF S, T, f
<1>6. \E s, u \in S : s # u /\ f[s] = f[u]
  BY <1>2, <1>3, <1>4, <1>5, FS_PigeonHole
<1> QED BY <1>1, <1>6 DEF QueueInv, f

LEMMA EnqueueValue ==
    ASSUME NEW queue \in [tasks : [Slots -> 0 .. Lines], front : Slots, rear : Slots],
           NEW task \in 0 .. Lines
    PROVE  Enqueue(queue, task)
             = [tasks |-> [queue.tasks EXCEPT ![queue.rear] = task],
                front |-> queue.front, rear |-> (queue.rear + 1) % MAXTASKS]
<1> DEFINE T == [queue.tasks EXCEPT ![queue.rear] = task]
           r == (queue.rear + 1) % MAXTASKS
           put == [queue EXCEPT !.tasks = T]
<1> HIDE DEF T, r
<1>1. Enqueue(queue, task) = [put EXCEPT !.rear = r]
  BY DEF Enqueue, T, r
<1>2. put = [tasks |-> T, front |-> queue.front, rear |-> queue.rear]
  OBVIOUS
<1> HIDE DEF put
<1>3. [put EXCEPT !.rear = r] = [tasks |-> T, front |-> queue.front, rear |-> r]
  BY <1>2
<1> QED BY <1>1, <1>3 DEF T, r

LEMMA MsgType == (\A x : Msg(x).type = x) /\ NoMsg.type = "nothing"
  BY DEF Msg, NoMsg

LEMMA MessageTypes ==
    /\ \A r \in Requests : r.type = "RESULT" => r.res \in 0 .. Lines
    /\ \A r \in Replies : r.type = "Task" => r.task \in Tasks
    /\ Msg("NOT_AVAILABLE") \in Replies /\ Msg("PENDING_TASK") \in Replies
    /\ Msg("Result received") \in Replies
    /\ Msg("Request a new task first") \in Replies
    /\ \A t \in Tasks : [type |-> "Task", task |-> t] \in Replies
<1>1. \A r \in Requests : r.type = "RESULT" => r.res \in 0 .. Lines
  BY DEF Requests, Msg
<1>2. ASSUME NEW r \in Replies, r.type = "Task" PROVE r.task \in Tasks
  <2>1. r \in [type : {"Task"}, task : Tasks]
    BY <1>2, MsgType DEF Replies
  <2> QED BY <2>1
<1> QED BY <1>1, <1>2 DEF Replies

\* What waits at the front of a queue that is not empty is a task.
LEMMA FrontIsTask ==
    ASSUME TypeOK, QueueInv, ~Empty
    PROVE  TQ.front \in Used /\ TQ.tasks[TQ.front] \in Tasks
<1>1. TQ.front \in Slots /\ TQ.rear \in Slots /\ TQ.front # TQ.rear
  BY DEF TypeOK, Empty
<1>2. TQ.front \in Used
  BY <1>1, FrontRemoved, UsedIsFrom
<1> QED BY <1>2 DEF QueueInv

LEMMA TypeKept == TypeOK /\ QueueInv /\ [Next]_vars => TypeOK'
<1> SUFFICES ASSUME TypeOK, QueueInv, [Next]_vars PROVE TypeOK'
  OBVIOUS
<1> USE DEF TypeOK
<1>0. /\ Lines \in Nat /\ None \notin 0 .. Lines /\ Tasks \subseteq 0 .. Lines
      /\ \A s \in Slots : (s + 1) % MAXTASKS \in Slots
  <2>1. Lines \in Nat
    BY SlotsType
  <2>2. None \notin 0 .. Lines /\ Tasks \subseteq 0 .. Lines
    BY <2>1 DEF Tasks, None
  <2>3. \A s \in Slots : (s + 1) % MAXTASKS \in Slots
    BY NextSlot
  <2> QED BY <2>1, <2>2, <2>3
<1>a. ASSUME NEW c \in Clients, NEW msg \in Replies, Answer(c, msg)
      PROVE  /\ request' \in [Clients -> Requests \cup {NoMsg}]
             /\ reply' \in [Clients -> Replies \cup {NoMsg}]
  BY <1>a DEF Answer
<1>1. ASSUME NEW c \in Clients, Accept(c) PROVE TypeOK'
  BY <1>1 DEF Accept, clients
<1>2. ASSUME NEW c \in Clients, AcceptFails(c) PROVE TypeOK'
  BY <1>2 DEF AcceptFails, clients
<1>3. ASSUME NEW c \in Clients, HandOut(c) PROVE TypeOK'
  <2>1. TQ.tasks[TQ.front] \in Tasks
    BY <1>3, FrontIsTask DEF HandOut
  <2>2. TQ' \in [tasks : [Slots -> 0 .. Lines], front : Slots, rear : Slots]
    BY <1>0, <1>3 DEF HandOut
  <2> QED BY <1>3, <1>a, MessageTypes, <2>1, <2>2 DEF HandOut, clients
<1>4. ASSUME NEW c \in Clients, NothingToHandOut(c) PROVE TypeOK'
  BY <1>4 DEF NothingToHandOut, clients
<1>17. ASSUME NEW c \in Clients, RefuseTask(c) PROVE TypeOK'
  BY <1>17, MessageTypes DEF RefuseTask, clients
<1>5. ASSUME NEW c \in Clients, StillPending(c) PROVE TypeOK'
  BY <1>5, <1>a, MessageTypes DEF StillPending, clients
<1>6. ASSUME NEW c \in Clients, TakeResult(c) PROVE TypeOK'
  <2>1. request[c] \in Requests /\ request[c].type = "RESULT"
    BY <1>6, MsgType DEF TakeResult, Serves
  <2>2. results' \in [Tasks -> 0 .. Lines \cup {None}]
    BY <1>6, MessageTypes, <2>1 DEF TakeResult
  <2> QED BY <1>6, <1>a, MessageTypes, <2>2 DEF TakeResult, clients
<1>7. ASSUME NEW c \in Clients, RefuseResult(c) PROVE TypeOK'
  BY <1>7, <1>a, MessageTypes DEF RefuseResult, clients
<1>8. ASSUME NEW c \in Clients, StopServing(c) PROVE TypeOK'
  BY <1>8 DEF StopServing, clients
<1>9. ASSUME NEW c \in Clients, ChildExits(c) PROVE TypeOK'
  <2>1. TQ' \in [tasks : [Slots -> 0 .. Lines], front : Slots, rear : Slots]
    <3>1. CASE pending_task[c] = None
      BY <1>9, <3>1 DEF ChildExits
    <3>2. CASE pending_task[c] # None
      <4>1. /\ pending_task[c] \in 0 .. Lines /\ TQ.rear \in Slots
            /\ (TQ.rear + 1) % MAXTASKS \in Slots
        BY <1>0, <3>2
      <4>2. TQ' = [tasks |-> [TQ.tasks EXCEPT ![TQ.rear] = pending_task[c]],
                   front |-> TQ.front, rear |-> (TQ.rear + 1) % MAXTASKS]
        BY <1>9, <3>2, <4>1, EnqueueValue DEF ChildExits
      <4> QED BY <4>1, <4>2
    <3> QED BY <3>1, <3>2
  <2>2. back' \in [Clients -> SUBSET Tasks]
    <3>1. CASE pending_task[c] = None
      BY <1>9, <3>1 DEF ChildExits
    <3>2. CASE pending_task[c] # None
      <4>1. pending_task[c] \in Tasks
        BY <3>2
      <4>2. back' = [d \in Clients |-> IF child[d] = "refusing"
                                      THEN back[d] \cup {pending_task[c]} ELSE back[d]]
        BY <1>9, <3>2 DEF ChildExits
      <4> QED BY <4>1, <4>2
    <3> QED BY <3>1, <3>2
  <2> QED BY <1>9, <2>1, <2>2 DEF ChildExits, clients
<1>10. ASSUME NEW c \in Clients, ReadReply(c) PROVE TypeOK'
  <2>1. reply[c] \in Replies
    BY <1>10 DEF ReadReply
  <2>2. res' \in [Clients -> 0 .. Lines]
    BY <1>10, <1>0, MessageTypes, <2>1 DEF ReadReply
  <2>3. request' \in [Clients -> Requests \cup {NoMsg}]
    BY <1>10 DEF ReadReply, Requests
  <2> QED BY <1>10, <2>2, <2>3 DEF ReadReply
<1>11. ASSUME NEW c \in Clients, ReadEnd(c) PROVE TypeOK'
  BY <1>11 DEF ReadEnd
<1>12. ASSUME NEW c \in Clients, Connect(c) PROVE TypeOK'
  BY <1>12 DEF Connect
<1>13. ASSUME NEW c \in Clients, Ask(c) PROVE TypeOK'
  BY <1>13 DEF Ask, Requests
<1>14. ASSUME NEW c \in Clients, SayExit(c) PROVE TypeOK'
  BY <1>14 DEF SayExit, Requests
<1>15. ASSUME NEW c \in Clients, Killed(c) PROVE TypeOK'
  BY <1>15 DEF Killed
<1>16. CASE UNCHANGED vars
  BY <1>16 DEF vars, clients
<1> QED BY <1>1, <1>2, <1>3, <1>4, <1>5, <1>6, <1>7, <1>8, <1>9, <1>10, <1>11,
           <1>12, <1>13, <1>14, <1>15, <1>16, <1>17
        DEF Next, Parent, Child, Reads, User

LEMMA PlaceKept ==
    ASSUME Lines < MAXTASKS, IInv, [Next]_vars
    PROVE  PlaceInv'
<1> DEFINE place == <<TQ, pending_task, results>>
<1>0. /\ TypeOK /\ QueueInv /\ HolderInv /\ NoneLost /\ MessageInv
      /\ TQ.front \in Slots /\ TQ.rear \in Slots
      /\ None \notin Tasks /\ TypeOK'
  BY TypeKept, SlotsType DEF IInv, PlaceInv, TypeOK, Tasks, None
<1>1. CASE UNCHANGED place
  BY <1>0, <1>1 DEF PlaceInv, QueueInv, HolderInv, NoneLost, Used
<1>2. ASSUME NEW c \in Clients, HandOut(c) PROVE PlaceInv'
  <2> DEFINE t == TQ.tasks[TQ.front]
  <2>1. TQ.front \in Used /\ t \in Tasks
    BY <1>0, <1>2, FrontIsTask DEF HandOut
  <2>2. /\ pending_task[c] = None
        /\ pending_task' = [pending_task EXCEPT ![c] = t]
        /\ results' = results
        /\ TQ'.tasks = TQ.tasks /\ TQ'.rear = TQ.rear
        /\ TQ'.front = (TQ.front + 1) % MAXTASKS
    BY <1>0, <1>2 DEF HandOut, TypeOK
  <2>3. Used' = Used \ {TQ.front}
    BY <1>0, <1>2, <2>2, UsedIsFrom, FrontRemoved DEF HandOut, Empty, Used, From
  <2>4. pending_task \in [Clients -> Tasks \cup {None}]
    BY <1>0 DEF TypeOK
  <2>5. \A d \in Clients : pending_task'[d] = IF d = c THEN t ELSE pending_task[d]
    BY <2>2, <2>4
  <2> HIDE DEF t
  <2>6. QueueInv'
    BY <1>0, <2>1, <2>2, <2>3, <2>5 DEF QueueInv, t
  <2>7. HolderInv'
    BY <1>0, <2>1, <2>2, <2>5 DEF QueueInv, HolderInv, t
  <2>8. NoneLost'
    BY <1>0, <2>1, <2>2, <2>3, <2>5 DEF NoneLost, t
  <2> QED BY <2>6, <2>7, <2>8 DEF PlaceInv
<1>3. ASSUME NEW c \in Clients, TakeResult(c) PROVE PlaceInv'
  <2> DEFINE t == pending_task[c]
  <2>1. /\ t \in Tasks
        /\ pending_task' = [pending_task EXCEPT ![c] = None]
        /\ TQ' = TQ /\ Used' = Used
    <3>1. pending_task[c] \in Tasks \cup {None}
      BY <1>0 DEF TypeOK
    <3>2. pending_task[c] # None
      BY <1>3 DEF TakeResult
    <3>3. pending_task' = [pending_task EXCEPT ![c] = None] /\ TQ' = TQ
      BY <1>3 DEF TakeResult
    <3> QED BY <3>1, <3>2, <3>3 DEF Used
  <2>2. /\ results \in [Tasks -> 0 .. Lines \cup {None}]
        /\ results' = [results EXCEPT ![t] = request[c].res]
        /\ request[c].res \in 0 .. Lines
    <3>1. request[c] \in Requests /\ request[c].type = "RESULT"
      <4>1. request[c] \in Requests \cup {NoMsg}
        BY <1>0 DEF TypeOK
      <4>2. Serves(c, "RESULT")
        BY <1>3 DEF TakeResult
      <4>3. request[c].type = "RESULT"
        BY <4>2 DEF Serves
      <4> QED BY <4>1, <4>3, MsgType
    <3> QED BY <1>0, <1>3, <3>1, MessageTypes DEF TakeResult, TypeOK
  <2>3. \A u \in Tasks : /\ u # t => results'[u] = results[u]
                         /\ u = t => results'[u] # None
    BY <2>2, SlotsType DEF None
  <2>4. \A d \in Clients : pending_task'[d] = IF d = c THEN None ELSE pending_task[d]
    BY <1>0, <2>1 DEF TypeOK
  <2>5. QueueInv'
    BY <1>0, <2>1, <2>3, <2>4 DEF QueueInv
  <2>6. HolderInv'
    <3>1. \A d \in Clients : pending_task[d] \in Tasks \cup {None}
      BY <1>0 DEF TypeOK
    <3> QED BY <1>0, <2>1, <2>3, <2>4, <3>1 DEF HolderInv
  <2>7. NoneLost'
    BY <1>0, <2>1, <2>3, <2>4 DEF NoneLost
  <2> QED BY <2>5, <2>6, <2>7 DEF PlaceInv
<1>4. ASSUME NEW c \in Clients, ChildExits(c), pending_task[c] # None
      PROVE  PlaceInv'
  <2> DEFINE t == pending_task[c]
             r == TQ.rear
  <2>1. /\ t \in Tasks
        /\ pending_task' = [pending_task EXCEPT ![c] = None]
        /\ results' = results
    BY <1>0, <1>4 DEF ChildExits, TypeOK
  <2>2. TQ' = [tasks |-> [TQ.tasks EXCEPT ![r] = t],
               front |-> TQ.front, rear |-> (r + 1) % MAXTASKS]
    <3>1. TQ \in [tasks : [Slots -> 0 .. Lines], front : Slots, rear : Slots]
      BY <1>0 DEF TypeOK
    <3>2. t \in 0 .. Lines /\ TQ' = Enqueue(TQ, t)
      BY <1>4, <2>1, SlotsType DEF ChildExits, Tasks
    <3> QED BY <3>1, <3>2, EnqueueValue
  <2>3. r \notin Used /\ Used' = Used \cup {r}
    BY <1>0, <1>4, <2>2, RoomForOne, RearAdded, UsedIsFrom DEF Used, From
  <2>4. \A s \in Slots : TQ'.tasks[s] = IF s = r THEN t ELSE TQ.tasks[s]
    BY <1>0, <2>2 DEF TypeOK
  <2>5. \A d \in Clients : pending_task'[d] = IF d = c THEN None ELSE pending_task[d]
    BY <1>0, <2>1 DEF TypeOK
  <2>6. /\ Used \subseteq Slots /\ r \in Slots
        /\ \A d \in Clients : d # c => pending_task[d] # t
        /\ results[t] = None
        /\ \A s \in Used : TQ.tasks[s] # t
    BY <1>0, <1>4 DEF Used, HolderInv, QueueInv
  <2> HIDE DEF t, r
  <2>7. QueueInv'
    <3>1. \A s \in Used : TQ'.tasks[s] = TQ.tasks[s]
      BY <2>3, <2>4, <2>6
    <3>2. TQ'.tasks[r] = t
      BY <2>4, <2>6
    <3>3. \A s, u \in Used' : TQ'.tasks[s] = TQ'.tasks[u] => s = u
      BY <1>0, <2>3, <2>6, <3>1, <3>2 DEF QueueInv
    <3>4. ASSUME NEW s \in Used'
          PROVE  /\ TQ'.tasks[s] \in Tasks
                 /\ results'[TQ'.tasks[s]] = None
                 /\ \A d \in Clients : pending_task'[d] # TQ'.tasks[s]
      <4>1. CASE s = r
        BY <1>0, <2>1, <2>5, <2>6, <3>2, <4>1
      <4>2. CASE s # r
        BY <1>0, <2>1, <2>3, <2>5, <3>1, <4>2 DEF QueueInv
      <4> QED BY <4>1, <4>2
    <3> QED BY <3>3, <3>4 DEF QueueInv
  <2>8. HolderInv'
    BY <1>0, <2>1, <2>5 DEF HolderInv
  <2>9. NoneLost'
    <3>1. ASSUME NEW u \in Tasks, results'[u] = None
          PROVE  \/ \E s \in Used' : TQ'.tasks[s] = u
                 \/ \E d \in Clients : pending_task'[d] = u
      <4>1. CASE u = t
        BY <2>3, <2>4, <2>6, <4>1
      <4>2. CASE u # t
        BY <1>0, <2>1, <2>3, <2>4, <2>5, <2>6, <3>1, <4>2 DEF NoneLost, t
      <4> QED BY <4>1, <4>2
    <3> QED BY <3>1 DEF NoneLost
  <2> QED BY <2>7, <2>8, <2>9 DEF PlaceInv
<1>5. ASSUME NEW c \in Clients, ChildExits(c), pending_task[c] = None
      PROVE  UNCHANGED place
  BY <1>0, <1>5 DEF ChildExits, TypeOK
<1>6. ASSUME NEW c \in Clients,
             \/ Parent(c) \/ Reads(c) \/ User(c) \/ NothingToHandOut(c)
             \/ RefuseTask(c) \/ StillPending(c) \/ RefuseResult(c) \/ StopServing(c)
      PROVE  UNCHANGED place
  BY <1>6 DEF Parent, Accept, AcceptFails, Reads, ReadReply, ReadEnd, User, Connect,
              Ask, SayExit, Killed, NothingToHandOut, RefuseTask, StillPending,
              RefuseResult, StopServing
<1>7. CASE UNCHANGED vars
  BY <1>1, <1>7 DEF vars
<1> QED BY <1>1, <1>2, <1>3, <1>4, <1>5, <1>6, <1>7 DEF Next, Child

\* The result on its way to a child is that of the task it has pending.
LEMMA MessagesKept ==
    ASSUME IInv, [Next]_vars
    PROVE  MessageInv' /\ RightResult'
<1>0. TypeOK /\ MessageInv /\ RightResult /\ PlaceInv /\ TypeOK'
  BY TypeKept DEF IInv, PlaceInv
<1>t. /\ pending_task \in [Clients -> Tasks \cup {None}]
      /\ client \in [Clients -> {"off", "menu", "waiting", "gone"}]
      /\ res \in [Clients -> 0 .. Lines]
      /\ request \in [Clients -> Requests \cup {NoMsg}]
      /\ reply \in [Clients -> Replies \cup {NoMsg}]
      /\ results \in [Tasks -> 0 .. Lines \cup {None}]
      /\ child \in [Clients -> {"none", "serving", "refusing", "leaving", "exited"}]
      /\ None \notin Tasks
  BY <1>0, SlotsType DEF TypeOK, Tasks, None
<1> DEFINE OneInv(c) ==
             /\ reply[c] # NoMsg => request[c] = NoMsg /\ client[c] \in {"waiting", "gone"}
             /\ client[c] \in {"off", "menu"} => request[c] = NoMsg /\ reply[c] = NoMsg
             /\ pending_task[c] # None =>
                  /\ client[c] # "gone" /\ reply[c].type # "Task"
                        => res[c] = pending_task[c]
                  /\ reply[c].type = "Task" => reply[c].task = pending_task[c]
                  /\ request[c].type = "RESULT" => request[c].res = pending_task[c]
             /\ child[c] = "refusing" => /\ request[c] = NoMsg /\ reply[c] = NoMsg
                                         /\ client[c] \in {"waiting", "gone"}
           mine(c) == <<pending_task[c], client[c], res[c], request[c], reply[c],
                        child[c]>>
<1>o. (\A c \in Clients : OneInv(c)) /\ (MessageInv' <=> \A c \in Clients : OneInv(c)')
  BY <1>0 DEF MessageInv
<1> SUFFICES ASSUME NEW c \in Clients,
                    \/ Parent(c) \/ Child(c) \/ Reads(c) \/ User(c)
             PROVE  OneInv(c)' /\ RightResult' /\ \A d \in Clients \ {c} : mine(d)' = mine(d)
  <2>1. CASE UNCHANGED vars
    BY <1>o, <1>0, <2>1 DEF vars, clients, RightResult
  <2>2. ASSUME NEW c \in Clients, OneInv(c)', \A d \in Clients \ {c} : mine(d)' = mine(d)
        PROVE  \A d \in Clients : OneInv(d)'
    <3>1. ASSUME NEW d \in Clients, mine(d)' = mine(d) PROVE OneInv(d)'
      BY <3>1, <1>o
    <3> QED BY <2>2, <3>1
  <2> HIDE DEF OneInv, mine
  <2> QED BY <1>o, <2>1, <2>2 DEF Next
<1>c. OneInv(c) /\ (request[c] # NoMsg => client[c] \in {"waiting", "gone"})
  BY <1>o, <1>t
<1> HIDE DEF IInv
<1>1. CASE Accept(c) \/ AcceptFails(c)
  BY <1>0, <1>t, <1>1, <1>c DEF Accept, AcceptFails, clients, RightResult
<1>2. CASE HandOut(c)
  <2>1. /\ Answer(c, [type |-> "Task", task |-> TQ.tasks[TQ.front]])
        /\ pending_task' = [pending_task EXCEPT ![c] = TQ.tasks[TQ.front]]
        /\ request[c] # NoMsg /\ child[c] = "serving"
        /\ UNCHANGED <<client, res, results, child>>
    BY <1>2, MsgType DEF HandOut, Serves, clients
  <2> QED BY <2>1, <1>0, <1>t, <1>c, MsgType DEF Answer, RightResult
<1>12. CASE NothingToHandOut(c)
  <2>1. /\ request' = [request EXCEPT ![c] = NoMsg]
        /\ child' = [child EXCEPT ![c] = "refusing"]
        /\ request[c] # NoMsg
        /\ UNCHANGED <<client, res, results, pending_task, reply>>
    BY <1>12, MsgType DEF NothingToHandOut, Serves, clients
  <2> QED BY <2>1, <1>0, <1>t, <1>c, MsgType DEF RightResult
<1>13. CASE RefuseTask(c)
  <2>1. /\ reply' = [reply EXCEPT ![c] = Msg("NOT_AVAILABLE")]
        /\ child' = [child EXCEPT ![c] = "serving"]
        /\ child[c] = "refusing"
        /\ UNCHANGED <<client, res, results, pending_task, request>>
    BY <1>13 DEF RefuseTask, clients
  <2> QED BY <2>1, <1>0, <1>t, <1>c, MsgType DEF RightResult
<1>3. CASE StillPending(c) \/ RefuseResult(c)
  <2>1. PICK x \in {"PENDING_TASK", "Request a new task first"} :
           Answer(c, Msg(x))
    BY <1>3 DEF StillPending, RefuseResult
  <2>2. /\ request[c] # NoMsg /\ child[c] = "serving"
        /\ UNCHANGED <<client, res, results, pending_task, child>>
    BY <1>3, MsgType DEF StillPending, RefuseResult, Serves, clients
  <2>3. reply[c] = NoMsg /\ Msg(x).type # "Task"
    BY <2>1, <2>2, <1>c, MsgType
  <2> QED BY <2>1, <2>2, <2>3, <1>0, <1>t, <1>c, MsgType DEF Answer, RightResult
<1>4. CASE TakeResult(c)
  <2>1. /\ Answer(c, Msg("Result received"))
        /\ pending_task' = [pending_task EXCEPT ![c] = None]
        /\ request[c] # NoMsg /\ request[c].res = pending_task[c]
        /\ pending_task[c] \in Tasks
        /\ results' = [results EXCEPT ![pending_task[c]] = request[c].res]
        /\ child[c] = "serving"
        /\ UNCHANGED <<client, res, child>>
    BY <1>4, <1>c, <1>t, MsgType DEF TakeResult, Serves, clients
  <2>2. RightResult'
    BY <2>1, <1>0, <1>t DEF RightResult
  <2> QED BY <2>1, <2>2, <1>0, <1>t, <1>c, MsgType DEF Answer
<1>5. CASE StopServing(c)
  <2>1. /\ request' = [request EXCEPT ![c] = NoMsg]
        /\ child' = [child EXCEPT ![c] = "leaving"]
        /\ UNCHANGED <<client, res, results, pending_task, reply>>
    BY <1>5 DEF StopServing, clients
  <2> QED BY <2>1, <1>0, <1>t, <1>c, MsgType DEF RightResult
<1>6. CASE ChildExits(c)
  <2>1. /\ pending_task' = [pending_task EXCEPT ![c] = None]
        /\ child' = [child EXCEPT ![c] = "exited"]
        /\ UNCHANGED <<client, res, results, request, reply>>
    BY <1>6 DEF ChildExits, clients
  <2> QED BY <2>1, <1>0, <1>t, <1>c DEF RightResult
<1>7. CASE ReadReply(c)
  <2>1. /\ reply[c] # NoMsg /\ request[c] = NoMsg /\ client[c] = "waiting"
        /\ reply' = [reply EXCEPT ![c] = NoMsg]
        /\ res' = [res EXCEPT ![c] = IF reply[c].type = "Task"
                                     THEN reply[c].task ELSE @]
        /\ UNCHANGED <<results, pending_task, child>>
    BY <1>7, <1>c DEF ReadReply
  <2>2. CASE reply[c].type = "NOT_AVAILABLE"
    <3>1. /\ request' = [request EXCEPT ![c] = Msg("exit")]
          /\ client' = [client EXCEPT ![c] = "gone"]
      BY <1>7, <2>2 DEF ReadReply
    <3> QED BY <2>1, <3>1, <1>0, <1>t, <1>c, MsgType DEF RightResult
  <2>3. CASE reply[c].type # "NOT_AVAILABLE"
    <3>1. client' = [client EXCEPT ![c] = "menu"] /\ request' = request
      BY <1>7, <2>3 DEF ReadReply
    <3> QED BY <2>1, <3>1, <1>0, <1>t, <1>c, MsgType DEF RightResult
  <2> QED BY <2>2, <2>3
<1>8. CASE ReadEnd(c) \/ Killed(c)
  <2>1. /\ client' = [client EXCEPT ![c] = "gone"]
        /\ client[c] \in {"menu", "waiting"}
        /\ UNCHANGED <<res, results, pending_task, request, reply, child>>
    BY <1>8 DEF ReadEnd, Killed
  <2> QED BY <2>1, <1>0, <1>t, <1>c DEF RightResult
<1>9. CASE Connect(c)
  BY <1>9, <1>0, <1>t, <1>c DEF Connect, RightResult
<1>10. CASE Ask(c)
  <2>1. PICK msg \in {Msg("GET_TASK"), [type |-> "RESULT", res |-> res[c]]} :
           request' = [request EXCEPT ![c] = msg]
    BY <1>10 DEF Ask
  <2>2. /\ client' = [client EXCEPT ![c] = "waiting"]
        /\ request[c] = NoMsg /\ reply[c] = NoMsg /\ client[c] = "menu"
        /\ UNCHANGED <<res, results, pending_task, reply, child>>
    BY <1>10, <1>c DEF Ask
  <2>3. msg.type = "RESULT" => msg.res = res[c]
    BY <2>1, MsgType
  <2> QED BY <2>1, <2>2, <2>3, <1>0, <1>t, <1>c, MsgType DEF RightResult
<1>11. CASE SayExit(c)
  BY <1>11, <1>0, <1>t, <1>c, MsgType DEF SayExit, RightResult
<1> QED BY <1>1, <1>2, <1>3, <1>4, <1>5, <1>6, <1>7, <1>8, <1>9, <1>10, <1>11,
        <1>12, <1>13 DEF Parent, Child, Reads, User

-----------------------------------------------------------------------------
(* The theorems *)

\* What a child has missed, it has missed because it was put back.
LEMMA RefusalKept ==
    ASSUME Lines < MAXTASKS, IInv, [Next]_vars
    PROVE  RefusalInv'
<1>0. /\ TypeOK /\ QueueInv /\ NoneLost /\ RefusalInv /\ None \notin Tasks
      /\ child \in [Clients -> {"none", "serving", "refusing", "leaving", "exited"}]
      /\ pending_task \in [Clients -> Tasks \cup {None}]
      /\ back \in [Clients -> SUBSET Tasks]
  BY SlotsType DEF IInv, PlaceInv, TypeOK, Tasks, None
<1>1. ASSUME UNCHANGED <<pending_task, results, back>>,
             \A c \in Clients : child'[c] = "refusing" => child[c] = "refusing"
      PROVE  RefusalInv'
  BY <1>0, <1>1 DEF RefusalInv, Holders
<1>2. ASSUME NEW c \in Clients, HandOut(c) PROVE RefusalInv'
  <2>1. /\ pending_task[c] = None /\ UNCHANGED <<child, results, back>>
        /\ pending_task' = [pending_task EXCEPT ![c] = TQ.tasks[TQ.front]]
    BY <1>2 DEF HandOut
  <2>2. \A t \in Tasks : Holders(t) # {} => Holders(t)' # {}
    BY <1>0, <2>1 DEF Holders
  <2> QED BY <1>0, <2>1, <2>2 DEF RefusalInv
<1>3. ASSUME NEW c \in Clients, NothingToHandOut(c) PROVE RefusalInv'
  <2>1. /\ child' = [child EXCEPT ![c] = "refusing"]
        /\ UNCHANGED <<pending_task, results, back>>
    BY <1>3 DEF NothingToHandOut
  <2>2. Used = {}
    BY <1>0, <1>3, EmptyRing, UsedIsFrom DEF NothingToHandOut, Empty, TypeOK
  <2>3. \A t \in Tasks : results[t] # None \/ Holders(t) # {}
    BY <1>0, <2>2 DEF NoneLost, Holders
  <2> QED BY <1>0, <2>1, <2>3 DEF RefusalInv, Holders
<1>4. ASSUME NEW c \in Clients, RefuseTask(c) PROVE RefusalInv'
  <2>1. /\ child' = [child EXCEPT ![c] = "serving"]
        /\ back' = [back EXCEPT ![c] = {}]
        /\ UNCHANGED <<pending_task, results>>
    BY <1>4 DEF RefuseTask
  <2> QED BY <1>0, <2>1 DEF RefusalInv, Holders
<1>5. ASSUME NEW c \in Clients, TakeResult(c) PROVE RefusalInv'
  <2>1. PICK u \in Tasks : u = pending_task[c]
    BY <1>0, <1>5 DEF TakeResult
  <2>2. /\ pending_task' = [pending_task EXCEPT ![c] = None]
        /\ results' = [results EXCEPT ![u] = request[c].res]
        /\ UNCHANGED <<child, back>>
    BY <1>5, <2>1 DEF TakeResult
  <2>3. \A t \in Tasks : t # u => results'[t] = results[t]
    BY <2>2, <1>0 DEF TypeOK
  <2>4. results'[u] # None
    <3>1. request[c] \in Requests /\ request[c].type = "RESULT"
      BY <1>0, <1>5, MsgType DEF TakeResult, Serves, TypeOK
    <3>2. request[c].res \in 0 .. Lines
      BY <3>1, MessageTypes
    <3>4. None \notin 0 .. Lines
      BY TaskQueueAssumption DEF None, TaskQueueAssumption
    <3>3. results \in [Tasks -> 0 .. Lines \cup {None}]
      BY <1>0 DEF TypeOK
    <3> QED BY <2>2, <3>2, <3>3, <3>4
  <2>5. \A t \in Tasks : t # u /\ Holders(t) # {} => Holders(t)' # {}
    BY <1>0, <2>1, <2>2 DEF Holders
  <2> QED BY <1>0, <2>2, <2>3, <2>4, <2>5 DEF RefusalInv
<1>6. ASSUME NEW c \in Clients, ChildExits(c), pending_task[c] # None
      PROVE  RefusalInv'
  <2>1. PICK u \in Tasks : u = pending_task[c]
    BY <1>0, <1>6
  <2>2. /\ pending_task' = [pending_task EXCEPT ![c] = None]
        /\ child' = [child EXCEPT ![c] = "exited"]
        /\ results' = results
        /\ back' = [d \in Clients |-> IF child[d] = "refusing"
                                      THEN back[d] \cup {u} ELSE back[d]]
    BY <1>6, <2>1 DEF ChildExits
  <2>3. \A t \in Tasks : t # u /\ Holders(t) # {} => Holders(t)' # {}
    BY <1>0, <2>1, <2>2 DEF Holders
  <2>4. \A d \in Clients : child'[d] = "refusing" =>
            child[d] = "refusing" /\ u \in back'[d] /\ back[d] \subseteq back'[d]
    BY <1>0, <2>2
  <2> QED BY <1>0, <2>2, <2>3, <2>4 DEF RefusalInv
<1>7. ASSUME NEW c \in Clients,
             \/ Parent(c) \/ Reads(c) \/ User(c) \/ StillPending(c) \/ RefuseResult(c)
             \/ StopServing(c) \/ (ChildExits(c) /\ pending_task[c] = None)
      PROVE  /\ UNCHANGED <<pending_task, results, back>>
             /\ \A d \in Clients : child'[d] = "refusing" => child[d] = "refusing"
  BY <1>0, <1>7 DEF Parent, Accept, AcceptFails, Reads, ReadReply, ReadEnd, User, Connect,
              Ask, SayExit, Killed, StillPending, RefuseResult, StopServing, ChildExits
<1>8. CASE UNCHANGED vars
  BY <1>1, <1>8 DEF vars
<1>9. ASSUME NEW c \in Clients, Parent(c) \/ Child(c) \/ Reads(c) \/ User(c)
      PROVE  RefusalInv'
  <2>1. CASE ChildExits(c) /\ pending_task[c] # None
    BY <1>6, <2>1
  <2>2. CASE HandOut(c) \/ NothingToHandOut(c) \/ RefuseTask(c) \/ TakeResult(c)
    BY <1>2, <1>3, <1>4, <1>5, <2>2
  <2>3. CASE \/ Parent(c) \/ Reads(c) \/ User(c) \/ StillPending(c) \/ RefuseResult(c)
             \/ StopServing(c) \/ (ChildExits(c) /\ pending_task[c] = None)
    <3>1. /\ UNCHANGED <<pending_task, results, back>>
          /\ \A d \in Clients : child'[d] = "refusing" => child[d] = "refusing"
      BY <1>7, <2>3
    <3> QED BY <1>1, <3>1
  <2>4. ChildExits(c) => (ChildExits(c) /\ pending_task[c] # None)
                         \/ (ChildExits(c) /\ pending_task[c] = None)
    OBVIOUS
  <2>5. CASE Parent(c) \/ Reads(c) \/ User(c)
    BY <2>3, <2>5
  <2>6. CASE Child(c)
    <3>1. \/ HandOut(c) \/ NothingToHandOut(c) \/ RefuseTask(c) \/ TakeResult(c)
          \/ StillPending(c) \/ RefuseResult(c) \/ StopServing(c) \/ ChildExits(c)
      BY <2>6 DEF Child
    <3> QED BY <2>1, <2>2, <2>3, <2>4, <3>1
  <2> QED BY <1>9, <2>5, <2>6
<1> QED BY <1>8, <1>9 DEF Next

LEMMA NextKeeps == ASSUME Lines < MAXTASKS, IInv, [Next]_vars PROVE IInv'
  BY TypeKept, PlaceKept, MessagesKept, RefusalKept DEF IInv, PlaceInv

\* The invariant that the theorems below rest on.
THEOREM Invariance == ASSUME Lines < MAXTASKS PROVE Spec => []IInv
<1>1. Init => IInv
  BY InitHolds
<1>2. IInv /\ [Next]_vars => IInv'
  BY NextKeeps
<1> QED BY <1>1, <1>2, PTL DEF Spec

\* Every variable keeps its type, the indices of the ring with it.
THEOREM TypeCorrectness == ASSUME Lines < MAXTASKS PROVE Spec => []TypeOK
<1>1. IInv => TypeOK
  BY DEF IInv
<1> QED BY <1>1, Invariance, PTL

\* However clients vanish, time out and answer late, every task is in one slot of
\* the queue, or with one child, or its result has been received.
THEOREM TasksInOnePlace == ASSUME Lines < MAXTASKS PROVE Spec => []InOnePlace
<1>1. ASSUME IInv, NEW t \in Tasks
      PROVE  Cardinality(Waiting(t)) + Cardinality(Holders(t))
                 + (IF results[t] = None THEN 0 ELSE 1) = 1
  <2>0. QueueInv /\ HolderInv /\ NoneLost /\ None \notin Tasks
    BY <1>1, SlotsType DEF IInv, PlaceInv, Tasks, None
  <2>1. \A x : Cardinality({x}) = 1
    BY FS_Singleton
  <2>2. Cardinality({}) = 0
    BY FS_EmptySet
  <2>3. CASE results[t] # None
    <3>1. Waiting(t) = {}
      BY <2>0, <2>3 DEF Waiting, QueueInv
    <3>2. Holders(t) = {}
      BY <2>0, <2>3 DEF Holders, HolderInv
    <3>3. Cardinality(Waiting(t)) = 0 /\ Cardinality(Holders(t)) = 0
      BY <2>2, <3>1, <3>2
    <3> QED BY <2>3, <3>3
  <2>4. CASE results[t] = None /\ \E s \in Used : TQ.tasks[s] = t
    <3>1. PICK s \in Used : TQ.tasks[s] = t
      BY <2>4
    <3>2. Waiting(t) = {s}
      BY <2>0, <3>1 DEF Waiting, QueueInv
    <3>3. Holders(t) = {}
      BY <2>0, <3>1 DEF Holders, QueueInv
    <3>4. Cardinality(Waiting(t)) = 1 /\ Cardinality(Holders(t)) = 0
      BY <2>1, <2>2, <3>2, <3>3
    <3> QED BY <2>4, <3>4
  <2>5. CASE results[t] = None /\ ~\E s \in Used : TQ.tasks[s] = t
    <3>1. PICK c \in Clients : pending_task[c] = t
      BY <2>0, <2>5 DEF NoneLost
    <3>2. Waiting(t) = {}
      BY <2>5 DEF Waiting
    <3>3. Holders(t) = {c}
      BY <2>0, <3>1 DEF Holders, HolderInv
    <3>4. Cardinality(Waiting(t)) = 0 /\ Cardinality(Holders(t)) = 1
      BY <2>1, <2>2, <3>2, <3>3
    <3> QED BY <2>5, <3>4
  <2> QED BY <2>3, <2>4, <2>5
<1>2. IInv => InOnePlace
  BY <1>1 DEF InOnePlace
<1> QED BY <1>2, Invariance, PTL

\* A result that a child takes for the result of its pending task is that.
THEOREM ResultsAreRight == ASSUME Lines < MAXTASKS PROVE Spec => []RightResult
<1>1. IInv => RightResult
  BY DEF IInv
<1> QED BY <1>1, Invariance, PTL

\* No client is told that no task is available while one is in the queue, except for
\* one that was put back after its child had seen the queue empty.
THEOREM NoneAvailable == ASSUME Lines < MAXTASKS PROVE Spec => NoneMeansNone
<1> DEFINE Said ==
        \A c \in Clients :
            reply'[c] # reply[c] /\ reply'[c] = Msg("NOT_AVAILABLE")
                => \A t \in Tasks : \/ results[t] # None
                                    \/ Holders(t) # {}
                                    \/ t \in back[c]
<1>1. IInv /\ [Next]_vars => [Said]_vars
  <2> SUFFICES ASSUME IInv, Next,
                      NEW d \in Clients, reply'[d] # reply[d],
                      reply'[d] = Msg("NOT_AVAILABLE")
               PROVE  child[d] = "refusing"
    BY DEF IInv, RefusalInv
  <2>0. reply \in [Clients -> Replies \cup {NoMsg}]
    BY DEF IInv, TypeOK
  <2>1. PICK c \in Clients : Parent(c) \/ Child(c) \/ Reads(c) \/ User(c)
    BY DEF Next
  <2>2. RefuseTask(c)
    <3>1. ~ReadReply(c)
      BY <2>0, MsgType DEF ReadReply
    <3>2. ASSUME NEW x, x.type # "NOT_AVAILABLE" PROVE ~Answer(c, x)
      BY <2>0, <3>2, MsgType DEF Answer
    <3>3. ~HandOut(c) /\ ~StillPending(c) /\ ~RefuseResult(c) /\ ~TakeResult(c)
      BY <3>2, MsgType DEF HandOut, StillPending, RefuseResult, TakeResult
    <3> QED BY <2>1, <3>1, <3>3
            DEF Parent, Accept, AcceptFails, Child, NothingToHandOut, StopServing,
                ChildExits, Reads, ReadEnd, User, Connect, Ask, SayExit, Killed
  <2> QED BY <2>0, <2>2 DEF RefuseTask
<1> QED BY <1>1, Invariance, PTL DEF Spec, NoneMeansNone

-----------------------------------------------------------------------------
(* The refinement of TaskPool *)

\* What the pool sees of a task.
StatusFacts ==
    \A t \in Tasks :
        /\ results[t] # None => Status(t) = "done"
        /\ \A c \in Clients : pending_task[c] = t => Status(t) = c
        /\ \A s \in Used : TQ.tasks[s] = t => Status(t) = "waiting"
        /\ \/ results[t] # None
           \/ \E c \in Clients : pending_task[c] = t
           \/ \E s \in Used : TQ.tasks[s] = t

LEMMA StatusValue == IInv => StatusFacts
<1> SUFFICES ASSUME IInv, NEW t \in Tasks
             PROVE  /\ results[t] # None => Status(t) = "done"
                    /\ \A c \in Clients : pending_task[c] = t => Status(t) = c
                    /\ \A s \in Used : TQ.tasks[s] = t => Status(t) = "waiting"
                    /\ \/ results[t] # None
                       \/ \E c \in Clients : pending_task[c] = t
                       \/ \E s \in Used : TQ.tasks[s] = t
  BY DEF StatusFacts
<1>0. QueueInv /\ HolderInv /\ NoneLost /\ None \notin Tasks
  BY SlotsType DEF IInv, PlaceInv, Tasks, None
<1>1. ASSUME NEW c \in Clients, pending_task[c] = t PROVE Status(t) = c
  <2>1. Holders(t) = {c} /\ results[t] = None
    BY <1>0, <1>1 DEF Holders, HolderInv
  <2> QED BY <2>1 DEF Status
<1>2. ASSUME NEW s \in Used, TQ.tasks[s] = t PROVE Status(t) = "waiting"
  <2>1. Holders(t) = {} /\ results[t] = None /\ Waiting(t) # {}
    BY <1>0, <1>2 DEF Holders, Waiting, QueueInv
  <2> QED BY <2>1 DEF Status
<1>3. results[t] # None => Status(t) = "done"
  BY DEF Status
<1> QED BY <1>0, <1>1, <1>2, <1>3 DEF NoneLost

\* The server implements TaskPool: every task is waiting, with one client or done,
\* a client has one at a time, and a task that is done stays so.
THEOREM ImplementsPool == ASSUME Lines < MAXTASKS PROVE Spec => PoolSpec
<1> DEFINE Seen == [t \in Tasks |-> Status(t)]
<1>a. {"waiting", "done", "lost"} \cap Clients = {}
  BY TaskQueueAssumption
<1>1. Init => Pool!PoolInit
  <2> SUFFICES ASSUME Init PROVE \A t \in Tasks : Status(t) = "waiting"
    BY DEF Pool!PoolInit
  <2>1. IInv
    BY InitHolds
  <2>2. \A t \in Tasks : results[t] = None
    BY DEF Init
  <2>3. \A t \in Tasks, c \in Clients : pending_task[c] # t
    BY SlotsType DEF Init, Tasks, None
  <2> QED BY <2>1, <2>2, <2>3, StatusValue DEF StatusFacts
<1>p. IInv' => StatusFacts'
  BY StatusValue, PTL
<1>2. ASSUME IInv, IInv', [Next]_vars PROVE [Pool!PoolNext]_Seen
  <2>0. /\ QueueInv /\ HolderInv /\ NoneLost /\ TypeOK /\ None \notin Tasks
        /\ pending_task \in [Clients -> Tasks \cup {None}]
    BY <1>2, SlotsType DEF IInv, PlaceInv, TypeOK, Tasks, None
  <2>f. StatusFacts /\ StatusFacts'
    BY <1>2, <1>p, StatusValue
  <2>1. CASE UNCHANGED <<TQ, pending_task, results>>
    <3>1. ASSUME NEW t \in Tasks PROVE Status(t)' = Status(t)
      BY <2>1 DEF Status, Holders, Waiting, Used
    <3> QED BY <3>1
  <2>2. ASSUME NEW c \in Clients, HandOut(c) PROVE Pool!PoolNext
    <3>1. PICK t \in Tasks : t = TQ.tasks[TQ.front] /\ TQ.front \in Used
      BY <2>0, <2>2, FrontIsTask DEF HandOut
    <3>2. /\ pending_task[c] = None /\ results' = results
          /\ pending_task' = [pending_task EXCEPT ![c] = t]
      BY <2>2, <3>1 DEF HandOut
    <3>3. Status(t) = "waiting" /\ Status(t)' = c
      <4>1. pending_task'[c] = t
        BY <2>0, <3>2
      <4> QED BY <2>f, <3>1, <4>1 DEF StatusFacts
    <3>4. \A u \in Tasks : Status(u) # c
      BY <2>f, <1>a, <3>2, <2>0 DEF StatusFacts
    <3>5. ASSUME NEW u \in Tasks, u # t PROVE Status(u)' = Status(u)
      <4>1. \A d \in Clients : pending_task[d] = u => pending_task'[d] = u
        BY <2>0, <3>2
      <4>2. \A d \in Clients : pending_task'[d] = u => pending_task[d] = u
        BY <2>0, <3>2, <3>5
      <4>3. CASE results[u] # None \/ \E d \in Clients : pending_task[d] = u
        BY <2>f, <3>2, <4>1, <4>3 DEF StatusFacts
      <4>4. CASE results[u] = None /\ \A d \in Clients : pending_task[d] # u
        BY <2>f, <3>2, <4>2, <4>4 DEF StatusFacts
      <4> QED BY <4>3, <4>4
    <3>6. Seen' = [Seen EXCEPT ![t] = c]
      BY <3>1, <3>3, <3>5
    <3>7. Pool!Give(t, c)
      BY <3>1, <3>3, <3>4, <3>6 DEF Pool!Give
    <3> QED BY <3>1, <3>7 DEF Pool!PoolNext
  <2>g. ASSUME NEW c \in Clients, pending_task[c] # None,
               pending_task' = [pending_task EXCEPT ![c] = None],
               \A u \in Tasks : u # pending_task[c] => results'[u] = results[u]
        PROVE  /\ pending_task[c] \in Tasks
               /\ Status(pending_task[c]) = c
               /\ \A d \in Clients : pending_task'[d] # pending_task[c]
               /\ \A u \in Tasks \ {pending_task[c]} : Status(u)' = Status(u)
    <3>1. \A d \in Clients : pending_task'[d] = IF d = c THEN None ELSE pending_task[d]
      BY <2>0, <2>g
    <3>2. pending_task[c] \in Tasks /\ Status(pending_task[c]) = c
      BY <2>0, <2>f, <2>g DEF StatusFacts
    <3>3. \A d \in Clients : pending_task'[d] # pending_task[c]
      BY <2>0, <2>g, <3>1, <3>2 DEF HolderInv
    <3>4. ASSUME NEW u \in Tasks, u # pending_task[c] PROVE Status(u)' = Status(u)
      <4>1. \A d \in Clients : pending_task'[d] = u <=> pending_task[d] = u
        BY <2>0, <3>1, <3>4
      <4>2. CASE results[u] # None \/ \E d \in Clients : pending_task[d] = u
        BY <2>f, <2>g, <3>4, <4>1, <4>2 DEF StatusFacts
      <4>3. CASE results[u] = None /\ \A d \in Clients : pending_task[d] # u
        BY <2>f, <2>g, <3>4, <4>1, <4>3 DEF StatusFacts
      <4> QED BY <4>2, <4>3
    <3> QED BY <3>2, <3>3, <3>4
  <2>3. ASSUME NEW c \in Clients, TakeResult(c) PROVE Pool!PoolNext
    <3>0. PICK t \in Tasks : t = pending_task[c]
      BY <2>0, <2>3 DEF TakeResult
    <3>1. /\ results \in [Tasks -> 0 .. Lines \cup {None}]
          /\ results' = [results EXCEPT ![t] = request[c].res]
          /\ request[c].res \in 0 .. Lines
          /\ t # None /\ pending_task' = [pending_task EXCEPT ![c] = None]
      <4>1. request[c] \in Requests /\ request[c].type = "RESULT"
        BY <2>0, <2>3, MsgType DEF TakeResult, Serves, TypeOK
      <4> QED BY <2>0, <2>3, <3>0, <4>1, MessageTypes DEF TakeResult, TypeOK
    <3>2. \A u \in Tasks : u # t => results'[u] = results[u]
      BY <3>1
    <3>3. /\ Status(t) = c
          /\ \A u \in Tasks \ {t} : Status(u)' = Status(u)
      BY <2>g, <3>0, <3>1, <3>2
    <3>4. results'[t] # None
      BY <3>1, <3>3, SlotsType DEF None
    <3>5. Status(t)' = "done"
      BY <2>f, <3>3, <3>4 DEF StatusFacts
    <3>6. Seen' = [Seen EXCEPT ![t] = "done"]
      BY <3>3, <3>5
    <3>7. Pool!Finish(t)
      BY <3>3, <3>6 DEF Pool!Finish
    <3> QED BY <3>3, <3>7 DEF Pool!PoolNext
  <2>4. ASSUME NEW c \in Clients, ChildExits(c), pending_task[c] # None
        PROVE  Pool!PoolNext
    <3>0. PICK t \in Tasks : t = pending_task[c]
      BY <2>0, <2>4
    <3>1. /\ results' = results
          /\ pending_task' = [pending_task EXCEPT ![c] = None]
      BY <2>4 DEF ChildExits
    <3>2. /\ Status(t) = c
          /\ \A d \in Clients : pending_task'[d] # t
          /\ \A u \in Tasks \ {t} : Status(u)' = Status(u)
      BY <2>g, <2>4, <3>0, <3>1
    <3>3. Status(t)' = "waiting"
      <4>1. results'[t] = None
        BY <2>0, <2>4, <3>0, <3>1 DEF HolderInv
      <4> QED BY <2>f, <3>2, <4>1 DEF StatusFacts
    <3>4. Seen' = [Seen EXCEPT ![t] = "waiting"]
      BY <3>2, <3>3
    <3>5. Pool!Return(t)
      BY <3>2, <3>4 DEF Pool!Return
    <3> QED BY <3>2, <3>5 DEF Pool!PoolNext
  <2>5. ASSUME NEW c \in Clients, ChildExits(c), pending_task[c] = None
        PROVE  UNCHANGED <<TQ, pending_task, results>>
    BY <2>0, <2>5 DEF ChildExits
  <2>6. ASSUME NEW c \in Clients,
               \/ Parent(c) \/ Reads(c) \/ User(c) \/ NothingToHandOut(c)
               \/ RefuseTask(c) \/ StillPending(c) \/ RefuseResult(c) \/ StopServing(c)
        PROVE  UNCHANGED <<TQ, pending_task, results>>
    BY <2>6 DEF Parent, Accept, AcceptFails, Reads, ReadReply, ReadEnd, User, Connect,
                Ask, SayExit, Killed, NothingToHandOut, RefuseTask, StillPending,
                RefuseResult, StopServing
  <2>7. CASE UNCHANGED vars
    BY <2>1, <2>7 DEF vars
  <2> QED BY <1>2, <2>1, <2>2, <2>3, <2>4, <2>5, <2>6, <2>7 DEF Next, Child
<1> QED BY <1>1, <1>2, Invariance, PTL DEF Spec, PoolSpec, Pool!PoolSpec
=============================================================================
