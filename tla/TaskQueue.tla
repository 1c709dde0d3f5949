----------------------------- MODULE TaskQueue ------------------------------
(***************************************************************************)
(* The task queue server of A5 and its worker clients.  The parent loads   *)
(* the tasks of a file into a ring in shared memory, accepts connections   *)
(* and forks a child for each; a child hands one task at a time to its     *)
(* client, and puts it back when the connection ends without a result.     *)
(*                                                                         *)
(* A section under the semaphore is one action, and what the child does    *)
(* before and after it on its own goes with it, except for the refusal: it *)
(* is sent after the semaphore is posted, and may be overtaken by a task   *)
(* that another child puts back.  The recv calls that put a message        *)
(* together are one, for a client sends whole messages.  A task is the     *)
(* number of its line, which stands for its result too.                    *)
(***************************************************************************)
EXTENDS Integers, FiniteSets

CONSTANTS
    MAXTASKS,       \* slots of the ring (100 in the code)
    Lines,          \* how many tasks the file has
    Clients         \* the client processes, each with one connection

ASSUME TaskQueueAssumption ==
    /\ MAXTASKS \in Nat \ {0}
    /\ Lines \in Nat
    /\ {"waiting", "done", "lost"} \cap Clients = {}

VARIABLES
    TQ,             \* the ring: tasks, front, rear
    server,         \* the parent: "up" or "down"
    child,          \* the child that serves each client
    pending_task,   \* the task that it has handed out, or None (id -1)
    client,         \* what each client is about
    res,            \* the result it has computed last, 0 before the first
    request,        \* the message on its way to the child, or NoMsg
    reply,          \* the message on its way to the client, or NoMsg
    results,        \* what the children have printed: a result, or None
    back            \* history: the tasks put back since a child that is about
                    \* to refuse has seen the queue empty

clients == <<client, res>>
vars == <<TQ, server, child, pending_task, clients, request, reply, results, back>>

-----------------------------------------------------------------------------

None == -1
Tasks == 1 .. Lines
Slots == 0 .. MAXTASKS - 1

NoMsg == [type |-> "nothing"]
Msg(type) == [type |-> type]
Requests == {Msg("GET_TASK"), Msg("exit")}
                \cup [type : {"RESULT"}, res : 0 .. Lines]
Replies == {Msg("NOT_AVAILABLE"), Msg("PENDING_TASK"), Msg("Result received"),
            Msg("Request a new task first")}
                \cup [type : {"Task"}, task : Tasks]

\* Fault: one task is still there.
EmptyEarly == TQ.front = TQ.rear \/ (TQ.front + 1) % MAXTASKS = TQ.rear

Empty == TQ.front = TQ.rear

\* A task goes to the rear; nobody looks whether the ring has a slot for it.
Enqueue(queue, task) ==
    [queue EXCEPT !.tasks[queue.rear] = task,
                  !.rear = (queue.rear + 1) % MAXTASKS]

\* The ring once the file is in it: line n goes to slot (n - 1) % MAXTASKS, over
\* any line that was there, so that the last line of a slot stays.
LastLine(s) == Lines - ((Lines - 1 - s) % MAXTASKS)

Loaded ==
    [tasks |-> [s \in Slots |-> IF LastLine(s) > 0 THEN LastLine(s) ELSE 0],
     front |-> 0,
     rear  |-> Lines % MAXTASKS]

-----------------------------------------------------------------------------
(* The parent *)

\* The kernel completes a connection before the parent accepts it.
Accept(c) ==
    /\ server = "up"
    /\ client[c] # "off"
    /\ child[c] = "none"
    /\ child' = [child EXCEPT ![c] = "serving"]
    /\ UNCHANGED <<TQ, server, pending_task, clients, request, reply, results, back>>

\* accept or fork fails, for instance because addr_len is never initialized:
\* the parent cleans up and ends.  The children keep what they have attached.
AcceptFails(c) ==
    /\ server = "up"
    /\ client[c] # "off"
    /\ child[c] = "none"
    /\ server' = "down"
    /\ UNCHANGED <<TQ, child, pending_task, clients, request, reply, results, back>>

-----------------------------------------------------------------------------
(* The children *)

Serves(c, type) == child[c] = "serving" /\ request[c].type = type

\* The child has read the request and sends a reply, which does not fail.
Answer(c, msg) ==
    /\ request' = [request EXCEPT ![c] = NoMsg]
    /\ reply' = [reply EXCEPT ![c] = msg]

\* Fault: front is not advanced.
HandOutKeepsTask(c) ==
    /\ Serves(c, "GET_TASK")
    /\ pending_task[c] = None
    /\ ~Empty
    /\ pending_task' = [pending_task EXCEPT ![c] = TQ.tasks[TQ.front]]
    /\ Answer(c, [type |-> "Task", task |-> TQ.tasks[TQ.front]])
    /\ UNCHANGED <<TQ, server, child, clients, results, back>>

HandOut(c) ==
    /\ Serves(c, "GET_TASK")
    /\ pending_task[c] = None
    /\ ~Empty
    /\ pending_task' = [pending_task EXCEPT ![c] = TQ.tasks[TQ.front]]
    /\ TQ' = [TQ EXCEPT !.front = (@ + 1) % MAXTASKS]
    /\ Answer(c, [type |-> "Task", task |-> TQ.tasks[TQ.front]])
    /\ UNCHANGED <<server, child, clients, results, back>>

\* The check under the semaphore, and the answer once that is posted.
NothingToHandOut(c) ==
    /\ Serves(c, "GET_TASK")
    /\ pending_task[c] = None
    /\ Empty
    /\ request' = [request EXCEPT ![c] = NoMsg]
    /\ child' = [child EXCEPT ![c] = "refusing"]
    /\ UNCHANGED <<TQ, server, pending_task, clients, reply, results, back>>

RefuseTask(c) ==
    /\ child[c] = "refusing"
    /\ reply' = [reply EXCEPT ![c] = Msg("NOT_AVAILABLE")]
    /\ child' = [child EXCEPT ![c] = "serving"]
    /\ back' = [back EXCEPT ![c] = {}]
    /\ UNCHANGED <<TQ, server, pending_task, clients, request, results>>

StillPending(c) ==
    /\ Serves(c, "GET_TASK")
    /\ pending_task[c] # None
    /\ Answer(c, Msg("PENDING_TASK"))
    /\ UNCHANGED <<TQ, server, child, pending_task, clients, results, back>>

TakeResult(c) ==
    /\ Serves(c, "RESULT")
    /\ pending_task[c] # None
    /\ results' = [results EXCEPT ![pending_task[c]] = request[c].res]
    /\ pending_task' = [pending_task EXCEPT ![c] = None]
    /\ Answer(c, Msg("Result received"))
    /\ UNCHANGED <<TQ, server, child, clients, back>>

RefuseResult(c) ==
    /\ Serves(c, "RESULT")
    /\ pending_task[c] = None
    /\ Answer(c, Msg("Request a new task first"))
    /\ UNCHANGED <<TQ, server, child, pending_task, clients, results, back>>

\* Faults: the child waits for ever; a child that gives up exits at once.
StopServingNoTimeout(c) ==
    /\ \/ Serves(c, "exit")
       \/ /\ Serves(c, "nothing")
          /\ client[c] = "gone"
    /\ child' = [child EXCEPT ![c] = "leaving"]
    /\ request' = [request EXCEPT ![c] = NoMsg]
    /\ UNCHANGED <<TQ, server, pending_task, clients, reply, results, back>>

StopServingForgets(c) ==
    \/ /\ Serves(c, "exit")
       /\ child' = [child EXCEPT ![c] = "leaving"]
       /\ request' = [request EXCEPT ![c] = NoMsg]
       /\ UNCHANGED <<TQ, server, pending_task, clients, reply, results, back>>
    \/ /\ Serves(c, "nothing")
       /\ child' = [child EXCEPT ![c] = "exited"]
       /\ pending_task' = [pending_task EXCEPT ![c] = None]
       /\ UNCHANGED <<TQ, server, clients, request, reply, results, back>>

\* The client says exit, or the connection is closed and read to its end, or
\* NO_DATA_LIMIT polls in a row find nothing.
StopServing(c) ==
    /\ Serves(c, "exit") \/ Serves(c, "nothing")
    /\ child' = [child EXCEPT ![c] = "leaving"]
    /\ request' = [request EXCEPT ![c] = NoMsg]
    /\ UNCHANGED <<TQ, server, pending_task, clients, reply, results, back>>

\* Fault: rear runs off the end of the ring.
ChildExitsNoWrap(c) ==
    /\ child[c] = "leaving"
    /\ IF pending_task[c] # None
       THEN TQ' = [TQ EXCEPT !.tasks = [s \in Slots |-> IF s = TQ.rear
                                                        THEN pending_task[c]
                                                        ELSE @[s]],
                             !.rear = @ + 1]
       ELSE UNCHANGED TQ
    /\ pending_task' = [pending_task EXCEPT ![c] = None]
    /\ child' = [child EXCEPT ![c] = "exited"]
    /\ UNCHANGED <<server, clients, request, reply, results, back>>

\* The task without a result goes back; a request that came since is lost.
ChildExits(c) ==
    /\ child[c] = "leaving"
    /\ IF pending_task[c] # None
       THEN /\ TQ' = Enqueue(TQ, pending_task[c])
            /\ back' = [d \in Clients |-> IF child[d] = "refusing"
                                          THEN back[d] \cup {pending_task[c]}
                                          ELSE back[d]]
       ELSE UNCHANGED <<TQ, back>>
    /\ pending_task' = [pending_task EXCEPT ![c] = None]
    /\ child' = [child EXCEPT ![c] = "exited"]
    /\ UNCHANGED <<server, clients, request, reply, results>>

-----------------------------------------------------------------------------
(* The clients *)

Connect(c) ==
    /\ client[c] = "off"
    /\ server = "up"
    /\ client' = [client EXCEPT ![c] = "menu"]
    /\ UNCHANGED <<TQ, server, child, pending_task, res, request, reply, results, back>>

\* Choice 1 or 2 of the menu, at any time: a message, and wait for its reply.
Ask(c) ==
    /\ client[c] = "menu"
    /\ \E msg \in {Msg("GET_TASK"), [type |-> "RESULT", res |-> res[c]]} :
          request' = [request EXCEPT ![c] = msg]
    /\ client' = [client EXCEPT ![c] = "waiting"]
    /\ UNCHANGED <<TQ, server, child, pending_task, res, reply, results, back>>

\* Choice 3.
SayExit(c) ==
    /\ client[c] = "menu"
    /\ request' = [request EXCEPT ![c] = Msg("exit")]
    /\ client' = [client EXCEPT ![c] = "gone"]
    /\ UNCHANGED <<TQ, server, child, pending_task, res, reply, results, back>>

\* Fault: every reply but NOT_AVAILABLE is taken for a task.
ReadReplyAsTask(c) ==
    /\ client[c] = "waiting"
    /\ reply[c] # NoMsg
    /\ reply' = [reply EXCEPT ![c] = NoMsg]
    /\ res' = [res EXCEPT ![c] = IF reply[c].type = "Task"
                                 THEN reply[c].task ELSE 0]
    /\ IF reply[c].type = "NOT_AVAILABLE"
       THEN /\ request' = [request EXCEPT ![c] = Msg("exit")]
            /\ client' = [client EXCEPT ![c] = "gone"]
       ELSE /\ client' = [client EXCEPT ![c] = "menu"]
            /\ UNCHANGED request
    /\ UNCHANGED <<TQ, server, child, pending_task, results, back>>

\* A task is executed at once; a client that gets none exits.
ReadReply(c) ==
    /\ client[c] = "waiting"
    /\ reply[c] # NoMsg
    /\ reply' = [reply EXCEPT ![c] = NoMsg]
    /\ res' = [res EXCEPT ![c] = IF reply[c].type = "Task"
                                 THEN reply[c].task ELSE @]
    /\ IF reply[c].type = "NOT_AVAILABLE"
       THEN /\ request' = [request EXCEPT ![c] = Msg("exit")]
            /\ client' = [client EXCEPT ![c] = "gone"]
       ELSE /\ client' = [client EXCEPT ![c] = "menu"]
            /\ UNCHANGED request
    /\ UNCHANGED <<TQ, server, child, pending_task, results, back>>

\* Fault: recv_until_null goes on when recv returns 0.
ReadEndOnlyReset(c) ==
    /\ client[c] = "waiting"
    /\ reply[c] = NoMsg
    /\ server = "down" /\ child[c] = "none"
    /\ client' = [client EXCEPT ![c] = "gone"]
    /\ UNCHANGED <<TQ, server, child, pending_task, res, request, reply, results, back>>

\* The connection ends before a reply: the child has closed it, or the parent
\* ended before it accepted it.
ReadEnd(c) ==
    /\ client[c] = "waiting"
    /\ reply[c] = NoMsg
    /\ \/ child[c] = "exited"
       \/ server = "down" /\ child[c] = "none"
    /\ client' = [client EXCEPT ![c] = "gone"]
    /\ UNCHANGED <<TQ, server, child, pending_task, res, request, reply, results, back>>

\* The user kills a client.
Killed(c) ==
    /\ client[c] \in {"menu", "waiting"}
    /\ client' = [client EXCEPT ![c] = "gone"]
    /\ UNCHANGED <<TQ, server, child, pending_task, res, request, reply, results, back>>

-----------------------------------------------------------------------------

Init ==
    /\ TQ = Loaded
    /\ server = "up"
    /\ child = [c \in Clients |-> "none"]
    /\ pending_task = [c \in Clients |-> None]
    /\ client = [c \in Clients |-> "off"]
    /\ res = [c \in Clients |-> 0]
    /\ request = [c \in Clients |-> NoMsg]
    /\ reply = [c \in Clients |-> NoMsg]
    /\ results = [t \in Tasks |-> None]
    /\ back = [c \in Clients |-> {}]

Parent(c) == Accept(c) \/ AcceptFails(c)

Child(c) ==
    \/ HandOut(c)
    \/ NothingToHandOut(c)
    \/ RefuseTask(c)
    \/ StillPending(c)
    \/ TakeResult(c)
    \/ RefuseResult(c)
    \/ StopServing(c)
    \/ ChildExits(c)

Reads(c) == ReadReply(c) \/ ReadEnd(c)

User(c) ==
    \/ Connect(c)
    \/ Ask(c)
    \/ SayExit(c)
    \/ Killed(c)

Next == \E c \in Clients : Parent(c) \/ Child(c) \/ Reads(c) \/ User(c)

Spec == Init /\ [][Next]_vars

-----------------------------------------------------------------------------
(* Safety *)

\* Every variable keeps its type, whatever the clients do: front and rear stay within
\* the ring, and what is handed out is a task.
TypeOK ==
    /\ TQ \in [tasks : [Slots -> 0 .. Lines], front : Slots, rear : Slots]
    /\ server \in {"up", "down"}
    /\ child \in [Clients -> {"none", "serving", "refusing", "leaving", "exited"}]
    /\ pending_task \in [Clients -> Tasks \cup {None}]
    /\ client \in [Clients -> {"off", "menu", "waiting", "gone"}]
    /\ res \in [Clients -> 0 .. Lines]
    /\ request \in [Clients -> Requests \cup {NoMsg}]
    /\ reply \in [Clients -> Replies \cup {NoMsg}]
    /\ results \in [Tasks -> 0 .. Lines \cup {None}]
    /\ back \in [Clients -> SUBSET Tasks]

\* The slots from front to rear.
Used == {s \in Slots : (s - TQ.front) % MAXTASKS < (TQ.rear - TQ.front) % MAXTASKS}
Waiting(t) == {s \in Used : TQ.tasks[s] = t}
Holders(t) == {c \in Clients : pending_task[c] = t}

\* However clients vanish, time out and answer late, a task is in one place: in
\* one slot of the queue, or with one child, or its result has been received.
InOnePlace ==
    \A t \in Tasks :
        Cardinality(Waiting(t)) + Cardinality(Holders(t))
            + (IF results[t] = None THEN 0 ELSE 1) = 1

\* A result that a child takes for the result of its pending task is that: not
\* one of an earlier task that the client still has.
RightResult == \A t \in Tasks : results[t] \in {None, t}

\* "No tasks available" is only said for want of tasks: when it is sent, each is
\* done, or with a child whose client may still finish it, or was put back by
\* another child after this one had seen the queue empty.
NoneMeansNone ==
    [][\A c \in Clients :
          reply'[c] # reply[c] /\ reply'[c] = Msg("NOT_AVAILABLE")
              => \A t \in Tasks : \/ results[t] # None
                                  \/ Holders(t) # {}
                                  \/ t \in back[c]]_vars

\* The server keeps the promise of TaskPool.
Status(t) ==
    IF results[t] # None THEN "done"
    ELSE IF Holders(t) # {} THEN CHOOSE c \in Holders(t) : TRUE
    ELSE IF Waiting(t) # {} THEN "waiting" ELSE "lost"

Pool == INSTANCE TaskPool WITH status <- [t \in Tasks |-> Status(t)]
PoolSpec == Pool!PoolSpec

-----------------------------------------------------------------------------
(* Liveness *)

\* The parent and the children keep running, and a client that waits reads what
\* comes; what its user chooses, and when, is free.
Fairness ==
    \A c \in Clients :
        WF_vars(Parent(c)) /\ WF_vars(Child(c)) /\ WF_vars(Reads(c))

FairSpec == Spec /\ Fairness

\* A task does not stay with a client that is gone or silent: the result comes,
\* or the task goes back, or the client keeps asking for another for ever.
TaskComesBack ==
    \A c \in Clients :
        \/ [](pending_task[c] # None => <>(pending_task[c] = None))
        \/ []<>(client[c] = "waiting")

\* A client that has asked is answered or learns that the connection is over,
\* whatever the parent, the timeouts and the other clients do.
EveryRequestAnswered ==
    \A c \in Clients : client[c] = "waiting" ~> client[c] # "waiting"
=============================================================================
