-------------------------------- MODULE Cldp --------------------------------
(***************************************************************************)
(* The discovery client of A7 and the servers it finds.  A server          *)
(* broadcasts HELLO and answers QUERY; the client keeps a list of servers  *)
(* and one of the requests it has sent.  Its main thread receives, its     *)
(* thread Query drops inactive servers and queries the others.  The mutex  *)
(* lmtx protects the lists, but main uses a request it has found, and      *)
(* Query one it has added, after it has released the mutex, and Query      *)
(* walks the servers without it.                                           *)
(*                                                                         *)
(* A section under the mutex is one action.  A list is a sequence of nodes *)
(* and a node is an address in memory, which malloc may give out again     *)
(* once it is free.  Of lastHello, it matters whether it is more than      *)
(* INACTIVETIME ago.                                                       *)
(***************************************************************************)
EXTENDS Integers, SequencesExt

CONSTANTS
    Servers,        \* the hosts that may run a server
    Heap,           \* bound: the nodes that fit in memory
    MaxQueries      \* bound: the requests that are sent

ASSUME CldpAssumption == MaxQueries \in Nat /\ "NULL" \notin Heap

VARIABLES
    up,             \* the servers that are running
    network,        \* the packets under way
    mem,            \* what each node holds
    server_head,    \* the list of servers
    idll_head,      \* the list of requests
    trans_id,       \* the last transaction number
    m_pc,           \* main: where it is
    packet,         \* the RESPONSE that it works on
    idNode,         \* the request that it has found for it, or NULL
    q_pc,           \* Query: where it is
    temp,           \* the server that it is at, or NULL
    request         \* the request that it has added for it, or NULL

lists == <<mem, server_head, idll_head, trans_id>>
main  == <<m_pc, packet, idNode>>
query == <<q_pc, temp, request>>
vars  == <<up, network, lists, main, query>>

-----------------------------------------------------------------------------

NULL == "NULL"
Ids == 1 .. MaxQueries

HELLO(s) == [type |-> "HELLO", server |-> s]

\* What the field trans_id of a node that is no request any more reads as: half a
\* pointer or an address, which is the number of no request.
Garbage == -1
Exchange == [type : {"QUERY", "RESPONSE"}, server : Servers,
             trans_id : Ids \cup {Garbage}]
Packets == {HELLO(s) : s \in Servers} \cup Exchange
NoPacket == [type |-> "nothing"]

FreeNode == [kind |-> "free"]
ServerNodes == [kind : {"server"}, addr : Servers, stale : BOOLEAN]
IdNodes == [kind : {"id"}, trans_id : Ids, server : Heap]

FreeNodes == {n \in Heap : mem[n] = FreeNode}

TransIdAt(n) == IF mem[n].kind = "id" THEN mem[n].trans_id ELSE Garbage

\* The nodes of the list of servers that are for server s.
Listed(s) == {n \in ToSet(server_head) : mem[n].addr = s}

FirstServer == IF server_head = <<>> THEN NULL ELSE Head(server_head)

\* A list without the nodes of a set, in the same order.
Without(list, nodes) ==
    LET from[k \in 0 .. Len(list)] ==
            IF k = 0 THEN <<>>
            ELSE IF list[k] \in nodes THEN from[k - 1]
            ELSE Append(from[k - 1], list[k])
    IN  from[Len(list)]

Crashed == m_pc = "crashed"

-----------------------------------------------------------------------------
(* The servers *)

StartOrStop(s) ==
    /\ up' = IF s \in up THEN up \ {s} ELSE up \cup {s}
    /\ UNCHANGED <<network, lists, main, query>>

Broadcast(s) ==
    /\ s \in up
    /\ network' = network \cup {HELLO(s)}
    /\ UNCHANGED <<up, lists, main, query>>

\* Fault: trans_id is read from the buffer after it has been cleared.
RespondCleared(s) ==
    /\ s \in up
    /\ \E p \in network :
         /\ p.type = "QUERY" /\ p.server = s
         /\ network' = (network \ {p})
                          \cup {[p EXCEPT !.type = "RESPONSE", !.trans_id = 0]}
    /\ UNCHANGED <<up, lists, main, query>>

Respond(s) ==
    /\ s \in up
    /\ \E p \in network :
         /\ p.type = "QUERY" /\ p.server = s
         /\ network' = (network \ {p}) \cup {[p EXCEPT !.type = "RESPONSE"]}
    /\ UNCHANGED <<up, lists, main, query>>

Lose ==
    /\ \E p \in network : network' = network \ {p}
    /\ UNCHANGED <<up, lists, main, query>>

\* Time passes since the last HELLO of a server on the list.  What passes after
\* removeInactiveServers has read the clock does not count before the next round.
Age(s) ==
    /\ ~Crashed
    /\ q_pc # "remove"
    /\ \E n \in Listed(s) :
         /\ ~mem[n].stale
         /\ mem' = [mem EXCEPT ![n].stale = TRUE]
    /\ UNCHANGED <<up, network, server_head, idll_head, trans_id, main, query>>

-----------------------------------------------------------------------------
(* The main thread of the client *)

\* Fault: addNode looks no further than the head of the list.
ReceiveHelloHeadOnly(s) ==
    /\ m_pc = "receive"
    /\ HELLO(s) \in network
    /\ network' = network \ {HELLO(s)}
    /\ \/ /\ FirstServer \in Listed(s)
          /\ mem' = [mem EXCEPT ![FirstServer].stale = FALSE]
          /\ UNCHANGED server_head
       \/ /\ FirstServer \notin Listed(s)
          /\ \E n \in FreeNodes :
               /\ mem' = [mem EXCEPT ![n] =
                            [kind |-> "server", addr |-> s, stale |-> FALSE]]
               /\ server_head' = <<n>> \o server_head
    /\ UNCHANGED <<up, idll_head, trans_id, main, query>>

\* Fault: only the first server is ever put on the list.
ReceiveHelloFirstOnly(s) ==
    /\ m_pc = "receive"
    /\ HELLO(s) \in network
    /\ network' = network \ {HELLO(s)}
    /\ \/ /\ Listed(s) # {}
          /\ mem' = [n \in Heap |-> IF n \in Listed(s)
                                    THEN [mem[n] EXCEPT !.stale = FALSE]
                                    ELSE mem[n]]
          /\ UNCHANGED server_head
       \/ /\ server_head = <<>>
          /\ \E n \in FreeNodes :
               /\ mem' = [mem EXCEPT ![n] =
                            [kind |-> "server", addr |-> s, stale |-> FALSE]]
               /\ server_head' = <<n>>
       \/ Listed(s) = {} /\ server_head # <<>> /\ UNCHANGED <<mem, server_head>>
    /\ UNCHANGED <<up, idll_head, trans_id, main, query>>

\* addNode: a server on the list is refreshed, another is put at its head.
ReceiveHello(s) ==
    /\ m_pc = "receive"
    /\ HELLO(s) \in network
    /\ network' = network \ {HELLO(s)}
    /\ \/ /\ Listed(s) # {}
          /\ mem' = [n \in Heap |-> IF n \in Listed(s)
                                    THEN [mem[n] EXCEPT !.stale = FALSE]
                                    ELSE mem[n]]
          /\ UNCHANGED server_head
       \/ /\ Listed(s) = {}
          /\ \E n \in FreeNodes :
               /\ mem' = [mem EXCEPT ![n] =
                            [kind |-> "server", addr |-> s, stale |-> FALSE]]
               /\ server_head' = <<n>> \o server_head
    /\ UNCHANGED <<up, idll_head, trans_id, main, query>>

\* searchId, under the mutex.
ReceiveResponse ==
    /\ m_pc = "receive"
    /\ \E p \in network :
         /\ p.type = "RESPONSE"
         /\ network' = network \ {p}
         /\ packet' = p
         /\ LET found == {n \in ToSet(idll_head) : mem[n].trans_id = p.trans_id}
            IN  \/ found = {} /\ idNode' = NULL
                \/ idNode' \in found
    /\ m_pc' = "check"
    /\ UNCHANGED <<up, lists, query>>

Malformed ==
    /\ m_pc' = "receive"
    /\ packet' = NoPacket /\ idNode' = NULL

\* The mutex is released, so that what idNode points to may have been freed and
\* given out again, but not to a server, which only main adds.  It is followed to
\* a server: when it is no request any more, that ends in a crash or in an address
\* that is not the sender's.
Check ==
    /\ m_pc = "check"
    /\ IF idNode = NULL THEN Malformed
       ELSE IF mem[idNode].kind # "id"
       THEN \/ Malformed
            \/ m_pc' = "crashed" /\ UNCHANGED <<packet, idNode>>
       ELSE IF mem[mem[idNode].server].addr # packet.server
       THEN Malformed
       ELSE /\ m_pc' = "delete"
            /\ UNCHANGED <<packet, idNode>>
    /\ UNCHANGED <<up, network, lists, query>>

\* deleteIdNode(idNode->trans_id), under the mutex.
Delete ==
    /\ m_pc = "delete"
    /\ LET found == {n \in ToSet(idll_head) : mem[n].trans_id = TransIdAt(idNode)}
       IN  /\ idll_head' = Without(idll_head, found)
           /\ mem' = [n \in Heap |-> IF n \in found THEN FreeNode ELSE mem[n]]
    /\ m_pc' = "receive"
    /\ packet' = NoPacket /\ idNode' = NULL
    /\ UNCHANGED <<up, network, server_head, trans_id, query>>

-----------------------------------------------------------------------------
(* The thread Query of the client *)

\* removeInactiveServers reads the head of the list and the time, and only then
\* locks the mutex.
Wake ==
    /\ ~Crashed
    /\ q_pc = "asleep"
    /\ q_pc' = "remove"
    /\ temp' = FirstServer
    /\ UNCHANGED <<up, network, lists, main, request>>

\* Fault: the head of the list is never removed.
InactiveNotHead ==
    {server_head[k] : k \in {j \in DOMAIN server_head :
        /\ j > 1
        /\ mem[server_head[j]].stale
        /\ \E i \in 1 .. j : server_head[i] = temp}}

\* The stale servers from temp on, which may no longer be the head.
Inactive ==
    {server_head[k] : k \in {j \in DOMAIN server_head :
        /\ mem[server_head[j]].stale
        /\ \E i \in 1 .. j : server_head[i] = temp}}

\* Fault: their requests are kept.
RemoveInactiveKeepsIDs ==
    /\ ~Crashed
    /\ q_pc = "remove"
    /\ server_head' = Without(server_head, Inactive)
    /\ mem' = [n \in Heap |-> IF n \in Inactive THEN FreeNode ELSE mem[n]]
    /\ q_pc' = "start"
    /\ temp' = NULL
    /\ UNCHANGED <<up, network, idll_head, trans_id, main, request>>

\* A server that is dropped takes its requests with it.
removeInactiveServers ==
    /\ ~Crashed
    /\ q_pc = "remove"
    /\ LET addrs == {mem[n].addr : n \in Inactive}
           removed == {n \in ToSet(idll_head) : mem[mem[n].server].addr \in addrs}
       IN  /\ server_head' = Without(server_head, Inactive)
           /\ idll_head' = Without(idll_head, removed)
           /\ mem' = [n \in Heap |-> IF n \in Inactive \cup removed
                                     THEN FreeNode ELSE mem[n]]
    /\ q_pc' = "start"
    /\ temp' = NULL
    /\ UNCHANGED <<up, network, trans_id, main, request>>

\* The walk over the servers reads the head of the list again.
Start ==
    /\ ~Crashed
    /\ q_pc = "start"
    /\ q_pc' = "query"
    /\ temp' = FirstServer
    /\ UNCHANGED <<up, network, lists, main, request>>

\* The next of temp, which main never changes.
NextServer ==
    LET k == CHOOSE j \in DOMAIN server_head : server_head[j] = temp
    IN  IF k = Len(server_head) THEN NULL ELSE server_head[k + 1]

\* addIdNode at the end of the list.
AddRequest ==
    /\ ~Crashed
    /\ q_pc = "query"
    /\ temp # NULL
    /\ trans_id < MaxQueries
    /\ trans_id' = trans_id + 1
    /\ \E n \in FreeNodes :
         /\ mem' = [mem EXCEPT ![n] = [kind |-> "id", trans_id |-> trans_id + 1,
                                       server |-> temp]]
         /\ idll_head' = Append(idll_head, n)
         /\ request' = n
    /\ q_pc' = "send"
    /\ UNCHANGED <<up, network, server_head, temp, main>>

\* The QUERY, with the number that it reads from the request.  The mutex is
\* released: when main deletes what an idNode from an earlier time points to, that
\* may by now be this request, whose number is then lost.
SendQuery ==
    /\ ~Crashed
    /\ q_pc = "send"
    /\ network' = network \cup {[type |-> "QUERY", server |-> mem[temp].addr,
                                 trans_id |-> TransIdAt(request)]}
    /\ q_pc' = "query"
    /\ temp' = NextServer
    /\ request' = NULL
    /\ UNCHANGED <<up, lists, main>>

\* The end of the walk; also where the bound on requests ends it.
Sleep ==
    /\ ~Crashed
    /\ q_pc = "query"
    /\ temp = NULL \/ trans_id = MaxQueries
    /\ q_pc' = "asleep"
    /\ temp' = NULL
    /\ UNCHANGED <<up, network, lists, main, request>>

-----------------------------------------------------------------------------

Init ==
    /\ up = {}
    /\ network = {}
    /\ mem = [n \in Heap |-> FreeNode]
    /\ server_head = <<>> /\ idll_head = <<>>
    /\ trans_id = 0
    /\ m_pc = "receive" /\ packet = NoPacket /\ idNode = NULL
    /\ q_pc = "asleep" /\ temp = NULL /\ request = NULL

Server(s) == StartOrStop(s) \/ Broadcast(s) \/ Respond(s)

Main ==
    \/ \E s \in Servers : ReceiveHello(s)
    \/ ReceiveResponse
    \/ Check
    \/ Delete

Query ==
    \/ Wake
    \/ removeInactiveServers
    \/ Start
    \/ AddRequest
    \/ SendQuery
    \/ Sleep

Next ==
    \/ \E s \in Servers : Server(s) \/ Age(s)
    \/ Lose
    \/ Main
    \/ Query

Spec == Init /\ [][Next]_vars

-----------------------------------------------------------------------------
(* Safety *)

\* Every variable keeps its type, whatever packets arrive: main works on an answer,
\* and the lists are of nodes.
TypeOK ==
    /\ up \subseteq Servers
    /\ network \subseteq Packets
    /\ mem \in [Heap -> {FreeNode} \cup ServerNodes \cup IdNodes]
    /\ server_head \in Seq(Heap) /\ idll_head \in Seq(Heap)
    /\ trans_id \in Ids \cup {0}
    /\ m_pc \in {"receive", "check", "delete", "crashed"}
    /\ packet \in Exchange \cup {NoPacket}
    /\ idNode \in Heap \cup {NULL} /\ temp \in Heap \cup {NULL}
    /\ request \in Heap \cup {NULL}
    /\ q_pc \in {"asleep", "remove", "start", "query", "send"}

\* Between its sections under the mutex, whatever main and Query have done and
\* even when main has deleted the wrong request, no node is leaked and none that
\* is linked is freed: the lists hold the nodes in use, each once, a request's
\* server is on the list of servers, and so is the one Query is at.
NodesLinked ==
    /\ ToSet(server_head) = {n \in Heap : mem[n].kind = "server"}
    /\ ToSet(idll_head) = {n \in Heap : mem[n].kind = "id"}
    /\ IsInjective(server_head) /\ IsInjective(idll_head)
    /\ \A n \in ToSet(idll_head) : mem[n].server \in ToSet(server_head)
    /\ temp # NULL => temp \in ToSet(server_head)

\* A server that is heard again and again, and dropped in between, is on the list
\* once, so that it gets one QUERY in each round; a transaction has one request.
OneEach ==
    /\ \A i, j \in DOMAIN server_head :
          mem[server_head[i]].addr = mem[server_head[j]].addr => i = j
    /\ \A i, j \in DOMAIN idll_head :
          i < j => mem[idll_head[i]].trans_id < mem[idll_head[j]].trans_id

-----------------------------------------------------------------------------
(* Liveness *)

Silent(s) == s \notin up /\ HELLO(s) \notin network

\* Both threads of the client keep running.  A server that runs broadcasts again
\* and again, and not every HELLO is lost.  Packets do not stay under way for
\* ever, and a server that is silent is one day too long so.
Fairness ==
    /\ WF_vars(Main)
    /\ WF_vars(Query)
    /\ WF_vars(Lose)
    /\ \A s \in Servers :
         /\ WF_vars(Broadcast(s))
         /\ SF_vars(ReceiveHello(s))
         /\ SF_vars(Silent(s) /\ Age(s))

FairSpec == Spec /\ Fairness

\* "A server is declared inactive if no HELLO message is received from it": one
\* that has stopped for good is one day off the list, and so are its requests,
\* unless the client has crashed.
StoppedIsDropped ==
    \A s \in Servers :
        \/ []<>(s \in up)
        \/ <>Crashed
        \/ <>[](/\ Listed(s) = {}
                /\ \A n \in ToSet(idll_head) : mem[mem[n].server].addr # s)

\* A server that runs is found, and found again should it have been dropped.
RunningIsFound ==
    \A s \in Servers : []<>(s \notin up) \/ <>Crashed \/ []<>(Listed(s) # {})
=============================================================================
