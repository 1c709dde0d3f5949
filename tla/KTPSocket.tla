------------------------------ MODULE KTPSocket ------------------------------
(***************************************************************************)
(* The life of KTP sockets: the table SM in shared memory, the processes   *)
(* that open, bind and close its entries, and the three threads of one     *)
(* daemon that bind them to UDP sockets, exchange FIN and FAK for them and *)
(* free them.  Both ends of the connections are entries of the same table, *)
(* as in "make runuser".  What the connections carry is KTPTransfer's.     *)
(*                                                                         *)
(* An entry is only touched under its semaphore, so that a stretch of code *)
(* that holds one semaphore is one action.  Three stretches are split: R   *)
(* may block in recvfrom, and R and S write the descriptor set master,     *)
(* which no semaphore protects: an update reads it in one step and writes  *)
(* it in the next.  A local variable is reset once it is not read again.   *)
(***************************************************************************)
EXTENDS Integers, Sequences

CONSTANTS
    N,              \* entries of the table (10 in the code)
    F,              \* FIN retransmissions (5 in the code)
    Procs,          \* the user processes
    Addrs,          \* the IP address and port pairs they use
    MaxOpens,       \* bound: how many calls of k_socket there are
    QueueLimit,     \* bound: packets a UDP socket queues; the rest is lost
    CrashInCall     \* whether a process may be killed inside a call

ASSUME SocketAssumption ==
    /\ N \in Nat \ {0}
    /\ F \in Nat
    /\ MaxOpens \in Nat
    /\ QueueLimit \in Nat \ {0}
    /\ CrashInCall \in BOOLEAN
    /\ Addrs # {} /\ {"zero", "ephemeral", "none"} \cap Addrs = {}

VARIABLES
    SM,             \* the table
    dead_sem,       \* entries whose semaphore a killed process still holds
    half_made,      \* history: of these, the ones that it was still filling in
    handle,         \* the entry that each process has open, as it believes
    proc,           \* what each process is about
    opens,          \* calls of k_socket so far, for the bound
    fd_addr,        \* kernel: the address of each open UDP socket, or "none"
    fd_queue,       \* kernel: the packets each UDP socket has received
    master,         \* the descriptors that R selects
    r_pc, r_i,      \* thread R: where it is, and at which entry
    rfds,           \* its copy of master, and what select leaves of it
    recvsocket,     \* the descriptor it works on
    r_packet,       \* the packet it has received
    r_set,          \* the value it is about to write to master
    s_pc, s_i,      \* thread S: where it is, and at which entry
    s_set           \* the value it is about to write to master

locks   == <<dead_sem, half_made>>
kernel  == <<fd_addr, fd_queue>>
users   == <<handle, proc, opens>>
threadR == <<r_pc, r_i, rfds, recvsocket, r_packet, r_set>>
threadS == <<s_pc, s_i, s_set>>
vars    == <<SM, locks, users, kernel, master, threadR, threadS>>

-----------------------------------------------------------------------------

Ids == 0 .. N - 1
Fds == 1 .. N + 1
NoFd == 0
NoHandle == -1
NoPid == "nobody"

Packets == [type : {"FIN", "FAK"}, from : Addrs \cup {"ephemeral"}]
NoPacket == [type |-> "none", from |-> "none"]

\* The fields of k_sockinfo that matter here; of fin_time, whether it is set.
Entry == [is_free : BOOLEAN, pid : Procs \cup {NoPid}, sockfd : Fds \cup {NoFd},
          src_addr : Addrs \cup {"zero"}, dest_addr : Addrs \cup {"zero"},
          is_bound : BOOLEAN, is_closed : BOOLEAN, fin_time_set : BOOLEAN,
          fin_retries : 0 .. F]

Active(i) == ~SM[i].is_free /\ SM[i].is_bound

\* Somebody is inside a critical section of entry i, or died there.
Locked(i) ==
    \/ i \in dead_sem
    \/ r_pc \in {"recvfrom", "bound", "closing"} /\ r_i = i
    \/ s_pc = "closing" /\ s_i = i

OpenFds == {fd \in Fds : fd_addr[fd] # "none"}
AddressTaken(a) == \E fd \in OpenFds : fd_addr[fd] = a

\* sendto: the packet is queued where the address is bound, if anywhere and if
\* there is room; in every other case it is lost and the sender goes on.
Send(queue, from, to, type) ==
    [fd \in Fds |->
        IF fd_addr[fd] = to /\ Len(queue[fd]) < QueueLimit
        THEN Append(queue[fd], [type |-> type, from |-> from]) ELSE queue[fd]]

-----------------------------------------------------------------------------
(* The user processes *)

\* The entry e once k_socket has made the first k of its writes, in their order.
\* The buffers, the windows and nospace lie between the sixth and the seventh.
Writes == 8
Filled(e, p, k) ==
    [pid          |-> IF k >= 1 THEN p ELSE e.pid,
     is_free      |-> IF k >= 2 THEN FALSE ELSE e.is_free,
     is_bound     |-> IF k >= 3 THEN FALSE ELSE e.is_bound,
     is_closed    |-> IF k >= 4 THEN FALSE ELSE e.is_closed,
     src_addr     |-> IF k >= 5 THEN "zero" ELSE e.src_addr,
     dest_addr    |-> IF k >= 6 THEN "zero" ELSE e.dest_addr,
     fin_retries  |-> IF k >= 7 THEN 0 ELSE e.fin_retries,
     fin_time_set |-> IF k >= 8 THEN FALSE ELSE e.fin_time_set,
     sockfd       |-> e.sockfd]

\* Fault: is_bound is left as the last owner of the entry had it.
k_socketKeepsBound(p) ==
    /\ proc[p] = "idle"
    /\ opens < MaxOpens
    /\ opens' = opens + 1
    /\ \E i \in Ids :
         /\ ~Locked(i)
         /\ SM[i].is_free
         /\ SM' = [SM EXCEPT ![i] = [Filled(@, p, Writes) EXCEPT
                                       !.is_bound = SM[i].is_bound]]
         /\ handle' = [handle EXCEPT ![p] = i]
    /\ proc' = [proc EXCEPT ![p] = "opened"]
    /\ UNCHANGED <<locks, kernel, master, threadR, threadS>>

\* k_socket takes a free entry.  It scans them under one semaphore after the
\* other, so that an earlier one may have become free by the time it is done.
k_socket(p) ==
    /\ proc[p] = "idle"
    /\ opens < MaxOpens
    /\ opens' = opens + 1
    /\ \E i \in Ids :
         /\ ~Locked(i)
         /\ SM[i].is_free
         /\ SM' = [SM EXCEPT ![i] = Filled(@, p, Writes)]
         /\ handle' = [handle EXCEPT ![p] = i]
    /\ proc' = [proc EXCEPT ![p] = "opened"]
    /\ UNCHANGED <<locks, kernel, master, threadR, threadS>>

\* k_bind writes the addresses, whatever has become of the entry.
k_bind(p) ==
    /\ proc[p] = "opened"
    /\ ~Locked(handle[p])
    /\ \E src, dest \in Addrs :
         /\ src # dest
         /\ SM' = [SM EXCEPT ![handle[p]].src_addr = src,
                             ![handle[p]].dest_addr = dest]
    /\ proc' = [proc EXCEPT ![p] = "running"]
    /\ UNCHANGED <<locks, handle, opens, kernel, master, threadR, threadS>>

k_close(p) ==
    /\ proc[p] = "running"
    /\ ~Locked(handle[p])
    /\ SM' = [SM EXCEPT ![handle[p]].is_closed = @ \/ ~SM[handle[p]].is_free]
    /\ handle' = [handle EXCEPT ![p] = NoHandle]
    /\ proc' = [proc EXCEPT ![p] = "idle"]
    /\ UNCHANGED <<locks, opens, kernel, master, threadR, threadS>>

\* A process ends, its socket closed or not.
Exit(p) ==
    /\ proc[p] # "dead"
    /\ proc' = [proc EXCEPT ![p] = "dead"]
    /\ handle' = [handle EXCEPT ![p] = NoHandle]
    /\ UNCHANGED <<SM, locks, opens, kernel, master, threadR, threadS>>

\* It is killed between wait_sem(i) and signal_sem(i); the kernel does not undo
\* the wait, since sem_flg is 0.
DiesHolding(p, i) ==
    /\ CrashInCall
    /\ ~Locked(i)
    /\ dead_sem' = dead_sem \cup {i}
    /\ proc' = [proc EXCEPT ![p] = "dead"]
    /\ handle' = [handle EXCEPT ![p] = NoHandle]
    /\ UNCHANGED <<kernel, master, threadR, threadS>>

\* In k_socket, at an entry in use, which it only looks at, or after some of the
\* writes to a free one: after the second the entry is in use, but is_bound,
\* is_closed and sockfd are still those of the socket before.
KilledInSocket(p) ==
    /\ proc[p] = "idle"
    /\ opens < MaxOpens
    /\ opens' = opens + 1
    /\ \E i \in Ids, k \in 0 .. Writes :
         /\ SM[i].is_free \/ k = 0
         /\ DiesHolding(p, i)
         /\ SM' = [SM EXCEPT ![i] = Filled(@, p, k)]
         /\ half_made' = IF k \in 2 .. Writes - 1 THEN half_made \cup {i} ELSE half_made

\* In k_bind, the source address written or both.
KilledInBind(p) ==
    /\ proc[p] = "opened"
    /\ DiesHolding(p, handle[p])
    /\ \E src \in Addrs, dest \in Addrs \cup {SM[handle[p]].dest_addr} :
         SM' = [SM EXCEPT ![handle[p]].src_addr = src, ![handle[p]].dest_addr = dest]
    /\ UNCHANGED <<opens, half_made>>

\* In k_close after the write, or in any call before it writes or without one
\* that counts here.
KilledInCall(p) ==
    /\ proc[p] \in {"opened", "running"}
    /\ DiesHolding(p, handle[p])
    /\ \/ UNCHANGED SM
       \/ /\ proc[p] = "running"
          /\ SM' = [SM EXCEPT ![handle[p]].is_closed = @ \/ ~SM[handle[p]].is_free]
    /\ UNCHANGED <<opens, half_made>>

-----------------------------------------------------------------------------
(* Thread R *)

CopyMaster ==
    /\ r_pc = "top"
    /\ rfds' = master
    /\ r_pc' = "select"
    /\ UNCHANGED <<SM, locks, users, kernel, master, r_i, recvsocket,
                   r_packet, r_set, threadS>>

\* select leaves the readable descriptors, none on a timeout.  When one of them
\* is closed it fails with EBADF and leaves the set as it was; R does not look
\* at what it returned.
Select ==
    /\ r_pc = "select"
    /\ rfds' = IF rfds \subseteq OpenFds
               THEN {fd \in rfds : fd_queue[fd] # <<>>} ELSE rfds
    /\ recvsocket' = NoFd
    /\ r_i' = 0
    /\ r_pc' = "scan"
    /\ UNCHANGED <<SM, locks, users, kernel, master, r_packet, r_set, threadS>>

Selected(i) == Active(i) /\ SM[i].sockfd \in rfds

\* The rest of the entries, or else what the loop is followed by.
Advance(next) ==
    IF r_i < N - 1 THEN r_i' = r_i + 1 /\ r_pc' = r_pc
                   ELSE r_i' = 0 /\ r_pc' = next

ScanSkips ==
    /\ r_pc = "scan"
    /\ ~Locked(r_i)
    /\ ~Selected(r_i)
    /\ Advance("timeout")
    /\ rfds' = IF r_i < N - 1 THEN rfds ELSE {}
    /\ UNCHANGED <<SM, locks, users, kernel, master, recvsocket, r_packet,
                   r_set, threadS>>

ScanFinds ==
    /\ r_pc = "scan"
    /\ ~Locked(r_i)
    /\ Selected(r_i)
    /\ recvsocket' = SM[r_i].sockfd
    /\ rfds' = {}
    /\ r_pc' = "recvfrom"
    /\ UNCHANGED <<SM, locks, users, kernel, master, r_i, r_packet, r_set,
                   threadS>>

\* recvfrom blocks while there is nothing to receive.
Receive ==
    /\ r_pc = "recvfrom"
    /\ fd_queue[recvsocket] # <<>>
    /\ r_packet' = Head(fd_queue[recvsocket])
    /\ fd_queue' = [fd_queue EXCEPT ![recvsocket] = Tail(@)]
    /\ r_i' = 0
    /\ r_pc' = "dispatch"
    /\ UNCHANGED <<SM, locks, users, fd_addr, master, rfds, recvsocket, r_set,
                   threadS>>

\* Entry i is the one the packet is for.
Addressed(i) ==
    /\ Active(i)
    /\ SM[i].sockfd = recvsocket
    /\ SM[i].dest_addr = r_packet.from

\* Not for this entry; or it is, and dropMessage throws it away.
DispatchSkips ==
    /\ r_pc = "dispatch"
    /\ ~Locked(r_i)
    /\ Advance("top")
    /\ IF r_i < N - 1 THEN UNCHANGED <<recvsocket, r_packet>>
                      ELSE recvsocket' = NoFd /\ r_packet' = NoPacket
    /\ UNCHANGED <<SM, locks, users, kernel, master, rfds, r_set, threadS>>

\* A FIN is answered with a FAK; after either, CLOSE_SOCKET.
DispatchCloses ==
    /\ r_pc = "dispatch"
    /\ ~Locked(r_i)
    /\ Addressed(r_i)
    /\ IF r_packet.type = "FIN"
       THEN fd_queue' = Send(fd_queue, fd_addr[recvsocket], SM[r_i].dest_addr, "FAK")
       ELSE UNCHANGED fd_queue
    /\ r_set' = master \ {SM[r_i].sockfd}
    /\ r_pc' = "closing"
    /\ UNCHANGED <<SM, locks, users, fd_addr, master, r_i, rfds, recvsocket,
                   r_packet, threadS>>

\* The rest of CLOSE_SOCKET(i), once master \ {sockfd} is computed.
CloseSocket(i, set) ==
    /\ master' = set
    /\ SM' = [SM EXCEPT ![i].is_free = TRUE]
    /\ fd_addr' = [fd_addr EXCEPT ![SM[i].sockfd] = "none"]
    /\ fd_queue' = [fd_queue EXCEPT ![SM[i].sockfd] = <<>>]

RCloses ==
    /\ r_pc = "closing"
    /\ CloseSocket(r_i, r_set)
    /\ r_set' = {}
    /\ IF r_i < N - 1
       THEN /\ r_i' = r_i + 1 /\ r_pc' = "dispatch"
            /\ UNCHANGED <<recvsocket, r_packet>>
       ELSE /\ r_i' = 0 /\ r_pc' = "top"
            /\ recvsocket' = NoFd /\ r_packet' = NoPacket
    /\ UNCHANGED <<locks, users, rfds, threadS>>

\* An entry that has no UDP socket gets one, with the lowest free descriptor.
\* While src_addr is zero, bind succeeds, with an address the kernel chooses.
Bindable(i) == ~SM[i].is_free /\ ~SM[i].is_bound

BindSucceeds ==
    /\ r_pc = "timeout"
    /\ ~Locked(r_i)
    /\ Bindable(r_i)
    /\ ~AddressTaken(SM[r_i].src_addr)
    /\ \E fd \in Fds :
         /\ fd \notin OpenFds
         /\ \A e \in 1 .. fd - 1 : e \in OpenFds
         /\ fd_addr' = [fd_addr EXCEPT ![fd] = IF SM[r_i].src_addr = "zero"
                                               THEN "ephemeral"
                                               ELSE SM[r_i].src_addr]
         /\ recvsocket' = fd
         /\ r_set' = master \cup {fd}
    /\ r_pc' = "bound"
    /\ UNCHANGED <<SM, locks, users, fd_queue, master, r_i, rfds, r_packet,
                   threadS>>

\* Nothing to bind, or the address is in use: the next try is a round later.
BindNothing ==
    /\ r_pc = "timeout"
    /\ ~Locked(r_i)
    /\ Bindable(r_i) => AddressTaken(SM[r_i].src_addr)
    /\ Advance("top")
    /\ UNCHANGED <<SM, locks, users, kernel, master, rfds, recvsocket,
                   r_packet, r_set, threadS>>

RBinds ==
    /\ r_pc = "bound"
    /\ SM' = [SM EXCEPT ![r_i].sockfd = recvsocket, ![r_i].is_bound = TRUE]
    /\ master' = r_set
    /\ r_set' = {} /\ recvsocket' = NoFd
    /\ IF r_i < N - 1 THEN r_i' = r_i + 1 /\ r_pc' = "timeout"
                      ELSE r_i' = 0 /\ r_pc' = "top"
    /\ UNCHANGED <<locks, users, kernel, rfds, r_packet, threadS>>

-----------------------------------------------------------------------------
(* Thread S, the part that concerns closed sockets *)

NextVisit == s_i' = (s_i + 1) % N

Closing(i) == Active(i) /\ SM[i].is_closed

\* Nothing to close here, or the last FIN was less than T ago.
SPasses ==
    /\ s_pc = "visit"
    /\ ~Locked(s_i)
    /\ Closing(s_i) => SM[s_i].fin_time_set
    /\ NextVisit
    /\ UNCHANGED <<SM, locks, users, kernel, master, threadR, s_pc, s_set>>

\* Fault: one retransmission too many.
SendFinOnceMore ==
    /\ s_pc = "visit"
    /\ ~Locked(s_i)
    /\ Closing(s_i)
    /\ \/ /\ ~SM[s_i].fin_time_set
          /\ SM' = [SM EXCEPT ![s_i].fin_time_set = TRUE]
       \/ /\ SM[s_i].fin_time_set
          /\ SM[s_i].fin_retries <= F
          /\ SM' = [SM EXCEPT ![s_i].fin_retries = @ + 1]
    /\ fd_queue' = Send(fd_queue, fd_addr[SM[s_i].sockfd], SM[s_i].dest_addr, "FIN")
    /\ NextVisit
    /\ UNCHANGED <<locks, users, fd_addr, master, threadR, s_pc, s_set>>

\* The first FIN, or a repeated one T after the last.
SendFin ==
    /\ s_pc = "visit"
    /\ ~Locked(s_i)
    /\ Closing(s_i)
    /\ \/ /\ ~SM[s_i].fin_time_set
          /\ SM' = [SM EXCEPT ![s_i].fin_time_set = TRUE]
       \/ /\ SM[s_i].fin_time_set
          /\ SM[s_i].fin_retries < F
          /\ SM' = [SM EXCEPT ![s_i].fin_retries = @ + 1]
    /\ fd_queue' = Send(fd_queue, fd_addr[SM[s_i].sockfd], SM[s_i].dest_addr, "FIN")
    /\ NextVisit
    /\ UNCHANGED <<locks, users, fd_addr, master, threadR, s_pc, s_set>>

\* Faults: the semaphore is not waited for; the last retransmission is missed.
GiveUpUnlocked ==
    /\ s_pc = "visit"
    /\ Closing(s_i)
    /\ SM[s_i].fin_time_set
    /\ SM[s_i].fin_retries = F
    /\ s_set' = master \ {SM[s_i].sockfd}
    /\ s_pc' = "closing"
    /\ UNCHANGED <<SM, locks, users, kernel, master, threadR, s_i>>

GiveUpTooLate ==
    /\ s_pc = "visit"
    /\ ~Locked(s_i)
    /\ Closing(s_i)
    /\ SM[s_i].fin_time_set
    /\ SM[s_i].fin_retries > F
    /\ s_set' = master \ {SM[s_i].sockfd}
    /\ s_pc' = "closing"
    /\ UNCHANGED <<SM, locks, users, kernel, master, threadR, s_i>>

\* No FAK after F repetitions: the socket is closed without.
GiveUp ==
    /\ s_pc = "visit"
    /\ ~Locked(s_i)
    /\ Closing(s_i)
    /\ SM[s_i].fin_time_set
    /\ SM[s_i].fin_retries = F
    /\ s_set' = master \ {SM[s_i].sockfd}
    /\ s_pc' = "closing"
    /\ UNCHANGED <<SM, locks, users, kernel, master, threadR, s_i>>

SCloses ==
    /\ s_pc = "closing"
    /\ CloseSocket(s_i, s_set)
    /\ s_set' = {}
    /\ s_pc' = "visit"
    /\ NextVisit
    /\ UNCHANGED <<locks, users, threadR>>

-----------------------------------------------------------------------------
(* Thread G *)

\* An entry whose process has terminated counts as closed.  G carries nothing
\* from one entry to the next, so it may visit any.
threadG(i) ==
    /\ ~Locked(i)
    /\ ~SM[i].is_free
    /\ ~SM[i].is_closed
    /\ proc[SM[i].pid] = "dead"
    /\ SM' = [SM EXCEPT ![i].is_closed = TRUE]
    /\ UNCHANGED <<locks, users, kernel, master, threadR, threadS>>

-----------------------------------------------------------------------------

\* initk_shm marks the entries free; main starts the threads.
Init ==
    /\ SM = [i \in Ids |->
               [is_free |-> TRUE, pid |-> NoPid, sockfd |-> NoFd,
                src_addr |-> "zero", dest_addr |-> "zero", is_bound |-> FALSE,
                is_closed |-> FALSE, fin_time_set |-> FALSE, fin_retries |-> 0]]
    /\ dead_sem = {} /\ half_made = {}
    /\ handle = [p \in Procs |-> NoHandle]
    /\ proc = [p \in Procs |-> "idle"]
    /\ opens = 0
    /\ fd_addr = [fd \in Fds |-> "none"]
    /\ fd_queue = [fd \in Fds |-> <<>>]
    /\ master = {}
    /\ r_pc = "top" /\ r_i = 0
    /\ rfds = {} /\ recvsocket = NoFd /\ r_packet = NoPacket /\ r_set = {}
    /\ s_pc = "visit" /\ s_i = 0 /\ s_set = {}

Users ==
    \E p \in Procs :
        \/ k_socket(p)
        \/ k_bind(p)
        \/ k_close(p)
        \/ Exit(p)
        \/ KilledInSocket(p)
        \/ KilledInBind(p)
        \/ KilledInCall(p)

ThreadR ==
    \/ CopyMaster
    \/ Select
    \/ ScanSkips
    \/ ScanFinds
    \/ Receive
    \/ DispatchSkips
    \/ DispatchCloses
    \/ RCloses
    \/ BindSucceeds
    \/ BindNothing
    \/ RBinds

ThreadS ==
    \/ SPasses
    \/ SendFin
    \/ GiveUp
    \/ SCloses

ThreadG == \E i \in Ids : threadG(i)

Next ==
    \/ Users
    \/ ThreadR
    \/ ThreadS
    \/ ThreadG

Spec == Init /\ [][Next]_vars

-----------------------------------------------------------------------------
(* Safety *)

\* Every variable keeps its type: threads and processes look at entries of the table
\* and descriptors of the kernel only.
TypeOK ==
    /\ SM \in [Ids -> Entry]
    /\ dead_sem \subseteq Ids /\ half_made \subseteq Ids
    /\ handle \in [Procs -> Ids \cup {NoHandle}]
    /\ proc \in [Procs -> {"idle", "opened", "running", "dead"}]
    /\ fd_addr \in [Fds -> Addrs \cup {"ephemeral", "none"}]
    /\ \A fd \in Fds : \A k \in DOMAIN fd_queue[fd] :
          k <= QueueLimit /\ fd_queue[fd][k] \in Packets
    /\ master \subseteq Fds /\ rfds \subseteq Fds
    /\ r_set \subseteq Fds /\ s_set \subseteq Fds
    /\ r_pc \in {"top", "select", "scan", "recvfrom", "dispatch", "closing",
                 "timeout", "bound"}
    /\ s_pc \in {"visit", "closing"}
    /\ r_i \in Ids /\ s_i \in Ids
    /\ recvsocket \in Fds \cup {NoFd}
    /\ r_packet \in Packets \cup {NoPacket}

\* The descriptor that R is about to store in an entry.
Pending == IF r_pc = "bound" THEN {recvsocket} ELSE {}

\* Entry i has a UDP socket.  One that was half made when its process was killed
\* may say so too, with the descriptor of the socket before.
Owns(i) == Active(i) /\ i \notin half_made

\* No UDP socket leaks and none is used after it is closed, whichever of the
\* threads closes it and however descriptors are reused: the open ones belong to
\* the bound entries in use, one to each, except for entries that were half made,
\* whose flags and descriptor are stale and which nobody comes to look at.
DescriptorsOwned ==
    /\ OpenFds = {SM[i].sockfd : i \in {j \in Ids : Owns(j)}} \cup Pending
    /\ \A i, j \in Ids :
         Owns(i) /\ Owns(j) /\ SM[i].sockfd = SM[j].sockfd => i = j
    /\ \A i \in Ids : Owns(i) => SM[i].sockfd \notin Pending
    /\ \A i \in half_made : Locked(i)

\* The semaphore keeps a socket open under the thread that works on it: R
\* blocked in recvfrom, and R or S half-way through CLOSE_SOCKET.
InUseStaysOpen ==
    /\ r_pc \in {"recvfrom", "closing"} =>
         Active(r_i) /\ SM[r_i].sockfd = recvsocket /\ recvsocket \in OpenFds
    /\ s_pc = "closing" => Closing(s_i) /\ SM[s_i].sockfd \in OpenFds

-----------------------------------------------------------------------------
(* Liveness *)

\* The threads keep running, the period T after a FIN ends one day, and so does
\* select's timeout, which in the model is a matter of R's next step.
Fairness ==
    /\ WF_vars(ThreadR)
    /\ WF_vars(ThreadS)
    /\ SF_vars(SendFin \/ GiveUp)
    /\ \A i \in Ids : WF_vars(threadG(i))

FairSpec == Spec /\ Fairness

Closed(i) == ~SM[i].is_free /\ SM[i].is_closed
Terminated(i) == ~SM[i].is_free /\ proc[SM[i].pid] = "dead"

\* R is blocked on a socket that nothing has come for.
Blocked == r_pc = "recvfrom" /\ fd_queue[recvsocket] = <<>>

\* Entry i cannot be bound because its address is in use.
BindFails(i) == Bindable(i) /\ AddressTaken(SM[i].src_addr)

\* k_close "cleans up the corresponding socket entry in the SM and marks the
\* entry as free", and so does the end of a process: one day the entry is free,
\* unless R is stuck for good or the entry can never be bound.
ReleasedUnlessStuck ==
    \A i \in Ids :
        \/ Closed(i) \/ Terminated(i) ~> SM[i].is_free
        \/ <>[]Blocked
        \/ <>[]BindFails(i)
=============================================================================
