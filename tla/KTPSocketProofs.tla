--------------------------- MODULE KTPSocketProofs ---------------------------
(***************************************************************************)
(* Proofs about KTPSocket, for a table of any size, any set of processes   *)
(* and addresses, and any number of calls.                                 *)
(***************************************************************************)
EXTENDS KTPSocket, SequenceTheorems, TLAPS

-----------------------------------------------------------------------------
(* The inductive invariant *)

QueueInv ==
    /\ fd_queue \in [Fds -> Seq(Packets)]
    /\ \A fd \in Fds : Len(fd_queue[fd]) <= QueueLimit

\* An entry in use has an owner and, once it is bound, a descriptor; a process that
\* has opened a socket remembers an entry.
EntryInv ==
    /\ \A i \in Ids : ~SM[i].is_free => SM[i].pid \in Procs
    /\ \A i \in Ids : Owns(i) => SM[i].sockfd \in Fds
    /\ \A p \in Procs : proc[p] \in {"opened", "running"} => handle[p] \in Ids

\* A semaphore is held by R, by S or by a dead process, but not by two of them.
RHolds == r_pc \in {"recvfrom", "bound", "closing"}

LockInv ==
    /\ half_made \subseteq dead_sem
    /\ RHolds => r_i \notin dead_sem
    /\ s_pc = "closing" => s_i \notin dead_sem
    /\ RHolds /\ s_pc = "closing" => r_i # s_i

\* What R and S have found in the entry whose semaphore they hold still holds.
WorkInv ==
    /\ r_pc \in {"recvfrom", "dispatch", "closing", "bound"} => recvsocket \in Fds
    /\ r_pc = "bound" => ~SM[r_i].is_free /\ ~SM[r_i].is_bound
    /\ r_pc \in {"recvfrom", "closing"} => Active(r_i) /\ SM[r_i].sockfd = recvsocket
    /\ s_pc = "closing" => Closing(s_i)

\* DescriptorsOwned, descriptor by descriptor.
OwnedInv ==
    /\ \A i \in Ids : Owns(i) => fd_addr[SM[i].sockfd] # "none"
                                   /\ SM[i].sockfd \notin Pending
    /\ \A i, j \in Ids :
         Owns(i) /\ Owns(j) /\ SM[i].sockfd = SM[j].sockfd => i = j
    /\ \A fd \in Pending : fd_addr[fd] # "none"
    /\ \A fd \in Fds : fd_addr[fd] # "none" =>
         fd \in Pending \/ \E i \in Ids : Owns(i) /\ SM[i].sockfd = fd

IInv == TypeOK /\ QueueInv /\ EntryInv /\ LockInv /\ WorkInv /\ OwnedInv

-----------------------------------------------------------------------------
(* Facts used throughout *)

LEMMA Sizes ==
    /\ N \in Nat \ {0} /\ 0 \in Ids /\ NoHandle \notin Ids
    /\ NoFd \notin Fds /\ {} \subseteq Fds
    /\ F \in Nat /\ 0 \in 0 .. F /\ QueueLimit \in Nat \ {0}
    /\ "zero" \notin Addrs /\ "none" \notin Addrs /\ "ephemeral" \notin Addrs
BY SocketAssumption DEF Ids, Fds, NoFd, NoHandle

QueuesTyped ==
    \A fd \in Fds : \A k \in DOMAIN fd_queue[fd] :
        k <= QueueLimit /\ fd_queue[fd][k] \in Packets

LEMMA QueueTypes == QueueInv => QueuesTyped
<1> SUFFICES ASSUME QueueInv PROVE QueuesTyped
  OBVIOUS
<1>1. ASSUME NEW fd \in Fds, NEW k \in DOMAIN fd_queue[fd]
      PROVE  k <= QueueLimit /\ fd_queue[fd][k] \in Packets
  <2>1. PICK q \in Seq(Packets) : q = fd_queue[fd] /\ Len(q) <= QueueLimit
    BY DEF QueueInv
  <2>2. DOMAIN q = 1 .. Len(q) /\ Len(q) \in Nat /\ q \in [1 .. Len(q) -> Packets]
    BY LenProperties
  <2> QED BY <2>1, <2>2, Sizes
<1> QED BY <1>1 DEF QueuesTyped

LEMMA QueueTypesNext == QueueInv' => QueuesTyped'
BY QueueTypes, PTL

\* A packet that is sent is queued or lost.
LEMMA SendType ==
    ASSUME QueueInv, NEW from \in Addrs \cup {"ephemeral"}, NEW to,
           NEW type \in {"FIN", "FAK"}, fd_queue' = Send(fd_queue, from, to, type)
    PROVE  QueueInv'
<1>1. ASSUME NEW fd \in Fds
      PROVE  fd_queue'[fd] \in Seq(Packets) /\ Len(fd_queue'[fd]) <= QueueLimit
  <2>1. PICK q \in Seq(Packets), p \in Packets :
          /\ q = fd_queue[fd] /\ Len(q) <= QueueLimit
          /\ p = [type |-> type, from |-> from]
    BY DEF QueueInv, Packets
  <2>2. /\ Append(q, p) \in Seq(Packets) /\ Len(Append(q, p)) = Len(q) + 1
        /\ Len(q) \in Nat
    BY AppendProperties, LenProperties
  <2>3. fd_queue'[fd] = IF fd_addr[fd] = to /\ Len(q) < QueueLimit
                        THEN Append(q, p) ELSE q
    BY <2>1 DEF Send
  <2> QED BY <2>1, <2>2, <2>3, Sizes
<1>2. fd_queue' \in [Fds -> Seq(Packets)]
  BY <1>1 DEF Send
<1> QED BY <1>1, <1>2 DEF QueueInv

LEMMA NextEntry ==
    ASSUME NEW i \in Ids
    PROVE  /\ i < N - 1 => i + 1 \in Ids
           /\ (i + 1) % N \in Ids
BY Sizes DEF Ids

LEMMA EntryPut ==
    ASSUME SM \in [Ids -> Entry], NEW i \in Ids, NEW e \in Entry,
           SM' = [SM EXCEPT ![i] = e]
    PROVE  /\ SM' \in [Ids -> Entry]
           /\ SM'[i] = e
           /\ \A j \in Ids \ {i} : SM'[j] = SM[j]
OBVIOUS

\* What k_socket has written after k writes.
LEMMA FilledType ==
    ASSUME NEW e \in Entry, NEW p \in Procs, NEW k \in 0 .. Writes
    PROVE  /\ Filled(e, p, k) \in Entry
           /\ Filled(e, p, k).pid = IF k >= 1 THEN p ELSE e.pid
           /\ Filled(e, p, k).is_free = IF k >= 2 THEN FALSE ELSE e.is_free
           /\ Filled(e, p, k).is_bound = IF k >= 3 THEN FALSE ELSE e.is_bound
<1>1. /\ (IF k >= 1 THEN p ELSE e.pid) \in Procs \cup {NoPid}
      /\ (IF k >= 2 THEN FALSE ELSE e.is_free) \in BOOLEAN
      /\ (IF k >= 3 THEN FALSE ELSE e.is_bound) \in BOOLEAN
      /\ (IF k >= 4 THEN FALSE ELSE e.is_closed) \in BOOLEAN
      /\ (IF k >= 8 THEN FALSE ELSE e.fin_time_set) \in BOOLEAN
  BY DEF Entry
<1>2. /\ (IF k >= 5 THEN "zero" ELSE e.src_addr) \in Addrs \cup {"zero"}
      /\ (IF k >= 6 THEN "zero" ELSE e.dest_addr) \in Addrs \cup {"zero"}
      /\ (IF k >= 7 THEN 0 ELSE e.fin_retries) \in 0 .. F
      /\ e.sockfd \in Fds \cup {NoFd}
  BY Sizes DEF Entry
<1>3. Filled(e, p, k) \in Entry
  BY <1>1, <1>2 DEF Filled, Entry
<1>4. /\ Filled(e, p, k).pid = IF k >= 1 THEN p ELSE e.pid
      /\ Filled(e, p, k).is_free = IF k >= 2 THEN FALSE ELSE e.is_free
      /\ Filled(e, p, k).is_bound = IF k >= 3 THEN FALSE ELSE e.is_bound
  BY DEF Filled
<1> QED BY <1>3, <1>4

LEMMA NothingFilled ==
    ASSUME NEW e \in Entry, NEW p \in Procs
    PROVE  Filled(e, p, 0) = e
BY DEF Filled, Entry

LEMMA Advances ==
    ASSUME NEW next, r_i \in Ids, Advance(next)
    PROVE  r_i' \in Ids /\ (r_pc' = r_pc \/ r_pc' = next)
BY Sizes, NextEntry DEF Advance

\* Whoever gets the semaphore of a bound entry finds its descriptor.
LEMMA Unlocked ==
    ASSUME LockInv, NEW i \in Ids, ~Locked(i), Active(i)
    PROVE  Owns(i)
BY DEF LockInv, Locked, Owns

LEMMA HeldBound ==
    ASSUME TypeOK, LockInv, WorkInv
    PROVE  /\ r_pc \in {"recvfrom", "closing"} => Owns(r_i)
           /\ s_pc = "closing" => Owns(s_i)
BY DEF TypeOK, LockInv, RHolds, WorkInv, Owns, Closing

\* No descriptor is opened, closed, handed over or given up.
LEMMA OwnedKept ==
    ASSUME OwnedInv, UNCHANGED fd_addr, Pending' = Pending,
           \A i \in Ids : /\ Owns(i)' = Owns(i)
                          /\ Owns(i) => SM'[i].sockfd = SM[i].sockfd
    PROVE  OwnedInv'
BY DEF OwnedInv

LEMMA InitHolds == Init => IInv
<1> SUFFICES ASSUME Init PROVE IInv
  OBVIOUS
<1>1. \A i \in Ids : SM[i].is_free /\ ~SM[i].is_bound /\ ~Owns(i)
  BY DEF Init, Active, Owns
<1>2. SM \in [Ids -> Entry]
  BY Sizes DEF Init, Entry
<1>3. QueueInv
  BY Sizes, EmptySeq DEF Init, QueueInv
<1>4. TypeOK
  BY <1>2, <1>3, QueueTypes, Sizes DEF Init, TypeOK, QueuesTyped
<1>5. EntryInv
  BY <1>1 DEF Init, EntryInv
<1>6. LockInv /\ WorkInv
  BY DEF Init, LockInv, WorkInv, RHolds
<1>7. OwnedInv
  BY <1>1 DEF Init, OwnedInv, Pending
<1> QED BY <1>3, <1>4, <1>5, <1>6, <1>7 DEF IInv

-----------------------------------------------------------------------------
(* Steps that change an entry nobody holds, but not its descriptor *)

LEMMA EntryStep ==
    ASSUME IInv, NEW i \in Ids, ~Locked(i), SM' \in [Ids -> Entry],
           \A j \in Ids \ {i} : SM'[j] = SM[j],
           ~SM'[i].is_free => SM'[i].pid \in Procs,
           Owns(i)' = Owns(i), Owns(i) => SM'[i].sockfd = SM[i].sockfd,
           UNCHANGED <<fd_addr, dead_sem, half_made, r_pc, r_i, recvsocket, s_pc>>,
           s_pc = "closing" => s_i' = s_i
    PROVE  /\ LockInv' /\ WorkInv' /\ OwnedInv'
           /\ \A j \in Ids : ~SM'[j].is_free => SM'[j].pid \in Procs
           /\ \A j \in Ids : Owns(j)' => SM'[j].sockfd \in Fds
<1>1. TypeOK /\ EntryInv /\ LockInv /\ WorkInv /\ OwnedInv
  BY DEF IInv
<1>2. r_i \in Ids /\ s_i \in Ids
  BY <1>1 DEF TypeOK
<1>3. \A j \in Ids : Owns(j)' = Owns(j) /\ (Owns(j) => SM'[j].sockfd = SM[j].sockfd)
  BY DEF Active, Owns
<1>4. OwnedInv'
  BY <1>1, <1>3, OwnedKept DEF Pending
<1>5. LockInv'
  BY <1>1 DEF LockInv, RHolds
<1>6. WorkInv'
  <2>1. RHolds => r_i # i /\ SM'[r_i] = SM[r_i]
    BY <1>2 DEF RHolds, Locked
  <2>2. s_pc = "closing" => s_i # i /\ SM'[s_i] = SM[s_i]
    BY <1>2 DEF Locked
  <2> QED BY <1>1, <1>2, <1>3, <2>1, <2>2 DEF WorkInv, RHolds, Active, Owns, Closing
<1>7. \A j \in Ids : ~SM'[j].is_free => SM'[j].pid \in Procs
  BY <1>1 DEF EntryInv
<1>8. \A j \in Ids : Owns(j)' => SM'[j].sockfd \in Fds
  BY <1>1, <1>3 DEF EntryInv
<1> QED BY <1>4, <1>5, <1>6, <1>7, <1>8

LEMMA SocketStep ==
    ASSUME IInv, NEW p \in Procs, k_socket(p)
    PROVE  IInv'
<1>1. TypeOK /\ EntryInv /\ QueueInv
  BY DEF IInv
<1>2. PICK i \in Ids :
         /\ ~Locked(i)
         /\ SM[i].is_free
         /\ SM' = [SM EXCEPT ![i] =
                      Filled(@, p, Writes)]
         /\ handle' = [handle EXCEPT ![p] = i]
  BY DEF k_socket
<1>3. /\ proc' = [proc EXCEPT ![p] = "opened"]
      /\ UNCHANGED <<dead_sem, half_made, fd_addr, fd_queue, master, r_pc, r_i, rfds, recvsocket,
                     r_packet, r_set, s_pc, s_i, s_set>>
  BY DEF locks, k_socket, kernel, threadR, threadS
<1>4. /\ SM' \in [Ids -> Entry]
      /\ SM'[i].is_free = FALSE /\ SM'[i].pid = p /\ SM'[i].is_bound = FALSE
      /\ \A j \in Ids \ {i} : SM'[j] = SM[j]
  <2>1. PICK e \in Entry : e = SM[i]
    BY <1>1 DEF TypeOK
  <2>2. PICK n \in Entry :
          /\ n = Filled(e, p, Writes)
          /\ n.is_free = FALSE /\ n.pid = p /\ n.is_bound = FALSE
    <3>1. PICK k \in 0 .. Writes : k = Writes /\ k >= 1 /\ k >= 2 /\ k >= 3
      BY DEF Writes
    <3>2. /\ Filled(e, p, k) \in Entry
          /\ Filled(e, p, k).pid = p
          /\ Filled(e, p, k).is_free = FALSE
          /\ Filled(e, p, k).is_bound = FALSE
      BY <3>1, FilledType
    <3> QED BY <3>1, <3>2
  <2>3. SM' = [SM EXCEPT ![i] = n]
    BY <1>1, <1>2, <2>1, <2>2 DEF TypeOK
  <2> QED BY <1>1, <2>2, <2>3, EntryPut DEF TypeOK
<1>5. SM' \in [Ids -> Entry]
  BY <1>4
<1>6. TypeOK'
  BY <1>1, <1>2, <1>3, <1>5 DEF TypeOK
<1>7. /\ LockInv' /\ WorkInv' /\ OwnedInv'
      /\ \A j \in Ids : ~SM'[j].is_free => SM'[j].pid \in Procs
      /\ \A j \in Ids : Owns(j)' => SM'[j].sockfd \in Fds
  <2>1. Owns(i)' = Owns(i) /\ ~Owns(i)
    BY <1>2, <1>4 DEF Active, Owns
  <2>2. ~SM'[i].is_free => SM'[i].pid \in Procs
    BY <1>4
  <2>3. UNCHANGED <<fd_addr, dead_sem, half_made, r_pc, r_i, recvsocket, s_pc>> /\ s_i' = s_i
    BY <1>3
  <2> QED BY <1>2, <1>4, <1>5, <2>1, <2>2, <2>3, EntryStep
<1>8. EntryInv'
  BY <1>1, <1>2, <1>3, <1>7 DEF EntryInv, TypeOK
<1>9. QueueInv'
  BY <1>1, <1>3 DEF QueueInv
<1> QED BY <1>6, <1>7, <1>8, <1>9 DEF IInv

LEMMA BindStep ==
    ASSUME IInv, NEW p \in Procs, k_bind(p)
    PROVE  IInv'
<1>1. TypeOK /\ EntryInv /\ QueueInv
  BY DEF IInv
<1>2. PICK i \in Ids, src \in Addrs, dest \in Addrs :
         /\ i = handle[p] /\ ~Locked(i)
         /\ SM' = [SM EXCEPT ![i].src_addr = src, ![i].dest_addr = dest]
  BY <1>1 DEF k_bind, EntryInv
<1>3. /\ proc[p] = "opened" /\ proc' = [proc EXCEPT ![p] = "running"]
      /\ UNCHANGED <<dead_sem, half_made, handle, fd_addr, fd_queue, master, r_pc, r_i, rfds,
                     recvsocket, r_packet, r_set, s_pc, s_i, s_set>>
  BY DEF locks, k_bind, kernel, threadR, threadS
<1>4. PICK e \in Entry : e = SM[i]
  BY <1>1 DEF TypeOK
<1>5. PICK n \in Entry : n = [e EXCEPT !.src_addr = src, !.dest_addr = dest]
  BY DEF Entry
<1>6. /\ SM' \in [Ids -> Entry]
      /\ SM'[i].is_free = SM[i].is_free /\ SM'[i].is_bound = SM[i].is_bound
      /\ SM'[i].pid = SM[i].pid /\ SM'[i].sockfd = SM[i].sockfd
      /\ \A j \in Ids \ {i} : SM'[j] = SM[j]
  <2>1. SM' = [SM EXCEPT ![i] = n]
    BY <1>1, <1>2, <1>4, <1>5 DEF TypeOK
  <2>2. /\ n.is_free = e.is_free /\ n.is_bound = e.is_bound
        /\ n.pid = e.pid /\ n.sockfd = e.sockfd
    BY <1>5 DEF Entry
  <2> QED BY <1>1, <1>4, <2>1, <2>2, EntryPut DEF TypeOK
<1>7. TypeOK'
  BY <1>1, <1>3, <1>6 DEF TypeOK
<1>8. /\ LockInv' /\ WorkInv' /\ OwnedInv'
      /\ \A j \in Ids : ~SM'[j].is_free => SM'[j].pid \in Procs
      /\ \A j \in Ids : Owns(j)' => SM'[j].sockfd \in Fds
  <2>1. Owns(i)' = Owns(i)
    BY <1>3, <1>6 DEF Active, Owns
  <2>2. ~SM'[i].is_free => SM'[i].pid \in Procs
    BY <1>1, <1>6 DEF EntryInv
  <2>3. UNCHANGED <<fd_addr, dead_sem, half_made, r_pc, r_i, recvsocket, s_pc>> /\ s_i' = s_i
    BY <1>3
  <2> QED BY <1>2, <1>6, <2>1, <2>2, <2>3, EntryStep
<1>9. EntryInv'
  BY <1>1, <1>3, <1>8 DEF EntryInv, TypeOK
<1>10. QueueInv'
  BY <1>1, <1>3 DEF QueueInv
<1> QED BY <1>7, <1>8, <1>9, <1>10 DEF IInv

LEMMA CloseStep ==
    ASSUME IInv, NEW p \in Procs, k_close(p)
    PROVE  IInv'
<1>1. TypeOK /\ EntryInv /\ QueueInv
  BY DEF IInv
<1>2. PICK i \in Ids :
         /\ i = handle[p] /\ ~Locked(i)
         /\ SM' = [SM EXCEPT ![i].is_closed = @ \/ ~SM[i].is_free]
  BY <1>1 DEF k_close, EntryInv
<1>3. /\ proc' = [proc EXCEPT ![p] = "idle"]
      /\ handle' = [handle EXCEPT ![p] = NoHandle]
      /\ UNCHANGED <<dead_sem, half_made, fd_addr, fd_queue, master, r_pc, r_i, rfds, recvsocket,
                     r_packet, r_set, s_pc, s_i, s_set>>
  BY DEF locks, k_close, kernel, threadR, threadS
<1>4. PICK e \in Entry : e = SM[i]
  BY <1>1 DEF TypeOK
<1>5. PICK n \in Entry : n = [e EXCEPT !.is_closed = @ \/ ~e.is_free]
  BY DEF Entry
<1>6. /\ SM' \in [Ids -> Entry]
      /\ SM'[i].is_free = SM[i].is_free /\ SM'[i].is_bound = SM[i].is_bound
      /\ SM'[i].pid = SM[i].pid /\ SM'[i].sockfd = SM[i].sockfd
      /\ \A j \in Ids \ {i} : SM'[j] = SM[j]
  <2>1. SM' = [SM EXCEPT ![i] = n]
    BY <1>1, <1>2, <1>4, <1>5 DEF TypeOK
  <2>2. /\ n.is_free = e.is_free /\ n.is_bound = e.is_bound
        /\ n.pid = e.pid /\ n.sockfd = e.sockfd
    BY <1>5 DEF Entry
  <2> QED BY <1>1, <1>4, <2>1, <2>2, EntryPut DEF TypeOK
<1>7. TypeOK'
  BY <1>1, <1>3, <1>6 DEF TypeOK
<1>8. /\ LockInv' /\ WorkInv' /\ OwnedInv'
      /\ \A j \in Ids : ~SM'[j].is_free => SM'[j].pid \in Procs
      /\ \A j \in Ids : Owns(j)' => SM'[j].sockfd \in Fds
  <2>1. Owns(i)' = Owns(i)
    BY <1>3, <1>6 DEF Active, Owns
  <2>2. ~SM'[i].is_free => SM'[i].pid \in Procs
    BY <1>1, <1>6 DEF EntryInv
  <2>3. UNCHANGED <<fd_addr, dead_sem, half_made, r_pc, r_i, recvsocket, s_pc>> /\ s_i' = s_i
    BY <1>3
  <2> QED BY <1>2, <1>6, <2>1, <2>2, <2>3, EntryStep
<1>9. EntryInv'
  BY <1>1, <1>3, <1>8 DEF EntryInv, TypeOK
<1>10. QueueInv'
  BY <1>1, <1>3 DEF QueueInv
<1> QED BY <1>7, <1>8, <1>9, <1>10 DEF IInv

LEMMA MarkStep ==
    ASSUME IInv, NEW i \in Ids, threadG(i)
    PROVE  IInv'
<1>1. TypeOK /\ EntryInv /\ QueueInv
  BY DEF IInv
<1>2. ~Locked(i) /\ SM' = [SM EXCEPT ![i].is_closed = TRUE]
  BY DEF threadG
<1>3. UNCHANGED <<proc, handle, dead_sem, half_made, fd_addr, fd_queue, master, r_pc, r_i, rfds,
                  recvsocket, r_packet, r_set, s_pc, s_i, s_set>>
  BY DEF locks, threadG, kernel, threadR, threadS, users
<1>4. PICK e \in Entry : e = SM[i]
  BY <1>1 DEF TypeOK
<1>5. PICK n \in Entry : n = [e EXCEPT !.is_closed = TRUE]
  BY DEF Entry
<1>6. /\ SM' \in [Ids -> Entry]
      /\ SM'[i].is_free = SM[i].is_free /\ SM'[i].is_bound = SM[i].is_bound
      /\ SM'[i].pid = SM[i].pid /\ SM'[i].sockfd = SM[i].sockfd
      /\ \A j \in Ids \ {i} : SM'[j] = SM[j]
  <2>1. SM' = [SM EXCEPT ![i] = n]
    BY <1>1, <1>2, <1>4, <1>5 DEF TypeOK
  <2>2. /\ n.is_free = e.is_free /\ n.is_bound = e.is_bound
        /\ n.pid = e.pid /\ n.sockfd = e.sockfd
    BY <1>5 DEF Entry
  <2> QED BY <1>1, <1>4, <2>1, <2>2, EntryPut DEF TypeOK
<1>7. TypeOK'
  BY <1>1, <1>3, <1>6 DEF TypeOK
<1>8. /\ LockInv' /\ WorkInv' /\ OwnedInv'
      /\ \A j \in Ids : ~SM'[j].is_free => SM'[j].pid \in Procs
      /\ \A j \in Ids : Owns(j)' => SM'[j].sockfd \in Fds
  <2>1. Owns(i)' = Owns(i)
    BY <1>3, <1>6 DEF Active, Owns
  <2>2. ~SM'[i].is_free => SM'[i].pid \in Procs
    BY <1>1, <1>6 DEF EntryInv
  <2>3. UNCHANGED <<fd_addr, dead_sem, half_made, r_pc, r_i, recvsocket, s_pc>> /\ s_i' = s_i
    BY <1>3
  <2> QED BY <1>2, <1>6, <2>1, <2>2, <2>3, EntryStep
<1>9. EntryInv'
  BY <1>1, <1>3, <1>8 DEF EntryInv, TypeOK
<1>10. QueueInv'
  BY <1>1, <1>3 DEF QueueInv
<1> QED BY <1>7, <1>8, <1>9, <1>10 DEF IInv

LEMMA FinStep ==
    ASSUME IInv, SendFin
    PROVE  IInv'
<1>1. TypeOK /\ EntryInv /\ QueueInv /\ OwnedInv
  BY DEF IInv
<1>2. PICK i \in Ids : i = s_i
  BY <1>1 DEF TypeOK
<1>3. /\ s_pc = "visit" /\ ~Locked(i) /\ Closing(i)
      /\ \/ SM' = [SM EXCEPT ![i].fin_time_set = TRUE]
         \/ SM[i].fin_retries < F /\ SM' = [SM EXCEPT ![i].fin_retries = @ + 1]
      /\ fd_queue' = Send(fd_queue, fd_addr[SM[i].sockfd], SM[i].dest_addr, "FIN")
      /\ s_i' = (i + 1) % N
      /\ UNCHANGED <<proc, handle, dead_sem, half_made, fd_addr, master, r_pc, r_i, rfds,
                     recvsocket, r_packet, r_set, s_pc, s_set>>
  BY <1>2 DEF locks, SendFin, NextVisit, users, threadR
<1>4. PICK e \in Entry : e = SM[i]
  BY <1>1 DEF TypeOK
<1>5. PICK n \in Entry :
         /\ SM' = [SM EXCEPT ![i] = n]
         /\ n.is_free = e.is_free /\ n.is_bound = e.is_bound
         /\ n.pid = e.pid /\ n.sockfd = e.sockfd
  <2>1. CASE SM' = [SM EXCEPT ![i].fin_time_set = TRUE]
    <3>1. PICK n \in Entry : n = [e EXCEPT !.fin_time_set = TRUE]
      BY DEF Entry
    <3>2. SM' = [SM EXCEPT ![i] = n]
      BY <1>1, <1>4, <2>1, <3>1 DEF TypeOK
    <3> QED BY <3>1, <3>2 DEF Entry
  <2>2. CASE SM[i].fin_retries < F /\ SM' = [SM EXCEPT ![i].fin_retries = @ + 1]
    <3>1. PICK k \in 0 .. F : k = e.fin_retries + 1
      BY <1>4, <2>2, Sizes DEF Entry
    <3>2. PICK n \in Entry : n = [e EXCEPT !.fin_retries = k]
      BY DEF Entry
    <3>3. SM' = [SM EXCEPT ![i] = n]
      BY <1>1, <1>4, <2>2, <3>1, <3>2 DEF TypeOK
    <3> QED BY <3>2, <3>3 DEF Entry
  <2> QED BY <1>3, <2>1, <2>2
<1>6. /\ SM' \in [Ids -> Entry]
      /\ SM'[i].is_free = SM[i].is_free /\ SM'[i].is_bound = SM[i].is_bound
      /\ SM'[i].pid = SM[i].pid /\ SM'[i].sockfd = SM[i].sockfd
      /\ \A j \in Ids \ {i} : SM'[j] = SM[j]
  BY <1>1, <1>4, <1>5, EntryPut DEF TypeOK
<1>7. QueueInv'
  <2>1. Owns(i) /\ SM[i].sockfd \in Fds
    BY <1>1, <1>3, Unlocked DEF Closing, EntryInv, IInv
  <2>2. fd_addr[SM[i].sockfd] \in Addrs \cup {"ephemeral"}
    BY <1>1, <2>1 DEF OwnedInv, TypeOK
  <2> QED BY <1>1, <1>3, <2>2, SendType
<1>8. TypeOK'
  <2>1. s_i' \in Ids
    BY <1>3, NextEntry
  <2>2. \A fd \in Fds : \A k \in DOMAIN fd_queue'[fd] :
           k <= QueueLimit /\ fd_queue'[fd][k] \in Packets
    BY <1>7, QueueTypesNext DEF QueuesTyped
  <2> QED BY <1>1, <1>3, <1>6, <2>1, <2>2 DEF TypeOK
<1>9. /\ LockInv' /\ WorkInv' /\ OwnedInv'
      /\ \A j \in Ids : ~SM'[j].is_free => SM'[j].pid \in Procs
      /\ \A j \in Ids : Owns(j)' => SM'[j].sockfd \in Fds
  <2>1. Owns(i)' = Owns(i)
    BY <1>3, <1>6 DEF Active, Owns
  <2>2. ~SM'[i].is_free => SM'[i].pid \in Procs
    BY <1>1, <1>6 DEF EntryInv
  <2>3. UNCHANGED <<fd_addr, dead_sem, half_made, r_pc, r_i, recvsocket, s_pc>>
        /\ (s_pc = "closing" => s_i' = s_i)
    BY <1>3
  <2> QED BY <1>3, <1>6, <2>1, <2>2, <2>3, EntryStep
<1>10. EntryInv'
  BY <1>1, <1>3, <1>9 DEF EntryInv
<1> QED BY <1>7, <1>8, <1>9, <1>10 DEF IInv

-----------------------------------------------------------------------------
(* The end of a process *)

LEMMA ExitStep ==
    ASSUME IInv, NEW p \in Procs, Exit(p)
    PROVE  IInv'
<1>1. TypeOK /\ QueueInv /\ EntryInv /\ LockInv /\ WorkInv /\ OwnedInv
  BY DEF IInv
<1>2. /\ proc' = [proc EXCEPT ![p] = "dead"]
      /\ handle' = [handle EXCEPT ![p] = NoHandle]
      /\ UNCHANGED <<SM, dead_sem, half_made, fd_addr, fd_queue, master, r_pc, r_i, rfds,
                     recvsocket, r_packet, r_set, s_pc, s_i, s_set>>
  BY DEF locks, Exit, kernel, threadR, threadS
<1>3. TypeOK' /\ QueueInv'
  BY <1>1, <1>2 DEF TypeOK, QueueInv
<1>4. EntryInv' /\ LockInv' /\ WorkInv'
  BY <1>1, <1>2 DEF TypeOK, EntryInv, LockInv, WorkInv, RHolds, Active, Owns, Closing
<1>5. OwnedInv'
  BY <1>1, <1>2, OwnedKept DEF Active, Owns, Pending
<1> QED BY <1>3, <1>4, <1>5 DEF IInv

LEMMA DeathStep ==
    ASSUME IInv, NEW p \in Procs, NEW i \in Ids, DiesHolding(p, i),
           SM' \in [Ids -> Entry], \A j \in Ids \ {i} : SM'[j] = SM[j],
           ~SM'[i].is_free => SM'[i].pid \in Procs,
           half_made' \in {half_made, half_made \cup {i}},
           Owns(i)' = Owns(i), Owns(i) => SM'[i].sockfd = SM[i].sockfd
    PROVE  IInv'
<1>1. TypeOK /\ QueueInv /\ EntryInv /\ LockInv /\ WorkInv /\ OwnedInv
  BY DEF IInv
<1>2. /\ ~Locked(i) /\ dead_sem' = dead_sem \cup {i}
      /\ proc' = [proc EXCEPT ![p] = "dead"]
      /\ handle' = [handle EXCEPT ![p] = NoHandle]
      /\ UNCHANGED <<fd_addr, fd_queue, master, r_pc, r_i, rfds, recvsocket, r_packet,
                     r_set, s_pc, s_i, s_set>>
  BY DEF DiesHolding, kernel, threadR, threadS
<1>3. TypeOK' /\ QueueInv'
  BY <1>1, <1>2 DEF TypeOK, QueueInv
<1>4. LockInv'
  BY <1>1, <1>2 DEF LockInv, RHolds, Locked
<1>5. WorkInv'
  <2>1. RHolds => r_i \in Ids /\ r_i # i /\ SM'[r_i] = SM[r_i]
    BY <1>1, <1>2 DEF TypeOK, RHolds, Locked
  <2>2. s_pc = "closing" => s_i \in Ids /\ s_i # i /\ SM'[s_i] = SM[s_i]
    BY <1>1, <1>2 DEF TypeOK, Locked
  <2> QED BY <1>1, <1>2, <2>1, <2>2 DEF WorkInv, RHolds, Active, Closing
<1>6. \A j \in Ids : /\ Owns(j)' = Owns(j)
                     /\ Owns(j) => SM'[j].sockfd = SM[j].sockfd
  BY <1>1 DEF Owns, Active
<1>7. EntryInv'
  BY <1>1, <1>2, <1>6 DEF TypeOK, EntryInv
<1>8. OwnedInv'
  BY <1>1, <1>2, <1>6, OwnedKept DEF Pending
<1> QED BY <1>3, <1>4, <1>5, <1>7, <1>8 DEF IInv

LEMMA KilledStep ==
    ASSUME IInv, NEW p \in Procs,
           KilledInSocket(p) \/ KilledInBind(p) \/ KilledInCall(p)
    PROVE  IInv'
<1>1. TypeOK /\ EntryInv
  BY DEF IInv
<1>2. CASE KilledInSocket(p)
  <2>1. PICK i \in Ids, k \in 0 .. Writes :
          /\ SM[i].is_free \/ k = 0
          /\ DiesHolding(p, i)
          /\ SM' = [SM EXCEPT ![i] = Filled(@, p, k)]
          /\ half_made' = IF k \in 2 .. Writes - 1 THEN half_made \cup {i} ELSE half_made
    BY <1>2 DEF KilledInSocket
  <2>2. PICK e \in Entry : e = SM[i]
    BY <1>1 DEF TypeOK
  <2>3. PICK n \in Entry :
          /\ n = Filled(e, p, k)
          /\ n.pid = IF k >= 1 THEN p ELSE e.pid
          /\ n.is_free = IF k >= 2 THEN FALSE ELSE e.is_free
          /\ n.is_bound = IF k >= 3 THEN FALSE ELSE e.is_bound
    BY FilledType
  <2>4. SM' = [SM EXCEPT ![i] = n]
    BY <1>1, <2>1, <2>2, <2>3 DEF TypeOK
  <2>5. SM' \in [Ids -> Entry] /\ SM'[i] = n /\ \A j \in Ids \ {i} : SM'[j] = SM[j]
    BY <1>1, <2>4, EntryPut DEF TypeOK
  <2>6. CASE k = 0
    <3>1. n = e /\ half_made' = half_made
      BY <2>1, <2>3, <2>6, NothingFilled DEF Writes
    <3>2. Owns(i)' = Owns(i) /\ SM'[i] = SM[i]
      BY <2>2, <2>5, <3>1 DEF Owns, Active
    <3>3. ~SM'[i].is_free => SM'[i].pid \in Procs
      BY <1>1, <3>2 DEF EntryInv
    <3> QED BY <2>1, <2>5, <3>1, <3>2, <3>3, DeathStep
  <2>7. CASE k >= 1
    <3>1. n.pid = p /\ SM[i].is_free /\ e.is_free /\ ~Owns(i)
      BY <2>1, <2>2, <2>3, <2>7 DEF Owns, Active
    <3>2. \/ ~(k >= 2)
          \/ k \in 2 .. Writes - 1
          \/ k = Writes /\ k >= 3
      BY <2>7 DEF Writes
    <3>3. n.is_free \/ i \in half_made' \/ ~n.is_bound
      BY <2>1, <2>3, <3>1, <3>2
    <3>4. ~Owns(i)'
      BY <2>5, <3>2, <3>3 DEF Owns, Active
    <3>5. ~SM'[i].is_free => SM'[i].pid \in Procs
      BY <2>5, <3>1
    <3>6. half_made' \in {half_made, half_made \cup {i}}
      BY <2>1
    <3>7. Owns(i)' = Owns(i) /\ (Owns(i) => SM'[i].sockfd = SM[i].sockfd)
      BY <3>1, <3>4 DEF Owns, Active
    <3> QED BY <2>1, <2>5, <3>5, <3>6, <3>7, DeathStep
  <2> QED BY <2>6, <2>7
<1>3. CASE KilledInBind(p)
  <2>1. PICK i \in Ids : i = handle[p] /\ DiesHolding(p, i)
    BY <1>1, <1>3 DEF KilledInBind, EntryInv
  <2>2. PICK e \in Entry : e = SM[i]
    BY <1>1 DEF TypeOK
  <2>3. PICK src \in Addrs, dest \in Addrs \cup {e.dest_addr} :
          SM' = [SM EXCEPT ![i].src_addr = src, ![i].dest_addr = dest]
    BY <1>3, <2>1, <2>2 DEF KilledInBind
  <2>4. PICK n \in Entry : n = [e EXCEPT !.src_addr = src, !.dest_addr = dest]
    BY DEF Entry
  <2>5. /\ n.is_free = e.is_free /\ n.is_bound = e.is_bound
        /\ n.pid = e.pid /\ n.sockfd = e.sockfd
    BY <2>4 DEF Entry
  <2>6. SM' = [SM EXCEPT ![i] = n]
    BY <1>1, <2>2, <2>3, <2>4 DEF TypeOK
  <2>7. SM' \in [Ids -> Entry] /\ SM'[i] = n /\ \A j \in Ids \ {i} : SM'[j] = SM[j]
    BY <1>1, <2>6, EntryPut DEF TypeOK
  <2>8. half_made' = half_made
    BY <1>3 DEF KilledInBind
  <2>9. Owns(i)' = Owns(i) /\ SM'[i].sockfd = SM[i].sockfd
    BY <2>2, <2>5, <2>7, <2>8 DEF Owns, Active
  <2>10. ~SM'[i].is_free => SM'[i].pid \in Procs
    BY <1>1, <2>2, <2>5, <2>7 DEF EntryInv
  <2> QED BY <2>1, <2>7, <2>8, <2>9, <2>10, DeathStep
<1>4. CASE KilledInCall(p)
  <2>1. PICK i \in Ids : i = handle[p] /\ DiesHolding(p, i)
    BY <1>1, <1>4 DEF KilledInCall, EntryInv
  <2>2. PICK e \in Entry : e = SM[i]
    BY <1>1 DEF TypeOK
  <2>3. PICK n \in Entry : /\ n \in {e, [e EXCEPT !.is_closed = @ \/ ~e.is_free]}
                          /\ SM' = [SM EXCEPT ![i] = n]
    <3>1. CASE UNCHANGED SM
      BY <1>1, <2>2, <3>1 DEF TypeOK
    <3>2. CASE SM' = [SM EXCEPT ![i].is_closed = @ \/ ~SM[i].is_free]
      <4>1. PICK n \in Entry : n = [e EXCEPT !.is_closed = @ \/ ~e.is_free]
        BY DEF Entry
      <4> QED BY <1>1, <2>2, <3>2, <4>1 DEF TypeOK
    <3> QED BY <1>4, <2>1, <3>1, <3>2 DEF KilledInCall
  <2>4. /\ n.is_free = e.is_free /\ n.is_bound = e.is_bound
        /\ n.pid = e.pid /\ n.sockfd = e.sockfd
    BY <2>3 DEF Entry
  <2>5. SM' \in [Ids -> Entry] /\ SM'[i] = n /\ \A j \in Ids \ {i} : SM'[j] = SM[j]
    BY <1>1, <2>3, EntryPut DEF TypeOK
  <2>6. half_made' = half_made
    BY <1>4 DEF KilledInCall
  <2>7. Owns(i)' = Owns(i) /\ SM'[i].sockfd = SM[i].sockfd
    BY <2>2, <2>4, <2>5, <2>6 DEF Owns, Active
  <2>8. ~SM'[i].is_free => SM'[i].pid \in Procs
    BY <1>1, <2>2, <2>4, <2>5 DEF EntryInv
  <2> QED BY <2>1, <2>5, <2>6, <2>7, <2>8, DeathStep
<1> QED BY <1>2, <1>3, <1>4

-----------------------------------------------------------------------------
(* Steps of R and S that leave the table and the descriptors alone *)

LEMMA QuietStep ==
    ASSUME IInv, UNCHANGED <<SM, fd_addr, handle, proc, dead_sem, half_made>>, Pending' = Pending
    PROVE  EntryInv' /\ OwnedInv'
<1>1. EntryInv /\ OwnedInv
  BY DEF IInv
<1>2. EntryInv'
  BY <1>1 DEF EntryInv, Active, Owns
<1>3. OwnedInv'
  BY <1>1, OwnedKept DEF Active, Owns
<1> QED BY <1>2, <1>3

LEMMA CopyStep ==
    ASSUME IInv, CopyMaster
    PROVE  IInv'
<1>1. TypeOK /\ QueueInv /\ LockInv /\ WorkInv
  BY DEF IInv
<1>2. /\ r_pc = "top" /\ r_pc' = "select" /\ rfds' = master
      /\ UNCHANGED <<SM, dead_sem, half_made, handle, proc, fd_addr, fd_queue, master, r_i,
                     recvsocket, r_packet, r_set, s_pc, s_i, s_set>>
  BY DEF locks, CopyMaster, users, kernel, threadS
<1>3. TypeOK' /\ QueueInv'
  BY <1>1, <1>2 DEF TypeOK, QueueInv
<1>4. LockInv' /\ WorkInv'
  BY <1>1, <1>2 DEF LockInv, WorkInv, RHolds, Closing, Active, Owns
<1>5. Pending' = Pending
  BY <1>2 DEF Pending
<1> QED BY <1>2, <1>3, <1>4, <1>5, QuietStep DEF IInv

LEMMA SelectStep ==
    ASSUME IInv, Select
    PROVE  IInv'
<1>1. TypeOK /\ QueueInv /\ LockInv /\ WorkInv
  BY DEF IInv
<1>2. /\ r_pc = "select" /\ r_pc' = "scan" /\ r_i' = 0 /\ recvsocket' = NoFd
      /\ rfds' \subseteq rfds
      /\ UNCHANGED <<SM, dead_sem, half_made, handle, proc, fd_addr, fd_queue, master,
                     r_packet, r_set, s_pc, s_i, s_set>>
  BY DEF locks, Select, users, kernel, threadS
<1>3. TypeOK' /\ QueueInv'
  BY <1>1, <1>2, Sizes DEF TypeOK, QueueInv
<1>4. LockInv' /\ WorkInv'
  BY <1>1, <1>2 DEF LockInv, WorkInv, RHolds, Closing, Active, Owns
<1>5. Pending' = Pending
  BY <1>2 DEF Pending
<1> QED BY <1>2, <1>3, <1>4, <1>5, QuietStep DEF IInv

LEMMA SkipStep ==
    ASSUME IInv, ScanSkips
    PROVE  IInv'
<1>1. TypeOK /\ QueueInv /\ LockInv /\ WorkInv
  BY DEF IInv
<1>2. /\ r_pc = "scan" /\ Advance("timeout") /\ rfds' \subseteq rfds
      /\ UNCHANGED <<SM, dead_sem, half_made, handle, proc, fd_addr, fd_queue, master,
                     recvsocket, r_packet, r_set, s_pc, s_i, s_set>>
  BY DEF locks, ScanSkips, users, kernel, threadS
<1>3. r_i' \in Ids /\ r_pc' \in {"scan", "timeout"}
  BY <1>1, <1>2, Advances DEF TypeOK
<1>4. TypeOK' /\ QueueInv'
  BY <1>1, <1>2, <1>3 DEF TypeOK, QueueInv
<1>5. LockInv' /\ WorkInv'
  BY <1>1, <1>2, <1>3 DEF LockInv, WorkInv, RHolds, Closing, Active, Owns
<1>6. Pending' = Pending
  BY <1>2, <1>3 DEF Pending
<1> QED BY <1>2, <1>4, <1>5, <1>6, QuietStep DEF IInv

LEMMA FindStep ==
    ASSUME IInv, ScanFinds
    PROVE  IInv'
<1>1. TypeOK /\ QueueInv /\ EntryInv /\ LockInv /\ WorkInv
  BY DEF IInv
<1>2. /\ r_pc = "scan" /\ ~Locked(r_i) /\ Active(r_i) /\ recvsocket' = SM[r_i].sockfd
      /\ r_pc' = "recvfrom" /\ rfds' = {}
      /\ UNCHANGED <<SM, dead_sem, half_made, handle, proc, fd_addr, fd_queue, master,
                     r_i, r_packet, r_set, s_pc, s_i, s_set>>
  BY DEF locks, ScanFinds, Selected, users, kernel, threadS
<1>3. r_i \in Ids /\ recvsocket' \in Fds
  BY <1>1, <1>2, Unlocked DEF TypeOK, EntryInv
<1>4. TypeOK' /\ QueueInv'
  BY <1>1, <1>2, <1>3 DEF TypeOK, QueueInv
<1>5. LockInv'
  BY <1>1, <1>2 DEF LockInv, RHolds, Locked
<1>6. WorkInv'
  BY <1>1, <1>2, <1>3 DEF WorkInv, Active, Owns, Closing
<1>7. Pending' = Pending
  BY <1>2 DEF Pending
<1> QED BY <1>2, <1>4, <1>5, <1>6, <1>7, QuietStep DEF IInv

LEMMA ReceiveStep ==
    ASSUME IInv, Receive
    PROVE  IInv'
<1>1. TypeOK /\ QueueInv /\ LockInv /\ WorkInv
  BY DEF IInv
<1>2. /\ r_pc = "recvfrom" /\ fd_queue[recvsocket] # <<>>
      /\ r_packet' = Head(fd_queue[recvsocket])
      /\ fd_queue' = [fd_queue EXCEPT ![recvsocket] = Tail(@)]
      /\ r_i' = 0 /\ r_pc' = "dispatch"
      /\ UNCHANGED <<SM, dead_sem, half_made, handle, proc, fd_addr, master, rfds, recvsocket,
                     r_set, s_pc, s_i, s_set>>
  BY DEF locks, Receive, users, threadS
<1>3. PICK q \in Seq(Packets) : q = fd_queue[recvsocket] /\ Len(q) <= QueueLimit
  BY <1>1, <1>2 DEF QueueInv, WorkInv
<1>4. Head(q) \in Packets /\ Tail(q) \in Seq(Packets) /\ Len(Tail(q)) <= QueueLimit
  BY <1>2, <1>3, HeadTailProperties, LenProperties, Sizes
<1>5. QueueInv'
  <2>1. recvsocket \in Fds
    BY <1>1, <1>2 DEF WorkInv
  <2>2. fd_queue' = [fd_queue EXCEPT ![recvsocket] = Tail(q)]
    BY <1>1, <1>2, <1>3 DEF QueueInv
  <2> QED BY <1>1, <1>4, <2>1, <2>2 DEF QueueInv
<1>6. TypeOK'
  <2>1. r_packet' \in Packets
    BY <1>2, <1>3, <1>4
  <2>2. QueuesTyped'
    BY <1>5, QueueTypesNext
  <2> QED BY <1>1, <1>2, <2>1, <2>2, Sizes DEF TypeOK, QueuesTyped
<1>7. LockInv' /\ WorkInv'
  BY <1>1, <1>2 DEF LockInv, WorkInv, RHolds, Closing, Active, Owns
<1>8. Pending' = Pending
  BY <1>2 DEF Pending
<1> QED BY <1>2, <1>5, <1>6, <1>7, <1>8, QuietStep DEF IInv

LEMMA DispatchSkipStep ==
    ASSUME IInv, DispatchSkips
    PROVE  IInv'
<1>1. TypeOK /\ QueueInv /\ LockInv /\ WorkInv
  BY DEF IInv
<1>2. /\ r_pc = "dispatch" /\ Advance("top")
      /\ UNCHANGED <<SM, dead_sem, half_made, handle, proc, fd_addr, fd_queue, master, rfds,
                     r_set, s_pc, s_i, s_set>>
  BY DEF locks, DispatchSkips, users, kernel, threadS
<1>3. r_i' \in Ids /\ r_pc' \in {"dispatch", "top"}
  BY <1>1, <1>2, Advances DEF TypeOK
<1>4. /\ recvsocket' \in Fds \cup {NoFd} /\ r_packet' \in Packets \cup {NoPacket}
      /\ r_pc' = "dispatch" => recvsocket' = recvsocket
  BY <1>1, <1>2 DEF DispatchSkips, Advance, TypeOK
<1>5. TypeOK' /\ QueueInv'
  BY <1>1, <1>2, <1>3, <1>4 DEF TypeOK, QueueInv
<1>6. LockInv' /\ WorkInv'
  BY <1>1, <1>2, <1>3, <1>4 DEF LockInv, WorkInv, RHolds, Closing, Active, Owns
<1>7. Pending' = Pending
  BY <1>2, <1>3 DEF Pending
<1> QED BY <1>2, <1>5, <1>6, <1>7, QuietStep DEF IInv

LEMMA DispatchCloseStep ==
    ASSUME IInv, DispatchCloses
    PROVE  IInv'
<1>1. TypeOK /\ QueueInv /\ EntryInv /\ LockInv /\ WorkInv /\ OwnedInv
  BY DEF IInv
<1>2. /\ r_pc = "dispatch" /\ ~Locked(r_i) /\ Owns(r_i)
      /\ SM[r_i].sockfd = recvsocket
      /\ \/ fd_queue' = Send(fd_queue, fd_addr[recvsocket], SM[r_i].dest_addr, "FAK")
         \/ UNCHANGED fd_queue
      /\ r_set' = master \ {SM[r_i].sockfd} /\ r_pc' = "closing"
      /\ UNCHANGED <<SM, dead_sem, half_made, handle, proc, fd_addr, master, r_i, rfds,
                     recvsocket, r_packet, s_pc, s_i, s_set>>
  BY <1>1, Unlocked DEF locks, DispatchCloses, Addressed, users, threadS, TypeOK
<1>3. r_i \in Ids
  BY <1>1 DEF TypeOK
<1>4. QueueInv'
  <2>1. fd_addr[recvsocket] \in Addrs \cup {"ephemeral"}
    BY <1>1, <1>2, <1>3 DEF OwnedInv, TypeOK, EntryInv
  <2>2. CASE fd_queue' = Send(fd_queue, fd_addr[recvsocket], SM[r_i].dest_addr, "FAK")
    BY <1>1, <2>1, <2>2, SendType
  <2>3. CASE UNCHANGED fd_queue
    BY <1>1, <2>3 DEF QueueInv
  <2> QED BY <1>2, <2>2, <2>3
<1>5. TypeOK'
  <2>1. QueuesTyped'
    BY <1>4, QueueTypesNext
  <2>2. r_set' \subseteq Fds
    BY <1>1, <1>2 DEF TypeOK
  <2> QED BY <1>1, <1>2, <2>1, <2>2 DEF TypeOK, QueuesTyped
<1>6. LockInv'
  BY <1>1, <1>2 DEF LockInv, RHolds, Locked
<1>7. WorkInv'
  BY <1>1, <1>2, <1>3 DEF WorkInv, EntryInv, Active, Owns, Closing
<1>8. Pending' = Pending
  BY <1>2 DEF Pending
<1> QED BY <1>2, <1>4, <1>5, <1>6, <1>7, <1>8, QuietStep DEF IInv

LEMMA BindNothingStep ==
    ASSUME IInv, BindNothing
    PROVE  IInv'
<1>1. TypeOK /\ QueueInv /\ LockInv /\ WorkInv
  BY DEF IInv
<1>2. /\ r_pc = "timeout" /\ Advance("top")
      /\ UNCHANGED <<SM, dead_sem, half_made, handle, proc, fd_addr, fd_queue, master, rfds,
                     recvsocket, r_packet, r_set, s_pc, s_i, s_set>>
  BY DEF locks, BindNothing, users, kernel, threadS
<1>3. r_i' \in Ids /\ r_pc' \in {"timeout", "top"}
  BY <1>1, <1>2, Advances DEF TypeOK
<1>4. TypeOK' /\ QueueInv'
  BY <1>1, <1>2, <1>3 DEF TypeOK, QueueInv
<1>5. LockInv' /\ WorkInv'
  BY <1>1, <1>2, <1>3 DEF LockInv, WorkInv, RHolds, Closing, Active, Owns
<1>6. Pending' = Pending
  BY <1>2, <1>3 DEF Pending
<1> QED BY <1>2, <1>4, <1>5, <1>6, QuietStep DEF IInv

LEMMA PassStep ==
    ASSUME IInv, SPasses
    PROVE  IInv'
<1>1. TypeOK /\ QueueInv /\ LockInv /\ WorkInv
  BY DEF IInv
<1>2. /\ s_pc = "visit" /\ s_i' = (s_i + 1) % N
      /\ UNCHANGED <<SM, dead_sem, half_made, handle, proc, fd_addr, fd_queue, master, r_pc, r_i,
                     rfds, recvsocket, r_packet, r_set, s_pc, s_set>>
  BY DEF locks, SPasses, NextVisit, users, kernel, threadR
<1>3. s_i' \in Ids
  BY <1>1, <1>2, NextEntry DEF TypeOK
<1>4. TypeOK' /\ QueueInv'
  BY <1>1, <1>2, <1>3 DEF TypeOK, QueueInv
<1>5. LockInv' /\ WorkInv'
  BY <1>1, <1>2 DEF LockInv, WorkInv, RHolds, Closing, Active, Owns
<1>6. Pending' = Pending
  BY <1>2 DEF Pending
<1> QED BY <1>2, <1>4, <1>5, <1>6, QuietStep DEF IInv

LEMMA GiveUpStep ==
    ASSUME IInv, GiveUp
    PROVE  IInv'
<1>1. TypeOK /\ QueueInv /\ LockInv /\ WorkInv
  BY DEF IInv
<1>2. /\ s_pc = "visit" /\ s_pc' = "closing" /\ ~Locked(s_i) /\ Closing(s_i)
      /\ s_set' = master \ {SM[s_i].sockfd}
      /\ UNCHANGED <<SM, dead_sem, half_made, handle, proc, fd_addr, fd_queue, master, r_pc, r_i,
                     rfds, recvsocket, r_packet, r_set, s_i>>
  BY DEF locks, GiveUp, users, kernel, threadR
<1>3. TypeOK' /\ QueueInv'
  BY <1>1, <1>2 DEF TypeOK, QueueInv
<1>4. LockInv'
  BY <1>1, <1>2 DEF LockInv, RHolds, Locked
<1>5. WorkInv'
  BY <1>1, <1>2 DEF WorkInv, Closing, Active, Owns
<1>6. Pending' = Pending
  BY <1>2 DEF Pending
<1> QED BY <1>2, <1>3, <1>4, <1>5, <1>6, QuietStep DEF IInv

-----------------------------------------------------------------------------
(* Steps that open, hand over and close descriptors *)

\* CLOSE_SOCKET: the entry and its descriptor go together.
LEMMA CloseOwned ==
    ASSUME IInv, NEW i \in Ids, NEW set, Owns(i), CloseSocket(i, set),
           Pending' = Pending, half_made' = half_made
    PROVE  /\ SM' \in [Ids -> Entry]
           /\ fd_addr' \in [Fds -> Addrs \cup {"ephemeral", "none"}]
           /\ \A j \in Ids \ {i} : SM'[j] = SM[j]
           /\ \A j \in Ids : ~SM'[j].is_free => SM'[j].pid \in Procs
           /\ \A j \in Ids : Owns(j)' => SM'[j].sockfd \in Fds
           /\ QueueInv' /\ OwnedInv'
<1>1. TypeOK /\ QueueInv /\ EntryInv /\ WorkInv /\ OwnedInv
  BY DEF IInv
<1>2. PICK e \in Entry : e = SM[i]
  BY <1>1 DEF TypeOK
<1>3. PICK fd \in Fds : fd = SM[i].sockfd
  BY <1>1 DEF EntryInv
<1>4. PICK n \in Entry : n = [e EXCEPT !.is_free = TRUE]
  BY DEF Entry
<1>5. /\ SM' \in [Ids -> Entry]
      /\ SM'[i] = n /\ n.is_free
      /\ \A j \in Ids \ {i} : SM'[j] = SM[j]
  <2>1. SM' = [SM EXCEPT ![i] = n]
    BY <1>1, <1>2, <1>4 DEF TypeOK, CloseSocket
  <2>2. n.is_free
    BY <1>4 DEF Entry
  <2> QED BY <1>1, <2>1, <2>2, EntryPut DEF TypeOK
<1>6. \A g \in Fds : fd_addr'[g] = IF g = fd THEN "none" ELSE fd_addr[g]
  BY <1>1, <1>3 DEF TypeOK, CloseSocket
<1>7. fd_addr' \in [Fds -> Addrs \cup {"ephemeral", "none"}]
  BY <1>1, <1>3 DEF TypeOK, CloseSocket
<1>8. QueueInv'
  <2>1. fd_queue' = [fd_queue EXCEPT ![fd] = <<>>]
    BY <1>3 DEF CloseSocket
  <2>2. <<>> \in Seq(Packets) /\ Len(<<>>) = 0
    BY EmptySeq
  <2> QED BY <1>1, <2>1, <2>2, Sizes DEF QueueInv
<1>9. \A j \in Ids : Owns(j)' => j # i /\ Owns(j) /\ SM'[j].sockfd = SM[j].sockfd
  BY <1>5 DEF Active, Owns
<1>10. \A j \in Ids : Owns(j)' => SM[j].sockfd # fd
  BY <1>1, <1>3, <1>9 DEF OwnedInv
<1>11. OwnedInv'
  <2>1. \A j \in Ids : Owns(j)' => fd_addr'[SM'[j].sockfd] # "none"
                                     /\ SM'[j].sockfd \notin Pending
    BY <1>1, <1>6, <1>9, <1>10 DEF OwnedInv, EntryInv
  <2>2. \A j, k \in Ids :
          Owns(j)' /\ Owns(k)' /\ SM'[j].sockfd = SM'[k].sockfd => j = k
    BY <1>1, <1>9 DEF OwnedInv
  <2>3. \A g \in Pending : fd_addr'[g] # "none"
    <3>1. fd \notin Pending
      BY <1>1, <1>3 DEF OwnedInv
    <3>2. Pending \subseteq Fds
      BY <1>1 DEF Pending, WorkInv
    <3> QED BY <1>1, <1>6, <3>1, <3>2 DEF OwnedInv
  <2>4. ASSUME NEW g \in Fds, fd_addr'[g] # "none"
        PROVE  g \in Pending \/ \E j \in Ids : Owns(j)' /\ SM'[j].sockfd = g
    <3>1. g # fd /\ fd_addr[g] # "none"
      BY <1>6, <2>4
    <3>2. CASE g \in Pending
      BY <3>2
    <3>3. CASE \E j \in Ids : Owns(j) /\ SM[j].sockfd = g
      <4>1. PICK j \in Ids : Owns(j) /\ SM[j].sockfd = g
        BY <3>3
      <4>2. j # i
        BY <1>3, <3>1, <4>1
      <4> QED BY <1>5, <4>1, <4>2 DEF Active, Owns
    <3> QED BY <1>1, <3>1, <3>2, <3>3 DEF OwnedInv
  <2> QED BY <2>1, <2>2, <2>3, <2>4 DEF OwnedInv
<1>12. \A j \in Ids : ~SM'[j].is_free => SM'[j].pid \in Procs
  BY <1>1, <1>5 DEF EntryInv
<1>13. \A j \in Ids : Owns(j)' => SM'[j].sockfd \in Fds
  BY <1>1, <1>9 DEF EntryInv
<1> QED BY <1>5, <1>7, <1>8, <1>11, <1>12, <1>13

LEMMA RCloseStep ==
    ASSUME IInv, RCloses
    PROVE  IInv'
<1>1. TypeOK /\ EntryInv /\ LockInv /\ WorkInv
  BY DEF IInv
<1>2. /\ r_pc = "closing" /\ CloseSocket(r_i, r_set) /\ r_set' = {}
      /\ master' = r_set
      /\ \/ r_i < N - 1 /\ r_i' = r_i + 1 /\ r_pc' = "dispatch"
            /\ UNCHANGED <<recvsocket, r_packet>>
         \/ r_i' = 0 /\ r_pc' = "top" /\ recvsocket' = NoFd /\ r_packet' = NoPacket
      /\ UNCHANGED <<dead_sem, half_made, handle, proc, rfds, s_pc, s_i, s_set>>
  BY DEF locks, RCloses, CloseSocket, users, threadS
<1>3. r_i \in Ids /\ r_i' \in Ids /\ Owns(r_i)
  BY <1>1, <1>2, NextEntry, HeldBound, Sizes DEF TypeOK
<1>4. Pending' = Pending
  BY <1>2 DEF Pending
<1>5. /\ SM' \in [Ids -> Entry]
      /\ fd_addr' \in [Fds -> Addrs \cup {"ephemeral", "none"}]
      /\ \A j \in Ids \ {r_i} : SM'[j] = SM[j]
      /\ \A j \in Ids : ~SM'[j].is_free => SM'[j].pid \in Procs
      /\ \A j \in Ids : Owns(j)' => SM'[j].sockfd \in Fds
      /\ QueueInv' /\ OwnedInv'
  BY <1>2, <1>3, <1>4, CloseOwned
<1>6. QueuesTyped'
  BY <1>5, QueueTypesNext
<1>7. TypeOK'
  BY <1>1, <1>2, <1>3, <1>5, <1>6 DEF TypeOK, QueuesTyped
<1>8. EntryInv'
  BY <1>1, <1>2, <1>5 DEF EntryInv
<1>9. LockInv'
  BY <1>1, <1>2 DEF LockInv, RHolds
<1>10. WorkInv'
  <2>1. s_pc = "closing" => s_i \in Ids /\ s_i # r_i /\ SM'[s_i] = SM[s_i]
    BY <1>1, <1>2, <1>5 DEF LockInv, RHolds, TypeOK
  <2> QED BY <1>1, <1>2, <2>1 DEF WorkInv, Closing, Active, Owns
<1> QED BY <1>5, <1>7, <1>8, <1>9, <1>10 DEF IInv

LEMMA SCloseStep ==
    ASSUME IInv, SCloses
    PROVE  IInv'
<1>1. TypeOK /\ EntryInv /\ LockInv /\ WorkInv
  BY DEF IInv
<1>2. /\ s_pc = "closing" /\ CloseSocket(s_i, s_set) /\ s_set' = {}
      /\ master' = s_set /\ s_pc' = "visit" /\ s_i' = (s_i + 1) % N
      /\ UNCHANGED <<dead_sem, half_made, handle, proc, r_pc, r_i, rfds, recvsocket, r_packet,
                     r_set>>
  BY DEF locks, SCloses, CloseSocket, NextVisit, users, threadR
<1>3. s_i \in Ids /\ s_i' \in Ids /\ Owns(s_i)
  BY <1>1, <1>2, NextEntry, HeldBound DEF TypeOK
<1>4. Pending' = Pending
  BY <1>2 DEF Pending
<1>5. /\ SM' \in [Ids -> Entry]
      /\ fd_addr' \in [Fds -> Addrs \cup {"ephemeral", "none"}]
      /\ \A j \in Ids \ {s_i} : SM'[j] = SM[j]
      /\ \A j \in Ids : ~SM'[j].is_free => SM'[j].pid \in Procs
      /\ \A j \in Ids : Owns(j)' => SM'[j].sockfd \in Fds
      /\ QueueInv' /\ OwnedInv'
  BY <1>2, <1>3, <1>4, CloseOwned
<1>6. QueuesTyped'
  BY <1>5, QueueTypesNext
<1>7. TypeOK'
  BY <1>1, <1>2, <1>3, <1>5, <1>6 DEF TypeOK, QueuesTyped
<1>8. EntryInv'
  BY <1>1, <1>2, <1>5 DEF EntryInv
<1>9. LockInv'
  BY <1>1, <1>2 DEF LockInv, RHolds
<1>10. WorkInv'
  <2>1. RHolds => r_i \in Ids /\ s_i # r_i /\ SM'[r_i] = SM[r_i]
    BY <1>1, <1>2, <1>5 DEF LockInv, TypeOK
  <2> QED BY <1>1, <1>2, <2>1 DEF WorkInv, RHolds, Active, Owns
<1> QED BY <1>5, <1>7, <1>8, <1>9, <1>10 DEF IInv

LEMMA BindSucceedStep ==
    ASSUME IInv, BindSucceeds
    PROVE  IInv'
<1>1. TypeOK /\ QueueInv /\ EntryInv /\ LockInv /\ WorkInv /\ OwnedInv
  BY DEF IInv
<1>2. PICK fd \in Fds :
         /\ fd_addr[fd] = "none"
         /\ fd_addr' = [fd_addr EXCEPT ![fd] = IF SM[r_i].src_addr = "zero"
                                               THEN "ephemeral"
                                               ELSE SM[r_i].src_addr]
         /\ recvsocket' = fd /\ r_set' = master \cup {fd}
  BY DEF BindSucceeds, OpenFds
<1>3. /\ r_pc = "timeout" /\ r_pc' = "bound" /\ ~Locked(r_i)
      /\ ~SM[r_i].is_free /\ ~SM[r_i].is_bound
      /\ UNCHANGED <<SM, dead_sem, half_made, handle, proc, fd_queue, master, r_i, rfds, r_packet,
                     s_pc, s_i, s_set>>
  BY DEF locks, BindSucceeds, Bindable, users, threadS
<1>4. PICK a \in Addrs \cup {"ephemeral"} : fd_addr' = [fd_addr EXCEPT ![fd] = a]
  <2>1. SM[r_i].src_addr \in Addrs \cup {"zero"}
    BY <1>1 DEF TypeOK, Entry
  <2> QED BY <1>2, <2>1
<1>5. /\ a # "none" /\ fd_addr' \in [Fds -> Addrs \cup {"ephemeral", "none"}]
      /\ \A g \in Fds : fd_addr'[g] = IF g = fd THEN a ELSE fd_addr[g]
  BY <1>1, <1>4, Sizes DEF TypeOK
<1>6. TypeOK' /\ QueueInv'
  <2>1. r_set' \subseteq Fds
    BY <1>1, <1>2 DEF TypeOK
  <2> QED BY <1>1, <1>2, <1>3, <1>5, <2>1 DEF TypeOK, QueueInv
<1>7. EntryInv'
  BY <1>1, <1>3 DEF EntryInv, Active, Owns
<1>8. LockInv'
  BY <1>1, <1>3 DEF LockInv, RHolds, Locked
<1>9. WorkInv'
  BY <1>1, <1>2, <1>3 DEF WorkInv, Active, Owns, Closing
<1>10. Pending = {} /\ Pending' = {fd}
  BY <1>2, <1>3 DEF Pending
<1>11. \A j \in Ids : /\ Owns(j)' = Owns(j) /\ SM'[j].sockfd = SM[j].sockfd
                      /\ Owns(j) => SM[j].sockfd \in Fds /\ SM[j].sockfd # fd
  BY <1>1, <1>2, <1>3 DEF Active, Owns, OwnedInv, EntryInv
<1>12. OwnedInv'
  <2>1. \A j \in Ids : Owns(j)' => fd_addr'[SM'[j].sockfd] # "none"
                                     /\ SM'[j].sockfd \notin {fd}
    BY <1>1, <1>5, <1>11 DEF OwnedInv
  <2>2. \A j, k \in Ids :
          Owns(j)' /\ Owns(k)' /\ SM'[j].sockfd = SM'[k].sockfd => j = k
    BY <1>1, <1>11 DEF OwnedInv
  <2>3. fd_addr'[fd] # "none"
    BY <1>5
  <2>4. ASSUME NEW g \in Fds, fd_addr'[g] # "none"
        PROVE  g \in {fd} \/ \E j \in Ids : Owns(j)' /\ SM'[j].sockfd = g
    <3>1. CASE g = fd
      BY <3>1
    <3>2. CASE g # fd
      BY <1>1, <1>5, <1>10, <1>11, <2>4, <3>2 DEF OwnedInv
    <3> QED BY <3>1, <3>2
  <2> QED BY <1>10, <2>1, <2>2, <2>3, <2>4 DEF OwnedInv
<1> QED BY <1>6, <1>7, <1>8, <1>9, <1>12 DEF IInv

LEMMA RBindStep ==
    ASSUME IInv, RBinds
    PROVE  IInv'
<1>1. TypeOK /\ QueueInv /\ EntryInv /\ LockInv /\ WorkInv /\ OwnedInv
  BY DEF IInv
<1>2. PICK i \in Ids, fd \in Fds : i = r_i /\ fd = recvsocket
  BY <1>1 DEF TypeOK, WorkInv, RBinds
<1>3. /\ r_pc = "bound" /\ SM' = [SM EXCEPT ![i].sockfd = fd, ![i].is_bound = TRUE]
      /\ master' = r_set /\ r_set' = {} /\ recvsocket' = NoFd
      /\ \/ r_i < N - 1 /\ r_i' = r_i + 1 /\ r_pc' = "timeout"
         \/ r_i' = 0 /\ r_pc' = "top"
      /\ UNCHANGED <<dead_sem, half_made, handle, proc, fd_addr, fd_queue, rfds, r_packet,
                     s_pc, s_i, s_set>>
  BY <1>2 DEF locks, RBinds, users, kernel, threadS
<1>4. PICK e \in Entry : e = SM[i]
  BY <1>1 DEF TypeOK
<1>5. PICK n \in Entry : n = [e EXCEPT !.sockfd = fd, !.is_bound = TRUE]
  BY DEF Entry
<1>6. /\ SM' \in [Ids -> Entry]
      /\ SM'[i].is_free = SM[i].is_free /\ SM'[i].is_bound
      /\ SM'[i].pid = SM[i].pid /\ SM'[i].sockfd = fd
      /\ \A j \in Ids \ {i} : SM'[j] = SM[j]
  <2>1. SM' = [SM EXCEPT ![i] = n]
    BY <1>1, <1>3, <1>4, <1>5 DEF TypeOK
  <2>2. /\ n.is_free = e.is_free /\ n.is_bound
        /\ n.pid = e.pid /\ n.sockfd = fd
    BY <1>5 DEF Entry
  <2> QED BY <1>1, <1>4, <2>1, <2>2, EntryPut DEF TypeOK
<1>7. /\ ~SM[i].is_free /\ ~SM[i].is_bound /\ ~Owns(i) /\ Owns(i)'
      /\ \A j \in Ids \ {i} : Owns(j)' = Owns(j) /\ SM'[j].sockfd = SM[j].sockfd
  <2>1. i \notin half_made
    BY <1>1, <1>2, <1>3 DEF LockInv, RHolds
  <2> QED BY <1>1, <1>2, <1>3, <1>6, <2>1 DEF WorkInv, Active, Owns
<1>8. Pending = {fd} /\ Pending' = {}
  BY <1>2, <1>3 DEF Pending
<1>9. TypeOK' /\ QueueInv'
  <2>1. r_i' \in Ids
    BY <1>1, <1>3, NextEntry, Sizes DEF TypeOK
  <2> QED BY <1>1, <1>3, <1>6, <2>1 DEF TypeOK, QueueInv
<1>10. EntryInv'
  BY <1>1, <1>3, <1>6, <1>7 DEF EntryInv
<1>11. LockInv'
  BY <1>1, <1>3 DEF LockInv, RHolds
<1>12. WorkInv'
  <2>1. s_pc = "closing" => s_i \in Ids /\ s_i # i /\ SM'[s_i] = SM[s_i]
    BY <1>1, <1>2, <1>3, <1>6 DEF LockInv, RHolds, TypeOK
  <2> QED BY <1>1, <1>3, <2>1 DEF WorkInv, Closing, Active, Owns
<1>13. OwnedInv'
  <2>1. \A j \in Ids : Owns(j)' => fd_addr'[SM'[j].sockfd] # "none"
    BY <1>1, <1>3, <1>6, <1>7, <1>8 DEF OwnedInv
  <2>2. \A j, k \in Ids :
          Owns(j)' /\ Owns(k)' /\ SM'[j].sockfd = SM'[k].sockfd => j = k
    BY <1>1, <1>6, <1>7, <1>8 DEF OwnedInv
  <2>3. ASSUME NEW g \in Fds, fd_addr'[g] # "none"
        PROVE  \E j \in Ids : Owns(j)' /\ SM'[j].sockfd = g
    <3>1. CASE g = fd
      BY <1>6, <1>7, <3>1
    <3>2. CASE g # fd
      <4>1. PICK j \in Ids : Owns(j) /\ SM[j].sockfd = g
        BY <1>1, <1>3, <1>8, <2>3, <3>2 DEF OwnedInv
      <4> QED BY <1>7, <4>1
    <3> QED BY <3>1, <3>2
  <2> QED BY <1>8, <2>1, <2>2, <2>3 DEF OwnedInv
<1> QED BY <1>6, <1>9, <1>10, <1>11, <1>12, <1>13 DEF IInv

-----------------------------------------------------------------------------
(* The theorems *)

LEMMA NextKeeps == IInv /\ [Next]_vars => IInv'
<1> SUFFICES ASSUME IInv, [Next]_vars PROVE IInv'
  OBVIOUS
<1>1. CASE Users
  <2>1. PICK p \in Procs :
          \/ k_socket(p) \/ k_bind(p) \/ k_close(p) \/ Exit(p)
          \/ KilledInSocket(p) \/ KilledInBind(p) \/ KilledInCall(p)
    BY <1>1 DEF Users
  <2> QED BY <2>1, SocketStep, BindStep, CloseStep, ExitStep, KilledStep
<1>2. CASE ThreadR
  BY <1>2, CopyStep, SelectStep, SkipStep, FindStep, ReceiveStep, DispatchSkipStep,
     DispatchCloseStep, RCloseStep, BindSucceedStep, BindNothingStep, RBindStep
     DEF ThreadR
<1>3. CASE ThreadS
  BY <1>3, PassStep, FinStep, GiveUpStep, SCloseStep DEF ThreadS
<1>4. CASE ThreadG
  BY <1>4, MarkStep DEF ThreadG
<1>5. CASE UNCHANGED vars
  <2>1. TypeOK' /\ QueueInv' /\ EntryInv'
    BY <1>5 DEF locks, vars, users, kernel, threadR, threadS, IInv, TypeOK, QueueInv,
                EntryInv, Active, Owns
  <2>2. LockInv' /\ WorkInv' /\ OwnedInv'
    BY <1>5 DEF locks, vars, users, kernel, threadR, threadS, IInv, LockInv, RHolds, WorkInv,
                OwnedInv, Active, Owns, Closing, Pending
  <2> QED BY <2>1, <2>2 DEF IInv
<1> QED BY <1>1, <1>2, <1>3, <1>4, <1>5 DEF Next

THEOREM Invariance == Spec => []IInv
BY InitHolds, NextKeeps, PTL DEF Spec

\* The queues hold packets of the two types, up to their limit, and every other
\* variable of the table, the processes, the kernel and the threads has its type.
THEOREM TypeCorrectness == Spec => []TypeOK
<1>1. IInv => TypeOK
  BY DEF IInv
<1> QED BY <1>1, Invariance, PTL

\* Whichever thread closes a socket, and however descriptors are reused: the open UDP
\* sockets are those of the bound entries in use, one to each, and the one that R is
\* about to store; an entry that was half made when its process was killed in k_socket
\* has none, and nobody gets its semaphore.
THEOREM OneDescriptorEach == Spec => []DescriptorsOwned
<1>1. IInv => DescriptorsOwned
  <2> SUFFICES ASSUME IInv PROVE DescriptorsOwned
    OBVIOUS
  <2>1. EntryInv /\ WorkInv /\ OwnedInv /\ LockInv
    BY DEF IInv
  <2>2. Pending \subseteq Fds
    BY <2>1 DEF Pending, WorkInv
  <2>3. OpenFds \subseteq {SM[i].sockfd : i \in {j \in Ids : Owns(j)}} \cup Pending
    BY <2>1 DEF OpenFds, OwnedInv
  <2>4. {SM[i].sockfd : i \in {j \in Ids : Owns(j)}} \cup Pending \subseteq OpenFds
    BY <2>1, <2>2 DEF OpenFds, OwnedInv, EntryInv
  <2>5. \A i \in half_made : Locked(i)
    BY <2>1 DEF LockInv, Locked
  <2> QED BY <2>1, <2>3, <2>4, <2>5 DEF DescriptorsOwned, OwnedInv
<1> QED BY <1>1, Invariance, PTL

\* While R is blocked in recvfrom, and while R or S is half-way through CLOSE_SOCKET,
\* nobody else closes the socket it works on or frees its entry.
THEOREM StaysOpenInUse == Spec => []InUseStaysOpen
<1>1. IInv => InUseStaysOpen
  BY HeldBound DEF IInv, TypeOK, EntryInv, WorkInv, OwnedInv, InUseStaysOpen, OpenFds
<1> QED BY <1>1, Invariance, PTL
=============================================================================
