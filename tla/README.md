# Networks lab: a formal model

TLA+ modules for the networked programs of this repository, TLC configurations that
check them on small instances, and machine-checked proofs about the core protocol.
Names in the modules are the names of the C code where TLA+ allows it.

## 1. The system and its components

The repository is a set of independent programs. The largest, and the core of this
project, is KTP (A4): a reliable transport over UDP, made of a library that user
programs link and one daemon per host.

| component | state | operations | interaction |
|---|---|---|---|
| KTP windows, A4/ksocket.h | `struct window`: a ring with base, size, sequence numbers | init, slide, search | two per socket |
| KTP transfer, A4/ksocket.c, initksocket.c | buffers, both windows, `nospace` | k_sendto, k_recvfrom, DATA, ACK, window update, retransmission | user calls and daemon threads R and S share the entry under its semaphore; packets between daemons |
| KTP socket life cycle, same files | table SM, semaphores, UDP descriptors, `master` | k_socket, k_bind, k_close, binding, FIN, FAK, garbage collection | processes, threads R, S, G, kernel |
| KTP user programs, A4/user1.c, user2.c | a file | send or receive until the end marker | the library |
| Task queue, A5 | ring in shared memory, one `pending_task` per child | load, hand out, take a result, put back | parent forks a child per client; TCP |
| Discovery, A7 | lists of servers and of requests, mutex | HELLO, QUERY, RESPONSE, drop inactive | two threads of the client; raw IP |
| Number game, LT1 | slots, descriptor set, numbers of the round | accept, take a number, close, announce | one select loop; TCP; the kernel's descriptors |
| Mail, A6 | session per connection, mailbox files | HELO, MAIL FROM, RCPT TO, DATA, LIST, GET_MAIL, QUIT | a child per client; the children share the files, without locks |
| Encryption, A3 | key, file, copy | rounds of a key and a file, and an encrypted file back | a child per client, which share nothing; byte streams |
| Word file, A2 | open file, response file | one word per request, timeout | UDP, one server for all clients |
| UDP logger, LT2 | log file | log and answer a packet | UDP |

What is hard: in KTP, loss, repetition and reordering of packets with sequence numbers
that wrap (32 numbers for a window of 10), timers that race ACKs, three threads and many
processes on one table, descriptors and table entries that are reused, processes that
die at any point; in A5, clients that vanish, time out or answer late, and a ring at its
limit; in A7, two threads on lists of which only part of the use is locked; in LT1, clients that
leave while their descriptors stay in use; in A6 and A3, the boundaries of mails, keys and
files in what is just bytes; in A2, lost datagrams that nobody sends again. What makes
each component correct is stated with the runs below; PROJECT.json lists every hazard
at its line.

## 2. The modules

    KTPWindow <- KTPTransfer -> KTPPipe        (refinement: PipeSpec)
                     ^
                 KTPTransferProofs
    KTPSocket   <- MCKTPSocket,  KTPSocketProofs
    TaskQueue   -> TaskPool                    (refinement: PoolSpec)
                <- TaskQueueProofs
    Cldp        <- MCCldp,  CldpProofs
    ChatGame    <- ChatGameProofs
    Smtp        -> MailStore                   (refinement: MailStoreSpec)
                <- MCSmtp,  SmtpProofs
    EncFile     <- MCEncFile,  EncFileProofs
    WordFile    <- MCWordFile,  WordFileProofs

Each of the eight Proofs modules EXTENDS the module it is about and holds its theorems.

Each module ends in its properties. Definitions that a comment calls a *fault* are not part
of any specification: each is a plausible bug that a property must notice.

**KTPWindow** is the ring of `struct window`. `At`, `Offset`, `IsFirstHit` are the loops
`j = base, ctr = 0; ctr < size`; `Slide` is what both ends do to their window.

**KTPTransfer** is one direction of a connection: `k_sendto`, the two loops of thread S
(split packet by packet, since packets arrive while it holds the semaphore), the ACK
branch of thread R; on the other side the DATA branch, the window update at a select
timeout and `k_recvfrom`; between them two channels. A DATA or ACK branch is one action,
for it runs under the semaphore of the socket. Message *n* has payload *n*. The timer of
a slot is `Unset` or `Armed`; when an armed one ends is left open. `sent`, `acked`,
`delivered` and the field `upto` of an ACK are history.

**KTPPipe** says what the two applications see: a pipe with at most `Bound` messages
inside.

**KTPSocket** is the table SM with all entries of one daemon, both ends of the connections
included as in `make runuser`; the processes; the kernel's descriptors with their
addresses and queues; thread R (copy of `master`, select, scan, recvfrom, dispatch, bind),
the part of thread S that closes sockets, thread G. An entry is only touched under its
semaphore, so that a locked stretch is one action, except for recvfrom, which may block
while R holds the semaphore, and for the updates of `master`, which no semaphore protects
and which are a read and a write here. A failed select (EBADF, a closed descriptor in the
set) leaves the set as it was. `bind` with the zero address of a fresh entry succeeds with
an address of the kernel's choice, as on Linux. A process may be killed in any call, after any
of its writes (`KilledInSocket`, `KilledInBind`, `KilledInCall`), and keeps the semaphore. Killed in
k_socket between is_free = false and the end it leaves an entry that is in use and, before
is_bound = false, still has the flag and the closed descriptor of the socket before; `half_made`
(history) names these entries.

**TaskQueue** is the parent, the children and the clients of A5. A section under the
semaphore is one action; the refusal "No tasks available" is sent after it, and so an action of
its own (`NothingToHandOut`, then `RefuseTask`), before which another child may put a task back: the
history `back` says which. A task is its line number and so is its result. `accept` may
fail, since its length argument is never initialized. What the loop of `load_tasks` leaves in
the ring is written in closed form (`Loaded`: the last line that went to a slot, `LastLine`), so
that proofs can use it. **TaskPool** is the promise: each task
is waiting, with one client, or done.

**Cldp** is both threads of the discovery client, its lists as sequences of heap nodes, and
the servers and network. Freed nodes may be given out again. Main follows a request it has found after it
has released the mutex, which ends in a crash or in a mismatch when the node is free; Query adds a
request (`AddRequest`) and reads its number after that (`SendQuery`), which is `Garbage` when main
has deleted it in between. `Without` is the loop that unlinks nodes. Of time, it matters whether the last HELLO of a server is too
old (`stale`).

**ChatGame** is the loop of chatserver.c: each pass is a `select` with what follows it (`Accept`,
`Hear`, `HearError`, `HearEnd` or `Idle`), then the part that starts the game or announces a
maximum (`StartGame`, `Announce`, `AskNext`, `NothingToJudge`). `client_addr` is the address that
accept and getpeername write. `conn` is the kernel's descriptor
table, lowest first; a closed descriptor stays in its slot and in `master`, as in the code.
A connection remembers how far its end has got on the server's side (`fin`, `rst`, `gone`),
for that decides whether a send fails, or kills the server. `numbers` starts with `Garbage`, since the
array is never initialized. `heard` and `announced` are history.

**Smtp** is the mail server with its children, one action per command: a client waits for its
answer, and children share only the files. DATA is two actions, fopen and fclose, because the
file exists in between and is empty, or lacks the mail. A child may be killed in between
(`Killed`), and a write may fail, which nobody notices and the answer does not tell (`Store`). The file is
the sequence of its lines, as far as LIST and GET_MAIL tell them apart, or the constant `Absent`;
`ListOf` and `MailAt` are their loops. A list of more than `ListRoom` mails runs over its buffer and
ends the child (`LISTOverrun`). **MailStore** is
the promise: mails from the session's domain to mailboxes that hold them in order.

**EncFile** is one connection of A3, byte by byte: what recv returns is any first part of the
stream up to the buffer, `KeyThenFile` divides it, `Ends` looks for NUL. Both sides send a byte when
the stream has room for it (`SendByte`, `SendCipher`) and receive nothing meanwhile, as the blocking
send has it. `Encrypted` stops at the byte 255, which a `char` cannot tell from EOF. **WordFile** is the server and the clients of A2 with
their datagrams. `FileAfter` is what the client has printed to fp, which HELLO opens anew;
`LeftAfter` keeps the streams that a further HELLO leaves open. All of it is in stdio's buffers
until FINISH closes fp and the exit flushes the others, each from the start of the file on, the
newest first as the C libraries do: `ResponseFile` lays their bytes over each other.

## 3. What the runs check

| run | question | result |
|---|---|---|
| Transfer | safety, refinement and delivery over lossy channels in order, W = 2, 4 numbers, 5 messages; the invariant of the proofs | holds; delivery up to a standstill |
| TransferReorder | core safety when packets overtake each other, no number used twice | holds |
| TransferStall | reliable delivery with loss | **violated** |
| SocketSafety | descriptors are owned, none is closed in use; with processes killed at any point inside calls | holds |
| SocketLive | closed and abandoned entries are freed, with two exceptions | holds |
| Task | tasks are conserved, results match, TaskPool is implemented, tasks come back, requests are answered | holds |
| CldpSafety | the lists and the heap agree, no duplicates | holds |
| CldpLive | stopped servers are dropped, running ones found | holds |
| ChatGame | the maximum covers all numbers of the round, and numbers are heard, while clients leave and descriptors are reused | holds, with exceptions |
| Smtp | LIST and GET_MAIL find what DATA stored, MailStore is implemented, commands are answered | holds, with an exception |
| EncFile | each copy is its file under its key, no round hangs | holds for files without NUL; with one, rounds hang only when both sides wait in send |
| WordFile | a client that finishes has printed the whole file, its response file has it after one HELLO, and every client ends | holds, with exceptions |

TransferStall is a disagreement of code and documentation, which "findings" in PROJECT.json
quotes. The other models contain what follows too, and the properties that hold make room for it:

* The peer's FIN frees an entry while its process still holds the handle; after another process
  has got the entry, the k_close of the first one closes it (ksocket.c:161), though
  documentation.txt:42 says "closed by user". Likewise its k_bind overwrites the addresses of
  the new owner: that a bound entry has the addresses its owner asked for is false once there
  are four calls of k_socket, and is not among the properties.
* With exactly MAXTASKS tasks in tasks.config, `front == rear` takes the full ring for an empty
  one and the first client is told that there is none (taskqueueserver.c:258). NoneMeansNone holds
  with fewer (`Lines < MAXTASKS`).
* main of cldp_client.c uses a request after it has released the mutex. If Query has dropped
  it meanwhile and its memory serves a new request, main deletes that one (cldp_client.c:279),
  whose answer is then called malformed; deleted before Query reads its number
  (cldp_client.c:188), it goes out with a number that no request has. No property excludes either;
  NodesLinked says that the lists survive both.
* The window update leaves `nospace` set, although the comment in initksocket.c says that it
  resets the flag: it is repeated at every timeout until the next DATA packet.
* R may bind an entry between k_socket and k_bind, to an address of the kernel's choice. The
  k_bind that follows stores the address asked for, but the UDP socket keeps the kernel's, though
  ksocket.h:101 says "It binds the UDP socket with the source IP and source port".
* A FAK closes whichever socket has the addresses, whether it has sent a FIN or not.
* R ignores what select returns. If S closes a descriptor after R has copied `master`,
  select fails, the set stays full, and R may block in recvfrom on an idle socket (`Blocked`
  in ReleasedUnlessStuck).
* S looks at `is_closed` only for bound entries, so that one whose address stays in use is never
  freed (`BindFails` in ReleasedUnlessStuck). A process killed between wait_sem and
  signal_sem leaves its entry locked, and the threads wait behind it; SocketLive is
  therefore without such deaths (CrashInCall).

* LT1: once a client has left, its closed descriptor makes every select fail, the listening
  socket seems ready, and the server waits in accept until somebody connects (`Stuck` in
  HeardUnlessOuttalked). A newcomer gets that descriptor and is found at the old slot, which has
  is_closed set; beyond MAXCLIENTS, too, where the game lets it play. Its new slot is then never
  heard, and the round never ends. The maximum runs over the numbers of all slots,
  of clients that have left as well, even numbers never written; MaximumIsRight therefore
  promises a number of the round only while no slot is closed; a round whose clients have all left
  announces whatever the array holds. getpeername (chatserver.c:145) fails at a slot that is closed
  or whose connection has been reset, nobody looks at its result, and the maximum is announced with the address
  that the last accept or getpeername left (`client_addr`, `AddressAt`). The second message to a client that
  has left ends the server (SIGPIPE). A client that keeps sending starves later slots (`Outtalked`).
* A6: GET_MAIL with number 0 on a mailbox that has been created and not yet written gets no
  answer, and client and child wait for each other (SilentOnlyDuringDATA); a child killed in DATA,
  or a write that fails, leaves such a mailbox for good. DATA is answered 200 though the write failed.
  From about seven mails on, LIST overruns the 300 bytes of its answer.
* A3: what follows a NUL in the same recv is lost, so that after a file with a NUL the rounds
  may be out of step (`torn`); a byte 255 ends the encryption of the file. A long file with a NUL near
  its start deadlocks both sides in send, since neither receives while it sends (`Jammed`).
* A2: requests of all clients read from the same file, so that each gets a part of the
  words; without FINISH the last word is sent for ever. A second HELLO in the file opens the
  response file again and leaves the first stream open, whose lines go over the new ones at the exit:
  HELLO, lab, HELLO, FINISH leave HELLO, lab and the last two letters of FINISH.

**Bounds.** *Transfer*: two slots are the least with a window that is partly full and two
open messages that may arrive in either order; MAXSEQ = 2 W is the least the assumption
allows (the code has 32 for W = 10), so five messages wrap both the numbers and the ring. `Cap` bounds packets under way above one window of data and one of ACKs.
The reordering run uses numbers that do not wrap: with reordering without bound and reuse
of numbers, an old copy is indistinguishable from a new message in every such protocol,
and UDP on one host keeps order. *Socket*: two entries, two processes, two addresses and
three opens give a connection whose one end is reused while packets of the old one are
under way; one queued packet per socket suffices for a late FAK. SocketLive has one
process that opens both ends. *Task*: three slots and two tasks, so that the ring wraps
as soon as one task comes back, and two clients, so that one gives up and the other finishes.
*Cldp*: two servers, two requests and four nodes, so that a freed request is reused by
another's. *ChatGame*: three clients for two slots, so that one is too many and one can take
the descriptor of another; two numbers and a greater one as garbage. *Smtp*: two sessions on two
mailboxes of two domains and three mails, so that a mailbox is read while it is created, is appended
to, gets mails from both, and has one more than the two for which LIST has room. *EncFile*: a key of two letters and a buffer of three bytes, so that
one recv can hold the end of a key with a whole short file, or the NUL with what it loses; streams
with room for four bytes and three, less than one of the files, so that both sides can wait in send; a third
round starts from what two left behind. *WordFile*: two clients and two servers, files of
up to four words, which may repeat HELLO and have FINISH anywhere or not at all; the lines have
their real sizes, so that streams end in the middle of each other's lines.

CHECK_DEADLOCK is off where the system stops legally: processes, clients or queries are
used up while R may be blocked in recvfrom, or a program has ended.

**Fairness.** Threads keep running (their loops have no exit), so they are weakly fair. In
KTPTransfer, a timer that stays armed ends (strong on BeginRetransmit, because another
action may intervene), the receiving application keeps reading, and a message sent again
and again gets through once, since `dropMessage` throws the dice for every packet anew. In
KTPSocket the period T after a FIN ends. In TaskQueue, the user owes nothing; a client
that waits reads. In Cldp, servers that run broadcast, not every
HELLO is lost, and the clock advances, so that a silent server is one day found too old at
the moment Query reads it. In ChatGame the loop of the server goes on (as a whole: what it
serves is the code's choice, not fairness); in EncFile both programs read what is there and send while there is room; in
WordFile they do too, and a client's timeout ends when nothing for it is under way. No user, crash or loss is ever owed, except that packets of Cldp
do not stay under way for ever.

## 4. What is proved

The theorems hold for all values of the constants that satisfy the named assumptions of the
modules: windows, tables, rings, sets of clients, files and bounds of any size. In each module
`Invariance` is `Spec => []IInv` for an inductive invariant IInv, with one lemma per action, and
`TypeCorrectness` is `Spec => []TypeOK`. What the invariants add to the properties, and why
it is needed:

**KTPTransferProofs**, for packets that keep their order (`~Reordering`): `InOrder`,
`SafeToForget` (NothingForgotten) and `ImplementsPipe`. WindowAssumption asks for MAXSEQ >= 2
WINDOWSIZE; the code has 32 and 10. TypeOK and InOrderDelivery say nothing of what slots and
packets mean, so IInv does: slot j of the send window
stands for message `acked + Offset + 1`, and of the receive window for the message at the
same distance from what was received in order (SenderInv, ReceiverInv); acked is at most what
was received (AgreementInv); every DATA packet under way carries the number of its message,
which lies in a stretch of 2 WINDOWSIZE around the receiver's position (DataInv), and
the ACKs under way are ordered by what they stand for (AckInv). With MAXSEQ
>= 2 WINDOWSIZE a number within such a stretch determines its message (SeqInjective,
`DataHitsItsMessage`, `AckHitsItsMessage`). The module begins with the arithmetic of the
ring: KTPWindow's NthSeq, At, Offset and Slide.

On top of it, in the same module and under the same condition: `FlowControl` (NoOverrun),
`AckIsFound` (NewAckIsFound) and `EdgeMonotone` (EdgeNeverRetracts). The size of the send
window is what some ACK said, and ACKs are of different times. The invariant follows the right
edges (EdgeInv): what the sender may send is at most what the receiver has room for (WindowEdges), so
is what is under way (DataEdges), and the edges that the ACKs under way tell lie between the two
and never move back (AckEdges).

**KTPSocketProofs**: `OneDescriptorEach` (DescriptorsOwned) and `StaysOpenInUse`
(InUseStaysOpen). The threads find an entry under its semaphore and use a descriptor
that they have read from it; the invariant says which of them holds a semaphore, or died
holding it (LockInv), that what R and S have found still holds (WorkInv), and whose each
open descriptor is, entry by entry and with those between creation and assignment (OwnedInv).
Entries half made by a killed process are exempt: their flags are stale, and LockInv says that their
semaphore is held for good.

**TaskQueueProofs**, for files with fewer tasks than the ring has slots (`Lines < MAXTASKS`;
with as many, the property is false, see above): `TasksInOnePlace` (InOnePlace),
`ResultsAreRight` (RightResult), `NoneAvailable` (NoneMeansNone) and `ImplementsPool`, every step
of the server a step of TaskPool or a stutter. The slots between front and rear hold different
tasks that no child has (QueueInv), no two children have the same (HolderInv), none is lost
(NoneLost), while a child is about to refuse every task is done, held or put back since it has
looked (RefusalInv), and what a client computed last is the task that its child has pending unless the task
is still under way (MessageInv). That the ring has a free slot when a task comes back is a
pigeonhole argument (`RoomForOne`).

**CldpProofs**: `NoNodeIsLost` (NodesLinked) and `ListedOnce` (OneEach), whichever node main
deletes. The two properties are nearly inductive; what is missing are the places of main
and Query (ThreadsInv) and that no request has a number not yet given out (NumbersInv). What `Without`
computes is an induction over the list.

**ChatGameProofs**, for any finite set of clients and any contents of each element of the array
at first:
`MaximumAnnounced` (MaximumIsRight). A connection has one descriptor or waits once (ConnInv), so that
there is always a free one for it, by counting; the numbers heard stay in their slots to the end
of the round (HeardInv), and as long as no slot is closed each client has one slot, with its
number (OpenInv), so that a wrong name needs a getpeername that fails.

**SmtpProofs**: `MailsFound` (MailsAreFound), `SilenceNeedsDATA` (SilentOnlyDuringDATA) and
`ImplementsMailStore`, for any bodies without a separator. A child that stores has all names, a body
and an open file (StoringInv), and a file is empty or ends with a separator; an empty one has a child
that is about to write to it, or one that ended or failed without writing (FileInv). MailsInv says that each file
is laid out as the mails of `box`: there are positions between which lie a From line, a Date line, the
body and a separator. From this follow, by inductions over the positions and over the
mails, what the loops of LIST and of GET_MAIL find, though bodies may have lines like headers.

**EncFileProofs**, for keys, buffers, streams and files of any length: `CopiesAreRight` (CopyIsRight).
RoundInv divides a round into Idle, Announced (the client has begun to send), Uploading (the server
has put the first p bytes where they belong), Uploaded, Downloading (the client has written the first
p bytes) and Done. It speaks of `Up` and `Down`, what is in a stream with what has yet to be sent, which
no send changes; and of rounds that no NUL has put out of step (`torn`), as the property is.

**WordFileProofs**: `WholeFiles` (WholeFile). The invariant follows a client that has been alone
with the servers that ran (ClientInv). It has at most one request or answer under way. Either it is
in step with the server, which has read the first p words while fp was given those from the last
HELLO on, the streams left open are those of earlier HELLOs (IsLeft), and the next request or the p-th word is under way (Asked, Answered); or nothing of it
is under way (Silent); or the server has another file, none, or is at the end, so that no FINISH will
come (OutOfStep). A server that has answered nobody has not opened the file (ServerInv).

Inductions are over sets of natural numbers, from the library's theorem that < is
well-founded (`LeastNat`, `SetInduction`).

Only model-checked: all liveness properties, which are out of the prover's reach; and the run with reordering, which is outside the assumption `~Reordering`: there its
properties hold as long as no number is used twice, and not beyond.

## 5. Not modelled

* Payload bytes, packet layout, printing; the end marker and strlen in the user programs, which a chunk
  that begins with the marker, has a NUL or fills its 512 bytes confuses.
* Real time: that a timer runs 2T, and that binding waits for a quiet 0.1 s.
* A closed socket's unsent or unread messages, and packets of an earlier connection that reach
  the windows of the next: KTPTransfer and KTPSocket are not composed. The code has nothing
  there that could be right or wrong: it neither waits for the data nor tells connections apart.
* SIGINT and SIGSEGV handlers, which end the whole program; failures of shmget and the like,
  at which the programs exit.
* A5: children that are killed, and the parsing of `tasks.config`.
* A7: a second client on the same host, servers with several addresses, the contents of
  RESPONSE.
* LT1: the texts, the number of the round, failures of accept; chatclient's end when the server
  has died.
* A6: dates and texts; commands, names and mails longer than their buffers; a write that fails
  after a part of the mail; what an overrun of LIST's buffers does other than end the child; errors
  of recv and send.
* A3: lower-case letters; a file or connection that fails to open.
* A2: names and words longer than a buffer; files longer than stdio's buffer (4096 bytes), of which
  parts are written earlier; clients that write to the same response file.
* LT2: each packet is logged and answered by itself, and nothing is read again; no order of
  steps could change anything worth stating.
* The sample code of the course.

## 6. Plan

All components but LT2 are modelled, and every safety property that a run checks is proved. What
is left:

1. KTPTransfer with reordering and numbers that are not used twice (MAXSEQ >= MaxMsgs):
   TypeOK, InOrderDelivery and NothingForgotten, as TransferReorder checks them. DataInv and
   SenderInv stay; AckInv loses the order of the channel, so that acked follows the greatest ACK.
2. The liveness properties stay with TLC.
