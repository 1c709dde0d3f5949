-------------------------------- MODULE Smtp --------------------------------
(***************************************************************************)
(* The mail server of A6, mysmtp_server.c, with the sessions of its        *)
(* clients.  The server forks a child for each client; the children share  *)
(* the mailbox files and nothing else.                                     *)
(*                                                                         *)
(* A child works on one command at a time and its client waits for the     *)
(* answer, so that a command is sent, executed and answered in one action, *)
(* except for DATA: fopen creates the file, and fclose writes the mail to  *)
(* its end, in one go, for a mail fits in the buffer of the stream.  The   *)
(* lines of a file are kept as far as the two loops that read them tell    *)
(* them apart; the date and the text of a mail are left out.  A mail and   *)
(* each line fit in the buffers that hold them; a list of mails may not.   *)
(***************************************************************************)
EXTENDS Integers, FiniteSets, Sequences

CONSTANTS
    Sessions,       \* connections at the same time, each with its child
    Domains,
    Addresses,
    DomainOf,       \* the domain of each address
    Absent,         \* what stands for the file of an address that has none
    Bodies,         \* the bodies that are sent, as the lines that the loops see
    ListRoom,       \* the mails whose list fits in the buffers of LIST
    MaxMails        \* bound: the mails that are sent

ASSUME SmtpAssumption ==
    /\ DomainOf \in [Addresses -> Domains]
    /\ "none" \notin Domains \cup Addresses
    /\ MaxMails \in Nat /\ ListRoom \in Nat

VARIABLES
    pc,             \* each child
    domain, from, to,               \* its variables, or None
    message,        \* the body of the mail that it is storing
    file,           \* the mailbox file of each address, or Absent
    reply,          \* the last answer of a child to its client
    sent,           \* the number of mails, for the bound
    box,            \* history: the mails that were stored for each address
    unwritten       \* history: the addresses of which a file was opened in vain

session == <<domain, from, to>>
boxes == <<file, box, unwritten>>
vars == <<pc, session, message, boxes, reply, sent>>

-----------------------------------------------------------------------------
(* The lines of a mailbox *)

None == "none"
Invalid == "no dot"     \* a domain that validate_domain refuses

FromLine(a) == [kind |-> "From: ", of |-> a]
DateLine == [kind |-> "Date: "]
TextLine == [kind |-> "text"]
SEPERATOR == [kind |-> "."]

FileLines == {FromLine(a) : a \in Addresses \cup {Invalid}}
                 \cup {DateLine, TextLine, SEPERATOR}

ASSUME AbsentAssumption == Absent \notin Seq(FileLines)

\* The client takes a line with a single dot for the end, so that no body has
\* one, but lines that look like headers it sends as they are.
ASSUME BodyAssumption == Bodies \subseteq Seq(FileLines \ {SEPERATOR})

\* The lines that are read when a's file is opened.
Lines(a) == IF file[a] = Absent THEN <<>> ELSE file[a]

\* The first line of a kind after line i, or the line after the last.
NextOf(kind, lines, i) ==
    LET later == {j \in i + 1 .. Len(lines) : lines[j].kind = kind}
    IN  IF later = {} THEN Len(lines) + 1
        ELSE CHOOSE j \in later : \A k \in later : j <= k

\* Fault: email is not cleared after a mail.
ListOfKeepsEmail(lines) ==
    LET email == NextOf("From: ", lines, 0)
        rest[i \in 0 .. Len(lines)] ==
            LET date == NextOf("Date: ", lines, IF i = 0 THEN email ELSE i)
                end == NextOf(".", lines, date)
            IN  IF end > Len(lines) THEN <<>>
                ELSE <<lines[email].of>> \o rest[end]
    IN  rest[0]

\* What LIST answers: the sender of each mail.  Its loop looks for a sender, then
\* for a date, then for a separator, and begins again.
ListOf(lines) ==
    LET rest[i \in 0 .. Len(lines)] ==
            LET email == NextOf("From: ", lines, i)
                date == NextOf("Date: ", lines, email)
                end == NextOf(".", lines, date)
            IN  IF end > Len(lines) THEN <<>>
                ELSE <<lines[email].of>> \o rest[end]
    IN  rest[0]

\* GET_MAIL counts separators only.
Count(lines) == Cardinality({i \in DOMAIN lines : lines[i] = SEPERATOR})

EndOf(lines, id) ==
    IF id = 0 THEN 0
    ELSE CHOOSE i \in DOMAIN lines :
            lines[i] = SEPERATOR /\ Count(SubSeq(lines, 1, i)) = id

MailAt(lines, id) == SubSeq(lines, EndOf(lines, id - 1) + 1, EndOf(lines, id) - 1)

-----------------------------------------------------------------------------
(* The commands.  One that is refused changes nothing. *)

Ready(c) == pc[c] = "recv"

Answer(c, code, data) == reply' = [client |-> c, code |-> code, data |-> data]

\* accept and fork.
Connect(c) ==
    /\ pc[c] = "absent"
    /\ pc' = [pc EXCEPT ![c] = "recv"]
    /\ UNCHANGED <<session, message, boxes, reply, sent>>

\* Fault: any domain will do.
validate_nothing(d) == TRUE

validate_domain(d) == d # Invalid

HELO(c) ==
    /\ Ready(c)
    /\ \E d \in Domains \cup {Invalid} :
         IF domain[c] # None
         THEN Answer(c, 403, <<>>) /\ UNCHANGED domain
         ELSE IF ~validate_domain(d)
         THEN Answer(c, 400, <<>>) /\ UNCHANGED domain
         ELSE domain' = [domain EXCEPT ![c] = d] /\ Answer(c, 200, <<>>)
    /\ UNCHANGED <<pc, from, to, message, boxes, sent>>

\* check_domain keeps other domains' addresses out.
MAILFROM(c) ==
    /\ Ready(c)
    /\ \E a \in Addresses :
         IF domain[c] # None /\ from[c] = None /\ DomainOf[a] = domain[c]
         THEN from' = [from EXCEPT ![c] = a] /\ Answer(c, 200, <<>>)
         ELSE Answer(c, 403, <<>>) /\ UNCHANGED from
    /\ UNCHANGED <<pc, domain, to, message, boxes, sent>>

RCPTTO(c) ==
    /\ Ready(c)
    /\ \E a \in Addresses :
         IF domain[c] # None /\ to[c] = None
         THEN to' = [to EXCEPT ![c] = a] /\ Answer(c, 200, <<>>)
         ELSE Answer(c, 403, <<>>) /\ UNCHANGED to
    /\ UNCHANGED <<pc, domain, from, message, boxes, sent>>

MayStore(c) == domain[c] # None /\ from[c] # None /\ to[c] # None

DATARefused(c) ==
    /\ Ready(c)
    /\ ~MayStore(c)
    /\ Answer(c, 403, <<>>)
    /\ UNCHANGED <<pc, session, message, boxes, sent>>

\* fopen with "a+", which may fail.
DATA(c) ==
    /\ Ready(c)
    /\ MayStore(c)
    /\ sent < MaxMails
    /\ \/ /\ message' \in {[message EXCEPT ![c] = b] : b \in Bodies}
          /\ file' = [file EXCEPT ![to[c]] = Lines(to[c])]
          /\ pc' = [pc EXCEPT ![c] = "store"]
          /\ sent' = sent + 1
          /\ UNCHANGED reply
       \/ /\ Answer(c, 500, <<>>)
          /\ UNCHANGED <<pc, message, file, sent>>
    /\ UNCHANGED <<session, box, unwritten>>

Mail(c) == <<FromLine(from[c]), DateLine>> \o message[c] \o <<SEPERATOR>>

\* Fault: the recipient is kept for the next mail.
ForgetFrom(c) == from' = [from EXCEPT ![c] = None] /\ UNCHANGED to

ForgetNames(c) ==
    /\ from' = [from EXCEPT ![c] = None]
    /\ to' = [to EXCEPT ![c] = None]

\* fprintf, fclose and the answer, which is the same when the write fails: nobody
\* looks at what they return.
Store(c) ==
    /\ pc[c] = "store"
    /\ \/ /\ file' = [file EXCEPT ![to[c]] = @ \o Mail(c)]
          /\ box' = [box EXCEPT ![to[c]] =
                       Append(@, [from |-> from[c], body |-> message[c]])]
          /\ UNCHANGED unwritten
       \/ /\ unwritten' = unwritten \cup {to[c]}
          /\ UNCHANGED <<file, box>>
    /\ ForgetNames(c)
    /\ message' = [message EXCEPT ![c] = <<>>]
    /\ pc' = [pc EXCEPT ![c] = "recv"]
    /\ Answer(c, 200, <<>>)
    /\ UNCHANGED <<domain, sent>>

\* A mailbox of the session's domain; fopen may fail for want of the file or
\* otherwise.
MayRead(c, a) == domain[c] # None /\ DomainOf[a] = domain[c]

ReadRefused(c, a) ==
    \/ ~MayRead(c, a) /\ Answer(c, 403, <<>>)
    \/ MayRead(c, a) /\ file[a] = Absent /\ Answer(c, 404, <<>>)
    \/ MayRead(c, a) /\ Answer(c, 500, <<>>)

\* What the buffers of LIST and send_response have no room for.
TooLong(a) == Len(ListOf(file[a])) > ListRoom

LIST(c) ==
    /\ Ready(c)
    /\ \E a \in Addresses :
         \/ ReadRefused(c, a)
         \/ /\ MayRead(c, a) /\ file[a] # Absent
            /\ ~TooLong(a)
            /\ Answer(c, 200, ListOf(file[a]))
    /\ UNCHANGED <<pc, session, message, boxes, sent>>

\* Fault: there is no mail only when id is greater than the last.
IsGreater(id, lines) == id > Count(lines)

\* After a search without a result.
IsMissing(id, lines) == id # Count(lines)

\* Number 0 of a file without mails is neither found nor reported missing: both
\* sides go on to recv and wait for each other.
GETMAIL(c) ==
    /\ Ready(c)
    /\ \E a \in Addresses, id \in 0 .. MaxMails + 1 :
         \/ ReadRefused(c, a) /\ UNCHANGED pc
         \/ /\ MayRead(c, a) /\ file[a] # Absent
            /\ IF id \in 1 .. Count(file[a])
               THEN Answer(c, 200, MailAt(file[a], id)) /\ UNCHANGED pc
               ELSE IF IsMissing(id, file[a])
               THEN Answer(c, 401, <<>>) /\ UNCHANGED pc
               ELSE pc' = [pc EXCEPT ![c] = "silent"] /\ UNCHANGED reply
    /\ UNCHANGED <<session, message, boxes, sent>>

\* A command without its argument, or an unknown one.
Malformed(c) ==
    /\ Ready(c)
    /\ \E code \in {400, 403} : Answer(c, code, <<>>)
    /\ UNCHANGED <<pc, session, message, boxes, sent>>

\* The child ends.
Exit(c) ==
    /\ pc' = [pc EXCEPT ![c] = "absent"]
    /\ domain' = [domain EXCEPT ![c] = None]
    /\ ForgetNames(c)
    /\ UNCHANGED <<file, box, sent>>

\* The list runs over the end of its buffer, and of that of send_response, which
\* does not return.  The client may have the answer by then.
LISTOverrun(c) ==
    /\ Ready(c)
    /\ \E a \in Addresses :
         /\ MayRead(c, a) /\ file[a] # Absent
         /\ TooLong(a)
         /\ Answer(c, 200, ListOf(file[a])) \/ UNCHANGED reply
    /\ Exit(c)
    /\ UNCHANGED <<message, unwritten>>

QUIT(c) ==
    /\ Ready(c)
    /\ Answer(c, 200, <<>>)
    /\ Exit(c)
    /\ UNCHANGED <<message, unwritten>>

\* The child is killed between fopen and fclose; elsewhere that is like Disconnect.
Killed(c) ==
    /\ pc[c] = "store"
    /\ unwritten' = unwritten \cup {to[c]}
    /\ message' = [message EXCEPT ![c] = <<>>]
    /\ Exit(c)
    /\ UNCHANGED reply

\* recv_until_null returns 0: the client is gone, or has sent an empty line.
Disconnect(c) ==
    /\ pc[c] \in {"recv", "silent"}
    /\ Exit(c)
    /\ UNCHANGED <<message, reply, unwritten>>

-----------------------------------------------------------------------------

Init ==
    /\ pc = [c \in Sessions |-> "absent"]
    /\ domain = [c \in Sessions |-> None]
    /\ from = [c \in Sessions |-> None]
    /\ to = [c \in Sessions |-> None]
    /\ message = [c \in Sessions |-> <<>>]
    /\ file = [a \in Addresses |-> Absent]
    /\ reply = [client |-> None, code |-> 0, data |-> <<>>]
    /\ sent = 0
    /\ box = [a \in Addresses |-> <<>>]
    /\ unwritten = {}

Command(c) ==
    \/ HELO(c) \/ MAILFROM(c) \/ RCPTTO(c) \/ DATARefused(c) \/ DATA(c)
    \/ LIST(c) \/ LISTOverrun(c) \/ GETMAIL(c) \/ QUIT(c) \/ Malformed(c)

Next ==
    \E c \in Sessions :
        Connect(c) \/ Command(c) \/ Store(c) \/ Killed(c) \/ Disconnect(c)

Spec == Init /\ [][Next]_vars

-----------------------------------------------------------------------------
(* Safety *)

\* Every variable keeps its type, whatever commands a client gives.
TypeOK ==
    /\ pc \in [Sessions -> {"absent", "recv", "store", "silent"}]
    /\ domain \in [Sessions -> Domains \cup {None}]
    /\ from \in [Sessions -> Addresses \cup {None}]
    /\ to \in [Sessions -> Addresses \cup {None}]
    /\ \A c \in Sessions : message[c] \in Bodies \cup {<<>>}
    /\ DOMAIN file = Addresses
    /\ reply.code \in {0, 200, 400, 401, 403, 404, 500}
    /\ sent \in 0 .. MaxMails
    /\ unwritten \subseteq Addresses

\* LIST and GET_MAIL, which read a file in different ways, both find in it the
\* mails that were stored, each once, whole and in order, whatever the bodies look
\* like and however children have created and filled the file, or failed to; LIST
\* as long as its answer fits in the buffers.
MailsAreFound ==
    \A a \in Addresses :
        LET lines == Lines(a)
        IN  /\ Len(box[a]) <= ListRoom
                 => ListOf(lines) = [id \in DOMAIN box[a] |-> box[a][id].from]
            /\ Count(lines) = Len(box[a])
            /\ \A id \in DOMAIN box[a] :
                  MailAt(lines, id)
                    = <<FromLine(box[a][id].from), DateLine>> \o box[a][id].body

\* The server keeps the promise of MailStore: a mail is from an address of the
\* session's domain, and each has a sender and a recipient that the session has
\* named for it alone, before or after each other and after refused commands.
MailPromise == INSTANCE MailStore
MailStoreSpec == MailPromise!Spec

\* A command is left without an answer only while another child has created the
\* mailbox and not yet written to it, or after one has failed to.
SilentOnlyDuringDATA ==
    [][ \A c \in Sessions :
          pc'[c] = "silent" /\ pc[c] # "silent"
            => \E a \in Addresses :
                 /\ Lines(a) = <<>> /\ DomainOf[a] = domain[c]
                 /\ a \in unwritten \/ \E d \in Sessions : pc[d] = "store" /\ to[d] = a ]_vars
=============================================================================
