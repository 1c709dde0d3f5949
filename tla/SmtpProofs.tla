------------------------------ MODULE SmtpProofs ------------------------------
(***************************************************************************)
(* Proofs about Smtp, for all sets of sessions, domains and addresses, any *)
(* bodies without a separator and any number of mails.  What LIST and      *)
(* GET_MAIL read is proved from where each mail ends: by induction over a  *)
(* set of numbers, since the library's induction theorems take operators,  *)
(* and over the mails from the last to the first for the loop of LIST.     *)
(***************************************************************************)
EXTENDS Smtp, SequenceTheorems, FiniteSetTheorems, WellFoundedInduction, TLAPS

-----------------------------------------------------------------------------
(* The lines of a file *)

LEMMA Tuples ==
    ASSUME NEW S, NEW x \in S, NEW y \in S
    PROVE  /\ <<x>> \in Seq(S) /\ Len(<<x>>) = 1 /\ <<x>>[1] = x
           /\ <<x, y>> \in Seq(S) /\ Len(<<x, y>>) = 2
           /\ <<x, y>>[1] = x /\ <<x, y>>[2] = y
OBVIOUS

LEMMA BodyLines ==
    /\ Bodies \subseteq Seq(FileLines)
    /\ \A b \in Bodies : \A k \in 1 .. Len(b) : b[k] \in FileLines \ {SEPERATOR}
<1>1. ASSUME NEW b \in Bodies
      PROVE  b \in Seq(FileLines) /\ \A k \in 1 .. Len(b) : b[k] \in FileLines \ {SEPERATOR}
  <2>1. PICK S : S = FileLines \ {SEPERATOR}
    OBVIOUS
  <2>2. b \in Seq(S)
    BY <2>1, BodyAssumption
  <2>3. Len(b) \in Nat /\ DOMAIN b = 1 .. Len(b) /\ \A k \in 1 .. Len(b) : b[k] \in S
    BY <2>2, LenProperties, ElementOfSeq
  <2>4. b \in [1 .. Len(b) -> FileLines]
    BY <2>1, <2>2, <2>3
  <2> QED BY <2>1, <2>3, <2>4, IsASeq
<1> QED BY <1>1

\* A mail ends with the separator.
EndsWithSeparator(lines) == Len(lines) > 0 /\ lines[Len(lines)] = SEPERATOR

LEMMA MailAdded ==
    ASSUME NEW lines \in Seq(FileLines), NEW c \in Sessions,
           from[c] \in Addresses, message[c] \in Bodies
    PROVE  /\ lines \o Mail(c) \in Seq(FileLines)
           /\ EndsWithSeparator(lines \o Mail(c))
<1>1. /\ FromLine(from[c]) \in FileLines /\ DateLine \in FileLines
      /\ SEPERATOR \in FileLines
  BY DEF FileLines
<1> HIDE DEF FileLines, FromLine, DateLine, SEPERATOR
<1>2. /\ <<FromLine(from[c]), DateLine>> \in Seq(FileLines)
      /\ <<SEPERATOR>> \in Seq(FileLines) /\ Len(<<SEPERATOR>>) = 1
      /\ <<SEPERATOR>>[1] = SEPERATOR
  BY <1>1
<1>3. PICK head \in Seq(FileLines) : head = <<FromLine(from[c]), DateLine>> \o message[c]
  BY <1>2, BodyLines, ConcatProperties
<1>4. PICK m \in Seq(FileLines) : m = Mail(c) /\ EndsWithSeparator(m)
  <2>1. head \o <<SEPERATOR>> \in Seq(FileLines)
        /\ Len(head \o <<SEPERATOR>>) = Len(head) + 1
        /\ (head \o <<SEPERATOR>>)[Len(head) + 1] = SEPERATOR
    <3>1. Len(head) \in Nat
      BY LenProperties
    <3>2. /\ head \o <<SEPERATOR>> \in Seq(FileLines)
          /\ Len(head \o <<SEPERATOR>>) = Len(head) + Len(<<SEPERATOR>>)
          /\ \A i \in 1 .. Len(head) + Len(<<SEPERATOR>>) :
               (head \o <<SEPERATOR>>)[i] =
                 IF i <= Len(head) THEN head[i] ELSE <<SEPERATOR>>[i - Len(head)]
      BY <1>2, ConcatProperties
    <3> QED BY <1>2, <3>1, <3>2
  <2>2. head \o <<SEPERATOR>> = Mail(c)
    BY <1>3 DEF Mail
  <2>3. Len(head) \in Nat
    BY LenProperties
  <2>4. Len(head) + 1 > 0
    BY <2>3
  <2>5. EndsWithSeparator(head \o <<SEPERATOR>>)
    BY <2>1, <2>4 DEF EndsWithSeparator
  <2> QED BY <2>1, <2>2, <2>5
<1>5. /\ lines \o m \in Seq(FileLines) /\ Len(lines \o m) = Len(lines) + Len(m)
      /\ \A i \in 1 .. Len(lines) + Len(m) :
           (lines \o m)[i] = IF i <= Len(lines) THEN lines[i] ELSE m[i - Len(lines)]
  BY ConcatProperties
<1>6. PICK n \in Nat, k \in Nat : n = Len(lines) /\ k = Len(m) /\ k > 0
  BY <1>4, LenProperties DEF EndsWithSeparator
<1>7. n + k \in 1 .. n + k /\ ~(n + k <= n) /\ (n + k) - n = k
  BY <1>6
<1> QED BY <1>4, <1>5, <1>6, <1>7 DEF EndsWithSeparator

LEMMA CountType ==
    ASSUME NEW lines \in Seq(FileLines)
    PROVE  /\ Count(lines) \in Nat
           /\ EndsWithSeparator(lines) => Count(lines) # 0
<1> DEFINE ends == {i \in DOMAIN lines : lines[i] = SEPERATOR}
<1>1. DOMAIN lines = 1 .. Len(lines) /\ Len(lines) \in Nat
  BY LenProperties
<1>2. IsFiniteSet(ends)
  <2>1. IsFiniteSet(1 .. Len(lines))
    BY <1>1, FS_Interval
  <2> QED BY <1>1, <2>1, FS_Subset
<1>3. EndsWithSeparator(lines) => ends # {}
  BY <1>1 DEF EndsWithSeparator
<1> QED BY <1>2, <1>3, FS_CardinalityType, FS_EmptySet DEF Count

-----------------------------------------------------------------------------
(* The inductive invariant *)

\* A child that stores a mail has the names it needs, a body, and an open file.
StoringInv ==
    \A c \in Sessions :
        pc[c] = "store" => /\ domain[c] # None
                           /\ from[c] \in Addresses /\ to[c] \in Addresses
                           /\ message[c] \in Bodies
                           /\ file[to[c]] \in Seq(FileLines)

\* A file that somebody has created ends with a separator.  If it is empty, the child
\* that has created it, or another, has yet to write or has failed to.
Opened(a) == a \in unwritten \/ \E d \in Sessions : pc[d] = "store" /\ to[d] = a

FileInv ==
    \A a \in Addresses :
        file[a] # Absent =>
            /\ file[a] \in Seq(FileLines)
            /\ \/ EndsWithSeparator(file[a])
               \/ (file[a] = <<>> /\ Opened(a))

IInv ==
    /\ TypeOK
    /\ message \in [Sessions -> Bodies \cup {<<>>}]
    /\ StoringInv
    /\ FileInv

LEMMA Names ==
    None \notin Domains /\ None \notin Addresses /\ MaxMails \in Nat
    /\ DomainOf \in [Addresses -> Domains]
BY SmtpAssumption DEF None

LEMMA InitHolds == Init => IInv
<1> SUFFICES ASSUME Init PROVE IInv
  OBVIOUS
<1>1. TypeOK
  BY Names DEF Init, TypeOK
<1>2. message \in [Sessions -> Bodies \cup {<<>>}]
  BY DEF Init
<1> QED BY <1>1, <1>2 DEF Init, IInv, StoringInv, FileInv

-----------------------------------------------------------------------------
(* Every step *)

\* Steps of child c that leave the files alone and do not begin to store.
LEMMA QuietStep ==
    ASSUME IInv, TypeOK', NEW c \in Sessions, pc[c] # "store",
           UNCHANGED <<message, file, unwritten>>, pc'[c] # "store",
           \A d \in Sessions \ {c} : /\ pc'[d] = pc[d] /\ domain'[d] = domain[d]
                                     /\ from'[d] = from[d] /\ to'[d] = to[d]
    PROVE  IInv'
<1>1. \A d \in Sessions : pc[d] = "store" \/ pc'[d] = "store"
        => /\ pc'[d] = pc[d] /\ domain'[d] = domain[d]
           /\ from'[d] = from[d] /\ to'[d] = to[d]
  OBVIOUS
<1>2. StoringInv'
  BY <1>1 DEF IInv, StoringInv
<1>3. FileInv'
  <2>1. \A a \in Addresses : Opened(a) => Opened(a)'
    BY <1>1 DEF Opened
  <2> QED BY <2>1 DEF IInv, FileInv, EndsWithSeparator
<1> QED BY <1>2, <1>3 DEF IInv

LEMMA CommandTypes ==
    ASSUME TypeOK, NEW c \in Sessions,
           \/ Connect(c) \/ HELO(c) \/ MAILFROM(c) \/ RCPTTO(c) \/ DATARefused(c)
           \/ LIST(c) \/ LISTOverrun(c) \/ GETMAIL(c) \/ QUIT(c) \/ Malformed(c)
           \/ Disconnect(c)
    PROVE  /\ TypeOK' /\ pc[c] # "store" /\ pc'[c] # "store"
           /\ UNCHANGED <<message, file, box, unwritten>>
           /\ \A d \in Sessions \ {c} : /\ pc'[d] = pc[d] /\ domain'[d] = domain[d]
                                        /\ from'[d] = from[d] /\ to'[d] = to[d]
<1>1. CASE Connect(c)
  BY <1>1 DEF Connect, TypeOK, session, boxes
<1>2. CASE HELO(c)
  BY <1>2 DEF HELO, TypeOK, boxes, Ready, Answer, validate_domain
<1>3. CASE MAILFROM(c)
  BY <1>3 DEF MAILFROM, TypeOK, boxes, Ready, Answer
<1>4. CASE RCPTTO(c)
  BY <1>4 DEF RCPTTO, TypeOK, boxes, Ready, Answer
<1>5. CASE DATARefused(c)
  BY <1>5 DEF DATARefused, TypeOK, session, boxes, Ready, Answer
<1>6. CASE LIST(c)
  <2>1. reply'.code \in {200, 403, 404, 500}
    BY <1>6 DEF LIST, ReadRefused, Answer
  <2>2. UNCHANGED <<pc, session, message, boxes, sent>> /\ pc[c] = "recv"
    BY <1>6 DEF LIST, Ready
  <2> QED BY <2>1, <2>2 DEF TypeOK, session, boxes
<1>7. CASE GETMAIL(c)
  <2>1. /\ UNCHANGED <<session, message, boxes, sent>> /\ pc[c] = "recv"
        /\ \/ UNCHANGED pc /\ reply'.code \in {200, 401, 403, 404, 500}
           \/ pc' = [pc EXCEPT ![c] = "silent"] /\ UNCHANGED reply
    <3>1. PICK a \in Addresses, id \in 0 .. MaxMails + 1 :
             \/ ReadRefused(c, a) /\ UNCHANGED pc
             \/ /\ MayRead(c, a) /\ file[a] # Absent
                /\ IF id \in 1 .. Count(file[a])
                   THEN Answer(c, 200, MailAt(file[a], id)) /\ UNCHANGED pc
                   ELSE IF IsMissing(id, file[a])
                   THEN Answer(c, 401, <<>>) /\ UNCHANGED pc
                   ELSE pc' = [pc EXCEPT ![c] = "silent"] /\ UNCHANGED reply
      BY <1>7 DEF GETMAIL
    <3>2. \/ UNCHANGED pc /\ reply'.code \in {200, 401, 403, 404, 500}
          \/ pc' = [pc EXCEPT ![c] = "silent"] /\ UNCHANGED reply
      BY <3>1 DEF ReadRefused, Answer
    <3> QED BY <1>7, <3>2 DEF GETMAIL, Ready
  <2>2. UNCHANGED <<domain, from, to, message, file, box, unwritten, sent>>
    BY <2>1 DEF session, boxes
  <2>3. CASE UNCHANGED pc /\ reply'.code \in {200, 401, 403, 404, 500}
    BY <2>1, <2>2, <2>3 DEF TypeOK
  <2>4. CASE pc' = [pc EXCEPT ![c] = "silent"] /\ UNCHANGED reply
    BY <2>1, <2>2, <2>4 DEF TypeOK
  <2> QED BY <2>1, <2>3, <2>4
<1>8. CASE QUIT(c)
  BY <1>8 DEF QUIT, Exit, ForgetNames, TypeOK, Ready, Answer
<1>9. CASE Malformed(c)
  BY <1>9 DEF Malformed, TypeOK, session, boxes, Ready, Answer
<1>10. CASE Disconnect(c)
  BY <1>10 DEF Disconnect, Exit, ForgetNames, TypeOK
<1>11. CASE LISTOverrun(c)
  <2>1. reply' = reply \/ reply'.code = 200
    BY <1>11 DEF LISTOverrun, Answer
  <2> QED BY <1>11, <2>1 DEF LISTOverrun, Exit, ForgetNames, TypeOK, Ready
<1> QED BY <1>1, <1>2, <1>3, <1>4, <1>5, <1>6, <1>7, <1>8, <1>9, <1>10, <1>11

LEMMA DATAStep ==
    ASSUME IInv, NEW c \in Sessions, DATA(c)
    PROVE  IInv'
<1>1. TypeOK /\ message \in [Sessions -> Bodies \cup {<<>>}] /\ StoringInv /\ FileInv
  BY DEF IInv
<1>2. /\ pc[c] = "recv" /\ domain[c] # None /\ from[c] \in Addresses
      /\ to[c] \in Addresses /\ sent < MaxMails
      /\ UNCHANGED <<domain, from, to, box, unwritten>>
  BY <1>1 DEF DATA, Ready, MayStore, session, TypeOK
<1>3. CASE Answer(c, 500, <<>>) /\ UNCHANGED <<pc, message, file, sent>>
  <2>1. TypeOK'
    BY <1>1, <1>2, <1>3 DEF TypeOK, Answer
  <2> QED BY <1>2, <1>3, <2>1, QuietStep
<1>4. CASE /\ message' \in {[message EXCEPT ![c] = b] : b \in Bodies}
           /\ file' = [file EXCEPT ![to[c]] = Lines(to[c])]
           /\ pc' = [pc EXCEPT ![c] = "store"]
           /\ sent' = sent + 1
           /\ UNCHANGED reply
  <2>1. PICK b \in Bodies : message' = [message EXCEPT ![c] = b]
    BY <1>4
  <2>2. message' \in [Sessions -> Bodies \cup {<<>>}]
    BY <1>1, <2>1
  <2>3. sent' \in 0 .. MaxMails
    BY <1>1, <1>2, <1>4, Names DEF TypeOK
  <2>4. TypeOK'
    BY <1>1, <1>2, <1>4, <2>2, <2>3 DEF TypeOK
  <2>5. Lines(to[c]) \in Seq(FileLines) /\ (file[to[c]] = Absent => Lines(to[c]) = <<>>)
        /\ (file[to[c]] # Absent => Lines(to[c]) = file[to[c]])
    <3>1. <<>> \in Seq(FileLines)
      BY EmptySeq
    <3> QED BY <1>1, <1>2, <3>1 DEF Lines, FileInv
  <2>6. \A a \in Addresses : file'[a] = IF a = to[c] THEN Lines(to[c]) ELSE file[a]
    BY <1>1, <1>4 DEF TypeOK
  <2>7. \A d \in Sessions : /\ pc'[d] = IF d = c THEN "store" ELSE pc[d]
                            /\ message'[d] = IF d = c THEN b ELSE message[d]
    BY <1>1, <1>4, <2>1 DEF TypeOK
  <2>8. StoringInv'
    BY <1>1, <1>2, <2>5, <2>6, <2>7 DEF StoringInv
  <2>9. FileInv'
    <3>0. \A a \in Addresses : a = to[c] \/ Opened(a) => Opened(a)'
      BY <1>2, <2>7 DEF Opened
    <3>1. ASSUME NEW a \in Addresses, file'[a] # Absent
          PROVE  /\ file'[a] \in Seq(FileLines)
                 /\ EndsWithSeparator(file'[a]) \/ (file'[a] = <<>> /\ Opened(a)')
      <4>1. CASE a = to[c]
        BY <1>1, <1>2, <2>5, <2>6, <3>0, <4>1 DEF FileInv
      <4>2. CASE a # to[c]
        BY <1>1, <1>2, <2>6, <3>0, <3>1, <4>2 DEF FileInv
      <4> QED BY <4>1, <4>2
    <3> QED BY <3>1 DEF FileInv, EndsWithSeparator
  <2> QED BY <2>2, <2>4, <2>8, <2>9 DEF IInv
<1> QED BY <1>3, <1>4 DEF DATA

\* A child stops storing: it has written the mail, or has failed to, and goes on or
\* has been killed.
Written(c) ==
    /\ file' = [file EXCEPT ![to[c]] = @ \o Mail(c)]
    /\ box' = [box EXCEPT ![to[c]] = Append(@, [from |-> from[c], body |-> message[c]])]
    /\ UNCHANGED unwritten

NotWritten(c) == unwritten' = unwritten \cup {to[c]} /\ UNCHANGED <<file, box>>

LEMMA StoreStep ==
    ASSUME IInv, NEW c \in Sessions, Store(c) \/ Killed(c)
    PROVE  IInv'
<1>1. TypeOK /\ message \in [Sessions -> Bodies \cup {<<>>}] /\ StoringInv /\ FileInv
  BY DEF IInv
<1>2. /\ pc[c] = "store" /\ sent' = sent
      /\ message' = [message EXCEPT ![c] = <<>>]
      /\ from' = [from EXCEPT ![c] = None]
      /\ to' = [to EXCEPT ![c] = None]
      /\ reply' = reply \/ reply'.code = 200
      /\ Written(c) \/ NotWritten(c)
  BY DEF Store, Killed, Exit, ForgetNames, Answer, Written, NotWritten
<1>2a. PICK x \in {"recv", "absent"} : pc' = [pc EXCEPT ![c] = x]
  BY DEF Store, Killed, Exit
<1>2b. domain' = domain \/ domain' = [domain EXCEPT ![c] = None]
  BY DEF Store, Killed, Exit
<1>3. /\ to[c] \in Addresses /\ from[c] \in Addresses /\ message[c] \in Bodies
      /\ file[to[c]] \in Seq(FileLines)
  BY <1>1, <1>2 DEF StoringInv
<1>4. PICK l \in Seq(FileLines) : l = file[to[c]] \o Mail(c) /\ EndsWithSeparator(l)
  BY <1>3, MailAdded
<1>5. /\ DOMAIN file' = Addresses
      /\ \A a \in Addresses : file'[a] = file[a] \/ (a = to[c] /\ file'[a] = l)
  BY <1>1, <1>2, <1>4 DEF TypeOK, Written, NotWritten
<1>6. \A d \in Sessions :
        /\ pc'[d] = IF d = c THEN x ELSE pc[d]
        /\ from'[d] = IF d = c THEN None ELSE from[d]
        /\ to'[d] = IF d = c THEN None ELSE to[d]
        /\ message'[d] = IF d = c THEN <<>> ELSE message[d]
        /\ d # c => domain'[d] = domain[d]
  BY <1>1, <1>2, <1>2a, <1>2b DEF TypeOK
<1>7. message' \in [Sessions -> Bodies \cup {<<>>}]
  BY <1>1, <1>2
<1>8. TypeOK'
  <2>1. pc' \in [Sessions -> {"absent", "recv", "store", "silent"}]
    BY <1>1, <1>2a DEF TypeOK
  <2>2. domain' \in [Sessions -> Domains \cup {None}]
    BY <1>1, <1>2b DEF TypeOK
  <2>3. unwritten' \subseteq Addresses
    BY <1>1, <1>2, <1>3 DEF TypeOK, Written, NotWritten
  <2> QED BY <1>1, <1>2, <1>5, <1>7, <2>1, <2>2, <2>3 DEF TypeOK
<1>9. StoringInv'
  <2>1. ASSUME NEW d \in Sessions, pc'[d] = "store"
        PROVE  /\ domain'[d] # None /\ from'[d] \in Addresses /\ to'[d] \in Addresses
               /\ message'[d] \in Bodies /\ file'[to'[d]] \in Seq(FileLines)
    <3>1. d # c /\ pc[d] = "store"
      BY <1>6, <2>1
    <3>2. /\ domain[d] # None /\ from[d] \in Addresses /\ to[d] \in Addresses
          /\ message[d] \in Bodies /\ file[to[d]] \in Seq(FileLines)
      BY <1>1, <3>1 DEF StoringInv
    <3>3. file'[to[d]] \in Seq(FileLines)
      BY <1>5, <3>2
    <3> QED BY <1>6, <3>1, <3>2, <3>3
  <2> QED BY <2>1 DEF StoringInv
<1>10. FileInv'
  <2>1. Written(c) => file'[to[c]] = l
    BY <1>1, <1>3, <1>4 DEF TypeOK, Written
  <2>2. ASSUME NEW a \in Addresses, a = to[c], NotWritten(c) PROVE Opened(a)'
    BY <2>2 DEF NotWritten, Opened
  <2>3. \A a \in Addresses : a # to[c] /\ Opened(a) => Opened(a)'
    BY <1>2, <1>6 DEF Opened, Written, NotWritten
  <2>4. ASSUME NEW a \in Addresses, file'[a] # Absent
        PROVE  /\ file'[a] \in Seq(FileLines)
               /\ EndsWithSeparator(file'[a]) \/ (file'[a] = <<>> /\ Opened(a)')
    <3>1. CASE a = to[c] /\ Written(c)
      BY <1>4, <2>1, <3>1
    <3>2. CASE a = to[c] /\ NotWritten(c)
      <4>1. file'[a] = file[a]
        BY <3>2 DEF NotWritten
      <4> QED BY <1>1, <2>2, <2>4, <3>2, <4>1 DEF FileInv
    <3>3. CASE a # to[c]
      BY <1>1, <1>5, <2>3, <2>4, <3>3 DEF FileInv
    <3> QED BY <1>2, <3>1, <3>2, <3>3
  <2> QED BY <2>4 DEF FileInv, EndsWithSeparator
<1> QED BY <1>7, <1>8, <1>9, <1>10 DEF IInv

LEMMA NextKeeps == IInv /\ [Next]_vars => IInv'
<1> SUFFICES ASSUME IInv, [Next]_vars PROVE IInv'
  OBVIOUS
<1>1. ASSUME NEW c \in Sessions,
             Connect(c) \/ Command(c) \/ Store(c) \/ Killed(c) \/ Disconnect(c)
      PROVE  IInv'
  <2>1. CASE DATA(c)
    BY <2>1, DATAStep
  <2>2. CASE Store(c) \/ Killed(c)
    BY <2>2, StoreStep
  <2>3. CASE \/ Connect(c) \/ HELO(c) \/ MAILFROM(c) \/ RCPTTO(c) \/ DATARefused(c)
             \/ LIST(c) \/ LISTOverrun(c) \/ GETMAIL(c) \/ QUIT(c) \/ Malformed(c)
             \/ Disconnect(c)
    <3>1. TypeOK
      BY DEF IInv
    <3> QED BY <2>3, <3>1, CommandTypes, QuietStep
  <2> QED BY <1>1, <2>1, <2>2, <2>3 DEF Command
<1>2. CASE UNCHANGED vars
  BY <1>2 DEF vars, session, boxes, IInv, TypeOK, StoringInv, FileInv, Opened
<1> QED BY <1>1, <1>2 DEF Next

-----------------------------------------------------------------------------
(* Theorems *)

\* Every reachable state of the mail server satisfies the inductive invariant.
THEOREM Invariance == Spec => []IInv
<1> QED BY InitHolds, NextKeeps, PTL DEF Spec

\* Every variable keeps its type.
THEOREM TypeCorrectness == Spec => []TypeOK
<1>1. IInv => TypeOK
  BY DEF IInv
<1> QED BY <1>1, Invariance, PTL

\* GET_MAIL of mysmtp_server leaves its client without an answer only while some
\* child, which has opened the mailbox in DATA, has not yet written to it, or after one
\* has failed to.
THEOREM SilenceNeedsDATA == Spec => SilentOnlyDuringDATA
<1>1. ASSUME IInv, Next, NEW c \in Sessions, pc'[c] = "silent", pc[c] # "silent"
      PROVE  \E a \in Addresses :
                /\ Lines(a) = <<>> /\ DomainOf[a] = domain[c]
                /\ a \in unwritten \/ \E d \in Sessions : pc[d] = "store" /\ to[d] = a
  <2>1. TypeOK /\ FileInv
    BY <1>1 DEF IInv
  <2>2. GETMAIL(c) /\ pc' # pc
    <3>1. PICK e \in Sessions :
             Connect(e) \/ Command(e) \/ Store(e) \/ Killed(e) \/ Disconnect(e)
      BY <1>1 DEF Next
    <3>2. CASE GETMAIL(e)
      <4>1. UNCHANGED pc \/ pc' = [pc EXCEPT ![e] = "silent"]
        BY <3>2 DEF GETMAIL
      <4> QED BY <1>1, <2>1, <3>2, <4>1 DEF TypeOK
    <3>3. CASE ~GETMAIL(e)
      <4>1. \/ UNCHANGED pc
            \/ \E x \in {"recv", "store", "absent"} : pc' = [pc EXCEPT ![e] = x]
        BY <3>1, <3>3 DEF Connect, Command, HELO, MAILFROM, RCPTTO, DATARefused, DATA,
             LIST, LISTOverrun, QUIT, Malformed, Exit, Store, Killed, Disconnect
      <4> QED BY <1>1, <2>1, <4>1 DEF TypeOK
    <3> QED BY <3>2, <3>3
  <2>3. PICK a \in Addresses, id \in 0 .. MaxMails + 1 :
          /\ MayRead(c, a) /\ file[a] # Absent
          /\ id \notin 1 .. Count(file[a]) /\ ~IsMissing(id, file[a])
    BY <2>2 DEF GETMAIL
  <2>4. Count(file[a]) = 0
    <3>1. file[a] \in Seq(FileLines)
      BY <2>1, <2>3 DEF FileInv
    <3>2. PICK n \in Nat : n = Count(file[a])
      BY <3>1, CountType
    <3> QED BY <2>3, <3>2 DEF IsMissing
  <2>5. file[a] = <<>> /\ Opened(a)
    BY <2>1, <2>3, <2>4, CountType DEF FileInv
  <2>6. Lines(a) = <<>>
    BY <2>5 DEF Lines
  <2> QED BY <2>3, <2>5, <2>6 DEF MayRead, Opened
<1>2. IInv /\ [Next]_vars =>
        [\A c \in Sessions :
            pc'[c] = "silent" /\ pc[c] # "silent"
              => \E a \in Addresses :
                    /\ Lines(a) = <<>> /\ DomainOf[a] = domain[c]
                    /\ a \in unwritten \/ \E d \in Sessions : pc[d] = "store" /\ to[d] = a]_vars
  BY <1>1
<1> QED BY <1>2, Invariance, PTL DEF Spec, SilentOnlyDuringDATA

\* mysmtp_server implements the mail store: each mail has a sender of its session's
\* domain and a recipient, named for it alone, and stays at its place.
THEOREM ImplementsMailStore == Spec => MailStoreSpec
<1>0. MailPromise!Blank = None
  BY DEF MailPromise!Blank, None
<1>1. Init => MailPromise!Init
  BY <1>0 DEF Init, MailPromise!Init
<1>2. ASSUME IInv, [Next]_vars
      PROVE  [MailPromise!Next]_<<domain, from, to, box>>
  <2>1. TypeOK /\ StoringInv
    BY <1>2 DEF IInv
  <2>2. ASSUME NEW c \in Sessions,
               Connect(c) \/ Command(c) \/ Store(c) \/ Killed(c) \/ Disconnect(c)
        PROVE  [MailPromise!Next]_<<domain, from, to, box>>
    <3>1. CASE HELO(c)
      <4>1. UNCHANGED <<domain, from, to, box>> \/ MailPromise!Declare(c)
        BY <1>0, <3>1 DEF HELO, validate_domain, MailPromise!Declare, boxes
      <4> QED BY <4>1 DEF MailPromise!Next
    <3>2. CASE MAILFROM(c)
      <4>1. UNCHANGED <<domain, from, to, box>> \/ MailPromise!NameSender(c)
        BY <1>0, <3>2 DEF MAILFROM, MailPromise!NameSender, boxes
      <4> QED BY <4>1 DEF MailPromise!Next
    <3>3. CASE RCPTTO(c)
      <4>1. UNCHANGED <<domain, from, to, box>> \/ MailPromise!NameRecipient(c)
        BY <1>0, <3>3 DEF RCPTTO, MailPromise!NameRecipient, boxes
      <4> QED BY <4>1 DEF MailPromise!Next
    <3>4. CASE Store(c)
      <4>1. /\ from[c] # None /\ to[c] # None /\ message[c] \in Bodies
        BY <2>1, <3>4, Names DEF Store, StoringInv
      <4>2. MailPromise!Store(c)
        BY <1>0, <3>4, <4>1 DEF Store, ForgetNames, MailPromise!Store
      <4> QED BY <4>2 DEF MailPromise!Next
    <3>5. CASE QUIT(c) \/ LISTOverrun(c) \/ Killed(c) \/ Disconnect(c)
      <4>1. MailPromise!Reset(c)
        BY <1>0, <3>5 DEF QUIT, LISTOverrun, Killed, Disconnect, Exit, ForgetNames,
                          MailPromise!Reset
      <4> QED BY <4>1 DEF MailPromise!Next
    <3>6. CASE \/ Connect(c) \/ DATARefused(c) \/ DATA(c) \/ LIST(c) \/ GETMAIL(c)
               \/ Malformed(c)
      <4>1. UNCHANGED <<domain, from, to, box>>
        BY <3>6 DEF Connect, DATARefused, DATA, LIST, GETMAIL, Malformed, session, boxes
      <4> QED BY <4>1
    <3> QED BY <2>2, <3>1, <3>2, <3>3, <3>4, <3>5, <3>6 DEF Command
  <2>3. CASE UNCHANGED vars
    BY <2>3 DEF vars, session, boxes
  <2> QED BY <1>2, <2>2, <2>3 DEF Next
<1> QED BY <1>1, <1>2, Invariance, PTL DEF Spec, MailStoreSpec, MailPromise!Spec

-----------------------------------------------------------------------------
(* How the mails lie in a file *)

Mails == [from : Addresses, body : Bodies]

\* Lines s + 1 to t are a mail and the separator.
Whole(lines, mail, s, t) ==
    /\ t = s + Len(mail.body) + 3
    /\ lines[s + 1] = FromLine(mail.from)
    /\ lines[s + 2] = DateLine
    /\ \A k \in 1 .. Len(mail.body) : lines[s + 2 + k] = mail.body[k]
    /\ lines[t] = SEPERATOR

\* Mail id ends at line e[id].
Layout(lines, mails, e) ==
    /\ e \in [0 .. Len(mails) -> Nat]
    /\ e[0] = 0 /\ e[Len(mails)] = Len(lines)
    /\ \A id \in 1 .. Len(mails) : Whole(lines, mails[id], e[id - 1], e[id])

Laid(lines, mails) ==
    /\ lines \in Seq(FileLines) /\ mails \in Seq(Mails)
    /\ \E e : Layout(lines, mails, e)

LEMMA LineKinds ==
    /\ \A a : FromLine(a).kind = "From: " /\ FromLine(a).of = a
    /\ DateLine.kind = "Date: " /\ TextLine.kind = "text" /\ SEPERATOR.kind = "."
BY DEF FromLine, DateLine, TextLine, SEPERATOR

LEMMA BodyKinds ==
    ASSUME NEW b \in Bodies
    PROVE  /\ b \in Seq(FileLines) /\ Len(b) \in Nat
           /\ \A k \in 1 .. Len(b) : b[k].kind # "."
<1>1. b \in Seq(FileLines) /\ Len(b) \in Nat
  BY BodyLines, LenProperties
<1>2. ASSUME NEW l \in FileLines, l # SEPERATOR PROVE l.kind # "."
  <2>1. (\E a : l = FromLine(a)) \/ l = DateLine \/ l = TextLine
    BY <1>2 DEF FileLines
  <2>2. l.kind \in {"From: ", "Date: ", "text"}
    BY <2>1, LineKinds
  <2> QED BY <2>2
<1> QED BY <1>1, <1>2, BodyLines

\* Of the lines of a mail, the last and only the last is the separator.
LEMMA OneSeparator ==
    ASSUME NEW lines, NEW mail \in Mails, NEW s \in Nat, NEW t \in Nat,
           Whole(lines, mail, s, t), NEW p \in s + 1 .. t
    PROVE  /\ s + 3 <= t
           /\ lines[p].kind = "." <=> p = t
           /\ lines[p] = SEPERATOR <=> p = t
<1>1. PICK n \in Nat : n = Len(mail.body) /\ t = s + n + 3
                       /\ \A k \in 1 .. n : mail.body[k].kind # "."
  BY BodyKinds DEF Mails, Whole
<1>2. /\ lines[s + 1].kind = "From: " /\ lines[s + 2].kind = "Date: "
      /\ \A k \in 1 .. n : lines[s + 2 + k].kind # "."
      /\ lines[t].kind = "." /\ lines[t] = SEPERATOR
  BY <1>1, LineKinds DEF Whole
<1>a. t = s + n + 3
  BY <1>1
<1>3. p = s + 1 \/ p = s + 2 \/ p = t \/ (p - s - 2 \in 1 .. n /\ p = s + 2 + (p - s - 2))
  BY <1>a
<1>4. p # t => lines[p].kind # "."
  <2>1. CASE p - s - 2 \in 1 .. n /\ p = s + 2 + (p - s - 2)
    BY <1>2, <2>1
  <2> QED BY <1>2, <1>3, <2>1
<1>5. lines[p] = SEPERATOR => lines[p].kind = "."
  BY LineKinds
<1>6. s + 3 <= t
  BY <1>a
<1> QED BY <1>2, <1>4, <1>5, <1>6

-----------------------------------------------------------------------------
(* Where the mails end *)

LEMMA LeastNat ==
    ASSUME NEW T \in SUBSET Nat, T # {}
    PROVE  \E m \in T : \A k \in T : ~(k < m)
<1> DEFINE R == OpToRel(<, Nat)
<1>1. IsWellFoundedOn(R, Nat)
  BY NatLessThanWellFounded
<1>2. \A i, j \in Nat : <<i, j>> \in R <=> i < j
  BY DEF OpToRel
<1> HIDE DEF R
<1>3. PICK m \in T : \A k \in T : ~(<<k, m>> \in R)
  BY <1>1, WFMin
<1> QED BY <1>2, <1>3

\* A set that has 0, and with every number the next, has them all.
LEMMA SetInduction ==
    ASSUME NEW S, 0 \in S, \A n \in Nat : n \in S => n + 1 \in S
    PROVE  Nat \subseteq S
<1> SUFFICES ASSUME {n \in Nat : n \notin S} # {} PROVE FALSE
  OBVIOUS
<1>1. PICK m \in {n \in Nat : n \notin S} : \A k \in {n \in Nat : n \notin S} : ~(k < m)
  BY LeastNat
<1>2. m # 0 /\ m - 1 \in Nat /\ m - 1 < m
  BY <1>1
<1> QED BY <1>1, <1>2

LEMMA EndsGrow ==
    ASSUME NEW lines, NEW mails \in Seq(Mails), NEW e, Layout(lines, mails, e)
    PROVE  /\ Len(mails) \in Nat
           /\ \A id \in 1 .. Len(mails) : e[id - 1] \in Nat /\ e[id] \in Nat
                                          /\ e[id - 1] + 3 <= e[id]
           /\ \A i, j \in 0 .. Len(mails) : i < j => e[i] < e[j]
<1>1. PICK n \in Nat : n = Len(mails)
  BY LenProperties
<1>2. ASSUME NEW id \in 1 .. n
      PROVE  e[id - 1] \in Nat /\ e[id] \in Nat /\ e[id - 1] + 3 <= e[id]
  <2>1. e[id - 1] \in Nat /\ e[id] \in Nat
    BY <1>1 DEF Layout
  <2>2. mails[id] \in Mails /\ Whole(lines, mails[id], e[id - 1], e[id])
    BY <1>1, ElementOfSeq DEF Layout
  <2>3. Len(mails[id].body) \in Nat
    BY <2>2, BodyKinds DEF Mails
  <2>4. PICK x \in Nat, y \in Nat, z \in Nat :
          x = e[id - 1] /\ y = e[id] /\ z = Len(mails[id].body)
    BY <2>1, <2>3
  <2>5. y = x + z + 3
    BY <2>2, <2>4 DEF Whole
  <2>6. x + 3 <= y
    BY <2>5
  <2> QED BY <2>1, <2>4, <2>6
<1>3. ASSUME NEW i \in 0 .. n
      PROVE  \A j \in 0 .. n : i < j => e[i] < e[j]
  <2> DEFINE S == {d \in Nat : i + 1 + d <= n => e[i] < e[i + 1 + d]}
  <2>1. 0 \in S
    <3>1. i + 1 <= n => i + 1 \in 1 .. n /\ i + 1 - 1 = i
      OBVIOUS
    <3> QED BY <1>2, <3>1
  <2>2. ASSUME NEW d \in Nat, d \in S PROVE d + 1 \in S
    <3>1. SUFFICES ASSUME i + 1 + (d + 1) <= n PROVE e[i] < e[i + 1 + (d + 1)]
      OBVIOUS
    <3>2. PICK k \in 1 .. n : k = i + 1 + (d + 1) /\ k - 1 = i + 1 + d
      BY <3>1
    <3>3. e[i] < e[k - 1] /\ e[i] \in Nat
      BY <1>1, <2>2, <3>1, <3>2 DEF Layout
    <3>4. e[k - 1] \in Nat /\ e[k] \in Nat /\ e[k - 1] + 3 <= e[k]
      BY <1>2
    <3>5. e[i] < e[k]
      BY <3>3, <3>4
    <3> QED BY <3>2, <3>5
  <2> HIDE DEF S
  <2>3. Nat \subseteq S
    BY <2>1, <2>2, SetInduction
  <2>4. ASSUME NEW j \in 0 .. n, i < j PROVE e[i] < e[j]
    <3>1. j - i - 1 \in Nat /\ i + 1 + (j - i - 1) = j /\ j <= n
      BY <2>4
    <3> QED BY <2>3, <3>1 DEF S
  <2> QED BY <2>4
<1> QED BY <1>1, <1>2, <1>3

\* The separators are at the ends of the mails and nowhere else.
LEMMA Separators ==
    ASSUME NEW lines, NEW mails \in Seq(Mails), NEW e, Layout(lines, mails, e),
           Len(lines) \in Nat, NEW p \in 1 .. Len(lines)
    PROVE  lines[p] = SEPERATOR <=> \E id \in 1 .. Len(mails) : p = e[id]
<1>1. PICK n \in Nat : n = Len(mails)
  BY LenProperties
<1>2. /\ e \in [0 .. n -> Nat] /\ e[0] = 0 /\ e[n] = Len(lines)
      /\ \A id \in 1 .. n : /\ mails[id] \in Mails
                            /\ Whole(lines, mails[id], e[id - 1], e[id])
                            /\ e[id - 1] \in Nat /\ e[id] \in Nat
                            /\ e[id - 1] + 3 <= e[id]
  BY <1>1, EndsGrow, ElementOfSeq DEF Layout
<1> HIDE DEF Mails, Whole
<1>3. PICK id \in 1 .. n : e[id - 1] < p /\ p <= e[id]
  <2> DEFINE T == {k \in 0 .. n : p <= e[k]}
  <2>1. T \in SUBSET Nat /\ n \in T
    BY <1>2
  <2> HIDE DEF T
  <2>2. PICK id \in T : \A k \in T : ~(k < id)
    BY <2>1, LeastNat
  <2>3. id \in 0 .. n /\ p <= e[id] /\ \A k \in 0 .. n : k < id => ~(p <= e[k])
    BY <2>2 DEF T
  <2>4. id # 0
    BY <1>2, <2>3
  <2>5. id \in 1 .. n /\ id - 1 \in 0 .. n /\ id - 1 < id
    BY <2>3, <2>4
  <2>6. e[id - 1] < p
    BY <1>2, <2>3, <2>5
  <2> QED BY <2>3, <2>5, <2>6
<1>4. PICK x \in Nat, y \in Nat : x = e[id - 1] /\ y = e[id]
  BY <1>2
<1>5. p \in x + 1 .. y /\ Whole(lines, mails[id], x, y) /\ mails[id] \in Mails
  BY <1>2, <1>3, <1>4
<1>6. lines[p] = SEPERATOR <=> p = y
  BY <1>5, OneSeparator
<1>7. ASSUME NEW k \in 1 .. n, p = e[k] PROVE p = y
  <2>1. PICK x2 \in Nat : x2 = e[k - 1] /\ x2 + 3 <= p /\ Whole(lines, mails[k], x2, p)
                          /\ mails[k] \in Mails
    BY <1>2, <1>7
  <2>2. lines[p] = SEPERATOR
    BY <2>1 DEF Whole
  <2> QED BY <1>6, <2>2
<1> QED BY <1>1, <1>4, <1>6, <1>7

LEMMA CountIs ==
    ASSUME NEW lines, NEW mails, Laid(lines, mails)
    PROVE  Count(lines) = Len(mails)
<1>1. PICK e : Layout(lines, mails, e)
  BY DEF Laid
<1>2. /\ lines \in Seq(FileLines) /\ mails \in Seq(Mails) /\ Len(lines) \in Nat
      /\ DOMAIN lines = 1 .. Len(lines)
  BY LenProperties DEF Laid
<1> DEFINE n == Len(mails)
           ends == {p \in DOMAIN lines : lines[p] = SEPERATOR}
           f == [id \in 1 .. n |-> e[id]]
<1>3. /\ n \in Nat /\ \A i, j \in 0 .. n : i < j => e[i] < e[j]
      /\ e \in [0 .. n -> Nat] /\ e[0] = 0 /\ e[n] = Len(lines)
  BY <1>1, <1>2, EndsGrow DEF Layout
<1> HIDE DEF n
<1>4. \A p \in 1 .. Len(lines) : lines[p] = SEPERATOR <=> \E id \in 1 .. n : p = e[id]
  BY <1>1, <1>2, Separators DEF n
<1>5. \A id \in 1 .. n : e[id] \in 1 .. Len(lines)
  <2>1. ASSUME NEW id \in 1 .. n PROVE e[id] \in 1 .. Len(lines)
    <3>1. id \in 0 .. n /\ 0 \in 0 .. n /\ n \in 0 .. n /\ 0 < id /\ (id < n \/ id = n)
      BY <1>3
    <3>2. e[0] < e[id] /\ (e[id] < e[n] \/ e[id] = e[n]) /\ e[id] \in Nat
      BY <1>3, <3>1
    <3> QED BY <1>2, <1>3, <3>2
  <2> QED BY <2>1
<1>6. ends = {e[id] : id \in 1 .. n}
  BY <1>2, <1>4, <1>5
<1>7. f \in Bijection(1 .. n, ends)
  <2>1. f \in [1 .. n -> ends] /\ \A p \in ends : \E id \in 1 .. n : f[id] = p
    BY <1>6
  <2>2. ASSUME NEW i \in 1 .. n, NEW j \in 1 .. n, e[i] = e[j] PROVE i = j
    <3>1. i \in 0 .. n /\ j \in 0 .. n /\ (i < j \/ j < i \/ i = j)
      BY <1>3
    <3>2. e[i] \in Nat /\ ~(e[i] < e[j]) /\ ~(e[j] < e[i])
      BY <1>3, <2>2, <3>1
    <3> QED BY <1>3, <3>1, <3>2
  <2> QED BY <2>1, <2>2 DEF Bijection, Injection, Surjection, IsInjective
<1>8. IsFiniteSet(1 .. n) /\ Cardinality(1 .. n) = n
  BY <1>3, FS_Interval
<1> HIDE DEF f, ends
<1>9. Cardinality(ends) = n
  BY <1>7, <1>8, FS_Bijection DEF ExistsBijection
<1> QED BY <1>9 DEF ends, n, Count

IsFirst(s, x, h) == Len(h) = x /\ \A i \in 1 .. x : h[i] = s[i]

LEMMA FirstPart ==
    ASSUME NEW S, NEW s \in Seq(S), NEW x \in Nat, x <= Len(s)
    PROVE  SubSeq(s, 1, x) \in Seq(S) /\ IsFirst(s, x, SubSeq(s, 1, x))
<1>1. \A i \in 1 .. x : s[i] \in S
  BY ElementOfSeq, LenProperties
<1>2. /\ SubSeq(s, 1, x) \in Seq(S)
      /\ Len(SubSeq(s, 1, x)) = IF 1 <= x THEN x - 1 + 1 ELSE 0
      /\ \A i \in 1 .. x - 1 + 1 : SubSeq(s, 1, x)[i] = s[1 + i - 1]
  BY <1>1, SubSeqProperties
<1>3. (IF 1 <= x THEN x - 1 + 1 ELSE 0) = x /\ x - 1 + 1 = x
  OBVIOUS
<1>4. \A i \in 1 .. x : 1 + i - 1 = i
  OBVIOUS
<1> QED BY <1>2, <1>3, <1>4 DEF IsFirst

\* The first m mails of a file are the mails of its first lines.
LEMMA Prefix ==
    ASSUME NEW lines \in Seq(FileLines), NEW mails \in Seq(Mails), NEW e,
           Layout(lines, mails, e), NEW m \in 0 .. Len(mails)
    PROVE  Count(SubSeq(lines, 1, e[m])) = m
<1>1. PICK n \in Nat : n = Len(mails) /\ m \in 0 .. n
  BY LenProperties
<1>2. PICK l \in Nat : l = Len(lines)
  BY LenProperties
<1>3. /\ e \in [0 .. n -> Nat] /\ e[0] = 0 /\ e[n] = l
      /\ \A i, j \in 0 .. n : i < j => e[i] < e[j]
      /\ \A id \in 1 .. n : /\ mails[id] \in Mails
                            /\ Whole(lines, mails[id], e[id - 1], e[id])
                            /\ e[id - 1] + 3 <= e[id]
  BY <1>1, <1>2, EndsGrow, ElementOfSeq DEF Layout
<1>4. PICK x \in Nat : x = e[m] /\ x <= l
  <2>1. m < n \/ m = n
    BY <1>1
  <2>2. e[m] \in Nat /\ (e[m] < e[n] \/ e[m] = e[n])
    BY <1>1, <1>3, <2>1
  <2> QED BY <1>3, <2>2
<1>5. PICK h \in Seq(FileLines) :
         /\ h = SubSeq(lines, 1, x) /\ Len(h) = x
         /\ \A i \in 1 .. x : h[i] = lines[i]
  <2>1. SubSeq(lines, 1, x) \in Seq(FileLines) /\ IsFirst(lines, x, SubSeq(lines, 1, x))
    BY <1>2, <1>4, FirstPart
  <2> QED BY <2>1 DEF IsFirst
<1>6. PICK g \in Seq(Mails) : Len(g) = m /\ \A i \in 1 .. m : g[i] = mails[i]
  <2>1. m \in Nat /\ m <= Len(mails)
    BY <1>1
  <2>2. SubSeq(mails, 1, m) \in Seq(Mails) /\ IsFirst(mails, m, SubSeq(mails, 1, m))
    BY <2>1, FirstPart
  <2> QED BY <2>2 DEF IsFirst
<1> DEFINE d == [id \in 0 .. m |-> e[id]]
<1>7. ASSUME NEW id \in 1 .. m
      PROVE  Whole(h, g[id], d[id - 1], d[id])
  <2>1. id \in 1 .. n /\ id - 1 \in 0 .. m /\ id \in 0 .. m /\ (id < m \/ id = m)
    BY <1>1
  <2>2. d[id - 1] = e[id - 1] /\ d[id] = e[id] /\ g[id] = mails[id]
    BY <1>6, <2>1
  <2>3. PICK s \in Nat, t \in Nat : s = e[id - 1] /\ t = e[id] /\ s + 3 <= t
    <3>1. id - 1 \in 0 .. n /\ id \in 0 .. n
      BY <2>1
    <3>2. e[id - 1] \in Nat /\ e[id] \in Nat
      BY <1>3, <3>1
    <3>3. e[id - 1] + 3 <= e[id]
      BY <1>3, <2>1
    <3> QED BY <3>2, <3>3
  <2>4. t <= x
    BY <1>1, <1>3, <1>4, <2>1, <2>3
  <2>5. Whole(lines, mails[id], s, t) /\ mails[id] \in Mails
    BY <1>3, <2>1, <2>3
  <2>6. PICK b \in Nat : b = Len(mails[id].body) /\ t = s + b + 3
    BY <2>5, BodyKinds DEF Mails, Whole
  <2>7. /\ s + 1 \in 1 .. x /\ s + 2 \in 1 .. x /\ t \in 1 .. x
        /\ \A k \in 1 .. b : s + 2 + k \in 1 .. x
    <3>1. t = s + b + 3 /\ t <= x
      BY <2>4, <2>6
    <3> QED BY <3>1
  <2>8. Whole(h, mails[id], s, t)
    BY <1>5, <2>5, <2>6, <2>7 DEF Whole
  <2> QED BY <2>2, <2>3, <2>8
<1>8. Layout(h, g, d)
  <2>1. d \in [0 .. m -> Nat] /\ d[0] = 0 /\ d[m] = x
    <3>1. \A id \in 0 .. m : id \in 0 .. n
      BY <1>1
    <3>2. 0 \in 0 .. m /\ m \in 0 .. m
      BY <1>1
    <3>3. e[m] = x /\ e[0] = 0 /\ \A id \in 0 .. n : e[id] \in Nat
      BY <1>3, <1>4
    <3> QED BY <3>1, <3>2, <3>3
  <2> HIDE DEF d
  <2> QED BY <1>5, <1>6, <1>7, <2>1 DEF Layout
<1>9. Laid(h, g)
  BY <1>8 DEF Laid
<1> QED BY <1>4, <1>5, <1>6, <1>9, CountIs

\* EndOf finds the end of a mail by counting.
LEMMA EndIs ==
    ASSUME NEW lines \in Seq(FileLines), NEW mails \in Seq(Mails), NEW e,
           Layout(lines, mails, e), NEW id \in 0 .. Len(mails)
    PROVE  EndOf(lines, id) = e[id]
<1>1. PICK n \in Nat : n = Len(mails) /\ id \in 0 .. n
  BY LenProperties
<1>2. PICK l \in Nat : l = Len(lines) /\ DOMAIN lines = 1 .. l
  BY LenProperties
<1>3. /\ e \in [0 .. n -> Nat] /\ e[0] = 0 /\ e[n] = l
      /\ \A i, j \in 0 .. n : i < j => e[i] < e[j]
  BY <1>1, <1>2, EndsGrow DEF Layout
<1>4. CASE id = 0
  BY <1>3, <1>4 DEF EndOf
<1>5. CASE id # 0
  <2>1. id \in 1 .. n /\ 0 < id /\ (id < n \/ id = n)
    BY <1>1, <1>5
  <2>2. PICK p \in Nat : p = e[id] /\ p \in 1 .. l
    <3>1. e[id] \in Nat /\ e[0] < e[id] /\ (e[id] < e[n] \/ e[id] = e[n])
      BY <1>1, <1>3, <2>1
    <3> QED BY <1>3, <3>1
  <2>3. \A i \in 1 .. l : lines[i] = SEPERATOR <=> \E k \in 1 .. n : i = e[k]
    BY <1>1, <1>2, Separators
  <2>4. \A k \in 0 .. n : Count(SubSeq(lines, 1, e[k])) = k
    BY <1>1, Prefix
  <2>5. lines[p] = SEPERATOR /\ Count(SubSeq(lines, 1, p)) = id
    BY <2>1, <2>2, <2>3, <2>4
  <2>6. ASSUME NEW i \in 1 .. l, lines[i] = SEPERATOR, Count(SubSeq(lines, 1, i)) = id
        PROVE  i = p
    <3>1. PICK k \in 1 .. n : i = e[k]
      BY <2>3, <2>6
    <3>2. k = id
      BY <2>4, <2>6, <3>1
    <3> QED BY <2>2, <3>1, <3>2
  <2> QED BY <1>2, <1>5, <2>2, <2>5, <2>6 DEF EndOf
<1> QED BY <1>4, <1>5

\* A mail as Store writes it.
LEMMA MailLines ==
    ASSUME NEW mail \in Mails
    PROVE  LET head == <<FromLine(mail.from), DateLine>> \o mail.body
           IN  /\ head \in Seq(FileLines) /\ Len(head) = Len(mail.body) + 2
               /\ head[1] = FromLine(mail.from) /\ head[2] = DateLine
               /\ \A k \in 1 .. Len(mail.body) : head[2 + k] = mail.body[k]
<1> DEFINE sender == FromLine(mail.from)
<1>1. sender \in FileLines /\ DateLine \in FileLines
  BY DEF Mails, FileLines
<1>2. /\ mail.body \in Seq(FileLines) /\ Len(mail.body) \in Nat
  BY BodyKinds DEF Mails
<1> HIDE DEF sender, FileLines, DateLine
<1>3. /\ <<sender, DateLine>> \in Seq(FileLines) /\ Len(<<sender, DateLine>>) = 2
      /\ <<sender, DateLine>>[1] = sender /\ <<sender, DateLine>>[2] = DateLine
  BY <1>1
<1>4. PICK two \in Seq(FileLines) :
         two = <<sender, DateLine>> /\ Len(two) = 2 /\ two[1] = sender /\ two[2] = DateLine
  BY <1>3
<1>5. /\ two \o mail.body \in Seq(FileLines)
      /\ Len(two \o mail.body) = Len(two) + Len(mail.body)
      /\ \A i \in 1 .. Len(two) + Len(mail.body) :
           (two \o mail.body)[i] = IF i <= Len(two) THEN two[i] ELSE mail.body[i - Len(two)]
  BY <1>2, ConcatProperties
<1>6. PICK b \in Nat : b = Len(mail.body)
  BY <1>2
<1>7. \A k \in 1 .. b : 2 + k \in 1 .. 2 + b /\ ~(2 + k <= 2) /\ 2 + k - 2 = k
  OBVIOUS
<1>8. 1 \in 1 .. 2 + b /\ 2 \in 1 .. 2 + b /\ 2 + b = b + 2
  OBVIOUS
<1>9. PICK h \in Seq(FileLines) :
         /\ h = two \o mail.body /\ Len(h) = b + 2
         /\ \A i \in 1 .. 2 + b : h[i] = IF i <= 2 THEN two[i] ELSE mail.body[i - 2]
  BY <1>4, <1>5, <1>6, <1>8
<1>10. h[1] = sender /\ h[2] = DateLine /\ \A k \in 1 .. b : h[2 + k] = mail.body[k]
  BY <1>4, <1>7, <1>8, <1>9
<1> QED BY <1>4, <1>6, <1>9, <1>10 DEF sender

\* What GET_MAIL sends is the mail.
LEMMA MailIs ==
    ASSUME NEW lines \in Seq(FileLines), NEW mails \in Seq(Mails), NEW e,
           Layout(lines, mails, e), NEW id \in 1 .. Len(mails)
    PROVE  MailAt(lines, id) = <<FromLine(mails[id].from), DateLine>> \o mails[id].body
<1>1. PICK n \in Nat : n = Len(mails) /\ id \in 1 .. n
  BY LenProperties
<1>2. PICK l \in Nat : l = Len(lines) /\ \A i \in 1 .. l : lines[i] \in FileLines
  BY LenProperties, ElementOfSeq
<1>3. mails[id] \in Mails /\ Whole(lines, mails[id], e[id - 1], e[id])
  BY ElementOfSeq DEF Layout
<1>4. PICK s \in Nat, t \in Nat :
         /\ s = EndOf(lines, id - 1) /\ t = EndOf(lines, id) /\ s + 3 <= t /\ t <= l
         /\ Whole(lines, mails[id], s, t)
  <2>1. id - 1 \in 0 .. n /\ id \in 0 .. n /\ n \in 0 .. n /\ (id < n \/ id = n)
    BY <1>1
  <2>2. EndOf(lines, id - 1) = e[id - 1] /\ EndOf(lines, id) = e[id]
    BY <1>1, <2>1, EndIs
  <2>3. /\ e[id - 1] \in Nat /\ e[id] \in Nat /\ e[id - 1] + 3 <= e[id]
        /\ e[n] = l /\ (e[id] < e[n] \/ e[id] = e[n])
    BY <1>1, <1>2, <2>1, EndsGrow DEF Layout
  <2>4. e[id] <= l
    BY <2>3
  <2> QED BY <1>3, <2>2, <2>3, <2>4
<1>5. PICK b \in Nat : b = Len(mails[id].body) /\ t = s + b + 3
  BY <1>3, <1>4, BodyKinds DEF Mails, Whole
<1>6. PICK m \in Seq(FileLines) :
         /\ m = MailAt(lines, id) /\ Len(m) = b + 2
         /\ \A i \in 1 .. b + 2 : m[i] = lines[s + i]
  <2> DEFINE q == SubSeq(lines, s + 1, t - 1)
  <2>a. t = s + b + 3 /\ t <= l
    BY <1>4, <1>5
  <2>b. t - 1 = s + b + 2 /\ t - 1 \in Int /\ s + 1 \in Int /\ s + 1 <= t - 1
    BY <2>a
  <2>c. t - 1 - (s + 1) + 1 = b + 2
    BY <2>a
  <2>d. \A i \in s + 1 .. t - 1 : i \in 1 .. l
    BY <2>a
  <2>1. t - 1 = s + b + 2 /\ t - 1 \in Int /\ s + 1 \in Int /\ t - 1 - (s + 1) + 1 = b + 2
        /\ s + 1 <= t - 1 /\ \A i \in s + 1 .. t - 1 : i \in 1 .. l
    BY <2>b, <2>c, <2>d
  <2>2. /\ q \in Seq(FileLines)
        /\ Len(q) = IF s + 1 <= t - 1 THEN t - 1 - (s + 1) + 1 ELSE 0
        /\ \A i \in 1 .. t - 1 - (s + 1) + 1 : q[i] = lines[s + 1 + i - 1]
    BY <1>2, <2>1, SubSeqProperties
  <2>3. \A i \in 1 .. b + 2 : s + 1 + i - 1 = s + i
    OBVIOUS
  <2> HIDE DEF q
  <2>4. Len(q) = b + 2 /\ \A i \in 1 .. b + 2 : q[i] = lines[s + i]
    BY <2>1, <2>2, <2>3
  <2>5. q = MailAt(lines, id)
    BY <1>4 DEF q, MailAt
  <2> QED BY <2>2, <2>4, <2>5
<1>7. PICK h \in Seq(FileLines) :
         /\ h = <<FromLine(mails[id].from), DateLine>> \o mails[id].body
         /\ Len(h) = b + 2 /\ h[1] = FromLine(mails[id].from) /\ h[2] = DateLine
         /\ \A k \in 1 .. b : h[2 + k] = mails[id].body[k]
  BY <1>3, <1>5, MailLines
<1>8. /\ m[1] = FromLine(mails[id].from) /\ m[2] = DateLine
      /\ \A k \in 1 .. b : m[2 + k] = mails[id].body[k]
  <2>1. 1 \in 1 .. b + 2 /\ 2 \in 1 .. b + 2
        /\ \A k \in 1 .. b : 2 + k \in 1 .. b + 2 /\ s + (2 + k) = s + 2 + k
    OBVIOUS
  <2>2. /\ lines[s + 1] = FromLine(mails[id].from) /\ lines[s + 2] = DateLine
        /\ \A k \in 1 .. b : lines[s + 2 + k] = mails[id].body[k]
    BY <1>4, <1>5 DEF Whole
  <2>3. m[1] = lines[s + 1] /\ m[2] = lines[s + 2]
    BY <1>6, <2>1
  <2>4. \A k \in 1 .. b : m[2 + k] = lines[s + 2 + k]
    BY <1>6, <2>1
  <2> QED BY <2>2, <2>3, <2>4
<1>9. \A i \in 1 .. b + 2 : m[i] = h[i]
  <2>1. \A i \in 1 .. b + 2 : i = 1 \/ i = 2 \/ (i - 2 \in 1 .. b /\ i = 2 + (i - 2))
    OBVIOUS
  <2> QED BY <1>7, <1>8, <2>1
<1>10. m = h
  BY <1>6, <1>7, <1>9, SeqEqual
<1> QED BY <1>6, <1>7, <1>10

-----------------------------------------------------------------------------
(* What LIST finds *)

\* NextOf never goes back.
LEMMA NextType ==
    ASSUME NEW kind, NEW lines, Len(lines) \in Nat, NEW i \in Nat
    PROVE  /\ NextOf(kind, lines, i) \in Nat
           /\ i <= Len(lines) => i < NextOf(kind, lines, i)
           /\ i >= Len(lines) => NextOf(kind, lines, i) = Len(lines) + 1
           /\ NextOf(kind, lines, i) <= Len(lines) + 1
<1> DEFINE later == {j \in i + 1 .. Len(lines) : lines[j].kind = kind}
<1>1. PICK n \in Nat : n = Len(lines)
  OBVIOUS
<1>2. CASE later = {}
  <2>1. NextOf(kind, lines, i) = n + 1
    BY <1>1, <1>2 DEF NextOf
  <2> QED BY <1>1, <2>1
<1>3. CASE later # {}
  <2>1. later \in SUBSET Nat
    BY <1>1
  <2>2. PICK m \in later : \A k \in later : ~(k < m)
    BY <1>3, <2>1, LeastNat
  <2>3. \A k \in later : m <= k
    BY <2>1, <2>2
  <2>4. NextOf(kind, lines, i) = CHOOSE j \in later : \A k \in later : j <= k
    BY <1>3 DEF NextOf
  <2>5. NextOf(kind, lines, i) \in later
    BY <2>2, <2>3, <2>4
  <2>6. PICK j \in Nat : j = NextOf(kind, lines, i) /\ i + 1 <= j /\ j <= n
    BY <1>1, <2>5
  <2> QED BY <1>1, <2>6
<1> QED BY <1>2, <1>3

\* The least line of its kind after line i is the next.
LEMMA NextIs ==
    ASSUME NEW kind, NEW lines, NEW n \in Nat, n = Len(lines), NEW i \in Nat,
           NEW j \in i + 1 .. n, lines[j].kind = kind,
           \A k \in i + 1 .. j - 1 : lines[k].kind # kind
    PROVE  NextOf(kind, lines, i) = j
<1> DEFINE later == {m \in i + 1 .. n : lines[m].kind = kind}
<1>1. j \in later
  OBVIOUS
<1>2. ASSUME NEW k \in later PROVE j <= k
  <2>1. k \in i + 1 .. n /\ k \notin i + 1 .. j - 1
    BY <1>2
  <2> QED BY <2>1
<1>3. ASSUME NEW k \in later, \A m \in later : k <= m PROVE k = j
  <2>1. k \in Nat /\ j \in Nat /\ k <= j /\ j <= k
    BY <1>1, <1>2, <1>3
  <2> QED BY <2>1
<1> HIDE DEF later
<1>4. (CHOOSE m \in later : \A k \in later : m <= k) = j
  BY <1>1, <1>2, <1>3
<1>5. NextOf(kind, lines, i) = IF later = {} THEN n + 1
                               ELSE CHOOSE m \in later : \A k \in later : m <= k
  BY DEF NextOf, later
<1> QED BY <1>1, <1>4, <1>5

\* Where the loop of LIST is after a turn that begins after line i.
Sender(lines, i) == NextOf("From: ", lines, i)
Finish(lines, i) == NextOf(".", lines, NextOf("Date: ", lines, Sender(lines, i)))

\* What it finds from there on, if rest is what it finds after later lines.
Found(lines, rest, i) ==
    IF Finish(lines, i) > Len(lines) THEN <<>>
    ELSE <<lines[Sender(lines, i)].of>> \o rest[Finish(lines, i)]

LEMMA FinishGrows ==
    ASSUME NEW lines, NEW n \in Nat, n = Len(lines), NEW i \in 0 .. n
    PROVE  Finish(lines, i) \in Nat /\ i < Finish(lines, i)
<1>a. i \in Nat /\ i <= n
  OBVIOUS
<1>1. PICK a \in Nat : a = Sender(lines, i) /\ i < a
  <2>1. NextOf("From: ", lines, i) \in Nat /\ i < NextOf("From: ", lines, i)
    BY <1>a, NextType
  <2> QED BY <2>1 DEF Sender
<1>2. PICK b \in Nat : b = NextOf("Date: ", lines, a) /\ (a <= n => a < b) /\ (a >= n => b = n + 1)
  BY NextType
<1>3. PICK d \in Nat : d = NextOf(".", lines, b) /\ (b <= n => b < d) /\ (b >= n => d = n + 1)
  BY NextType
<1>4. i < b
  <2>1. i < a /\ (a <= n => a < b) /\ (a >= n => b = n + 1)
    BY <1>1, <1>2
  <2> QED BY <1>a, <2>1
<1>5. i < d
  <2>1. i < b /\ (b <= n => b < d) /\ (b >= n => d = n + 1)
    BY <1>3, <1>4
  <2> QED BY <1>a, <2>1
<1> QED BY <1>1, <1>2, <1>3, <1>5 DEF Finish

LEMMA ListTurns ==
    ASSUME NEW lines, NEW n \in Nat, n = Len(lines)
    PROVE  \E rest : /\ \A i \in 0 .. n : rest[i] = Found(lines, rest, i)
                     /\ ListOf(lines) = rest[0]
<1> DEFINE Turns(rest, m) == /\ rest = [i \in 0 .. n |-> rest[i]]
                             /\ \A i \in 0 .. n : i + m >= n => rest[i] = Found(lines, rest, i)
           S == {m \in Nat : \E rest : Turns(rest, m)}
<1>1. 0 \in S
  <2> DEFINE rest == [i \in 0 .. n |-> <<>>]
  <2>1. Finish(lines, n) > n
    BY FinishGrows
  <2>2. \A i \in 0 .. n : i + 0 >= n => i = n
    OBVIOUS
  <2>3. Turns(rest, 0)
    BY <2>1, <2>2 DEF Found
  <2> QED BY <2>3
<1>2. ASSUME NEW m \in Nat, m \in S PROVE m + 1 \in S
  <2>1. PICK rest : Turns(rest, m)
    BY <1>2
  <2> DEFINE more == [i \in 0 .. n |-> IF i + m >= n THEN rest[i] ELSE Found(lines, rest, i)]
  <2>2. more = [i \in 0 .. n |-> more[i]]
    OBVIOUS
  <2>3. ASSUME NEW i \in 0 .. n, i + (m + 1) >= n PROVE more[i] = Found(lines, more, i)
    <3>1. PICK d \in Nat : d = Finish(lines, i) /\ i < d
      BY FinishGrows
    <3>2. d <= n => d \in 0 .. n /\ d + m >= n
      BY <2>3, <3>1
    <3>3. d <= n => more[d] = rest[d]
      BY <3>2
    <3>4. Found(lines, more, i) = Found(lines, rest, i)
      BY <3>1, <3>3 DEF Found
    <3>5. more[i] = Found(lines, rest, i)
      BY <2>1
    <3> QED BY <3>4, <3>5
  <2>4. Turns(more, m + 1)
    BY <2>2, <2>3
  <2> HIDE DEF more, Turns
  <2>5. m + 1 \in Nat
    OBVIOUS
  <2> QED BY <2>4, <2>5
<1> HIDE DEF S
<1>3. n \in S
  BY <1>1, <1>2, SetInduction
<1>4. PICK g : Turns(g, n)
  BY <1>3 DEF S
<1>5. \A i \in 0 .. n : i + n >= n
  OBVIOUS
<1>6. g = [i \in 0 .. n |-> Found(lines, g, i)]
  BY <1>4, <1>5
<1> DEFINE f == CHOOSE f : f = [i \in 0 .. n |-> Found(lines, f, i)]
<1>7. f = [i \in 0 .. n |-> Found(lines, f, i)]
  BY <1>6
<1>8. ListOf(lines) = f[0]
  BY DEF ListOf, Found, Finish, Sender
<1> HIDE DEF f
<1>9. \A i \in 0 .. n : f[i] = Found(lines, f, i)
  BY <1>7
<1> QED BY <1>8, <1>9

LEMMA TurnIs ==
    ASSUME NEW lines, NEW l \in Nat, l = Len(lines), NEW mail \in Mails,
           NEW s \in Nat, NEW t \in Nat, t <= l, Whole(lines, mail, s, t)
    PROVE  lines[Sender(lines, s)].of = mail.from /\ Finish(lines, s) = t
<1>1. s + 3 <= t /\ \A p \in s + 1 .. t : lines[p].kind = "." <=> p = t
  <2>1. t \in s + 1 .. t
    <3>1. PICK b \in Nat : t = s + b + 3
      BY BodyKinds DEF Mails, Whole
    <3> QED BY <3>1
  <2> QED BY <2>1, OneSeparator
<1>2. /\ lines[s + 1].kind = "From: " /\ lines[s + 1].of = mail.from
      /\ lines[s + 2].kind = "Date: "
  <2>1. lines[s + 1] = FromLine(mail.from) /\ lines[s + 2] = DateLine
    BY DEF Whole
  <2> QED BY <2>1, LineKinds
<1>3. Sender(lines, s) = s + 1
  <2>1. PICK j \in Nat : j = s + 1 /\ j \in s + 1 .. l /\ \A k \in s + 1 .. j - 1 : FALSE
    BY <1>1
  <2>2. j \in s + 1 .. l /\ lines[j].kind = "From: "
        /\ \A k \in s + 1 .. j - 1 : lines[k].kind # "From: "
    BY <1>2, <2>1
  <2>3. NextOf("From: ", lines, s) = j
    BY <2>2, NextIs
  <2> QED BY <2>1, <2>3 DEF Sender
<1>4. NextOf("Date: ", lines, s + 1) = s + 2
  <2>1. PICK i \in Nat, j \in Nat :
           i = s + 1 /\ j = s + 2 /\ j \in i + 1 .. l /\ \A k \in i + 1 .. j - 1 : FALSE
    BY <1>1
  <2>2. j \in i + 1 .. l /\ lines[j].kind = "Date: "
        /\ \A k \in i + 1 .. j - 1 : lines[k].kind # "Date: "
    BY <1>2, <2>1
  <2>3. NextOf("Date: ", lines, i) = j
    BY <2>2, NextIs
  <2> QED BY <2>1, <2>3
<1>5. NextOf(".", lines, s + 2) = t
  <2>1. t \in s + 2 + 1 .. l /\ s + 2 \in Nat
    BY <1>1
  <2>2. lines[t].kind = "." /\ \A k \in s + 2 + 1 .. t - 1 : lines[k].kind # "."
    <3>1. t \in s + 1 .. t /\ \A k \in s + 2 + 1 .. t - 1 : k \in s + 1 .. t /\ k # t
      BY <1>1
    <3> QED BY <1>1, <3>1
  <2> QED BY <2>1, <2>2, NextIs
<1> QED BY <1>2, <1>3, <1>4, <1>5 DEF Finish

LEMMA OneBefore ==
    ASSUME NEW S, NEW k \in Nat, NEW g \in Seq(S), Len(g) = k,
           NEW f \in Seq(S), Len(f) = k + 1, \A j \in 1 .. k : g[j] = f[j + 1]
    PROVE  <<f[1]>> \o g = f
<1>1. f[1] \in S
  BY ElementOfSeq
<1>2. PICK one \in Seq(S) : one = <<f[1]>> /\ Len(one) = 1 /\ one[1] = f[1]
  <2>1. PICK x \in S : x = f[1]
    BY <1>1
  <2>2. <<x>> \in Seq(S) /\ Len(<<x>>) = 1 /\ <<x>>[1] = x
    OBVIOUS
  <2> QED BY <2>1, <2>2
<1>3. /\ one \o g \in Seq(S) /\ Len(one \o g) = Len(one) + Len(g)
      /\ \A i \in 1 .. Len(one) + Len(g) :
           (one \o g)[i] = IF i <= Len(one) THEN one[i] ELSE g[i - Len(one)]
  BY ConcatProperties
<1>4. PICK h \in Seq(S) : h = one \o g /\ Len(h) = k + 1
                           /\ \A i \in 1 .. k + 1 : h[i] = IF i <= 1 THEN one[i] ELSE g[i - 1]
  <2>1. 1 + k = k + 1
    OBVIOUS
  <2> QED BY <1>2, <1>3, <2>1
<1>5. \A i \in 1 .. k + 1 : (i <= 1 /\ i = 1) \/ (~(i <= 1) /\ i - 1 \in 1 .. k /\ i - 1 + 1 = i)
  OBVIOUS
<1>6. \A i \in 1 .. k + 1 : h[i] = f[i]
  BY <1>2, <1>4, <1>5
<1>7. h = f
  BY <1>4, <1>6, SeqEqual
<1> QED BY <1>2, <1>4, <1>7

LEMMA ListIs ==
    ASSUME NEW lines \in Seq(FileLines), NEW mails \in Seq(Mails), NEW e,
           Layout(lines, mails, e)
    PROVE  ListOf(lines) = [id \in DOMAIN mails |-> mails[id].from]
<1>1. PICK n \in Nat : n = Len(mails) /\ DOMAIN mails = 1 .. n
  BY LenProperties
<1>2. PICK l \in Nat : l = Len(lines)
  BY LenProperties
<1>3. PICK rest : /\ \A i \in 0 .. l : rest[i] = Found(lines, rest, i)
                  /\ ListOf(lines) = rest[0]
  BY <1>2, ListTurns
<1>a. /\ e \in [0 .. n -> Nat] /\ e[0] = 0 /\ e[n] = l
      /\ \A id \in 1 .. n : Whole(lines, mails[id], e[id - 1], e[id])
  BY <1>1, <1>2 DEF Layout
<1>b. \A id \in 1 .. n : mails[id] \in Mails /\ mails[id].from \in Addresses
  <2>1. \A id \in 1 .. n : mails[id] \in Mails
    BY <1>1, ElementOfSeq
  <2> QED BY <2>1 DEF Mails
<1>c. /\ \A id \in 1 .. n : e[id - 1] + 3 <= e[id]
      /\ \A i, j \in 0 .. n : i < j => e[i] < e[j]
  BY <1>1, EndsGrow
<1>4. /\ e \in [0 .. n -> Nat] /\ e[0] = 0 /\ e[n] = l
      /\ \A id \in 1 .. n : /\ mails[id] \in Mails /\ mails[id].from \in Addresses
                            /\ Whole(lines, mails[id], e[id - 1], e[id])
                            /\ e[id - 1] + 3 <= e[id]
      /\ \A i, j \in 0 .. n : i < j => e[i] < e[j]
  BY <1>a, <1>b, <1>c
<1> DEFINE Last(k) == [j \in 1 .. k |-> mails[n - k + j].from]
           S == {k \in Nat : k <= n => rest[e[n - k]] = Last(k)}
<1>5. 0 \in S
  <2>1. n - 0 = n /\ l \in 0 .. l
    OBVIOUS
  <2>2. Finish(lines, l) \in Nat /\ Finish(lines, l) > l
    BY <1>2, <2>1, FinishGrows
  <2>3. rest[l] = <<>>
    BY <1>2, <1>3, <2>1, <2>2 DEF Found
  <2>4. Last(0) = <<>>
    OBVIOUS
  <2> QED BY <1>4, <2>1, <2>3, <2>4
<1>6. ASSUME NEW k \in Nat, k \in S PROVE k + 1 \in S
  <2>1. SUFFICES ASSUME k + 1 <= n PROVE rest[e[n - (k + 1)]] = Last(k + 1)
    OBVIOUS
  <2>2. PICK i \in 1 .. n : i = n - k /\ n - (k + 1) = i - 1
    BY <2>1
  <2>3. rest[e[i]] = Last(k)
    BY <1>6, <2>1, <2>2
  <2>4. PICK s \in Nat, t \in Nat : s = e[i - 1] /\ t = e[i] /\ t <= l /\ s \in 0 .. l
    <3>1. i - 1 \in 0 .. n /\ i \in 0 .. n /\ n \in 0 .. n /\ (i < n \/ i = n)
      OBVIOUS
    <3>2. e[i - 1] \in Nat /\ e[i] \in Nat /\ e[i - 1] + 3 <= e[i]
          /\ (e[i] < e[n] \/ e[i] = e[n])
      BY <1>4, <3>1
    <3>3. PICK x \in Nat, y \in Nat :
             x = e[i - 1] /\ y = e[i] /\ x + 3 <= y /\ (y < e[n] \/ y = e[n])
      BY <3>2
    <3>4. e[n] = l
      BY <1>4
    <3>5. y <= l /\ x \in 0 .. l
      BY <3>3, <3>4
    <3> QED BY <3>3, <3>5
  <2>5. Whole(lines, mails[i], s, t) /\ mails[i] \in Mails
    BY <1>4, <2>4
  <2>6. lines[Sender(lines, s)].of = mails[i].from /\ Finish(lines, s) = t
    BY <1>2, <2>4, <2>5, TurnIs
  <2>7. rest[s] = <<mails[i].from>> \o rest[t]
    <3>1. ~(t > l)
      BY <2>4
    <3> QED BY <1>2, <1>3, <2>4, <2>6, <3>1 DEF Found
  <2>8. <<mails[i].from>> \o Last(k) = Last(k + 1)
    <3>1. \A j \in 1 .. k : n - k + j \in 1 .. n
      BY <2>1
    <3>2. \A j \in 1 .. k + 1 : n - (k + 1) + j \in 1 .. n
      BY <2>1
    <3>3. Last(k) \in Seq(Addresses) /\ Len(Last(k)) = k
      <4>1. Last(k) \in [1 .. k -> Addresses]
        BY <1>4, <3>1
      <4> HIDE DEF Last
      <4> QED BY <4>1, SeqDef
    <3>4. Last(k + 1) \in Seq(Addresses) /\ Len(Last(k + 1)) = k + 1
      <4>1. \A j \in 1 .. k + 1 : mails[n - (k + 1) + j].from \in Addresses
        BY <1>4, <3>2
      <4>2. Last(k + 1) \in [1 .. k + 1 -> Addresses]
        BY <4>1
      <4>3. k + 1 \in Nat
        OBVIOUS
      <4> HIDE DEF Last
      <4> QED BY <4>2, <4>3, SeqDef
    <3>5. \A j \in 1 .. k : j + 1 \in 1 .. k + 1 /\ n - (k + 1) + (j + 1) = n - k + j
      OBVIOUS
    <3>6. \A j \in 1 .. k : Last(k)[j] = Last(k + 1)[j + 1]
      BY <3>5
    <3>7. 1 \in 1 .. k + 1 /\ n - (k + 1) + 1 = i
      BY <2>2
    <3>8. Last(k + 1)[1] = mails[i].from
      BY <3>7
    <3> HIDE DEF Last
    <3> QED BY <3>3, <3>4, <3>6, <3>8, OneBefore
  <2> HIDE DEF Last
  <2> QED BY <2>2, <2>3, <2>4, <2>7, <2>8
<1> HIDE DEF S
<1>7. n \in S
  BY <1>5, <1>6, SetInduction
<1>8. rest[e[n - n]] = Last(n)
  BY <1>7 DEF S
<1>9. n - n = 0 /\ \A j \in 1 .. n : n - n + j = j
  OBVIOUS
<1>10. rest[0] = Last(n)
  BY <1>4, <1>8, <1>9
<1>11. Last(n) = [id \in 1 .. n |-> mails[id].from]
  BY <1>9
<1> QED BY <1>1, <1>3, <1>10, <1>11

-----------------------------------------------------------------------------
(* Storing a mail *)

LEMMA MailEnds ==
    ASSUME NEW mail \in Mails, NEW b \in Nat, b = Len(mail.body),
           NEW m, m = <<FromLine(mail.from), DateLine>> \o mail.body \o <<SEPERATOR>>
    PROVE  m \in Seq(FileLines) /\ Len(m) = b + 3 /\ Whole(m, mail, 0, b + 3)
<1>1. PICK h \in Seq(FileLines) :
         /\ h = <<FromLine(mail.from), DateLine>> \o mail.body
         /\ Len(h) = b + 2 /\ h[1] = FromLine(mail.from) /\ h[2] = DateLine
         /\ \A k \in 1 .. b : h[2 + k] = mail.body[k]
  BY MailLines
<1>2. PICK dot \in Seq(FileLines) : dot = <<SEPERATOR>> /\ Len(dot) = 1 /\ dot[1] = SEPERATOR
  <2>1. PICK x \in FileLines : x = SEPERATOR
    BY DEF FileLines
  <2> HIDE DEF FileLines
  <2>2. <<x>> \in Seq(FileLines) /\ Len(<<x>>) = 1 /\ <<x>>[1] = x
    OBVIOUS
  <2> QED BY <2>1, <2>2
<1>3. m = h \o dot
  BY <1>1, <1>2
<1>4. /\ h \o dot \in Seq(FileLines) /\ Len(h \o dot) = Len(h) + Len(dot)
      /\ \A i \in 1 .. Len(h) + Len(dot) :
           (h \o dot)[i] = IF i <= Len(h) THEN h[i] ELSE dot[i - Len(h)]
  BY ConcatProperties
<1>5. b + 2 + 1 = b + 3
  OBVIOUS
<1>6. m \in Seq(FileLines) /\ Len(m) = b + 3
      /\ \A i \in 1 .. b + 3 : m[i] = IF i <= b + 2 THEN h[i] ELSE dot[i - (b + 2)]
  BY <1>1, <1>2, <1>3, <1>4, <1>5
<1>7. /\ 1 \in 1 .. b + 3 /\ 1 <= b + 2 /\ 2 \in 1 .. b + 3 /\ 2 <= b + 2
      /\ b + 3 \in 1 .. b + 3 /\ ~(b + 3 <= b + 2) /\ b + 3 - (b + 2) = 1
  OBVIOUS
<1>8. \A k \in 1 .. b : 2 + k \in 1 .. b + 3 /\ 2 + k <= b + 2
  OBVIOUS
<1>9. m[1] = FromLine(mail.from) /\ m[2] = DateLine /\ m[b + 3] = SEPERATOR
  BY <1>1, <1>2, <1>6, <1>7
<1>10. \A k \in 1 .. b : m[2 + k] = mail.body[k]
  BY <1>1, <1>6, <1>8
<1>11. 0 + 1 = 1 /\ 0 + 2 = 2 /\ b + 3 = 0 + b + 3
  OBVIOUS
<1>12. Whole(m, mail, 0, b + 3)
  BY <1>9, <1>10, <1>11 DEF Whole
<1> QED BY <1>6, <1>12

\* Other lines before those of a mail change nothing but their numbers.
LEMMA WholeMoves ==
    ASSUME NEW lines, NEW mail \in Mails, NEW s \in Nat, NEW t \in Nat,
           Whole(lines, mail, s, t), NEW all, NEW x \in Nat,
           \A p \in s + 1 .. t : all[x + p] = lines[p]
    PROVE  Whole(all, mail, x + s, x + t)
<1>1. PICK b \in Nat : b = Len(mail.body) /\ t = s + b + 3
  BY BodyKinds DEF Mails, Whole
<1>2. /\ lines[s + 1] = FromLine(mail.from) /\ lines[s + 2] = DateLine
      /\ \A k \in 1 .. b : lines[s + 2 + k] = mail.body[k]
      /\ lines[t] = SEPERATOR
  BY <1>1 DEF Whole
<1>3. t = s + b + 3
  BY <1>1
<1>4. s + 1 \in s + 1 .. t /\ s + 2 \in s + 1 .. t /\ t \in s + 1 .. t
  BY <1>3
<1>5. \A k \in 1 .. b : s + 2 + k \in s + 1 .. t
  BY <1>3
<1>6. all[x + (s + 1)] = lines[s + 1] /\ all[x + (s + 2)] = lines[s + 2] /\ all[x + t] = lines[t]
  BY <1>4
<1>7. \A k \in 1 .. b : all[x + (s + 2 + k)] = lines[s + 2 + k]
  BY <1>5
<1>8. /\ x + (s + 1) = x + s + 1 /\ x + (s + 2) = x + s + 2
      /\ \A k \in 1 .. b : x + (s + 2 + k) = x + s + 2 + k
  OBVIOUS
<1>9. x + t = x + s + b + 3
  BY <1>3
<1>10. \A k \in 1 .. b : all[x + s + 2 + k] = mail.body[k]
  BY <1>2, <1>7, <1>8
<1>11. all[x + s + 1] = FromLine(mail.from) /\ all[x + s + 2] = DateLine /\ all[x + t] = SEPERATOR
  BY <1>2, <1>6, <1>8
<1> QED BY <1>1, <1>9, <1>10, <1>11 DEF Whole

LEMMA MailAppended ==
    ASSUME NEW lines, NEW mails, Laid(lines, mails), NEW mail \in Mails,
           NEW m, m = <<FromLine(mail.from), DateLine>> \o mail.body \o <<SEPERATOR>>
    PROVE  Laid(lines \o m, Append(mails, mail))
<1>1. lines \in Seq(FileLines) /\ mails \in Seq(Mails)
  BY DEF Laid
<1>2. PICK e : Layout(lines, mails, e)
  BY DEF Laid
<1>3. PICK n \in Nat : n = Len(mails)
  BY <1>1, LenProperties
<1>4. PICK l \in Nat : l = Len(lines)
  BY <1>1, LenProperties
<1>5. PICK b \in Nat : b = Len(mail.body)
  BY BodyKinds DEF Mails
<1>6. m \in Seq(FileLines) /\ Len(m) = b + 3 /\ Whole(m, mail, 0, b + 3)
  BY <1>5, MailEnds
<1>7. /\ e \in [0 .. n -> Nat] /\ e[0] = 0 /\ e[n] = l
      /\ \A id \in 1 .. n : Whole(lines, mails[id], e[id - 1], e[id])
  BY <1>2, <1>3, <1>4 DEF Layout
<1>8. ASSUME NEW id \in 1 .. n PROVE mails[id] \in Mails
  BY <1>1, <1>3, ElementOfSeq
<1>a. PICK w \in Nat : w = b + 3
  OBVIOUS
<1>b. /\ lines \o m \in Seq(FileLines) /\ Len(lines \o m) = Len(lines) + Len(m)
      /\ \A i \in 1 .. Len(lines) + Len(m) :
           (lines \o m)[i] = IF i <= Len(lines) THEN lines[i] ELSE m[i - Len(lines)]
  BY <1>1, <1>6, ConcatProperties
<1>c. Len(lines) = l /\ Len(m) = w
  BY <1>4, <1>6, <1>a
<1>9. PICK all \in Seq(FileLines) :
         /\ all = lines \o m /\ Len(all) = l + w
         /\ \A i \in 1 .. l + w : all[i] = IF i <= l THEN lines[i] ELSE m[i - l]
  BY <1>b, <1>c
<1>d. /\ Append(mails, mail) \in Seq(Mails) /\ Len(Append(mails, mail)) = Len(mails) + 1
      /\ \A i \in 1 .. Len(mails) : Append(mails, mail)[i] = mails[i]
      /\ Append(mails, mail)[Len(mails) + 1] = mail
  BY <1>1, AppendProperties
<1>10. PICK more \in Seq(Mails) :
          /\ more = Append(mails, mail) /\ Len(more) = n + 1 /\ more[n + 1] = mail
          /\ \A id \in 1 .. n : more[id] = mails[id]
  BY <1>3, <1>d
<1> DEFINE d == [id \in 0 .. n + 1 |-> IF id <= n THEN e[id] ELSE l + w]
<1>11. ASSUME NEW id \in 1 .. n PROVE Whole(all, more[id], d[id - 1], d[id])
  <2>1. id - 1 \in 0 .. n + 1 /\ id \in 0 .. n + 1 /\ id - 1 <= n /\ id <= n
        /\ id - 1 \in 0 .. n /\ id \in 0 .. n
    OBVIOUS
  <2>2. PICK s \in Nat, t \in Nat : s = e[id - 1] /\ t = e[id]
    BY <1>7, <2>1
  <2>3. d[id - 1] = s /\ d[id] = t
    BY <2>1, <2>2
  <2>4. t <= l
    <3>1. \A i, j \in 0 .. n : i < j => e[i] < e[j]
      BY <1>1, <1>2, <1>3, EndsGrow
    <3>2. n \in 0 .. n /\ (id < n \/ id = n)
      OBVIOUS
    <3>3. t < l \/ t = l
      BY <1>7, <2>1, <2>2, <3>1, <3>2
    <3> QED BY <3>3
  <2>5. \A p \in s + 1 .. t : p \in 1 .. l + w /\ p <= l /\ 0 + p = p
    BY <2>4
  <2>6. \A p \in s + 1 .. t : all[0 + p] = lines[p]
    BY <1>9, <2>5
  <2>7. Whole(lines, mails[id], s, t) /\ mails[id] \in Mails
    BY <1>7, <1>8, <2>2
  <2>8. 0 \in Nat /\ 0 + s = s /\ 0 + t = t
    OBVIOUS
  <2>9. Whole(all, mails[id], 0 + s, 0 + t)
    BY <2>6, <2>7, <2>8, WholeMoves
  <2> HIDE DEF d
  <2> QED BY <1>10, <2>3, <2>8, <2>9
<1>12. Whole(all, more[n + 1], d[n + 1 - 1], d[n + 1])
  <2>1. d[n] = l /\ d[n + 1] = l + w /\ n + 1 - 1 = n
    <3>1. n \in 0 .. n + 1 /\ n + 1 \in 0 .. n + 1 /\ n <= n /\ ~(n + 1 <= n) /\ n + 1 - 1 = n
      OBVIOUS
    <3> QED BY <1>7, <3>1
  <2>2. \A p \in 0 + 1 .. w : l + p \in 1 .. l + w /\ ~(l + p <= l) /\ l + p - l = p
    OBVIOUS
  <2>3. ASSUME NEW p \in 0 + 1 .. w PROVE all[l + p] = m[p]
    <3>1. PICK x \in 1 .. l + w : x = l + p /\ ~(x <= l) /\ x - l = p
      BY <2>2
    <3>2. all[x] = m[x - l]
      BY <1>9, <3>1
    <3> QED BY <3>1, <3>2
  <2>4. 0 \in Nat /\ l + 0 = l
    OBVIOUS
  <2>6. Whole(m, mail, 0, w)
    BY <1>6, <1>a
  <2>5. Whole(all, mail, l + 0, l + w)
    BY <2>3, <2>4, <2>6, WholeMoves
  <2> HIDE DEF d
  <2> QED BY <1>10, <2>1, <2>4, <2>5
<1>13. d \in [0 .. n + 1 -> Nat] /\ d[0] = 0 /\ d[n + 1] = l + w
  <2>1. 0 \in 0 .. n + 1 /\ 0 <= n /\ n + 1 \in 0 .. n + 1 /\ ~(n + 1 <= n)
    OBVIOUS
  <2>2. \A id \in 0 .. n + 1 : id <= n => id \in 0 .. n
    OBVIOUS
  <2>3. l + w \in Nat /\ \A id \in 0 .. n : e[id] \in Nat
    BY <1>7
  <2> QED BY <1>7, <2>1, <2>2, <2>3
<1> HIDE DEF d
<1>14. \A id \in 1 .. n + 1 : id \in 1 .. n \/ id = n + 1
  OBVIOUS
<1>15. \A id \in 1 .. n + 1 : Whole(all, more[id], d[id - 1], d[id])
  BY <1>11, <1>12, <1>14
<1>16. Layout(all, more, d)
  BY <1>9, <1>10, <1>13, <1>15 DEF Layout
<1>17. Laid(all, more)
  BY <1>16 DEF Laid
<1> QED BY <1>9, <1>10, <1>17

-----------------------------------------------------------------------------
(* The files hold the mails that were stored *)

MailsInv ==
    /\ box \in [Addresses -> Seq(Mails)]
    /\ \A a \in Addresses : Laid(Lines(a), box[a])

LEMMA NothingLaid == Laid(<<>>, <<>>)
<1>1. <<>> \in Seq(FileLines) /\ <<>> \in Seq(Mails) /\ Len(<<>>) = 0
  BY EmptySeq
<1> DEFINE e == [id \in 0 .. 0 |-> 0]
<1>2. e \in [0 .. 0 -> Nat] /\ e[0] = 0
  OBVIOUS
<1> HIDE DEF e
<1>3. Layout(<<>>, <<>>, e)
  <2>1. \A id \in 1 .. 0 : FALSE
    OBVIOUS
  <2> QED BY <1>1, <1>2, <2>1 DEF Layout
<1> QED BY <1>1, <1>3 DEF Laid

LEMMA InitMails == Init => MailsInv
<1> SUFFICES ASSUME Init PROVE MailsInv
  OBVIOUS
<1>1. <<>> \in Seq(Mails)
  BY EmptySeq
<1>2. box \in [Addresses -> Seq(Mails)] /\ \A a \in Addresses : box[a] = <<>>
  BY <1>1 DEF Init
<1>3. \A a \in Addresses : Lines(a) = <<>>
  BY DEF Init, Lines
<1> QED BY <1>2, <1>3, NothingLaid DEF MailsInv

LEMMA DATAKeepsMails ==
    ASSUME IInv, MailsInv, NEW c \in Sessions, DATA(c)
    PROVE  MailsInv'
<1>1. to[c] \in Addresses /\ UNCHANGED box /\ DOMAIN file = Addresses
  BY DEF IInv, TypeOK, DATA, MayStore
<1>2. UNCHANGED file \/ file' = [file EXCEPT ![to[c]] = Lines(to[c])]
  BY DEF DATA
<1>3. \A a \in Addresses : file'[a] = file[a] \/ file'[a] = Lines(a)
  BY <1>1, <1>2
<1>4. \A a \in Addresses : Lines(a)' = Lines(a)
  BY <1>3 DEF Lines
<1> QED BY <1>1, <1>4 DEF MailsInv

LEMMA StoreKeepsMails ==
    ASSUME IInv, MailsInv, NEW c \in Sessions, Store(c), Written(c)
    PROVE  MailsInv'
<1>1. /\ to[c] \in Addresses /\ from[c] \in Addresses /\ message[c] \in Bodies
      /\ file[to[c]] \in Seq(FileLines) /\ DOMAIN file = Addresses
  BY DEF IInv, TypeOK, StoringInv, Store
<1>2. file[to[c]] # Absent /\ Lines(to[c]) = file[to[c]]
  BY <1>1, AbsentAssumption DEF Lines
<1> DEFINE mail == [from |-> from[c], body |-> message[c]]
<1>3. mail \in Mails /\ mail.from = from[c] /\ mail.body = message[c]
  BY <1>1 DEF Mails
<1> HIDE DEF mail
<1>4. /\ file' = [file EXCEPT ![to[c]] = @ \o Mail(c)]
      /\ box' = [box EXCEPT ![to[c]] = Append(@, mail)]
  BY DEF Written, mail
<1>5. Mail(c) = <<FromLine(mail.from), DateLine>> \o mail.body \o <<SEPERATOR>>
  BY <1>3 DEF Mail
<1>6. PICK new, more : /\ new = Lines(to[c]) \o Mail(c) /\ more = Append(box[to[c]], mail)
                       /\ Laid(new, more)
  BY <1>1, <1>3, <1>5, MailAppended DEF MailsInv
<1>7. \A a \in Addresses : /\ file'[a] = IF a = to[c] THEN new ELSE file[a]
                           /\ box'[a] = IF a = to[c] THEN more ELSE box[a]
  BY <1>1, <1>2, <1>4, <1>6 DEF MailsInv
<1>8. new \in Seq(FileLines) /\ more \in Seq(Mails)
  BY <1>6 DEF Laid
<1>9. box' \in [Addresses -> Seq(Mails)]
  BY <1>4, <1>6, <1>8 DEF MailsInv
<1>10. ASSUME NEW a \in Addresses PROVE Laid(Lines(a)', box'[a])
  <2>1. CASE a = to[c]
    <3>1. Lines(a)' = new
      BY <1>7, <1>8, <2>1, AbsentAssumption DEF Lines
    <3> QED BY <1>6, <1>7, <2>1, <3>1
  <2>2. CASE a # to[c]
    <3>1. Lines(a)' = Lines(a)
      BY <1>7, <2>2 DEF Lines
    <3> QED BY <1>7, <2>2, <3>1 DEF MailsInv
  <2> QED BY <2>1, <2>2
<1> QED BY <1>9, <1>10 DEF MailsInv

LEMMA NextKeepsMails == IInv /\ MailsInv /\ [Next]_vars => MailsInv'
<1> SUFFICES ASSUME IInv, MailsInv, [Next]_vars PROVE MailsInv'
  OBVIOUS
<1>0. ASSUME UNCHANGED <<file, box>> PROVE MailsInv'
  BY <1>0 DEF MailsInv, Lines
<1>1. ASSUME NEW c \in Sessions,
             Connect(c) \/ Command(c) \/ Store(c) \/ Killed(c) \/ Disconnect(c)
      PROVE  MailsInv'
  <2>1. CASE DATA(c)
    BY <2>1, DATAKeepsMails
  <2>2. CASE Store(c) \/ Killed(c)
    <3>1. (Store(c) /\ Written(c)) \/ UNCHANGED <<file, box>>
      BY <2>2 DEF Store, Killed, Exit, Written
    <3> QED BY <1>0, <3>1, StoreKeepsMails
  <2>3. CASE \/ Connect(c) \/ HELO(c) \/ MAILFROM(c) \/ RCPTTO(c) \/ DATARefused(c)
             \/ LIST(c) \/ LISTOverrun(c) \/ GETMAIL(c) \/ QUIT(c) \/ Malformed(c)
             \/ Disconnect(c)
    <3>1. TypeOK
      BY DEF IInv
    <3> QED BY <1>0, <2>3, <3>1, CommandTypes
  <2> QED BY <1>1, <2>1, <2>2, <2>3 DEF Command
<1>2. CASE UNCHANGED vars
  BY <1>0, <1>2 DEF vars, boxes
<1> QED BY <1>1, <1>2 DEF Next

LEMMA LaidIsFound ==
    ASSUME NEW lines, NEW mails, Laid(lines, mails)
    PROVE  /\ ListOf(lines) = [id \in DOMAIN mails |-> mails[id].from]
           /\ Count(lines) = Len(mails)
           /\ \A id \in DOMAIN mails :
                MailAt(lines, id) = <<FromLine(mails[id].from), DateLine>> \o mails[id].body
<1>1. PICK e : /\ lines \in Seq(FileLines) /\ mails \in Seq(Mails)
               /\ Layout(lines, mails, e)
  BY DEF Laid
<1>2. DOMAIN mails = 1 .. Len(mails)
  BY <1>1, LenProperties
<1> QED BY <1>1, <1>2, ListIs, CountIs, MailIs

\* LIST and GET_MAIL find the mails that were stored, each once, whole and in order,
\* LIST as long as they are no more than fit in its buffers.
THEOREM MailsFound == Spec => []MailsAreFound
<1>1. MailsInv => MailsAreFound
  BY LaidIsFound DEF MailsInv, MailsAreFound
<1>2. Spec => []MailsInv
  BY InitMails, NextKeepsMails, Invariance, PTL DEF Spec
<1> QED BY <1>1, <1>2, PTL
=============================================================================
