----------------------------- MODULE MailStore -----------------------------
(***************************************************************************)
(* What the mail server of A6 promises: a session declares a domain, and   *)
(* each mail it sends is from an address of that domain, goes to the       *)
(* recipient that it has named, and stays in that mailbox at its place.    *)
(***************************************************************************)
EXTENDS Sequences

CONSTANTS Sessions, Addresses, Domains, DomainOf, Bodies

VARIABLES
    domain, from, to,   \* what each session has declared, or "none"
    box                 \* the mails of each address

Blank == "none"

\* A session begins or ends.
Reset(c) ==
    /\ domain' = [domain EXCEPT ![c] = Blank]
    /\ from' = [from EXCEPT ![c] = Blank]
    /\ to' = [to EXCEPT ![c] = Blank]
    /\ UNCHANGED box

Declare(c) ==
    /\ domain[c] = Blank
    /\ \E d \in Domains : domain' = [domain EXCEPT ![c] = d]
    /\ UNCHANGED <<from, to, box>>

NameSender(c) ==
    /\ from[c] = Blank
    /\ \E a \in Addresses : /\ DomainOf[a] = domain[c]
                            /\ from' = [from EXCEPT ![c] = a]
    /\ UNCHANGED <<domain, to, box>>

NameRecipient(c) ==
    /\ domain[c] # Blank
    /\ to[c] = Blank
    /\ \E a \in Addresses : to' = [to EXCEPT ![c] = a]
    /\ UNCHANGED <<domain, from, box>>

\* The names are used up with the mail, which may be lost.
Store(c) ==
    /\ from[c] # Blank /\ to[c] # Blank
    /\ \/ \E b \in Bodies :
            box' = [box EXCEPT ![to[c]] = Append(@, [from |-> from[c], body |-> b])]
       \/ UNCHANGED box
    /\ from' = [from EXCEPT ![c] = Blank]
    /\ to' = [to EXCEPT ![c] = Blank]
    /\ UNCHANGED domain

Init ==
    /\ domain = [c \in Sessions |-> Blank]
    /\ from = [c \in Sessions |-> Blank]
    /\ to = [c \in Sessions |-> Blank]
    /\ box = [a \in Addresses |-> <<>>]

Next ==
    \E c \in Sessions :
        Reset(c) \/ Declare(c) \/ NameSender(c) \/ NameRecipient(c) \/ Store(c)

Spec == Init /\ [][Next]_<<domain, from, to, box>>
=============================================================================
