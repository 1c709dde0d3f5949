------------------------------- MODULE MCSmtp -------------------------------
(***************************************************************************)
(* Smtp for model checking: an address of each of two domains, and two     *)
(* bodies, one of which looks like headers.  The last answer is not part   *)
(* of the view, for nothing depends on it.                                 *)
(***************************************************************************)
EXTENDS Smtp, TLC

CONSTANTS d1, d2, a1, a2

MCDomainOf == a1 :> d1 @@ a2 :> d2

MCBodies == {<<TextLine>>, <<FromLine(Invalid), DateLine>>}

View == <<pc, session, message, boxes, sent>>

Symmetry == Permutations(Sessions)
=============================================================================
