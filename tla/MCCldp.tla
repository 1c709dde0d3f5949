------------------------------- MODULE MCCldp -------------------------------
(***************************************************************************)
(* Cldp for model checking: the servers are alike, and so are the nodes.   *)
(***************************************************************************)
EXTENDS Cldp, TLC

Symmetry == Permutations(Servers) \cup Permutations(Heap)
=============================================================================
