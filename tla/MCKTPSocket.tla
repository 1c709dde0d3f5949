---------------------------- MODULE MCKTPSocket -----------------------------
(***************************************************************************)
(* KTPSocket for model checking: which values and fields are alike.        *)
(***************************************************************************)
EXTENDS KTPSocket, TLC

Symmetry == Permutations(Procs) \cup Permutations(Addrs)

\* What k_socket overwrites is dead while an entry is free, and so is the
\* descriptor of an entry that is not bound, and all that a half-made entry holds,
\* since nobody gets its semaphore.  Of another entry whose semaphore a killed
\* process holds, only the descriptor counts.  States that differ in these only
\* have the same future.
LiveEntry(i) ==
    IF SM[i].is_free \/ i \in half_made THEN <<>>
    ELSE IF i \in dead_sem THEN <<IF SM[i].is_bound THEN SM[i].sockfd ELSE NoFd>>
    ELSE IF SM[i].is_bound THEN SM[i]
    ELSE [SM[i] EXCEPT !.sockfd = NoFd]

View == <<[i \in Ids |-> LiveEntry(i)], locks, users, kernel, master, threadR,
          threadS>>
=============================================================================
