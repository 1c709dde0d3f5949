------------------------------ MODULE TaskPool ------------------------------
(***************************************************************************)
(* What the task queue server of A5 promises: every task of its file is    *)
(* waiting, or in the hands of one client, or done, and once done it stays *)
(* so.  A task that a client does not finish waits again.                  *)
(***************************************************************************)
CONSTANTS Tasks, Clients

VARIABLE status         \* "waiting", a client, or "done", for each task

PoolInit == status = [t \in Tasks |-> "waiting"]

Give(t, c) ==
    /\ status[t] = "waiting"
    /\ \A u \in Tasks : status[u] # c
    /\ status' = [status EXCEPT ![t] = c]

Finish(t) ==
    /\ status[t] \in Clients
    /\ status' = [status EXCEPT ![t] = "done"]

Return(t) ==
    /\ status[t] \in Clients
    /\ status' = [status EXCEPT ![t] = "waiting"]

PoolNext ==
    \E t \in Tasks : Finish(t) \/ Return(t) \/ \E c \in Clients : Give(t, c)

PoolSpec == PoolInit /\ [][PoolNext]_status
=============================================================================
