------------------------ MODULE SchedulerRefinement ------------------------
(***************************************************************************)
(* The scheduler of files and locks implements the pool with a fair queue. *)
(* The queue is who holds the lock of a lease and has no slot yet, whoever *)
(* else's files lie in waiters/; the order is that of the lease names; the *)
(* slots are the slot locks.                                               *)
(***************************************************************************)
EXTENDS Scheduler

Waiting == leaseLocked \ {slotLock[s] : s \in Slots}

Ahead == [p \in Proc |->
             IF p \in Waiting
             THEN {q \in Waiting : ticket[q] < ticket[p]} ELSE {}]

Pool == INSTANCE FifoPool WITH queue <- Waiting, ahead <- Ahead,
                               holder <- slotLock

(***************************************************************************)
(* No invocation overtakes a live waiter that came before it and no slot   *)
(* has two holders, whatever is pruned, timed out, probed or killed.  This  *)
(* is Pool!Spec, with the stutter, which most steps are, looked at first.  *)
(***************************************************************************)
ImplementsFifoPool ==
    /\ Pool!Init
    /\ [][UNCHANGED Pool!vars \/ Pool!Next]_vars

Stage(p) ==
    IF pc[p] \in {"bind", "spawn", "mark_running", "supervise"} THEN pc[p]
    ELSE IF pc[p] \in {"drop_active", "drop_slot", "exiting", "done"}
    THEN "over" ELSE "waiting"

Supervision(p) == INSTANCE Job WITH stage <- Stage(p), child <- child[p],
                                    socket <- p \in control

(***************************************************************************)
(* What other processes do never disturbs the life of a job: nobody but    *)
(* its supervisor removes the socket while it runs, and a workload is      *)
(* reaped before its permit is given back.                                 *)
(***************************************************************************)
ImplementsJobs ==
    /\ \A p \in Proc : Supervision(p)!Init
    /\ [][\A p \in Proc :
            UNCHANGED Supervision(p)!vars \/ Supervision(p)!Next]_vars
=============================================================================
