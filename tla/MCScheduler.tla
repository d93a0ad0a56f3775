---------------------------- MODULE MCScheduler ----------------------------
(* Small instances of Scheduler for TLC.                                    *)
EXTENDS SchedulerInvariants, SchedulerRefinement

\* Processes 1 and 3 belong to one agent session, process 2 to another.
MCOwner == [p \in Proc |-> p % 2]

\* An invocation that has not had queue.lock yet: nobody can tell it is there.
Unseen(p) == pc[p] \in {"idle", "lock_queue"} /\ result[p] = "none" /\ ~HasLease(p)

\* One behaviour stands for those that differ in what is unseen and in which
\* is which of 1 and 3, who have the owner and the parity in common: all begin
\* before one is seen, and 1 is seen before 3.
OneOfAlike ==
    /\ (\E p \in Proc : ~Unseen(p)) => \A p \in Proc : pc[p] # "idle"
    /\ Unseen(1) => Unseen(3)
=============================================================================
