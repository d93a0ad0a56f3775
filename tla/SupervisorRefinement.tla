------------------------ MODULE SupervisorRefinement ------------------------
(***************************************************************************)
(* The supervisor implements the life of a job that the scheduler relies   *)
(* on.  To the others the job is over once its socket is gone, and until   *)
(* then a reaped child is no different from a zombie.                      *)
(***************************************************************************)
EXTENDS Supervisor

Stage ==
    IF Ended THEN "over"
    ELSE IF pc = "bind" THEN "bind"
    ELSE IF leader = "none" THEN "spawn"
    ELSE IF started THEN "supervise" ELSE "mark_running"

Child ==
    IF leader = "reaped" THEN IF Ended THEN "gone" ELSE "zombie" ELSE leader

Life == INSTANCE Job WITH stage <- Stage, child <- Child

(***************************************************************************)
(* The workload starts after the socket is there, is recorded before the   *)
(* loop, and is dead and reaped when supervise returns, on every path.     *)
(***************************************************************************)
ImplementsJob == Life!Spec
=============================================================================
