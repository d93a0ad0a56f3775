-------------------------------- MODULE Job --------------------------------
(***************************************************************************)
(* What the life of one governed command looks like to the rest of the     *)
(* pool: the stage of its supervisor, the process it has started and the   *)
(* socket on which it can be cancelled.  The scheduler assumes no more     *)
(* than this about supervision, and supervision grants it.                 *)
(***************************************************************************)
VARIABLES
    stage,   \* how far `run` has come, "over" once supervise has returned
    child,   \* the workload; a zombie is dead and not waited for yet
    socket   \* the control socket exists

vars == <<stage, child, socket>>

\* A job is followed from its admission, or from the grant of its slot.
Init == stage \in {"waiting", "bind"} /\ child = "none" /\ socket = FALSE

Granted == stage = "waiting" /\ stage' = "bind" /\ UNCHANGED <<child, socket>>

Bind ==
    /\ stage = "bind"
    /\ stage' = "spawn"
    /\ socket' = TRUE
    /\ UNCHANGED child

Spawn ==
    /\ stage = "spawn"
    /\ stage' = "mark_running"
    /\ child' = "alive"
    /\ UNCHANGED socket

MarkRunning ==
    /\ stage = "mark_running"
    /\ stage' = "supervise"
    /\ UNCHANGED <<child, socket>>

\* A workload whose supervisor is gone is reaped by init.
ChildExit ==
    /\ child = "alive"
    /\ child' = IF stage \in {"mark_running", "supervise"}
                THEN "zombie" ELSE "gone"
    /\ UNCHANGED <<stage, socket>>

\* supervise never returns before the child is dead and reaped.
Return ==
    /\ \/ stage = "bind" /\ UNCHANGED child
       \/ stage = "spawn" /\ UNCHANGED child
       \/ stage \in {"mark_running", "supervise"} /\ child' = "gone"
    /\ stage' = "over"
    /\ socket' = FALSE

\* A killed supervisor leaves the child running and the socket behind.  An
\* invocation that never gets a slot ends like this as well.
Killed ==
    /\ stage # "over"
    /\ stage' = "over"
    /\ child' = IF child = "zombie" THEN "gone" ELSE child
    /\ UNCHANGED socket

\* Somebody removes the socket that a killed supervisor has left.
Clear == stage = "over" /\ socket' = FALSE /\ UNCHANGED <<stage, child>>

Next ==
    \/ Granted \/ Bind \/ Spawn \/ MarkRunning \/ ChildExit \/ Return
    \/ Killed \/ Clear

Spec == Init /\ [][Next]_vars
=============================================================================
