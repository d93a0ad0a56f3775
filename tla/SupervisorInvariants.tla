------------------------ MODULE SupervisorInvariants ------------------------
(***************************************************************************)
(* The inductive invariant of the supervisor: what it holds at each place  *)
(* of supervise, whatever the child, the clients and the clock have done.  *)
(***************************************************************************)
EXTENDS Supervisor

Loop == {"try_wait", "signals", "control", "read", "refuse", "max_run", "grace"}

\* From spawn to the end of the loop the child exists and is not reaped; it
\* is reaped by the loop, which then has not failed, or else by the cleanup.
ChildPlace ==
    /\ pc \in {"bind", "spawn"} => leader = "none" /\ error = "none"
    /\ pc \in {"transfer", "mark_running"} \union Loop
          => leader \in {"alive", "zombie"} /\ error = "none"
    /\ pc \in {"restore", "cleanup"}
          => \/ leader = "reaped" /\ error = "none"
             \/ leader \in {"alive", "zombie"} /\ error # "none"
    /\ pc \in {"unbind", "over"}
          => \/ leader = "none" /\ error # "none"
             \/ leader = "reaped"
    /\ leader = "none" => members = {} /\ ~started

\* The run time is measured from the first turn of the loop on.
ClockPlace ==
    /\ pc \in {"bind", "spawn", "transfer", "mark_running"} => ~started
    /\ pc \in Loop => started
    /\ graceOver => terminating # 0

\* What each guard still has to undo, and what it has undone.
GuardPlace ==
    /\ pc \in {"bind", "over"} => ~socket
    /\ pc \notin {"bind", "over", "killed"} => socket
    /\ pc \in {"bind", "spawn", "transfer", "cleanup", "unbind", "over"}
          => foreground = "original"

\* A failure leaves nothing of the group behind.
GroupGone ==
    pc \in {"unbind", "over"} /\ error # "none" => members = {} /\ leader # "alive"

\* The group was signalled because the run is to end, or has failed.
SentKnown == sent # {} => terminating # 0 \/ error # "none"

(***************************************************************************)
(* Where the child, the socket and the terminal are at each place; the     *)
(* promises of CleanReturn hold because the guards undo them in order.     *)
(***************************************************************************)
SupervisorInv ==
    /\ TypeOK
    /\ ChildPlace
    /\ ClockPlace
    /\ GuardPlace
    /\ GroupGone
=============================================================================
