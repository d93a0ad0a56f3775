------------------------------ MODULE FifoPool ------------------------------
(***************************************************************************)
(* What the pool promises to the invocations, without files, metadata and  *)
(* leases: a queue in order of arrival in front of a few slots.  Whoever    *)
(* queues is let into a slot only when nobody is ahead of it, a newcomer   *)
(* only when nobody queues, and a slot is given to one process at a time.  *)
(***************************************************************************)
EXTENDS FiniteSets

CONSTANTS Proc, Slots, NoProc

VARIABLES
    queue,   \* who waits
    ahead,   \* ahead[p]: who came before p and still waits
    holder   \* who is in each slot

vars == <<queue, ahead, holder>>

Init ==
    /\ queue = {}
    /\ ahead = [p \in Proc |-> {}]
    /\ holder = [s \in Slots |-> NoProc]

Inside == {holder[s] : s \in Slots} \ {NoProc}

\* Whoever leaves the queue is ahead of nobody any more.
Departed(p) ==
    /\ queue' = queue \ {p}
    /\ ahead' = [q \in Proc |-> IF q = p THEN {} ELSE ahead[q] \ {p}]

Join(p) ==
    /\ p \notin queue \union Inside
    /\ queue' = queue \union {p}
    /\ ahead' = [ahead EXCEPT ![p] = queue]
    /\ UNCHANGED holder

Enter(p, s) ==
    /\ IF p \in queue THEN ahead[p] = {} ELSE queue = {}
    /\ p \notin Inside
    /\ holder[s] = NoProc
    /\ holder' = [holder EXCEPT ![s] = p]
    /\ Departed(p)

GiveUp(p) == p \in queue /\ Departed(p) /\ UNCHANGED holder

Leave(p, s) ==
    /\ holder[s] = p
    /\ holder' = [holder EXCEPT ![s] = NoProc]
    /\ UNCHANGED <<queue, ahead>>

Next ==
    \E p \in Proc :
        \/ Join(p) \/ GiveUp(p)
        \/ \E s \in Slots : Enter(p, s) \/ Leave(p, s)

Spec == Init /\ [][Next]_vars
=============================================================================
