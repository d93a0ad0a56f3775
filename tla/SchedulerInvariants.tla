------------------------ MODULE SchedulerInvariants ------------------------
(***************************************************************************)
(* The inductive invariants behind the safety properties of Scheduler: who *)
(* holds which lock at which point of the code, what the files of a slot   *)
(* and of the queue say of it, and what a decision may rely on while it is *)
(* being taken.                                                            *)
(***************************************************************************)
EXTENDS Scheduler

\* From the try_lock of the slot to its unlock in Permit::drop.
HoldsPermit == {"granted", "bind", "spawn", "mark_running", "supervise",
                "drop_active", "drop_slot"}

\* queue.lock is held exactly by the process in the critical section.
QueueLockOwner ==
    \A p \in Proc : pc[p] \in CriticalSection <=> queueLock = p

\* A permit is the lock of the slot it names, and a slot lock is a permit.
SlotLockOwner ==
    /\ \A p \in Proc : pc[p] \in HoldsPermit =>
          slot[p] \in Slots /\ slotLock[slot[p]] = p
    /\ \A s \in Slots, p \in Proc : slotLock[s] = p =>
          pc[p] \in HoldsPermit /\ slot[p] = s

\* Only a workload under a supervisor, or an orphan, is alive.
ChildPlace ==
    \A p \in Proc :
        /\ child[p] = "alive" =>
              pc[p] \in {"mark_running", "supervise", "exiting", "done"}
        /\ child[p] = "zombie" => pc[p] \in {"mark_running", "supervise"}

\* From mark_starting on, the metadata of the slot names the permit's job.
PermitRecorded ==
    \A p \in Proc :
        /\ pc[p] \in {"bind", "spawn", "mark_running"} =>
              active[slot[p]] = Starting(p)
        /\ pc[p] = "supervise" => active[slot[p]] = Running(p)
        /\ pc[p] = "drop_active" => active[slot[p]].supervisor = p

\* Metadata names a job that is between mark_starting and the removal of the
\* file, or that was killed there; the slot is the one of the job.
MetadataPlace ==
    \A s \in Slots, p \in Proc : active[s].supervisor = p =>
        /\ pc[p] \in {"bind", "spawn", "mark_running", "supervise",
                      "drop_active", "exiting", "done"}
        /\ pc[p] \in HoldsPermit \/ child[p] = "alive" => slot[p] = s

\* While slot_quarantined decides, the slot can change hands to nobody.
ScanIsStable ==
    \A p \in Proc :
        /\ pc[p] = "check_active" =>
              /\ seen[p] # NoMetadata
              /\ active[Candidate(p)].supervisor
                     \in {NoProc, seen[p].supervisor}
        /\ pc[p] = "try_slot" => active[Candidate(p)] = NoMetadata
        /\ pc[p] = "granted"  => active[slot[p]] = NoMetadata

\* Jobs are granted and recorded within the capacity.
WithinCapacity ==
    /\ \A p \in Proc : pc[p] = "granted" => slot[p] < capacity
    /\ \A s \in Slots : active[s] # NoMetadata => s < capacity

(***************************************************************************)
(* The inductive invariant: SlotExclusion follows from it, and every step  *)
(* of every process preserves it.                                          *)
(***************************************************************************)
PoolInv ==
    /\ TypeOK
    /\ QueueLockOwner
    /\ SlotLockOwner
    /\ ChildPlace
    /\ PermitRecorded
    /\ MetadataPlace
    /\ ScanIsStable
    /\ WithinCapacity

---------------------------------------------------------------------------
(* The files a job leaves, and the queue                                   *)

\* A socket, metadata or a lock of a lease is there while the code that will
\* remove it is still to run, or because its process was killed.
JobFiles ==
    \A p \in Proc :
        /\ p \in control => \/ pc[p] \in {"spawn", "mark_running", "supervise"}
                            \/ result[p] = "killed"
        /\ \A s \in Slots : active[s].supervisor = p =>
              \/ pc[p] \in HoldsPermit \ {"granted", "drop_slot"}
              \/ result[p] = "killed"
        /\ p \in leaseLocked =>
              pc[p] \in CriticalSection
                        \union {"lock_queue", "waiting", "drop_lease"}
        /\ result[p] = "killed" => pc[p] \in {"exiting", "done"}

\* NoTraceLeft follows from it.
TraceInv == PoolInv /\ JobFiles

\* No two leases have the same timestamp, and none is younger than the clock.
TicketsDiffer ==
    \A p \in Proc :
        /\ ticket[p] <= clock
        /\ p \in leaseFiles => ticket[p] # 0
        /\ \A q \in todo[p] : ticket[q] # 0
        /\ \A q \in Proc : ticket[p] = ticket[q] /\ ticket[p] # 0 => p = q

\* What pruning is about to remove belongs to nobody alive, and a waiter that
\* is dropping its lease has unlocked it.
PruneIsSafe ==
    \A p \in Proc :
        /\ pc[p] = "prune_remove" =>
              \A q \in todo[p] : Oldest(q, todo[p]) => q \notin leaseLocked
        /\ pc[p] = "remove_lease" => p \notin leaseLocked

\* What acquire decided stays true while the slots are scanned: the drain
\* flag is not set and the process is the first in the queue.
DecisionHolds ==
    \A p \in Proc :
        /\ pc[p] \in {"scan", "check_active", "try_slot", "no_slot", "granted"}
              => ~drain
        /\ pc[p] \in {"scan", "check_active", "try_slot"} => MayTry(p)

\* What max_queue and max_queued_per_owner allow.
Admissible(leases) ==
    /\ IsFiniteSet(leases)
    /\ Cardinality(leases) <= MaxQueue
    /\ \A p \in leases :
          Cardinality({q \in leases : Owner[q] = Owner[p]}) <= MaxQueuedPerOwner

\* Pruning creates listed leases again without asking for a limit: those that
\* are there and those it has still to visit are within the limits together.
LeasesBounded ==
    /\ Admissible(leaseFiles)
    /\ \A p \in Proc : pc[p] \in {"prune", "prune_remove"} =>
          Admissible(leaseFiles \union todo[p])

\* WaiterKeepsPlace, DrainStopsAdmission, QueueBounded and the refinement
\* follow from it.
QueueInv ==
    /\ PoolInv
    /\ TicketsDiffer
    /\ WaiterKeepsPlace
    /\ PruneIsSafe
    /\ DecisionHolds
    /\ LeasesBounded
=============================================================================
