----------------------------- MODULE Scheduler -----------------------------
(***************************************************************************)
(* The admission pool of agent-gov: every `agent-gov run` invocation is an *)
(* operating-system process that competes, through files and advisory      *)
(* locks only, for one of at most two slots.  There is no daemon: the      *)
(* queue, the slots and the record of who runs in them are the files of    *)
(* the runtime directory, and a process may be killed between any two of   *)
(* its file operations.                                                    *)
(*                                                                         *)
(* One process is one invocation; its name is its pid, never reused.       *)
(***************************************************************************)
EXTENDS Integers, FiniteSets

CONSTANTS
    Proc,              \* pids of the invocations of `agent-gov run`
    Owner,             \* Owner[p]: the --owner hash of the invocation
    MaxQueue,          \* config scheduler.max_queue
    MaxQueuedPerOwner, \* config scheduler.max_queued_per_owner
    InitialCapacity,   \* the capacity file when the scenario begins
    WaitExpires,       \* can scheduler.max_wait elapse in the scenario?
    WritesFail,        \* can a file write, a bind or a spawn fail?
    MaxDisturbances,   \* bound: kills, and probes of status and cancel that meet a try_lock
    MaxAdmin           \* bound: drain, resume and set-capacity operations

NoProc == 0            \* no process has pid 0

ASSUME ProcAssumption == Proc \subseteq Nat \ {NoProc}
ASSUME CapacityAssumption == InitialCapacity \in 1..2
ASSUME LimitsAssumption == MaxQueue \in Nat /\ MaxQueuedPerOwner \in Nat
ASSUME BoundsAssumption == /\ MaxDisturbances \in Nat
                           /\ MaxAdmin \in Nat

VARIABLES
    pc,          \* where each invocation is in acquire, supervise and the drops
    result,      \* what the invocation ends with
    queueLock,   \* the process that holds queue.lock
    slotLock,    \* the process that holds slots/slot-N.lock
    active,      \* active/slot-N.json
    leaseFiles,  \* whose lease file is in waiters/
    leaseLocked, \* who holds the lock of their lease file
    ticket,      \* the timestamp in the name of a lease
    clock,       \* the last timestamp given out
    control,     \* whose control socket file exists
    drain,       \* drain.flag exists
    capacity,    \* the capacity file
    todo,        \* local: the leases prune_stale_waiters still has to visit
    offset,      \* local: the offset of the loop of try_slots
    seen,        \* local: the metadata slot_quarantined has read
    slot,        \* local: the slot of the permit
    child,       \* the governed workload of the invocation
    disturbances, admin  \* what is spent of the bounds

queueVars == <<leaseFiles, leaseLocked, ticket, clock>>
localVars == <<todo, offset, seen, slot>>
fileVars  == <<active, control>>
adminVars == <<drain, capacity, admin>>
boundVars == <<disturbances>>
jobVars   == <<slotLock, child, fileVars>>
envVars   == <<adminVars, boundVars>>
vars == <<pc, result, queueLock, jobVars, queueVars, localVars, envVars>>

---------------------------------------------------------------------------
(* Types and helpers                                                       *)

Slots  == 0..1
NoSlot == 2

\* What active/slot-N.json says: the supervisor of the job, and whether the
\* pid of its child is recorded already (state "running") or not ("starting").
ActiveMetadata == [supervisor : Proc, running : BOOLEAN]
NoMetadata     == [supervisor |-> NoProc, running |-> FALSE]

Starting(p) == [supervisor |-> p, running |-> FALSE]
Running(p)  == [supervisor |-> p, running |-> TRUE]

Locations == {"idle", "lock_queue", "prune", "prune_remove", "scan",
              "check_active", "try_slot", "no_slot", "granted", "waiting",
              "drop_lease", "remove_lease", "bind", "spawn", "mark_running",
              "supervise", "drop_active", "drop_slot", "exiting", "done"}

\* A process holds queue.lock exactly at these locations.
CriticalSection == {"prune", "prune_remove", "scan", "check_active",
                    "try_slot", "no_slot", "granted"}

\* kill(pid, 0): an exited process answers until its parent has reaped it.
SupervisorAlive(p) == pc[p] \notin {"idle", "done"}
ChildAlive(p)      == child[p] \in {"alive", "zombie"}

\* Bug: only the supervisor is asked, the recorded child is not.
SupervisorAnswers(meta) == SupervisorAlive(meta.supervisor)

\* Bug: only the recorded child is asked, there may be none yet.
ChildAnswers(meta) == meta.running /\ ChildAlive(meta.supervisor)

\* Bug: metadata found in a slot is believed for ever.
MetadataTrusted(meta) == meta # NoMetadata

ProcessAlive(meta) ==
    \/ SupervisorAlive(meta.supervisor)
    \/ meta.running /\ ChildAlive(meta.supervisor)

HasLease(p) == p \in leaseLocked

\* The oldest of a set of leases: live_waiters sorts the names.
Oldest(p, leases) == p \in leases /\ \A q \in leases : ticket[p] <= ticket[q]

\* Bug: the scan goes round all slots there can be, not those in use.
CandidateOfAll(p) == (p + offset[p]) % 2

\* The slot try_slots looks at: the scan starts at a slot given by the pid.
Candidate(p) == ((p % capacity) + offset[p]) % capacity

Goto(p, location) == pc' = [pc EXCEPT ![p] = location]
Finish(p, r)      == result' = [result EXCEPT ![p] = r]

\* An early return of acquire inside the critical section: queue.lock is
\* released first, then a lease the invocation may hold is dropped.
Abort(p, r) ==
    /\ queueLock' = NoProc
    /\ Finish(p, r)
    /\ Goto(p, IF HasLease(p) THEN "drop_lease" ELSE "exiting")
    /\ todo' = [todo EXCEPT ![p] = {}]
    /\ offset' = [offset EXCEPT ![p] = 0]
    /\ seen' = [seen EXCEPT ![p] = NoMetadata]

Init ==
    /\ pc = [p \in Proc |-> "idle"]
    /\ result = [p \in Proc |-> "none"]
    /\ queueLock = NoProc
    /\ slotLock = [s \in Slots |-> NoProc]
    /\ active = [s \in Slots |-> NoMetadata]
    /\ leaseFiles = {}
    /\ leaseLocked = {}
    /\ ticket = [p \in Proc |-> 0]
    /\ clock = 0
    /\ control = {}
    /\ drain = FALSE
    /\ capacity = InitialCapacity
    /\ todo = [p \in Proc |-> {}]
    /\ offset = [p \in Proc |-> 0]
    /\ seen = [p \in Proc |-> NoMetadata]
    /\ slot = [p \in Proc |-> NoSlot]
    /\ child = [p \in Proc |-> "none"]
    /\ disturbances = 0
    /\ admin = 0

---------------------------------------------------------------------------
(* Scheduler::acquire: the critical section under queue.lock               *)

Start(p) ==
    /\ pc[p] = "idle"
    /\ Goto(p, "lock_queue")
    /\ UNCHANGED <<result, queueLock, queueVars, localVars, envVars, jobVars>>

\* Blocks in lock(); then prune_stale_waiters lists the directory.
LockQueue(p) ==
    /\ pc[p] = "lock_queue"
    /\ queueLock = NoProc
    /\ queueLock' = p
    /\ todo' = [todo EXCEPT ![p] = leaseFiles]
    /\ Goto(p, "prune")
    /\ UNCHANGED <<result, queueVars, offset, seen, slot, envVars, jobVars>>

\* The lock of a lease is held by its live owner: leave the file alone.
PruneKeep(p) ==
    /\ pc[p] = "prune"
    /\ \E q \in todo[p] :
        /\ Oldest(q, todo[p])
        /\ q \in leaseLocked
        /\ todo' = [todo EXCEPT ![p] = @ \ {q}]
    /\ UNCHANGED <<pc, result, queueLock, queueVars, offset, seen, slot,
                   envVars, jobVars>>

\* Bug: any listed lease is removed, without trying its lock.
PruneOpenUnchecked(p) ==
    /\ pc[p] = "prune"
    /\ \E q \in todo[p] :
        /\ Oldest(q, todo[p])
        /\ leaseFiles' = leaseFiles \union {q}
    /\ Goto(p, "prune_remove")
    /\ UNCHANGED <<result, queueLock, leaseLocked, ticket, clock, localVars,
                   envVars, jobVars>>

\* The lease is not locked.  Opening it creates it anew if its owner has
\* removed it since the directory was listed.
PruneOpen(p) ==
    /\ pc[p] = "prune"
    /\ \E q \in todo[p] :
        /\ Oldest(q, todo[p])
        /\ q \notin leaseLocked
        /\ leaseFiles' = leaseFiles \union {q}
    /\ Goto(p, "prune_remove")
    /\ UNCHANGED <<result, queueLock, leaseLocked, ticket, clock, localVars,
                   envVars, jobVars>>

PruneRemove(p) ==
    /\ pc[p] = "prune_remove"
    /\ \E q \in todo[p] :
        /\ Oldest(q, todo[p])
        /\ q \in leaseFiles
        /\ leaseFiles' = leaseFiles \ {q}
        /\ todo' = [todo EXCEPT ![p] = @ \ {q}]
    /\ Goto(p, "prune")
    /\ UNCHANGED <<result, queueLock, leaseLocked, ticket, clock, offset,
                   seen, slot, envVars, jobVars>>

\* remove_file finds nothing: the owner of the lease, which drops it without
\* queue.lock, has removed it in between.  The error ends the pruning process.
PruneLost(p) ==
    /\ pc[p] = "prune_remove"
    /\ \E q \in todo[p] : Oldest(q, todo[p]) /\ q \notin leaseFiles
    /\ Abort(p, "io")
    /\ UNCHANGED <<queueVars, slot, envVars, jobVars>>

RefuseDraining(p) ==
    /\ pc[p] = "prune"
    /\ todo[p] = {}
    /\ drain
    /\ Abort(p, "temporary")
    /\ UNCHANGED <<queueVars, slot, envVars, jobVars>>

\* Bug: a newcomer tries the slots although others wait.
MayTryAhead(p) == HasLease(p) => Oldest(p, leaseFiles)

\* A newcomer may try the slots when nobody waits, a waiter when it is first.
MayTry(p) ==
    IF HasLease(p) THEN Oldest(p, leaseFiles) ELSE leaseFiles = {}

\* Bug: the drain flag is not looked at.
DecideAlways(p) ==
    /\ pc[p] = "prune"
    /\ todo[p] = {}
    /\ Goto(p, IF MayTry(p) THEN "scan" ELSE "no_slot")
    /\ UNCHANGED <<result, queueLock, queueVars, localVars, envVars, jobVars>>

Decide(p) ==
    /\ pc[p] = "prune"
    /\ todo[p] = {}
    /\ ~drain
    /\ Goto(p, IF MayTry(p) THEN "scan" ELSE "no_slot")
    /\ UNCHANGED <<result, queueLock, queueVars, localVars, envVars, jobVars>>

---------------------------------------------------------------------------
(* try_slots and slot_quarantined                                          *)

\* Bug: the loop runs one offset too far.
NextSlotInclusive(p) ==
    IF offset[p] + 1 <= capacity
    THEN Goto(p, "scan") /\ offset' = [offset EXCEPT ![p] = @ + 1]
    ELSE Goto(p, "no_slot") /\ offset' = [offset EXCEPT ![p] = 0]

\* The candidate slot is skipped; after the last one no permit is found.
NextSlot(p) ==
    IF offset[p] + 1 < capacity
    THEN Goto(p, "scan") /\ offset' = [offset EXCEPT ![p] = @ + 1]
    ELSE Goto(p, "no_slot") /\ offset' = [offset EXCEPT ![p] = 0]

ReadActive(p) ==
    /\ pc[p] = "scan"
    /\ seen' = [seen EXCEPT ![p] = active[Candidate(p)]]
    /\ Goto(p, IF active[Candidate(p)] = NoMetadata
               THEN "try_slot" ELSE "check_active")
    /\ UNCHANGED <<result, queueLock, queueVars, todo, offset, slot, envVars,
                   jobVars>>

\* The supervisor or the recorded child answers: the slot is not for taking.
Quarantine(p) ==
    /\ pc[p] = "check_active"
    /\ ProcessAlive(seen[p])
    /\ NextSlot(p)
    /\ seen' = [seen EXCEPT ![p] = NoMetadata]
    /\ UNCHANGED <<result, queueLock, queueVars, todo, slot, envVars, jobVars>>

\* Nobody answers: the socket and the metadata of the job are removed.
ClearStale(p) ==
    /\ pc[p] = "check_active"
    /\ ~ProcessAlive(seen[p])
    /\ active[Candidate(p)] # NoMetadata
    /\ control' = control \ {seen[p].supervisor}
    /\ active' = [active EXCEPT ![Candidate(p)] = NoMetadata]
    /\ seen' = [seen EXCEPT ![p] = NoMetadata]
    /\ Goto(p, "try_slot")
    /\ UNCHANGED <<result, queueLock, slotLock, child, queueVars, todo,
                   offset, slot, envVars>>

\* The supervisor was alive when the metadata was read; it has removed it and
\* ended since, so remove_file fails and the error ends this invocation.
ClearLost(p) ==
    /\ pc[p] = "check_active"
    /\ ~ProcessAlive(seen[p])
    /\ active[Candidate(p)] = NoMetadata
    /\ control' = control \ {seen[p].supervisor}
    /\ Abort(p, "io")
    /\ UNCHANGED <<slotLock, child, queueVars, slot, active, envVars>>

TakeSlot(p) ==
    /\ pc[p] = "try_slot"
    /\ slotLock[Candidate(p)] = NoProc
    /\ slotLock' = [slotLock EXCEPT ![Candidate(p)] = p]
    /\ slot' = [slot EXCEPT ![p] = Candidate(p)]
    /\ offset' = [offset EXCEPT ![p] = 0]
    /\ Goto(p, "granted")
    /\ UNCHANGED <<result, queueLock, child, queueVars, todo, seen, fileVars,
                   envVars>>

SlotBusy(p) ==
    /\ pc[p] = "try_slot"
    /\ slotLock[Candidate(p)] # NoProc
    /\ NextSlot(p)
    /\ UNCHANGED <<result, queueLock, queueVars, todo, seen, slot, envVars,
                   jobVars>>

\* slot_locked, called by status and cancel without queue.lock, holds the lock
\* of a free slot for an instant: the try_lock that meets it sees a busy slot.
SlotProbed(p) ==
    /\ pc[p] = "try_slot"
    /\ slotLock[Candidate(p)] = NoProc
    /\ disturbances < MaxDisturbances
    /\ disturbances' = disturbances + 1
    /\ NextSlot(p)
    /\ UNCHANGED <<result, queueLock, queueVars, todo, seen, slot, adminVars,
                   jobVars>>

\* The permit is granted: the lease goes, the metadata says "starting".
MarkStarting(p) ==
    /\ pc[p] = "granted"
    /\ leaseLocked' = leaseLocked \ {p}
    /\ leaseFiles' = leaseFiles \ {p}
    /\ active' = [active EXCEPT ![slot[p]] = Starting(p)]
    /\ queueLock' = NoProc
    /\ Goto(p, "bind")
    /\ UNCHANGED <<result, slotLock, child, ticket, clock, localVars, control,
                   envVars>>

\* The metadata cannot be written: the permit is dropped under queue.lock.
MarkStartingFails(p) ==
    /\ WritesFail
    /\ pc[p] = "granted"
    /\ leaseLocked' = leaseLocked \ {p}
    /\ leaseFiles' = leaseFiles \ {p}
    /\ active' = [active EXCEPT ![slot[p]] = NoMetadata]
    /\ slotLock' = [slotLock EXCEPT ![slot[p]] = NoProc]
    /\ slot' = [slot EXCEPT ![p] = NoSlot]
    /\ queueLock' = NoProc
    /\ Finish(p, "io")
    /\ Goto(p, "exiting")
    /\ UNCHANGED <<child, ticket, clock, todo, offset, seen, control, envVars>>

---------------------------------------------------------------------------
(* Waiting: enforce_admission, WaiterLease, backoff and the wait limit     *)

KeepWaiting(p) ==
    /\ pc[p] = "no_slot"
    /\ HasLease(p)
    /\ queueLock' = NoProc
    /\ Goto(p, "waiting")
    /\ UNCHANGED <<result, queueVars, localVars, envVars, jobVars>>

QueueFull     == Cardinality(leaseFiles) >= MaxQueue

\* Bug: one more than the limit.
OwnerQueuedBeyond(p) ==
    Cardinality({q \in leaseFiles : Owner[q] = Owner[p]}) > MaxQueuedPerOwner

OwnerQueued(p) ==
    Cardinality({q \in leaseFiles : Owner[q] = Owner[p]}) >= MaxQueuedPerOwner

\* Bug: the limits are applied to those who are in the queue as well.
RefuseWaiters(p) ==
    /\ pc[p] = "no_slot"
    /\ QueueFull \/ OwnerQueued(p)
    /\ Abort(p, "temporary")
    /\ UNCHANGED <<queueVars, slot, envVars, jobVars>>

RefuseAdmission(p) ==
    /\ pc[p] = "no_slot"
    /\ ~HasLease(p)
    /\ QueueFull \/ OwnerQueued(p)
    /\ Abort(p, "temporary")
    /\ UNCHANGED <<queueVars, slot, envVars, jobVars>>

Enqueue(p) ==
    /\ pc[p] = "no_slot"
    /\ ~HasLease(p)
    /\ ~(QueueFull \/ OwnerQueued(p))
    /\ clock' = clock + 1
    /\ ticket' = [ticket EXCEPT ![p] = clock + 1]
    /\ leaseFiles' = leaseFiles \union {p}
    /\ leaseLocked' = leaseLocked \union {p}
    /\ queueLock' = NoProc
    /\ Goto(p, "waiting")
    /\ UNCHANGED <<result, localVars, envVars, jobVars>>

\* The metadata of the lease cannot be written: its file stays, not locked.
EnqueueFails(p) ==
    /\ WritesFail
    /\ pc[p] = "no_slot"
    /\ ~HasLease(p)
    /\ ~(QueueFull \/ OwnerQueued(p))
    /\ clock' = clock + 1
    /\ ticket' = [ticket EXCEPT ![p] = clock + 1]
    /\ leaseFiles' = leaseFiles \union {p}
    /\ Abort(p, "io")
    /\ UNCHANGED <<leaseLocked, slot, envVars, jobVars>>

\* The backoff sleep ends and the loop begins again.
Retry(p) ==
    /\ pc[p] = "waiting"
    /\ Goto(p, "lock_queue")
    /\ UNCHANGED <<result, queueLock, queueVars, localVars, envVars, jobVars>>

TimeOut(p) ==
    /\ WaitExpires
    /\ pc[p] = "waiting"
    /\ Finish(p, "temporary")
    /\ Goto(p, "drop_lease")
    /\ UNCHANGED <<queueLock, queueVars, localVars, envVars, jobVars>>

\* WaiterLease::drop, without queue.lock: unlock, then remove the file.
UnlockLease(p) ==
    /\ pc[p] = "drop_lease"
    /\ leaseLocked' = leaseLocked \ {p}
    /\ Goto(p, "remove_lease")
    /\ UNCHANGED <<result, queueLock, leaseFiles, ticket, clock, localVars,
                   envVars, jobVars>>

RemoveLease(p) ==
    /\ pc[p] = "remove_lease"
    /\ leaseFiles' = leaseFiles \ {p}
    /\ Goto(p, "exiting")
    /\ UNCHANGED <<result, queueLock, leaseLocked, ticket, clock, localVars,
                   envVars, jobVars>>

---------------------------------------------------------------------------
(* supervise, seen from the pool, and Permit::drop                         *)

Bind(p) ==
    /\ pc[p] = "bind"
    /\ control' = control \union {p}
    /\ Goto(p, "spawn")
    /\ UNCHANGED <<result, queueLock, slotLock, child, queueVars, localVars,
                   active, envVars>>

\* Bug: the error path unlocks the slot and leaves the metadata.
BindFailsUnlockOnly(p) ==
    /\ WritesFail
    /\ pc[p] = "bind"
    /\ Finish(p, "io")
    /\ Goto(p, "drop_slot")
    /\ UNCHANGED <<queueLock, queueVars, localVars, envVars, jobVars>>

BindFails(p) ==
    /\ WritesFail
    /\ pc[p] = "bind"
    /\ Finish(p, "io")
    /\ Goto(p, "drop_active")
    /\ UNCHANGED <<queueLock, queueVars, localVars, envVars, jobVars>>

Spawn(p) ==
    /\ pc[p] = "spawn"
    /\ child' = [child EXCEPT ![p] = "alive"]
    /\ Goto(p, "mark_running")
    /\ UNCHANGED <<result, queueLock, slotLock, queueVars, localVars,
                   fileVars, envVars>>

SpawnFails(p) ==
    /\ WritesFail
    /\ pc[p] = "spawn"
    /\ control' = control \ {p}
    /\ Finish(p, "io")
    /\ Goto(p, "drop_active")
    /\ UNCHANGED <<queueLock, slotLock, child, queueVars, localVars, active,
                   envVars>>

MarkRunning(p) ==
    /\ pc[p] = "mark_running"
    /\ active' = [active EXCEPT ![slot[p]] = Running(p)]
    /\ Goto(p, "supervise")
    /\ UNCHANGED <<result, queueLock, slotLock, child, queueVars, localVars,
                   control, envVars>>

\* Bug: without ChildCleanup the error path leaves the child running.
SuperviseFailsLeaving(p) ==
    /\ WritesFail
    /\ pc[p] \in {"mark_running", "supervise"}
    /\ control' = control \ {p}
    /\ Finish(p, "io")
    /\ Goto(p, "drop_active")
    /\ UNCHANGED <<queueLock, slotLock, child, queueVars, localVars, active,
                   envVars>>

\* mark_running or try_wait fails: ChildCleanup kills the process group and
\* waits for the child.
SuperviseFails(p) ==
    /\ WritesFail
    /\ pc[p] \in {"mark_running", "supervise"}
    /\ child' = [child EXCEPT ![p] = "gone"]
    /\ control' = control \ {p}
    /\ Finish(p, "io")
    /\ Goto(p, "drop_active")
    /\ UNCHANGED <<queueLock, slotLock, queueVars, localVars, active, envVars>>

\* The workload ends by itself, or by a signal the supervisor has sent.  An
\* orphan is reaped by init, any other child stays a zombie for its parent.
ChildExit(p) ==
    /\ child[p] = "alive"
    /\ child' = [child EXCEPT ![p] =
                    IF pc[p] \in {"mark_running", "supervise"}
                    THEN "zombie" ELSE "gone"]
    /\ UNCHANGED <<pc, result, queueLock, slotLock, queueVars, localVars,
                   fileVars, envVars>>

\* try_wait returns the status; the control endpoint is dropped on return.
Reap(p) ==
    /\ pc[p] = "supervise"
    /\ child[p] = "zombie"
    /\ child' = [child EXCEPT ![p] = "gone"]
    /\ control' = control \ {p}
    /\ Finish(p, "exited")
    /\ Goto(p, "drop_active")
    /\ UNCHANGED <<queueLock, slotLock, queueVars, localVars, active, envVars>>

\* Permit::drop removes the files of the job before it unlocks the slot.
RemoveActive(p) ==
    /\ pc[p] = "drop_active"
    /\ active' = [active EXCEPT ![slot[p]] = NoMetadata]
    /\ control' = control \ {p}
    /\ Goto(p, "drop_slot")
    /\ UNCHANGED <<result, queueLock, slotLock, child, queueVars, localVars,
                   envVars>>

UnlockSlot(p) ==
    /\ pc[p] = "drop_slot"
    /\ slotLock' = [slotLock EXCEPT ![slot[p]] = NoProc]
    /\ slot' = [slot EXCEPT ![p] = NoSlot]
    /\ Goto(p, "exiting")
    /\ UNCHANGED <<result, queueLock, child, queueVars, todo, offset, seen,
                   fileVars, envVars>>

\* The exited process disappears when its parent, the agent, has reaped it.
Exit(p) ==
    /\ pc[p] = "exiting"
    /\ Goto(p, "done")
    /\ UNCHANGED <<result, queueLock, queueVars, localVars, envVars, jobVars>>

---------------------------------------------------------------------------
(* SIGKILL, and the operator's drain, resume and set-capacity              *)

\* The kernel closes the files of a killed process, which releases its locks;
\* what it wrote stays.  slot[p] stays to name the slot of an orphan.
Crash(p) ==
    /\ disturbances < MaxDisturbances
    /\ pc[p] \notin {"idle", "exiting", "done"}
    /\ disturbances' = disturbances + 1
    /\ queueLock' = IF queueLock = p THEN NoProc ELSE queueLock
    /\ slotLock' = [s \in Slots |->
                       IF slotLock[s] = p THEN NoProc ELSE slotLock[s]]
    /\ leaseLocked' = leaseLocked \ {p}
    /\ child' = [child EXCEPT ![p] = IF @ = "zombie" THEN "gone" ELSE @]
    /\ todo' = [todo EXCEPT ![p] = {}]
    /\ offset' = [offset EXCEPT ![p] = 0]
    /\ seen' = [seen EXCEPT ![p] = NoMetadata]
    /\ slot' = [slot EXCEPT ![p] = IF child[p] = "alive" THEN @ ELSE NoSlot]
    /\ Finish(p, "killed")
    /\ Goto(p, "exiting")
    /\ UNCHANGED <<leaseFiles, ticket, clock, fileVars, adminVars>>

\* Bug: the flag is written without queue.lock.
SetDrainUnlocked(enabled) ==
    /\ admin < MaxAdmin
    /\ drain' = enabled
    /\ admin' = admin + 1
    /\ UNCHANGED <<pc, result, queueLock, queueVars, localVars, capacity,
                   boundVars, jobVars>>

SetDrain(enabled) ==
    /\ admin < MaxAdmin
    /\ queueLock = NoProc
    /\ drain' = enabled
    /\ admin' = admin + 1
    /\ UNCHANGED <<pc, result, queueLock, queueVars, localVars, capacity,
                   boundVars, jobVars>>

\* set_capacity_transactional; the stale leases are not pruned here.
SetCapacity(new) ==
    /\ admin < MaxAdmin
    /\ queueLock = NoProc
    /\ drain
    /\ \A s \in Slots : active[s] = NoMetadata
    /\ leaseFiles = {}
    /\ capacity' = new
    /\ admin' = admin + 1
    /\ UNCHANGED <<pc, result, queueLock, queueVars, localVars, drain,
                   boundVars, jobVars>>

---------------------------------------------------------------------------
(* Specification                                                           *)

\* The steps an invocation takes by itself as long as it is scheduled.
Step(p) ==
    \/ LockQueue(p) \/ PruneKeep(p) \/ PruneOpen(p) \/ PruneRemove(p)
    \/ PruneLost(p) \/ RefuseDraining(p) \/ Decide(p)
    \/ ReadActive(p) \/ Quarantine(p) \/ ClearStale(p) \/ ClearLost(p)
    \/ TakeSlot(p) \/ SlotBusy(p) \/ SlotProbed(p)
    \/ MarkStarting(p) \/ MarkStartingFails(p)
    \/ KeepWaiting(p) \/ RefuseAdmission(p) \/ Enqueue(p) \/ EnqueueFails(p)
    \/ Retry(p) \/ TimeOut(p) \/ UnlockLease(p) \/ RemoveLease(p)
    \/ Bind(p) \/ BindFails(p) \/ Spawn(p) \/ SpawnFails(p)
    \/ MarkRunning(p) \/ SuperviseFails(p) \/ Reap(p)
    \/ RemoveActive(p) \/ UnlockSlot(p) \/ Exit(p)

\* Every command has come to its end.
Terminated == (\A p \in Proc : pc[p] = "done") /\ UNCHANGED vars

Next ==
    \/ \E p \in Proc : Start(p) \/ Step(p) \/ ChildExit(p) \/ Crash(p)
    \/ \E enabled \in BOOLEAN : SetDrain(enabled)
    \/ \E new \in 1..2 : SetCapacity(new)
    \/ Terminated

Spec == Init /\ [][Next]_vars

(***************************************************************************)
(* A started invocation keeps running, and its workload ends (the          *)
(* supervisor bounds it by max_run and the grace period).  A process that  *)
(* asks for queue.lock again and again gets it: the critical section is    *)
(* short and the others sleep at least 25ms between attempts.  The wait    *)
(* limit is measured on a monotonic clock, so a loop that comes back to    *)
(* the check for ever finds it elapsed.                                    *)
(***************************************************************************)
Fairness ==
    \A p \in Proc :
        /\ WF_vars(Step(p))
        /\ SF_vars(LockQueue(p))
        /\ SF_vars(TimeOut(p))
        /\ WF_vars(ChildExit(p))

FairSpec == Spec /\ Fairness

---------------------------------------------------------------------------
(* Properties                                                              *)

TypeOK ==
    /\ pc \in [Proc -> Locations]
    /\ result \in [Proc -> {"none", "exited", "temporary", "io", "killed"}]
    /\ queueLock \in Proc \union {NoProc}
    /\ slotLock \in [Slots -> Proc \union {NoProc}]
    /\ active \in [Slots -> ActiveMetadata \union {NoMetadata}]
    /\ leaseFiles \in SUBSET Proc
    /\ leaseLocked \in SUBSET Proc
    /\ ticket \in [Proc -> Nat]
    /\ clock \in Nat
    /\ control \in SUBSET Proc
    /\ drain \in BOOLEAN
    /\ capacity \in 1..2
    /\ todo \in [Proc -> SUBSET Proc]
    /\ offset \in [Proc -> 0..1]
    /\ seen \in [Proc -> ActiveMetadata \union {NoMetadata}]
    /\ slot \in [Proc -> Slots \union {NoSlot}]
    /\ child \in [Proc -> {"none", "alive", "zombie", "gone"}]
    /\ disturbances \in Nat
    /\ admin \in Nat

\* A live workload the pool still knows of: its supervisor runs, or the
\* metadata of its slot records it.
Supervised(p) == pc[p] \in {"mark_running", "supervise"}
Governed(p) ==
    /\ child[p] = "alive"
    /\ Supervised(p) \/ \E s \in Slots : active[s] = Running(p)

(***************************************************************************)
(* Two governed workloads never share a slot, and none runs in a slot      *)
(* outside the capacity: not while supervisors crash, capacity changes,    *)
(* stale metadata is cleared and permits are dropped file by file.         *)
(***************************************************************************)
SlotExclusion ==
    \A p \in Proc : Governed(p) =>
        /\ slot[p] < capacity
        /\ \A q \in Proc : Governed(q) /\ slot[q] = slot[p] => q = p

(***************************************************************************)
(* The record of a live workload is removed in one situation only: by a    *)
(* scan that read the metadata before the child was recorded in it.  Apart *)
(* from this race the slot of an orphan stays in quarantine.               *)
(***************************************************************************)
OrphanKeepsSlot ==
    [][\A p \in Proc, s \in Slots :
          active[s] = Running(p) /\ child[p] = "alive" =>
              \/ active'[s] = Running(p)
              \/ \E q \in Proc : pc[q] = "check_active"
                                /\ seen[q] = Starting(p)]_vars

(***************************************************************************)
(* A process that holds the lock of its lease still has the file that      *)
(* gives it its place: pruning never takes the lease of a live waiter,     *)
(* which could then never be first again.                                  *)
(***************************************************************************)
WaiterKeepsPlace == leaseLocked \subseteq leaseFiles

(***************************************************************************)
(* Never more leases than max_queue, nor more of one owner than            *)
(* max_queued_per_owner, whatever is pruned, created again or left behind. *)
(***************************************************************************)
QueueBounded ==
    /\ Cardinality(leaseFiles) <= MaxQueue
    /\ \A p \in leaseFiles :
          Cardinality({q \in leaseFiles : Owner[q] = Owner[p]})
              <= MaxQueuedPerOwner

(***************************************************************************)
(* An invocation that was not killed leaves no trace of its job: no socket, *)
(* no metadata and no lock, on every one of its error paths.               *)
(***************************************************************************)
NoTraceLeft ==
    \A p \in Proc :
        pc[p] \in {"exiting", "done"} /\ result[p] # "killed" =>
            /\ p \notin control \union leaseLocked
            /\ \A s \in Slots : slotLock[s] # p /\ active[s].supervisor # p

(***************************************************************************)
(* Once drain.flag exists no newcomer is granted a slot or joins the       *)
(* queue, and the flag does not come up while acquire decides on it        *)
(* (FR-059, the admissions).  What becomes of those who wait already is    *)
(* left to DrainSparesWaiters.                                             *)
(***************************************************************************)
DrainStopsAdmission ==
    [][drain =>
          \A p \in Proc :
              /\ pc'[p] = "granted" /\ pc[p] # "granted" => p \in leaseLocked
              /\ p \in leaseLocked' => p \in leaseLocked]_vars

(***************************************************************************)
(* Every started invocation comes to an end: it is granted a slot and its  *)
(* workload ends, it is refused, it times out, it fails or it is killed.   *)
(***************************************************************************)
Termination == \A p \in Proc : pc[p] = "lock_queue" ~> pc[p] = "done"

(***************************************************************************)
(* Who has a place in the queue gets a slot and its workload started.      *)
(* Without drain and time limit nothing else may become of a waiter but a  *)
(* kill, or the I/O error of a file that vanished while it was cleared     *)
(* (NobodyFails): it is never sent away again, whatever a killed process   *)
(* has left in the queue and in the slots and whoever probes their locks.  *)
(***************************************************************************)
WaiterServed ==
    \A p \in Proc :
        pc[p] = "waiting" ~> child[p] # "none" \/ result[p] \in {"killed", "io"}

---------------------------------------------------------------------------
(* What the documentation says and the code does not keep                  *)

(***************************************************************************)
(* docs/product-requirements.md, FR-059: drain lets the waiters there are  *)
(* come to their turn; only the time limit sends one of them away.         *)
(***************************************************************************)
DrainSparesWaiters ==
    [][\A p \in leaseLocked :
          result[p] = "none" /\ result'[p] = "temporary" => pc[p] = "waiting"]_vars

(***************************************************************************)
(* tests/concurrency.rs: commands that find the pool busy wait for their   *)
(* turn and succeed; none of them fails.                                   *)
(***************************************************************************)
NobodyFails == \A p \in Proc : result[p] # "io"
=============================================================================
