-------------------------- MODULE SchedulerProofs --------------------------
(***************************************************************************)
(* The theorems of Scheduler about the slots and the files of a job, for   *)
(* any set of processes, any limits and any number of crashes, failing     *)
(* writes, probes and operations of the operator.                          *)
(***************************************************************************)
EXTENDS SchedulerInvariants, FiniteSetTheorems, TLAPS

USE ProcAssumption, CapacityAssumption, LimitsAssumption, BoundsAssumption

---------------------------------------------------------------------------
(* Helpers                                                                 *)

\* The slot a process looks at is one of those the capacity allows.
LEMMA CandidateInRange ==
    ASSUME TypeOK, NEW p \in Proc
    PROVE  Candidate(p) \in Slots /\ Candidate(p) < capacity
<1>1. p \in Nat /\ offset[p] \in 0..1 /\ capacity \in 1..2
  BY DEF TypeOK, NoProc
<1>2. CASE capacity = 1
  BY <1>1, <1>2 DEF Candidate, Slots
<1>3. CASE capacity = 2
  BY <1>1, <1>3 DEF Candidate, Slots
<1>4. QED
  BY <1>1, <1>2, <1>3

\* Pid 0 stands for nobody.
LEMMA NoProcOutside == NoProc \notin Proc
BY DEF NoProc

\* What the metadata of a job says, without its representation.
LEMMA MetadataFacts ==
    /\ NoMetadata.supervisor = NoProc
    /\ \A p \in Proc :
          /\ Starting(p) \in ActiveMetadata /\ Running(p) \in ActiveMetadata
          /\ Starting(p) # NoMetadata /\ Running(p) # NoMetadata
          /\ Starting(p).supervisor = p /\ Running(p).supervisor = p
    /\ \A meta \in ActiveMetadata :
          meta.supervisor \in Proc /\ meta # NoMetadata
BY DEF NoMetadata, ActiveMetadata, Starting, Running, NoProc

---------------------------------------------------------------------------
(* Type correctness                                                        *)

LEMMA TypeOKInit == Init => TypeOK
<1> SUFFICES ASSUME Init PROVE TypeOK
  OBVIOUS
<1> USE DEF Init, Locations, Slots, NoSlot
<1>1. pc \in [Proc -> Locations]
  OBVIOUS
<1>2. /\ queueLock \in Proc \union {NoProc}
    /\ slotLock \in [Slots -> Proc \union {NoProc}]
  OBVIOUS
<1>3. /\ active \in [Slots -> ActiveMetadata \union {NoMetadata}]
    /\ leaseFiles \in SUBSET Proc
    /\ leaseLocked \in SUBSET Proc
  OBVIOUS
<1>4. /\ ticket \in [Proc -> Nat]
    /\ clock \in Nat
    /\ control \in SUBSET Proc
    /\ drain \in BOOLEAN
    /\ capacity \in 1..2
  OBVIOUS
<1>5. /\ todo \in [Proc -> SUBSET Proc]
    /\ offset \in [Proc -> 0..1]
    /\ seen \in [Proc -> ActiveMetadata \union {NoMetadata}]
  OBVIOUS
<1>6. /\ slot \in [Proc -> Slots \union {NoSlot}]
    /\ child \in [Proc -> {"none", "alive", "zombie", "gone"}]
    /\ result \in [Proc -> {"none", "exited", "temporary", "io", "killed"}]
  OBVIOUS
<1>7. QED
  BY <1>1, <1>2, <1>3, <1>4, <1>5, <1>6 DEF TypeOK

LEMMA TypeOKNext == TypeOK /\ [Next]_vars => TypeOK'
<1> SUFFICES ASSUME TypeOK, [Next]_vars PROVE TypeOK'
  OBVIOUS
<1> USE MetadataFacts
    DEF TypeOK, Locations, Slots, NoSlot, NoProc,
            vars, queueVars, localVars, fileVars, adminVars, boundVars,
            jobVars, envVars,            Goto, Finish
<1>1. ASSUME NEW p \in Proc, Start(p) PROVE TypeOK'
  BY <1>1 DEF Start
<1>2. ASSUME NEW p \in Proc, LockQueue(p) PROVE TypeOK'
  BY <1>2 DEF LockQueue
<1>3. ASSUME NEW p \in Proc, PruneKeep(p) PROVE TypeOK'
  BY <1>3 DEF PruneKeep
<1>4. ASSUME NEW p \in Proc, PruneOpen(p) PROVE TypeOK'
  BY <1>4 DEF PruneOpen
<1>5. ASSUME NEW p \in Proc, PruneRemove(p) PROVE TypeOK'
  BY <1>5 DEF PruneRemove
<1>6. ASSUME NEW p \in Proc, PruneLost(p) PROVE TypeOK'
  BY <1>6 DEF PruneLost, Abort, HasLease
<1>7. ASSUME NEW p \in Proc, RefuseDraining(p) PROVE TypeOK'
  BY <1>7 DEF RefuseDraining, Abort, HasLease
<1>8. ASSUME NEW p \in Proc, Decide(p) PROVE TypeOK'
  BY <1>8 DEF Decide, MayTry
<1>9. ASSUME NEW p \in Proc, ReadActive(p) PROVE TypeOK'
  BY <1>9, CandidateInRange DEF ReadActive
<1>10. ASSUME NEW p \in Proc, Quarantine(p) PROVE TypeOK'
  BY <1>10 DEF Quarantine, NextSlot
<1>11. ASSUME NEW p \in Proc, ClearStale(p) PROVE TypeOK'
  BY <1>11, CandidateInRange DEF ClearStale
<1>12. ASSUME NEW p \in Proc, ClearLost(p) PROVE TypeOK'
  <2>1. control' \in SUBSET Proc /\ queueLock' = NoProc
    BY <1>12 DEF ClearLost, Abort
  <2>2. pc' \in [Proc -> Locations]
    BY <1>12 DEF ClearLost, Abort
  <2>3. seen' \in [Proc -> ActiveMetadata \union {NoMetadata}]
    BY <1>12 DEF ClearLost, Abort
  <2>4. QED
    BY <1>12, <2>1, <2>2, <2>3 DEF ClearLost, Abort
<1>13. ASSUME NEW p \in Proc, TakeSlot(p) PROVE TypeOK'
  BY <1>13, CandidateInRange DEF TakeSlot
<1>14. ASSUME NEW p \in Proc, SlotBusy(p) PROVE TypeOK'
  BY <1>14 DEF SlotBusy, NextSlot
<1>15. ASSUME NEW p \in Proc, SlotProbed(p) PROVE TypeOK'
  BY <1>15 DEF SlotProbed, NextSlot
<1>16. ASSUME NEW p \in Proc, MarkStarting(p) PROVE TypeOK'
  BY <1>16 DEF MarkStarting
<1>17. ASSUME NEW p \in Proc, MarkStartingFails(p) PROVE TypeOK'
  BY <1>17 DEF MarkStartingFails
<1>18. ASSUME NEW p \in Proc, KeepWaiting(p) PROVE TypeOK'
  BY <1>18 DEF KeepWaiting, HasLease
<1>19. ASSUME NEW p \in Proc, RefuseAdmission(p) PROVE TypeOK'
  BY <1>19 DEF RefuseAdmission, Abort, HasLease
<1>20. ASSUME NEW p \in Proc, Enqueue(p) PROVE TypeOK'
  BY <1>20 DEF Enqueue
<1>21. ASSUME NEW p \in Proc, EnqueueFails(p) PROVE TypeOK'
  BY <1>21 DEF EnqueueFails, Abort, HasLease
<1>22. ASSUME NEW p \in Proc, Retry(p) PROVE TypeOK'
  BY <1>22 DEF Retry
<1>23. ASSUME NEW p \in Proc, TimeOut(p) PROVE TypeOK'
  BY <1>23 DEF TimeOut
<1>24. ASSUME NEW p \in Proc, UnlockLease(p) PROVE TypeOK'
  BY <1>24 DEF UnlockLease
<1>25. ASSUME NEW p \in Proc, RemoveLease(p) PROVE TypeOK'
  BY <1>25 DEF RemoveLease
<1>26. ASSUME NEW p \in Proc, Bind(p) PROVE TypeOK'
  BY <1>26 DEF Bind
<1>27. ASSUME NEW p \in Proc, BindFails(p) PROVE TypeOK'
  BY <1>27 DEF BindFails
<1>28. ASSUME NEW p \in Proc, Spawn(p) PROVE TypeOK'
  BY <1>28 DEF Spawn
<1>29. ASSUME NEW p \in Proc, SpawnFails(p) PROVE TypeOK'
  BY <1>29 DEF SpawnFails
<1>30. ASSUME NEW p \in Proc, MarkRunning(p) PROVE TypeOK'
  BY <1>30 DEF MarkRunning
<1>31. ASSUME NEW p \in Proc, SuperviseFails(p) PROVE TypeOK'
  BY <1>31 DEF SuperviseFails
<1>32. ASSUME NEW p \in Proc, ChildExit(p) PROVE TypeOK'
  BY <1>32 DEF ChildExit
<1>33. ASSUME NEW p \in Proc, Reap(p) PROVE TypeOK'
  BY <1>33 DEF Reap
<1>34. ASSUME NEW p \in Proc, RemoveActive(p) PROVE TypeOK'
  BY <1>34 DEF RemoveActive
<1>35. ASSUME NEW p \in Proc, UnlockSlot(p) PROVE TypeOK'
  BY <1>35 DEF UnlockSlot
<1>36. ASSUME NEW p \in Proc, Exit(p) PROVE TypeOK'
  BY <1>36 DEF Exit
<1>37. ASSUME NEW p \in Proc, Crash(p) PROVE TypeOK'
  BY <1>37 DEF Crash
<1>38. ASSUME NEW enabled \in BOOLEAN, SetDrain(enabled) PROVE TypeOK'
  BY <1>38 DEF SetDrain
<1>39. ASSUME NEW new \in 1..2, SetCapacity(new) PROVE TypeOK'
  BY <1>39 DEF SetCapacity
<1>40. CASE UNCHANGED vars
  BY <1>40
<1>41. QED
  BY <1>1, <1>2, <1>3, <1>4, <1>5, <1>6, <1>7, <1>8, <1>9, <1>10, <1>11,
     <1>12, <1>13, <1>14, <1>15, <1>16, <1>17, <1>18, <1>19, <1>20,
     <1>21, <1>22, <1>23, <1>24, <1>25, <1>26, <1>27, <1>28, <1>29,
     <1>30, <1>31, <1>32, <1>33, <1>34, <1>35, <1>36, <1>37, <1>38,
     <1>39, <1>40
  DEF Next, Step, Terminated

(***************************************************************************)
(* The files, locks and local variables of the invocations have the values *)
(* the code gives them, for any number of invocations.                     *)
(***************************************************************************)
THEOREM TypeCorrect == Spec => []TypeOK
<1>1. QED
  BY TypeOKInit, TypeOKNext, PTL DEF Spec

---------------------------------------------------------------------------
(* The slots                                                               *)

\* The invariant speaks of some of the variables only.
LEMMA PoolInvFrame ==
    ASSUME PoolInv, TypeOK',
           UNCHANGED <<pc, queueLock, slotLock, active, capacity, offset,
                       seen, slot, child>>
    PROVE  PoolInv'
BY DEF PoolInv, QueueLockOwner, SlotLockOwner, ChildPlace, PermitRecorded,
       MetadataPlace, ScanIsStable, WithinCapacity, Candidate

LEMMA PoolInvInit == Init => PoolInv
<1> SUFFICES ASSUME Init PROVE PoolInv
  OBVIOUS
<1>1. TypeOK
  BY TypeOKInit
<1>2. QueueLockOwner
  BY DEF Init, QueueLockOwner, CriticalSection, NoProc
<1>3. SlotLockOwner /\ MetadataPlace
  BY MetadataFacts DEF Init, SlotLockOwner, MetadataPlace, HoldsPermit, NoProc
<1>4. ChildPlace /\ PermitRecorded /\ ScanIsStable /\ WithinCapacity
  BY DEF Init, ChildPlace, PermitRecorded, ScanIsStable, WithinCapacity
<1>5. QED
  BY <1>1, <1>2, <1>3, <1>4 DEF PoolInv

\* Jobs are granted and recorded within the capacity, which changes only while
\* there is none.
LEMMA WithinCapacityNext ==
    PoolInv /\ [Next]_vars => WithinCapacity'
<1> SUFFICES ASSUME TypeOK, PermitRecorded, WithinCapacity, QueueLockOwner,
                    [Next]_vars
             PROVE  WithinCapacity'
  BY DEF PoolInv
<1> USE DEF WithinCapacity, TypeOK, Goto, queueVars, localVars, fileVars,
        adminVars, boundVars, jobVars, envVars
<1>1. ASSUME NEW p \in Proc, Start(p) PROVE WithinCapacity'
  BY <1>1 DEF Start
<1>2. ASSUME NEW p \in Proc, LockQueue(p) PROVE WithinCapacity'
  BY <1>2 DEF LockQueue
<1>3. ASSUME NEW p \in Proc, PruneKeep(p) PROVE WithinCapacity'
  BY <1>3 DEF PruneKeep
<1>4. ASSUME NEW p \in Proc, PruneOpen(p) PROVE WithinCapacity'
  BY <1>4 DEF PruneOpen
<1>5. ASSUME NEW p \in Proc, PruneRemove(p) PROVE WithinCapacity'
  BY <1>5 DEF PruneRemove
<1>6. ASSUME NEW p \in Proc, PruneLost(p) PROVE WithinCapacity'
  BY <1>6 DEF PruneLost, Abort
<1>7. ASSUME NEW p \in Proc, RefuseDraining(p) PROVE WithinCapacity'
  BY <1>7 DEF RefuseDraining, Abort
<1>8. ASSUME NEW p \in Proc, Decide(p) PROVE WithinCapacity'
  BY <1>8 DEF Decide
<1>9. ASSUME NEW p \in Proc, ReadActive(p) PROVE WithinCapacity'
  BY <1>9 DEF ReadActive
<1>10. ASSUME NEW p \in Proc, Quarantine(p) PROVE WithinCapacity'
  BY <1>10 DEF Quarantine, NextSlot
<1>11. ASSUME NEW p \in Proc, ClearStale(p) PROVE WithinCapacity'
  BY <1>11 DEF ClearStale
<1>12. ASSUME NEW p \in Proc, ClearLost(p) PROVE WithinCapacity'
  BY <1>12 DEF ClearLost, Abort
<1>13. ASSUME NEW p \in Proc, TakeSlot(p) PROVE WithinCapacity'
  <2>1. Candidate(p) \in Slots /\ Candidate(p) < capacity
    BY CandidateInRange
  <2>2. QED
    BY <1>13, <2>1 DEF TakeSlot
<1>14. ASSUME NEW p \in Proc, SlotBusy(p) PROVE WithinCapacity'
  BY <1>14 DEF SlotBusy, NextSlot
<1>15. ASSUME NEW p \in Proc, SlotProbed(p) PROVE WithinCapacity'
  BY <1>15 DEF SlotProbed, NextSlot
<1>16. ASSUME NEW p \in Proc, MarkStarting(p) PROVE WithinCapacity'
  <2>1. slot[p] < capacity
    BY <1>16 DEF MarkStarting
  <2>2. QED
    BY <1>16, <2>1 DEF MarkStarting
<1>17. ASSUME NEW p \in Proc, MarkStartingFails(p) PROVE WithinCapacity'
  BY <1>17 DEF MarkStartingFails
<1>18. ASSUME NEW p \in Proc, KeepWaiting(p) PROVE WithinCapacity'
  BY <1>18 DEF KeepWaiting
<1>19. ASSUME NEW p \in Proc, RefuseAdmission(p) PROVE WithinCapacity'
  BY <1>19 DEF RefuseAdmission, Abort
<1>20. ASSUME NEW p \in Proc, Enqueue(p) PROVE WithinCapacity'
  BY <1>20 DEF Enqueue
<1>21. ASSUME NEW p \in Proc, EnqueueFails(p) PROVE WithinCapacity'
  BY <1>21 DEF EnqueueFails, Abort
<1>22. ASSUME NEW p \in Proc, Retry(p) PROVE WithinCapacity'
  BY <1>22 DEF Retry
<1>23. ASSUME NEW p \in Proc, TimeOut(p) PROVE WithinCapacity'
  BY <1>23 DEF TimeOut
<1>24. ASSUME NEW p \in Proc, UnlockLease(p) PROVE WithinCapacity'
  BY <1>24 DEF UnlockLease
<1>25. ASSUME NEW p \in Proc, RemoveLease(p) PROVE WithinCapacity'
  BY <1>25 DEF RemoveLease
<1>26. ASSUME NEW p \in Proc, Bind(p) PROVE WithinCapacity'
  BY <1>26 DEF Bind
<1>27. ASSUME NEW p \in Proc, BindFails(p) PROVE WithinCapacity'
  BY <1>27 DEF BindFails
<1>28. ASSUME NEW p \in Proc, Spawn(p) PROVE WithinCapacity'
  BY <1>28 DEF Spawn
<1>29. ASSUME NEW p \in Proc, SpawnFails(p) PROVE WithinCapacity'
  BY <1>29 DEF SpawnFails
<1>30. ASSUME NEW p \in Proc, MarkRunning(p) PROVE WithinCapacity'
  <2>1. active[slot[p]] # NoMetadata
    BY <1>30, MetadataFacts DEF MarkRunning, PermitRecorded
  <2>2. QED
    BY <1>30, <2>1 DEF MarkRunning
<1>31. ASSUME NEW p \in Proc, SuperviseFails(p) PROVE WithinCapacity'
  BY <1>31 DEF SuperviseFails
<1>32. ASSUME NEW p \in Proc, ChildExit(p) PROVE WithinCapacity'
  BY <1>32 DEF ChildExit
<1>33. ASSUME NEW p \in Proc, Reap(p) PROVE WithinCapacity'
  BY <1>33 DEF Reap
<1>34. ASSUME NEW p \in Proc, RemoveActive(p) PROVE WithinCapacity'
  BY <1>34 DEF RemoveActive
<1>35. ASSUME NEW p \in Proc, UnlockSlot(p) PROVE WithinCapacity'
  BY <1>35 DEF UnlockSlot
<1>36. ASSUME NEW p \in Proc, Exit(p) PROVE WithinCapacity'
  BY <1>36 DEF Exit
<1>37. ASSUME NEW p \in Proc, Crash(p) PROVE WithinCapacity'
  BY <1>37 DEF Crash
<1>38. ASSUME NEW enabled \in BOOLEAN, SetDrain(enabled) PROVE WithinCapacity'
  BY <1>38 DEF SetDrain
<1>39. ASSUME NEW new \in 1..2, SetCapacity(new) PROVE WithinCapacity'
  BY <1>39 DEF SetCapacity, QueueLockOwner, CriticalSection, NoProc
<1>40. CASE UNCHANGED vars
  BY <1>40 DEF vars
<1> HIDE DEF WithinCapacity, TypeOK, Goto, queueVars, localVars, fileVars,
         adminVars, boundVars, jobVars, envVars
<1>41. QED
  BY <1>1, <1>2, <1>3, <1>4, <1>5, <1>6, <1>7, <1>8, <1>9, <1>10, <1>11,
     <1>12, <1>13, <1>14, <1>15, <1>16, <1>17, <1>18, <1>19, <1>20, <1>21,
     <1>22, <1>23, <1>24, <1>25, <1>26, <1>27, <1>28, <1>29, <1>30, <1>31,
     <1>32, <1>33, <1>34, <1>35, <1>36, <1>37, <1>38, <1>39, <1>40
  DEF Next, Step, Terminated

\* queue.lock changes hands only where the critical section begins and ends.
LEMMA QueueLockOwnerNext == PoolInv /\ [Next]_vars => QueueLockOwner'
<1> SUFFICES ASSUME TypeOK, QueueLockOwner, [Next]_vars
             PROVE  QueueLockOwner'
  BY DEF PoolInv
<1> USE DEF TypeOK, QueueLockOwner, CriticalSection, NoProc, Goto, vars,
        queueVars, localVars, fileVars, adminVars, boundVars,
        jobVars, envVars
<1>1. ASSUME NEW p \in Proc, Start(p) PROVE QueueLockOwner'
  BY <1>1 DEF Start
<1>2. ASSUME NEW p \in Proc, LockQueue(p) PROVE QueueLockOwner'
  BY <1>2 DEF LockQueue
<1>3. ASSUME NEW p \in Proc, PruneKeep(p) PROVE QueueLockOwner'
  BY <1>3 DEF PruneKeep
<1>4. ASSUME NEW p \in Proc, PruneOpen(p) PROVE QueueLockOwner'
  BY <1>4 DEF PruneOpen
<1>5. ASSUME NEW p \in Proc, PruneRemove(p) PROVE QueueLockOwner'
  BY <1>5 DEF PruneRemove
<1>6. ASSUME NEW p \in Proc, PruneLost(p) PROVE QueueLockOwner'
  BY <1>6 DEF PruneLost, Abort, HasLease
<1>7. ASSUME NEW p \in Proc, RefuseDraining(p) PROVE QueueLockOwner'
  BY <1>7 DEF RefuseDraining, Abort, HasLease
<1>8. ASSUME NEW p \in Proc, Decide(p) PROVE QueueLockOwner'
  BY <1>8 DEF Decide, MayTry
<1>9. ASSUME NEW p \in Proc, ReadActive(p) PROVE QueueLockOwner'
  BY <1>9 DEF ReadActive
<1>10. ASSUME NEW p \in Proc, Quarantine(p) PROVE QueueLockOwner'
  BY <1>10 DEF Quarantine, NextSlot
<1>11. ASSUME NEW p \in Proc, ClearStale(p) PROVE QueueLockOwner'
  BY <1>11 DEF ClearStale
<1>12. ASSUME NEW p \in Proc, ClearLost(p) PROVE QueueLockOwner'
  BY <1>12 DEF ClearLost, Abort, HasLease
<1>13. ASSUME NEW p \in Proc, TakeSlot(p) PROVE QueueLockOwner'
  BY <1>13 DEF TakeSlot
<1>14. ASSUME NEW p \in Proc, SlotBusy(p) PROVE QueueLockOwner'
  BY <1>14 DEF SlotBusy, NextSlot
<1>15. ASSUME NEW p \in Proc, SlotProbed(p) PROVE QueueLockOwner'
  BY <1>15 DEF SlotProbed, NextSlot
<1>16. ASSUME NEW p \in Proc, MarkStarting(p) PROVE QueueLockOwner'
  BY <1>16 DEF MarkStarting
<1>17. ASSUME NEW p \in Proc, MarkStartingFails(p) PROVE QueueLockOwner'
  BY <1>17 DEF MarkStartingFails
<1>18. ASSUME NEW p \in Proc, KeepWaiting(p) PROVE QueueLockOwner'
  BY <1>18 DEF KeepWaiting, HasLease
<1>19. ASSUME NEW p \in Proc, RefuseAdmission(p) PROVE QueueLockOwner'
  BY <1>19 DEF RefuseAdmission, Abort, HasLease
<1>20. ASSUME NEW p \in Proc, Enqueue(p) PROVE QueueLockOwner'
  BY <1>20 DEF Enqueue
<1>21. ASSUME NEW p \in Proc, EnqueueFails(p) PROVE QueueLockOwner'
  BY <1>21 DEF EnqueueFails, Abort, HasLease
<1>22. ASSUME NEW p \in Proc, Retry(p) PROVE QueueLockOwner'
  BY <1>22 DEF Retry
<1>23. ASSUME NEW p \in Proc, TimeOut(p) PROVE QueueLockOwner'
  BY <1>23 DEF TimeOut
<1>24. ASSUME NEW p \in Proc, UnlockLease(p) PROVE QueueLockOwner'
  BY <1>24 DEF UnlockLease
<1>25. ASSUME NEW p \in Proc, RemoveLease(p) PROVE QueueLockOwner'
  BY <1>25 DEF RemoveLease
<1>26. ASSUME NEW p \in Proc, Bind(p) PROVE QueueLockOwner'
  BY <1>26 DEF Bind
<1>27. ASSUME NEW p \in Proc, BindFails(p) PROVE QueueLockOwner'
  BY <1>27 DEF BindFails
<1>28. ASSUME NEW p \in Proc, Spawn(p) PROVE QueueLockOwner'
  BY <1>28 DEF Spawn
<1>29. ASSUME NEW p \in Proc, SpawnFails(p) PROVE QueueLockOwner'
  BY <1>29 DEF SpawnFails
<1>30. ASSUME NEW p \in Proc, MarkRunning(p) PROVE QueueLockOwner'
  BY <1>30 DEF MarkRunning
<1>31. ASSUME NEW p \in Proc, SuperviseFails(p) PROVE QueueLockOwner'
  BY <1>31 DEF SuperviseFails
<1>32. ASSUME NEW p \in Proc, ChildExit(p) PROVE QueueLockOwner'
  BY <1>32 DEF ChildExit
<1>33. ASSUME NEW p \in Proc, Reap(p) PROVE QueueLockOwner'
  BY <1>33 DEF Reap
<1>34. ASSUME NEW p \in Proc, RemoveActive(p) PROVE QueueLockOwner'
  BY <1>34 DEF RemoveActive
<1>35. ASSUME NEW p \in Proc, UnlockSlot(p) PROVE QueueLockOwner'
  BY <1>35 DEF UnlockSlot
<1>36. ASSUME NEW p \in Proc, Exit(p) PROVE QueueLockOwner'
  BY <1>36 DEF Exit
<1>37. ASSUME NEW p \in Proc, Crash(p) PROVE QueueLockOwner'
  BY <1>37 DEF Crash
<1>38. ASSUME NEW enabled \in BOOLEAN, SetDrain(enabled) PROVE QueueLockOwner'
  BY <1>38 DEF SetDrain
<1>39. ASSUME NEW new \in 1..2, SetCapacity(new) PROVE QueueLockOwner'
  BY <1>39 DEF SetCapacity
<1>40. CASE UNCHANGED vars
  BY <1>40
<1> HIDE DEF TypeOK, QueueLockOwner, CriticalSection, NoProc, Goto, vars,
         queueVars, localVars, fileVars, adminVars, boundVars,
         jobVars, envVars
<1>41. QED
  BY <1>1, <1>2, <1>3, <1>4, <1>5, <1>6, <1>7, <1>8, <1>9, <1>10, <1>11,
     <1>12, <1>13, <1>14, <1>15, <1>16, <1>17, <1>18, <1>19, <1>20, <1>21,
     <1>22, <1>23, <1>24, <1>25, <1>26, <1>27, <1>28, <1>29, <1>30, <1>31,
     <1>32, <1>33, <1>34, <1>35, <1>36, <1>37, <1>38, <1>39, <1>40
  DEF Next, Step, Terminated

\* A slot lock is taken with a permit and released with it.
LEMMA SlotLockOwnerNext == PoolInv /\ [Next]_vars => SlotLockOwner'
<1> SUFFICES ASSUME TypeOK, SlotLockOwner, [Next]_vars
             PROVE  SlotLockOwner'
  BY DEF PoolInv
<1>scan. \A p \in Proc : Candidate(p) \in Slots
  BY CandidateInRange
<1> USE <1>scan
        DEF TypeOK, SlotLockOwner, HoldsPermit, NoProc, Goto, vars, queueVars,
        localVars, fileVars, adminVars, boundVars, jobVars,
        envVars
<1>1. ASSUME NEW p \in Proc, Start(p) PROVE SlotLockOwner'
  BY <1>1 DEF Start
<1>2. ASSUME NEW p \in Proc, LockQueue(p) PROVE SlotLockOwner'
  BY <1>2 DEF LockQueue
<1>3. ASSUME NEW p \in Proc, PruneKeep(p) PROVE SlotLockOwner'
  BY <1>3 DEF PruneKeep
<1>4. ASSUME NEW p \in Proc, PruneOpen(p) PROVE SlotLockOwner'
  BY <1>4 DEF PruneOpen
<1>5. ASSUME NEW p \in Proc, PruneRemove(p) PROVE SlotLockOwner'
  BY <1>5 DEF PruneRemove
<1>6. ASSUME NEW p \in Proc, PruneLost(p) PROVE SlotLockOwner'
  BY <1>6 DEF PruneLost, Abort, HasLease
<1>7. ASSUME NEW p \in Proc, RefuseDraining(p) PROVE SlotLockOwner'
  BY <1>7 DEF RefuseDraining, Abort, HasLease
<1>8. ASSUME NEW p \in Proc, Decide(p) PROVE SlotLockOwner'
  BY <1>8 DEF Decide, MayTry
<1>9. ASSUME NEW p \in Proc, ReadActive(p) PROVE SlotLockOwner'
  BY <1>9 DEF ReadActive
<1>10. ASSUME NEW p \in Proc, Quarantine(p) PROVE SlotLockOwner'
  BY <1>10 DEF Quarantine, NextSlot
<1>11. ASSUME NEW p \in Proc, ClearStale(p) PROVE SlotLockOwner'
  BY <1>11 DEF ClearStale
<1>12. ASSUME NEW p \in Proc, ClearLost(p) PROVE SlotLockOwner'
  BY <1>12 DEF ClearLost, Abort, HasLease
<1>13. ASSUME NEW p \in Proc, TakeSlot(p) PROVE SlotLockOwner'
  BY <1>13 DEF TakeSlot
<1>14. ASSUME NEW p \in Proc, SlotBusy(p) PROVE SlotLockOwner'
  BY <1>14 DEF SlotBusy, NextSlot
<1>15. ASSUME NEW p \in Proc, SlotProbed(p) PROVE SlotLockOwner'
  BY <1>15 DEF SlotProbed, NextSlot
<1>16. ASSUME NEW p \in Proc, MarkStarting(p) PROVE SlotLockOwner'
  BY <1>16 DEF MarkStarting
<1>17. ASSUME NEW p \in Proc, MarkStartingFails(p) PROVE SlotLockOwner'
  BY <1>17 DEF MarkStartingFails
<1>18. ASSUME NEW p \in Proc, KeepWaiting(p) PROVE SlotLockOwner'
  BY <1>18 DEF KeepWaiting, HasLease
<1>19. ASSUME NEW p \in Proc, RefuseAdmission(p) PROVE SlotLockOwner'
  BY <1>19 DEF RefuseAdmission, Abort, HasLease
<1>20. ASSUME NEW p \in Proc, Enqueue(p) PROVE SlotLockOwner'
  BY <1>20 DEF Enqueue
<1>21. ASSUME NEW p \in Proc, EnqueueFails(p) PROVE SlotLockOwner'
  BY <1>21 DEF EnqueueFails, Abort, HasLease
<1>22. ASSUME NEW p \in Proc, Retry(p) PROVE SlotLockOwner'
  BY <1>22 DEF Retry
<1>23. ASSUME NEW p \in Proc, TimeOut(p) PROVE SlotLockOwner'
  BY <1>23 DEF TimeOut
<1>24. ASSUME NEW p \in Proc, UnlockLease(p) PROVE SlotLockOwner'
  BY <1>24 DEF UnlockLease
<1>25. ASSUME NEW p \in Proc, RemoveLease(p) PROVE SlotLockOwner'
  BY <1>25 DEF RemoveLease
<1>26. ASSUME NEW p \in Proc, Bind(p) PROVE SlotLockOwner'
  BY <1>26 DEF Bind
<1>27. ASSUME NEW p \in Proc, BindFails(p) PROVE SlotLockOwner'
  BY <1>27 DEF BindFails
<1>28. ASSUME NEW p \in Proc, Spawn(p) PROVE SlotLockOwner'
  BY <1>28 DEF Spawn
<1>29. ASSUME NEW p \in Proc, SpawnFails(p) PROVE SlotLockOwner'
  BY <1>29 DEF SpawnFails
<1>30. ASSUME NEW p \in Proc, MarkRunning(p) PROVE SlotLockOwner'
  BY <1>30 DEF MarkRunning
<1>31. ASSUME NEW p \in Proc, SuperviseFails(p) PROVE SlotLockOwner'
  BY <1>31 DEF SuperviseFails
<1>32. ASSUME NEW p \in Proc, ChildExit(p) PROVE SlotLockOwner'
  BY <1>32 DEF ChildExit
<1>33. ASSUME NEW p \in Proc, Reap(p) PROVE SlotLockOwner'
  BY <1>33 DEF Reap
<1>34. ASSUME NEW p \in Proc, RemoveActive(p) PROVE SlotLockOwner'
  BY <1>34 DEF RemoveActive
<1>35. ASSUME NEW p \in Proc, UnlockSlot(p) PROVE SlotLockOwner'
  BY <1>35 DEF UnlockSlot
<1>36. ASSUME NEW p \in Proc, Exit(p) PROVE SlotLockOwner'
  BY <1>36 DEF Exit
<1>37. ASSUME NEW p \in Proc, Crash(p) PROVE SlotLockOwner'
  BY <1>37 DEF Crash
<1>38. ASSUME NEW enabled \in BOOLEAN, SetDrain(enabled) PROVE SlotLockOwner'
  BY <1>38 DEF SetDrain
<1>39. ASSUME NEW new \in 1..2, SetCapacity(new) PROVE SlotLockOwner'
  BY <1>39 DEF SetCapacity
<1>40. CASE UNCHANGED vars
  BY <1>40
<1> HIDE <1>scan
         DEF TypeOK, SlotLockOwner, HoldsPermit, NoProc, Goto, vars, queueVars,
         localVars, fileVars, adminVars, boundVars, jobVars,
         envVars
<1>41. QED
  BY <1>1, <1>2, <1>3, <1>4, <1>5, <1>6, <1>7, <1>8, <1>9, <1>10, <1>11,
     <1>12, <1>13, <1>14, <1>15, <1>16, <1>17, <1>18, <1>19, <1>20, <1>21,
     <1>22, <1>23, <1>24, <1>25, <1>26, <1>27, <1>28, <1>29, <1>30, <1>31,
     <1>32, <1>33, <1>34, <1>35, <1>36, <1>37, <1>38, <1>39, <1>40
  DEF Next, Step, Terminated

\* A workload begins under its supervisor and, unless it is an orphan, ends
\* there.
LEMMA ChildPlaceNext == PoolInv /\ [Next]_vars => ChildPlace'
<1> SUFFICES ASSUME TypeOK, ChildPlace, [Next]_vars
             PROVE  ChildPlace'
  BY DEF PoolInv
<1> USE DEF TypeOK, ChildPlace, Goto, vars, queueVars, localVars, fileVars,
        adminVars, boundVars, jobVars, envVars
<1>1. ASSUME NEW p \in Proc, Start(p) PROVE ChildPlace'
  BY <1>1 DEF Start
<1>2. ASSUME NEW p \in Proc, LockQueue(p) PROVE ChildPlace'
  BY <1>2 DEF LockQueue
<1>3. ASSUME NEW p \in Proc, PruneKeep(p) PROVE ChildPlace'
  BY <1>3 DEF PruneKeep
<1>4. ASSUME NEW p \in Proc, PruneOpen(p) PROVE ChildPlace'
  BY <1>4 DEF PruneOpen
<1>5. ASSUME NEW p \in Proc, PruneRemove(p) PROVE ChildPlace'
  BY <1>5 DEF PruneRemove
<1>6. ASSUME NEW p \in Proc, PruneLost(p) PROVE ChildPlace'
  BY <1>6 DEF PruneLost, Abort, HasLease
<1>7. ASSUME NEW p \in Proc, RefuseDraining(p) PROVE ChildPlace'
  BY <1>7 DEF RefuseDraining, Abort, HasLease
<1>8. ASSUME NEW p \in Proc, Decide(p) PROVE ChildPlace'
  BY <1>8 DEF Decide, MayTry
<1>9. ASSUME NEW p \in Proc, ReadActive(p) PROVE ChildPlace'
  BY <1>9 DEF ReadActive
<1>10. ASSUME NEW p \in Proc, Quarantine(p) PROVE ChildPlace'
  BY <1>10 DEF Quarantine, NextSlot
<1>11. ASSUME NEW p \in Proc, ClearStale(p) PROVE ChildPlace'
  BY <1>11 DEF ClearStale
<1>12. ASSUME NEW p \in Proc, ClearLost(p) PROVE ChildPlace'
  BY <1>12 DEF ClearLost, Abort, HasLease
<1>13. ASSUME NEW p \in Proc, TakeSlot(p) PROVE ChildPlace'
  BY <1>13 DEF TakeSlot
<1>14. ASSUME NEW p \in Proc, SlotBusy(p) PROVE ChildPlace'
  BY <1>14 DEF SlotBusy, NextSlot
<1>15. ASSUME NEW p \in Proc, SlotProbed(p) PROVE ChildPlace'
  BY <1>15 DEF SlotProbed, NextSlot
<1>16. ASSUME NEW p \in Proc, MarkStarting(p) PROVE ChildPlace'
  BY <1>16 DEF MarkStarting
<1>17. ASSUME NEW p \in Proc, MarkStartingFails(p) PROVE ChildPlace'
  BY <1>17 DEF MarkStartingFails
<1>18. ASSUME NEW p \in Proc, KeepWaiting(p) PROVE ChildPlace'
  BY <1>18 DEF KeepWaiting, HasLease
<1>19. ASSUME NEW p \in Proc, RefuseAdmission(p) PROVE ChildPlace'
  BY <1>19 DEF RefuseAdmission, Abort, HasLease
<1>20. ASSUME NEW p \in Proc, Enqueue(p) PROVE ChildPlace'
  BY <1>20 DEF Enqueue
<1>21. ASSUME NEW p \in Proc, EnqueueFails(p) PROVE ChildPlace'
  BY <1>21 DEF EnqueueFails, Abort, HasLease
<1>22. ASSUME NEW p \in Proc, Retry(p) PROVE ChildPlace'
  BY <1>22 DEF Retry
<1>23. ASSUME NEW p \in Proc, TimeOut(p) PROVE ChildPlace'
  BY <1>23 DEF TimeOut
<1>24. ASSUME NEW p \in Proc, UnlockLease(p) PROVE ChildPlace'
  BY <1>24 DEF UnlockLease
<1>25. ASSUME NEW p \in Proc, RemoveLease(p) PROVE ChildPlace'
  BY <1>25 DEF RemoveLease
<1>26. ASSUME NEW p \in Proc, Bind(p) PROVE ChildPlace'
  BY <1>26 DEF Bind
<1>27. ASSUME NEW p \in Proc, BindFails(p) PROVE ChildPlace'
  BY <1>27 DEF BindFails
<1>28. ASSUME NEW p \in Proc, Spawn(p) PROVE ChildPlace'
  BY <1>28 DEF Spawn
<1>29. ASSUME NEW p \in Proc, SpawnFails(p) PROVE ChildPlace'
  BY <1>29 DEF SpawnFails
<1>30. ASSUME NEW p \in Proc, MarkRunning(p) PROVE ChildPlace'
  BY <1>30 DEF MarkRunning
<1>31. ASSUME NEW p \in Proc, SuperviseFails(p) PROVE ChildPlace'
  BY <1>31 DEF SuperviseFails
<1>32. ASSUME NEW p \in Proc, ChildExit(p) PROVE ChildPlace'
  BY <1>32 DEF ChildExit
<1>33. ASSUME NEW p \in Proc, Reap(p) PROVE ChildPlace'
  BY <1>33 DEF Reap
<1>34. ASSUME NEW p \in Proc, RemoveActive(p) PROVE ChildPlace'
  BY <1>34 DEF RemoveActive
<1>35. ASSUME NEW p \in Proc, UnlockSlot(p) PROVE ChildPlace'
  BY <1>35 DEF UnlockSlot
<1>36. ASSUME NEW p \in Proc, Exit(p) PROVE ChildPlace'
  BY <1>36 DEF Exit
<1>37. ASSUME NEW p \in Proc, Crash(p) PROVE ChildPlace'
  BY <1>37 DEF Crash
<1>38. ASSUME NEW enabled \in BOOLEAN, SetDrain(enabled) PROVE ChildPlace'
  BY <1>38 DEF SetDrain
<1>39. ASSUME NEW new \in 1..2, SetCapacity(new) PROVE ChildPlace'
  BY <1>39 DEF SetCapacity
<1>40. CASE UNCHANGED vars
  BY <1>40
<1> HIDE DEF TypeOK, ChildPlace, Goto, vars, queueVars, localVars, fileVars,
         adminVars, boundVars, jobVars, envVars
<1>41. QED
  BY <1>1, <1>2, <1>3, <1>4, <1>5, <1>6, <1>7, <1>8, <1>9, <1>10, <1>11,
     <1>12, <1>13, <1>14, <1>15, <1>16, <1>17, <1>18, <1>19, <1>20, <1>21,
     <1>22, <1>23, <1>24, <1>25, <1>26, <1>27, <1>28, <1>29, <1>30, <1>31,
     <1>32, <1>33, <1>34, <1>35, <1>36, <1>37, <1>38, <1>39, <1>40
  DEF Next, Step, Terminated

\* Nobody but its owner touches the metadata of a job that holds a permit.
LEMMA PermitRecordedNext == PoolInv /\ [Next]_vars => PermitRecorded'
<1> SUFFICES ASSUME TypeOK, QueueLockOwner, SlotLockOwner, PermitRecorded,
                    MetadataPlace, ScanIsStable, [Next]_vars
             PROVE  PermitRecorded'
  BY DEF PoolInv
<1>scan. \A p \in Proc :
            /\ Candidate(p) \in Slots
            /\ offset'[p] = offset[p] /\ capacity' = capacity =>
                  Candidate(p)' = Candidate(p)
  BY CandidateInRange DEF Candidate
<1> USE <1>scan
        DEF TypeOK, QueueLockOwner, SlotLockOwner, PermitRecorded,
        MetadataPlace, ScanIsStable, CriticalSection, HoldsPermit,
        NoProc, ProcessAlive, SupervisorAlive, Goto, vars,
        queueVars, localVars, fileVars, adminVars, boundVars,
        jobVars, envVars
<1>1. ASSUME NEW p \in Proc, Start(p) PROVE PermitRecorded'
  BY <1>1 DEF Start
<1>2. ASSUME NEW p \in Proc, LockQueue(p) PROVE PermitRecorded'
  BY <1>2 DEF LockQueue
<1>3. ASSUME NEW p \in Proc, PruneKeep(p) PROVE PermitRecorded'
  BY <1>3 DEF PruneKeep
<1>4. ASSUME NEW p \in Proc, PruneOpen(p) PROVE PermitRecorded'
  BY <1>4 DEF PruneOpen
<1>5. ASSUME NEW p \in Proc, PruneRemove(p) PROVE PermitRecorded'
  BY <1>5 DEF PruneRemove
<1>6. ASSUME NEW p \in Proc, PruneLost(p) PROVE PermitRecorded'
  BY <1>6 DEF PruneLost, Abort, HasLease
<1>7. ASSUME NEW p \in Proc, RefuseDraining(p) PROVE PermitRecorded'
  BY <1>7 DEF RefuseDraining, Abort, HasLease
<1>8. ASSUME NEW p \in Proc, Decide(p) PROVE PermitRecorded'
  BY <1>8 DEF Decide, MayTry
<1>9. ASSUME NEW p \in Proc, ReadActive(p) PROVE PermitRecorded'
  BY <1>9, MetadataFacts DEF ReadActive
<1>10. ASSUME NEW p \in Proc, Quarantine(p) PROVE PermitRecorded'
  BY <1>10, MetadataFacts DEF Quarantine, NextSlot
<1>11. ASSUME NEW p \in Proc, ClearStale(p) PROVE PermitRecorded'
  BY <1>11, MetadataFacts DEF ClearStale
<1>12. ASSUME NEW p \in Proc, ClearLost(p) PROVE PermitRecorded'
  BY <1>12, MetadataFacts DEF ClearLost, Abort, HasLease
<1>13. ASSUME NEW p \in Proc, TakeSlot(p) PROVE PermitRecorded'
  BY <1>13, MetadataFacts DEF TakeSlot
<1>14. ASSUME NEW p \in Proc, SlotBusy(p) PROVE PermitRecorded'
  BY <1>14 DEF SlotBusy, NextSlot
<1>15. ASSUME NEW p \in Proc, SlotProbed(p) PROVE PermitRecorded'
  BY <1>15 DEF SlotProbed, NextSlot
<1>16. ASSUME NEW p \in Proc, MarkStarting(p) PROVE PermitRecorded'
  BY <1>16, MetadataFacts DEF MarkStarting
<1>17. ASSUME NEW p \in Proc, MarkStartingFails(p) PROVE PermitRecorded'
  BY <1>17, MetadataFacts DEF MarkStartingFails
<1>18. ASSUME NEW p \in Proc, KeepWaiting(p) PROVE PermitRecorded'
  BY <1>18 DEF KeepWaiting, HasLease
<1>19. ASSUME NEW p \in Proc, RefuseAdmission(p) PROVE PermitRecorded'
  BY <1>19 DEF RefuseAdmission, Abort, HasLease
<1>20. ASSUME NEW p \in Proc, Enqueue(p) PROVE PermitRecorded'
  BY <1>20 DEF Enqueue
<1>21. ASSUME NEW p \in Proc, EnqueueFails(p) PROVE PermitRecorded'
  BY <1>21 DEF EnqueueFails, Abort, HasLease
<1>22. ASSUME NEW p \in Proc, Retry(p) PROVE PermitRecorded'
  BY <1>22 DEF Retry
<1>23. ASSUME NEW p \in Proc, TimeOut(p) PROVE PermitRecorded'
  BY <1>23 DEF TimeOut
<1>24. ASSUME NEW p \in Proc, UnlockLease(p) PROVE PermitRecorded'
  BY <1>24 DEF UnlockLease
<1>25. ASSUME NEW p \in Proc, RemoveLease(p) PROVE PermitRecorded'
  BY <1>25 DEF RemoveLease
<1>26. ASSUME NEW p \in Proc, Bind(p) PROVE PermitRecorded'
  BY <1>26 DEF Bind
<1>27. ASSUME NEW p \in Proc, BindFails(p) PROVE PermitRecorded'
  BY <1>27, MetadataFacts DEF BindFails
<1>28. ASSUME NEW p \in Proc, Spawn(p) PROVE PermitRecorded'
  BY <1>28 DEF Spawn
<1>29. ASSUME NEW p \in Proc, SpawnFails(p) PROVE PermitRecorded'
  BY <1>29, MetadataFacts DEF SpawnFails
<1>30. ASSUME NEW p \in Proc, MarkRunning(p) PROVE PermitRecorded'
  BY <1>30, MetadataFacts DEF MarkRunning
<1>31. ASSUME NEW p \in Proc, SuperviseFails(p) PROVE PermitRecorded'
  BY <1>31, MetadataFacts DEF SuperviseFails
<1>32. ASSUME NEW p \in Proc, ChildExit(p) PROVE PermitRecorded'
  BY <1>32 DEF ChildExit
<1>33. ASSUME NEW p \in Proc, Reap(p) PROVE PermitRecorded'
  BY <1>33, MetadataFacts DEF Reap
<1>34. ASSUME NEW p \in Proc, RemoveActive(p) PROVE PermitRecorded'
  BY <1>34, MetadataFacts DEF RemoveActive
<1>35. ASSUME NEW p \in Proc, UnlockSlot(p) PROVE PermitRecorded'
  BY <1>35 DEF UnlockSlot
<1>36. ASSUME NEW p \in Proc, Exit(p) PROVE PermitRecorded'
  BY <1>36 DEF Exit
<1>37. ASSUME NEW p \in Proc, Crash(p) PROVE PermitRecorded'
  BY <1>37, MetadataFacts DEF Crash
<1>38. ASSUME NEW enabled \in BOOLEAN, SetDrain(enabled) PROVE PermitRecorded'
  BY <1>38 DEF SetDrain
<1>39. ASSUME NEW new \in 1..2, SetCapacity(new) PROVE PermitRecorded'
  BY <1>39 DEF SetCapacity
<1>40. CASE UNCHANGED vars
  BY <1>40
<1> HIDE <1>scan
         DEF TypeOK, QueueLockOwner, SlotLockOwner, PermitRecorded,
         MetadataPlace, ScanIsStable, CriticalSection, HoldsPermit,
         NoProc, ProcessAlive, SupervisorAlive, Goto, vars,
         queueVars, localVars, fileVars, adminVars, boundVars,
         jobVars, envVars
<1>41. QED
  BY <1>1, <1>2, <1>3, <1>4, <1>5, <1>6, <1>7, <1>8, <1>9, <1>10, <1>11,
     <1>12, <1>13, <1>14, <1>15, <1>16, <1>17, <1>18, <1>19, <1>20, <1>21,
     <1>22, <1>23, <1>24, <1>25, <1>26, <1>27, <1>28, <1>29, <1>30, <1>31,
     <1>32, <1>33, <1>34, <1>35, <1>36, <1>37, <1>38, <1>39, <1>40
  DEF Next, Step, Terminated

\* Metadata is written for the slot of the permit, and an orphan keeps its slot.
LEMMA MetadataPlaceNext == PoolInv /\ [Next]_vars => MetadataPlace'
<1> SUFFICES ASSUME TypeOK, SlotLockOwner, ChildPlace, PermitRecorded,
                    MetadataPlace, [Next]_vars
             PROVE  MetadataPlace'
  BY DEF PoolInv
<1> USE DEF TypeOK, SlotLockOwner, ChildPlace, PermitRecorded, MetadataPlace,
        HoldsPermit, NoProc, Goto, vars, queueVars, localVars,
        fileVars, adminVars, boundVars, jobVars, envVars
<1>1. ASSUME NEW p \in Proc, Start(p) PROVE MetadataPlace'
  BY <1>1 DEF Start
<1>2. ASSUME NEW p \in Proc, LockQueue(p) PROVE MetadataPlace'
  BY <1>2 DEF LockQueue
<1>3. ASSUME NEW p \in Proc, PruneKeep(p) PROVE MetadataPlace'
  BY <1>3 DEF PruneKeep
<1>4. ASSUME NEW p \in Proc, PruneOpen(p) PROVE MetadataPlace'
  BY <1>4 DEF PruneOpen
<1>5. ASSUME NEW p \in Proc, PruneRemove(p) PROVE MetadataPlace'
  BY <1>5 DEF PruneRemove
<1>6. ASSUME NEW p \in Proc, PruneLost(p) PROVE MetadataPlace'
  BY <1>6 DEF PruneLost, Abort, HasLease
<1>7. ASSUME NEW p \in Proc, RefuseDraining(p) PROVE MetadataPlace'
  BY <1>7 DEF RefuseDraining, Abort, HasLease
<1>8. ASSUME NEW p \in Proc, Decide(p) PROVE MetadataPlace'
  BY <1>8 DEF Decide, MayTry
<1>9. ASSUME NEW p \in Proc, ReadActive(p) PROVE MetadataPlace'
  BY <1>9, MetadataFacts DEF ReadActive
<1>10. ASSUME NEW p \in Proc, Quarantine(p) PROVE MetadataPlace'
  BY <1>10, MetadataFacts DEF Quarantine, NextSlot
<1>11. ASSUME NEW p \in Proc, ClearStale(p) PROVE MetadataPlace'
  BY <1>11, MetadataFacts DEF ClearStale
<1>12. ASSUME NEW p \in Proc, ClearLost(p) PROVE MetadataPlace'
  BY <1>12, MetadataFacts DEF ClearLost, Abort, HasLease
<1>13. ASSUME NEW p \in Proc, TakeSlot(p) PROVE MetadataPlace'
  BY <1>13, MetadataFacts DEF TakeSlot
<1>14. ASSUME NEW p \in Proc, SlotBusy(p) PROVE MetadataPlace'
  BY <1>14 DEF SlotBusy, NextSlot
<1>15. ASSUME NEW p \in Proc, SlotProbed(p) PROVE MetadataPlace'
  BY <1>15 DEF SlotProbed, NextSlot
<1>16. ASSUME NEW p \in Proc, MarkStarting(p) PROVE MetadataPlace'
  BY <1>16, MetadataFacts DEF MarkStarting
<1>17. ASSUME NEW p \in Proc, MarkStartingFails(p) PROVE MetadataPlace'
  BY <1>17, MetadataFacts DEF MarkStartingFails
<1>18. ASSUME NEW p \in Proc, KeepWaiting(p) PROVE MetadataPlace'
  BY <1>18 DEF KeepWaiting, HasLease
<1>19. ASSUME NEW p \in Proc, RefuseAdmission(p) PROVE MetadataPlace'
  BY <1>19 DEF RefuseAdmission, Abort, HasLease
<1>20. ASSUME NEW p \in Proc, Enqueue(p) PROVE MetadataPlace'
  BY <1>20 DEF Enqueue
<1>21. ASSUME NEW p \in Proc, EnqueueFails(p) PROVE MetadataPlace'
  BY <1>21 DEF EnqueueFails, Abort, HasLease
<1>22. ASSUME NEW p \in Proc, Retry(p) PROVE MetadataPlace'
  BY <1>22 DEF Retry
<1>23. ASSUME NEW p \in Proc, TimeOut(p) PROVE MetadataPlace'
  BY <1>23 DEF TimeOut
<1>24. ASSUME NEW p \in Proc, UnlockLease(p) PROVE MetadataPlace'
  BY <1>24 DEF UnlockLease
<1>25. ASSUME NEW p \in Proc, RemoveLease(p) PROVE MetadataPlace'
  BY <1>25 DEF RemoveLease
<1>26. ASSUME NEW p \in Proc, Bind(p) PROVE MetadataPlace'
  BY <1>26 DEF Bind
<1>27. ASSUME NEW p \in Proc, BindFails(p) PROVE MetadataPlace'
  BY <1>27 DEF BindFails
<1>28. ASSUME NEW p \in Proc, Spawn(p) PROVE MetadataPlace'
  BY <1>28 DEF Spawn
<1>29. ASSUME NEW p \in Proc, SpawnFails(p) PROVE MetadataPlace'
  BY <1>29 DEF SpawnFails
<1>30. ASSUME NEW p \in Proc, MarkRunning(p) PROVE MetadataPlace'
  BY <1>30, MetadataFacts DEF MarkRunning
<1>31. ASSUME NEW p \in Proc, SuperviseFails(p) PROVE MetadataPlace'
  BY <1>31 DEF SuperviseFails
<1>32. ASSUME NEW p \in Proc, ChildExit(p) PROVE MetadataPlace'
  BY <1>32 DEF ChildExit
<1>33. ASSUME NEW p \in Proc, Reap(p) PROVE MetadataPlace'
  BY <1>33 DEF Reap
<1>34. ASSUME NEW p \in Proc, RemoveActive(p) PROVE MetadataPlace'
  BY <1>34, MetadataFacts DEF RemoveActive
<1>35. ASSUME NEW p \in Proc, UnlockSlot(p) PROVE MetadataPlace'
  BY <1>35 DEF UnlockSlot
<1>36. ASSUME NEW p \in Proc, Exit(p) PROVE MetadataPlace'
  BY <1>36 DEF Exit
<1>37. ASSUME NEW p \in Proc, Crash(p) PROVE MetadataPlace'
  BY <1>37, MetadataFacts DEF Crash
<1>38. ASSUME NEW enabled \in BOOLEAN, SetDrain(enabled) PROVE MetadataPlace'
  BY <1>38 DEF SetDrain
<1>39. ASSUME NEW new \in 1..2, SetCapacity(new) PROVE MetadataPlace'
  BY <1>39 DEF SetCapacity
<1>40. CASE UNCHANGED vars
  BY <1>40
<1> HIDE DEF TypeOK, SlotLockOwner, ChildPlace, PermitRecorded, MetadataPlace,
         HoldsPermit, NoProc, Goto, vars, queueVars, localVars,
         fileVars, adminVars, boundVars, jobVars, envVars
<1>41. QED
  BY <1>1, <1>2, <1>3, <1>4, <1>5, <1>6, <1>7, <1>8, <1>9, <1>10, <1>11,
     <1>12, <1>13, <1>14, <1>15, <1>16, <1>17, <1>18, <1>19, <1>20, <1>21,
     <1>22, <1>23, <1>24, <1>25, <1>26, <1>27, <1>28, <1>29, <1>30, <1>31,
     <1>32, <1>33, <1>34, <1>35, <1>36, <1>37, <1>38, <1>39, <1>40
  DEF Next, Step, Terminated

\* While a slot is judged its metadata can only disappear: to write new metadata
\* one needs queue.lock or the lock of the slot.
LEMMA ScanIsStableNext == PoolInv /\ [Next]_vars => ScanIsStable'
<1> SUFFICES ASSUME TypeOK, QueueLockOwner, SlotLockOwner, PermitRecorded,
                    MetadataPlace, ScanIsStable, [Next]_vars
             PROVE  ScanIsStable'
  BY DEF PoolInv
<1>scan. \A p \in Proc :
            /\ Candidate(p) \in Slots
            /\ offset'[p] = offset[p] /\ capacity' = capacity =>
                  Candidate(p)' = Candidate(p)
  BY CandidateInRange DEF Candidate
<1> USE <1>scan
        DEF TypeOK, QueueLockOwner, SlotLockOwner, PermitRecorded,
        MetadataPlace, ScanIsStable, CriticalSection, HoldsPermit,
        NoProc, Goto, vars, queueVars, localVars, fileVars,
        adminVars, boundVars, jobVars, envVars
<1>1. ASSUME NEW p \in Proc, Start(p) PROVE ScanIsStable'
  BY <1>1 DEF Start
<1>2. ASSUME NEW p \in Proc, LockQueue(p) PROVE ScanIsStable'
  BY <1>2 DEF LockQueue
<1>3. ASSUME NEW p \in Proc, PruneKeep(p) PROVE ScanIsStable'
  BY <1>3 DEF PruneKeep
<1>4. ASSUME NEW p \in Proc, PruneOpen(p) PROVE ScanIsStable'
  BY <1>4 DEF PruneOpen
<1>5. ASSUME NEW p \in Proc, PruneRemove(p) PROVE ScanIsStable'
  BY <1>5 DEF PruneRemove
<1>6. ASSUME NEW p \in Proc, PruneLost(p) PROVE ScanIsStable'
  BY <1>6 DEF PruneLost, Abort, HasLease
<1>7. ASSUME NEW p \in Proc, RefuseDraining(p) PROVE ScanIsStable'
  BY <1>7 DEF RefuseDraining, Abort, HasLease
<1>8. ASSUME NEW p \in Proc, Decide(p) PROVE ScanIsStable'
  BY <1>8 DEF Decide, MayTry
<1>9. ASSUME NEW p \in Proc, ReadActive(p) PROVE ScanIsStable'
  BY <1>9, MetadataFacts DEF ReadActive
<1>10. ASSUME NEW p \in Proc, Quarantine(p) PROVE ScanIsStable'
  BY <1>10, MetadataFacts DEF Quarantine, NextSlot
<1>11. ASSUME NEW p \in Proc, ClearStale(p) PROVE ScanIsStable'
  BY <1>11, MetadataFacts DEF ClearStale
<1>12. ASSUME NEW p \in Proc, ClearLost(p) PROVE ScanIsStable'
  BY <1>12, MetadataFacts DEF ClearLost, Abort, HasLease
<1>13. ASSUME NEW p \in Proc, TakeSlot(p) PROVE ScanIsStable'
  BY <1>13, MetadataFacts DEF TakeSlot
<1>14. ASSUME NEW p \in Proc, SlotBusy(p) PROVE ScanIsStable'
  BY <1>14 DEF SlotBusy, NextSlot
<1>15. ASSUME NEW p \in Proc, SlotProbed(p) PROVE ScanIsStable'
  BY <1>15 DEF SlotProbed, NextSlot
<1>16. ASSUME NEW p \in Proc, MarkStarting(p) PROVE ScanIsStable'
  BY <1>16, MetadataFacts DEF MarkStarting
<1>17. ASSUME NEW p \in Proc, MarkStartingFails(p) PROVE ScanIsStable'
  BY <1>17, MetadataFacts DEF MarkStartingFails
<1>18. ASSUME NEW p \in Proc, KeepWaiting(p) PROVE ScanIsStable'
  BY <1>18 DEF KeepWaiting, HasLease
<1>19. ASSUME NEW p \in Proc, RefuseAdmission(p) PROVE ScanIsStable'
  BY <1>19 DEF RefuseAdmission, Abort, HasLease
<1>20. ASSUME NEW p \in Proc, Enqueue(p) PROVE ScanIsStable'
  BY <1>20 DEF Enqueue
<1>21. ASSUME NEW p \in Proc, EnqueueFails(p) PROVE ScanIsStable'
  BY <1>21 DEF EnqueueFails, Abort, HasLease
<1>22. ASSUME NEW p \in Proc, Retry(p) PROVE ScanIsStable'
  BY <1>22 DEF Retry
<1>23. ASSUME NEW p \in Proc, TimeOut(p) PROVE ScanIsStable'
  BY <1>23 DEF TimeOut
<1>24. ASSUME NEW p \in Proc, UnlockLease(p) PROVE ScanIsStable'
  BY <1>24 DEF UnlockLease
<1>25. ASSUME NEW p \in Proc, RemoveLease(p) PROVE ScanIsStable'
  BY <1>25 DEF RemoveLease
<1>26. ASSUME NEW p \in Proc, Bind(p) PROVE ScanIsStable'
  BY <1>26 DEF Bind
<1>27. ASSUME NEW p \in Proc, BindFails(p) PROVE ScanIsStable'
  BY <1>27 DEF BindFails
<1>28. ASSUME NEW p \in Proc, Spawn(p) PROVE ScanIsStable'
  BY <1>28 DEF Spawn
<1>29. ASSUME NEW p \in Proc, SpawnFails(p) PROVE ScanIsStable'
  BY <1>29 DEF SpawnFails
<1>30. ASSUME NEW p \in Proc, MarkRunning(p) PROVE ScanIsStable'
  BY <1>30, MetadataFacts DEF MarkRunning
<1>31. ASSUME NEW p \in Proc, SuperviseFails(p) PROVE ScanIsStable'
  BY <1>31 DEF SuperviseFails
<1>32. ASSUME NEW p \in Proc, ChildExit(p) PROVE ScanIsStable'
  BY <1>32 DEF ChildExit
<1>33. ASSUME NEW p \in Proc, Reap(p) PROVE ScanIsStable'
  BY <1>33 DEF Reap
<1>34. ASSUME NEW p \in Proc, RemoveActive(p) PROVE ScanIsStable'
  BY <1>34, MetadataFacts DEF RemoveActive
<1>35. ASSUME NEW p \in Proc, UnlockSlot(p) PROVE ScanIsStable'
  BY <1>35 DEF UnlockSlot
<1>36. ASSUME NEW p \in Proc, Exit(p) PROVE ScanIsStable'
  BY <1>36 DEF Exit
<1>37. ASSUME NEW p \in Proc, Crash(p) PROVE ScanIsStable'
  BY <1>37, MetadataFacts DEF Crash
<1>38. ASSUME NEW enabled \in BOOLEAN, SetDrain(enabled) PROVE ScanIsStable'
  BY <1>38 DEF SetDrain
<1>39. ASSUME NEW new \in 1..2, SetCapacity(new) PROVE ScanIsStable'
  BY <1>39 DEF SetCapacity
<1>40. CASE UNCHANGED vars
  BY <1>40
<1> HIDE <1>scan
         DEF TypeOK, QueueLockOwner, SlotLockOwner, PermitRecorded,
         MetadataPlace, ScanIsStable, CriticalSection, HoldsPermit,
         NoProc, Goto, vars, queueVars, localVars, fileVars,
         adminVars, boundVars, jobVars, envVars
<1>41. QED
  BY <1>1, <1>2, <1>3, <1>4, <1>5, <1>6, <1>7, <1>8, <1>9, <1>10, <1>11,
     <1>12, <1>13, <1>14, <1>15, <1>16, <1>17, <1>18, <1>19, <1>20, <1>21,
     <1>22, <1>23, <1>24, <1>25, <1>26, <1>27, <1>28, <1>29, <1>30, <1>31,
     <1>32, <1>33, <1>34, <1>35, <1>36, <1>37, <1>38, <1>39, <1>40
  DEF Next, Step, Terminated

LEMMA PoolInvNext == PoolInv /\ [Next]_vars => PoolInv'
<1>1. QED
  BY TypeOKNext, QueueLockOwnerNext, SlotLockOwnerNext, ChildPlaceNext,
     PermitRecordedNext, MetadataPlaceNext, ScanIsStableNext,
     WithinCapacityNext
  DEF PoolInv

THEOREM PoolInvariant == Spec => []PoolInv
<1>1. QED
  BY PoolInvInit, PoolInvNext, PTL DEF Spec

---------------------------------------------------------------------------
(* The quarantine of orphans                                               *)

\* The steps that write no metadata.
LEMMA ActiveUnchanged ==
    ASSUME [Next]_vars,
           \A p \in Proc : ~ \/ ClearStale(p) \/ MarkStarting(p)
                             \/ MarkStartingFails(p) \/ MarkRunning(p)
                             \/ RemoveActive(p)
    PROVE  UNCHANGED active
BY DEF Next, Step, Terminated, Start, LockQueue, PruneKeep, PruneOpen,
       PruneRemove, PruneLost,
       RefuseDraining, Decide, ReadActive, Quarantine, ClearLost,
       TakeSlot, SlotBusy, SlotProbed, KeepWaiting, RefuseAdmission,
       Enqueue, EnqueueFails, Retry, TimeOut, UnlockLease, RemoveLease,
       Bind, BindFails, Spawn, SpawnFails, SuperviseFails, ChildExit,
       Reap, UnlockSlot, Exit, Crash, SetDrain, SetCapacity, Abort, vars,
       jobVars, fileVars

\* The steps that do: only ClearStale can meet the record of a live workload,
\* and only with metadata it read before.
LEMMA OrphanKeepsSlotNext ==
    ASSUME PoolInv, [Next]_vars, NEW p \in Proc, NEW s \in Slots,
           active[s] = Running(p), child[p] = "alive"
    PROVE  \/ active'[s] = Running(p)
           \/ \E q \in Proc : pc[q] = "check_active" /\ seen[q] = Starting(p)
<1>1. /\ active \in [Slots -> ActiveMetadata \union {NoMetadata}]
      /\ active[s].supervisor = p /\ active[s] # NoMetadata
  BY MetadataFacts DEF PoolInv, TypeOK
<1>2. ASSUME NEW q \in Proc, ClearStale(q)
      PROVE  active'[s] = Running(p) \/ seen[q] = Starting(p)
  <2>1. CASE s # Candidate(q)
    BY <1>1, <1>2, <2>1 DEF ClearStale, PoolInv
  <2>2. CASE s = Candidate(q)
    <3>1. /\ seen[q] \in ActiveMetadata /\ seen[q].supervisor = p
          /\ ~ProcessAlive(seen[q])
      BY <1>1, <1>2, <2>2, NoProcOutside
      DEF ClearStale, PoolInv, TypeOK, ScanIsStable
    <3>2. seen[q].running = FALSE
      BY <3>1 DEF ProcessAlive, ChildAlive, ActiveMetadata
    <3>3. QED
      BY <3>1, <3>2 DEF ActiveMetadata, Starting
  <2>3. QED
    BY <2>1, <2>2
<1>3. ASSUME NEW q \in Proc, MarkStarting(q) \/ MarkStartingFails(q)
      PROVE  active'[s] = Running(p)
  BY <1>1, <1>3
  DEF MarkStarting, MarkStartingFails, PoolInv, ScanIsStable
<1>4. ASSUME NEW q \in Proc, MarkRunning(q)
      PROVE  active'[s] = Running(p)
  <2>1. active[slot[q]] = Starting(q)
    BY <1>4 DEF MarkRunning, PoolInv, PermitRecorded
  <2>2. slot[q] # s
    BY <1>1, <2>1 DEF Starting, Running
  <2>3. QED
    BY <1>1, <1>4, <2>2 DEF MarkRunning
<1>5. ASSUME NEW q \in Proc, RemoveActive(q)
      PROVE  active'[s] = Running(p)
  <2>1. pc[q] = "drop_active" /\ active[slot[q]].supervisor = q
    BY <1>5 DEF RemoveActive, PoolInv, PermitRecorded
  <2>2. q # p
    BY <2>1 DEF PoolInv, ChildPlace
  <2>3. slot[q] # s
    BY <1>1, <2>1, <2>2
  <2>4. QED
    BY <1>1, <1>5, <2>3 DEF RemoveActive
<1>6. QED
  BY <1>2, <1>3, <1>4, <1>5, ActiveUnchanged DEF ClearStale

THEOREM OrphanKeepsSlotHolds == Spec => OrphanKeepsSlot
<1>1. PoolInv /\ [Next]_vars =>
          [\A p \in Proc, s \in Slots :
              active[s] = Running(p) /\ child[p] = "alive" =>
                  \/ active'[s] = Running(p)
                  \/ \E q \in Proc : pc[q] = "check_active"
                                    /\ seen[q] = Starting(p)]_vars
  BY OrphanKeepsSlotNext
<1>2. QED
  BY <1>1, PoolInvariant, PTL DEF Spec, OrphanKeepsSlot

\* A governed workload is the one the metadata of its slot names.
LEMMA GovernedRecorded ==
    ASSUME PoolInv, NEW p \in Proc, Governed(p)
    PROVE  /\ slot[p] \in Slots
           /\ active[slot[p]].supervisor = p
           /\ slot[p] < capacity
<1>1. CASE Supervised(p)
  BY <1>1, MetadataFacts
  DEF Supervised, PoolInv, SlotLockOwner, PermitRecorded, WithinCapacity,
      HoldsPermit
<1>2. ASSUME NEW s \in Slots, active[s] = Running(p)
      PROVE  slot[p] = s /\ active[s].supervisor = p /\ s < capacity
  BY <1>2, MetadataFacts DEF Governed, PoolInv, MetadataPlace, WithinCapacity
<1>3. QED
  BY <1>1, <1>2 DEF Governed

LEMMA PoolInvExcludes == PoolInv => SlotExclusion
BY GovernedRecorded DEF SlotExclusion

(***************************************************************************)
(* Whatever crashes, fails or is reconfigured, two workloads the pool      *)
(* knows of never share a slot, and all of them are within the capacity.   *)
(***************************************************************************)
THEOREM SlotExclusionHolds == Spec => []SlotExclusion
<1>1. QED
  BY PoolInvariant, PoolInvExcludes, PTL

\* The governed workloads are no more than the capacity: their slots differ.
LEMMA PoolInvBounds ==
    PoolInv => Cardinality({p \in Proc : Governed(p)}) <= capacity
<1> SUFFICES ASSUME PoolInv
             PROVE  Cardinality({p \in Proc : Governed(p)}) <= capacity
  OBVIOUS
<1> DEFINE governed == {p \in Proc : Governed(p)}
           enabled  == 0..(capacity - 1)
           place    == [p \in governed |-> slot[p]]
<1>1. capacity \in 1..2
  BY DEF PoolInv, TypeOK
<1>2. place \in Injection(governed, enabled)
  <2>1. \A p \in governed : slot[p] \in enabled
    BY GovernedRecorded, <1>1 DEF Slots
  <2>2. \A p, q \in governed : slot[p] = slot[q] => p = q
    BY PoolInvExcludes DEF SlotExclusion
  <2>3. QED
    BY <2>1, <2>2 DEF Injection, IsInjective
<1>3. IsFiniteSet(enabled) /\ Cardinality(enabled) = capacity
  BY <1>1, FS_Interval
<1>4. QED
  BY <1>2, <1>3, FS_Injection

(***************************************************************************)
(* The number of governed workloads never exceeds the capacity.            *)
(***************************************************************************)
THEOREM GovernedWithinCapacity ==
    Spec => [](Cardinality({p \in Proc : Governed(p)}) <= capacity)
<1>1. QED
  BY PoolInvariant, PoolInvBounds, PTL

---------------------------------------------------------------------------
(* The files of a job                                                      *)

LEMMA JobFilesNext ==
    ASSUME TraceInv, [Next]_vars PROVE JobFiles'
<1>type. TypeOK /\ TypeOK' /\ PoolInv
  BY TypeOKNext DEF PoolInv, TraceInv
<1>scan. \A p \in Proc : Candidate(p) \in Slots
  BY <1>type, CandidateInRange
<1> USE <1>type, <1>scan, MetadataFacts
    DEF TraceInv, JobFiles, TypeOK, CriticalSection, HoldsPermit, NoProc,
        SlotLockOwner, MetadataPlace, PoolInv, QueueLockOwner, ScanIsStable,
        Goto, Finish, vars, queueVars, localVars, fileVars, adminVars,
        boundVars, jobVars, envVars
<1>1. ASSUME NEW p \in Proc, Start(p) PROVE JobFiles'
  BY <1>1 DEF Start
<1>2. ASSUME NEW p \in Proc, LockQueue(p) PROVE JobFiles'
  BY <1>2 DEF LockQueue
<1>3. ASSUME NEW p \in Proc, PruneKeep(p) PROVE JobFiles'
  BY <1>3 DEF PruneKeep
<1>4. ASSUME NEW p \in Proc, PruneOpen(p) PROVE JobFiles'
  BY <1>4 DEF PruneOpen
<1>5. ASSUME NEW p \in Proc, PruneRemove(p) PROVE JobFiles'
  BY <1>5 DEF PruneRemove
<1>6. ASSUME NEW p \in Proc, PruneLost(p) PROVE JobFiles'
  BY <1>6 DEF PruneLost, Abort, HasLease
<1>7. ASSUME NEW p \in Proc, RefuseDraining(p) PROVE JobFiles'
  BY <1>7 DEF RefuseDraining, Abort, HasLease
<1>8. ASSUME NEW p \in Proc, Decide(p) PROVE JobFiles'
  BY <1>8 DEF Decide, MayTry
<1>9. ASSUME NEW p \in Proc, ReadActive(p) PROVE JobFiles'
  BY <1>9 DEF ReadActive
<1>10. ASSUME NEW p \in Proc, Quarantine(p) PROVE JobFiles'
  BY <1>10 DEF Quarantine, NextSlot
<1>11. ASSUME NEW p \in Proc, ClearStale(p) PROVE JobFiles'
  BY <1>11 DEF ClearStale
<1>12. ASSUME NEW p \in Proc, ClearLost(p) PROVE JobFiles'
  BY <1>12 DEF ClearLost, Abort, HasLease
<1>13. ASSUME NEW p \in Proc, TakeSlot(p) PROVE JobFiles'
  BY <1>13 DEF TakeSlot
<1>14. ASSUME NEW p \in Proc, SlotBusy(p) PROVE JobFiles'
  BY <1>14 DEF SlotBusy, NextSlot
<1>15. ASSUME NEW p \in Proc, SlotProbed(p) PROVE JobFiles'
  BY <1>15 DEF SlotProbed, NextSlot
<1>16. ASSUME NEW p \in Proc, MarkStarting(p) PROVE JobFiles'
  BY <1>16 DEF MarkStarting
<1>17. ASSUME NEW p \in Proc, MarkStartingFails(p) PROVE JobFiles'
  BY <1>17 DEF MarkStartingFails
<1>18. ASSUME NEW p \in Proc, KeepWaiting(p) PROVE JobFiles'
  BY <1>18 DEF KeepWaiting, HasLease
<1>19. ASSUME NEW p \in Proc, RefuseAdmission(p) PROVE JobFiles'
  BY <1>19 DEF RefuseAdmission, Abort, HasLease
<1>20. ASSUME NEW p \in Proc, Enqueue(p) PROVE JobFiles'
  BY <1>20 DEF Enqueue
<1>21. ASSUME NEW p \in Proc, EnqueueFails(p) PROVE JobFiles'
  BY <1>21 DEF EnqueueFails, Abort, HasLease
<1>22. ASSUME NEW p \in Proc, Retry(p) PROVE JobFiles'
  BY <1>22 DEF Retry
<1>23. ASSUME NEW p \in Proc, TimeOut(p) PROVE JobFiles'
  BY <1>23 DEF TimeOut
<1>24. ASSUME NEW p \in Proc, UnlockLease(p) PROVE JobFiles'
  BY <1>24 DEF UnlockLease
<1>25. ASSUME NEW p \in Proc, RemoveLease(p) PROVE JobFiles'
  BY <1>25 DEF RemoveLease
<1>26. ASSUME NEW p \in Proc, Bind(p) PROVE JobFiles'
  BY <1>26 DEF Bind
<1>27. ASSUME NEW p \in Proc, BindFails(p) PROVE JobFiles'
  BY <1>27 DEF BindFails
<1>28. ASSUME NEW p \in Proc, Spawn(p) PROVE JobFiles'
  BY <1>28 DEF Spawn
<1>29. ASSUME NEW p \in Proc, SpawnFails(p) PROVE JobFiles'
  BY <1>29 DEF SpawnFails
<1>30. ASSUME NEW p \in Proc, MarkRunning(p) PROVE JobFiles'
  BY <1>30 DEF MarkRunning
<1>31. ASSUME NEW p \in Proc, SuperviseFails(p) PROVE JobFiles'
  BY <1>31 DEF SuperviseFails
<1>32. ASSUME NEW p \in Proc, ChildExit(p) PROVE JobFiles'
  BY <1>32 DEF ChildExit
<1>33. ASSUME NEW p \in Proc, Reap(p) PROVE JobFiles'
  BY <1>33 DEF Reap
<1>34. ASSUME NEW p \in Proc, RemoveActive(p) PROVE JobFiles'
  BY <1>34 DEF RemoveActive
<1>35. ASSUME NEW p \in Proc, UnlockSlot(p) PROVE JobFiles'
  BY <1>35 DEF UnlockSlot
<1>36. ASSUME NEW p \in Proc, Exit(p) PROVE JobFiles'
  BY <1>36 DEF Exit
<1>37. ASSUME NEW p \in Proc, Crash(p) PROVE JobFiles'
  BY <1>37 DEF Crash
<1>38. ASSUME NEW enabled \in BOOLEAN, SetDrain(enabled) PROVE JobFiles'
  <2>1. UNCHANGED <<pc, result, control, active, leaseLocked>>
    BY <1>38 DEF SetDrain, jobVars, fileVars, localVars, queueVars
  <2>2. QED
    BY <2>1
<1>39. ASSUME NEW new \in 1..2, SetCapacity(new) PROVE JobFiles'
  BY <1>39 DEF SetCapacity
<1>40. CASE UNCHANGED vars
  BY <1>40
<1> HIDE <1>type, <1>scan, MetadataFacts
    DEF TraceInv, JobFiles, TypeOK, CriticalSection, HoldsPermit, NoProc,
        SlotLockOwner, MetadataPlace, PoolInv, QueueLockOwner, ScanIsStable,
        Goto, Finish, vars, queueVars, localVars, fileVars, adminVars,
        boundVars, jobVars, envVars
<1>41. QED
  BY <1>1, <1>2, <1>3, <1>4, <1>5, <1>6, <1>7, <1>8, <1>9, <1>10, <1>11,
     <1>12, <1>13, <1>14, <1>15, <1>16, <1>17, <1>18, <1>19, <1>20,
     <1>21, <1>22, <1>23, <1>24, <1>25, <1>26, <1>27, <1>28, <1>29,
     <1>30, <1>31, <1>32, <1>33, <1>34, <1>35, <1>36, <1>37, <1>38,
     <1>39, <1>40
  DEF Next, Step, Terminated

THEOREM TraceInvariant == Spec => []TraceInv
<1>1. Init => TraceInv
  <2>1. Init => JobFiles
    BY MetadataFacts DEF Init, JobFiles, NoProc
  <2>2. QED
    BY <2>1, PoolInvInit DEF TraceInv
<1>2. TraceInv /\ [Next]_vars => TraceInv'
  BY JobFilesNext, PoolInvNext DEF TraceInv
<1>3. QED
  BY <1>1, <1>2, PTL DEF Spec

LEMMA TraceInvClean == TraceInv => NoTraceLeft
BY DEF TraceInv, JobFiles, NoTraceLeft, PoolInv, SlotLockOwner, HoldsPermit,
       CriticalSection

(***************************************************************************)
(* An invocation that ends without being killed, on whichever path, leaves *)
(* no socket, metadata, lease lock or slot lock behind.                    *)
(***************************************************************************)
THEOREM NoTraceLeftHolds == Spec => []NoTraceLeft
<1>1. QED
  BY TraceInvariant, TraceInvClean, PTL
=============================================================================
