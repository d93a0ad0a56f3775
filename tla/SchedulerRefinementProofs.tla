--------------------- MODULE SchedulerRefinementProofs ---------------------
(***************************************************************************)
(* The theorems about the queue: a waiter keeps its place, drain is final  *)
(* for who is not in yet, the scheduler implements the fair pool, and each *)
(* invocation the life of a job.                                           *)
(***************************************************************************)
EXTENDS SchedulerProofs, SchedulerRefinement

---------------------------------------------------------------------------
(* The invariant of the queue                                              *)

LEMMA TicketsDifferNext ==
    ASSUME QueueInv, [Next]_vars PROVE TicketsDiffer'
<1>type. TypeOK /\ TypeOK' /\ PoolInv
  BY TypeOKNext DEF PoolInv, QueueInv
<1> USE <1>type
    DEF QueueInv, TicketsDiffer, TypeOK, CriticalSection,
        NoProc, PoolInv, QueueLockOwner, Goto, Finish,
        vars, queueVars, localVars, fileVars, adminVars, boundVars,
        jobVars, envVars
<1>1. ASSUME NEW p \in Proc, Start(p) PROVE TicketsDiffer'
  BY <1>1 DEF Start
<1>2. ASSUME NEW p \in Proc, LockQueue(p) PROVE TicketsDiffer'
  BY <1>2 DEF LockQueue
<1>3. ASSUME NEW p \in Proc, PruneKeep(p) PROVE TicketsDiffer'
  BY <1>3 DEF PruneKeep
<1>4. ASSUME NEW p \in Proc, PruneOpen(p) PROVE TicketsDiffer'
  BY <1>4 DEF PruneOpen
<1>5. ASSUME NEW p \in Proc, PruneRemove(p) PROVE TicketsDiffer'
  BY <1>5 DEF PruneRemove
<1>6. ASSUME NEW p \in Proc, PruneLost(p) PROVE TicketsDiffer'
  BY <1>6 DEF PruneLost, Abort, HasLease
<1>7. ASSUME NEW p \in Proc, RefuseDraining(p) PROVE TicketsDiffer'
  BY <1>7 DEF RefuseDraining, Abort, HasLease
<1>8. ASSUME NEW p \in Proc, Decide(p) PROVE TicketsDiffer'
  BY <1>8 DEF Decide, MayTry
<1>9. ASSUME NEW p \in Proc, ReadActive(p) PROVE TicketsDiffer'
  BY <1>9 DEF ReadActive
<1>10. ASSUME NEW p \in Proc, Quarantine(p) PROVE TicketsDiffer'
  BY <1>10 DEF Quarantine, NextSlot
<1>11. ASSUME NEW p \in Proc, ClearStale(p) PROVE TicketsDiffer'
  BY <1>11 DEF ClearStale
<1>12. ASSUME NEW p \in Proc, ClearLost(p) PROVE TicketsDiffer'
  BY <1>12 DEF ClearLost, Abort, HasLease
<1>13. ASSUME NEW p \in Proc, TakeSlot(p) PROVE TicketsDiffer'
  BY <1>13 DEF TakeSlot
<1>14. ASSUME NEW p \in Proc, SlotBusy(p) PROVE TicketsDiffer'
  BY <1>14 DEF SlotBusy, NextSlot
<1>15. ASSUME NEW p \in Proc, SlotProbed(p) PROVE TicketsDiffer'
  BY <1>15 DEF SlotProbed, NextSlot
<1>16. ASSUME NEW p \in Proc, MarkStarting(p) PROVE TicketsDiffer'
  BY <1>16 DEF MarkStarting
<1>17. ASSUME NEW p \in Proc, MarkStartingFails(p) PROVE TicketsDiffer'
  BY <1>17 DEF MarkStartingFails
<1>18. ASSUME NEW p \in Proc, KeepWaiting(p) PROVE TicketsDiffer'
  BY <1>18 DEF KeepWaiting, HasLease
<1>19. ASSUME NEW p \in Proc, RefuseAdmission(p) PROVE TicketsDiffer'
  BY <1>19 DEF RefuseAdmission, Abort, HasLease
<1>20. ASSUME NEW p \in Proc, Enqueue(p) PROVE TicketsDiffer'
  BY <1>20 DEF Enqueue
<1>21. ASSUME NEW p \in Proc, EnqueueFails(p) PROVE TicketsDiffer'
  BY <1>21 DEF EnqueueFails, Abort, HasLease
<1>22. ASSUME NEW p \in Proc, Retry(p) PROVE TicketsDiffer'
  BY <1>22 DEF Retry
<1>23. ASSUME NEW p \in Proc, TimeOut(p) PROVE TicketsDiffer'
  BY <1>23 DEF TimeOut
<1>24. ASSUME NEW p \in Proc, UnlockLease(p) PROVE TicketsDiffer'
  BY <1>24 DEF UnlockLease
<1>25. ASSUME NEW p \in Proc, RemoveLease(p) PROVE TicketsDiffer'
  BY <1>25 DEF RemoveLease
<1>26. ASSUME NEW p \in Proc, Bind(p) PROVE TicketsDiffer'
  BY <1>26 DEF Bind
<1>27. ASSUME NEW p \in Proc, BindFails(p) PROVE TicketsDiffer'
  BY <1>27 DEF BindFails
<1>28. ASSUME NEW p \in Proc, Spawn(p) PROVE TicketsDiffer'
  BY <1>28 DEF Spawn
<1>29. ASSUME NEW p \in Proc, SpawnFails(p) PROVE TicketsDiffer'
  BY <1>29 DEF SpawnFails
<1>30. ASSUME NEW p \in Proc, MarkRunning(p) PROVE TicketsDiffer'
  BY <1>30 DEF MarkRunning
<1>31. ASSUME NEW p \in Proc, SuperviseFails(p) PROVE TicketsDiffer'
  BY <1>31 DEF SuperviseFails
<1>32. ASSUME NEW p \in Proc, ChildExit(p) PROVE TicketsDiffer'
  BY <1>32 DEF ChildExit
<1>33. ASSUME NEW p \in Proc, Reap(p) PROVE TicketsDiffer'
  BY <1>33 DEF Reap
<1>34. ASSUME NEW p \in Proc, RemoveActive(p) PROVE TicketsDiffer'
  BY <1>34 DEF RemoveActive
<1>35. ASSUME NEW p \in Proc, UnlockSlot(p) PROVE TicketsDiffer'
  BY <1>35 DEF UnlockSlot
<1>36. ASSUME NEW p \in Proc, Exit(p) PROVE TicketsDiffer'
  BY <1>36 DEF Exit
<1>37. ASSUME NEW p \in Proc, Crash(p) PROVE TicketsDiffer'
  BY <1>37 DEF Crash
<1>38. ASSUME NEW enabled \in BOOLEAN, SetDrain(enabled) PROVE TicketsDiffer'
  <2>1. UNCHANGED <<pc, queueLock, leaseFiles, leaseLocked, ticket, clock, todo>>
    BY <1>38 DEF SetDrain, queueVars, localVars
  <2>2. QED
    BY <2>1
<1>39. ASSUME NEW new \in 1..2, SetCapacity(new) PROVE TicketsDiffer'
  BY <1>39 DEF SetCapacity
<1>40. CASE UNCHANGED vars
  BY <1>40
<1> HIDE <1>type
    DEF QueueInv, TicketsDiffer, TypeOK, CriticalSection,
        NoProc, PoolInv, QueueLockOwner, Goto, Finish,
        vars, queueVars, localVars, fileVars, adminVars, boundVars,
        jobVars, envVars
<1>41. QED
  BY <1>1, <1>2, <1>3, <1>4, <1>5, <1>6, <1>7, <1>8, <1>9, <1>10, <1>11,
     <1>12, <1>13, <1>14, <1>15, <1>16, <1>17, <1>18, <1>19, <1>20,
     <1>21, <1>22, <1>23, <1>24, <1>25, <1>26, <1>27, <1>28, <1>29,
     <1>30, <1>31, <1>32, <1>33, <1>34, <1>35, <1>36, <1>37, <1>38,
     <1>39, <1>40
  DEF Next, Step, Terminated

LEMMA WaiterKeepsPlaceNext ==
    ASSUME QueueInv, [Next]_vars PROVE WaiterKeepsPlace'
<1>type. TypeOK /\ TypeOK' /\ PoolInv
  BY TypeOKNext DEF PoolInv, QueueInv
<1> USE <1>type
    DEF QueueInv, WaiterKeepsPlace, PruneIsSafe, TicketsDiffer, Oldest, TypeOK, CriticalSection,
        NoProc, PoolInv, QueueLockOwner, Goto, Finish,
        vars, queueVars, localVars, fileVars, adminVars, boundVars,
        jobVars, envVars
<1>1. ASSUME NEW p \in Proc, Start(p) PROVE WaiterKeepsPlace'
  BY <1>1 DEF Start
<1>2. ASSUME NEW p \in Proc, LockQueue(p) PROVE WaiterKeepsPlace'
  BY <1>2 DEF LockQueue
<1>3. ASSUME NEW p \in Proc, PruneKeep(p) PROVE WaiterKeepsPlace'
  BY <1>3 DEF PruneKeep
<1>4. ASSUME NEW p \in Proc, PruneOpen(p) PROVE WaiterKeepsPlace'
  BY <1>4 DEF PruneOpen
<1>5. ASSUME NEW p \in Proc, PruneRemove(p) PROVE WaiterKeepsPlace'
  BY <1>5 DEF PruneRemove
<1>6. ASSUME NEW p \in Proc, PruneLost(p) PROVE WaiterKeepsPlace'
  BY <1>6 DEF PruneLost, Abort, HasLease
<1>7. ASSUME NEW p \in Proc, RefuseDraining(p) PROVE WaiterKeepsPlace'
  BY <1>7 DEF RefuseDraining, Abort, HasLease
<1>8. ASSUME NEW p \in Proc, Decide(p) PROVE WaiterKeepsPlace'
  BY <1>8 DEF Decide, MayTry
<1>9. ASSUME NEW p \in Proc, ReadActive(p) PROVE WaiterKeepsPlace'
  BY <1>9 DEF ReadActive
<1>10. ASSUME NEW p \in Proc, Quarantine(p) PROVE WaiterKeepsPlace'
  BY <1>10 DEF Quarantine, NextSlot
<1>11. ASSUME NEW p \in Proc, ClearStale(p) PROVE WaiterKeepsPlace'
  BY <1>11 DEF ClearStale
<1>12. ASSUME NEW p \in Proc, ClearLost(p) PROVE WaiterKeepsPlace'
  BY <1>12 DEF ClearLost, Abort, HasLease
<1>13. ASSUME NEW p \in Proc, TakeSlot(p) PROVE WaiterKeepsPlace'
  BY <1>13 DEF TakeSlot
<1>14. ASSUME NEW p \in Proc, SlotBusy(p) PROVE WaiterKeepsPlace'
  BY <1>14 DEF SlotBusy, NextSlot
<1>15. ASSUME NEW p \in Proc, SlotProbed(p) PROVE WaiterKeepsPlace'
  BY <1>15 DEF SlotProbed, NextSlot
<1>16. ASSUME NEW p \in Proc, MarkStarting(p) PROVE WaiterKeepsPlace'
  BY <1>16 DEF MarkStarting
<1>17. ASSUME NEW p \in Proc, MarkStartingFails(p) PROVE WaiterKeepsPlace'
  BY <1>17 DEF MarkStartingFails
<1>18. ASSUME NEW p \in Proc, KeepWaiting(p) PROVE WaiterKeepsPlace'
  BY <1>18 DEF KeepWaiting, HasLease
<1>19. ASSUME NEW p \in Proc, RefuseAdmission(p) PROVE WaiterKeepsPlace'
  BY <1>19 DEF RefuseAdmission, Abort, HasLease
<1>20. ASSUME NEW p \in Proc, Enqueue(p) PROVE WaiterKeepsPlace'
  BY <1>20 DEF Enqueue
<1>21. ASSUME NEW p \in Proc, EnqueueFails(p) PROVE WaiterKeepsPlace'
  BY <1>21 DEF EnqueueFails, Abort, HasLease
<1>22. ASSUME NEW p \in Proc, Retry(p) PROVE WaiterKeepsPlace'
  BY <1>22 DEF Retry
<1>23. ASSUME NEW p \in Proc, TimeOut(p) PROVE WaiterKeepsPlace'
  BY <1>23 DEF TimeOut
<1>24. ASSUME NEW p \in Proc, UnlockLease(p) PROVE WaiterKeepsPlace'
  BY <1>24 DEF UnlockLease
<1>25. ASSUME NEW p \in Proc, RemoveLease(p) PROVE WaiterKeepsPlace'
  BY <1>25 DEF RemoveLease
<1>26. ASSUME NEW p \in Proc, Bind(p) PROVE WaiterKeepsPlace'
  BY <1>26 DEF Bind
<1>27. ASSUME NEW p \in Proc, BindFails(p) PROVE WaiterKeepsPlace'
  BY <1>27 DEF BindFails
<1>28. ASSUME NEW p \in Proc, Spawn(p) PROVE WaiterKeepsPlace'
  BY <1>28 DEF Spawn
<1>29. ASSUME NEW p \in Proc, SpawnFails(p) PROVE WaiterKeepsPlace'
  BY <1>29 DEF SpawnFails
<1>30. ASSUME NEW p \in Proc, MarkRunning(p) PROVE WaiterKeepsPlace'
  BY <1>30 DEF MarkRunning
<1>31. ASSUME NEW p \in Proc, SuperviseFails(p) PROVE WaiterKeepsPlace'
  BY <1>31 DEF SuperviseFails
<1>32. ASSUME NEW p \in Proc, ChildExit(p) PROVE WaiterKeepsPlace'
  BY <1>32 DEF ChildExit
<1>33. ASSUME NEW p \in Proc, Reap(p) PROVE WaiterKeepsPlace'
  BY <1>33 DEF Reap
<1>34. ASSUME NEW p \in Proc, RemoveActive(p) PROVE WaiterKeepsPlace'
  BY <1>34 DEF RemoveActive
<1>35. ASSUME NEW p \in Proc, UnlockSlot(p) PROVE WaiterKeepsPlace'
  BY <1>35 DEF UnlockSlot
<1>36. ASSUME NEW p \in Proc, Exit(p) PROVE WaiterKeepsPlace'
  BY <1>36 DEF Exit
<1>37. ASSUME NEW p \in Proc, Crash(p) PROVE WaiterKeepsPlace'
  BY <1>37 DEF Crash
<1>38. ASSUME NEW enabled \in BOOLEAN, SetDrain(enabled) PROVE WaiterKeepsPlace'
  <2>1. UNCHANGED <<pc, queueLock, leaseFiles, leaseLocked, ticket, clock, todo>>
    BY <1>38 DEF SetDrain, queueVars, localVars
  <2>2. QED
    BY <2>1
<1>39. ASSUME NEW new \in 1..2, SetCapacity(new) PROVE WaiterKeepsPlace'
  BY <1>39 DEF SetCapacity
<1>40. CASE UNCHANGED vars
  BY <1>40
<1> HIDE <1>type
    DEF QueueInv, WaiterKeepsPlace, PruneIsSafe, TicketsDiffer, Oldest, TypeOK, CriticalSection,
        NoProc, PoolInv, QueueLockOwner, Goto, Finish,
        vars, queueVars, localVars, fileVars, adminVars, boundVars,
        jobVars, envVars
<1>41. QED
  BY <1>1, <1>2, <1>3, <1>4, <1>5, <1>6, <1>7, <1>8, <1>9, <1>10, <1>11,
     <1>12, <1>13, <1>14, <1>15, <1>16, <1>17, <1>18, <1>19, <1>20,
     <1>21, <1>22, <1>23, <1>24, <1>25, <1>26, <1>27, <1>28, <1>29,
     <1>30, <1>31, <1>32, <1>33, <1>34, <1>35, <1>36, <1>37, <1>38,
     <1>39, <1>40
  DEF Next, Step, Terminated

LEMMA PruneIsSafeNext ==
    ASSUME QueueInv, [Next]_vars PROVE PruneIsSafe'
<1>type. TypeOK /\ TypeOK' /\ PoolInv
  BY TypeOKNext DEF PoolInv, QueueInv
<1> USE <1>type
    DEF QueueInv, PruneIsSafe, TicketsDiffer, Oldest, TypeOK, CriticalSection,
        NoProc, PoolInv, QueueLockOwner, Goto, Finish,
        vars, queueVars, localVars, fileVars, adminVars, boundVars,
        jobVars, envVars
<1>1. ASSUME NEW p \in Proc, Start(p) PROVE PruneIsSafe'
  BY <1>1 DEF Start
<1>2. ASSUME NEW p \in Proc, LockQueue(p) PROVE PruneIsSafe'
  BY <1>2 DEF LockQueue
<1>3. ASSUME NEW p \in Proc, PruneKeep(p) PROVE PruneIsSafe'
  BY <1>3 DEF PruneKeep
<1>4. ASSUME NEW p \in Proc, PruneOpen(p) PROVE PruneIsSafe'
  BY <1>4 DEF PruneOpen
<1>5. ASSUME NEW p \in Proc, PruneRemove(p) PROVE PruneIsSafe'
  BY <1>5 DEF PruneRemove
<1>6. ASSUME NEW p \in Proc, PruneLost(p) PROVE PruneIsSafe'
  BY <1>6 DEF PruneLost, Abort, HasLease
<1>7. ASSUME NEW p \in Proc, RefuseDraining(p) PROVE PruneIsSafe'
  BY <1>7 DEF RefuseDraining, Abort, HasLease
<1>8. ASSUME NEW p \in Proc, Decide(p) PROVE PruneIsSafe'
  BY <1>8 DEF Decide, MayTry
<1>9. ASSUME NEW p \in Proc, ReadActive(p) PROVE PruneIsSafe'
  BY <1>9 DEF ReadActive
<1>10. ASSUME NEW p \in Proc, Quarantine(p) PROVE PruneIsSafe'
  BY <1>10 DEF Quarantine, NextSlot
<1>11. ASSUME NEW p \in Proc, ClearStale(p) PROVE PruneIsSafe'
  BY <1>11 DEF ClearStale
<1>12. ASSUME NEW p \in Proc, ClearLost(p) PROVE PruneIsSafe'
  BY <1>12 DEF ClearLost, Abort, HasLease
<1>13. ASSUME NEW p \in Proc, TakeSlot(p) PROVE PruneIsSafe'
  BY <1>13 DEF TakeSlot
<1>14. ASSUME NEW p \in Proc, SlotBusy(p) PROVE PruneIsSafe'
  BY <1>14 DEF SlotBusy, NextSlot
<1>15. ASSUME NEW p \in Proc, SlotProbed(p) PROVE PruneIsSafe'
  BY <1>15 DEF SlotProbed, NextSlot
<1>16. ASSUME NEW p \in Proc, MarkStarting(p) PROVE PruneIsSafe'
  BY <1>16 DEF MarkStarting
<1>17. ASSUME NEW p \in Proc, MarkStartingFails(p) PROVE PruneIsSafe'
  BY <1>17 DEF MarkStartingFails
<1>18. ASSUME NEW p \in Proc, KeepWaiting(p) PROVE PruneIsSafe'
  BY <1>18 DEF KeepWaiting, HasLease
<1>19. ASSUME NEW p \in Proc, RefuseAdmission(p) PROVE PruneIsSafe'
  BY <1>19 DEF RefuseAdmission, Abort, HasLease
<1>20. ASSUME NEW p \in Proc, Enqueue(p) PROVE PruneIsSafe'
  BY <1>20 DEF Enqueue
<1>21. ASSUME NEW p \in Proc, EnqueueFails(p) PROVE PruneIsSafe'
  BY <1>21 DEF EnqueueFails, Abort, HasLease
<1>22. ASSUME NEW p \in Proc, Retry(p) PROVE PruneIsSafe'
  BY <1>22 DEF Retry
<1>23. ASSUME NEW p \in Proc, TimeOut(p) PROVE PruneIsSafe'
  BY <1>23 DEF TimeOut
<1>24. ASSUME NEW p \in Proc, UnlockLease(p) PROVE PruneIsSafe'
  BY <1>24 DEF UnlockLease
<1>25. ASSUME NEW p \in Proc, RemoveLease(p) PROVE PruneIsSafe'
  BY <1>25 DEF RemoveLease
<1>26. ASSUME NEW p \in Proc, Bind(p) PROVE PruneIsSafe'
  BY <1>26 DEF Bind
<1>27. ASSUME NEW p \in Proc, BindFails(p) PROVE PruneIsSafe'
  BY <1>27 DEF BindFails
<1>28. ASSUME NEW p \in Proc, Spawn(p) PROVE PruneIsSafe'
  BY <1>28 DEF Spawn
<1>29. ASSUME NEW p \in Proc, SpawnFails(p) PROVE PruneIsSafe'
  BY <1>29 DEF SpawnFails
<1>30. ASSUME NEW p \in Proc, MarkRunning(p) PROVE PruneIsSafe'
  BY <1>30 DEF MarkRunning
<1>31. ASSUME NEW p \in Proc, SuperviseFails(p) PROVE PruneIsSafe'
  BY <1>31 DEF SuperviseFails
<1>32. ASSUME NEW p \in Proc, ChildExit(p) PROVE PruneIsSafe'
  BY <1>32 DEF ChildExit
<1>33. ASSUME NEW p \in Proc, Reap(p) PROVE PruneIsSafe'
  BY <1>33 DEF Reap
<1>34. ASSUME NEW p \in Proc, RemoveActive(p) PROVE PruneIsSafe'
  BY <1>34 DEF RemoveActive
<1>35. ASSUME NEW p \in Proc, UnlockSlot(p) PROVE PruneIsSafe'
  BY <1>35 DEF UnlockSlot
<1>36. ASSUME NEW p \in Proc, Exit(p) PROVE PruneIsSafe'
  BY <1>36 DEF Exit
<1>37. ASSUME NEW p \in Proc, Crash(p) PROVE PruneIsSafe'
  BY <1>37 DEF Crash
<1>38. ASSUME NEW enabled \in BOOLEAN, SetDrain(enabled) PROVE PruneIsSafe'
  <2>1. UNCHANGED <<pc, queueLock, leaseFiles, leaseLocked, ticket, clock, todo>>
    BY <1>38 DEF SetDrain, queueVars, localVars
  <2>2. QED
    BY <2>1
<1>39. ASSUME NEW new \in 1..2, SetCapacity(new) PROVE PruneIsSafe'
  BY <1>39 DEF SetCapacity
<1>40. CASE UNCHANGED vars
  BY <1>40
<1> HIDE <1>type
    DEF QueueInv, PruneIsSafe, TicketsDiffer, Oldest, TypeOK, CriticalSection,
        NoProc, PoolInv, QueueLockOwner, Goto, Finish,
        vars, queueVars, localVars, fileVars, adminVars, boundVars,
        jobVars, envVars
<1>41. QED
  BY <1>1, <1>2, <1>3, <1>4, <1>5, <1>6, <1>7, <1>8, <1>9, <1>10, <1>11,
     <1>12, <1>13, <1>14, <1>15, <1>16, <1>17, <1>18, <1>19, <1>20,
     <1>21, <1>22, <1>23, <1>24, <1>25, <1>26, <1>27, <1>28, <1>29,
     <1>30, <1>31, <1>32, <1>33, <1>34, <1>35, <1>36, <1>37, <1>38,
     <1>39, <1>40
  DEF Next, Step, Terminated

LEMMA DecisionHoldsNext ==
    ASSUME QueueInv, [Next]_vars PROVE DecisionHolds'
<1>type. TypeOK /\ TypeOK' /\ PoolInv
  BY TypeOKNext DEF PoolInv, QueueInv
<1> USE <1>type
    DEF QueueInv, DecisionHolds, MayTry, HasLease, PruneIsSafe, Oldest, TypeOK, CriticalSection,
        NoProc, PoolInv, QueueLockOwner, Goto, Finish,
        vars, queueVars, localVars, fileVars, adminVars, boundVars,
        jobVars, envVars
<1>1. ASSUME NEW p \in Proc, Start(p) PROVE DecisionHolds'
  BY <1>1 DEF Start
<1>2. ASSUME NEW p \in Proc, LockQueue(p) PROVE DecisionHolds'
  BY <1>2 DEF LockQueue
<1>3. ASSUME NEW p \in Proc, PruneKeep(p) PROVE DecisionHolds'
  BY <1>3 DEF PruneKeep
<1>4. ASSUME NEW p \in Proc, PruneOpen(p) PROVE DecisionHolds'
  BY <1>4 DEF PruneOpen
<1>5. ASSUME NEW p \in Proc, PruneRemove(p) PROVE DecisionHolds'
  BY <1>5 DEF PruneRemove
<1>6. ASSUME NEW p \in Proc, PruneLost(p) PROVE DecisionHolds'
  BY <1>6 DEF PruneLost, Abort, HasLease
<1>7. ASSUME NEW p \in Proc, RefuseDraining(p) PROVE DecisionHolds'
  BY <1>7 DEF RefuseDraining, Abort, HasLease
<1>8. ASSUME NEW p \in Proc, Decide(p) PROVE DecisionHolds'
  BY <1>8 DEF Decide, MayTry
<1>9. ASSUME NEW p \in Proc, ReadActive(p) PROVE DecisionHolds'
  BY <1>9 DEF ReadActive
<1>10. ASSUME NEW p \in Proc, Quarantine(p) PROVE DecisionHolds'
  BY <1>10 DEF Quarantine, NextSlot
<1>11. ASSUME NEW p \in Proc, ClearStale(p) PROVE DecisionHolds'
  BY <1>11 DEF ClearStale
<1>12. ASSUME NEW p \in Proc, ClearLost(p) PROVE DecisionHolds'
  BY <1>12 DEF ClearLost, Abort, HasLease
<1>13. ASSUME NEW p \in Proc, TakeSlot(p) PROVE DecisionHolds'
  BY <1>13 DEF TakeSlot
<1>14. ASSUME NEW p \in Proc, SlotBusy(p) PROVE DecisionHolds'
  BY <1>14 DEF SlotBusy, NextSlot
<1>15. ASSUME NEW p \in Proc, SlotProbed(p) PROVE DecisionHolds'
  BY <1>15 DEF SlotProbed, NextSlot
<1>16. ASSUME NEW p \in Proc, MarkStarting(p) PROVE DecisionHolds'
  BY <1>16 DEF MarkStarting
<1>17. ASSUME NEW p \in Proc, MarkStartingFails(p) PROVE DecisionHolds'
  BY <1>17 DEF MarkStartingFails
<1>18. ASSUME NEW p \in Proc, KeepWaiting(p) PROVE DecisionHolds'
  BY <1>18 DEF KeepWaiting, HasLease
<1>19. ASSUME NEW p \in Proc, RefuseAdmission(p) PROVE DecisionHolds'
  BY <1>19 DEF RefuseAdmission, Abort, HasLease
<1>20. ASSUME NEW p \in Proc, Enqueue(p) PROVE DecisionHolds'
  BY <1>20 DEF Enqueue
<1>21. ASSUME NEW p \in Proc, EnqueueFails(p) PROVE DecisionHolds'
  BY <1>21 DEF EnqueueFails, Abort, HasLease
<1>22. ASSUME NEW p \in Proc, Retry(p) PROVE DecisionHolds'
  BY <1>22 DEF Retry
<1>23. ASSUME NEW p \in Proc, TimeOut(p) PROVE DecisionHolds'
  BY <1>23 DEF TimeOut
<1>24. ASSUME NEW p \in Proc, UnlockLease(p) PROVE DecisionHolds'
  BY <1>24 DEF UnlockLease
<1>25. ASSUME NEW p \in Proc, RemoveLease(p) PROVE DecisionHolds'
  BY <1>25 DEF RemoveLease
<1>26. ASSUME NEW p \in Proc, Bind(p) PROVE DecisionHolds'
  BY <1>26 DEF Bind
<1>27. ASSUME NEW p \in Proc, BindFails(p) PROVE DecisionHolds'
  BY <1>27 DEF BindFails
<1>28. ASSUME NEW p \in Proc, Spawn(p) PROVE DecisionHolds'
  BY <1>28 DEF Spawn
<1>29. ASSUME NEW p \in Proc, SpawnFails(p) PROVE DecisionHolds'
  BY <1>29 DEF SpawnFails
<1>30. ASSUME NEW p \in Proc, MarkRunning(p) PROVE DecisionHolds'
  BY <1>30 DEF MarkRunning
<1>31. ASSUME NEW p \in Proc, SuperviseFails(p) PROVE DecisionHolds'
  BY <1>31 DEF SuperviseFails
<1>32. ASSUME NEW p \in Proc, ChildExit(p) PROVE DecisionHolds'
  BY <1>32 DEF ChildExit
<1>33. ASSUME NEW p \in Proc, Reap(p) PROVE DecisionHolds'
  BY <1>33 DEF Reap
<1>34. ASSUME NEW p \in Proc, RemoveActive(p) PROVE DecisionHolds'
  BY <1>34 DEF RemoveActive
<1>35. ASSUME NEW p \in Proc, UnlockSlot(p) PROVE DecisionHolds'
  BY <1>35 DEF UnlockSlot
<1>36. ASSUME NEW p \in Proc, Exit(p) PROVE DecisionHolds'
  BY <1>36 DEF Exit
<1>37. ASSUME NEW p \in Proc, Crash(p) PROVE DecisionHolds'
  BY <1>37 DEF Crash
<1>38. ASSUME NEW enabled \in BOOLEAN, SetDrain(enabled) PROVE DecisionHolds'
  <2>1. \A q \in Proc : pc[q] \notin CriticalSection
    BY <1>38, NoProcOutside DEF SetDrain, jobVars
  <2>2. pc' = pc
    BY <1>38 DEF SetDrain, queueVars, localVars
  <2>3. QED
    BY <2>1, <2>2
<1>39. ASSUME NEW new \in 1..2, SetCapacity(new) PROVE DecisionHolds'
  BY <1>39 DEF SetCapacity
<1>40. CASE UNCHANGED vars
  BY <1>40
<1> HIDE <1>type
    DEF QueueInv, DecisionHolds, MayTry, HasLease, PruneIsSafe, Oldest, TypeOK, CriticalSection,
        NoProc, PoolInv, QueueLockOwner, Goto, Finish,
        vars, queueVars, localVars, fileVars, adminVars, boundVars,
        jobVars, envVars
<1>41. QED
  BY <1>1, <1>2, <1>3, <1>4, <1>5, <1>6, <1>7, <1>8, <1>9, <1>10, <1>11,
     <1>12, <1>13, <1>14, <1>15, <1>16, <1>17, <1>18, <1>19, <1>20,
     <1>21, <1>22, <1>23, <1>24, <1>25, <1>26, <1>27, <1>28, <1>29,
     <1>30, <1>31, <1>32, <1>33, <1>34, <1>35, <1>36, <1>37, <1>38,
     <1>39, <1>40
  DEF Next, Step, Terminated

\* The steps that neither create a lease nor list the leases.
Narrower ==
    /\ leaseFiles' \subseteq leaseFiles
    /\ \A p \in Proc : pc'[p] \in {"prune", "prune_remove"} =>
          pc[p] \in {"prune", "prune_remove"} /\ todo'[p] \subseteq todo[p]

\* Fewer leases are within the limits as well.
LEMMA FewerAdmissible ==
    ASSUME NEW leases, Admissible(leases), NEW fewer \in SUBSET leases
    PROVE  Admissible(fewer)
<1>1. IsFiniteSet(fewer) /\ Cardinality(fewer) <= Cardinality(leases)
  BY FS_Subset DEF Admissible
<1>2. ASSUME NEW p \in fewer
      PROVE  Cardinality({q \in fewer : Owner[q] = Owner[p]}) <= MaxQueuedPerOwner
  <2> DEFINE Less == {q \in fewer : Owner[q] = Owner[p]}
             More == {q \in leases : Owner[q] = Owner[p]}
  <2>1. IsFiniteSet(More)
    BY FS_Subset DEF Admissible
  <2>2. IsFiniteSet(Less) /\ Cardinality(Less) <= Cardinality(More)
    BY <2>1, FS_Subset
  <2>3. Cardinality(Less) \in Nat /\ Cardinality(More) \in Nat
    BY <2>1, <2>2, FS_CardinalityType
  <2>4. Cardinality(More) <= MaxQueuedPerOwner
    BY DEF Admissible
  <2>5. QED
    BY <2>2, <2>3, <2>4, LimitsAssumption
<1>3. Cardinality(fewer) \in Nat /\ Cardinality(leases) \in Nat
  BY <1>1, FS_CardinalityType DEF Admissible
<1>4. QED
  BY <1>1, <1>2, <1>3, LimitsAssumption DEF Admissible

\* A newcomer that enforce_admission lets pass.
LEMMA NewcomerAdmissible ==
    ASSUME Admissible(leaseFiles), NEW p \in Proc, ~(QueueFull \/ OwnerQueued(p))
    PROVE  Admissible(leaseFiles \union {p})
<1> DEFINE Of(leases, r) == {q \in leases : Owner[q] = Owner[r]}
<1>1. /\ IsFiniteSet(leaseFiles \union {p})
      /\ Cardinality(leaseFiles \union {p}) <= Cardinality(leaseFiles) + 1
      /\ Cardinality(leaseFiles \union {p}) \in Nat
      /\ Cardinality(leaseFiles) \in Nat
  BY FS_AddElement, FS_CardinalityType DEF Admissible
<1>2. Cardinality(leaseFiles \union {p}) <= MaxQueue
  BY <1>1, LimitsAssumption DEF QueueFull
<1>3. ASSUME NEW r \in leaseFiles \union {p}
      PROVE  Cardinality(Of(leaseFiles \union {p}, r)) <= MaxQueuedPerOwner
  <2>1. IsFiniteSet(Of(leaseFiles, r))
    BY FS_Subset DEF Admissible
  <2>2. CASE Owner[r] = Owner[p]
    <3>1. Of(leaseFiles \union {p}, r) = Of(leaseFiles, r) \union {p}
      BY <2>2
    <3>2. Of(leaseFiles, r) = {q \in leaseFiles : Owner[q] = Owner[p]}
      BY <2>2
    <3>3. ~(Cardinality(Of(leaseFiles, r)) >= MaxQueuedPerOwner)
      BY <3>2 DEF OwnerQueued
    <3> HIDE DEF Of
    <3>4. Cardinality(Of(leaseFiles, r)) \in Nat
      BY <2>1, FS_CardinalityType
    <3>5. Cardinality(Of(leaseFiles, r) \union {p})
                \in {Cardinality(Of(leaseFiles, r)), Cardinality(Of(leaseFiles, r)) + 1}
      BY <2>1, FS_AddElement
    <3>6. Cardinality(Of(leaseFiles, r) \union {p}) \in Nat
      BY <2>1, FS_AddElement, FS_CardinalityType
    <3>7. QED
      BY <3>1, <3>3, <3>4, <3>5, <3>6, LimitsAssumption
  <2>3. CASE Owner[r] # Owner[p]
    <3>1. Of(leaseFiles \union {p}, r) = Of(leaseFiles, r) /\ r \in leaseFiles
      BY <2>3
    <3>2. Cardinality(Of(leaseFiles, r)) <= MaxQueuedPerOwner
      BY <3>1 DEF Admissible
    <3>3. QED
      BY <3>1, <3>2
  <2>4. QED
    BY <2>2, <2>3
<1>4. QED
  BY <1>1, <1>2, <1>3 DEF Admissible

LEMMA NarrowerBounded ==
    ASSUME LeasesBounded, Narrower PROVE LeasesBounded'
<1>1. Admissible(leaseFiles')
  BY FewerAdmissible DEF LeasesBounded, Narrower
<1>2. ASSUME NEW p \in Proc, pc'[p] \in {"prune", "prune_remove"}
      PROVE  Admissible(leaseFiles' \union todo'[p])
  <2>1. Admissible(leaseFiles \union todo[p])
    BY <1>2 DEF LeasesBounded, Narrower
  <2>2. leaseFiles' \union todo'[p] \subseteq leaseFiles \union todo[p]
    BY <1>2 DEF Narrower
  <2>3. QED
    BY <2>1, <2>2, FewerAdmissible
<1>3. QED
  BY <1>1, <1>2 DEF LeasesBounded

LEMMA LeasesBoundedNext ==
    ASSUME QueueInv, [Next]_vars PROVE LeasesBounded'
<1>type. TypeOK /\ TypeOK' /\ PoolInv
  BY TypeOKNext DEF PoolInv, QueueInv
<1> USE <1>type
    DEF QueueInv, Narrower, TypeOK, CriticalSection, PoolInv, QueueLockOwner,
        Goto, Finish, NoProc, vars, queueVars, localVars, fileVars, adminVars,
        boundVars, jobVars, envVars
<1>1. ASSUME NEW p \in Proc, Start(p) PROVE Narrower
  BY <1>1 DEF Start
<1>2. ASSUME NEW p \in Proc, LockQueue(p) PROVE LeasesBounded'
  <2>1. leaseFiles' = leaseFiles /\ todo'[p] = leaseFiles
    BY <1>2 DEF LockQueue
  <2>2. \A r \in Proc : pc'[r] \in {"prune", "prune_remove"} => r = p
    BY <1>2, NoProcOutside DEF LockQueue
  <2>3. leaseFiles' \union todo'[p] = leaseFiles
    BY <2>1
  <2>4. QED
    BY <2>1, <2>2, <2>3 DEF LeasesBounded
<1>3. ASSUME NEW p \in Proc, PruneKeep(p) PROVE Narrower
  BY <1>3 DEF PruneKeep
<1>4. ASSUME NEW p \in Proc, PruneOpen(p) PROVE LeasesBounded'
  <2>1. pc[p] = "prune" /\ pc'[p] = "prune_remove" /\ todo' = todo
    BY <1>4 DEF PruneOpen
  <2>2. leaseFiles' \subseteq leaseFiles \union todo[p]
    BY <1>4 DEF PruneOpen
  <2>3. \A r \in Proc : pc'[r] \in {"prune", "prune_remove"} => r = p
    BY <1>4, NoProcOutside DEF PruneOpen
  <2>4. Admissible(leaseFiles \union todo[p])
    BY <2>1 DEF LeasesBounded
  <2>5. leaseFiles' \union todo'[p] \subseteq leaseFiles \union todo[p]
    BY <2>1, <2>2
  <2>6. Admissible(leaseFiles') /\ Admissible(leaseFiles' \union todo'[p])
    BY <2>2, <2>4, <2>5, FewerAdmissible
  <2>7. QED
    BY <2>3, <2>6 DEF LeasesBounded
<1>5. ASSUME NEW p \in Proc, PruneRemove(p) PROVE Narrower
  BY <1>5 DEF PruneRemove
<1>6. ASSUME NEW p \in Proc, PruneLost(p) PROVE Narrower
  BY <1>6 DEF PruneLost, Abort, HasLease
<1>7. ASSUME NEW p \in Proc, RefuseDraining(p) PROVE Narrower
  BY <1>7 DEF RefuseDraining, Abort, HasLease
<1>8. ASSUME NEW p \in Proc, Decide(p) PROVE Narrower
  BY <1>8 DEF Decide, MayTry
<1>9. ASSUME NEW p \in Proc, ReadActive(p) PROVE Narrower
  BY <1>9 DEF ReadActive
<1>10. ASSUME NEW p \in Proc, Quarantine(p) PROVE Narrower
  BY <1>10 DEF Quarantine, NextSlot
<1>11. ASSUME NEW p \in Proc, ClearStale(p) PROVE Narrower
  BY <1>11 DEF ClearStale
<1>12. ASSUME NEW p \in Proc, ClearLost(p) PROVE Narrower
  BY <1>12 DEF ClearLost, Abort, HasLease
<1>13. ASSUME NEW p \in Proc, TakeSlot(p) PROVE Narrower
  BY <1>13 DEF TakeSlot
<1>14. ASSUME NEW p \in Proc, SlotBusy(p) PROVE Narrower
  BY <1>14 DEF SlotBusy, NextSlot
<1>15. ASSUME NEW p \in Proc, SlotProbed(p) PROVE Narrower
  BY <1>15 DEF SlotProbed, NextSlot
<1>16. ASSUME NEW p \in Proc, MarkStarting(p) PROVE Narrower
  BY <1>16 DEF MarkStarting
<1>17. ASSUME NEW p \in Proc, MarkStartingFails(p) PROVE Narrower
  BY <1>17 DEF MarkStartingFails
<1>18. ASSUME NEW p \in Proc, KeepWaiting(p) PROVE Narrower
  BY <1>18 DEF KeepWaiting, HasLease
<1>19. ASSUME NEW p \in Proc, RefuseAdmission(p) PROVE Narrower
  BY <1>19 DEF RefuseAdmission, Abort, HasLease
<1>20. ASSUME NEW p \in Proc, Enqueue(p) PROVE LeasesBounded'
  <2>1. leaseFiles' = leaseFiles \union {p} /\ ~(QueueFull \/ OwnerQueued(p))
    BY <1>20 DEF Enqueue
  <2>2. \A r \in Proc : pc'[r] \notin {"prune", "prune_remove"}
    BY <1>20, NoProcOutside DEF Enqueue, Abort, HasLease
  <2>3. Admissible(leaseFiles')
    BY <2>1, NewcomerAdmissible DEF LeasesBounded
  <2>4. QED
    BY <2>2, <2>3 DEF LeasesBounded
<1>21. ASSUME NEW p \in Proc, EnqueueFails(p) PROVE LeasesBounded'
  <2>1. leaseFiles' = leaseFiles \union {p} /\ ~(QueueFull \/ OwnerQueued(p))
    BY <1>21 DEF EnqueueFails
  <2>2. \A r \in Proc : pc'[r] \notin {"prune", "prune_remove"}
    BY <1>21, NoProcOutside DEF EnqueueFails, Abort, HasLease
  <2>3. Admissible(leaseFiles')
    BY <2>1, NewcomerAdmissible DEF LeasesBounded
  <2>4. QED
    BY <2>2, <2>3 DEF LeasesBounded
<1>22. ASSUME NEW p \in Proc, Retry(p) PROVE Narrower
  BY <1>22 DEF Retry
<1>23. ASSUME NEW p \in Proc, TimeOut(p) PROVE Narrower
  BY <1>23 DEF TimeOut
<1>24. ASSUME NEW p \in Proc, UnlockLease(p) PROVE Narrower
  BY <1>24 DEF UnlockLease
<1>25. ASSUME NEW p \in Proc, RemoveLease(p) PROVE Narrower
  BY <1>25 DEF RemoveLease
<1>26. ASSUME NEW p \in Proc, Bind(p) PROVE Narrower
  BY <1>26 DEF Bind
<1>27. ASSUME NEW p \in Proc, BindFails(p) PROVE Narrower
  BY <1>27 DEF BindFails
<1>28. ASSUME NEW p \in Proc, Spawn(p) PROVE Narrower
  BY <1>28 DEF Spawn
<1>29. ASSUME NEW p \in Proc, SpawnFails(p) PROVE Narrower
  BY <1>29 DEF SpawnFails
<1>30. ASSUME NEW p \in Proc, MarkRunning(p) PROVE Narrower
  BY <1>30 DEF MarkRunning
<1>31. ASSUME NEW p \in Proc, SuperviseFails(p) PROVE Narrower
  BY <1>31 DEF SuperviseFails
<1>32. ASSUME NEW p \in Proc, ChildExit(p) PROVE Narrower
  BY <1>32 DEF ChildExit
<1>33. ASSUME NEW p \in Proc, Reap(p) PROVE Narrower
  BY <1>33 DEF Reap
<1>34. ASSUME NEW p \in Proc, RemoveActive(p) PROVE Narrower
  BY <1>34 DEF RemoveActive
<1>35. ASSUME NEW p \in Proc, UnlockSlot(p) PROVE Narrower
  BY <1>35 DEF UnlockSlot
<1>36. ASSUME NEW p \in Proc, Exit(p) PROVE Narrower
  BY <1>36 DEF Exit
<1>37. ASSUME NEW p \in Proc, Crash(p) PROVE Narrower
  BY <1>37 DEF Crash
<1>38. ASSUME NEW enabled \in BOOLEAN, SetDrain(enabled) PROVE Narrower
  BY <1>38 DEF SetDrain
<1>39. ASSUME NEW new \in 1..2, SetCapacity(new) PROVE Narrower
  BY <1>39 DEF SetCapacity
<1>40. ASSUME UNCHANGED vars PROVE Narrower
  BY <1>40
<1> HIDE <1>type
    DEF QueueInv, Narrower, TypeOK, CriticalSection, PoolInv, QueueLockOwner,
        Goto, Finish, NoProc, vars, queueVars, localVars, fileVars, adminVars,
        boundVars, jobVars, envVars
<1>41. Narrower => LeasesBounded'
  BY NarrowerBounded DEF QueueInv
<1>42. QED
  BY <1>1, <1>2, <1>3, <1>4, <1>5, <1>6, <1>7, <1>8, <1>9, <1>10, <1>11,
     <1>12, <1>13, <1>14, <1>15, <1>16, <1>17, <1>18, <1>19, <1>20,
     <1>21, <1>22, <1>23, <1>24, <1>25, <1>26, <1>27, <1>28, <1>29,
     <1>30, <1>31, <1>32, <1>33, <1>34, <1>35, <1>36, <1>37, <1>38,
     <1>39, <1>40, <1>41
  DEF Next, Step, Terminated

THEOREM QueueInvariant == Spec => []QueueInv
<1>1. Init => QueueInv
  <2>1. Init => TicketsDiffer /\ WaiterKeepsPlace /\ PruneIsSafe /\ DecisionHolds
    BY DEF Init, TicketsDiffer, WaiterKeepsPlace, PruneIsSafe, DecisionHolds
  <2>2. Init => LeasesBounded
    <3>1. Admissible({})
      BY FS_EmptySet, LimitsAssumption DEF Admissible
    <3>2. QED
      BY <3>1 DEF Init, LeasesBounded
  <2>3. QED
    BY <2>1, <2>2, PoolInvInit DEF QueueInv
<1>2. QueueInv /\ [Next]_vars => QueueInv'
  BY PoolInvNext, TicketsDifferNext, WaiterKeepsPlaceNext, PruneIsSafeNext,
     DecisionHoldsNext, LeasesBoundedNext
  DEF QueueInv
<1>3. QED
  BY <1>1, <1>2, PTL DEF Spec

(***************************************************************************)
(* Pruning never removes the lease of a process that waits on it.          *)
(***************************************************************************)
THEOREM WaiterKeepsPlaceHolds == Spec => []WaiterKeepsPlace
<1>1. QueueInv => WaiterKeepsPlace
  BY DEF QueueInv
<1>2. QED
  BY <1>1, QueueInvariant, PTL

(***************************************************************************)
(* The queue never exceeds max_queue, nor an owner max_queued_per_owner.   *)
(***************************************************************************)
THEOREM QueueBoundedHolds == Spec => []QueueBounded
<1>1. QueueInv => QueueBounded
  BY DEF QueueInv, LeasesBounded, Admissible, QueueBounded
<1>2. QED
  BY <1>1, QueueInvariant, PTL

---------------------------------------------------------------------------
(* Drain                                                                   *)

LEMMA DrainStep ==
    ASSUME QueueInv, [Next]_vars
    PROVE  \A p \in Proc : drain => /\ pc'[p] = "granted" => pc[p] = "granted"
                                    /\ leaseLocked' \subseteq leaseLocked
<1> DEFINE Admits(p) == drain => /\ pc'[p] = "granted" => pc[p] = "granted"
                                 /\ leaseLocked' \subseteq leaseLocked
<1> SUFFICES ASSUME NEW q \in Proc PROVE Admits(q)
  OBVIOUS
<1>type. TypeOK
  BY DEF PoolInv, QueueInv
<1> USE <1>type
    DEF QueueInv, DecisionHolds, TypeOK, Goto, vars, queueVars, jobVars, NextSlot, Abort
<1>1. ASSUME NEW p \in Proc, Start(p) PROVE Admits(q)
  BY <1>1 DEF Start
<1>2. ASSUME NEW p \in Proc, LockQueue(p) PROVE Admits(q)
  BY <1>2 DEF LockQueue
<1>3. ASSUME NEW p \in Proc, PruneKeep(p) PROVE Admits(q)
  BY <1>3 DEF PruneKeep
<1>4. ASSUME NEW p \in Proc, PruneOpen(p) PROVE Admits(q)
  BY <1>4 DEF PruneOpen
<1>5. ASSUME NEW p \in Proc, PruneRemove(p) PROVE Admits(q)
  BY <1>5 DEF PruneRemove
<1>6. ASSUME NEW p \in Proc, PruneLost(p) PROVE Admits(q)
  BY <1>6 DEF PruneLost, Abort, HasLease
<1>7. ASSUME NEW p \in Proc, RefuseDraining(p) PROVE Admits(q)
  BY <1>7 DEF RefuseDraining, Abort, HasLease
<1>8. ASSUME NEW p \in Proc, Decide(p) PROVE Admits(q)
  BY <1>8 DEF Decide, MayTry
<1>9. ASSUME NEW p \in Proc, ReadActive(p) PROVE Admits(q)
  BY <1>9 DEF ReadActive
<1>10. ASSUME NEW p \in Proc, Quarantine(p) PROVE Admits(q)
  BY <1>10 DEF Quarantine, NextSlot
<1>11. ASSUME NEW p \in Proc, ClearStale(p) PROVE Admits(q)
  BY <1>11 DEF ClearStale
<1>12. ASSUME NEW p \in Proc, ClearLost(p) PROVE Admits(q)
  BY <1>12 DEF ClearLost, Abort, HasLease
<1>13. ASSUME NEW p \in Proc, TakeSlot(p) PROVE Admits(q)
  BY <1>13 DEF TakeSlot
<1>14. ASSUME NEW p \in Proc, SlotBusy(p) PROVE Admits(q)
  BY <1>14 DEF SlotBusy, NextSlot
<1>15. ASSUME NEW p \in Proc, SlotProbed(p) PROVE Admits(q)
  BY <1>15 DEF SlotProbed, NextSlot
<1>16. ASSUME NEW p \in Proc, MarkStarting(p) PROVE Admits(q)
  BY <1>16 DEF MarkStarting
<1>17. ASSUME NEW p \in Proc, MarkStartingFails(p) PROVE Admits(q)
  BY <1>17 DEF MarkStartingFails
<1>18. ASSUME NEW p \in Proc, KeepWaiting(p) PROVE Admits(q)
  BY <1>18 DEF KeepWaiting, HasLease
<1>19. ASSUME NEW p \in Proc, RefuseAdmission(p) PROVE Admits(q)
  BY <1>19 DEF RefuseAdmission, Abort, HasLease
<1>20. ASSUME NEW p \in Proc, Enqueue(p) PROVE Admits(q)
  BY <1>20 DEF Enqueue
<1>21. ASSUME NEW p \in Proc, EnqueueFails(p) PROVE Admits(q)
  BY <1>21 DEF EnqueueFails, Abort, HasLease
<1>22. ASSUME NEW p \in Proc, Retry(p) PROVE Admits(q)
  BY <1>22 DEF Retry
<1>23. ASSUME NEW p \in Proc, TimeOut(p) PROVE Admits(q)
  BY <1>23 DEF TimeOut
<1>24. ASSUME NEW p \in Proc, UnlockLease(p) PROVE Admits(q)
  BY <1>24 DEF UnlockLease
<1>25. ASSUME NEW p \in Proc, RemoveLease(p) PROVE Admits(q)
  BY <1>25 DEF RemoveLease
<1>26. ASSUME NEW p \in Proc, Bind(p) PROVE Admits(q)
  BY <1>26 DEF Bind
<1>27. ASSUME NEW p \in Proc, BindFails(p) PROVE Admits(q)
  BY <1>27 DEF BindFails
<1>28. ASSUME NEW p \in Proc, Spawn(p) PROVE Admits(q)
  BY <1>28 DEF Spawn
<1>29. ASSUME NEW p \in Proc, SpawnFails(p) PROVE Admits(q)
  BY <1>29 DEF SpawnFails
<1>30. ASSUME NEW p \in Proc, MarkRunning(p) PROVE Admits(q)
  BY <1>30 DEF MarkRunning
<1>31. ASSUME NEW p \in Proc, SuperviseFails(p) PROVE Admits(q)
  BY <1>31 DEF SuperviseFails
<1>32. ASSUME NEW p \in Proc, ChildExit(p) PROVE Admits(q)
  BY <1>32 DEF ChildExit
<1>33. ASSUME NEW p \in Proc, Reap(p) PROVE Admits(q)
  BY <1>33 DEF Reap
<1>34. ASSUME NEW p \in Proc, RemoveActive(p) PROVE Admits(q)
  BY <1>34 DEF RemoveActive
<1>35. ASSUME NEW p \in Proc, UnlockSlot(p) PROVE Admits(q)
  BY <1>35 DEF UnlockSlot
<1>36. ASSUME NEW p \in Proc, Exit(p) PROVE Admits(q)
  BY <1>36 DEF Exit
<1>37. ASSUME NEW p \in Proc, Crash(p) PROVE Admits(q)
  BY <1>37 DEF Crash
<1>38. ASSUME NEW enabled \in BOOLEAN, SetDrain(enabled) PROVE Admits(q)
  BY <1>38 DEF SetDrain
<1>39. ASSUME NEW new \in 1..2, SetCapacity(new) PROVE Admits(q)
  BY <1>39 DEF SetCapacity
<1>40. CASE UNCHANGED vars
  BY <1>40
<1> HIDE <1>type DEF QueueInv, DecisionHolds, TypeOK, Goto, vars, queueVars,
    NextSlot, Abort, Admits
<1>41. QED
  BY <1>1, <1>2, <1>3, <1>4, <1>5, <1>6, <1>7, <1>8, <1>9, <1>10, <1>11,
     <1>12, <1>13, <1>14, <1>15, <1>16, <1>17, <1>18, <1>19, <1>20,
     <1>21, <1>22, <1>23, <1>24, <1>25, <1>26, <1>27, <1>28, <1>29,
     <1>30, <1>31, <1>32, <1>33, <1>34, <1>35, <1>36, <1>37, <1>38,
     <1>39, <1>40
  DEF Next, Step, Terminated

(***************************************************************************)
(* With drain.flag set, no newcomer is granted a slot and nobody joins the *)
(* queue: the decision and the grant are one critical section.             *)
(***************************************************************************)
THEOREM DrainStopsAdmissionHolds == Spec => DrainStopsAdmission
<1>1. QueueInv /\ [Next]_vars =>
        [drain =>
          \A p \in Proc :
              /\ pc'[p] = "granted" /\ pc[p] # "granted" => p \in leaseLocked
              /\ p \in leaseLocked' => p \in leaseLocked]_vars
  BY DrainStep
<1>2. QED
  BY <1>1, QueueInvariant, PTL DEF Spec, DrainStopsAdmission

---------------------------------------------------------------------------
(* The refinement                                                          *)

\* The abstract queue moves only with the locks of leases and of slots.
LEMMA PoolStutters ==
    ASSUME UNCHANGED <<leaseLocked, slotLock>>,
           \A q \in leaseLocked : ticket'[q] = ticket[q]
    PROVE  UNCHANGED Pool!vars
<1>1. Waiting' = Waiting
  BY DEF Waiting
<1>2. Ahead' = Ahead
  BY <1>1 DEF Ahead, Waiting
<1>3. QED
  BY <1>1, <1>2 DEF Pool!vars

\* A process that is taken out of the queue is taken out of the order.
LEMMA PoolDeparts ==
    ASSUME NEW p \in Proc, leaseLocked \in SUBSET Proc, ticket' = ticket,
           Waiting' = Waiting \ {p}
    PROVE  Pool!Departed(p)
BY DEF Pool!Departed, Ahead, Waiting

LEMMA EnqueueJoins ==
    ASSUME QueueInv, NEW p \in Proc, Enqueue(p)
    PROVE  Pool!Join(p)
<1>1. p \notin leaseLocked /\ p \notin {slotLock[s] : s \in Slots}
  BY DEF QueueInv, PoolInv, SlotLockOwner, HoldsPermit, Enqueue, HasLease
<1>2. slotLock' = slotLock /\ leaseLocked' = leaseLocked \union {p}
  BY DEF Enqueue, jobVars
<1>3. Waiting' = Waiting \union {p}
  BY <1>1, <1>2 DEF Waiting
<1>4. leaseLocked \in SUBSET Proc /\ ticket \in [Proc -> Nat] /\ clock \in Nat
  BY DEF QueueInv, PoolInv, TypeOK
<1>5. /\ ticket' = [ticket EXCEPT ![p] = clock + 1]
      /\ \A q \in Proc : ticket[q] <= clock
  BY DEF Enqueue, QueueInv, TicketsDiffer
<1>6. Ahead' = [Ahead EXCEPT ![p] = Waiting]
  <2>1. Waiting \subseteq Proc
    BY <1>4 DEF Waiting
  <2>2. /\ ticket'[p] = clock + 1 /\ p \notin Waiting
        /\ \A q \in Waiting : ticket'[q] = ticket[q] /\ ticket'[q] < ticket'[p]
    BY <1>1, <1>4, <1>5, <2>1 DEF Waiting
  <2>3. Ahead'[p] = Waiting
    <3>1. Ahead'[p] = {q \in Waiting \union {p} : ticket'[q] < ticket'[p]}
      BY <1>3 DEF Ahead
    <3>2. ~(ticket'[p] < ticket'[p])
      BY <1>4, <2>2
    <3>3. QED
      BY <2>2, <3>1, <3>2
  <2>4. ASSUME NEW q \in Proc, q # p PROVE Ahead'[q] = Ahead[q]
    <3>1. CASE q \in Waiting
      <4>1. Ahead'[q] = {r \in Waiting \union {p} : ticket'[r] < ticket'[q]}
        BY <1>3, <3>1 DEF Ahead
      <4>2. Ahead[q] = {r \in Waiting : ticket[r] < ticket[q]}
        BY <3>1 DEF Ahead
      <4>3. ~(ticket'[p] < ticket'[q])
        BY <1>4, <2>1, <2>2, <3>1
      <4>4. QED
        BY <2>2, <3>1, <4>1, <4>2, <4>3
    <3>2. CASE q \notin Waiting
      BY <1>3, <2>4, <3>2 DEF Ahead
    <3>3. QED
      BY <3>1, <3>2
  <2>5. QED
    BY <2>3, <2>4 DEF Ahead
<1>7. QED
  BY <1>1, <1>2, <1>3, <1>6 DEF Pool!Join, Pool!Inside, Waiting

LEMMA TakeSlotEnters ==
    ASSUME QueueInv, NEW p \in Proc, TakeSlot(p)
    PROVE  Pool!Enter(p, Candidate(p))
<1>1. TypeOK /\ Candidate(p) \in Slots
  BY CandidateInRange DEF QueueInv, PoolInv
<1>2. p \notin {slotLock[s] : s \in Slots}
  BY DEF QueueInv, PoolInv, SlotLockOwner, HoldsPermit, TakeSlot
<1>3. /\ slotLock[Candidate(p)] = NoProc
      /\ slotLock' = [slotLock EXCEPT ![Candidate(p)] = p]
      /\ leaseLocked' = leaseLocked /\ ticket' = ticket
  BY DEF TakeSlot, queueVars
<1>4. Waiting' = Waiting \ {p}
  <2>1. {slotLock'[s] : s \in Slots} \ {NoProc}
          = ({slotLock[s] : s \in Slots} \ {NoProc}) \union {p}
    BY <1>1, <1>3, NoProcOutside DEF TypeOK
  <2>2. NoProc \notin leaseLocked
    BY <1>1, NoProcOutside DEF TypeOK
  <2>3. QED
    BY <2>1, <2>2, <1>3 DEF Waiting
<1>5. IF p \in Waiting THEN Ahead[p] = {} ELSE Waiting = {}
  <2>1. MayTry(p) /\ leaseLocked \subseteq leaseFiles
    BY DEF QueueInv, DecisionHolds, WaiterKeepsPlace, TakeSlot
  <2>2. CASE p \in leaseLocked
    <3>1. \A q \in Waiting : ~(ticket[q] < ticket[p])
      BY <1>1, <2>1, <2>2 DEF MayTry, HasLease, Oldest, Waiting, TypeOK
    <3>2. QED
      BY <1>2, <2>2, <3>1 DEF Ahead, Waiting
  <2>3. CASE p \notin leaseLocked
    BY <2>1, <2>3 DEF MayTry, HasLease, Waiting
  <2>4. QED
    BY <2>2, <2>3
<1>6. Pool!Departed(p)
  BY <1>1, <1>3, <1>4, PoolDeparts DEF TypeOK
<1>7. QED
  BY <1>1, <1>2, <1>3, <1>5, <1>6 DEF Pool!Enter, Pool!Inside

\* Unlocking one's lease while one holds no slot is giving up.
LEMMA UnlockLeaseGivesUp ==
    ASSUME QueueInv, NEW p \in Proc, leaseLocked' = leaseLocked \ {p},
           p \in leaseLocked, slotLock' = slotLock, ticket' = ticket,
           pc[p] \notin HoldsPermit
    PROVE  Pool!GiveUp(p)
<1>1. TypeOK /\ p \notin {slotLock[s] : s \in Slots}
  BY DEF QueueInv, PoolInv, SlotLockOwner
<1>2. p \in Waiting /\ Waiting' = Waiting \ {p}
  BY <1>1 DEF Waiting
<1>3. QED
  BY <1>1, <1>2, PoolDeparts DEF Pool!GiveUp, TypeOK

\* Giving back the lock of the slot leaves it, and nobody begins to wait.
LEMMA UnlockSlotLeaves ==
    ASSUME QueueInv, NEW p \in Proc, pc[p] \in HoldsPermit,
           slotLock' = [slotLock EXCEPT ![slot[p]] = NoProc],
           leaseLocked' = leaseLocked \ {p}, ticket' = ticket
    PROVE  Pool!Leave(p, slot[p]) /\ slot[p] \in Slots
<1>1. TypeOK /\ slot[p] \in Slots /\ slotLock[slot[p]] = p
  BY DEF QueueInv, PoolInv, SlotLockOwner
<1>2. \A s \in Slots : slotLock[s] = p => s = slot[p]
  BY DEF QueueInv, PoolInv, SlotLockOwner
<1>3. {slotLock'[s] : s \in Slots} \ {NoProc}
        = ({slotLock[s] : s \in Slots} \ {NoProc}) \ {p}
  BY <1>1, <1>2 DEF TypeOK
<1>4. Waiting' = Waiting
  <2>1. NoProc \notin leaseLocked
    BY <1>1, NoProcOutside DEF TypeOK
  <2>2. p \in {slotLock[s] : s \in Slots}
    BY <1>1
  <2>3. QED
    BY <1>3, <2>1, <2>2 DEF Waiting
<1>5. Ahead' = Ahead
  BY <1>4 DEF Ahead
<1>6. QED
  BY <1>1, <1>4, <1>5 DEF Pool!Leave

LEMMA CrashRefines ==
    ASSUME TraceInv, QueueInv, NEW p \in Proc, Crash(p)
    PROVE  [Pool!Next]_(Pool!vars)
<1>1. TypeOK /\ leaseLocked' = leaseLocked \ {p} /\ ticket' = ticket
  BY DEF QueueInv, PoolInv, Crash
<1>2. slotLock' = [s \in Slots |-> IF slotLock[s] = p THEN NoProc ELSE slotLock[s]]
  BY DEF Crash
<1>3. CASE pc[p] \in HoldsPermit
  <2>1. /\ slot[p] \in Slots /\ slotLock[slot[p]] = p
        /\ \A s \in Slots : slotLock[s] = p => s = slot[p]
    BY <1>3 DEF QueueInv, PoolInv, SlotLockOwner
  <2>2. slotLock' = [slotLock EXCEPT ![slot[p]] = NoProc]
    BY <1>1, <1>2, <2>1 DEF TypeOK
  <2>3. QED
    BY <1>1, <1>3, <2>2, UnlockSlotLeaves DEF Pool!Next
<1>4. CASE pc[p] \notin HoldsPermit
  <2>1. \A s \in Slots : slotLock[s] # p
    BY <1>4 DEF QueueInv, PoolInv, SlotLockOwner
  <2>2. slotLock' = slotLock
    BY <1>1, <1>2, <2>1 DEF TypeOK
  <2>3. CASE p \in leaseLocked
    BY <1>1, <1>4, <2>2, <2>3, UnlockLeaseGivesUp DEF Pool!Next
  <2>4. CASE p \notin leaseLocked
    <3>1. leaseLocked' = leaseLocked
      BY <1>1, <2>4
    <3>2. QED
      BY <1>1, <2>2, <3>1, PoolStutters
  <2>5. QED
    BY <2>3, <2>4
<1>5. QED
  BY <1>3, <1>4

LEMMA StepRefines ==
    ASSUME TraceInv, QueueInv, [Next]_vars
    PROVE  [Pool!Next]_(Pool!vars)
<1>type. TypeOK
  BY DEF QueueInv, PoolInv
<1>1. ASSUME NEW p \in Proc, Start(p) PROVE [Pool!Next]_(Pool!vars)
  BY <1>1, PoolStutters DEF Start, queueVars, jobVars
<1>2. ASSUME NEW p \in Proc, LockQueue(p) PROVE [Pool!Next]_(Pool!vars)
  BY <1>2, PoolStutters DEF LockQueue, queueVars, jobVars
<1>3. ASSUME NEW p \in Proc, PruneKeep(p) PROVE [Pool!Next]_(Pool!vars)
  BY <1>3, PoolStutters DEF PruneKeep, queueVars, jobVars
<1>4. ASSUME NEW p \in Proc, PruneOpen(p) PROVE [Pool!Next]_(Pool!vars)
  BY <1>4, PoolStutters DEF PruneOpen, queueVars, jobVars
<1>5. ASSUME NEW p \in Proc, PruneRemove(p) PROVE [Pool!Next]_(Pool!vars)
  BY <1>5, PoolStutters DEF PruneRemove, queueVars, jobVars
<1>6. ASSUME NEW p \in Proc, PruneLost(p) PROVE [Pool!Next]_(Pool!vars)
  BY <1>6, PoolStutters DEF PruneLost, Abort, HasLease, queueVars, jobVars
<1>7. ASSUME NEW p \in Proc, RefuseDraining(p) PROVE [Pool!Next]_(Pool!vars)
  BY <1>7, PoolStutters DEF RefuseDraining, Abort, HasLease, queueVars, jobVars
<1>8. ASSUME NEW p \in Proc, Decide(p) PROVE [Pool!Next]_(Pool!vars)
  BY <1>8, PoolStutters DEF Decide, MayTry, queueVars, jobVars
<1>9. ASSUME NEW p \in Proc, ReadActive(p) PROVE [Pool!Next]_(Pool!vars)
  BY <1>9, PoolStutters DEF ReadActive, queueVars, jobVars
<1>10. ASSUME NEW p \in Proc, Quarantine(p) PROVE [Pool!Next]_(Pool!vars)
  BY <1>10, PoolStutters DEF Quarantine, NextSlot, queueVars, jobVars
<1>11. ASSUME NEW p \in Proc, ClearStale(p) PROVE [Pool!Next]_(Pool!vars)
  BY <1>11, PoolStutters DEF ClearStale, queueVars, jobVars
<1>12. ASSUME NEW p \in Proc, ClearLost(p) PROVE [Pool!Next]_(Pool!vars)
  BY <1>12, PoolStutters DEF ClearLost, Abort, HasLease, queueVars, jobVars
<1>13. ASSUME NEW p \in Proc, TakeSlot(p) PROVE [Pool!Next]_(Pool!vars)
  <2>1. Candidate(p) \in Slots
    BY CandidateInRange, <1>type
  <2>2. QED
    BY <1>13, <2>1, TakeSlotEnters DEF Pool!Next
<1>14. ASSUME NEW p \in Proc, SlotBusy(p) PROVE [Pool!Next]_(Pool!vars)
  BY <1>14, PoolStutters DEF SlotBusy, NextSlot, queueVars, jobVars
<1>15. ASSUME NEW p \in Proc, SlotProbed(p) PROVE [Pool!Next]_(Pool!vars)
  BY <1>15, PoolStutters DEF SlotProbed, NextSlot, queueVars, jobVars
<1>16. ASSUME NEW p \in Proc, MarkStarting(p) PROVE [Pool!Next]_(Pool!vars)
  <2>1. /\ leaseLocked' = leaseLocked \ {p} /\ slotLock' = slotLock
        /\ ticket' = ticket /\ p \in {slotLock[s] : s \in Slots}
    BY <1>16 DEF MarkStarting, jobVars, QueueInv, PoolInv, SlotLockOwner, HoldsPermit
  <2>2. Waiting' = Waiting
    BY <2>1 DEF Waiting
  <2>3. Ahead' = Ahead
    BY <2>1, <2>2 DEF Ahead
  <2>4. QED
    BY <2>1, <2>2, <2>3 DEF Pool!vars
<1>17. ASSUME NEW p \in Proc, MarkStartingFails(p) PROVE [Pool!Next]_(Pool!vars)
  <2>1. /\ leaseLocked' = leaseLocked \ {p} /\ ticket' = ticket
        /\ slotLock' = [slotLock EXCEPT ![slot[p]] = NoProc]
        /\ pc[p] \in HoldsPermit
    BY <1>17 DEF MarkStartingFails, HoldsPermit
  <2>2. QED
    BY <2>1, UnlockSlotLeaves DEF Pool!Next
<1>18. ASSUME NEW p \in Proc, KeepWaiting(p) PROVE [Pool!Next]_(Pool!vars)
  BY <1>18, PoolStutters DEF KeepWaiting, HasLease, queueVars, jobVars
<1>19. ASSUME NEW p \in Proc, RefuseAdmission(p) PROVE [Pool!Next]_(Pool!vars)
  BY <1>19, PoolStutters DEF RefuseAdmission, Abort, HasLease, queueVars, jobVars
<1>20. ASSUME NEW p \in Proc, Enqueue(p) PROVE [Pool!Next]_(Pool!vars)
  BY <1>20, EnqueueJoins DEF Pool!Next
<1>21. ASSUME NEW p \in Proc, EnqueueFails(p) PROVE [Pool!Next]_(Pool!vars)
  <2>1. UNCHANGED <<leaseLocked, slotLock>> /\ p \notin leaseLocked
    BY <1>21 DEF EnqueueFails, HasLease, jobVars
  <2>2. \A q \in leaseLocked : ticket'[q] = ticket[q]
    BY <1>21, <1>type, <2>1 DEF EnqueueFails, TypeOK
  <2>3. QED
    BY <2>1, <2>2, PoolStutters
<1>22. ASSUME NEW p \in Proc, Retry(p) PROVE [Pool!Next]_(Pool!vars)
  BY <1>22, PoolStutters DEF Retry, queueVars, jobVars
<1>23. ASSUME NEW p \in Proc, TimeOut(p) PROVE [Pool!Next]_(Pool!vars)
  BY <1>23, PoolStutters DEF TimeOut, queueVars, jobVars
<1>24. ASSUME NEW p \in Proc, UnlockLease(p) PROVE [Pool!Next]_(Pool!vars)
  <2>1. /\ leaseLocked' = leaseLocked \ {p} /\ slotLock' = slotLock
        /\ ticket' = ticket /\ pc[p] \notin HoldsPermit
    BY <1>24 DEF UnlockLease, HoldsPermit, jobVars
  <2>2. CASE p \in leaseLocked
    BY <2>1, <2>2, UnlockLeaseGivesUp DEF Pool!Next
  <2>3. CASE p \notin leaseLocked
    <3>1. leaseLocked' = leaseLocked
      BY <2>1, <2>3
    <3>2. QED
      BY <2>1, <3>1, PoolStutters
  <2>4. QED
    BY <2>2, <2>3
<1>25. ASSUME NEW p \in Proc, RemoveLease(p) PROVE [Pool!Next]_(Pool!vars)
  BY <1>25, PoolStutters DEF RemoveLease, queueVars, jobVars
<1>26. ASSUME NEW p \in Proc, Bind(p) PROVE [Pool!Next]_(Pool!vars)
  BY <1>26, PoolStutters DEF Bind, queueVars, jobVars
<1>27. ASSUME NEW p \in Proc, BindFails(p) PROVE [Pool!Next]_(Pool!vars)
  BY <1>27, PoolStutters DEF BindFails, queueVars, jobVars
<1>28. ASSUME NEW p \in Proc, Spawn(p) PROVE [Pool!Next]_(Pool!vars)
  BY <1>28, PoolStutters DEF Spawn, queueVars, jobVars
<1>29. ASSUME NEW p \in Proc, SpawnFails(p) PROVE [Pool!Next]_(Pool!vars)
  BY <1>29, PoolStutters DEF SpawnFails, queueVars, jobVars
<1>30. ASSUME NEW p \in Proc, MarkRunning(p) PROVE [Pool!Next]_(Pool!vars)
  BY <1>30, PoolStutters DEF MarkRunning, queueVars, jobVars
<1>31. ASSUME NEW p \in Proc, SuperviseFails(p) PROVE [Pool!Next]_(Pool!vars)
  BY <1>31, PoolStutters DEF SuperviseFails, queueVars, jobVars
<1>32. ASSUME NEW p \in Proc, ChildExit(p) PROVE [Pool!Next]_(Pool!vars)
  BY <1>32, PoolStutters DEF ChildExit, queueVars, jobVars
<1>33. ASSUME NEW p \in Proc, Reap(p) PROVE [Pool!Next]_(Pool!vars)
  BY <1>33, PoolStutters DEF Reap, queueVars, jobVars
<1>34. ASSUME NEW p \in Proc, RemoveActive(p) PROVE [Pool!Next]_(Pool!vars)
  BY <1>34, PoolStutters DEF RemoveActive, queueVars, jobVars
<1>35. ASSUME NEW p \in Proc, UnlockSlot(p) PROVE [Pool!Next]_(Pool!vars)
  <2>1. /\ leaseLocked' = leaseLocked /\ ticket' = ticket
        /\ slotLock' = [slotLock EXCEPT ![slot[p]] = NoProc]
        /\ pc[p] \in HoldsPermit
    BY <1>35 DEF UnlockSlot, HoldsPermit, queueVars
  <2>2. p \notin leaseLocked
    BY <1>35 DEF UnlockSlot, TraceInv, JobFiles, CriticalSection
  <2>3. QED
    BY <2>1, <2>2, UnlockSlotLeaves DEF Pool!Next
<1>36. ASSUME NEW p \in Proc, Exit(p) PROVE [Pool!Next]_(Pool!vars)
  BY <1>36, PoolStutters DEF Exit, queueVars, jobVars
<1>37. ASSUME NEW p \in Proc, Crash(p) PROVE [Pool!Next]_(Pool!vars)
  BY <1>37, CrashRefines
<1>38. ASSUME NEW enabled \in BOOLEAN, SetDrain(enabled) PROVE [Pool!Next]_(Pool!vars)
  BY <1>38, PoolStutters DEF SetDrain, queueVars, jobVars
<1>39. ASSUME NEW new \in 1..2, SetCapacity(new) PROVE [Pool!Next]_(Pool!vars)
  BY <1>39, PoolStutters DEF SetCapacity, queueVars, jobVars
<1>40. CASE UNCHANGED vars
  BY <1>40, PoolStutters DEF vars, queueVars, jobVars
<1>41. QED
  BY <1>1, <1>2, <1>3, <1>4, <1>5, <1>6, <1>7, <1>8, <1>9, <1>10, <1>11,
     <1>12, <1>13, <1>14, <1>15, <1>16, <1>17, <1>18, <1>19, <1>20,
     <1>21, <1>22, <1>23, <1>24, <1>25, <1>26, <1>27, <1>28, <1>29,
     <1>30, <1>31, <1>32, <1>33, <1>34, <1>35, <1>36, <1>37, <1>38,
     <1>39, <1>40
  DEF Next, Step, Terminated

(***************************************************************************)
(* The files and locks of the runtime directory implement a fair queue in  *)
(* front of the slots: no process enters before a live waiter that came    *)
(* earlier, for any number of processes, crashes and timeouts.             *)
(***************************************************************************)
THEOREM SchedulerImplementsFifoPool == Spec => ImplementsFifoPool
<1>1. Init => Pool!Init
  BY DEF Init, Pool!Init, Waiting, Ahead
<1>2. TraceInv /\ QueueInv /\ [Next]_vars => [Pool!Next]_(Pool!vars)
  BY StepRefines
<1>3. TraceInv /\ QueueInv /\ [Next]_vars =>
          [UNCHANGED Pool!vars \/ Pool!Next]_vars
  BY <1>2
<1>4. QED
  BY <1>1, <1>3, TraceInvariant, QueueInvariant, PTL
  DEF Spec, ImplementsFifoPool

---------------------------------------------------------------------------
(* The life of each job                                                    *)

\* Whoever is still to be started or has a permit has removed no socket.
LEMMA StaleJobIsOver ==
    ASSUME TraceInv, NEW p \in Proc, pc[p] = "check_active",
           ~ProcessAlive(seen[p])
    PROVE  /\ seen[p].supervisor \in Proc \ {p}
           /\ pc[seen[p].supervisor] \in {"idle", "done"}
           /\ pc[seen[p].supervisor] = "idle"
                 => seen[p].supervisor \notin control
<1>1. seen[p].supervisor \in Proc /\ SupervisorAlive(p)
  BY MetadataFacts DEF TraceInv, PoolInv, TypeOK, ScanIsStable, SupervisorAlive
<1>2. pc[seen[p].supervisor] \in {"idle", "done"}
  BY DEF ProcessAlive, SupervisorAlive
<1>3. pc[seen[p].supervisor] = "idle" => seen[p].supervisor \notin control
  BY <1>1 DEF TraceInv, JobFiles
<1>4. QED
  BY <1>1, <1>2, <1>3 DEF SupervisorAlive

LEMMA StepOfJob ==
    ASSUME TraceInv, [Next]_vars, NEW q \in Proc
    PROVE  [Supervision(q)!Next]_(Supervision(q)!vars)
<1>type. TypeOK /\ ChildPlace
  BY DEF TraceInv, PoolInv
<1> USE <1>type DEF TypeOK, Stage, Goto, Finish, Supervision!vars
<1>1. ASSUME NEW p \in Proc, Start(p)
       PROVE  [Supervision(q)!Next]_(Supervision(q)!vars)
  BY <1>1 DEF Start, queueVars, localVars, jobVars, envVars, fileVars
<1>2. ASSUME NEW p \in Proc, LockQueue(p)
       PROVE  [Supervision(q)!Next]_(Supervision(q)!vars)
  BY <1>2 DEF LockQueue, queueVars, jobVars, envVars, fileVars
<1>3. ASSUME NEW p \in Proc, PruneKeep(p)
       PROVE  [Supervision(q)!Next]_(Supervision(q)!vars)
  BY <1>3 DEF PruneKeep, queueVars, jobVars, envVars, fileVars
<1>4. ASSUME NEW p \in Proc, PruneOpen(p)
       PROVE  [Supervision(q)!Next]_(Supervision(q)!vars)
  BY <1>4 DEF PruneOpen, localVars, jobVars, envVars, fileVars
<1>5. ASSUME NEW p \in Proc, PruneRemove(p)
       PROVE  [Supervision(q)!Next]_(Supervision(q)!vars)
  BY <1>5 DEF PruneRemove, jobVars, envVars, fileVars
<1>6. ASSUME NEW p \in Proc, PruneLost(p)
       PROVE  [Supervision(q)!Next]_(Supervision(q)!vars)
  BY <1>6 DEF PruneLost, Abort, HasLease, queueVars, jobVars, envVars,
     fileVars, Supervision!Next, Supervision!Killed, ChildPlace
<1>7. ASSUME NEW p \in Proc, RefuseDraining(p)
       PROVE  [Supervision(q)!Next]_(Supervision(q)!vars)
  BY <1>7 DEF RefuseDraining, Abort, HasLease, queueVars, jobVars, envVars,
     fileVars, Supervision!Next, Supervision!Killed, ChildPlace
<1>8. ASSUME NEW p \in Proc, Decide(p)
       PROVE  [Supervision(q)!Next]_(Supervision(q)!vars)
  BY <1>8 DEF Decide, MayTry, queueVars, localVars, jobVars, envVars,
     fileVars
<1>9. ASSUME NEW p \in Proc, ReadActive(p)
       PROVE  [Supervision(q)!Next]_(Supervision(q)!vars)
  BY <1>9 DEF ReadActive, queueVars, jobVars, envVars, fileVars
<1>10. ASSUME NEW p \in Proc, Quarantine(p)
       PROVE  [Supervision(q)!Next]_(Supervision(q)!vars)
  BY <1>10 DEF Quarantine, NextSlot, queueVars, jobVars, envVars, fileVars
<1>11. ASSUME NEW p \in Proc, ClearStale(p)
       PROVE  [Supervision(q)!Next]_(Supervision(q)!vars)
  BY <1>11, StaleJobIsOver DEF ClearStale, queueVars, envVars,
     Supervision!Next, Supervision!Clear
<1>12. ASSUME NEW p \in Proc, ClearLost(p)
       PROVE  [Supervision(q)!Next]_(Supervision(q)!vars)
  BY <1>12, StaleJobIsOver DEF ClearLost, Abort, HasLease, queueVars,
     envVars, Supervision!Next, Supervision!Clear, Supervision!Killed,
     ChildPlace
<1>13. ASSUME NEW p \in Proc, TakeSlot(p)
       PROVE  [Supervision(q)!Next]_(Supervision(q)!vars)
  BY <1>13 DEF TakeSlot, queueVars, fileVars, envVars
<1>14. ASSUME NEW p \in Proc, SlotBusy(p)
       PROVE  [Supervision(q)!Next]_(Supervision(q)!vars)
  BY <1>14 DEF SlotBusy, NextSlot, queueVars, jobVars, envVars, fileVars
<1>15. ASSUME NEW p \in Proc, SlotProbed(p)
       PROVE  [Supervision(q)!Next]_(Supervision(q)!vars)
  BY <1>15 DEF SlotProbed, NextSlot, queueVars, adminVars, jobVars,
     fileVars
<1>16. ASSUME NEW p \in Proc, MarkStarting(p)
       PROVE  [Supervision(q)!Next]_(Supervision(q)!vars)
  BY <1>16 DEF MarkStarting, localVars, envVars, Supervision!Next,
     Supervision!Granted
<1>17. ASSUME NEW p \in Proc, MarkStartingFails(p)
       PROVE  [Supervision(q)!Next]_(Supervision(q)!vars)
  BY <1>17 DEF MarkStartingFails, envVars, Supervision!Next,
     Supervision!Killed, ChildPlace
<1>18. ASSUME NEW p \in Proc, KeepWaiting(p)
       PROVE  [Supervision(q)!Next]_(Supervision(q)!vars)
  BY <1>18 DEF KeepWaiting, HasLease, queueVars, localVars, jobVars,
     envVars, fileVars
<1>19. ASSUME NEW p \in Proc, RefuseAdmission(p)
       PROVE  [Supervision(q)!Next]_(Supervision(q)!vars)
  BY <1>19 DEF RefuseAdmission, Abort, HasLease, QueueFull, OwnerQueued,
     queueVars, jobVars, envVars, fileVars, Supervision!Next,
     Supervision!Killed, ChildPlace
<1>20. ASSUME NEW p \in Proc, Enqueue(p)
       PROVE  [Supervision(q)!Next]_(Supervision(q)!vars)
  BY <1>20 DEF Enqueue, HasLease, QueueFull, OwnerQueued, localVars,
     jobVars, envVars, fileVars
<1>21. ASSUME NEW p \in Proc, EnqueueFails(p)
       PROVE  [Supervision(q)!Next]_(Supervision(q)!vars)
  BY <1>21 DEF EnqueueFails, Abort, HasLease, QueueFull, OwnerQueued,
     jobVars, envVars, fileVars, Supervision!Next, Supervision!Killed,
     ChildPlace
<1>22. ASSUME NEW p \in Proc, Retry(p)
       PROVE  [Supervision(q)!Next]_(Supervision(q)!vars)
  BY <1>22 DEF Retry, queueVars, localVars, jobVars, envVars, fileVars
<1>23. ASSUME NEW p \in Proc, TimeOut(p)
       PROVE  [Supervision(q)!Next]_(Supervision(q)!vars)
  BY <1>23 DEF TimeOut, queueVars, localVars, jobVars, envVars, fileVars
<1>24. ASSUME NEW p \in Proc, UnlockLease(p)
       PROVE  [Supervision(q)!Next]_(Supervision(q)!vars)
  BY <1>24 DEF UnlockLease, localVars, jobVars, envVars, fileVars
<1>25. ASSUME NEW p \in Proc, RemoveLease(p)
       PROVE  [Supervision(q)!Next]_(Supervision(q)!vars)
  BY <1>25 DEF RemoveLease, localVars, jobVars, envVars, fileVars,
     Supervision!Next, Supervision!Killed, ChildPlace
<1>26. ASSUME NEW p \in Proc, Bind(p)
       PROVE  [Supervision(q)!Next]_(Supervision(q)!vars)
  BY <1>26 DEF Bind, queueVars, localVars, envVars, Supervision!Next,
     Supervision!Bind
<1>27. ASSUME NEW p \in Proc, BindFails(p)
       PROVE  [Supervision(q)!Next]_(Supervision(q)!vars)
  BY <1>27 DEF BindFails, queueVars, localVars, jobVars, envVars, fileVars,
     Supervision!Next, Supervision!Return, TraceInv, JobFiles,
     Supervision!Next, Supervision!Killed
<1>28. ASSUME NEW p \in Proc, Spawn(p)
       PROVE  [Supervision(q)!Next]_(Supervision(q)!vars)
  BY <1>28 DEF Spawn, queueVars, localVars, fileVars, envVars,
     Supervision!Next, Supervision!Spawn
<1>29. ASSUME NEW p \in Proc, SpawnFails(p)
       PROVE  [Supervision(q)!Next]_(Supervision(q)!vars)
  BY <1>29 DEF SpawnFails, queueVars, localVars, envVars, Supervision!Next,
     Supervision!Return
<1>30. ASSUME NEW p \in Proc, MarkRunning(p)
       PROVE  [Supervision(q)!Next]_(Supervision(q)!vars)
  BY <1>30 DEF MarkRunning, queueVars, localVars, envVars,
     Supervision!Next, Supervision!MarkRunning
<1>31. ASSUME NEW p \in Proc, SuperviseFails(p)
       PROVE  [Supervision(q)!Next]_(Supervision(q)!vars)
  BY <1>31 DEF SuperviseFails, queueVars, localVars, envVars,
     Supervision!Next, Supervision!Return
<1>32. ASSUME NEW p \in Proc, Reap(p)
       PROVE  [Supervision(q)!Next]_(Supervision(q)!vars)
  BY <1>32 DEF Reap, queueVars, localVars, envVars, Supervision!Next,
     Supervision!Return
<1>33. ASSUME NEW p \in Proc, RemoveActive(p)
       PROVE  [Supervision(q)!Next]_(Supervision(q)!vars)
  BY <1>33 DEF RemoveActive, queueVars, localVars, envVars,
     Supervision!Next, Supervision!Clear
<1>34. ASSUME NEW p \in Proc, UnlockSlot(p)
       PROVE  [Supervision(q)!Next]_(Supervision(q)!vars)
  BY <1>34 DEF UnlockSlot, queueVars, fileVars, envVars
<1>35. ASSUME NEW p \in Proc, Exit(p)
       PROVE  [Supervision(q)!Next]_(Supervision(q)!vars)
  BY <1>35 DEF Exit, queueVars, localVars, jobVars, envVars, fileVars
<1>36. ASSUME NEW p \in Proc, ChildExit(p)
       PROVE  [Supervision(q)!Next]_(Supervision(q)!vars)
  BY <1>36 DEF ChildExit, queueVars, localVars, fileVars, envVars,
     Supervision!Next, Supervision!ChildExit, ChildPlace
<1>37. ASSUME NEW p \in Proc, Crash(p)
       PROVE  [Supervision(q)!Next]_(Supervision(q)!vars)
  BY <1>37 DEF Crash, fileVars, adminVars, Supervision!Next,
     Supervision!Killed, ChildPlace
<1>38. ASSUME NEW enabled \in BOOLEAN, SetDrain(enabled)
       PROVE  [Supervision(q)!Next]_(Supervision(q)!vars)
  BY <1>38 DEF SetDrain, queueVars, localVars, jobVars, fileVars, boundVars
<1>39. ASSUME NEW new \in 1..2, SetCapacity(new)
       PROVE  [Supervision(q)!Next]_(Supervision(q)!vars)
  BY <1>39 DEF SetCapacity, queueVars, localVars, jobVars, fileVars,
     boundVars
<1>40. CASE UNCHANGED vars
  BY <1>40 DEF vars, jobVars, fileVars
<1>41. QED
  BY <1>1, <1>2, <1>3, <1>4, <1>5, <1>6, <1>7, <1>8, <1>9, <1>10, <1>11,
     <1>12, <1>13, <1>14, <1>15, <1>16, <1>17, <1>18, <1>19, <1>20, <1>21,
     <1>22, <1>23, <1>24, <1>25, <1>26, <1>27, <1>28, <1>29, <1>30, <1>31,
     <1>32, <1>33, <1>34, <1>35, <1>36, <1>37, <1>38, <1>39, <1>40 DEF Next,
     Step, Terminated

(***************************************************************************)
(* Every invocation goes through the life of a job: others never take its  *)
(* socket away while it runs, and its permit goes back when the workload   *)
(* is dead, for any number of processes, kills and failing calls.          *)
(***************************************************************************)
THEOREM SchedulerImplementsJobs == Spec => ImplementsJobs
<1>1. Init => \A p \in Proc : Supervision(p)!Init
  BY DEF Init, Stage, Supervision!Init
<1>2. TraceInv /\ [Next]_vars =>
          [\A p \in Proc :
              UNCHANGED Supervision(p)!vars \/ Supervision(p)!Next]_vars
  <2>1. ASSUME TraceInv, [Next]_vars, NEW p \in Proc
        PROVE  UNCHANGED Supervision(p)!vars \/ Supervision(p)!Next
    BY <2>1, StepOfJob
  <2>2. QED
    BY <2>1
<1>3. QED
  BY <1>1, <1>2, TraceInvariant, PTL DEF Spec, ImplementsJobs
=============================================================================
