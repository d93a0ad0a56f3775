-------------------------- MODULE SupervisorProofs --------------------------
(***************************************************************************)
(* The theorems of Supervisor, for any descendants, any number of cancel   *)
(* commands and any statuses the child may choose to end with.             *)
(***************************************************************************)
EXTENDS SupervisorInvariants, SupervisorRefinement, TLAPS

USE StatusAssumption, DeliveredAssumption, ClientAssumption

---------------------------------------------------------------------------
(* Helpers                                                                 *)

\* The smallest of a set of terminating signals is one of them.
LEMMA FirstIsPending ==
    ASSUME NEW S \in SUBSET Terminators, S # {}
    PROVE  First(S) \in S
<1>1. \E s \in S : \A t \in S : s <= t
  <2>1. CASE SIGINT \in S
    BY <2>1 DEF Terminators, SIGINT, SIGQUIT, SIGTERM
  <2>2. CASE SIGINT \notin S /\ SIGQUIT \in S
    BY <2>2 DEF Terminators, SIGINT, SIGQUIT, SIGTERM
  <2>3. CASE SIGINT \notin S /\ SIGQUIT \notin S
    <3>1. SIGTERM \in S /\ \A t \in S : t = SIGTERM
      BY <2>3 DEF Terminators
    <3>2. QED
      BY <3>1 DEF SIGTERM
  <2>4. QED
    BY <2>1, <2>2, <2>3
<1>2. QED
  BY <1>1 DEF First

\* Whatever the child ends with is a number.
LEMMA KilledByIsNumber == \A s \in Signals : KilledBy(s) \in Nat
BY DEF KilledBy, Signals, Terminators, SIGINT, SIGQUIT, SIGTERM, SIGKILL

LEMMA EndingsAreNumbers == TypeOK => Endings \subseteq Nat
BY KilledByIsNumber DEF TypeOK, Endings

LEMMA EmptyBacklog == <<>> \in Seq(Client)
OBVIOUS

---------------------------------------------------------------------------
(* Type correctness                                                        *)

LEMMA TypeOKInit == Init => TypeOK
<1> SUFFICES ASSUME Init PROVE TypeOK
  OBVIOUS
<1>1. /\ pc \in Locations
      /\ foreground \in {"original", "child"}
      /\ leader \in {"none", "alive", "zombie", "reaped"}
  BY DEF Init, Locations
<1>2. /\ backlog \in Seq(Client)
      /\ stream \in Client \union {None}
      /\ client \in [Client -> {"idle", "connected", "requested", "refused"}]
  BY EmptyBacklog DEF Init
<1>3. /\ status \in Nat
      /\ members \in SUBSET Descendant
      /\ sent \in SUBSET Signals
      /\ pending \in SUBSET Terminators
      /\ terminating \in Terminators \union {0}
  BY DEF Init
<1>4. /\ started \in BOOLEAN /\ runOver \in BOOLEAN /\ graceOver \in BOOLEAN
      /\ error \in ErrorKinds \union {"none"}
      /\ socket \in BOOLEAN
  BY DEF Init
<1>5. QED
  BY <1>1, <1>2, <1>3, <1>4 DEF TypeOK

\* The domains of the variables are kept by every step.
LEMMA TypeOKNext ==
    TypeOK /\ [Next]_vars => TypeOK'
<1> SUFFICES ASSUME TypeOK, [Next]_vars PROVE TypeOK'
  OBVIOUS
<1> USE DEF TypeOK, Locations
<1>1. ASSUME Bind PROVE TypeOK'
  BY <1>1 DEF Bind, groupVars, clockVars, cancelVars
<1>2. ASSUME NEW kind \in ErrorKinds, BindFails(kind) PROVE TypeOK'
  BY <1>2 DEF BindFails, groupVars, clockVars, cancelVars, ErrorKinds
<1>3. ASSUME Spawn PROVE TypeOK'
  BY <1>3 DEF Spawn, clockVars, cancelVars
<1>4. ASSUME NEW kind \in ErrorKinds, SpawnFails(kind) PROVE TypeOK'
  BY <1>4 DEF SpawnFails, groupVars, clockVars, cancelVars, ErrorKinds
<1>5. ASSUME Transfer PROVE TypeOK'
  BY <1>5 DEF Transfer, groupVars, clockVars, cancelVars
<1>6. ASSUME MarkRunning PROVE TypeOK'
  BY <1>6 DEF MarkRunning, groupVars, cancelVars
<1>7. ASSUME NEW kind \in ErrorKinds, MarkRunningFails(kind) PROVE TypeOK'
  BY <1>7 DEF MarkRunningFails, groupVars, clockVars, cancelVars, ErrorKinds
<1>8. ASSUME StillRunning PROVE TypeOK'
  BY <1>8 DEF StillRunning, groupVars, clockVars, cancelVars
<1>9. ASSUME Reap PROVE TypeOK'
  BY <1>9 DEF Reap, clockVars, cancelVars
<1>10. ASSUME TryWaitFails PROVE TypeOK'
  BY <1>10 DEF TryWaitFails, groupVars, clockVars, cancelVars, ErrorKinds
<1>11. ASSUME HandleSignals PROVE TypeOK'
  <2>1. CASE pending # {} /\ terminating = 0
    <3>1. First(pending) \in Terminators
      BY <2>1, FirstIsPending DEF TypeOK
    <3>2. QED
      BY <1>11, <2>1, <3>1 DEF HandleSignals, Send, clockVars, cancelVars, Signals
  <2>2. CASE ~(pending # {} /\ terminating = 0)
    BY <1>11, <2>2 DEF HandleSignals, groupVars, clockVars, cancelVars
  <2>3. QED
    BY <2>1, <2>2
<1>12. ASSUME Accept PROVE TypeOK'
  BY <1>12 DEF Accept, groupVars, clockVars
<1>13. ASSUME NothingToAccept PROVE TypeOK'
  BY <1>13 DEF NothingToAccept, groupVars, clockVars, cancelVars
<1>14. ASSUME Obey PROVE TypeOK'
  BY <1>14 DEF Obey, clockVars, Send, Terminators, Signals, SIGINT, SIGQUIT,
     SIGTERM, SIGKILL
<1>15. ASSUME ReadNothing PROVE TypeOK'
  BY <1>15 DEF ReadNothing, groupVars, clockVars, cancelVars
<1>16. ASSUME Refuse PROVE TypeOK'
  BY <1>16 DEF Refuse, groupVars, clockVars
<1>17. ASSUME MaxRun PROVE TypeOK'
  <2>1. CASE terminating = 0 /\ runOver
    BY <1>17, <2>1 DEF MaxRun, Send, clockVars, cancelVars, Signals, Terminators
  <2>2. CASE ~(terminating = 0 /\ runOver)
    BY <1>17, <2>2 DEF MaxRun, groupVars, clockVars, cancelVars
  <2>3. QED
    BY <2>1, <2>2
<1>18. ASSUME Grace PROVE TypeOK'
  <2>1. CASE graceOver
    BY <1>18, <2>1, KilledByIsNumber
       DEF Grace, Escalate, KillGroup, clockVars, cancelVars, Signals
  <2>2. CASE ~graceOver
    BY <1>18, <2>2 DEF Grace, groupVars, clockVars, cancelVars
  <2>3. QED
    BY <2>1, <2>2
<1>19. ASSUME RestoreTerminal PROVE TypeOK'
  BY <1>19 DEF RestoreTerminal, groupVars, clockVars, cancelVars
<1>20. ASSUME Cleanup PROVE TypeOK'
  <2>1. CASE leader = "reaped"
    BY <1>20, <2>1 DEF Cleanup, groupVars, clockVars, cancelVars
  <2>2. CASE leader # "reaped"
    BY <1>20, <2>2, KilledByIsNumber
       DEF Cleanup, KillGroup, clockVars, cancelVars, Signals
  <2>3. QED
    BY <2>1, <2>2
<1>21. ASSUME Unbind PROVE TypeOK'
  BY <1>21, EmptyBacklog DEF Unbind, groupVars, clockVars
<1>22. ASSUME NEW how \in Endings, LeaderEnds(how) PROVE TypeOK'
  BY <1>22, EndingsAreNumbers DEF LeaderEnds, clockVars, cancelVars
<1>23. ASSUME NEW d \in Descendant, Fork(d) PROVE TypeOK'
  BY <1>23 DEF Fork, clockVars, cancelVars
<1>24. ASSUME NEW d \in Descendant, MemberEnds(d) PROVE TypeOK'
  BY <1>24 DEF MemberEnds, clockVars, cancelVars
<1>25. ASSUME NEW s \in Delivered, SignalSupervisor(s) PROVE TypeOK'
  BY <1>25 DEF SignalSupervisor, groupVars, clockVars, cancelVars, Ended
<1>26. ASSUME RunExpires PROVE TypeOK'
  BY <1>26 DEF RunExpires, groupVars, cancelVars, Ended
<1>27. ASSUME GraceExpires PROVE TypeOK'
  BY <1>27 DEF GraceExpires, groupVars, cancelVars, Ended
<1>28. ASSUME Killed PROVE TypeOK'
  BY <1>28, EmptyBacklog DEF Killed, clockVars, Ended
<1>29. ASSUME NEW c \in Client, Connect(c) PROVE TypeOK'
  BY <1>29 DEF Connect, groupVars, clockVars, Move
<1>30. ASSUME NEW c \in Client, Request(c) PROVE TypeOK'
  BY <1>30 DEF Request, groupVars, clockVars, Move
<1>31. CASE UNCHANGED vars
  BY <1>31 DEF vars, groupVars, clockVars, cancelVars
<1>32. QED
  BY <1>1, <1>2, <1>3, <1>4, <1>5, <1>6, <1>7, <1>8, <1>9, <1>10, <1>11,
     <1>12, <1>13, <1>14, <1>15, <1>16, <1>17, <1>18, <1>19, <1>20, <1>21,
     <1>22, <1>23, <1>24, <1>25, <1>26, <1>27, <1>28, <1>29, <1>30, <1>31
     DEF Next, Supervise, Workload, Cancel, Environment, Terminated

(***************************************************************************)
(* Every variable stays in its domain: in particular the signal that is    *)
(* reported is one that somebody can have sent.                            *)
(***************************************************************************)
THEOREM TypeCorrect == Spec => []TypeOK
<1>1. QED
  BY TypeOKInit, TypeOKNext, PTL DEF Spec

---------------------------------------------------------------------------
(* The child, the clock and the guards                                     *)

\* The child is spawned, reaped or killed at its place only.
LEMMA ChildPlaceNext ==
    SupervisorInv /\ [Next]_vars => ChildPlace'
<1> SUFFICES ASSUME SupervisorInv, [Next]_vars PROVE ChildPlace'
  OBVIOUS
<1> USE DEF ChildPlace, Loop
<1>1. ASSUME Bind PROVE ChildPlace'
  BY <1>1 DEF Bind, groupVars, clockVars, cancelVars, SupervisorInv, ErrorKinds
<1>2. ASSUME NEW kind \in ErrorKinds, BindFails(kind) PROVE ChildPlace'
  BY <1>2 DEF BindFails, groupVars, clockVars, cancelVars, SupervisorInv,
     ErrorKinds
<1>3. ASSUME Spawn PROVE ChildPlace'
  BY <1>3 DEF Spawn, clockVars, cancelVars, SupervisorInv, ErrorKinds
<1>4. ASSUME NEW kind \in ErrorKinds, SpawnFails(kind) PROVE ChildPlace'
  BY <1>4 DEF SpawnFails, groupVars, clockVars, cancelVars, SupervisorInv,
     ErrorKinds
<1>5. ASSUME Transfer PROVE ChildPlace'
  BY <1>5 DEF Transfer, groupVars, clockVars, cancelVars, SupervisorInv,
     ErrorKinds
<1>6. ASSUME MarkRunning PROVE ChildPlace'
  BY <1>6 DEF MarkRunning, groupVars, cancelVars, SupervisorInv, ErrorKinds
<1>7. ASSUME NEW kind \in ErrorKinds, MarkRunningFails(kind) PROVE ChildPlace'
  BY <1>7 DEF MarkRunningFails, groupVars, clockVars, cancelVars,
     SupervisorInv, ErrorKinds
<1>8. ASSUME StillRunning PROVE ChildPlace'
  BY <1>8 DEF StillRunning, groupVars, clockVars, cancelVars, SupervisorInv,
     ErrorKinds
<1>9. ASSUME Reap PROVE ChildPlace'
  BY <1>9 DEF Reap, clockVars, cancelVars, SupervisorInv, ErrorKinds
<1>10. ASSUME TryWaitFails PROVE ChildPlace'
  BY <1>10 DEF TryWaitFails, groupVars, clockVars, cancelVars, SupervisorInv,
     ErrorKinds
<1>11. ASSUME HandleSignals PROVE ChildPlace'
  BY <1>11 DEF HandleSignals, groupVars, clockVars, cancelVars, Send,
     SupervisorInv, ErrorKinds
<1>12. ASSUME Accept PROVE ChildPlace'
  BY <1>12 DEF Accept, groupVars, clockVars, SupervisorInv, ErrorKinds
<1>13. ASSUME NothingToAccept PROVE ChildPlace'
  BY <1>13 DEF NothingToAccept, groupVars, clockVars, cancelVars,
     SupervisorInv, ErrorKinds
<1>14. ASSUME Obey PROVE ChildPlace'
  BY <1>14 DEF Obey, clockVars, Send, SupervisorInv, ErrorKinds
<1>15. ASSUME ReadNothing PROVE ChildPlace'
  BY <1>15 DEF ReadNothing, groupVars, clockVars, cancelVars, SupervisorInv,
     ErrorKinds
<1>16. ASSUME Refuse PROVE ChildPlace'
  BY <1>16 DEF Refuse, groupVars, clockVars, SupervisorInv, ErrorKinds
<1>17. ASSUME MaxRun PROVE ChildPlace'
  BY <1>17 DEF MaxRun, groupVars, clockVars, cancelVars, Send, SupervisorInv,
     ErrorKinds
<1>18. ASSUME Grace PROVE ChildPlace'
  BY <1>18 DEF Grace, groupVars, clockVars, cancelVars, KillGroup, Escalate,
     SupervisorInv, ErrorKinds
<1>19. ASSUME RestoreTerminal PROVE ChildPlace'
  BY <1>19 DEF RestoreTerminal, groupVars, clockVars, cancelVars,
     SupervisorInv, ErrorKinds
<1>20. ASSUME Cleanup PROVE ChildPlace'
  BY <1>20 DEF Cleanup, groupVars, clockVars, cancelVars, KillGroup,
     SupervisorInv, ErrorKinds
<1>21. ASSUME Unbind PROVE ChildPlace'
  BY <1>21 DEF Unbind, groupVars, clockVars, SupervisorInv, ErrorKinds
<1>22. ASSUME NEW how \in Endings, LeaderEnds(how) PROVE ChildPlace'
  BY <1>22 DEF LeaderEnds, clockVars, cancelVars, SupervisorInv, ErrorKinds
<1>23. ASSUME NEW d \in Descendant, Fork(d) PROVE ChildPlace'
  BY <1>23 DEF Fork, clockVars, cancelVars, SupervisorInv, ErrorKinds
<1>24. ASSUME NEW d \in Descendant, MemberEnds(d) PROVE ChildPlace'
  BY <1>24 DEF MemberEnds, clockVars, cancelVars, SupervisorInv, ErrorKinds
<1>25. ASSUME NEW s \in Delivered, SignalSupervisor(s) PROVE ChildPlace'
  BY <1>25 DEF SignalSupervisor, groupVars, clockVars, cancelVars, Ended,
     SupervisorInv, ErrorKinds
<1>26. ASSUME RunExpires PROVE ChildPlace'
  BY <1>26 DEF RunExpires, groupVars, cancelVars, Ended, SupervisorInv,
     ErrorKinds
<1>27. ASSUME GraceExpires PROVE ChildPlace'
  BY <1>27 DEF GraceExpires, groupVars, cancelVars, Ended, SupervisorInv,
     ErrorKinds
<1>28. ASSUME Killed PROVE ChildPlace'
  BY <1>28 DEF Killed, clockVars, Ended, SupervisorInv, ErrorKinds
<1>29. ASSUME NEW c \in Client, Connect(c) PROVE ChildPlace'
  BY <1>29 DEF Connect, groupVars, clockVars, Move, SupervisorInv, ErrorKinds
<1>30. ASSUME NEW c \in Client, Request(c) PROVE ChildPlace'
  BY <1>30 DEF Request, groupVars, clockVars, Move, SupervisorInv, ErrorKinds
<1>31. CASE UNCHANGED vars
  BY <1>31 DEF vars, groupVars, clockVars, cancelVars, SupervisorInv,
     ErrorKinds
<1>32. QED
  BY <1>1, <1>2, <1>3, <1>4, <1>5, <1>6, <1>7, <1>8, <1>9, <1>10, <1>11,
     <1>12, <1>13, <1>14, <1>15, <1>16, <1>17, <1>18, <1>19, <1>20, <1>21,
     <1>22, <1>23, <1>24, <1>25, <1>26, <1>27, <1>28, <1>29, <1>30, <1>31
     DEF Next, Supervise, Workload, Cancel, Environment, Terminated

\* Time is measured from the loop on, the grace period from its beginning.
LEMMA ClockPlaceNext ==
    SupervisorInv /\ [Next]_vars => ClockPlace'
<1> SUFFICES ASSUME SupervisorInv, [Next]_vars PROVE ClockPlace'
  OBVIOUS
<1> USE DEF ClockPlace, Loop
<1>1. ASSUME Bind PROVE ClockPlace'
  BY <1>1 DEF Bind, groupVars, clockVars, cancelVars, SupervisorInv, TypeOK,
     Terminators, SIGTERM, SIGINT, SIGQUIT
<1>2. ASSUME NEW kind \in ErrorKinds, BindFails(kind) PROVE ClockPlace'
  BY <1>2 DEF BindFails, groupVars, clockVars, cancelVars, SupervisorInv,
     TypeOK, Terminators, SIGTERM, SIGINT, SIGQUIT
<1>3. ASSUME Spawn PROVE ClockPlace'
  BY <1>3 DEF Spawn, clockVars, cancelVars, SupervisorInv, TypeOK,
     Terminators, SIGTERM, SIGINT, SIGQUIT
<1>4. ASSUME NEW kind \in ErrorKinds, SpawnFails(kind) PROVE ClockPlace'
  BY <1>4 DEF SpawnFails, groupVars, clockVars, cancelVars, SupervisorInv,
     TypeOK, Terminators, SIGTERM, SIGINT, SIGQUIT
<1>5. ASSUME Transfer PROVE ClockPlace'
  BY <1>5 DEF Transfer, groupVars, clockVars, cancelVars, SupervisorInv,
     TypeOK, Terminators, SIGTERM, SIGINT, SIGQUIT
<1>6. ASSUME MarkRunning PROVE ClockPlace'
  BY <1>6 DEF MarkRunning, groupVars, cancelVars, SupervisorInv, TypeOK,
     Terminators, SIGTERM, SIGINT, SIGQUIT
<1>7. ASSUME NEW kind \in ErrorKinds, MarkRunningFails(kind) PROVE ClockPlace'
  BY <1>7 DEF MarkRunningFails, groupVars, clockVars, cancelVars,
     SupervisorInv, TypeOK, Terminators, SIGTERM, SIGINT, SIGQUIT
<1>8. ASSUME StillRunning PROVE ClockPlace'
  BY <1>8 DEF StillRunning, groupVars, clockVars, cancelVars, SupervisorInv,
     TypeOK, Terminators, SIGTERM, SIGINT, SIGQUIT
<1>9. ASSUME Reap PROVE ClockPlace'
  BY <1>9 DEF Reap, clockVars, cancelVars, SupervisorInv, TypeOK,
     Terminators, SIGTERM, SIGINT, SIGQUIT
<1>10. ASSUME TryWaitFails PROVE ClockPlace'
  BY <1>10 DEF TryWaitFails, groupVars, clockVars, cancelVars, SupervisorInv,
     TypeOK, Terminators, SIGTERM, SIGINT, SIGQUIT
<1>11. ASSUME HandleSignals PROVE ClockPlace'
  BY <1>11, FirstIsPending DEF HandleSignals, groupVars, clockVars,
     cancelVars, Send, SupervisorInv, TypeOK, Terminators, SIGINT, SIGQUIT,
     SIGTERM
<1>12. ASSUME Accept PROVE ClockPlace'
  BY <1>12 DEF Accept, groupVars, clockVars, SupervisorInv, TypeOK,
     Terminators, SIGTERM, SIGINT, SIGQUIT
<1>13. ASSUME NothingToAccept PROVE ClockPlace'
  BY <1>13 DEF NothingToAccept, groupVars, clockVars, cancelVars,
     SupervisorInv, TypeOK, Terminators, SIGTERM, SIGINT, SIGQUIT
<1>14. ASSUME Obey PROVE ClockPlace'
  BY <1>14 DEF Obey, clockVars, Send, SupervisorInv, TypeOK, Terminators,
     SIGTERM, SIGINT, SIGQUIT
<1>15. ASSUME ReadNothing PROVE ClockPlace'
  BY <1>15 DEF ReadNothing, groupVars, clockVars, cancelVars, SupervisorInv,
     TypeOK, Terminators, SIGTERM, SIGINT, SIGQUIT
<1>16. ASSUME Refuse PROVE ClockPlace'
  BY <1>16 DEF Refuse, groupVars, clockVars, SupervisorInv, TypeOK,
     Terminators, SIGTERM, SIGINT, SIGQUIT
<1>17. ASSUME MaxRun PROVE ClockPlace'
  BY <1>17 DEF MaxRun, groupVars, clockVars, cancelVars, Send, SupervisorInv,
     TypeOK, Terminators, SIGTERM, SIGINT, SIGQUIT
<1>18. ASSUME Grace PROVE ClockPlace'
  BY <1>18 DEF Grace, groupVars, clockVars, cancelVars, KillGroup, Escalate,
     SupervisorInv, TypeOK, Terminators, SIGTERM, SIGINT, SIGQUIT
<1>19. ASSUME RestoreTerminal PROVE ClockPlace'
  BY <1>19 DEF RestoreTerminal, groupVars, clockVars, cancelVars,
     SupervisorInv, TypeOK, Terminators, SIGTERM, SIGINT, SIGQUIT
<1>20. ASSUME Cleanup PROVE ClockPlace'
  BY <1>20 DEF Cleanup, groupVars, clockVars, cancelVars, KillGroup,
     SupervisorInv, TypeOK, Terminators, SIGTERM, SIGINT, SIGQUIT
<1>21. ASSUME Unbind PROVE ClockPlace'
  BY <1>21 DEF Unbind, groupVars, clockVars, SupervisorInv, TypeOK,
     Terminators, SIGTERM, SIGINT, SIGQUIT
<1>22. ASSUME NEW how \in Endings, LeaderEnds(how) PROVE ClockPlace'
  BY <1>22 DEF LeaderEnds, clockVars, cancelVars, SupervisorInv, TypeOK,
     Terminators, SIGTERM, SIGINT, SIGQUIT
<1>23. ASSUME NEW d \in Descendant, Fork(d) PROVE ClockPlace'
  BY <1>23 DEF Fork, clockVars, cancelVars, SupervisorInv, TypeOK,
     Terminators, SIGTERM, SIGINT, SIGQUIT
<1>24. ASSUME NEW d \in Descendant, MemberEnds(d) PROVE ClockPlace'
  BY <1>24 DEF MemberEnds, clockVars, cancelVars, SupervisorInv, TypeOK,
     Terminators, SIGTERM, SIGINT, SIGQUIT
<1>25. ASSUME NEW s \in Delivered, SignalSupervisor(s) PROVE ClockPlace'
  BY <1>25 DEF SignalSupervisor, groupVars, clockVars, cancelVars, Ended,
     SupervisorInv, TypeOK, Terminators, SIGTERM, SIGINT, SIGQUIT
<1>26. ASSUME RunExpires PROVE ClockPlace'
  BY <1>26 DEF RunExpires, groupVars, cancelVars, Ended, SupervisorInv,
     TypeOK, Terminators, SIGTERM, SIGINT, SIGQUIT
<1>27. ASSUME GraceExpires PROVE ClockPlace'
  BY <1>27 DEF GraceExpires, groupVars, cancelVars, Ended, SupervisorInv,
     TypeOK, Terminators, SIGTERM, SIGINT, SIGQUIT
<1>28. ASSUME Killed PROVE ClockPlace'
  BY <1>28 DEF Killed, clockVars, Ended, SupervisorInv, TypeOK, Terminators,
     SIGTERM, SIGINT, SIGQUIT
<1>29. ASSUME NEW c \in Client, Connect(c) PROVE ClockPlace'
  BY <1>29 DEF Connect, groupVars, clockVars, Move, SupervisorInv, TypeOK,
     Terminators, SIGTERM, SIGINT, SIGQUIT
<1>30. ASSUME NEW c \in Client, Request(c) PROVE ClockPlace'
  BY <1>30 DEF Request, groupVars, clockVars, Move, SupervisorInv, TypeOK,
     Terminators, SIGTERM, SIGINT, SIGQUIT
<1>31. CASE UNCHANGED vars
  BY <1>31 DEF vars, groupVars, clockVars, cancelVars, SupervisorInv, TypeOK,
     Terminators, SIGTERM, SIGINT, SIGQUIT
<1>32. QED
  BY <1>1, <1>2, <1>3, <1>4, <1>5, <1>6, <1>7, <1>8, <1>9, <1>10, <1>11,
     <1>12, <1>13, <1>14, <1>15, <1>16, <1>17, <1>18, <1>19, <1>20, <1>21,
     <1>22, <1>23, <1>24, <1>25, <1>26, <1>27, <1>28, <1>29, <1>30, <1>31
     DEF Next, Supervise, Workload, Cancel, Environment, Terminated

\* The socket and the terminal are given back in the order of the guards.
LEMMA GuardPlaceNext ==
    SupervisorInv /\ [Next]_vars => GuardPlace'
<1> SUFFICES ASSUME SupervisorInv, [Next]_vars PROVE GuardPlace'
  OBVIOUS
<1> USE DEF GuardPlace
<1>1. ASSUME Bind PROVE GuardPlace'
  BY <1>1 DEF Bind, groupVars, clockVars, cancelVars, SupervisorInv
<1>2. ASSUME NEW kind \in ErrorKinds, BindFails(kind) PROVE GuardPlace'
  BY <1>2 DEF BindFails, groupVars, clockVars, cancelVars, SupervisorInv
<1>3. ASSUME Spawn PROVE GuardPlace'
  BY <1>3 DEF Spawn, clockVars, cancelVars, SupervisorInv
<1>4. ASSUME NEW kind \in ErrorKinds, SpawnFails(kind) PROVE GuardPlace'
  BY <1>4 DEF SpawnFails, groupVars, clockVars, cancelVars, SupervisorInv
<1>5. ASSUME Transfer PROVE GuardPlace'
  BY <1>5 DEF Transfer, groupVars, clockVars, cancelVars, SupervisorInv
<1>6. ASSUME MarkRunning PROVE GuardPlace'
  BY <1>6 DEF MarkRunning, groupVars, cancelVars, SupervisorInv
<1>7. ASSUME NEW kind \in ErrorKinds, MarkRunningFails(kind) PROVE GuardPlace'
  BY <1>7 DEF MarkRunningFails, groupVars, clockVars, cancelVars, SupervisorInv
<1>8. ASSUME StillRunning PROVE GuardPlace'
  BY <1>8 DEF StillRunning, groupVars, clockVars, cancelVars, SupervisorInv
<1>9. ASSUME Reap PROVE GuardPlace'
  BY <1>9 DEF Reap, clockVars, cancelVars, SupervisorInv
<1>10. ASSUME TryWaitFails PROVE GuardPlace'
  BY <1>10 DEF TryWaitFails, groupVars, clockVars, cancelVars, SupervisorInv
<1>11. ASSUME HandleSignals PROVE GuardPlace'
  BY <1>11 DEF HandleSignals, groupVars, clockVars, cancelVars, Send,
     SupervisorInv
<1>12. ASSUME Accept PROVE GuardPlace'
  BY <1>12 DEF Accept, groupVars, clockVars, SupervisorInv
<1>13. ASSUME NothingToAccept PROVE GuardPlace'
  BY <1>13 DEF NothingToAccept, groupVars, clockVars, cancelVars, SupervisorInv
<1>14. ASSUME Obey PROVE GuardPlace'
  BY <1>14 DEF Obey, clockVars, Send, SupervisorInv
<1>15. ASSUME ReadNothing PROVE GuardPlace'
  BY <1>15 DEF ReadNothing, groupVars, clockVars, cancelVars, SupervisorInv
<1>16. ASSUME Refuse PROVE GuardPlace'
  BY <1>16 DEF Refuse, groupVars, clockVars, SupervisorInv
<1>17. ASSUME MaxRun PROVE GuardPlace'
  BY <1>17 DEF MaxRun, groupVars, clockVars, cancelVars, Send, SupervisorInv
<1>18. ASSUME Grace PROVE GuardPlace'
  BY <1>18 DEF Grace, groupVars, clockVars, cancelVars, KillGroup, Escalate,
     SupervisorInv
<1>19. ASSUME RestoreTerminal PROVE GuardPlace'
  BY <1>19 DEF RestoreTerminal, groupVars, clockVars, cancelVars, SupervisorInv
<1>20. ASSUME Cleanup PROVE GuardPlace'
  BY <1>20 DEF Cleanup, groupVars, clockVars, cancelVars, KillGroup,
     SupervisorInv
<1>21. ASSUME Unbind PROVE GuardPlace'
  BY <1>21 DEF Unbind, groupVars, clockVars, SupervisorInv
<1>22. ASSUME NEW how \in Endings, LeaderEnds(how) PROVE GuardPlace'
  BY <1>22 DEF LeaderEnds, clockVars, cancelVars, SupervisorInv
<1>23. ASSUME NEW d \in Descendant, Fork(d) PROVE GuardPlace'
  BY <1>23 DEF Fork, clockVars, cancelVars, SupervisorInv
<1>24. ASSUME NEW d \in Descendant, MemberEnds(d) PROVE GuardPlace'
  BY <1>24 DEF MemberEnds, clockVars, cancelVars, SupervisorInv
<1>25. ASSUME NEW s \in Delivered, SignalSupervisor(s) PROVE GuardPlace'
  BY <1>25 DEF SignalSupervisor, groupVars, clockVars, cancelVars, Ended,
     SupervisorInv
<1>26. ASSUME RunExpires PROVE GuardPlace'
  BY <1>26 DEF RunExpires, groupVars, cancelVars, Ended, SupervisorInv
<1>27. ASSUME GraceExpires PROVE GuardPlace'
  BY <1>27 DEF GraceExpires, groupVars, cancelVars, Ended, SupervisorInv
<1>28. ASSUME Killed PROVE GuardPlace'
  BY <1>28 DEF Killed, clockVars, Ended, SupervisorInv
<1>29. ASSUME NEW c \in Client, Connect(c) PROVE GuardPlace'
  BY <1>29 DEF Connect, groupVars, clockVars, Move, SupervisorInv
<1>30. ASSUME NEW c \in Client, Request(c) PROVE GuardPlace'
  BY <1>30 DEF Request, groupVars, clockVars, Move, SupervisorInv
<1>31. CASE UNCHANGED vars
  BY <1>31 DEF vars, groupVars, clockVars, cancelVars, SupervisorInv
<1>32. QED
  BY <1>1, <1>2, <1>3, <1>4, <1>5, <1>6, <1>7, <1>8, <1>9, <1>10, <1>11,
     <1>12, <1>13, <1>14, <1>15, <1>16, <1>17, <1>18, <1>19, <1>20, <1>21,
     <1>22, <1>23, <1>24, <1>25, <1>26, <1>27, <1>28, <1>29, <1>30, <1>31
     DEF Next, Supervise, Workload, Cancel, Environment, Terminated

\* A failure ends with the group killed, and the dead do not fork.
LEMMA GroupGoneNext ==
    SupervisorInv /\ [Next]_vars => GroupGone'
<1> SUFFICES ASSUME SupervisorInv, [Next]_vars PROVE GroupGone'
  OBVIOUS
<1> USE DEF GroupGone
<1>1. ASSUME Bind PROVE GroupGone'
  BY <1>1 DEF Bind, groupVars, clockVars, cancelVars, SupervisorInv, ChildPlace
<1>2. ASSUME NEW kind \in ErrorKinds, BindFails(kind) PROVE GroupGone'
  BY <1>2 DEF BindFails, groupVars, clockVars, cancelVars, SupervisorInv,
     ChildPlace
<1>3. ASSUME Spawn PROVE GroupGone'
  BY <1>3 DEF Spawn, clockVars, cancelVars, SupervisorInv, ChildPlace
<1>4. ASSUME NEW kind \in ErrorKinds, SpawnFails(kind) PROVE GroupGone'
  BY <1>4 DEF SpawnFails, groupVars, clockVars, cancelVars, SupervisorInv,
     ChildPlace
<1>5. ASSUME Transfer PROVE GroupGone'
  BY <1>5 DEF Transfer, groupVars, clockVars, cancelVars, SupervisorInv,
     ChildPlace
<1>6. ASSUME MarkRunning PROVE GroupGone'
  BY <1>6 DEF MarkRunning, groupVars, cancelVars, SupervisorInv, ChildPlace
<1>7. ASSUME NEW kind \in ErrorKinds, MarkRunningFails(kind) PROVE GroupGone'
  BY <1>7 DEF MarkRunningFails, groupVars, clockVars, cancelVars,
     SupervisorInv, ChildPlace
<1>8. ASSUME StillRunning PROVE GroupGone'
  BY <1>8 DEF StillRunning, groupVars, clockVars, cancelVars, SupervisorInv,
     ChildPlace
<1>9. ASSUME Reap PROVE GroupGone'
  BY <1>9 DEF Reap, clockVars, cancelVars, SupervisorInv, ChildPlace
<1>10. ASSUME TryWaitFails PROVE GroupGone'
  BY <1>10 DEF TryWaitFails, groupVars, clockVars, cancelVars, SupervisorInv,
     ChildPlace
<1>11. ASSUME HandleSignals PROVE GroupGone'
  BY <1>11 DEF HandleSignals, groupVars, clockVars, cancelVars, Send,
     SupervisorInv, ChildPlace
<1>12. ASSUME Accept PROVE GroupGone'
  BY <1>12 DEF Accept, groupVars, clockVars, SupervisorInv, ChildPlace
<1>13. ASSUME NothingToAccept PROVE GroupGone'
  BY <1>13 DEF NothingToAccept, groupVars, clockVars, cancelVars,
     SupervisorInv, ChildPlace
<1>14. ASSUME Obey PROVE GroupGone'
  BY <1>14 DEF Obey, clockVars, Send, SupervisorInv, ChildPlace
<1>15. ASSUME ReadNothing PROVE GroupGone'
  BY <1>15 DEF ReadNothing, groupVars, clockVars, cancelVars, SupervisorInv,
     ChildPlace
<1>16. ASSUME Refuse PROVE GroupGone'
  BY <1>16 DEF Refuse, groupVars, clockVars, SupervisorInv, ChildPlace
<1>17. ASSUME MaxRun PROVE GroupGone'
  BY <1>17 DEF MaxRun, groupVars, clockVars, cancelVars, Send, SupervisorInv,
     ChildPlace
<1>18. ASSUME Grace PROVE GroupGone'
  BY <1>18 DEF Grace, groupVars, clockVars, cancelVars, KillGroup, Escalate,
     SupervisorInv, ChildPlace
<1>19. ASSUME RestoreTerminal PROVE GroupGone'
  BY <1>19 DEF RestoreTerminal, groupVars, clockVars, cancelVars,
     SupervisorInv, ChildPlace
<1>20. ASSUME Cleanup PROVE GroupGone'
  BY <1>20 DEF Cleanup, groupVars, clockVars, cancelVars, KillGroup,
     SupervisorInv, ChildPlace
<1>21. ASSUME Unbind PROVE GroupGone'
  BY <1>21 DEF Unbind, groupVars, clockVars, SupervisorInv, ChildPlace
<1>22. ASSUME NEW how \in Endings, LeaderEnds(how) PROVE GroupGone'
  BY <1>22 DEF LeaderEnds, clockVars, cancelVars, SupervisorInv, ChildPlace
<1>23. ASSUME NEW d \in Descendant, Fork(d) PROVE GroupGone'
  BY <1>23 DEF Fork, clockVars, cancelVars, SupervisorInv, ChildPlace
<1>24. ASSUME NEW d \in Descendant, MemberEnds(d) PROVE GroupGone'
  BY <1>24 DEF MemberEnds, clockVars, cancelVars, SupervisorInv, ChildPlace
<1>25. ASSUME NEW s \in Delivered, SignalSupervisor(s) PROVE GroupGone'
  BY <1>25 DEF SignalSupervisor, groupVars, clockVars, cancelVars, Ended,
     SupervisorInv, ChildPlace
<1>26. ASSUME RunExpires PROVE GroupGone'
  BY <1>26 DEF RunExpires, groupVars, cancelVars, Ended, SupervisorInv,
     ChildPlace
<1>27. ASSUME GraceExpires PROVE GroupGone'
  BY <1>27 DEF GraceExpires, groupVars, cancelVars, Ended, SupervisorInv,
     ChildPlace
<1>28. ASSUME Killed PROVE GroupGone'
  BY <1>28 DEF Killed, clockVars, Ended, SupervisorInv, ChildPlace
<1>29. ASSUME NEW c \in Client, Connect(c) PROVE GroupGone'
  BY <1>29 DEF Connect, groupVars, clockVars, Move, SupervisorInv, ChildPlace
<1>30. ASSUME NEW c \in Client, Request(c) PROVE GroupGone'
  BY <1>30 DEF Request, groupVars, clockVars, Move, SupervisorInv, ChildPlace
<1>31. CASE UNCHANGED vars
  BY <1>31 DEF vars, groupVars, clockVars, cancelVars, SupervisorInv,
     ChildPlace
<1>32. QED
  BY <1>1, <1>2, <1>3, <1>4, <1>5, <1>6, <1>7, <1>8, <1>9, <1>10, <1>11,
     <1>12, <1>13, <1>14, <1>15, <1>16, <1>17, <1>18, <1>19, <1>20, <1>21,
     <1>22, <1>23, <1>24, <1>25, <1>26, <1>27, <1>28, <1>29, <1>30, <1>31
     DEF Next, Supervise, Workload, Cancel, Environment, Terminated

(***************************************************************************)
(* The child, the clock, the socket and the terminal are where the place   *)
(* in supervise says.                                                      *)
(***************************************************************************)
THEOREM SupervisorInvariant == Spec => []SupervisorInv
<1>1. Init => SupervisorInv
  BY TypeOKInit DEF Init, SupervisorInv, ChildPlace, ClockPlace, GuardPlace,
                    GroupGone, Loop
<1>2. SupervisorInv /\ [Next]_vars => SupervisorInv'
  BY TypeOKNext, ChildPlaceNext, ClockPlaceNext, GuardPlaceNext, GroupGoneNext
     DEF SupervisorInv
<1>3. QED
  BY <1>1, <1>2, PTL DEF Spec

(***************************************************************************)
(* When supervise returns, on each of its paths, the child is dead and     *)
(* reaped, the socket is gone and the terminal is given back.              *)
(***************************************************************************)
THEOREM CleanReturnHolds == Spec => []CleanReturn
<1>1. SupervisorInv => CleanReturn
  BY DEF SupervisorInv, ChildPlace, GuardPlace, GroupGone, CleanReturn
<1>2. QED
  BY <1>1, SupervisorInvariant, PTL

---------------------------------------------------------------------------
(* Signals to the group                                                    *)

\* Only the loop and an armed cleanup send signals.
LEMMA SignalledAlive ==
    SupervisorInv /\ [Next]_vars => (sent' # sent => leader \in {"alive", "zombie"})
<1> SUFFICES ASSUME SupervisorInv, [Next]_vars
      PROVE (sent' # sent => leader \in {"alive", "zombie"})
  OBVIOUS
<1>1. ASSUME Bind PROVE (sent' # sent => leader \in {"alive", "zombie"})
  BY <1>1 DEF Bind, groupVars, clockVars, cancelVars
<1>2. ASSUME NEW kind \in ErrorKinds, BindFails(kind)
      PROVE (sent' # sent => leader \in {"alive", "zombie"})
  BY <1>2 DEF BindFails, groupVars, clockVars, cancelVars
<1>3. ASSUME Spawn PROVE (sent' # sent => leader \in {"alive", "zombie"})
  BY <1>3 DEF Spawn, clockVars, cancelVars
<1>4. ASSUME NEW kind \in ErrorKinds, SpawnFails(kind)
      PROVE (sent' # sent => leader \in {"alive", "zombie"})
  BY <1>4 DEF SpawnFails, groupVars, clockVars, cancelVars
<1>5. ASSUME Transfer PROVE (sent' # sent => leader \in {"alive", "zombie"})
  BY <1>5 DEF Transfer, groupVars, clockVars, cancelVars
<1>6. ASSUME MarkRunning PROVE (sent' # sent => leader \in {"alive", "zombie"})
  BY <1>6 DEF MarkRunning, groupVars, cancelVars
<1>7. ASSUME NEW kind \in ErrorKinds, MarkRunningFails(kind)
      PROVE (sent' # sent => leader \in {"alive", "zombie"})
  BY <1>7 DEF MarkRunningFails, groupVars, clockVars, cancelVars
<1>8. ASSUME StillRunning
      PROVE (sent' # sent => leader \in {"alive", "zombie"})
  BY <1>8 DEF StillRunning, groupVars, clockVars, cancelVars
<1>9. ASSUME Reap PROVE (sent' # sent => leader \in {"alive", "zombie"})
  BY <1>9 DEF Reap, clockVars, cancelVars
<1>10. ASSUME TryWaitFails
      PROVE (sent' # sent => leader \in {"alive", "zombie"})
  BY <1>10 DEF TryWaitFails, groupVars, clockVars, cancelVars
<1>11. ASSUME HandleSignals
      PROVE (sent' # sent => leader \in {"alive", "zombie"})
  BY <1>11 DEF HandleSignals, groupVars, clockVars, cancelVars, Send,
     SupervisorInv, ChildPlace, Loop
<1>12. ASSUME Accept PROVE (sent' # sent => leader \in {"alive", "zombie"})
  BY <1>12 DEF Accept, groupVars, clockVars
<1>13. ASSUME NothingToAccept
      PROVE (sent' # sent => leader \in {"alive", "zombie"})
  BY <1>13 DEF NothingToAccept, groupVars, clockVars, cancelVars
<1>14. ASSUME Obey PROVE (sent' # sent => leader \in {"alive", "zombie"})
  BY <1>14 DEF Obey, clockVars, Send, SupervisorInv, ChildPlace, Loop
<1>15. ASSUME ReadNothing
      PROVE (sent' # sent => leader \in {"alive", "zombie"})
  BY <1>15 DEF ReadNothing, groupVars, clockVars, cancelVars
<1>16. ASSUME Refuse PROVE (sent' # sent => leader \in {"alive", "zombie"})
  BY <1>16 DEF Refuse, groupVars, clockVars
<1>17. ASSUME MaxRun PROVE (sent' # sent => leader \in {"alive", "zombie"})
  BY <1>17 DEF MaxRun, groupVars, clockVars, cancelVars, Send, SupervisorInv,
     ChildPlace, Loop
<1>18. ASSUME Grace PROVE (sent' # sent => leader \in {"alive", "zombie"})
  BY <1>18 DEF Grace, groupVars, clockVars, cancelVars, KillGroup, Escalate,
     SupervisorInv, ChildPlace, Loop
<1>19. ASSUME RestoreTerminal
      PROVE (sent' # sent => leader \in {"alive", "zombie"})
  BY <1>19 DEF RestoreTerminal, groupVars, clockVars, cancelVars
<1>20. ASSUME Cleanup PROVE (sent' # sent => leader \in {"alive", "zombie"})
  BY <1>20 DEF Cleanup, groupVars, clockVars, cancelVars, KillGroup,
     SupervisorInv, ChildPlace, Loop
<1>21. ASSUME Unbind PROVE (sent' # sent => leader \in {"alive", "zombie"})
  BY <1>21 DEF Unbind, groupVars, clockVars
<1>22. ASSUME NEW how \in Endings, LeaderEnds(how)
      PROVE (sent' # sent => leader \in {"alive", "zombie"})
  BY <1>22 DEF LeaderEnds, clockVars, cancelVars
<1>23. ASSUME NEW d \in Descendant, Fork(d)
      PROVE (sent' # sent => leader \in {"alive", "zombie"})
  BY <1>23 DEF Fork, clockVars, cancelVars
<1>24. ASSUME NEW d \in Descendant, MemberEnds(d)
      PROVE (sent' # sent => leader \in {"alive", "zombie"})
  BY <1>24 DEF MemberEnds, clockVars, cancelVars
<1>25. ASSUME NEW s \in Delivered, SignalSupervisor(s)
      PROVE (sent' # sent => leader \in {"alive", "zombie"})
  BY <1>25 DEF SignalSupervisor, groupVars, clockVars, cancelVars, Ended
<1>26. ASSUME RunExpires PROVE (sent' # sent => leader \in {"alive", "zombie"})
  BY <1>26 DEF RunExpires, groupVars, cancelVars, Ended
<1>27. ASSUME GraceExpires
      PROVE (sent' # sent => leader \in {"alive", "zombie"})
  BY <1>27 DEF GraceExpires, groupVars, cancelVars, Ended
<1>28. ASSUME Killed PROVE (sent' # sent => leader \in {"alive", "zombie"})
  BY <1>28 DEF Killed, clockVars, Ended
<1>29. ASSUME NEW c \in Client, Connect(c)
      PROVE (sent' # sent => leader \in {"alive", "zombie"})
  BY <1>29 DEF Connect, groupVars, clockVars, Move
<1>30. ASSUME NEW c \in Client, Request(c)
      PROVE (sent' # sent => leader \in {"alive", "zombie"})
  BY <1>30 DEF Request, groupVars, clockVars, Move
<1>31. CASE UNCHANGED vars
  BY <1>31 DEF vars, groupVars, clockVars, cancelVars
<1>32. QED
  BY <1>1, <1>2, <1>3, <1>4, <1>5, <1>6, <1>7, <1>8, <1>9, <1>10, <1>11,
     <1>12, <1>13, <1>14, <1>15, <1>16, <1>17, <1>18, <1>19, <1>20, <1>21,
     <1>22, <1>23, <1>24, <1>25, <1>26, <1>27, <1>28, <1>29, <1>30, <1>31
     DEF Next, Supervise, Workload, Cancel, Environment, Terminated

(***************************************************************************)
(* No signal is ever sent to a group whose leader has been reaped, so that *)
(* none can reach processes of somebody else under a reused number.        *)
(***************************************************************************)
THEOREM NoSignalAfterReapHolds == Spec => NoSignalAfterReap
<1>1. SupervisorInv /\ [Next]_vars =>
          [sent' # sent => leader \in {"alive", "zombie"}]_vars
  BY SignalledAlive
<1>2. QED
  BY <1>1, SupervisorInvariant, PTL DEF Spec, NoSignalAfterReap

\* SIGKILL comes from Grace, once the period is over, or from a failure.
LEMMA KilledLate ==
    SupervisorInv /\ [Next]_vars => ((SIGKILL \in sent' \ sent) => graceOver \/ error # "none")
<1> SUFFICES ASSUME SupervisorInv, [Next]_vars
      PROVE ((SIGKILL \in sent' \ sent) => graceOver \/ error # "none")
  OBVIOUS
<1>1. ASSUME Bind
      PROVE ((SIGKILL \in sent' \ sent) => graceOver \/ error # "none")
  BY <1>1 DEF Bind, groupVars, clockVars, cancelVars
<1>2. ASSUME NEW kind \in ErrorKinds, BindFails(kind)
      PROVE ((SIGKILL \in sent' \ sent) => graceOver \/ error # "none")
  BY <1>2 DEF BindFails, groupVars, clockVars, cancelVars
<1>3. ASSUME Spawn
      PROVE ((SIGKILL \in sent' \ sent) => graceOver \/ error # "none")
  BY <1>3 DEF Spawn, clockVars, cancelVars
<1>4. ASSUME NEW kind \in ErrorKinds, SpawnFails(kind)
      PROVE ((SIGKILL \in sent' \ sent) => graceOver \/ error # "none")
  BY <1>4 DEF SpawnFails, groupVars, clockVars, cancelVars
<1>5. ASSUME Transfer
      PROVE ((SIGKILL \in sent' \ sent) => graceOver \/ error # "none")
  BY <1>5 DEF Transfer, groupVars, clockVars, cancelVars
<1>6. ASSUME MarkRunning
      PROVE ((SIGKILL \in sent' \ sent) => graceOver \/ error # "none")
  BY <1>6 DEF MarkRunning, groupVars, cancelVars
<1>7. ASSUME NEW kind \in ErrorKinds, MarkRunningFails(kind)
      PROVE ((SIGKILL \in sent' \ sent) => graceOver \/ error # "none")
  BY <1>7 DEF MarkRunningFails, groupVars, clockVars, cancelVars
<1>8. ASSUME StillRunning
      PROVE ((SIGKILL \in sent' \ sent) => graceOver \/ error # "none")
  BY <1>8 DEF StillRunning, groupVars, clockVars, cancelVars
<1>9. ASSUME Reap
      PROVE ((SIGKILL \in sent' \ sent) => graceOver \/ error # "none")
  BY <1>9 DEF Reap, clockVars, cancelVars
<1>10. ASSUME TryWaitFails
      PROVE ((SIGKILL \in sent' \ sent) => graceOver \/ error # "none")
  BY <1>10 DEF TryWaitFails, groupVars, clockVars, cancelVars
<1>11. ASSUME HandleSignals
      PROVE ((SIGKILL \in sent' \ sent) => graceOver \/ error # "none")
  BY <1>11, FirstIsPending DEF HandleSignals, groupVars, clockVars,
     cancelVars, Send, SupervisorInv, ChildPlace, TypeOK, Terminators,
     SIGINT, SIGQUIT, SIGTERM, SIGKILL
<1>12. ASSUME Accept
      PROVE ((SIGKILL \in sent' \ sent) => graceOver \/ error # "none")
  BY <1>12 DEF Accept, groupVars, clockVars
<1>13. ASSUME NothingToAccept
      PROVE ((SIGKILL \in sent' \ sent) => graceOver \/ error # "none")
  BY <1>13 DEF NothingToAccept, groupVars, clockVars, cancelVars
<1>14. ASSUME Obey
      PROVE ((SIGKILL \in sent' \ sent) => graceOver \/ error # "none")
  BY <1>14 DEF Obey, clockVars, Send, SupervisorInv, ChildPlace, TypeOK,
     Terminators, SIGINT, SIGQUIT, SIGTERM, SIGKILL
<1>15. ASSUME ReadNothing
      PROVE ((SIGKILL \in sent' \ sent) => graceOver \/ error # "none")
  BY <1>15 DEF ReadNothing, groupVars, clockVars, cancelVars
<1>16. ASSUME Refuse
      PROVE ((SIGKILL \in sent' \ sent) => graceOver \/ error # "none")
  BY <1>16 DEF Refuse, groupVars, clockVars
<1>17. ASSUME MaxRun
      PROVE ((SIGKILL \in sent' \ sent) => graceOver \/ error # "none")
  BY <1>17 DEF MaxRun, groupVars, clockVars, cancelVars, Send, SupervisorInv,
     ChildPlace, TypeOK, Terminators, SIGINT, SIGQUIT, SIGTERM, SIGKILL
<1>18. ASSUME Grace
      PROVE ((SIGKILL \in sent' \ sent) => graceOver \/ error # "none")
  BY <1>18 DEF Grace, groupVars, clockVars, cancelVars, KillGroup, Escalate,
     Terminators, SIGINT, SIGQUIT, SIGTERM, SIGKILL
<1>19. ASSUME RestoreTerminal
      PROVE ((SIGKILL \in sent' \ sent) => graceOver \/ error # "none")
  BY <1>19 DEF RestoreTerminal, groupVars, clockVars, cancelVars
<1>20. ASSUME Cleanup
      PROVE ((SIGKILL \in sent' \ sent) => graceOver \/ error # "none")
  BY <1>20 DEF Cleanup, groupVars, clockVars, cancelVars, KillGroup,
     SupervisorInv, ChildPlace, TypeOK, Terminators, SIGINT, SIGQUIT,
     SIGTERM, SIGKILL
<1>21. ASSUME Unbind
      PROVE ((SIGKILL \in sent' \ sent) => graceOver \/ error # "none")
  BY <1>21 DEF Unbind, groupVars, clockVars
<1>22. ASSUME NEW how \in Endings, LeaderEnds(how)
      PROVE ((SIGKILL \in sent' \ sent) => graceOver \/ error # "none")
  BY <1>22 DEF LeaderEnds, clockVars, cancelVars
<1>23. ASSUME NEW d \in Descendant, Fork(d)
      PROVE ((SIGKILL \in sent' \ sent) => graceOver \/ error # "none")
  BY <1>23 DEF Fork, clockVars, cancelVars
<1>24. ASSUME NEW d \in Descendant, MemberEnds(d)
      PROVE ((SIGKILL \in sent' \ sent) => graceOver \/ error # "none")
  BY <1>24 DEF MemberEnds, clockVars, cancelVars
<1>25. ASSUME NEW s \in Delivered, SignalSupervisor(s)
      PROVE ((SIGKILL \in sent' \ sent) => graceOver \/ error # "none")
  BY <1>25 DEF SignalSupervisor, groupVars, clockVars, cancelVars, Ended
<1>26. ASSUME RunExpires
      PROVE ((SIGKILL \in sent' \ sent) => graceOver \/ error # "none")
  BY <1>26 DEF RunExpires, groupVars, cancelVars, Ended
<1>27. ASSUME GraceExpires
      PROVE ((SIGKILL \in sent' \ sent) => graceOver \/ error # "none")
  BY <1>27 DEF GraceExpires, groupVars, cancelVars, Ended
<1>28. ASSUME Killed
      PROVE ((SIGKILL \in sent' \ sent) => graceOver \/ error # "none")
  BY <1>28 DEF Killed, clockVars, Ended
<1>29. ASSUME NEW c \in Client, Connect(c)
      PROVE ((SIGKILL \in sent' \ sent) => graceOver \/ error # "none")
  BY <1>29 DEF Connect, groupVars, clockVars, Move
<1>30. ASSUME NEW c \in Client, Request(c)
      PROVE ((SIGKILL \in sent' \ sent) => graceOver \/ error # "none")
  BY <1>30 DEF Request, groupVars, clockVars, Move
<1>31. CASE UNCHANGED vars
  BY <1>31 DEF vars, groupVars, clockVars, cancelVars
<1>32. QED
  BY <1>1, <1>2, <1>3, <1>4, <1>5, <1>6, <1>7, <1>8, <1>9, <1>10, <1>11,
     <1>12, <1>13, <1>14, <1>15, <1>16, <1>17, <1>18, <1>19, <1>20, <1>21,
     <1>22, <1>23, <1>24, <1>25, <1>26, <1>27, <1>28, <1>29, <1>30, <1>31
     DEF Next, Supervise, Workload, Cancel, Environment, Terminated

(***************************************************************************)
(* A workload is killed only after it had the grace period, or because its *)
(* supervision has failed.                                                 *)
(***************************************************************************)
THEOREM KillOnlyAfterGraceHolds == Spec => KillOnlyAfterGrace
<1>1. SupervisorInv /\ [Next]_vars =>
          [(SIGKILL \in sent' \ sent) => graceOver \/ error # "none"]_vars
  BY KilledLate
<1>2. QED
  BY <1>1, SupervisorInvariant, PTL DEF Spec, KillOnlyAfterGrace

\* Whoever signals the group notes why.
LEMMA SentKnownNext ==
    SupervisorInv /\ SentKnown /\ [Next]_vars => SentKnown'
<1> SUFFICES ASSUME SupervisorInv, SentKnown, [Next]_vars PROVE SentKnown'
  OBVIOUS
<1> USE DEF SentKnown
<1>1. ASSUME Bind PROVE SentKnown'
  BY <1>1 DEF Bind, groupVars, clockVars, cancelVars
<1>2. ASSUME NEW kind \in ErrorKinds, BindFails(kind) PROVE SentKnown'
  BY <1>2 DEF BindFails, groupVars, clockVars, cancelVars, ErrorKinds
<1>3. ASSUME Spawn PROVE SentKnown'
  BY <1>3 DEF Spawn, clockVars, cancelVars
<1>4. ASSUME NEW kind \in ErrorKinds, SpawnFails(kind) PROVE SentKnown'
  BY <1>4 DEF SpawnFails, groupVars, clockVars, cancelVars, ErrorKinds
<1>5. ASSUME Transfer PROVE SentKnown'
  BY <1>5 DEF Transfer, groupVars, clockVars, cancelVars
<1>6. ASSUME MarkRunning PROVE SentKnown'
  BY <1>6 DEF MarkRunning, groupVars, cancelVars
<1>7. ASSUME NEW kind \in ErrorKinds, MarkRunningFails(kind) PROVE SentKnown'
  BY <1>7 DEF MarkRunningFails, groupVars, clockVars, cancelVars, ErrorKinds
<1>8. ASSUME StillRunning PROVE SentKnown'
  BY <1>8 DEF StillRunning, groupVars, clockVars, cancelVars
<1>9. ASSUME Reap PROVE SentKnown'
  BY <1>9 DEF Reap, clockVars, cancelVars
<1>10. ASSUME TryWaitFails PROVE SentKnown'
  BY <1>10 DEF TryWaitFails, groupVars, clockVars, cancelVars
<1>11. ASSUME HandleSignals PROVE SentKnown'
  BY <1>11, FirstIsPending DEF HandleSignals, groupVars, clockVars,
     cancelVars, Send, SupervisorInv, ChildPlace, TypeOK, Terminators,
     SIGINT, SIGQUIT, SIGTERM, SIGKILL
<1>12. ASSUME Accept PROVE SentKnown'
  BY <1>12 DEF Accept, groupVars, clockVars
<1>13. ASSUME NothingToAccept PROVE SentKnown'
  BY <1>13 DEF NothingToAccept, groupVars, clockVars, cancelVars
<1>14. ASSUME Obey PROVE SentKnown'
  BY <1>14 DEF Obey, clockVars, Send, SupervisorInv, ChildPlace, TypeOK,
     Terminators, SIGINT, SIGQUIT, SIGTERM, SIGKILL
<1>15. ASSUME ReadNothing PROVE SentKnown'
  BY <1>15 DEF ReadNothing, groupVars, clockVars, cancelVars
<1>16. ASSUME Refuse PROVE SentKnown'
  BY <1>16 DEF Refuse, groupVars, clockVars
<1>17. ASSUME MaxRun PROVE SentKnown'
  BY <1>17 DEF MaxRun, groupVars, clockVars, cancelVars, Send, SupervisorInv,
     ChildPlace, TypeOK, Terminators, SIGINT, SIGQUIT, SIGTERM, SIGKILL
<1>18. ASSUME Grace PROVE SentKnown'
  BY <1>18 DEF Grace, groupVars, clockVars, cancelVars, KillGroup, Escalate,
     SupervisorInv, ClockPlace
<1>19. ASSUME RestoreTerminal PROVE SentKnown'
  BY <1>19 DEF RestoreTerminal, groupVars, clockVars, cancelVars
<1>20. ASSUME Cleanup PROVE SentKnown'
  BY <1>20 DEF Cleanup, groupVars, clockVars, cancelVars, KillGroup,
     SupervisorInv, ChildPlace, TypeOK, Terminators, SIGINT, SIGQUIT,
     SIGTERM, SIGKILL
<1>21. ASSUME Unbind PROVE SentKnown'
  BY <1>21 DEF Unbind, groupVars, clockVars
<1>22. ASSUME NEW how \in Endings, LeaderEnds(how) PROVE SentKnown'
  BY <1>22 DEF LeaderEnds, clockVars, cancelVars
<1>23. ASSUME NEW d \in Descendant, Fork(d) PROVE SentKnown'
  BY <1>23 DEF Fork, clockVars, cancelVars
<1>24. ASSUME NEW d \in Descendant, MemberEnds(d) PROVE SentKnown'
  BY <1>24 DEF MemberEnds, clockVars, cancelVars
<1>25. ASSUME NEW s \in Delivered, SignalSupervisor(s) PROVE SentKnown'
  BY <1>25 DEF SignalSupervisor, groupVars, clockVars, cancelVars, Ended
<1>26. ASSUME RunExpires PROVE SentKnown'
  BY <1>26 DEF RunExpires, groupVars, cancelVars, Ended
<1>27. ASSUME GraceExpires PROVE SentKnown'
  BY <1>27 DEF GraceExpires, groupVars, cancelVars, Ended
<1>28. ASSUME Killed PROVE SentKnown'
  BY <1>28 DEF Killed, clockVars, Ended
<1>29. ASSUME NEW c \in Client, Connect(c) PROVE SentKnown'
  BY <1>29 DEF Connect, groupVars, clockVars, Move
<1>30. ASSUME NEW c \in Client, Request(c) PROVE SentKnown'
  BY <1>30 DEF Request, groupVars, clockVars, Move
<1>31. CASE UNCHANGED vars
  BY <1>31 DEF vars, groupVars, clockVars, cancelVars
<1>32. QED
  BY <1>1, <1>2, <1>3, <1>4, <1>5, <1>6, <1>7, <1>8, <1>9, <1>10, <1>11,
     <1>12, <1>13, <1>14, <1>15, <1>16, <1>17, <1>18, <1>19, <1>20, <1>21,
     <1>22, <1>23, <1>24, <1>25, <1>26, <1>27, <1>28, <1>29, <1>30, <1>31
     DEF Next, Supervise, Workload, Cancel, Environment, Terminated

(***************************************************************************)
(* Exit status 0 means that the workload came to its end by itself.        *)
(***************************************************************************)
THEOREM SuccessIsUnforcedHolds == Spec => []SuccessIsUnforced
<1>1. Init => SentKnown
  BY DEF Init, SentKnown
<1>2. SupervisorInv /\ SentKnown => SuccessIsUnforced
  <2> SUFFICES ASSUME SupervisorInv, SentKnown, ExitCode = 0
               PROVE  status = 0 /\ sent = {}
    BY DEF SuccessIsUnforced
  <2>1. terminating \in Nat /\ status \in Nat /\ error \in ErrorKinds \union {"none"}
    BY DEF SupervisorInv, TypeOK, Terminators, SIGINT, SIGQUIT, SIGTERM
  <2>2. error = "none"
    BY <2>1 DEF ExitCode, ErrorKinds
  <2>3. terminating = 0
    BY <2>1, <2>2 DEF ExitCode, KilledBy
  <2>4. QED
    BY <2>2, <2>3 DEF ExitCode, SentKnown
<1>3. QED
  BY <1>1, <1>2, SupervisorInvariant, SentKnownNext, PTL DEF Spec

---------------------------------------------------------------------------
(* The life of a job                                                       *)

\* Every step is one of the job or invisible to it.
LEMMA StepOfJob ==
    SupervisorInv /\ [Next]_vars => [Life!Next]_(Life!vars)
<1> SUFFICES ASSUME SupervisorInv, [Next]_vars PROVE [Life!Next]_(Life!vars)
  OBVIOUS
<1> USE DEF Stage, Child, Ended, Life!vars
<1>1. ASSUME Bind PROVE [Life!Next]_(Life!vars)
  BY <1>1 DEF Bind, groupVars, clockVars, cancelVars, SupervisorInv, TypeOK,
     ChildPlace, ClockPlace, GuardPlace, Loop, Life!Next, Life!Bind
<1>2. ASSUME NEW kind \in ErrorKinds, BindFails(kind)
      PROVE [Life!Next]_(Life!vars)
  BY <1>2 DEF BindFails, groupVars, clockVars, cancelVars, SupervisorInv,
     TypeOK, ChildPlace, ClockPlace, GuardPlace, Loop, Life!Next, Life!Return
<1>3. ASSUME Spawn PROVE [Life!Next]_(Life!vars)
  BY <1>3 DEF Spawn, clockVars, cancelVars, SupervisorInv, TypeOK,
     ChildPlace, ClockPlace, GuardPlace, Loop, Life!Next, Life!Spawn
<1>4. ASSUME NEW kind \in ErrorKinds, SpawnFails(kind)
      PROVE [Life!Next]_(Life!vars)
  BY <1>4 DEF SpawnFails, groupVars, clockVars, cancelVars, SupervisorInv,
     TypeOK, ChildPlace, ClockPlace, GuardPlace, Loop
<1>5. ASSUME Transfer PROVE [Life!Next]_(Life!vars)
  BY <1>5 DEF Transfer, groupVars, clockVars, cancelVars, SupervisorInv,
     TypeOK, ChildPlace, ClockPlace, GuardPlace, Loop
<1>6. ASSUME MarkRunning PROVE [Life!Next]_(Life!vars)
  BY <1>6 DEF MarkRunning, groupVars, cancelVars, SupervisorInv, TypeOK,
     ChildPlace, ClockPlace, GuardPlace, Loop, Life!Next, Life!MarkRunning
<1>7. ASSUME NEW kind \in ErrorKinds, MarkRunningFails(kind)
      PROVE [Life!Next]_(Life!vars)
  BY <1>7 DEF MarkRunningFails, groupVars, clockVars, cancelVars,
     SupervisorInv, TypeOK, ChildPlace, ClockPlace, GuardPlace, Loop
<1>8. ASSUME StillRunning PROVE [Life!Next]_(Life!vars)
  BY <1>8 DEF StillRunning, groupVars, clockVars, cancelVars, SupervisorInv,
     TypeOK, ChildPlace, ClockPlace, GuardPlace, Loop
<1>9. ASSUME Reap PROVE [Life!Next]_(Life!vars)
  BY <1>9 DEF Reap, clockVars, cancelVars, SupervisorInv, TypeOK, ChildPlace,
     ClockPlace, GuardPlace, Loop
<1>10. ASSUME TryWaitFails PROVE [Life!Next]_(Life!vars)
  BY <1>10 DEF TryWaitFails, groupVars, clockVars, cancelVars, SupervisorInv,
     TypeOK, ChildPlace, ClockPlace, GuardPlace, Loop
<1>11. ASSUME HandleSignals PROVE [Life!Next]_(Life!vars)
  BY <1>11 DEF HandleSignals, groupVars, clockVars, cancelVars, Send,
     SupervisorInv, TypeOK, ChildPlace, ClockPlace, GuardPlace, Loop
<1>12. ASSUME Accept PROVE [Life!Next]_(Life!vars)
  BY <1>12 DEF Accept, groupVars, clockVars, SupervisorInv, TypeOK,
     ChildPlace, ClockPlace, GuardPlace, Loop
<1>13. ASSUME NothingToAccept PROVE [Life!Next]_(Life!vars)
  BY <1>13 DEF NothingToAccept, groupVars, clockVars, cancelVars,
     SupervisorInv, TypeOK, ChildPlace, ClockPlace, GuardPlace, Loop
<1>14. ASSUME Obey PROVE [Life!Next]_(Life!vars)
  BY <1>14 DEF Obey, clockVars, Send, SupervisorInv, TypeOK, ChildPlace,
     ClockPlace, GuardPlace, Loop
<1>15. ASSUME ReadNothing PROVE [Life!Next]_(Life!vars)
  BY <1>15 DEF ReadNothing, groupVars, clockVars, cancelVars, SupervisorInv,
     TypeOK, ChildPlace, ClockPlace, GuardPlace, Loop
<1>16. ASSUME Refuse PROVE [Life!Next]_(Life!vars)
  BY <1>16 DEF Refuse, groupVars, clockVars, SupervisorInv, TypeOK,
     ChildPlace, ClockPlace, GuardPlace, Loop
<1>17. ASSUME MaxRun PROVE [Life!Next]_(Life!vars)
  BY <1>17 DEF MaxRun, groupVars, clockVars, cancelVars, Send, SupervisorInv,
     TypeOK, ChildPlace, ClockPlace, GuardPlace, Loop
<1>18. ASSUME Grace PROVE [Life!Next]_(Life!vars)
  BY <1>18 DEF Grace, groupVars, clockVars, cancelVars, KillGroup, Escalate,
     SupervisorInv, TypeOK, ChildPlace, ClockPlace, GuardPlace, Loop,
     Life!Next, Life!ChildExit
<1>19. ASSUME RestoreTerminal PROVE [Life!Next]_(Life!vars)
  BY <1>19 DEF RestoreTerminal, groupVars, clockVars, cancelVars,
     SupervisorInv, TypeOK, ChildPlace, ClockPlace, GuardPlace, Loop
<1>20. ASSUME Cleanup PROVE [Life!Next]_(Life!vars)
  BY <1>20 DEF Cleanup, groupVars, clockVars, cancelVars, KillGroup,
     SupervisorInv, TypeOK, ChildPlace, ClockPlace, GuardPlace, Loop,
     Life!Next, Life!ChildExit
<1>21. ASSUME Unbind PROVE [Life!Next]_(Life!vars)
  BY <1>21 DEF Unbind, groupVars, clockVars, SupervisorInv, TypeOK,
     ChildPlace, ClockPlace, GuardPlace, Loop, Life!Next, Life!Return
<1>22. ASSUME NEW how \in Endings, LeaderEnds(how)
      PROVE [Life!Next]_(Life!vars)
  BY <1>22 DEF LeaderEnds, clockVars, cancelVars, SupervisorInv, TypeOK,
     ChildPlace, ClockPlace, GuardPlace, Loop, Life!Next, Life!ChildExit
<1>23. ASSUME NEW d \in Descendant, Fork(d) PROVE [Life!Next]_(Life!vars)
  BY <1>23 DEF Fork, clockVars, cancelVars, SupervisorInv, TypeOK,
     ChildPlace, ClockPlace, GuardPlace, Loop
<1>24. ASSUME NEW d \in Descendant, MemberEnds(d) PROVE [Life!Next]_(Life!vars)
  BY <1>24 DEF MemberEnds, clockVars, cancelVars, SupervisorInv, TypeOK,
     ChildPlace, ClockPlace, GuardPlace, Loop
<1>25. ASSUME NEW s \in Delivered, SignalSupervisor(s)
      PROVE [Life!Next]_(Life!vars)
  BY <1>25 DEF SignalSupervisor, groupVars, clockVars, cancelVars, Ended,
     SupervisorInv, TypeOK, ChildPlace, ClockPlace, GuardPlace, Loop
<1>26. ASSUME RunExpires PROVE [Life!Next]_(Life!vars)
  BY <1>26 DEF RunExpires, groupVars, cancelVars, Ended, SupervisorInv,
     TypeOK, ChildPlace, ClockPlace, GuardPlace, Loop
<1>27. ASSUME GraceExpires PROVE [Life!Next]_(Life!vars)
  BY <1>27 DEF GraceExpires, groupVars, cancelVars, Ended, SupervisorInv,
     TypeOK, ChildPlace, ClockPlace, GuardPlace, Loop
<1>28. ASSUME Killed PROVE [Life!Next]_(Life!vars)
  BY <1>28 DEF Killed, clockVars, Ended, SupervisorInv, TypeOK, ChildPlace,
     ClockPlace, GuardPlace, Loop, Life!Next, Life!Killed
<1>29. ASSUME NEW c \in Client, Connect(c) PROVE [Life!Next]_(Life!vars)
  BY <1>29 DEF Connect, groupVars, clockVars, Move, SupervisorInv, TypeOK,
     ChildPlace, ClockPlace, GuardPlace, Loop
<1>30. ASSUME NEW c \in Client, Request(c) PROVE [Life!Next]_(Life!vars)
  BY <1>30 DEF Request, groupVars, clockVars, Move, SupervisorInv, TypeOK,
     ChildPlace, ClockPlace, GuardPlace, Loop
<1>31. CASE UNCHANGED vars
  BY <1>31 DEF vars, groupVars, clockVars, cancelVars
<1>32. QED
  BY <1>1, <1>2, <1>3, <1>4, <1>5, <1>6, <1>7, <1>8, <1>9, <1>10, <1>11,
     <1>12, <1>13, <1>14, <1>15, <1>16, <1>17, <1>18, <1>19, <1>20, <1>21,
     <1>22, <1>23, <1>24, <1>25, <1>26, <1>27, <1>28, <1>29, <1>30, <1>31
     DEF Next, Supervise, Workload, Cancel, Environment, Terminated

(***************************************************************************)
(* The supervisor implements the life of a job that the scheduler assumes: *)
(* the socket before the workload, the workload dead before the return.    *)
(***************************************************************************)
THEOREM SupervisorImplementsJob == Spec => ImplementsJob
<1>1. Init => Life!Init
  BY DEF Init, Life!Init, Stage, Child, Ended
<1>2. QED
  BY <1>1, StepOfJob, SupervisorInvariant, PTL DEF Spec, ImplementsJob,
     Life!Spec
=============================================================================
