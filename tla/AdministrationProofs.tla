------------------------ MODULE AdministrationProofs ------------------------
(***************************************************************************)
(* The theorems of Administration, for any operators, commands, settings   *)
(* and bounds, with and without errors of the file system.                 *)
(***************************************************************************)
EXTENDS AdministrationInvariants, TLAPS

USE NobodyAssumption, CommandAssumption, SettingsAssumption, BoundsAssumption
USE DEF At, NoFile

-----------------------------------------------------------------------------
(* What the steps do to the locals of a process                            *)

\* A step of o leaves the locals of the others alone.
OthersKept(o) == \A p \in Operator \ {o} : op'[p] = op[p]

LEMMA GotoEffect ==
    ASSUME op \in [Operator -> Locals], NEW o \in Operator, NEW place \in Places,
           Goto(o, place)
    PROVE  /\ op' \in [Operator -> Locals] /\ OthersKept(o)
           /\ op'[o] = [op[o] EXCEPT !.at = place]
BY DEF Goto, Locals, OthersKept

LEMMA DefaultsTyped == Defaults \in Settings /\ 0 \in 0..2
BY DEF Defaults, Settings

LEMMA StopEffect ==
    ASSUME op \in [Operator -> Locals], NEW o \in Operator, NEW error \in Errors,
           Stop(o, error)
    PROVE  /\ op' \in [Operator -> Locals] /\ OthersKept(o)
           /\ op'[o] = Process("done", op[o].command, error)
<1>1. "done" \in Places
  BY DEF Places
<1>2. Process("done", op[o].command, error) \in Locals
  BY <1>1, DefaultsTyped DEF Process, Locals
<1> QED
  BY <1>2 DEF Stop, OthersKept

LEMMA AfterUpdateEffect ==
    ASSUME op \in [Operator -> Locals], NEW o \in Operator, NEW error \in Errors,
           AfterUpdate(o, error)
    PROVE  /\ op' \in [Operator -> Locals] /\ OthersKept(o)
           /\ \/ ~op[o].enabled /\ op'[o] = Process("done", op[o].command, error)
              \/ /\ op[o].enabled
                 /\ op'[o] = [op[o] EXCEPT !.at = "resume", !.error = error]
<1>1. CASE op[o].enabled
  <2>1. op' = [op EXCEPT ![o] = [op[o] EXCEPT !.at = "resume", !.error = error]]
    BY <1>1 DEF AfterUpdate
  <2>2. "resume" \in Places
    BY DEF Places
  <2>3. [op[o] EXCEPT !.at = "resume", !.error = error] \in Locals
    BY <2>2 DEF Locals
  <2> QED
    BY <1>1, <2>1, <2>3 DEF OthersKept
<1>2. CASE ~op[o].enabled
  BY <1>2, StopEffect DEF AfterUpdate
<1> QED
  BY <1>1, <1>2

\* Behind initialize there are three ways to go on.
LEMMA ProceedEffect ==
    ASSUME op \in [Operator -> Locals], NEW o \in Operator, Proceed(o)
    PROVE  /\ op' \in [Operator -> Locals] /\ OthersKept(o)
           /\ \/ op'[o] = [op[o] EXCEPT !.at = "probe"]
              \/ op'[o] = [op[o] EXCEPT !.at = "set_drain"]
              \/ op'[o] = Process("done", op[o].command, "none")
<1>1. Goto(o, "probe") \/ Goto(o, "set_drain") \/ Stop(o, "none")
  BY DEF Proceed
<1>2. "probe" \in Places /\ "set_drain" \in Places /\ "none" \in Errors
  BY DEF Places, Errors
<1> QED
  BY <1>1, <1>2, GotoEffect, StopEffect

\* A write that succeeds has written, one that fails may have.
LEMMA WrittenEffect ==
    ASSUME NEW old, NEW new, NEW w \in Written(old, new)
    PROVE  /\ w[1] \in {old, new}
           /\ w[2] \in BOOLEAN
           /\ w[2] => w[1] = new
<1>1. w = <<new, TRUE>> \/ w = <<old, FALSE>> \/ w = <<new, FALSE>>
  BY DEF Written
<1>2. CASE w = <<new, TRUE>>
  BY <1>2
<1>3. CASE w = <<old, FALSE>>
  BY <1>3
<1>4. CASE w = <<new, FALSE>>
  BY <1>4
<1> QED
  BY <1>1, <1>2, <1>3, <1>4

-----------------------------------------------------------------------------
(* Type correctness                                                        *)

LEMMA TypeInit == Init => TypeOK
<1> SUFFICES ASSUME Init PROVE TypeOK
  OBVIOUS
<1>1. \A c \in Command : Process("idle", c, "none") \in Locals
  BY DefaultsTyped DEF Process, Locals, Places, Errors
<1>2. PICK told \in [Operator -> Command] :
        op = [o \in Operator |-> Process("idle", told[o], "none")]
  BY DEF Init
<1>3. op \in [Operator -> Locals]
  BY <1>1, <1>2
<1>4. LockHeld
  BY <1>2 DEF Init, LockHeld, Process
<1>5. /\ queueLock \in Operator \cup {Nobody} /\ pool \in {"idle", "busy", "stale"}
      /\ file \in Settings \cup {Absent, Broken}
      /\ drain \in BOOLEAN /\ manual \in BOOLEAN /\ undone \in BOOLEAN
      /\ overwrote \in BOOLEAN /\ lost \in BOOLEAN
  BY DEF Init
<1>6. capacity \in 0..2 /\ crashes \in 0..MaxCrashes /\ edits \in 0..MaxEdits
  BY DEF Init
<1> QED
  BY <1>3, <1>4, <1>5, <1>6, Zenon DEF TypeOK

\* Every step of o leaves well-formed locals, and those of the others alone.
LEMMA StepEffect ==
    ASSUME TypeOK, NEW o \in Operator, Step(o) \/ Crash(o)
    PROVE  op' \in [Operator -> Locals] /\ OthersKept(o)
<1> DEFINE Kept == op' \in [Operator -> Locals] /\ OthersKept(o)
<1>0. /\ op \in [Operator -> Locals] /\ op[o] \in Locals
      /\ op[o].error \in Errors
      /\ capacity \in 0..2 /\ drain \in BOOLEAN
  BY DEF TypeOK, Locals
<1>1. ASSUME NEW place \in Places, Goto(o, place) PROVE Kept
  BY <1>0, <1>1, GotoEffect
<1>2. ASSUME NEW error \in Errors, Stop(o, error) PROVE Kept
  BY <1>0, <1>2, StopEffect
<1>3. ASSUME NEW error \in Errors, AfterUpdate(o, error) PROVE Kept
  BY <1>0, <1>3, AfterUpdateEffect
<1>4. ASSUME Proceed(o) PROVE Kept
  BY <1>0, <1>4, ProceedEffect
<1>5. ASSUME NEW l \in Locals, op' = [op EXCEPT ![o] = l] PROVE Kept
  BY <1>0, <1>5 DEF OthersKept
<1>6. /\ {"none", "refused", "write", "persist", "rollback", "drain", "killed"} = Errors
      /\ {"initialize", "create", "drain_on", "begin", "write", "save", "rollback",
          "unlock"} \subseteq Places
  BY DEF Errors, Places
<1> SUFFICES Kept
  OBVIOUS
<1> HIDE DEF Kept
<1>7. CASE Start(o)
  <2>1. LoadSafe \in Settings
    BY DefaultsTyped DEF LoadSafe, TypeOK, Settings, Absent, Broken, Defaults
  <2>2. [op[o] EXCEPT !.at = "initialize", !.loaded = LoadSafe] \in Locals
    BY <1>0, <1>6, <2>1 DEF Locals
  <2> QED
    BY <1>5, <1>7, <2>2 DEF Start
<1>8. CASE Initialize(o)
  BY <1>1, <1>2, <1>4, <1>6, <1>8 DEF Initialize
<1>9. CASE Create(o)
  BY <1>2, <1>4, <1>6, <1>9 DEF Create
<1>10. CASE SetDrain(o)
  BY <1>2, <1>6, <1>10 DEF SetDrain
<1>11. CASE Probe(o)
  <2>1. \A e \in BOOLEAN, q \in {"drain_on", "begin"} :
            [op[o] EXCEPT !.enabled = e, !.at = q] \in Locals
    BY <1>0, <1>6 DEF Locals
  <2>2. (op[o].command.drain /\ ~drain) \in BOOLEAN
    OBVIOUS
  <2> QED
    BY <1>5, <1>11, <2>1, <2>2 DEF Probe
<1>12. CASE DrainOn(o)
  BY <1>1, <1>2, <1>6, <1>12 DEF DrainOn
<1>13. CASE Refuse(o)
  BY <1>3, <1>6, <1>13 DEF Refuse
<1>14. CASE Begin(o)
  <2>1. [op[o] EXCEPT !.at = "write", !.previous = capacity] \in Locals
    BY <1>0, <1>6 DEF Locals
  <2> QED
    BY <1>5, <1>14, <2>1 DEF Begin
<1>15. CASE Write(o)
  <2>1. [op[o] EXCEPT !.at = "unlock", !.error = "write"] \in Locals
    BY <1>0, <1>6 DEF Locals
  <2> QED
    BY <1>1, <1>5, <1>6, <1>15, <2>1 DEF Write
<1>16. CASE Save(o)
  <2>1. [op[o] EXCEPT !.at = "rollback", !.error = "persist"] \in Locals
    BY <1>0, <1>6 DEF Locals
  <2> QED
    BY <1>1, <1>5, <1>6, <1>16, <2>1 DEF Save
<1>17. CASE Rollback(o)
  <2>1. \A e \in {"persist", "rollback"} :
            [op[o] EXCEPT !.at = "unlock", !.error = e] \in Locals
    BY <1>0, <1>6 DEF Locals
  <2> QED
    BY <1>5, <1>17, <2>1 DEF Rollback
<1>18. CASE Unlock(o)
  BY <1>0, <1>3, <1>18 DEF Unlock
<1>19. CASE Resume(o)
  BY <1>0, <1>2, <1>6, <1>19 DEF Resume
<1>20. CASE Crash(o)
  BY <1>2, <1>6, <1>20 DEF Crash
<1> QED
  BY <1>7, <1>8, <1>9, <1>10, <1>11, <1>12, <1>13, <1>14, <1>15, <1>16, <1>17,
     <1>18, <1>19, <1>20 DEF Step

\* queue.lock is taken at the start of the transaction and given up at its end.
LEMMA LockStep ==
    ASSUME TypeOK, NEW o \in Operator, Step(o) \/ Crash(o)
    PROVE  LockHeld' /\ queueLock' \in Operator \cup {Nobody}
<1> USE DEF Holding
<1>1. op \in [Operator -> Locals] /\ op[o] \in Locals /\ LockHeld
      /\ queueLock \in Operator \cup {Nobody}
  BY DEF TypeOK
<1>2. op' \in [Operator -> Locals] /\ OthersKept(o)
  BY StepEffect
<1>3. /\ op'[o].at \in Holding <=> queueLock' = o
      /\ \/ queueLock' = queueLock
         \/ queueLock' = Nobody /\ queueLock = o
         \/ queueLock' = o /\ queueLock = Nobody
  <2> USE DEF Goto, Stop, Process, Locals
  <2>1. CASE Start(o)
    BY <1>1, <2>1 DEF Start, LockHeld
  <2>2. CASE Initialize(o)
    <3>1. op'[o].at \in {"create", "probe", "set_drain", "done"}
      BY <1>1, <2>2 DEF Initialize, Proceed
    <3> QED
      BY <1>1, <2>2, <3>1 DEF Initialize, LockHeld
  <2>3. CASE Create(o)
    <3>1. Proceed(o) \/ Stop(o, "write")
      BY <2>3 DEF Create
    <3>2. op'[o].at \in {"probe", "set_drain", "done"}
      BY <1>1, <3>1 DEF Proceed
    <3> QED
      BY <1>1, <2>3, <3>2 DEF Create, LockHeld
  <2>4. CASE SetDrain(o)
    BY <1>1, <2>4 DEF SetDrain, LockHeld
  <2>5. CASE Probe(o)
    BY <1>1, <2>5 DEF Probe, LockHeld
  <2>6. CASE DrainOn(o)
    BY <1>1, <2>6 DEF DrainOn, LockHeld
  <2>7. CASE Refuse(o)
    BY <1>1, <2>7 DEF Refuse, AfterUpdate, LockHeld
  <2>8. CASE Begin(o)
    BY <1>1, <2>8 DEF Begin, LockHeld
  <2>9. CASE Write(o)
    BY <1>1, <2>9 DEF Write, LockHeld
  <2>10. CASE Save(o)
    BY <1>1, <2>10 DEF Save, LockHeld
  <2>11. CASE Rollback(o)
    BY <1>1, <2>11 DEF Rollback, LockHeld
  <2>12. CASE Unlock(o)
    <3>1. op'[o].at \in {"resume", "done"}
      BY <1>1, <2>12 DEF Unlock, AfterUpdate
    <3>2. queueLock = o /\ queueLock' = Nobody /\ Nobody # o
      BY <1>1, <2>12 DEF Unlock, LockHeld
    <3> QED
      BY <3>1, <3>2
  <2>13. CASE Resume(o)
    BY <1>1, <2>13 DEF Resume, LockHeld
  <2>14. CASE Crash(o)
    <3>1. op'[o].at = "done"
      BY <1>1, <2>14 DEF Crash
    <3>2. queueLock' = IF queueLock = o THEN Nobody ELSE queueLock
      BY <2>14 DEF Crash
    <3>3. queueLock' # o /\ (queueLock' = queueLock \/ (queueLock' = Nobody /\ queueLock = o))
      BY <3>2
    <3> QED
      BY <3>1, <3>3
  <2> QED
    BY <2>1, <2>2, <2>3, <2>4, <2>5, <2>6, <2>7, <2>8, <2>9, <2>10, <2>11, <2>12,
       <2>13, <2>14 DEF Step
<1> QED
  BY <1>1, <1>2, <1>3 DEF LockHeld, OthersKept

\* The capacity that is written is that of a command that was checked.
LEMMA FilesStep ==
    ASSUME TypeOK, Progress, NEW o \in Operator, Step(o) \/ Crash(o)
    PROVE  capacity' \in 0..2 /\ file' \in Settings \cup {Absent, Broken}
<1>1. /\ op[o] \in Locals /\ op[o].loaded \in Settings /\ capacity \in 0..2
      /\ op[o].loaded.capacity \in 1..2
      /\ file \in Settings \cup {Absent, Broken}
  BY DEF TypeOK, Locals, Settings
<1>2. CASE Create(o)
  BY <1>1, <1>2, WrittenEffect DEF Create
<1>3. CASE Write(o)
  BY <1>1, <1>3, WrittenEffect DEF Write, Progress, Holding
<1>4. CASE Rollback(o)
  BY <1>1, <1>4, WrittenEffect DEF Rollback, Progress, Holding
<1>5. CASE Save(o)
  <2>1. ToSave(o) \in Settings
    BY <1>1, <1>5 DEF Save, Progress, Holding, ToSave, Settings
  <2> QED
    BY <1>1, <1>5, <2>1, WrittenEffect DEF Save
<1>6. ASSUME UNCHANGED capacity, UNCHANGED file
      PROVE  capacity' \in 0..2 /\ file' \in Settings \cup {Absent, Broken}
  BY <1>1, <1>6 DEF Absent, Broken, Defaults
<1> QED
  BY <1>2, <1>3, <1>4, <1>5, <1>6
     DEF Step, Start, Initialize, SetDrain, Probe, DrainOn, Refuse, Begin, Unlock,
         Resume, Crash

\* The domains of the variables are kept by every step.
LEMMA TypeStep ==
    ASSUME TypeOK, Progress, Next
    PROVE  TypeOK'
<1>1. ASSUME NEW o \in Operator, Step(o) \/ Crash(o)
      PROVE  TypeOK'
  <2>1. op' \in [Operator -> Locals]
    BY <1>1, StepEffect
  <2>2. LockHeld' /\ queueLock' \in Operator \cup {Nobody}
    BY <1>1, LockStep
  <2>3. capacity' \in 0..2 /\ file' \in Settings \cup {Absent, Broken}
    BY <1>1, FilesStep
  <2>4. crashes' \in 0..MaxCrashes /\ edits' \in 0..MaxEdits
    BY <1>1 DEF TypeOK, Step, Start, Initialize, Create, SetDrain, Probe, DrainOn,
                Refuse, Begin, Write, Save, Rollback, Unlock, Resume, Crash
  <2>5. /\ pool' \in {"idle", "busy", "stale"}
        /\ drain' \in BOOLEAN /\ manual' \in BOOLEAN /\ undone' \in BOOLEAN
        /\ overwrote' \in BOOLEAN /\ lost' \in BOOLEAN
    BY <1>1 DEF TypeOK, Step, Start, Initialize, Create, SetDrain, Probe, DrainOn,
                Refuse, Begin, Write, Save, Rollback, Unlock, Resume, Crash
  <2> QED
    BY <2>1, <2>2, <2>3, <2>4, <2>5, Zenon DEF TypeOK, Absent, Broken, Defaults
<1>2. CASE PoolChanges
  BY <1>2 DEF PoolChanges, TypeOK, LockHeld, Absent, Broken, Defaults
<1>3. CASE Edit
  <2>1. /\ op \in [Operator -> Locals]
        /\ op' = [o \in Operator |-> [op[o] EXCEPT
                    !.outdated = op[o].at \notin {"idle", "done"}]]
    BY <1>3 DEF Edit, TypeOK
  <2>2. op' \in [Operator -> Locals]
    BY <2>1 DEF Locals
  <2>3. \A o \in Operator : op'[o].at = op[o].at
    BY <2>1 DEF Locals
  <2>4. LockHeld'
    BY <1>3, <2>3 DEF Edit, LockHeld, TypeOK
  <2>5. /\ edits' \in 0..MaxEdits
        /\ file' \in Settings \cup {Absent, Broken}'
    BY <1>3 DEF Edit, TypeOK, Absent, Broken, Defaults
  <2> QED
    BY <1>3, <2>2, <2>4, <2>5 DEF Edit, TypeOK, Absent, Broken, Defaults
<1> QED
  BY <1>1, <1>2, <1>3 DEF Next

-----------------------------------------------------------------------------
(* The lock, the flag and the capacity file                                *)

\* Who sets or removes the flag, or starts a job, finds the lock free.
LEMMA HeldIdleStep ==
    ASSUME TypeOK, HeldIdle, Next
    PROVE  HeldIdle'
<1> USE DEF HeldIdle
<1>1. ASSUME NEW o \in Operator, Step(o) \/ Crash(o)
      PROVE  HeldIdle'
  <2>1. CASE Start(o)
    BY <2>1 DEF Start
  <2>2. CASE Initialize(o)
    BY <2>2 DEF Initialize, Proceed
  <2>3. CASE Create(o)
    BY <2>3 DEF Create, Proceed
  <2>4. CASE SetDrain(o)
    BY <2>4 DEF SetDrain
  <2>5. CASE Probe(o)
    BY <2>5 DEF Probe
  <2>6. CASE DrainOn(o)
    BY <2>6 DEF DrainOn
  <2>7. CASE Refuse(o)
    BY <2>7 DEF Refuse, AfterUpdate
  <2>8. CASE Begin(o)
    BY <2>8 DEF Begin
  <2>9. CASE Write(o)
    BY <2>9 DEF Write
  <2>10. CASE Save(o)
    BY <2>10 DEF Save
  <2>11. CASE Rollback(o)
    BY <2>11 DEF Rollback
  <2>12. CASE Unlock(o)
    BY <2>12 DEF Unlock, AfterUpdate
  <2>13. CASE Resume(o)
    BY <2>13 DEF Resume
  <2>14. CASE Crash(o)
    BY <2>14 DEF Crash
  <2> QED
    BY <1>1, <2>1, <2>2, <2>3, <2>4, <2>5, <2>6, <2>7,
       <2>8, <2>9, <2>10, <2>11, <2>12, <2>13, <2>14 DEF Step
<1>2. CASE PoolChanges
  BY <1>2 DEF PoolChanges
<1>3. CASE Edit
  BY <1>3 DEF Edit
<1> QED
  BY <1>1, <1>2, <1>3 DEF Next

\* A step writes the capacity file in one of three places, and never removes it.
LEMMA CapacityStep ==
    ASSUME TypeOK, Progress, NEW o \in Operator, Step(o) \/ Crash(o)
    PROVE  /\ capacity' # capacity =>
                    At(o, "create") \/ At(o, "write") \/ At(o, "rollback")
           /\ capacity # NoFile => capacity' # NoFile
<1>1. /\ op[o] \in Locals /\ op[o].loaded \in Settings
      /\ op[o].loaded.capacity \in 1..2
  BY DEF TypeOK, Locals, Settings
<1>2. CASE Create(o)
  BY <1>1, <1>2, WrittenEffect DEF Create
<1>3. CASE Write(o)
  BY <1>1, <1>3, WrittenEffect DEF Write, Progress, Holding
<1>4. CASE Rollback(o)
  BY <1>1, <1>4, WrittenEffect DEF Rollback, Progress, Holding
<1> QED
  BY <1>2, <1>3, <1>4
     DEF Step, Start, Initialize, SetDrain, Probe, DrainOn, Refuse, Begin, Save, Unlock,
         Resume, Crash

\* Whoever is behind initialize has a capacity file.
LEMMA CapacityThereStep ==
    ASSUME TypeOK, Progress, CapacityThere, Next
    PROVE  CapacityThere'
<1>1. ASSUME NEW o \in Operator, Step(o) \/ Crash(o)
      PROVE  CapacityThere'
  <2>1. OthersKept(o) /\ (capacity # NoFile => capacity' # NoFile)
    BY <1>1, StepEffect, CapacityStep
  <2>2. op'[o].at \in Initialized => op[o].at \in Initialized \/ capacity' # NoFile
    <3>1. /\ op \in [Operator -> Locals] /\ op[o].loaded.capacity \in 1..2
      BY DEF TypeOK, Locals, Settings
    <3> USE DEF Goto, Stop, Process, Initialized, Holding
    <3>2. CASE Start(o)
      BY <3>1, <3>2 DEF Start, Locals
    <3>3. CASE Initialize(o)
      BY <3>1, <3>3, <2>1 DEF Initialize, Locals
    <3>4. CASE Create(o)
      <4>1. capacity' # NoFile \/ Stop(o, "write")
        BY <3>1, <3>4, WrittenEffect DEF Create
      <4> QED
        BY <3>1, <4>1 DEF Locals
    <3>5. CASE Crash(o)
      BY <3>1, <3>5 DEF Crash, Locals
    <3> QED
      BY <1>1, <3>2, <3>3, <3>4, <3>5
         DEF Step, SetDrain, Probe, DrainOn, Refuse, Begin, Write, Save, Rollback,
             Unlock, Resume
  <2> QED
    BY <2>1, <2>2 DEF CapacityThere, OthersKept
<1>2. CASE PoolChanges
  BY <1>2 DEF PoolChanges, CapacityThere
<1>3. CASE Edit
  BY <1>3 DEF Edit, CapacityThere, TypeOK, Locals
<1> QED
  BY <1>1, <1>2, <1>3 DEF Next

-----------------------------------------------------------------------------
(* The transaction                                                         *)

\* Who holds the lock can only be disturbed by a late initialize.
LEMMA HolderUndisturbed ==
    ASSUME TypeOK, Progress, CapacityThere,
           NEW o \in Operator, Step(o) \/ Crash(o),
           NEW p \in Operator \ {o}, op[p].at \in Holding
    PROVE  /\ op'[p] = op[p]
           /\ overwrote' \/ (capacity' = capacity /\ file' = file)
<1>1. op'[p] = op[p]
  BY StepEffect DEF OthersKept
<1>2. op[o].at \notin Holding /\ capacity # NoFile
  BY DEF TypeOK, LockHeld, Holding, CapacityThere, Initialized
<1>3. CASE Create(o)
  BY <1>1, <1>2, <1>3, WrittenEffect DEF Create
<1>4. CASE ~Create(o)
  <2>1. capacity' = capacity
    BY <1>2, <1>4, CapacityStep
       DEF Holding, Step, Start, Initialize, SetDrain, Probe, DrainOn, Refuse, Begin,
           Write, Save, Rollback, Unlock, Resume, Crash
  <2>2. file' = file
    BY <1>2, <1>4
       DEF Holding, Step, Start, Initialize, SetDrain, Probe, DrainOn, Refuse, Begin,
           Write, Save, Rollback, Unlock, Resume, Crash
  <2> QED
    BY <1>1, <2>1, <2>2
<1> QED
  BY <1>3, <1>4

\* What set_capacity_transactional has overwritten stays so.
LEMMA OverwroteStays ==
    ASSUME TypeOK, Next
    PROVE  overwrote => overwrote'
BY DEF Next, Step, Start, Initialize, Create, SetDrain, Probe, DrainOn, Refuse, Begin,
       Write, Save, Rollback, Unlock, Resume, Crash, PoolChanges, Edit

\* The progress of one operator.
ProgressOf(o) ==
    /\ op[o].at \in Holding =>
            op[o].command.capacity \in 1..2 /\ op[o].previous \in 1..2
    /\ op[o].at \notin Ending => op[o].error = "none"
    /\ At(o, "rollback") => op[o].error = "persist"
    /\ At(o, "save") => overwrote \/ capacity = op[o].command.capacity

LEMMA ProgressStep ==
    ASSUME TypeOK, CapacityThere, Progress, Next
    PROVE  Progress'
<1> USE DEF Holding, Ending
<1>1. op \in [Operator -> Locals] /\ \A p \in Operator : ProgressOf(p)
  BY DEF TypeOK, Progress, ProgressOf
<1>2. overwrote => overwrote'
  BY OverwroteStays
<1>3. ASSUME NEW o \in Operator, Step(o) \/ Crash(o)
      PROVE  \A p \in Operator : ProgressOf(p)'
  <2>1. ASSUME NEW p \in Operator \ {o} PROVE ProgressOf(p)'
    <3>1. op'[p] = op[p]
      BY <1>3, StepEffect DEF OthersKept
    <3>2. CASE op[p].at \in Holding
      BY <1>1, <1>2, <1>3, <3>1, <3>2, HolderUndisturbed DEF ProgressOf
    <3>3. CASE op[p].at \notin Holding
      BY <1>1, <3>1, <3>3 DEF ProgressOf
    <3> QED
      BY <3>2, <3>3
  <2>2. ProgressOf(o)'
    <3> USE DEF Goto, Stop, Process, Locals
    <3>1. CASE Begin(o)
      <4>1. /\ op'[o].at = "write" /\ op'[o].previous = capacity
            /\ op'[o].command = op[o].command /\ op'[o].error = op[o].error
        BY <1>1, <3>1 DEF Begin
      <4>2. capacity \in 1..2
        BY <3>1 DEF Begin, TypeOK, CapacityThere, Initialized
      <4> QED
        BY <1>1, <3>1, <4>1, <4>2 DEF Begin, ProgressOf
    <3>2. CASE Write(o)
      BY <1>1, <3>2, WrittenEffect DEF Write, ProgressOf
    <3>3. CASE Save(o)
      BY <1>1, <3>3 DEF Save, ProgressOf
    <3>4. CASE Rollback(o)
      BY <1>1, <3>4 DEF Rollback, ProgressOf
    <3>5. CASE ~Begin(o) /\ ~Write(o) /\ ~Save(o) /\ ~Rollback(o)
      <4>1. /\ op'[o].at \notin Holding
            /\ op'[o].at \notin Ending => op'[o].error = "none"
        BY <1>1, <1>3, <3>5 DEF ProgressOf, Step, Start, Initialize, Proceed, Create, SetDrain,
               Probe, DrainOn, Refuse, Unlock, AfterUpdate, Resume, Crash
      <4> QED
        BY <4>1 DEF ProgressOf
    <3> QED
      BY <3>1, <3>2, <3>3, <3>4, <3>5
  <2> QED
    BY <2>1, <2>2
<1>4. ASSUME PoolChanges PROVE \A p \in Operator : ProgressOf(p)'
  BY <1>1, <1>4 DEF PoolChanges, ProgressOf
<1>5. ASSUME Edit PROVE \A p \in Operator : ProgressOf(p)'
  BY <1>1, <1>5 DEF Edit, ProgressOf, Locals
<1>6. \A p \in Operator : ProgressOf(p)'
  BY <1>1, <1>3, <1>4, <1>5 DEF Next
<1> QED
  BY <1>6 DEF Progress, ProgressOf

\* The transaction of one operator.
TransactionOf(o) ==
    /\ At(o, "write") => capacity = op[o].previous
    /\ At(o, "unlock") /\ op[o].error = "none" =>
            /\ capacity = op[o].command.capacity
            /\ file = ToSave(o) \/ op[o].outdated
    /\ At(o, "unlock") /\ op[o].error = "persist" => capacity = op[o].previous

LEMMA TransactionStep ==
    ASSUME TypeOK, CapacityThere, Progress, Transaction, Next
    PROVE  Transaction'
<1> SUFFICES ASSUME ~overwrote' PROVE \A p \in Operator : TransactionOf(p)'
  BY DEF Transaction, TransactionOf
<1>1. op \in [Operator -> Locals] /\ \A p \in Operator : TransactionOf(p)
  BY OverwroteStays DEF TypeOK, Transaction, TransactionOf
<1>2. ASSUME NEW o \in Operator, Step(o) \/ Crash(o)
      PROVE  \A p \in Operator : TransactionOf(p)'
  <2>1. ASSUME NEW p \in Operator \ {o} PROVE TransactionOf(p)'
    <3>1. op'[p] = op[p]
      BY <1>2, StepEffect DEF OthersKept
    <3>2. CASE op[p].at \in Holding
      BY <1>1, <1>2, <3>1, <3>2, HolderUndisturbed DEF TransactionOf, ToSave
    <3>3. CASE op[p].at \notin Holding
      BY <3>1, <3>3 DEF TransactionOf, Holding
    <3> QED
      BY <3>2, <3>3
  <2>2. TransactionOf(o)'
    <3> USE DEF Goto, Stop, Process, Locals
    <3>1. CASE Begin(o)
      <4>1. op'[o].at = "write" /\ op'[o].previous = capacity
        BY <1>1, <3>1 DEF Begin
      <4> QED
        BY <3>1, <4>1 DEF Begin, TransactionOf
    <3>2. CASE Write(o)
      <4>1. op'[o].at = "save" \/ (op'[o].at = "unlock" /\ op'[o].error = "write")
        BY <1>1, <3>2 DEF Write
      <4> QED
        BY <4>1 DEF TransactionOf
    <3>3. CASE Save(o)
      <4>1. \/ op'[o].at = "rollback"
            \/ file' = ToSave(o) /\ op' = [op EXCEPT ![o].at = "unlock"]
        BY <1>1, <3>3, WrittenEffect DEF Save
      <4>2. capacity' = op[o].command.capacity /\ op[o].error = "none"
        BY <3>3, OverwroteStays DEF Save, Progress, Ending
      <4>3. CASE op'[o].at = "rollback"
        BY <4>3 DEF TransactionOf
      <4>4. CASE file' = ToSave(o) /\ op' = [op EXCEPT ![o].at = "unlock"]
        <5>1. op'[o] = [op[o] EXCEPT !.at = "unlock"]
          BY <1>1, <4>4
        <5>2. op'[o].error = "none" /\ op'[o].command = op[o].command
              /\ op'[o].loaded = op[o].loaded
          BY <1>1, <4>2, <5>1
        <5>3. ToSave(o)' = ToSave(o)
          BY <5>2 DEF ToSave
        <5>4. file' = ToSave(o)' /\ capacity' = op'[o].command.capacity
          BY <4>2, <4>4, <5>2, <5>3
        <5>5. op'[o].at = "unlock"
          BY <5>1, <1>1
        <5> QED
          BY <5>2, <5>4, <5>5 DEF TransactionOf
      <4> QED
        BY <4>1, <4>3, <4>4
    <3>4. CASE Rollback(o)
      <4>1. PICK w \in Written(capacity, op[o].previous) :
                /\ capacity' = w[1]
                /\ op' = [op EXCEPT ![o].at = "unlock",
                            ![o].error = IF w[2] THEN "persist" ELSE "rollback"]
        BY <3>4 DEF Rollback
      <4>2. /\ op'[o].previous = op[o].previous
            /\ op'[o].error = IF w[2] THEN "persist" ELSE "rollback"
            /\ op'[o].at = "unlock"
        BY <1>1, <4>1
      <4>3. w[2] => capacity' = op[o].previous
        BY <4>1, WrittenEffect
      <4> QED
        BY <4>2, <4>3 DEF TransactionOf
    <3>5. CASE ~Begin(o) /\ ~Write(o) /\ ~Save(o) /\ ~Rollback(o)
      <4>1. op'[o].at \notin {"write", "unlock"}
        BY <1>1, <1>2, <3>5 DEF Step, Start, Initialize, Proceed, Create, SetDrain,
               Probe, DrainOn, Refuse, Unlock, AfterUpdate, Resume, Crash
      <4> QED
        BY <4>1 DEF TransactionOf
    <3> QED
      BY <3>1, <3>2, <3>3, <3>4, <3>5
  <2> QED
    BY <2>1, <2>2
<1>3. ASSUME PoolChanges PROVE \A p \in Operator : TransactionOf(p)'
  BY <1>1, <1>3 DEF PoolChanges, TransactionOf, ToSave
<1>4. ASSUME Edit PROVE \A p \in Operator : TransactionOf(p)'
  BY <1>1, <1>4 DEF Edit, TransactionOf, Locals
<1> QED
  BY <1>2, <1>3, <1>4 DEF Next

-----------------------------------------------------------------------------
(* The flag of a drain                                                     *)

\* Who has left a flag behind, or is about to take it away.
Reason(o) ==
    (op[o].enabled /\ op[o].at \in Drained) \/ op[o].error \in {"killed", "drain"}

\* A flag that no `drain` has left is that of a command on its way.
LEMMA DrainReasonStep ==
    ASSUME TypeOK, Progress, DrainReason, Next
    PROVE  DrainReason'
<1>1. op \in [Operator -> Locals]
  BY DEF TypeOK
<1>2. ASSUME NEW o \in Operator, Step(o) \/ Crash(o)
      PROVE  DrainReason'
  <2>1. op' \in [Operator -> Locals] /\ OthersKept(o)
    BY <1>2, StepEffect
  <2> USE DEF Goto, Stop, Process, Locals
  <2>2. /\ op'[o].at = "drain_on" => op'[o].enabled
        /\ op'[o].at \in {"idle", "done"} => ~op'[o].enabled
    BY <1>1, <1>2 DEF DrainReason, Step, Start, Initialize, Proceed, Create, SetDrain,
           Probe, DrainOn, Refuse, Begin, Write, Save, Rollback, Unlock, AfterUpdate,
           Resume, Crash
  <2>3. /\ manual' => drain' \/ undone'
        /\ drain' => drain \/ manual' \/ DrainOn(o)
        /\ manual' => manual \/ SetDrain(o)
        /\ manual => manual' \/ ~drain'
    <3>0. /\ drain \in BOOLEAN /\ manual \in BOOLEAN /\ undone \in BOOLEAN
          /\ drain' \in BOOLEAN /\ manual' \in BOOLEAN /\ undone' \in BOOLEAN
          /\ manual => drain \/ undone
      BY TypeStep DEF TypeOK, DrainReason
    <3>1. CASE SetDrain(o)
      <4>1. manual' = drain' \/ (manual' = manual /\ drain' = drain)
        BY <3>1 DEF SetDrain
      <4>2. undone' = undone
        BY <3>1 DEF SetDrain
      <4> QED
        BY <3>0, <3>1, <4>1, <4>2
    <3>2. CASE Resume(o)
      <4>1. \/ drain' = FALSE /\ undone' = (undone \/ manual)
            \/ drain' = drain /\ undone' = undone
        BY <3>2 DEF Resume
      <4>2. manual' = manual
        BY <3>2 DEF Resume
      <4> QED
        BY <3>0, <4>1, <4>2
    <3>3. CASE ~SetDrain(o) /\ ~Resume(o)
      BY <1>2, <3>3 DEF DrainReason, Step, Start, Initialize, Create, Probe, DrainOn,
             Refuse, Begin, Write, Save, Rollback, Unlock, Crash
    <3> QED
      BY <3>1, <3>2, <3>3
  <2>4. DrainOn(o) => Reason(o)' \/ ~drain' \/ drain
    BY <1>1 DEF DrainOn, DrainReason, Reason, Drained, Holding
  <2>5. Reason(o) => Reason(o)' \/ ~drain'
    <3> USE <1>1 DEF Reason, Drained, Holding
    <3>1. op[o].at \notin Ending => op[o].error = "none"
      BY DEF Progress
    <3>2. CASE Step(o) /\ ~Resume(o) /\ ~Initialize(o) /\ ~Create(o)
      BY <3>1, <3>2 DEF Ending, Step, Start, SetDrain, Probe, DrainOn, Refuse, Begin,
             Write, Save, Rollback, Unlock, AfterUpdate
    <3>3. CASE Initialize(o) \/ Create(o)
      BY <3>1, <3>3 DEF Ending, Initialize, Create
    <3>4. CASE Resume(o)
      BY <3>4 DEF Resume
    <3>5. CASE Crash(o)
      BY <3>5 DEF Crash
    <3> QED
      BY <1>2, <3>2, <3>3, <3>4, <3>5
  <2> QED
    BY <2>1, <2>2, <2>3, <2>4, <2>5 DEF DrainReason, OthersKept, Reason
<1>3. CASE PoolChanges
  BY <1>3 DEF PoolChanges, DrainReason
<1>4. CASE Edit
  BY <1>1, <1>4 DEF Edit, DrainReason, Locals
<1> QED
  BY <1>2, <1>3, <1>4 DEF Next

-----------------------------------------------------------------------------
(* The settings                                                            *)

\* A save that has lost nothing writes what was there.
LEMMA RestKept ==
    ASSUME TypeOK, LoadedKept, NEW o \in Operator, Step(o) \/ Crash(o), ~lost'
    PROVE  /\ file'.rest = file.rest
           /\ file' = file \/ file.state # "broken"
           /\ ~lost
<1>1. CASE Save(o)
  <2>1. ~lost /\ ~op[o].outdated /\ file.state # "broken" /\ At(o, "save")
    BY <1>1 DEF Save
  <2>2. op[o].loaded.rest = file.rest
    BY <2>1 DEF LoadedKept
  <2>3. ToSave(o).rest = op[o].loaded.rest
    BY DEF ToSave, TypeOK, Locals, Settings
  <2>4. file' \in {file, ToSave(o)}
    BY <1>1, WrittenEffect DEF Save
  <2> QED
    BY <2>1, <2>2, <2>3, <2>4
<1>2. CASE ~Save(o)
  <2>1. file' = file
    BY <1>2 DEF Step, Start, Initialize, Create, SetDrain, Probe, DrainOn, Refuse, Begin,
           Write, Rollback, Unlock, Resume, Crash
  <2>2. ~lost
    BY <1>2 DEF Step, Start, Initialize, Create, SetDrain, Probe, DrainOn, Refuse, Begin,
           Write, Rollback, Unlock, Resume, Crash
  <2> QED
    BY <2>1, <2>2
<1> QED
  BY <1>1, <1>2

LEMMA LoadedKeptStep ==
    ASSUME TypeOK, LoadedKept, Next
    PROVE  LoadedKept'
<1> SUFFICES ASSUME ~lost', NEW p \in Operator,
                    op'[p].at \notin {"idle", "done"}, ~op'[p].outdated,
                    file'.state # "broken"
             PROVE  op'[p].loaded.rest = file'.rest
  BY DEF LoadedKept
<1>1. op \in [Operator -> Locals]
  BY DEF TypeOK
<1>2. ASSUME NEW o \in Operator, Step(o) \/ Crash(o)
      PROVE  op'[p].loaded.rest = file'.rest
  <2>1. file'.rest = file.rest /\ file.state # "broken" /\ ~lost
    BY <1>2, RestKept
  <2>2. CASE Start(p)
    <3>1. op'[p].loaded = LoadSafe
      BY <1>1, <2>2 DEF Start, Locals
    <3>2. LoadSafe.rest = file.rest
      BY <2>1 DEF LoadSafe, TypeOK, Settings, Absent, Broken, Defaults
    <3> QED
      BY <2>1, <3>1, <3>2
  <2>3. CASE ~Start(p)
    <3>1. CASE p = o
      <4>1. /\ op'[p].loaded = op[p].loaded /\ op'[p].outdated = op[p].outdated
            /\ op[p].at \notin {"idle", "done"}
        BY <1>1, <1>2, <2>3, <3>1 DEF Locals, Goto, Stop, Process, Step, Initialize,
               Proceed, Create, SetDrain, Probe, DrainOn, Refuse, Begin, Write, Save,
               Rollback, Unlock, AfterUpdate, Resume, Crash
      <4> QED
        BY <2>1, <4>1 DEF LoadedKept
    <3>2. CASE p # o
      <4>1. op'[p] = op[p]
        BY <1>2, <3>2, StepEffect DEF OthersKept
      <4> QED
        BY <2>1, <4>1 DEF LoadedKept
    <3> QED
      BY <3>1, <3>2
  <2> QED
    BY <2>2, <2>3
<1>3. CASE PoolChanges
  BY <1>3 DEF PoolChanges, LoadedKept
<1>4. CASE Edit
  <2>1. op'[p].at = op[p].at /\ op'[p].outdated = (op[p].at \notin {"idle", "done"})
    BY <1>1, <1>4 DEF Edit, Locals
  <2> QED
    BY <2>1
<1> QED
  BY <1>2, <1>3, <1>4 DEF Next

-----------------------------------------------------------------------------
(* Theorems                                                                *)

LEMMA AdminInvInit == Init => AdminInv
<1> SUFFICES ASSUME Init PROVE AdminInv
  OBVIOUS
<1>1. TypeOK
  BY TypeInit
<1>2. /\ queueLock = Nobody /\ drain = FALSE /\ manual = FALSE
      /\ \A o \in Operator : /\ op[o].at = "idle" /\ op[o].error = "none"
                             /\ ~op[o].enabled
  BY DEF Init, Process
<1> QED
  BY <1>1, <1>2 DEF AdminInv, HeldIdle, CapacityThere, Progress, Transaction, DrainReason,
       LoadedKept, Initialized, Holding, Ending

LEMMA AdminInvStep ==
    ASSUME AdminInv, [Next]_vars
    PROVE  AdminInv'
<1>1. CASE Next
  BY <1>1, TypeStep, HeldIdleStep, CapacityThereStep, ProgressStep, TransactionStep,
     DrainReasonStep, LoadedKeptStep DEF AdminInv
<1>2. CASE UNCHANGED vars
  BY <1>2 DEF vars, AdminInv, TypeOK, LockHeld, HeldIdle, CapacityThere, Progress,
         Transaction, ToSave, DrainReason, LoadedKept, Absent, Broken, Defaults
<1> QED
  BY <1>1, <1>2

\* The inductive invariant: whatever the commands meet, errors, a kill and the
\* user's editor included, its seven parts hold in every state.
THEOREM AdminInvariant == Spec => []AdminInv
BY AdminInvInit, AdminInvStep, PTL DEF Spec

\* The state of the commands is well-formed, and queue.lock is held for the whole
\* of set_capacity_transactional and by nobody else.
THEOREM TypeCorrect == Spec => []TypeOK
<1>1. AdminInv => TypeOK
  BY DEF AdminInv
<1> QED
  BY <1>1, AdminInvariant, PTL

\* set_capacity_transactional keeps its promise about the runtime directory and
\* config.toml after any error, for any number of commands at the same time.
THEOREM TransactionHolds == Spec => []Transaction
<1>1. AdminInv => Transaction
  BY DEF AdminInv
<1> QED
  BY <1>1, AdminInvariant, PTL

\* configure leaves the admission as it has found it, whatever ends it.
THEOREM DrainIsRestored == Spec => []DrainRestored
<1>1. AdminInv => DrainRestored
  <2> SUFFICES ASSUME AdminInv, ~undone,
                      \A o \in Operator : /\ op[o].at \in {"idle", "done"}
                                         /\ op[o].error \notin {"killed", "drain"}
               PROVE  drain = manual
    BY DEF DrainRestored
  <2>1. \A o \in Operator : ~op[o].enabled
    BY DEF AdminInv, DrainReason
  <2>2. manual => drain
    BY DEF AdminInv, DrainReason
  <2>3. drain => manual
    BY <2>1 DEF AdminInv, DrainReason
  <2>4. drain \in BOOLEAN /\ manual \in BOOLEAN
    BY DEF AdminInv, TypeOK
  <2> QED
    BY <2>2, <2>3, <2>4
<1> QED
  BY <1>1, AdminInvariant, PTL

\* The capacity of a pool at work never changes, but for the file that initialize
\* writes without a lock.
THEOREM CapacityOfTheIdle == Spec => ChangeOnlyWhenIdle
<1>1. AdminInv /\ [Next]_vars =>
        [ (capacity' # capacity)
            => \/ \E o \in Operator : At(o, "create")
               \/ pool = "idle" /\ drain /\ queueLock # Nobody ]_vars
  <2> SUFFICES ASSUME AdminInv, Next, capacity' # capacity,
                      \A o \in Operator : ~At(o, "create")
               PROVE  pool = "idle" /\ drain /\ queueLock # Nobody
    OBVIOUS
  <2>1. PICK o \in Operator : Step(o) \/ Crash(o)
    BY DEF Next, PoolChanges, Edit
  <2>2. At(o, "write") \/ At(o, "rollback")
    BY <2>1, CapacityStep DEF AdminInv
  <2>3. queueLock = o
    BY <2>2 DEF AdminInv, TypeOK, LockHeld
  <2> QED
    BY <2>3 DEF AdminInv, HeldIdle
<1> QED
  BY <1>1, AdminInvariant, PTL DEF Spec, ChangeOnlyWhenIdle

\* set-capacity writes only the capacity: what else config.toml says stays, unless
\* it was edited, or broken, while the command was on its way.
THEOREM SettingsAreKept == Spec => SettingsKept
<1>1. AdminInv /\ [Next]_vars =>
        [ (edits' = edits /\ ~lost') => file'.rest = file.rest ]_vars
  <2> SUFFICES ASSUME AdminInv, Next, edits' = edits, ~lost'
               PROVE  file'.rest = file.rest
    OBVIOUS
  <2>1. CASE \E o \in Operator : Step(o) \/ Crash(o)
    BY <2>1, RestKept DEF AdminInv
  <2>2. CASE PoolChanges
    BY <2>2 DEF PoolChanges
  <2>3. ~Edit
    BY DEF Edit, AdminInv, TypeOK
  <2> QED
    BY <2>1, <2>2, <2>3 DEF Next
<1> QED
  BY <1>1, AdminInvariant, PTL DEF Spec, SettingsKept

=============================================================================
