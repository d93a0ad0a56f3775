--------------------------- MODULE Administration ---------------------------
(***************************************************************************)
(* The commands of the operators: `agent-gov drain`, `resume`, `status`    *)
(* and `config set-capacity`.  Each is a process of its own and works on   *)
(* files that the others, the admission pool and the user's editor work on *)
(* as well: the capacity file and drain.flag of the runtime directory, and *)
(* config.toml.  queue.lock protects some of these steps, none of the      *)
(* commands as a whole, and not config.toml.                               *)
(*                                                                         *)
(* The pool (module Scheduler) is here but idle, busy or stale: a killed   *)
(* run has left its files, and the next admitted one takes them away.      *)
(***************************************************************************)
EXTENDS Naturals

CONSTANTS
    Operator,    \* processes
    Command,     \* what they may be told to do
    Capacities,  \* the numbers `set-capacity` is called with
    OtherThings, \* what config.toml says besides the capacity
    Default,     \* what Config::default says of it
    WritesFail,  \* can a call of the file system fail?
    MaxCrashes,  \* bound: operators killed on their way
    MaxEdits     \* bound: saves of config.toml in the user's editor

Nobody   == "nobody"
NoFile   == 0                     \* the capacity file is absent
Settings == [state : {"valid"}, capacity : 1..2, rest : OtherThings]
Defaults == [state |-> "valid", capacity |-> 1, rest |-> Default]
Absent   == [Defaults EXCEPT !.state = "absent"]
Broken   == [Defaults EXCEPT !.state = "broken"]

ASSUME NobodyAssumption == Nobody \notin Operator
ASSUME CommandAssumption ==
    Command \subseteq [kind : {"status", "drain", "resume", "set-capacity"},
                       capacity : Capacities, drain : BOOLEAN]
ASSUME SettingsAssumption == Default \in OtherThings /\ Capacities \subseteq Nat
ASSUME BoundsAssumption ==
    WritesFail \in BOOLEAN /\ MaxCrashes \in Nat /\ MaxEdits \in Nat

VARIABLES
    op,        \* the operators: where each is, and its locals
    queueLock, \* who holds queue.lock for longer than a step
    drain,     \* drain.flag exists
    capacity,  \* the capacity file
    file,      \* config.toml
    pool,
    crashes, edits, \* what is spent of the bounds
    manual,    \* history: what the last `drain` or `resume` has asked for
    undone,    \* history: set-capacity has taken the flag of a `drain` away
    overwrote, \* history: initialize has written over a capacity file
    lost       \* history: set-capacity has written over an edit it had not seen

vars == <<op, queueLock, drain, capacity, file, pool, crashes, edits, manual,
          undone, overwrote, lost>>

Places == {"idle", "initialize", "create", "set_drain", "probe", "drain_on",
           "begin", "write", "save", "rollback", "unlock", "resume", "done"}

Errors == {"none", "refused", "write", "persist", "rollback", "drain", "killed"}

Locals == [at       : Places,
           command  : Command,
           loaded   : Settings,
           outdated : BOOLEAN,   \* config.toml was edited since it was loaded
           enabled  : BOOLEAN,   \* enabled_drain
           previous : 0..2,
           error    : Errors]

\* Who is inside set_capacity_transactional has queue.lock.
LockHeld ==
    \A o \in Operator :
        op[o].at \in {"write", "save", "rollback", "unlock"} <=> queueLock = o

TypeOK ==
    /\ op \in [Operator -> Locals]
    /\ queueLock \in Operator \cup {Nobody}
    /\ LockHeld
    /\ drain \in BOOLEAN
    /\ capacity \in 0..2
    /\ file \in Settings \cup {Absent, Broken}
    /\ pool \in {"idle", "busy", "stale"}
    /\ crashes \in 0..MaxCrashes
    /\ edits \in 0..MaxEdits
    /\ manual \in BOOLEAN /\ undone \in BOOLEAN
    /\ overwrote \in BOOLEAN /\ lost \in BOOLEAN

\* A process without locals, before it starts and after its end.
Process(place, command, error) ==
    [at |-> place, command |-> command, loaded |-> Defaults, outdated |-> FALSE,
     enabled |-> FALSE, previous |-> NoFile, error |-> error]

Init ==
    /\ \E told \in [Operator -> Command] :
        op = [o \in Operator |-> Process("idle", told[o], "none")]
    /\ queueLock = Nobody
    /\ drain = FALSE
    /\ capacity \in {NoFile, 1}
    /\ file \in {Absent} \cup Settings
    /\ pool = "idle"
    /\ crashes = 0 /\ edits = 0
    /\ manual = FALSE /\ undone = FALSE /\ overwrote = FALSE /\ lost = FALSE

-----------------------------------------------------------------------------
At(o, place)   == op[o].at = place
Goto(o, place) == op' = [op EXCEPT ![o].at = place]

Stop(o, error) ==
    op' = [op EXCEPT ![o] = Process("done", op[o].command, error)]

\* Bug: `update?` comes before the admission is resumed.
ResumeAfterSuccess(o, error) ==
    IF op[o].enabled /\ error = "none"
    THEN op' = [op EXCEPT ![o].at = "resume", ![o].error = error]
    ELSE Stop(o, error)

\* Behind set_capacity_transactional.
AfterUpdate(o, error) ==
    IF op[o].enabled
    THEN op' = [op EXCEPT ![o].at = "resume", ![o].error = error]
    ELSE Stop(o, error)

\* What write_atomic may leave behind: an error comes before or after rename.
Written(old, new) ==
    {<<new, TRUE>>} \cup (IF WritesFail THEN {<<old, FALSE>>, <<new, FALSE>>} ELSE {})

\* load_safe_config.
LoadSafe == IF file.state = "valid" THEN file ELSE Defaults

Start(o) ==
    /\ At(o, "idle")
    /\ op' = [op EXCEPT ![o].at = "initialize", ![o].loaded = LoadSafe]
    /\ UNCHANGED <<queueLock, drain, capacity, file, pool, crashes, edits,
                   manual, undone, overwrote, lost>>

\* Where the command goes on after Runtime::initialize.
Proceed(o) == CASE op[o].command.kind = "set-capacity" -> Goto(o, "probe")
                [] op[o].command.kind = "status"       -> Stop(o, "none")
                [] OTHER                               -> Goto(o, "set_drain")

\* Runtime::initialize asks whether there is a capacity file, without the lock,
Initialize(o) ==
    /\ At(o, "initialize")
    /\ \/ capacity = NoFile /\ Goto(o, "create")
       \/ capacity # NoFile /\ Proceed(o)
       \/ WritesFail /\ Stop(o, "write")
    /\ UNCHANGED <<queueLock, drain, capacity, file, pool, crashes, edits,
                   manual, undone, overwrote, lost>>

\* and writes one.
Create(o) ==
    /\ At(o, "create")
    /\ \E w \in Written(capacity, op[o].loaded.capacity) :
        /\ capacity' = w[1]
        /\ overwrote' = (overwrote \/ capacity \notin {NoFile, w[1]})
        /\ IF w[2] THEN Proceed(o) ELSE Stop(o, "write")
    /\ UNCHANGED <<queueLock, drain, file, pool, crashes, edits, manual, undone,
                   lost>>

\* set_drain of a `drain` or a `resume`: one step under queue.lock.
SetDrain(o) ==
    /\ At(o, "set_drain")
    /\ queueLock = Nobody
    /\ \/ /\ drain' = (op[o].command.kind = "drain")
          /\ manual' = drain'
          /\ Stop(o, "none")
       \/ /\ WritesFail /\ Stop(o, "drain") /\ UNCHANGED <<drain, manual>>
    /\ UNCHANGED <<queueLock, capacity, file, pool, crashes, edits, undone,
                   overwrote, lost>>

-----------------------------------------------------------------------------
(* configure                                                               *)

\* enabled_drain, without the lock.
Probe(o) ==
    /\ At(o, "probe")
    /\ LET enabled == op[o].command.drain /\ ~drain IN
       op' = [op EXCEPT ![o].enabled = enabled,
                        ![o].at = IF enabled THEN "drain_on" ELSE "begin"]
    /\ UNCHANGED <<queueLock, drain, capacity, file, pool, crashes, edits,
                   manual, undone, overwrote, lost>>

\* An error of set_drain ends the command.
DrainOn(o) ==
    /\ At(o, "drain_on")
    /\ queueLock = Nobody
    /\ \/ drain' = TRUE /\ Goto(o, "begin")
       \/ WritesFail /\ Stop(o, "drain") /\ UNCHANGED drain
    /\ UNCHANGED <<queueLock, capacity, file, pool, crashes, edits, manual,
                   undone, overwrote, lost>>

\* set_capacity_transactional up to its first write.
Refuse(o) ==
    /\ At(o, "begin")
    /\ \/ op[o].command.capacity \notin 1..2
       \/ queueLock = Nobody /\ (~drain \/ pool # "idle" \/ WritesFail)
    /\ AfterUpdate(o, "refused")
    /\ UNCHANGED <<queueLock, drain, capacity, file, pool, crashes, edits,
                   manual, undone, overwrote, lost>>

\* Bug: only the lock and the flag are asked for, not the pool.
BeginBusy(o) ==
    /\ At(o, "begin")
    /\ op[o].command.capacity \in 1..2
    /\ queueLock = Nobody
    /\ drain
    /\ queueLock' = o
    /\ op' = [op EXCEPT ![o].at = "write", ![o].previous = capacity]
    /\ UNCHANGED <<drain, capacity, file, pool, crashes, edits, manual, undone,
                   overwrote, lost>>

Begin(o) ==
    /\ At(o, "begin")
    /\ op[o].command.capacity \in 1..2
    /\ queueLock = Nobody
    /\ drain /\ pool = "idle"
    /\ queueLock' = o
    /\ op' = [op EXCEPT ![o].at = "write", ![o].previous = capacity]
    /\ UNCHANGED <<drain, capacity, file, pool, crashes, edits, manual, undone,
                   overwrote, lost>>

\* Bug: the error of the write leaves the function past the unlock.
WriteOrReturn(o) ==
    /\ At(o, "write")
    /\ \E w \in Written(capacity, op[o].command.capacity) :
        /\ capacity' = w[1]
        /\ IF w[2] THEN Goto(o, "save") ELSE AfterUpdate(o, "write")
    /\ UNCHANGED <<queueLock, drain, file, pool, crashes, edits, manual, undone,
                   overwrote, lost>>

Write(o) ==
    /\ At(o, "write")
    /\ \E w \in Written(capacity, op[o].command.capacity) :
        /\ capacity' = w[1]
        /\ IF w[2] THEN Goto(o, "save")
           ELSE op' = [op EXCEPT ![o].at = "unlock", ![o].error = "write"]
    /\ UNCHANGED <<queueLock, drain, file, pool, crashes, edits, manual, undone,
                   overwrote, lost>>

\* Bug: a fresh configuration is saved.
FreshSettings(o) == [Defaults EXCEPT !.capacity = op[o].command.capacity]

\* config.save: what was loaded at the start, with the new capacity.
ToSave(o) == [op[o].loaded EXCEPT !.capacity = op[o].command.capacity]

Save(o) ==
    /\ At(o, "save")
    /\ \E w \in Written(file, ToSave(o)) :
        /\ file' = w[1]
        /\ lost' = (lost \/ op[o].outdated \/ file.state = "broken")
        /\ IF w[2] THEN Goto(o, "unlock")
           ELSE op' = [op EXCEPT ![o].at = "rollback", ![o].error = "persist"]
    /\ UNCHANGED <<queueLock, drain, capacity, pool, crashes, edits, manual,
                   undone, overwrote>>

\* Bug: the capacity goes back to the configured one, not the applied one.
RollbackToLoaded(o) ==
    /\ At(o, "rollback")
    /\ \E w \in Written(capacity, op[o].loaded.capacity) :
        /\ capacity' = w[1]
        /\ op' = [op EXCEPT ![o].at = "unlock",
                            ![o].error = IF w[2] THEN "persist" ELSE "rollback"]
    /\ UNCHANGED <<queueLock, drain, file, pool, crashes, edits, manual, undone,
                   overwrote, lost>>

Rollback(o) ==
    /\ At(o, "rollback")
    /\ \E w \in Written(capacity, op[o].previous) :
        /\ capacity' = w[1]
        /\ op' = [op EXCEPT ![o].at = "unlock",
                            ![o].error = IF w[2] THEN "persist" ELSE "rollback"]
    /\ UNCHANGED <<queueLock, drain, file, pool, crashes, edits, manual, undone,
                   overwrote, lost>>

Unlock(o) ==
    /\ At(o, "unlock")
    /\ queueLock' = Nobody
    /\ AfterUpdate(o, op[o].error)
    /\ UNCHANGED <<drain, capacity, file, pool, crashes, edits, manual, undone,
                   overwrote, lost>>

\* set_drain(false), also after an error, which is the one reported.
Resume(o) ==
    /\ At(o, "resume")
    /\ queueLock = Nobody
    /\ \/ /\ drain' = FALSE
          /\ undone' = (undone \/ manual)
          /\ Stop(o, op[o].error)
       \/ WritesFail /\ Stop(o, "drain") /\ UNCHANGED <<drain, undone>>
    /\ UNCHANGED <<queueLock, capacity, file, pool, crashes, edits, manual,
                   overwrote, lost>>

Step(o) ==
    \/ Start(o) \/ Initialize(o) \/ Create(o) \/ SetDrain(o)
    \/ Probe(o) \/ DrainOn(o) \/ Refuse(o) \/ Begin(o)
    \/ Write(o) \/ Save(o) \/ Rollback(o) \/ Unlock(o) \/ Resume(o)

-----------------------------------------------------------------------------
\* The system takes a lock from the process that dies.
Crash(o) ==
    /\ crashes < MaxCrashes
    /\ op[o].at \notin {"idle", "done"}
    /\ crashes' = crashes + 1
    /\ Stop(o, "killed")
    /\ queueLock' = IF queueLock = o THEN Nobody ELSE queueLock
    /\ UNCHANGED <<drain, capacity, file, pool, edits, manual, undone, overwrote, lost>>

\* An admission takes queue.lock and looks at drain.flag.
PoolChanges ==
    /\ \/ /\ pool # "busy" /\ queueLock = Nobody /\ ~drain /\ capacity # NoFile
          /\ pool' = "busy"
       \/ /\ pool = "busy"
          /\ pool' \in {"idle", "stale"}
    /\ UNCHANGED <<op, queueLock, drain, capacity, file, crashes, edits, manual,
                   undone, overwrote, lost>>

Edit ==
    /\ edits < MaxEdits
    /\ edits' = edits + 1
    /\ file' \in Settings \cup {Broken}
    /\ op' = [o \in Operator |-> [op[o] EXCEPT
                !.outdated = op[o].at \notin {"idle", "done"}]]
    /\ UNCHANGED <<queueLock, drain, capacity, pool, crashes, manual, undone,
                   overwrote, lost>>

Next ==
    \/ \E o \in Operator : Step(o) \/ Crash(o)
    \/ PoolChanges
    \/ Edit

Spec == Init /\ [][Next]_vars

-----------------------------------------------------------------------------
(* Properties                                                              *)

\* The capacity changes only while nothing runs, waits or can be admitted
\* (FR-059A), but for the first file, which initialize writes without a lock.
ChangeOnlyWhenIdle ==
    [][ (capacity' # capacity)
          => \/ \E o \in Operator : At(o, "create")
             \/ pool = "idle" /\ drain /\ queueLock # Nobody ]_vars

\* docs/operations.md: set-capacity changes the runtime and config.toml as one
\* transaction.  With no error both have the new capacity, with a config.toml
\* that could not be written the runtime has the old one; that the runtime keeps
\* the new one takes a second error, or a late one.  Only an initialize that has
\* looked for the file before can interfere, and the user's editor.
Transaction ==
    ~overwrote =>
        \A o \in Operator :
            /\ At(o, "write") => capacity = op[o].previous
            /\ At(o, "unlock") /\ op[o].error = "none" =>
                    /\ capacity = op[o].command.capacity
                    /\ file = ToSave(o) \/ op[o].outdated
            /\ At(o, "unlock") /\ op[o].error = "persist" =>
                    capacity = op[o].previous

\* Once all commands are over, admission is as the last `drain` or `resume`
\* has left it, whatever set-capacity met (tests/config_transaction.rs), unless
\* one was killed or could not remove the flag, or a `drain` came while a
\* set-capacity drained by itself: that one is undone with it.
DrainRestored ==
    /\ \A o \in Operator : /\ op[o].at \in {"idle", "done"}
                           /\ op[o].error \notin {"killed", "drain"}
    /\ ~undone
    => drain = manual

\* set-capacity leaves the other settings of config.toml alone, also when
\* several commands overlap.  It loses what was saved since it has loaded the
\* file, and a file that it could not read.
SettingsKept ==
    [][ (edits' = edits /\ ~lost') => file'.rest = file.rest ]_vars

=============================================================================
