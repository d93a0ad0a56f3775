---------------------- MODULE AdministrationInvariants ----------------------
(***************************************************************************)
(* The inductive invariant of Administration, conjunct by conjunct.        *)
(***************************************************************************)
EXTENDS Administration

Holding == {"write", "save", "rollback", "unlock"}

\* Where an error may have been met.
Ending == {"rollback", "unlock", "resume", "done"}

\* Where Runtime::initialize is over and the command goes on.
Initialized == Holding \cup {"set_drain", "probe", "drain_on", "begin", "resume"}

\* Where a drain that set-capacity has asked for may be in force.
Drained == Holding \cup {"begin", "resume"}

\* queue.lock is held over an idle pool that admits nobody.
HeldIdle == queueLock # Nobody => drain /\ pool = "idle"

\* Once a command has seen to it, there is a capacity file.
CapacityThere == \A o \in Operator : op[o].at \in Initialized => capacity # NoFile

\* What set_capacity_transactional has checked and done at each of its places.
Progress ==
    \A o \in Operator :
        /\ op[o].at \in Holding =>
                op[o].command.capacity \in 1..2 /\ op[o].previous \in 1..2
        /\ op[o].at \notin Ending => op[o].error = "none"
        /\ At(o, "rollback") => op[o].error = "persist"
        /\ At(o, "save") =>
                overwrote \/ capacity = op[o].command.capacity

\* The flag has a reason: the operator, or a command on its way or broken off.
DrainReason ==
    /\ \A o \in Operator : /\ At(o, "drain_on") => op[o].enabled
                           /\ op[o].at \in {"idle", "done"} => ~op[o].enabled
    /\ manual => drain \/ undone
    /\ drain => \/ manual
                \/ \E o \in Operator : op[o].enabled /\ op[o].at \in Drained
                \/ \E o \in Operator : op[o].error \in {"killed", "drain"}

\* What has been loaded is what config.toml says, as long as nobody has edited it.
LoadedKept ==
    ~lost =>
        \A o \in Operator :
            /\ op[o].at \notin {"idle", "done"} /\ ~op[o].outdated
            /\ file.state # "broken"
            => op[o].loaded.rest = file.rest

AdminInv ==
    /\ TypeOK
    /\ HeldIdle
    /\ CapacityThere
    /\ Progress
    /\ Transaction
    /\ DrainReason
    /\ LoadedKept

=============================================================================
