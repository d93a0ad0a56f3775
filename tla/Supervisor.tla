----------------------------- MODULE Supervisor -----------------------------
(***************************************************************************)
(* The supervision of one governed command (src/supervisor.rs): a single   *)
(* thread starts the command in a process group of its own and then polls, *)
(* every 25 ms and in this order, the child, the signals it was sent, the  *)
(* control socket, the run time and the grace period.  Around it the child *)
(* and its descendants live their own lives, the terminal, the agent and   *)
(* `agent-gov cancel` act at any moment, and the supervisor may be killed. *)
(***************************************************************************)
EXTENDS Naturals, Sequences

CONSTANTS
    Descendant, \* processes of the child's group other than the child
    Client,     \* invocations of `agent-gov cancel` for this job
    Delivered,  \* bound: the signals that somebody sends to the supervisor
    OwnStatus,  \* what the child may end with when nobody stops it
    CallsFail,  \* can a system call of supervise fail?
    MaxKills    \* bound: 1 when the supervisor can be killed, else 0

SIGINT  == 2
SIGQUIT == 3
SIGKILL == 9
SIGTERM == 15

\* The registered signals that end the run.  SIGWINCH, which is only passed
\* on, changes nothing here.
Terminators == {SIGINT, SIGQUIT, SIGTERM}
Signals     == Terminators \union {SIGKILL}

\* A wait status as a shell shows it: the exit code, or 128 + the signal.
KilledBy(s) == 128 + s
Statuses    == OwnStatus \union {KilledBy(s) : s \in Signals}

ASSUME StatusAssumption == OwnStatus \subseteq Nat
ASSUME DeliveredAssumption == Delivered \subseteq Terminators
ASSUME KillsAssumption  == MaxKills \in {0, 1}

None == "none"    \* no stream

ASSUME ClientAssumption == None \notin Client

VARIABLES
    pc,          \* where supervise is
    leader,      \* the child
    status,      \* the wait status of the dead child
    members,     \* the living descendants in the child's group
    sent,        \* the signals the supervisor has sent to the group
    pending,     \* the signals the supervisor was sent and has not read
    terminating, \* the signal termination was begun with, 0 before
    started,     \* `started` exists: the run time is being measured
    runOver,     \* max_run has elapsed
    graceOver,   \* termination_grace has elapsed since termination began
    error,       \* the io::ErrorKind supervise fails with
    socket,      \* the control socket exists
    backlog,     \* connections the listener has not accepted
    stream,      \* the connection that was accepted last
    client,      \* where each `agent-gov cancel` is
    foreground   \* who has the terminal

groupVars  == <<leader, status, members, sent>>
clockVars  == <<started, runOver, graceOver>>
cancelVars == <<backlog, stream, client>>
vars == <<pc, groupVars, pending, terminating, clockVars, error, socket,
          cancelVars, foreground>>

Locations == {"bind", "spawn", "transfer", "mark_running", "try_wait",
              "signals", "control", "read", "refuse", "max_run", "grace",
              "restore", "cleanup", "unbind", "over", "killed"}

Ended == pc \in {"over", "killed"}

ErrorKinds == {"NotFound", "PermissionDenied", "Other"}

Init ==
    /\ pc = "bind"
    /\ leader = "none"
    /\ status = 0
    /\ members = {}
    /\ sent = {}
    /\ pending = {}
    /\ terminating = 0
    /\ started = FALSE
    /\ runOver = FALSE
    /\ graceOver = FALSE
    /\ error = "none"
    /\ socket = FALSE
    /\ backlog = <<>>
    /\ stream = None
    /\ client = [c \in Client |-> "idle"]
    /\ foreground = "original"

---------------------------------------------------------------------------
(* Setting up                                                              *)

\* Signals::new has registered the signals just before.
Bind ==
    /\ pc = "bind"
    /\ socket' = TRUE
    /\ pc' = "spawn"
    /\ UNCHANGED <<groupVars, pending, terminating, clockVars, error,
                   cancelVars, foreground>>

BindFails(kind) ==
    /\ CallsFail
    /\ pc = "bind"
    /\ error' = kind
    /\ pc' = "over"
    /\ UNCHANGED <<groupVars, pending, terminating, clockVars, socket,
                   cancelVars, foreground>>

Spawn ==
    /\ pc = "spawn"
    /\ leader' = "alive"
    /\ pc' = "transfer"
    /\ UNCHANGED <<status, members, sent, pending, terminating, clockVars,
                   error, socket, cancelVars, foreground>>

\* Bug: the error returns without dropping the control endpoint.
SpawnFailsKeepingSocket(kind) ==
    /\ pc = "spawn"
    /\ error' = kind
    /\ pc' = "over"
    /\ UNCHANGED <<groupVars, pending, terminating, clockVars, socket,
                   cancelVars, foreground>>

SpawnFails(kind) ==
    /\ pc = "spawn"
    /\ error' = kind
    /\ pc' = "unbind"
    /\ UNCHANGED <<groupVars, pending, terminating, clockVars, socket,
                   cancelVars, foreground>>

\* The terminal, if there is one and it agrees, is given to the child's group.
Transfer ==
    /\ pc = "transfer"
    /\ foreground' \in {"original", "child"}
    /\ pc' = "mark_running"
    /\ UNCHANGED <<groupVars, pending, terminating, clockVars, error, socket,
                   cancelVars>>

\* Bug: the run time is not measured.
MarkRunningUntimed ==
    /\ pc = "mark_running"
    /\ pc' = "try_wait"
    /\ UNCHANGED <<groupVars, pending, terminating, clockVars, error, socket,
                   cancelVars, foreground>>

MarkRunning ==
    /\ pc = "mark_running"
    /\ started' = TRUE
    /\ pc' = "try_wait"
    /\ UNCHANGED <<groupVars, pending, terminating, runOver, graceOver, error,
                   socket, cancelVars, foreground>>

MarkRunningFails(kind) ==
    /\ CallsFail
    /\ pc = "mark_running"
    /\ error' = kind
    /\ pc' = "restore"
    /\ UNCHANGED <<groupVars, pending, terminating, clockVars, socket,
                   cancelVars, foreground>>

---------------------------------------------------------------------------
(* One turn of the loop                                                    *)

\* killpg.  A signal the child may catch or ignore is only sent, SIGKILL
\* ends every member of the group.
Send(s) == sent' = sent \union {s} /\ UNCHANGED <<leader, status, members>>

KillGroup ==
    /\ sent' = sent \union {SIGKILL}
    /\ members' = {}
    /\ status' = IF leader = "alive" THEN KilledBy(SIGKILL) ELSE status

StillRunning ==
    /\ pc = "try_wait"
    /\ leader = "alive"
    /\ pc' = "signals"
    /\ UNCHANGED <<groupVars, pending, terminating, clockVars, error, socket,
                   cancelVars, foreground>>

Reap ==
    /\ pc = "try_wait"
    /\ leader = "zombie"
    /\ leader' = "reaped"
    /\ pc' = "restore"
    /\ UNCHANGED <<status, members, sent, pending, terminating, clockVars,
                   error, socket, cancelVars, foreground>>

TryWaitFails ==
    /\ CallsFail
    /\ pc = "try_wait"
    /\ error' = "Other"
    /\ pc' = "restore"
    /\ UNCHANGED <<groupVars, pending, terminating, clockVars, socket,
                   cancelVars, foreground>>

\* signals.pending() yields the signals in numeric order, each once.
First(signals) == CHOOSE s \in signals : \A t \in signals : s <= t

\* Bug: a second signal starts the grace period anew.
HandleSignalsAnew ==
    /\ pc = "signals"
    /\ IF pending # {}
       THEN /\ Send(First(pending))
            /\ terminating' = First(pending)
            /\ graceOver' = FALSE
       ELSE UNCHANGED <<groupVars, terminating, graceOver>>
    /\ pending' = {}
    /\ pc' = "control"
    /\ UNCHANGED <<started, runOver, error, socket, cancelVars, foreground>>

\* Only the first terminating signal is passed on, the others are dropped.
HandleSignals ==
    /\ pc = "signals"
    /\ IF pending # {} /\ terminating = 0
       THEN Send(First(pending)) /\ terminating' = First(pending)
       ELSE UNCHANGED <<groupVars, terminating>>
    /\ pending' = {}
    /\ pc' = "control"
    /\ UNCHANGED <<clockVars, error, socket, cancelVars, foreground>>

\* One connection per turn is looked at, and none once termination has begun.
Accept ==
    /\ pc = "control"
    /\ terminating = 0
    /\ backlog # <<>>
    /\ stream' = Head(backlog)
    /\ backlog' = Tail(backlog)
    /\ pc' = "read"
    /\ UNCHANGED <<groupVars, pending, terminating, clockVars, error, socket,
                   client, foreground>>

NothingToAccept ==
    /\ pc = "control"
    /\ terminating # 0 \/ backlog = <<>>
    /\ pc' = "max_run"
    /\ UNCHANGED <<groupVars, pending, terminating, clockVars, error, socket,
                   cancelVars, foreground>>

\* Bug: the group gets its SIGTERM, but the grace period is not started.
ObeyUnrecorded ==
    /\ pc = "read"
    /\ client[stream] = "requested"
    /\ Send(SIGTERM)
    /\ stream' = None
    /\ pc' = "max_run"
    /\ UNCHANGED <<pending, terminating, clockVars, error, socket, backlog,
                   client, foreground>>

\* The request was there to be read.
Obey ==
    /\ pc = "read"
    /\ client[stream] = "requested"
    /\ Send(SIGTERM)
    /\ terminating' = SIGTERM
    /\ stream' = None
    /\ pc' = "max_run"
    /\ UNCHANGED <<pending, clockVars, error, socket, backlog, client,
                   foreground>>

\* The stream does not block: a request that is not there yet is an error.
ReadNothing ==
    /\ pc = "read"
    /\ client[stream] # "requested"
    /\ pc' = "refuse"
    /\ UNCHANGED <<groupVars, pending, terminating, clockVars, error, socket,
                   cancelVars, foreground>>

\* The stream is closed, whatever has been written to it by now.
Refuse ==
    /\ pc = "refuse"
    /\ stream' = None
    /\ pc' = "max_run"
    /\ UNCHANGED <<groupVars, pending, terminating, clockVars, error, socket,
                   backlog, client, foreground>>

\* Bug: the group gets its SIGTERM, but the grace period is not started.
MaxRunUnrecorded ==
    /\ pc = "max_run"
    /\ IF terminating = 0 /\ runOver THEN Send(SIGTERM) ELSE UNCHANGED groupVars
    /\ pc' = "grace"
    /\ UNCHANGED <<pending, terminating, clockVars, error, socket, cancelVars,
                   foreground>>

MaxRun ==
    /\ pc = "max_run"
    /\ IF terminating = 0 /\ runOver
       THEN Send(SIGTERM) /\ terminating' = SIGTERM
       ELSE UNCHANGED <<groupVars, terminating>>
    /\ pc' = "grace"
    /\ UNCHANGED <<pending, clockVars, error, socket, cancelVars, foreground>>

Escalate == KillGroup /\ leader' = IF leader = "alive" THEN "zombie" ELSE leader

\* Bug: SIGKILL follows in the same turn.
GraceIgnored ==
    /\ pc = "grace"
    /\ IF terminating # 0 THEN Escalate ELSE UNCHANGED groupVars
    /\ pc' = "try_wait"
    /\ UNCHANGED <<pending, terminating, clockVars, error, socket, cancelVars,
                   foreground>>

\* Bug: the signal that is reported is overwritten by SIGKILL.
GraceReportsKill ==
    /\ pc = "grace"
    /\ IF graceOver
       THEN Escalate /\ terminating' = SIGKILL
       ELSE UNCHANGED <<groupVars, terminating>>
    /\ pc' = "try_wait"
    /\ UNCHANGED <<pending, clockVars, error, socket, cancelVars, foreground>>

\* SIGKILL is sent again on every turn until the child has been reaped.
Grace ==
    /\ pc = "grace"
    /\ IF graceOver THEN Escalate ELSE UNCHANGED groupVars
    /\ pc' = "try_wait"
    /\ UNCHANGED <<pending, terminating, clockVars, error, socket, cancelVars,
                   foreground>>

---------------------------------------------------------------------------
(* The guards dropped on return, in the order Rust drops them              *)

RestoreTerminal ==
    /\ pc = "restore"
    /\ foreground' = "original"
    /\ pc' = "cleanup"
    /\ UNCHANGED <<groupVars, pending, terminating, clockVars, error, socket,
                   cancelVars>>

\* Bug: the guard is not disarmed when the child has been reaped.
CleanupAlways ==
    /\ pc = "cleanup"
    /\ KillGroup
    /\ leader' = "reaped"
    /\ pc' = "unbind"
    /\ UNCHANGED <<pending, terminating, clockVars, error, socket, cancelVars,
                   foreground>>

\* Bug: the group is killed, but nobody waits for the child.
CleanupWithoutWait ==
    /\ pc = "cleanup"
    /\ IF leader = "reaped" THEN UNCHANGED groupVars ELSE Escalate
    /\ pc' = "unbind"
    /\ UNCHANGED <<pending, terminating, clockVars, error, socket, cancelVars,
                   foreground>>

Cleanup ==
    /\ pc = "cleanup"
    /\ IF leader = "reaped" THEN UNCHANGED groupVars
       ELSE KillGroup /\ leader' = "reaped"
    /\ pc' = "unbind"
    /\ UNCHANGED <<pending, terminating, clockVars, error, socket, cancelVars,
                   foreground>>

\* The socket is removed and the listener closed, with what it has queued.
Unbind ==
    /\ pc = "unbind"
    /\ socket' = FALSE
    /\ backlog' = <<>>
    /\ pc' = "over"
    /\ UNCHANGED <<groupVars, pending, terminating, clockVars, error, stream,
                   client, foreground>>

\* What `run` exits with.  It makes itself end by the same signal if it can.
ExitCode ==
    CASE error = "NotFound"         -> 127
      [] error = "PermissionDenied" -> 126
      [] error = "Other"            -> 70
      [] error = "none" /\ terminating # 0 -> KilledBy(terminating)
      [] OTHER -> status

---------------------------------------------------------------------------
(* The workload                                                            *)

\* A child whose supervisor is gone is reaped by init.
LeaderEnds(how) ==
    /\ leader = "alive"
    /\ leader' = IF pc = "killed" THEN "reaped" ELSE "zombie"
    /\ status' = how
    /\ UNCHANGED <<pc, members, sent, pending, terminating, clockVars, error,
                   socket, cancelVars, foreground>>

\* What the child may end with: its own choice, or a signal it was sent.
Endings == OwnStatus \union {KilledBy(s) : s \in sent}

Fork(d) ==
    /\ leader = "alive" \/ members # {}
    /\ d \notin members
    /\ members' = members \union {d}
    /\ UNCHANGED <<pc, leader, status, sent, pending, terminating, clockVars,
                   error, socket, cancelVars, foreground>>

MemberEnds(d) ==
    /\ d \in members
    /\ members' = members \ {d}
    /\ UNCHANGED <<pc, leader, status, sent, pending, terminating, clockVars,
                   error, socket, cancelVars, foreground>>

---------------------------------------------------------------------------
(* Signals, time and kills                                                 *)

SignalSupervisor(s) ==
    /\ ~Ended
    /\ pending' = pending \union {s}
    /\ UNCHANGED <<pc, groupVars, terminating, clockVars, error, socket,
                   cancelVars, foreground>>

RunExpires ==
    /\ started /\ ~Ended
    /\ ~runOver
    /\ runOver' = TRUE
    /\ UNCHANGED <<pc, groupVars, pending, terminating, started, graceOver,
                   error, socket, cancelVars, foreground>>

GraceExpires ==
    /\ terminating # 0 /\ ~Ended
    /\ ~graceOver
    /\ graceOver' = TRUE
    /\ UNCHANGED <<pc, groupVars, pending, terminating, started, runOver,
                   error, socket, cancelVars, foreground>>

\* SIGKILL of the supervisor: the kernel closes its sockets, no guard runs.
Killed ==
    /\ MaxKills = 1
    /\ ~Ended
    /\ pc' = "killed"
    /\ leader' = IF leader = "zombie" THEN "reaped" ELSE leader
    /\ backlog' = <<>>
    /\ stream' = None
    /\ UNCHANGED <<status, members, sent, pending, terminating, clockVars,
                   error, socket, client, foreground>>

---------------------------------------------------------------------------
(* `agent-gov cancel`, which has found the job in the metadata             *)

Listening == socket /\ pc # "killed"

\* The server end of the connection is open: queued, or being looked at.
Open(c) == stream = c \/ \E i \in 1..Len(backlog) : backlog[i] = c

Move(c, to) == client' = [client EXCEPT ![c] = to]

Connect(c) ==
    /\ client[c] = "idle"
    /\ IF Listening
       THEN Move(c, "connected") /\ backlog' = Append(backlog, c)
       ELSE Move(c, "refused") /\ UNCHANGED backlog
    /\ UNCHANGED <<pc, groupVars, pending, terminating, clockVars, error,
                   socket, stream, foreground>>

\* The command reports success as soon as write_all has returned.
Request(c) ==
    /\ client[c] = "connected"
    /\ Move(c, IF Open(c) THEN "requested" ELSE "refused")
    /\ UNCHANGED <<pc, groupVars, pending, terminating, clockVars, error,
                   socket, backlog, stream, foreground>>

---------------------------------------------------------------------------
Supervise ==
    \/ Bind \/ Spawn \/ Transfer \/ MarkRunning
    \/ \E kind \in ErrorKinds :
          BindFails(kind) \/ SpawnFails(kind) \/ MarkRunningFails(kind)
    \/ StillRunning \/ Reap \/ TryWaitFails
    \/ HandleSignals
    \/ Accept \/ NothingToAccept \/ Obey \/ ReadNothing \/ Refuse
    \/ MaxRun \/ Grace
    \/ RestoreTerminal \/ Cleanup \/ Unbind

Workload ==
    \/ \E how \in Endings : LeaderEnds(how)
    \/ \E d \in Descendant : Fork(d) \/ MemberEnds(d)

Cancel == \E c \in Client : Connect(c) \/ Request(c)

Environment ==
    \/ \E s \in Delivered : SignalSupervisor(s)
    \/ RunExpires \/ GraceExpires \/ Killed

\* Nothing is left to do once the supervisor is gone.
Terminated == Ended /\ UNCHANGED vars

Next == Supervise \/ Workload \/ Cancel \/ Environment \/ Terminated

Spec == Init /\ [][Next]_vars

(***************************************************************************)
(* The loop keeps turning and the clock of the grace period keeps running. *)
(* Nothing is assumed of the workload, which may ignore every signal it    *)
(* can, of those who send signals and requests, nor of the run time.       *)
(***************************************************************************)
Fairness == WF_vars(Supervise) /\ WF_vars(GraceExpires)

FairSpec == Spec /\ Fairness

---------------------------------------------------------------------------
(* Properties                                                              *)

TypeOK ==
    /\ pc \in Locations
    /\ leader \in {"none", "alive", "zombie", "reaped"}
    /\ status \in Nat
    /\ members \in SUBSET Descendant
    /\ sent \in SUBSET Signals
    /\ pending \in SUBSET Terminators
    /\ terminating \in Terminators \union {0}
    /\ started \in BOOLEAN
    /\ runOver \in BOOLEAN
    /\ graceOver \in BOOLEAN
    /\ error \in ErrorKinds \union {"none"}
    /\ socket \in BOOLEAN
    /\ backlog \in Seq(Client)
    /\ stream \in Client \union {None}
    /\ client \in [Client -> {"idle", "connected", "requested", "refused"}]
    /\ foreground \in {"original", "child"}

(***************************************************************************)
(* When supervise returns, on any of its paths, the child is dead and      *)
(* reaped, the socket is removed and the terminal is given back; and when  *)
(* it failed, nothing of the group is left to run outside the pool.        *)
(***************************************************************************)
CleanReturn ==
    pc = "over" =>
        /\ leader \in {"none", "reaped"}
        /\ ~socket
        /\ foreground = "original"
        /\ error # "none" => members = {}

(***************************************************************************)
(* Exit status 0 means that the workload came to its end by itself: no     *)
(* signal, cancellation or time limit has touched its group before.        *)
(***************************************************************************)
SuccessIsUnforced ==
    pc = "over" /\ ExitCode = 0 => status = 0 /\ sent = {}

(***************************************************************************)
(* The group is signalled only while its leader is not reaped, so that its *)
(* number cannot have passed to processes of somebody else.                *)
(***************************************************************************)
NoSignalAfterReap ==
    [][sent' # sent => leader \in {"alive", "zombie"}]_vars

(***************************************************************************)
(* A workload that is asked to stop has the whole grace period: SIGKILL is *)
(* sent after it, or when supervision itself has failed.                   *)
(***************************************************************************)
KillOnlyAfterGrace ==
    [][(SIGKILL \in sent' \ sent) => graceOver \/ error # "none"]_vars

(***************************************************************************)
(* A signal that reaches the supervisor ends the run, however the workload *)
(* reacts and however many signals follow.                                 *)
(***************************************************************************)
SignalEnds == pending # {} ~> Ended

(***************************************************************************)
(* A request that is there when the supervisor reads the connection ends   *)
(* the run, whatever other connections are ahead of it.                    *)
(***************************************************************************)
CancelEnds ==
    \A c \in Client :
        client[c] = "requested" /\ Open(c) /\ (stream = c => pc = "read")
            ~> Ended

(***************************************************************************)
(* The run time limits every workload, also one that ignores SIGTERM: this *)
(* is what the pool relies on when it assumes that workloads end.          *)
(***************************************************************************)
TimeLimitEnds == runOver ~> Ended

---------------------------------------------------------------------------
(* What the documentation says and the code does not keep                  *)

(***************************************************************************)
(* tests/resilience.rs: a job for which `agent-gov cancel` has reported    *)
(* success is being stopped.                                               *)
(***************************************************************************)
CancelHonoured ==
    \A c \in Client :
        client[c] = "requested" /\ ~Ended /\ leader = "alive"
            => Open(c) \/ terminating # 0
=============================================================================
