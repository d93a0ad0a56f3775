# Verification of agent-gov

agent-gov limits how many heavy commands (builds, test runs) the coding agents
of one user run at the same time. This directory holds TLA+ models of it, the
TLC configurations that check them on small instances, and proofs of their main
properties for every instance. All paths are relative to the repository.

## 1. The system

There is no daemon. Every `agent-gov run` is a process of its own, and they
coordinate only through files and advisory locks (`flock`) in one runtime
directory. A process can be killed between any two file operations; the kernel
then releases its locks and leaves its files.

| Component | State | Operations | What is hard |
|---|---|---|---|
| Scheduler (`src/scheduler/mod.rs`, `runtime.rs`) | `queue.lock`, `slots/slot-N.lock`, `active/slot-N.json`, `waiters/*.lease`, `drain.flag`, `capacity` | `acquire`, `Permit::drop`, `set_drain`, `set_capacity_transactional` | files that are changed with and without `queue.lock`, stale files of killed processes, order of arrival |
| Supervisor (`src/supervisor.rs`) | the child and its process group, the cancel socket, the foreground group of the terminal | `supervise`, `exit_code` | signals, cancel, `max_run`, grace period and normal exit race in one polling loop |
| Commands (`src/main.rs`, `src/status.rs`) | none of their own | `run`, `hook`, `status`, `doctor`, `drain`, `resume`, `cancel`, `install`, `uninstall`, `config set-capacity` | `set-capacity` is drain, write, save, resume: four steps with an error or a crash between them |
| Configuration (`src/config.rs`) | `config.toml` | `load`, `validate`, `save` | fallback to the defaults on any error |
| Installer (`src/install/mod.rs`) | settings of Claude and Cursor, one backup each, the manifest with digests | `install`, `uninstall` | several files in one transaction, edits of the user between two commands |
| Hook (`src/hook/mod.rs`) | none | `handle` | what RTK answers is not trusted, and its verdict must not get lost |
| RTK (`src/hook/rtk.rs`) | a child process, a reading thread | `invoke` | timeout, kill, and a descendant that holds the pipe |
| Shell (`src/shell/*.rs`) | none | `analyze`, `classify_argv`, `rewrite_preserves_structure`, `rewrite` | a rewrite must never change what the command does, nor wrap it twice |
| Doctor (`src/doctor.rs`) | none | `run` | reads only |

Interactions: the hook asks the RTK process for a rewrite and the shell
analysis for a classification, and answers the agent with a command that calls
`agent-gov run`. `run` calls `Scheduler::acquire`, then `supervise` with the
permit, then drops the permit. `cancel` finds a job in the metadata and writes
to its socket. `status` and `cancel` probe the slot locks. `drain`, `resume` and
`set-capacity` change the runtime directory while `run` processes use it.

### What makes each component correct

* Scheduler: at most `capacity` workloads, one per slot; arrival order; bounded
  queue; nothing left behind by a process that was not killed, and what a killed
  one leaves is cleaned up or respected; drain stops admission; nobody waits for
  ever.
* Supervisor: the child is reaped before the permit goes; once termination was
  asked for, the group is gone after the grace period; a run that was cut short
  never looks like a success; a cancel that was accepted has an effect.
* Administration: the capacity changes under an idle pool only; the runtime
  capacity and the saved one change together or not at all; drain is as it was
  before; the other settings of `config.toml` survive.
* Installer: uninstall restores what the user had and keeps later edits; install
  is idempotent; a failure leaves everything as it was; a kill at any point loses
  nothing of the user's, and the next command that succeeds has its full effect.
* Hook and shell: a heavy command is governed or refused, a light one is not
  touched, and nothing but prefixes is inserted, whatever RTK prints; the class
  of a command does not depend on how it is called; an answer comes, in bounded
  time, and leaves no process of RTK behind.

## 2. Modules

| Module | Content |
|---|---|
| `Scheduler` | the pool: one process per invocation, one action per file operation that others can observe |
| `SchedulerInvariants` | inductive invariants |
| `FifoPool` | the abstract pool: a fair queue in front of the slots |
| `Job` | the abstract life of one governed command, what scheduler and supervisor expect of each other |
| `SchedulerRefinement` | the refinement mappings from `Scheduler` to `FifoPool` and `Job` |
| `MCScheduler` | instance for TLC |
| `SchedulerProofs` | proofs: types, slot exclusion, no trace left |
| `SchedulerRefinementProofs` | proofs: the queue and its bounds, drain, implementation of `FifoPool` and of `Job` |
| `Supervisor` | one governed command: `supervise` step by step, the child's group, signals, clocks, `cancel` |
| `SupervisorInvariants` | its inductive invariant |
| `SupervisorRefinement` | the refinement mapping from `Supervisor` to `Job` |
| `MCSupervisor` | instance for TLC |
| `SupervisorProofs` | proofs: types, clean return, exit status, whom and when it signals, implementation of `Job` |
| `Installer` | `install` and `uninstall`: settings, backup and manifest of each agent, written one by one and undone, killed anywhere, with edits of the user |
| `InstallerInvariants` | its inductive invariant |
| `MCInstaller` | instance for TLC |
| `InstallerProofs` | proofs: types, what a kill leaves, effect of the commands, complete rollback |
| `Administration` | `drain`, `resume`, `status` and `set-capacity` as processes on the same files, step by step |
| `AdministrationInvariants` | its inductive invariant |
| `MCAdministration` | instance for TLC |
| `AdministrationProofs` | proofs: types and lock, transaction, drain, settings |
| `Rtk` | one call of `rtk rewrite`: the waiting thread, the reading thread, RTK's processes, the clocks |
| `Shell` | classification, structure check and rewrite of a command line, without state |
| `Hook` | the answer to one tool call; extends `Rtk` and `Shell` |
| `HookInvariants` | the inductive invariants of `Rtk` and `Hook` |
| `MCHook` | instance for TLC |
| `ShellProofs` | proofs about the operators of `Shell`: where `normalize` ends, what it does behind other words, what the governor's prefix and the structure check make of words and lines |
| `HookProofs` | proofs: what RTK leaves behind, its verdict, what is governed, what is inserted, the class under wrappers |

### Scheduler

The constant `Proc` is the set of pids of the invocations. `pc[p]` is the place
of an invocation in the code:

| `pc` | Code |
|---|---|
| `lock_queue` | `acquire` 97-98, blocked in `lock` |
| `prune`, `prune_remove` | `prune_stale_waiters`: before the `try_lock` of the next lease, between its `unlock` and `remove_file` |
| `scan`, `check_active`, `try_slot` | `try_slots`: before `slot_quarantined` reads the metadata, after it has read it, before the `try_lock` of the slot |
| `granted` | the permit exists, `acquire` 112-116 are to run |
| `no_slot` | `acquire` 126-139 |
| `waiting` | between the unlock of `queue.lock` and the next turn of the loop |
| `drop_lease`, `remove_lease` | `WaiterLease::drop`, before the unlock and before `remove_file` |
| `bind`, `spawn`, `mark_running`, `supervise` | `supervise` 50, 57, 65 and its polling loop |
| `drop_active`, `drop_slot` | `Permit::drop` 72-73 and 74 |
| `exiting`, `done` | the process has its exit status; its parent has reaped it |

The files are variables: `queueLock` and `slotLock` say who holds a lock,
`active[s]` is the metadata of a slot, `leaseFiles` and `leaseLocked` say whose
lease file exists and who holds its lock, `ticket` is the timestamp in the
file's name, `control` the sockets that exist. `todo`, `offset`, `seen` and
`slot` are the local variables of the functions. `child[p]` is the workload,
`"zombie"` between its end and `try_wait`.

Steps are merged only where no other process can tell. `MarkStarting`
(lease removal, metadata, unlock) and `Enqueue` (create, lock, write) happen under
`queue.lock`. The metadata is read by others under `queue.lock` only, and a
lease that others see without it, in `WaiterLease::drop` of its own process, is
another file. `RemoveActive` merges the removal of metadata and socket, which
no code reads together. The reads of one directory listing and of the config
are one step. `Abort` leaves the critical section on every error of it, in the
order in which Rust drops `queue_lock` and `lease`.

What is abstracted: file formats, the JSON of leases (the owner and whose it
is), the job id (the pid stands for it), the label, the console messages,
jitter and the length of the backoff. Metadata that cannot be parsed is not
modelled: `write_atomic` renames complete files only.

What is assumed:

* pids are not reused, so `process_alive` answers for the process that was
  meant, and an invocation does not come back;
* the clock of the lease names does not step back and never gives a value
  twice; the order of leases made at the same nanosecond would be the random
  suffix of the name;
* the workload is one process: a process group that outlives its leader is
  outside the model, as it is for the code, which probes the child's pid only;
* advisory locks are released when a process is killed.

`Governed` leaves out one window, which `docs/product-requirements.md` accepts
(section on the orphan guard): a supervisor killed after `spawn` and before
`mark_running` leaves a child that no file names.

### FifoPool

`queue`, `ahead` and `holder`: a process joins behind everybody, enters a slot
only when nobody is ahead of it (a newcomer only when nobody queues), gives up,
or leaves. `SchedulerRefinement` reads the queue off the held leases, the order
off the tickets, and the holders off the slot locks. Pruning, metadata,
quarantine, drain and supervision are stuttering steps of it; `Crash` is giving
up or leaving.

### Supervisor

The scheduler's `bind`, `spawn`, `mark_running` and `supervise` are the outline
of `supervise`; `Supervisor` is its detail, for one job. `pc` is the place in
`src/supervisor.rs`:

| `pc` | Code |
|---|---|
| `bind`, `spawn`, `transfer`, `mark_running` | 49-50, 51-57, 63-64, 65: the socket, the child in its own group, the terminal, the metadata |
| `try_wait` | 70-76: `StillRunning`, `Reap` or `TryWaitFails` |
| `signals` | 78-88: the pending signals, of which the first ends the run |
| `control`, `read`, `refuse` | 90-93 and 126-135: `accept`, `read_exact` on a stream that does not block, the drop of the stream |
| `max_run`, `grace` | 95-99, 100-104 |
| `restore`, `cleanup`, `unbind` | the drops of the terminal, child and socket guards, in the reverse order of their creation |
| `over`, `killed` | `supervise` has returned; the process got SIGKILL |

Around it, at any moment: the child ends (`LeaderEnds`), descendants appear and
end, signals arrive, the two clocks run out, `cancel` connects (`Connect`) and
then writes (`Request`), the supervisor is killed. `sent` collects what was sent
to the group; the SIGKILL that the loop repeats on each turn after the grace
period (100-104) shows in it once. SIGKILL takes effect at once; any other signal
may be ignored, and a child that stops does nothing until it is killed.

What is abstracted: wait statuses are the numbers a shell shows (128 plus the
signal); SIGWINCH, which is passed on and changes nothing; the length of the two
clocks and of the poll. Ctrl+C while the child's group has the terminal goes to
the child alone: it is a SIGINT the child ends by, 130 in `OwnStatus`. Otherwise
it is a SIGINT of the supervisor.

What is left out: a descendant that leaves the group by `setsid`; errors of
`accept` and `set_nonblocking`; a supervisor that was started with SIGCHLD
ignored, so that the kernel reaps the child; a terminal transfer that fails
half way; the limit of the listen backlog. If a write of `mark_running` fails
after its rename, the file says "running" already: for the scheduler this is
`MarkRunning` followed by `SuperviseFails`.

### Job

`Scheduler` says "the workload ends" and "the child is reaped before the permit
is dropped" without looking into `supervise`, and `Supervisor` says "my socket
stays" without looking at the pool. `Job` is the contract. `Supervisor` implements
it (`ImplementsJob`): to the others the job is over once the socket is gone, and a
child reaped before that is no different from a zombie. Each invocation of
`Scheduler` implements it as well (`ImplementsJobs`), so nothing that other
processes do, clearing stale metadata first of all, disturbs a job that
runs. TLC cannot check a quantified specification, so `ImplementsJobs` is the
conjunction over the initial states and over the steps.

### Installer

A command prepares all agents in memory, then writes them one by one. `order`
and `plan` are the vector `prepared` of `PreparedSettings`, `at` is the agent
that is being written or undone. `pc`:

| `pc` | Code (`src/install/mod.rs`) |
|---|---|
| `prepare` | the loops of `install` 44-68 and `uninstall` 76-103, one turn for each member of `todo` |
| `backup`, `settings`, `manifest` | the three writes of `commit_settings` 136-142 |
| `undo_settings`, `undo_manifest` | the two writes of `rollback_settings` 165-172, from the agent at hand back to the first |
| `done`, `failed`, `stuck`, `killed` | success; an error after everything was undone, or before anything was written; "rollback also failed"; SIGKILL |

A settings file is abstracted to what the commands ask of it: a number for what
the user has in it, how many hooks run which binary and whether they call RTK,
whether RTK's separate hook is there, whether it parses (`"unreadable"`) and can be patched (`"odd"`:
Cursor's schema version, hooks that are no list). `own` tells a file as the
user's program wrote it from one that was written back by agent-gov, whose
bytes differ even when the hooks are gone. The code compares SHA-256 digests,
the model contents: a manifest holds the two contents the digests are of. The
bytes of `Absent` and of an empty file are the same (`unwrap_or_default`), which
`Bytes` models. A hook with `--rtk` and one without differ, so a re-install that is
killed before its manifest leaves settings that differ from the installed
snapshot. The order of the hooks of different binaries in the file is not
modelled.

The reads of one agent (settings, manifest, backup) are one step: manifest and
backup are written under `install.lock` only, and an edit of the settings counts
as one before or after their only read. An edit while a command runs is
overwritten by it (or by its rollback), and the properties that speak of the
settings after a command leave out the agents in `edited`; all others hold
across such edits. The user does not touch backups and manifests.

A write is `write_atomic`: it can fail before its temporary file exists, after
that, or after the rename (`sync_all` of the directory; for the backup also the
write of its `.sha256`, which no code reads). The temporary file is named after
the file and the pid, so it stays in the way of the same process only
(`leftover`).

What is left out: the arguments and the executables, which are checked before
anything is written (`parse_agents`, `validate_executable_path`); the
creation of the directories (`ensure_parent`); manifests that do not parse or have
another version, which fail a command like a failing read does (`ReadFails`).

### Administration

Each member of `Operator` is one command, `op[o]` its place and its locals:

| `at` | Code |
|---|---|
| `idle` | before `load_safe_config` |
| `initialize`, `create` | `Runtime::initialize` before and after it asked for the capacity file (`runtime.rs` 104-107) |
| `set_drain` | `main.rs` 274, `drain` and `resume` |
| `probe`, `drain_on` | `configure` 351, 352-354 |
| `begin`, `write`, `save`, `rollback`, `unlock` | `set_capacity_transactional`: up to the checks, the capacity file, `persist`, the second write, the unlock |
| `resume` | `configure` 357-361 |

`set_drain` works under `queue.lock` from its first to its last step and is one
step here, possible when nobody holds the lock. `queueLock` is the lock as
`set_capacity_transactional` holds it, from `Begin` to `Unlock`. `enabled_drain`
and the existence of the capacity file are asked for without it. `Written` is
what `write_atomic` leaves behind: success, an error with the old content, or an
error of the last `sync_all` with the new one. `config.toml` is its capacity,
one token for everything else, or unusable: absent, or `broken`, which stands
for what `load_from` and `validate` refuse and what cannot be read.

`Scheduler` has the same commands as single steps, `SetDrain` and `SetCapacity`,
beside the whole pool. Here the pool is `idle`, `busy` (a job or a waiter) or
`stale` (files of a killed process), and an admission is a step under the free
lock with the flag away. `DrainStopsAdmission` says this of the newcomers in the
pool; that the code keeps waiters out as well is what `drain_waiters` shows.

Four history variables say how far the promises go: `overwrote` (an
`initialize` that had found no capacity file wrote over the one another command
had made meanwhile, maybe in its transaction, maybe under a running job),
`undone` (the flag of a `drain` that came after the probe is taken away by
the resume of `set-capacity`), `lost` (an edit of `config.toml` after the load,
or a file that could not be read, is overwritten), and `manual`, the
operator's last wish. The first three are windows of the code, and each property
holds outside of its own only. A kill may leave the drain flag, or a capacity
that `config.toml` does not have, and so may an error of `write_atomic` after its
rename; `Transaction` and `DrainRestored` name these cases.

### Rtk, Shell and Hook

`Hook` is one process that answers one tool call: `TakeCall` (the early returns
and the analysis of the original), `Consult` (the steps of `Rtk`), `Consulted` (the
match over RTK's decision), `Conclude` (the rewrite, its fallback, the reply).

`Rtk` is `invoke`. `step` is the place of the calling thread; `wait` is
`wait_timeout`, `receive` the `recv_timeout` for the rest of the time, `kill` and
`reap` are `kill_group_and_reap`, `finish` and `finish_join` are `finish_reader`.
The reading thread ends when nobody has the pipe open, or with an error. RTK may
start a process that stays in its group or leaves it, and inherits the pipe or
not; both may close it or end at any moment, or never. Reading does not end at
64 KiB, only keeping does, so the size is a matter of the decision. The exit
code is chosen when it is looked at.

`Shell` has no state. A line is a sequence of simple commands (segments), each
with its words, whether it is hidden (in a substitution or subshell), and what
follows it; a line may also be of a syntax that is not supported (`odd`: errors,
here-documents, no command), or nested beyond the limit of `walk` (`deep`). A
word has no inner structure; the constants say which words are assignments,
options, paths, tasks with a colon. What cuts a line into segments and words,
tree-sitter and shlex, is external. The options of `agent-gov run` that `rewrite`
inserts are left out. `Normalize` is a recursive function over the places of the
words, as the loop of `normalize` is: `NormalizeAt` is one turn of it.

`HeavyGoverned` and `OnlyInsertions` compare the answer with the agent's line, word
by word: `Ungoverned` takes one governor's prefix out of a segment, `WithoutRtk` at
most one call of RTK. `ClassificationStable` puts the words of `SafePrefixes` before
a command. What such a prefix is, is defined without `normalize` (`OnlyWrappers`):
assignments, then calls of wrappers, each with options that take no value, or a
level for `nice`.

What RTK may print (`RtkOutputs`): `rtk` before any subset of the programs, the
same with a changed operator, `rtk` before everything, and the lines of
`StrayLines`. The reply carries the line, the permission and the timeout; after
an error the host goes on with its own request.

`HeavyGoverned` has one exception, an answer of RTK beyond the depth limit, and
`rtk_too_deep` shows what becomes of the heavy command then. `RtkNestsTooDeep` is
as narrow as the state allows: RTK's answer was to be taken over, and it can print
such a line.

Outside of the properties: with `&` behind a list (`npm test && echo ok &`) the
shell runs the whole list in the background, but the heavy command is governed and
not denied, against `README.md` 169 and FR-026, since `is_background` looks right
behind the command only; an answer of RTK that asks
and fails the structure check loses the question, and a list of which RTK
prefixes some commands only fails it; a line of the agent's own deeper than 128
nodes is an error of the hook instead of a pass; `nice -10`, `env -u X` and
`npm --prefix d` hide a heavy command from the classifier; after the child was
reaped its group number could belong to others when it is signalled.

## 3. Runs

| Run | Instance | Question |
|---|---|---|
| `pool` | 3 processes, capacity 1 at first, queue 2 with 1 per owner, 3 operator commands, failing writes, expiring waits, one kill or one probe | slot exclusion, arrival order, drain, bounds of the queue, cleanup on each error path, quarantine of orphans, each invocation is a `Job`, all are a `FifoPool` |
| `pool_liveness` | 3 processes, one kill or one probe, waits never expire | everybody ends, every waiter gets its workload |
| `busy_pool` | 2 processes, nothing fails | violation: `NobodyFails` |
| `drain_waiters` | 2 processes, one drain, nothing fails | violation: `DrainSparesWaiters` |
| `supervisor` | a child and one descendant, 2 cancel commands, SIGINT and SIGTERM, failing calls, one kill | what every return leaves behind, what exit status 0 means, whom and when it signals, it ends when asked to, it is a `Job` |
| `cancel_lost` | one cancel command, nothing fails | violation: `CancelHonoured` |
| `installer` | 2 agents, 2 paths of the binary, 3 commands with an edit or with one of them failing or killed, 2 commands with both | what a kill leaves, effect of install and uninstall, rollback |
| `administration` | 2 commands out of 7, one edit, one kill, failing calls, a pool | when the capacity changes, transaction, drain, settings |
| `hook` | one call: 28 commands of one segment and lists of two under three configurations, RTK for a dozen of them, with every behaviour of its processes | what is governed, what is inserted, permission, classification, it ends |
| `rtk_too_deep` | the calls of `hook` | violation: `GovernedWhateverRtk` |
| `edits_lost` | 2 edits, nothing fails | violation: `UninstallKeepsEdits` |
| `rollback_blocked` | one failing write | violation: `FailureRestores` |

Bounds. Three processes are one in the slot, one first in the queue and one
that arrives, prunes or takes the freed slot: the races here are between two of
them with the third's file as the object. One kill suffices for every stale
file, since two stale files of different kinds need a single process to be killed
at a different place, and the runs let it be any place. A probe takes a slot lock
for an instant, and one is enough for a grant to meet it; kills and probes share one
bound, `MaxDisturbances`. Three operator commands are a drain, a change to two
slots and a resume, so the pool is seen at either capacity; that the capacity
shrinks under an idle pool only is the matter of `administration`. `WaitExpires`,
`WritesFail`, `MaxDisturbances` and `MaxAdmin` are the only bounds on behaviour, and
the theorems hold for all their values. The constraint `OneOfAlike` of `pool` leaves
no behaviour out but those that another one stands for: processes 1 and 3 have the
same owner and begin their scan at the same slot, and nobody can tell an
invocation that has not had `queue.lock` yet from one that has not begun. With one waiter for each of two owners,
`pool` reaches the limit of an owner and not that of the queue, which is as large as
all owners' limits together there: for this half of `QueueBounded`, the theorem
`QueueBoundedHolds` speaks.

For the supervisor, one descendant is enough to tell the group from its leader,
and two cancel commands to have one connection ahead of another, also one that
never sends its request. `Delivered` has two signals, so that a second one can
follow the first in the grace period and both can be pending in one turn; each
may arrive any number of times. `MaxKills` is the kill of the one supervisor. The
child's own status is 0, which no signal gives.

For the installer, two agents are all there are, and the least for a rollback that
has one behind it. Three commands are an install, a second one over it (with
another binary, or with RTK) and an uninstall, with a failure or a kill at any
point of one of them or an edit at any moment; the constraint `FourEvents` cuts
behaviours with both an edit and a fault after the second command, and these
have the theorems alone: every property of this run is proved. With
`UndoMayFail` a rollback may fail as well, on the disk that has failed before; in
`rollback_blocked` it may not, so that the one failing write is all that goes wrong.
The theorems hold for any number of each, and for either value of
`UndoMayFail`. The agents are symmetric: Claude and Cursor differ in the JSON
they are patched in.

For the administration, two commands are one in the middle of its steps and one
that gets in between; the pool and the user's edit are further actors. `Command`
has `set-capacity` to either number, to an invalid one, with and without
`--drain`, and the three others. The capacity file is absent or 1 at first,
`config.toml` absent or anything valid. (Three commands, without failures, kill
and edit, hold as well.)

For the hook, the lines have every rule of the classifier with a command on
either side of it, each wrapper, hidden segments, and two segments joined and
ended by `&&` and `&`. RTK is consulted for the lines whose segments it can mix
up: one and two segments, heavy, light and hidden, with a redirection, with an
assignment, in the background. `TimeoutFloor` 2 has a request below and one above
it. `CallsFail`, `StrayLines` and `SafePrefixes` are the other bounds. Beside the
properties the run checks `HookInv`, from which they are proved.

Fairness (`Fairness` in `Scheduler`). An invocation that was started keeps
running: weak fairness of `Step(p)`. `queue.lock` is requested again and again
by processes that sleep in between, and held for a short critical section:
strong fairness of `LockQueue(p)`. The wait limit is a monotonic clock, so a
loop that keeps coming back to the comparison finds it elapsed: strong fairness
of `TimeOut(p)`. The workload ends because the supervisor kills it after
`max_run` and the grace period: weak fairness of `ChildExit(p)`. For an orphan
this is an assumption on the workload. Starting, killing, probing and the
operator's commands have no fairness.

`pool_liveness` runs without drain and with waits that never expire: then the code has no reason left to send a waiter away. `WaiterServed` asks
for the start of its workload, or that it was killed itself, or has met the I/O
error that `busy_pool` shows, so it says more than that the waiter ends
(`Termination`): its mutant, which refuses a waiter for a limit that is meant for
newcomers, violates it and lets everybody end. Under a drain `DrainSparesWaiters`
shows what becomes of a waiter.

`Fairness` in `Supervisor` is weak fairness of the turns of the loop, which is
one thread that sleeps 25 ms at most and blocks nowhere, and of the clock of the
grace period. Nothing is assumed of the child, of those who send signals and
requests, nor of `RunExpires`. `TimeLimitEnds`, with the clock of `max_run`, is
what justifies the scheduler's weak fairness of `ChildExit` for a workload that
is supervised.

`Installer` has no fairness and no liveness property: a command is a loop over
its agents that waits for nothing but `install.lock`.

`Fairness` in `Hook` is weak fairness of the calling thread, of the reading thread
when the pipe is closed, and of the two clocks. Nothing is assumed of RTK: the
fairness of `ChildEnds` and `Close` is missing on purpose. A wait for a child that
was sent SIGKILL ends. `Administration` has no fairness and no liveness property: its
commands wait for nothing but `queue.lock`, which is held for a few steps or
released by the kernel.

Every property of a passing run has a mutant of the code, an operator with the
comment `Bug:` beside the one it changes, under which TLC finds the property
violated.

### What the violations show

* `NobodyFails`: the owner of the metadata removes it without `queue.lock`. If
  it does so after the file was read, and its process has ended by the time it
  is probed, `remove_file` returns NotFound and the waiter exits with an I/O
  error although the slot is free. `prune_stale_waiters` has the same shape when
  a waiter times out (`PruneLost`).
* `DrainSparesWaiters`: the loop of `acquire` asks for `drain.flag` on every turn
  (`scheduler/mod.rs` 100-105), before it looks whether the process has a lease.
  A waiter finds it on its next turn and ends with EX_TEMPFAIL. FR-059 has drain
  stop new admissions and lets the waiters there are finish.
* `CancelHonoured`: the accepted stream is read once, without blocking, and
  dropped. A `cancel` that has connected and writes between the read and the
  drop reports success, and the job runs on. The test in `tests/resilience.rs`
  expects a job to stop after such a success.
* `UninstallKeepsEdits`: a second install takes over the original's digest from
  the manifest and makes its own result the installed snapshot. If the user
  has edited the settings between the two, uninstall finds them as they were
  installed and restores the backup, from before the edit. The operations guide
  says that later changes are preserved.
* `FailureRestores`: `rollback_settings` starts with the agent whose write has
  failed. When the write got as far as its temporary file, the rollback of that same
  file fails, because the file is created with `create_new` under the same name,
  and the agents before it stay changed. A rollback that gets through is
  complete (`RollbackRestores`).
* `GovernedWhateverRtk`: the structure check parses RTK's line, and `walk` refuses one
  nested deeper than 128 nodes with an error (`shell/parse.rs` 185). The `?` behind
  the check (`hook/mod.rs` 68-72) makes it the error of the hook, which ends with
  exit status 64 and no reply, and the host goes on with the agent's own command. So
  an answer of RTK gets a heavy command past the governor. FR-014 and the README
  exclude that. Treating such a line like one that fails the check would do.

## 4. Proofs

All theorems are about the `Spec` of their component, without fairness. Those of
the scheduler hold for every finite or infinite `Proc` of positive pids, those of
the supervisor for any descendants, cancel commands and signals, those of the
installer for any agents and paths, those of the administration for any number of
operators and edits, those of the hook for any line, any rules and any answer of
RTK, and all for all values of the other constants within their assumptions.

* `TypeCorrect`: `TypeOK` is inductive.
* `PoolInvariant`: `PoolInv` is inductive. Slot exclusion alone is not: that two
  workloads do not share a slot rests on the slot lock for supervised ones and
  on the metadata for orphans. `PoolInv` says who holds which lock where
  (`QueueLockOwner`, `SlotLockOwner`), that a permit has its metadata
  (`PermitRecorded`), that metadata points back to a job of that slot
  (`MetadataPlace`), that no one else's metadata can appear in a slot while it is
  judged (`ScanIsStable`), and that everything is within the capacity.
* `SlotExclusionHolds`, `GovernedWithinCapacity`: from `PoolInv`, the second by
  an injection from governed workloads to slots.
* `OrphanKeepsSlotHolds`: the exact extent of a race (section 5). The metadata of a
  live recorded workload is removed only by a scan that read it while it still
  said "starting".
* `TraceInvariant`, `NoTraceLeftHolds`: with `JobFiles`, each file and lock of a
  job exists only while the code that removes it is still to run.
* `QueueInvariant`: tickets are unique, pruning removes only dead leases, and
  what `acquire` decided about drain and order stays true until it uses it. From
  it follow `WaiterKeepsPlaceHolds`, `DrainStopsAdmissionHolds` and
  `SchedulerImplementsFifoPool` (one lemma for each kind of step).
* `SchedulerImplementsJobs`: the one step of others that could disturb a job is
  the removal of a socket by `ClearStale`; `PoolInv` gives that the job it
  belongs to is over.
* `SupervisorInvariant`: `SupervisorInv` is inductive. `ChildPlace` says when the
  child exists, when it is reaped, and that a loop left without reaping it has
  failed; `ClockPlace` that the grace clock runs only after termination began;
  `GuardPlace` what each guard has undone; `GroupGone` that a failure leaves no
  member behind.
* `CleanReturnHolds` follows from it at once. `NoSignalAfterReapHolds` and
  `KillOnlyAfterGraceHolds` need it for the actions that signal: `ChildPlace` for
  the leader that is not reaped yet and for the error that permits SIGKILL.
* `SupervisorImplementsJob`: `SupervisorInv` gives the stage of the job at each
  place; each step of the loop is a stutter.

* `SuccessIsUnforcedHolds`: beside `SupervisorInv` it needs `SentKnown`, that
  whoever signals the group has recorded a signal or an error, which is what
  `exit_code` looks at.
* `InstallerTypeCorrect`: `TypeOK` is inductive.
* `InstallerInductive`, `InstallerSafe`: `InstallerInv` is inductive together with `TypeOK`
  (`InstallerIInv`). `OriginalKept` says that whatever
  has a hook, on disk or in a plan, has a backup without one; it holds at every
  point of a kill because the backup is written first and never again.
  `ManifestBacked` ties each manifest to the backup beside it, `PlanSound` the
  plans to the backup there is or will be, `Progress` the files to the place of
  the command, agent by agent, forwards and backwards. That an agent is written
  once (`Distinct`) is needed to tell the agent at hand from the others.
* `InstallIsEffective`, `UninstallIsEffective`: at the last write `Progress`
  gives that all agents have what was planned, `PlanSound` that this is right.
* `RollbackIsComplete`: the undoing part of `Progress`, at the last step.
* `AdminInvariant`: `AdminInv` is inductive. `Transaction` alone is not: who holds
  `queue.lock` must not be disturbed (`HolderUndisturbed`), which rests on the lock
  (`LockHeld`, part of `TypeOK`), on the capacity file being there for everybody who
  is behind `initialize` (`CapacityThere`), so that a late one shows in
  `overwrote`, and on what was checked and met on the way (`Progress`).
* `DrainIsRestored` follows from `DrainReason`: a flag that no `drain` has left
  belongs to a command that is still to remove it, or to one that could not.
  `CapacityOfTheIdle` follows from `HeldIdle` and the three places that write the
  file, `SettingsAreKept` from `LoadedKept`: what was loaded is what `config.toml`
  says, as long as nobody has edited it.

* `QueueBoundedHolds`: the limits of `QueueBounded` are not inductive by themselves,
  because pruning opens each listed lease with `create`, and so brings back one
  that was removed meanwhile without asking for a limit. `LeasesBounded`, a part
  of `QueueInv`, says that the leases there are and those that a pruning process has
  still to visit are within the limits together. A lease is only added after the
  count, under `queue.lock` and when nobody prunes (`NewcomerAdmissible`); every
  other step makes these sets smaller (`FewerAdmissible`, `NarrowerBounded`).
* `RtkInvariant`: `RtkInv` is inductive. `NothingLeft` speaks of the return only; it
  rests on when the child is collected (`ChildCollected`), that nobody is left in a
  killed group (`GroupKilled`), and that what the reading thread has sent it has
  read (`OutputRead`). It is proved for `RtkSpec`, one call by itself, and again
  as a part of `HookInv`.
* `HookInvariant`: `HookInv` is inductive. `CandidateChecked` says that a line of
  RTK is only taken over with a verdict that allows it and after the structure
  check, `ReplyExplained` which path through `handle` the reply took, and with
  what. `VerdictHonouredHolds` follows from both and from `RtkInv`.
* `GovernIsRecognised`: the governor's prefix stands where the assignments end
  (`GovernKeepsProgram`), which is where `normalize` looks first. So no command is
  put under the governor twice, by this hook or by another.
* `DrainStopsAdmissionHolds` is about newcomers: who is granted a slot under drain,
  or has a lease after the step, had the lease before.
* `HeavyGovernedHolds`, `GovernedWithinDepth` and `OnlyInsertionsHolds`: what passes the structure check
  follows the agent's line (`Follows`, `CheckedFollows`): the same operators, the same
  class of each segment, and at most one call of RTK more. `Rewrite` denies and
  governs by these classes (`RewrittenLine`), so it does the same to the candidate
  as to the original, and either may be chosen by the fallback. `HeavyGovernedHolds`
  has an answer beyond the depth limit as its one exception. `GovernedWithinDepth`
  is `GovernedWhateverRtk`, the promise of the README, from the assumption that RTK
  prints no such line (`StrayLines` has none, and RTK's prefixes do not nest a line
  deeper, `RtkKeepsSyntax`): what `rtk_too_deep` finds is the only gap there is.
* `ClassificationStableHolds`: behind a prefix `normalize` does what it does without
  it (`NormalizeShifts`), each call of a wrapper is skipped to its end
  (`WrapperSkipped`), and the walk from wrapper to wrapper ends at the command
  (`PrefixNormalized`).

What a recursive function computes is proved by the least counterexample: a
nonempty set of numbers has a least member (`LeastNat`), and the results of
`NormalizeAt` depend on places further on alone (`AheadIsEnough`, `SkipsAhead`), which
also gives that the recursion defines a function at all (`NormalizeEnds`).

The assumptions on the constants of the hook are what the code's tests of
characters mean: no word is at the same time no word and an assignment or
option, `-n`, `--` and the levels of `nice` start with a dash (`WordsAssumption`);
the governor's path ends in `agent-gov` and is no assignment
(`GovernorAssumption`); the prefix of a rule is not empty, which
`Config::validate` sees to (`Rule` in `CallsAssumption`); and `SafePrefixes` are
prefixes of safe wrappers (`PrefixesAssumption`).

Two definitions were wrong or too weak before they were proved about: the class
of a wrapped or unsafe command was an ambiguous `CASE` (`ClassOf` now has the order
of the returns of `classify_argv`), and the properties of the answered line
compared words that were filtered rather than taken out at a place.

Only liveness is left to TLC (`Termination`, `WaiterServed`, `SignalEnds`,
`CancelEnds`, `TimeLimitEnds`, `Answered`), because the prover has no rules for
fairness over `ENABLED`. Every other property of a passing run is proved.

## 5. Plan

1. An abstract specification of the capacity (one atomic step under an idle
   pool) that both `Scheduler` and `Administration` implement.
2. An abstract specification of the installer (the user's settings, with and
   without a hook) that `Installer` implements between two commands.

Divergences from the documents that were seen and have no run of their own:

* `slot_quarantined` reads the metadata, probes the pids it names, and removes the
  file (`runtime.rs` 216-230). If it has read "starting", which names no child, and
  the owner then spawns, writes "running" and is killed, the file removed is the
  "running" one: the orphan runs on and its slot is handed out again, where the
  requirements (line 835) promise quarantine. `OrphanKeepsSlot` allows this case
  and no other.
* A descendant that outlives the child after SIGTERM is never sent SIGKILL, since
  `supervise` returns when the child itself is reaped (`supervisor.rs` 71-75;
  FR-052).
* Those listed under `Hook` above.

Not modelled: `Doctor` (it reads what the others wrote and changes nothing but
by `Runtime::initialize`, which is here), the release scripts (sequential, no
state shared with the program), the tree-sitter grammar and the JSON, TOML and
`clap` formats (libraries).
