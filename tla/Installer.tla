----------------------------- MODULE Installer -----------------------------
(***************************************************************************)
(* `agent-gov install` and `uninstall` (src/install/mod.rs): they put a    *)
(* hook into the settings file of each agent and take it out again.  Next  *)
(* to the settings they keep a backup, written once, and a manifest that   *)
(* tells what was installed over what.  A command first reads and checks   *)
(* all agents, then writes file by file, and undoes what it has written    *)
(* when a write fails.  The commands exclude each other by install.lock;   *)
(* the user and the agents write the settings whenever they like, and a    *)
(* command may be killed between any two writes.                           *)
(***************************************************************************)
EXTENDS Naturals, Sequences

CONSTANTS
    Agent,       \* whose settings there are
    Binary,      \* the paths agent-gov is installed under
    NoBinary,    \* no path
    MaxEdits,    \* bound: how often the user writes a settings file
    MaxCommands, \* bound: how many commands are given
    MaxFaults,   \* bound: how many commands meet a failing read or write, or a kill
    UndoMayFail  \* whether writes of the rollback fail as well

ASSUME NoBinaryAssumption == NoBinary \notin Binary
ASSUME UndoAssumption == UndoMayFail \in BOOLEAN
ASSUME BoundsAssumption == {MaxEdits, MaxCommands, MaxFaults} \subseteq Nat

(***************************************************************************)
(* The content of a settings file.  `user` numbers what the user has in    *)
(* it, 0 for nothing; `own` says that its bytes are as the user's program  *)
(* wrote them; `rtk` that it has the separate hook of RTK, and hooks[b]    *)
(* how many hooks run the binary b, and whether they call RTK.  An "odd"   *)
(* file parses, but cannot be patched, an "unreadable" one is no JSON      *)
(* object.  Hashes are compared in the code, contents are compared here.   *)
(***************************************************************************)
Hook(count, rtk) == [count |-> count, rtk |-> rtk]

NoHook  == Hook(0, FALSE)
NoHooks == [b \in Binary |-> NoHook]

File(kind, user, own, rtk, hooks) ==
    [kind |-> kind, user |-> user, own |-> own, rtk |-> rtk, hooks |-> hooks]

Absent == File("absent", 0, TRUE, FALSE, NoHooks)
Empty  == File("empty", 0, TRUE, FALSE, NoHooks)

Files == [kind : {"absent", "empty", "unreadable", "odd", "sound"}, user : Nat,
          own : BOOLEAN, rtk : BOOLEAN,
          hooks : [Binary -> [count : Nat, rtk : BOOLEAN]]]

\* unwrap_or_default: what is hashed and backed up.
Bytes(f) == IF f = Absent THEN Empty ELSE f

\* A manifest file, with the binary, what was installed and over what.
Manifest(existed, original, installed, binary) ==
    [existed |-> existed, original |-> original, installed |-> installed,
     binary |-> binary]

NoManifest == Manifest(FALSE, Absent, Absent, NoBinary)

Manifests == [existed : BOOLEAN, original : Files, installed : Files,
              binary : Binary \union {NoBinary}]

VARIABLES
    settings, \* the settings file of each agent
    backup,   \* its backup, Absent when there is none
    manifest, \* its manifest
    pc,       \* where the command that holds install.lock is, or how the last ended
    op,       \* "install" or "uninstall"
    binary,   \* the path of the running binary
    withRtk,  \* install --with-rtk
    todo,     \* the agents that are still to be prepared
    order,    \* the agents that are prepared, in order
    plan,     \* what was read and is to be written, for each of these
    at,       \* the agent in order that is being committed or undone
    leftover, \* the files whose temporary file this process has left behind
    edited,   \* history: the settings the user wrote while the command ran
    edits, commands, faults \* the bounded events so far

diskVars    == <<settings, backup, manifest>>
commandVars == <<op, binary, withRtk, todo, order, plan, at, leftover>>
boundVars   == <<edits, commands, faults>>
vars == <<diskVars, pc, commandVars, edited, boundVars>>

Plan(original, updated, old, new) ==
    [original |-> original, updated |-> updated, old |-> old, new |-> new]

Plans  == [original : Files, updated : Files, old : Manifests, new : Manifests]
NoPlan == Plan(Absent, Absent, NoManifest, NoManifest)

AtRest     == {"idle", "done", "failed", "stuck", "killed"}
Committing == {"backup", "settings", "manifest"}
Undoing    == {"undo_settings", "undo_manifest"}

\* What an agent starts with: nothing, or settings of the user's own.
Fresh == {Absent, File("sound", 1, TRUE, FALSE, NoHooks)}

Init ==
    /\ settings \in [Agent -> Fresh]
    /\ backup = [a \in Agent |-> Absent]
    /\ manifest = [a \in Agent |-> NoManifest]
    /\ pc = "idle"
    /\ op = "install"
    /\ binary = NoBinary
    /\ withRtk = FALSE
    /\ todo = <<>>
    /\ order = <<>>
    /\ plan = [a \in Agent |-> NoPlan]
    /\ at = 1
    /\ leftover = {}
    /\ edited = {}
    /\ edits = 0 /\ commands = 0 /\ faults = 0

---------------------------------------------------------------------------
(* What the commands make of a settings file                               *)

\* Bug: the hook of an earlier install is not taken out first.
PatchAgain(f) ==
    [(IF f = Absent THEN [f EXCEPT !.kind = "sound"] ELSE f)
        EXCEPT !.own = FALSE, !.rtk = f.rtk /\ ~withRtk,
               !.hooks[binary] = Hook(@.count + 1, withRtk)]

\* patch_claude, patch_cursor: the hooks of this binary make way for a new
\* one, with or without --rtk, and RTK's separate hook goes when the new one
\* calls RTK.
Patch(f) ==
    [(IF f = Absent THEN [f EXCEPT !.kind = "sound"] ELSE f)
        EXCEPT !.own = FALSE, !.rtk = f.rtk /\ ~withRtk,
               !.hooks[binary] = Hook(1, withRtk)]

\* unpatch_claude, unpatch_cursor.
Unpatch(f, b) == [f EXCEPT !.own = FALSE, !.hooks[b] = NoHook]

BackupVerified(a) == backup[a] # Absent /\ backup[a] = manifest[a].original

\* Without a manifest, a backup has to be of the very settings.
InstallAccepted(a) ==
    /\ settings[a].kind \in {"absent", "sound"}
    /\ IF manifest[a] # NoManifest THEN BackupVerified(a)
       ELSE backup[a] \in {Absent, Bytes(settings[a])}

\* Bug: whether there was a file is asked again on the second install.
InstallManifestExisting(a) ==
    Manifest(settings[a] # Absent,
             IF manifest[a] # NoManifest THEN manifest[a].original
             ELSE Bytes(settings[a]),
             Patch(settings[a]), binary)

InstallManifest(a) ==
    IF manifest[a] # NoManifest
    THEN [manifest[a] EXCEPT !.installed = Patch(settings[a]), !.binary = binary]
    ELSE Manifest(settings[a] # Absent, Bytes(settings[a]), Patch(settings[a]),
                  binary)

\* The settings are what the last install has written.
Untouched(a) == manifest[a] # NoManifest /\ settings[a] = manifest[a].installed

UninstallAccepted(a) ==
    /\ settings[a].kind \in {"odd", "sound"}
    /\ Untouched(a) => BackupVerified(a)

InstalledBinary(a) ==
    IF manifest[a] # NoManifest THEN manifest[a].binary ELSE binary

\* Restore, Remove or Surgical.
Uninstalled(a) ==
    IF Untouched(a)
    THEN IF manifest[a].existed THEN backup[a] ELSE Absent
    ELSE Unpatch(settings[a], InstalledBinary(a))

---------------------------------------------------------------------------
(* A command                                                               *)

\* The arguments are valid and install.lock is taken.
Begin(command, agents, b, rtk) ==
    /\ pc \in AtRest
    /\ commands < MaxCommands
    /\ commands' = commands + 1
    /\ pc' = "prepare"
    /\ op' = command
    /\ todo' = agents
    /\ binary' = b
    /\ withRtk' = (rtk /\ command = "install")
    /\ UNCHANGED <<diskVars, order, plan, at, leftover, edited, edits, faults>>

\* The process ends, with its lock and what it has in memory.
End(how) ==
    /\ pc' = how
    /\ op' = "install"
    /\ binary' = NoBinary
    /\ withRtk' = FALSE
    /\ todo' = <<>>
    /\ order' = <<>>
    /\ plan' = [a \in Agent |-> NoPlan]
    /\ at' = 1
    /\ leftover' = {}
    /\ edited' = {}

Prepared(a, p) ==
    /\ plan' = [plan EXCEPT ![a] = p]
    /\ order' = Append(order, a)
    /\ todo' = Tail(todo)
    /\ UNCHANGED <<diskVars, pc, op, binary, withRtk, at, leftover, edited,
                   boundVars>>

PrepareInstall(a) ==
    /\ pc = "prepare" /\ op = "install"
    /\ todo # <<>> /\ Head(todo) = a
    /\ InstallAccepted(a)
    /\ Prepared(a, Plan(settings[a], Patch(settings[a]), manifest[a],
                        InstallManifest(a)))

PrepareUninstall(a) ==
    /\ pc = "prepare" /\ op = "uninstall"
    /\ todo # <<>> /\ Head(todo) = a
    /\ UninstallAccepted(a)
    /\ Prepared(a, Plan(settings[a], Uninstalled(a), manifest[a], NoManifest))

\* There is nothing to uninstall where there are no settings; a manifest stays.
SkipUninstall(a) ==
    /\ pc = "prepare" /\ op = "uninstall"
    /\ todo # <<>> /\ Head(todo) = a
    /\ settings[a] = Absent
    /\ todo' = Tail(todo)
    /\ UNCHANGED <<diskVars, pc, op, binary, withRtk, order, plan, at, leftover,
                   edited, boundVars>>

Refuse(a) ==
    /\ pc = "prepare"
    /\ todo # <<>> /\ Head(todo) = a
    /\ IF op = "install" THEN ~InstallAccepted(a)
       ELSE settings[a] # Absent /\ ~UninstallAccepted(a)
    /\ End("failed")
    /\ UNCHANGED <<diskVars, boundVars>>

Fault ==
    /\ faults < MaxFaults
    /\ faults' = faults + 1
    /\ UNCHANGED <<edits, commands>>

ReadFails ==
    /\ pc = "prepare"
    /\ todo # <<>>
    /\ Fault
    /\ End("failed")
    /\ UNCHANGED diskVars

Current == order[at]

\* All agents are prepared: commit_settings goes through them one by one.
Commit ==
    /\ pc = "prepare"
    /\ todo = <<>>
    /\ IF order = <<>> THEN End("done")
       ELSE /\ pc' = IF op = "install" THEN "backup" ELSE "settings"
            /\ UNCHANGED <<commandVars, edited>>
    /\ UNCHANGED <<diskVars, boundVars>>

\* Bug: every install makes a backup of what it finds.
BackUpAgain ==
    /\ pc = "backup"
    /\ backup' = [backup EXCEPT ![Current] = Bytes(plan[Current].original)]
    /\ pc' = "settings"
    /\ UNCHANGED <<settings, manifest, commandVars, edited, boundVars>>

\* backup_once: a backup that exists is kept.
BackUp ==
    /\ pc = "backup"
    /\ backup' = IF backup[Current] # Absent THEN backup
                 ELSE [backup EXCEPT ![Current] = Bytes(plan[Current].original)]
    /\ pc' = "settings"
    /\ UNCHANGED <<settings, manifest, commandVars, edited, boundVars>>

PutSettings(f) == settings' = [settings EXCEPT ![Current] = f]
PutManifest(m) == manifest' = [manifest EXCEPT ![Current] = m]

ApplySettings ==
    /\ pc = "settings"
    /\ PutSettings(plan[Current].updated)
    /\ pc' = "manifest"
    /\ UNCHANGED <<backup, manifest, commandVars, edited, boundVars>>

\* Bug: one agent too many.
ApplyManifestBeyond ==
    /\ pc = "manifest"
    /\ PutManifest(plan[Current].new)
    /\ IF at > Len(order) THEN End("done")
       ELSE /\ at' = at + 1
            /\ pc' = IF op = "install" THEN "backup" ELSE "settings"
            /\ UNCHANGED <<op, binary, withRtk, todo, order, plan, leftover,
                           edited>>
    /\ UNCHANGED <<settings, backup, boundVars>>

ApplyManifest ==
    /\ pc = "manifest"
    /\ PutManifest(plan[Current].new)
    /\ IF at = Len(order) THEN End("done")
       ELSE /\ at' = at + 1
            /\ pc' = IF op = "install" THEN "backup" ELSE "settings"
            /\ UNCHANGED <<op, binary, withRtk, todo, order, plan, leftover,
                           edited>>
    /\ UNCHANGED <<settings, backup, boundVars>>

\* Bug: only the agents that are complete are undone.
UndoComplete ==
    IF at = 1 THEN End("failed")
    ELSE /\ at' = at - 1
         /\ pc' = "undo_settings"
         /\ UNCHANGED <<op, binary, withRtk, todo, order, plan, edited>>

\* The agent at hand is undone first, then those before it.
StartUndo ==
    /\ pc' = "undo_settings"
    /\ UNCHANGED <<op, binary, withRtk, todo, order, plan, at, edited>>

\* write_atomic fails before it creates its temporary file, or when it has it
\* and leaves it, or when the file has been renamed already.  A removal that
\* fails does nothing.
BackUpFails ==
    /\ pc = "backup"
    /\ backup[Current] = Absent
    /\ Fault
    /\ backup' \in {backup,
                    [backup EXCEPT ![Current] = Bytes(plan[Current].original)]}
    /\ StartUndo
    /\ UNCHANGED <<settings, manifest, leftover>>

Leave(file) == leftover' = leftover \union {<<Current, file>>}

ApplySettingsFails ==
    /\ pc = "settings"
    /\ Fault
    /\ \/ UNCHANGED <<settings, leftover>>
       \/ /\ plan[Current].updated # Absent
          /\ \/ Leave("settings") /\ UNCHANGED settings
             \/ PutSettings(plan[Current].updated) /\ UNCHANGED leftover
    /\ StartUndo
    /\ UNCHANGED <<backup, manifest>>

ApplyManifestFails ==
    /\ pc = "manifest"
    /\ Fault
    /\ \/ UNCHANGED <<manifest, leftover>>
       \/ /\ plan[Current].new # NoManifest
          /\ \/ Leave("manifest") /\ UNCHANGED manifest
             \/ PutManifest(plan[Current].new) /\ UNCHANGED leftover
    /\ StartUndo
    /\ UNCHANGED <<settings, backup>>

\* A second write under the same name fails at the temporary file the first
\* has left: it is created with create_new and named after the process.
Blocked(file, removal) == <<Current, file>> \in leftover /\ ~removal

UndoSettings ==
    /\ pc = "undo_settings"
    /\ ~Blocked("settings", plan[Current].original = Absent)
    /\ PutSettings(plan[Current].original)
    /\ pc' = "undo_manifest"
    /\ UNCHANGED <<backup, manifest, commandVars, edited, boundVars>>

UndoManifest ==
    /\ pc = "undo_manifest"
    /\ ~Blocked("manifest", plan[Current].old = NoManifest)
    /\ PutManifest(plan[Current].old)
    /\ IF at = 1 THEN End("failed")
       ELSE /\ at' = at - 1
            /\ pc' = "undo_settings"
            /\ UNCHANGED <<op, binary, withRtk, todo, order, plan, leftover,
                           edited>>
    /\ UNCHANGED <<settings, backup, boundVars>>

\* The rest is not undone.
UndoFails ==
    /\ \/ pc = "undo_settings" /\ Blocked("settings", plan[Current].original = Absent)
       \/ pc = "undo_manifest" /\ Blocked("manifest", plan[Current].old = NoManifest)
    /\ End("stuck")
    /\ UNCHANGED <<diskVars, boundVars>>

\* The disk that has failed may fail again: this is not one more fault.
UndoFaults ==
    /\ UndoMayFail
    /\ \/ /\ pc = "undo_settings"
          /\ settings' \in {settings,
                            [settings EXCEPT ![Current] = plan[Current].original]}
          /\ UNCHANGED manifest
       \/ /\ pc = "undo_manifest"
          /\ manifest' \in {manifest,
                            [manifest EXCEPT ![Current] = plan[Current].old]}
          /\ UNCHANGED settings
    /\ End("stuck")
    /\ UNCHANGED <<backup, boundVars>>

\* The lock goes, the files stay.
Crash ==
    /\ pc \notin AtRest
    /\ Fault
    /\ End("killed")
    /\ UNCHANGED diskVars

---------------------------------------------------------------------------
(* The user, and the agents themselves                                     *)

\* What the user writes has the managed hooks that were there, or none, and
\* is never byte by byte what agent-gov makes of a file.
UserFiles(a) ==
    LET New(kind, rtk, hooks) == File(kind, edits + 2, TRUE, rtk, hooks)
    IN  {Absent, New("unreadable", FALSE, NoHooks)} \union
        UNION {{New("odd", FALSE, hooks), New("sound", FALSE, hooks),
                New("sound", TRUE, hooks)} : hooks \in {settings[a].hooks, NoHooks}}

Edit(a) ==
    /\ edits < MaxEdits
    /\ edits' = edits + 1
    /\ settings' \in {[settings EXCEPT ![a] = f] : f \in UserFiles(a)}
    /\ edited' = IF pc \in AtRest THEN edited ELSE edited \union {a}
    /\ UNCHANGED <<backup, manifest, pc, commandVars, commands, faults>>

---------------------------------------------------------------------------
\* parse_agents drops repetitions.
AgentLists ==
    {<<a>> : a \in Agent} \union
    {l \in {<<a, b>> : a \in Agent, b \in Agent} : l[1] # l[2]}

Prepare ==
    \E a \in Agent :
        PrepareInstall(a) \/ PrepareUninstall(a) \/ SkipUninstall(a) \/ Refuse(a)

Write == BackUp \/ ApplySettings \/ ApplyManifest \/ UndoSettings \/ UndoManifest

Fail ==
    \/ ReadFails \/ BackUpFails \/ ApplySettingsFails \/ ApplyManifestFails
    \/ UndoFails \/ UndoFaults

\* No command is running; nobody has to do anything.
Rest == pc \in AtRest /\ UNCHANGED vars

Next ==
    \/ \E command \in {"install", "uninstall"}, l \in AgentLists, b \in Binary,
          rtk \in BOOLEAN : Begin(command, l, b, rtk)
    \/ Prepare \/ Commit \/ Write \/ Fail \/ Crash
    \/ \E a \in Agent : Edit(a)
    \/ Rest

Spec == Init /\ [][Next]_vars

---------------------------------------------------------------------------
(* Properties                                                              *)

DiskOK ==
    /\ settings \in [Agent -> Files]
    /\ backup \in [Agent -> Files]
    /\ manifest \in [Agent -> Manifests]

CommandOK ==
    /\ pc \in AtRest \union {"prepare"} \union Committing \union Undoing
    /\ op \in {"install", "uninstall"}
    /\ binary \in Binary \union {NoBinary}
    /\ pc \notin AtRest => binary \in Binary
    /\ withRtk \in BOOLEAN
    /\ todo \in Seq(Agent)
    /\ order \in Seq(Agent)
    /\ plan \in [Agent -> Plans]
    /\ at \in Nat
    /\ pc \in AtRest \union {"prepare"} => at = 1
    /\ pc \in Committing \union Undoing => at \in 1..Len(order)
    /\ leftover \in SUBSET (Agent \X {"settings", "manifest"})
    /\ edited \in SUBSET Agent

TypeOK ==
    /\ DiskOK
    /\ CommandOK
    /\ edits \in Nat /\ commands \in Nat /\ faults \in Nat

\* The agents the command writes for, but for those the user wrote meanwhile.
Alone(a) == a \notin edited /\ \E i \in 1..Len(order) : order[i] = a

(***************************************************************************)
(* install, when it succeeds, leaves each agent with one hook of this      *)
(* binary and not with RTK's beside it, and with a manifest that describes *)
(* these settings and the backup, whatever was installed, edited, undone   *)
(* or cut off before.                                                      *)
(***************************************************************************)
InstallEffective ==
    [][(op = "install" /\ pc = "manifest" /\ pc' = "done") =>
        \A a \in Agent : Alone(a) =>
            /\ settings'[a].hooks[binary] = Hook(1, withRtk)
            /\ ~(withRtk /\ settings'[a].rtk)
            /\ manifest'[a].installed = settings'[a]
            /\ manifest'[a].original = backup'[a]]_vars

(***************************************************************************)
(* uninstall, when it succeeds, has taken out the hook of the binary that  *)
(* was installed.  Settings that are as they were installed become what    *)
(* they were before the first install, byte by byte, or vanish; all others *)
(* keep what the user has in them.                                         *)
(***************************************************************************)
UninstallEffective ==
    [][(op = "uninstall" /\ pc = "manifest" /\ pc' = "done") =>
        \A a \in Agent : Alone(a) =>
            LET old == plan[a].old
                installed == IF old = NoManifest THEN binary ELSE old.binary
            IN  /\ manifest'[a] = NoManifest
                /\ settings'[a].hooks[installed] = NoHook
                /\ IF plan[a].original = old.installed
                   THEN settings'[a] = IF backup[a] = Empty THEN Absent
                                       ELSE backup[a]
                   ELSE settings'[a].user = plan[a].original.user]_vars

Restored(a) == settings'[a] = plan[a].original /\ manifest'[a] = plan[a].old

(***************************************************************************)
(* A command that fails and does not report that its rollback failed has   *)
(* left the settings and manifests of all its agents as it found them.     *)
(***************************************************************************)
RollbackRestores ==
    [][(pc \in Undoing /\ pc' = "failed") =>
        \A a \in Agent : Alone(a) => Restored(a)]_vars

---------------------------------------------------------------------------
(* What the documentation says and the code does not keep                  *)

(***************************************************************************)
(* docs/operations.md: if settings changed later, uninstall removes only   *)
(* the managed hook and preserves those changes.                           *)
(***************************************************************************)
UninstallKeepsEdits ==
    op = "uninstall" =>
        \A i \in 1..Len(order) :
            plan[order[i]].updated.user = plan[order[i]].original.user

(***************************************************************************)
(* docs/product-requirements.md, phase 7: a failure in any step restores   *)
(* the state before the command.                                           *)
(***************************************************************************)
FailureRestores ==
    [][(pc \in Undoing /\ pc' \in {"failed", "stuck"}) =>
        \A a \in Agent : Alone(a) => Restored(a)]_vars
=============================================================================
