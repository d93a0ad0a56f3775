------------------------ MODULE InstallerInvariants ------------------------
(***************************************************************************)
(* What the settings, the backups, the manifests and the plans of a        *)
(* running command have to do with each other, at every point at which it  *)
(* may be killed.                                                          *)
(***************************************************************************)
EXTENDS Installer

HookFree(f) == \A b \in Binary : f.hooks[b] = NoHook

\* There is a backup, and it was made before the first hook came.
Preserved(a) == backup[a] # Absent /\ HookFree(backup[a])

\* Whatever has a hook, on disk or in a plan, has a backup without.
OriginalKept ==
    \A a \in Agent :
        /\ ~HookFree(settings[a]) => Preserved(a)
        /\ ~HookFree(plan[a].original) => Preserved(a)
        /\ op = "uninstall" /\ ~HookFree(plan[a].updated) => Preserved(a)
        /\ backup[a] # Absent => HookFree(backup[a])

\* A manifest is for the backup that lies beside it, and knows whether that
\* is of a file.
Backed(a, m) ==
    m # NoManifest =>
        /\ m.original = backup[a]
        /\ backup[a] # Absent
        /\ m.existed <=> backup[a] # Empty
        /\ m.binary \in Binary

ManifestBacked ==
    \A a \in Agent :
        /\ Backed(a, manifest[a])
        /\ Backed(a, plan[a].old)

\* An empty file is no settings file.
NeverEmpty ==
    \A a \in Agent : Empty \notin {settings[a], plan[a].original, plan[a].updated}

Restoration(a) == IF backup[a] = Empty THEN Absent ELSE backup[a]

InstallPlanned(a) ==
    /\ plan[a].updated.hooks[binary] = Hook(1, withRtk)
    /\ ~(withRtk /\ plan[a].updated.rtk)
    /\ plan[a].new # NoManifest
    /\ plan[a].new.installed = plan[a].updated
    /\ plan[a].new.binary = binary
    /\ plan[a].new.existed <=> plan[a].new.original # Empty
    /\ \/ plan[a].new.original = Bytes(plan[a].original) /\ backup[a] = Absent
       \/ plan[a].new.original = backup[a] /\ backup[a] # Absent

UninstallPlanned(a) ==
    LET old == plan[a].old
        installed == IF old = NoManifest THEN binary ELSE old.binary
    IN  /\ plan[a].new = NoManifest
        /\ plan[a].updated.hooks[installed] = NoHook
        /\ IF plan[a].original = old.installed
           THEN plan[a].updated = Restoration(a)
           ELSE plan[a].updated.user = plan[a].original.user

\* What is planned is right when it is done, and can be undone.
PlanSound ==
    \A i \in 1..Len(order) :
        IF op = "install" THEN InstallPlanned(order[i])
        ELSE UninstallPlanned(order[i])

\* An agent is written once.
Distinct ==
    /\ \A i, j \in 1..Len(order) : order[i] = order[j] => i = j
    /\ \A i, j \in 1..Len(todo) : todo[i] = todo[j] => i = j
    /\ \A i \in 1..Len(order), j \in 1..Len(todo) : order[i] # todo[j]

\* How far a command has come with the i-th agent, settings before manifest.
SettingsDone(i) == pc \in Committing /\ (i < at \/ (i = at /\ pc = "manifest"))
SettingsOpen(i) ==
    \/ pc = "prepare"
    \/ pc \in Committing /\ ~SettingsDone(i)
    \/ pc \in Undoing /\ (i > at \/ (i = at /\ pc = "undo_manifest"))

ManifestDone(i) == pc \in Committing /\ i < at
ManifestOpen(i) ==
    \/ pc = "prepare"
    \/ pc \in Committing /\ i >= at
    \/ pc \in Undoing /\ i > at

BackupDone(i) == pc \in Committing /\ (i < at \/ (i = at /\ pc # "backup"))

\* What has been done so far, and what has not, where nobody else wrote.
ProgressOf(i) ==
    LET a == order[i]
    IN  /\ a \notin edited /\ SettingsDone(i) => settings[a] = plan[a].updated
        /\ a \notin edited /\ SettingsOpen(i) => settings[a] = plan[a].original
        /\ ManifestDone(i) => manifest[a] = plan[a].new
        /\ ManifestOpen(i) => manifest[a] = plan[a].old
        /\ op = "install" /\ BackupDone(i) => backup[a] # Absent

Progress == \A i \in 1..Len(order) : ProgressOf(i)

\* A command that has not begun to write has nothing to clear up.
Stage ==
    /\ pc \in AtRest =>
          order = <<>> /\ todo = <<>> /\ plan = [a \in Agent |-> NoPlan]
    /\ pc \in Committing \union Undoing => todo = <<>>
    /\ op = "uninstall" => pc # "backup"

(***************************************************************************)
(* What the user had before the first hook came is in the backup, manifest *)
(* and backup fit together, and a command knows what it has written,       *)
(* wherever it is killed.                                                  *)
(***************************************************************************)
InstallerInv ==
    /\ OriginalKept
    /\ ManifestBacked
    /\ NeverEmpty
    /\ PlanSound
    /\ Distinct
    /\ Progress
    /\ Stage

\* The inductive invariant.
InstallerIInv == TypeOK /\ InstallerInv
=============================================================================
