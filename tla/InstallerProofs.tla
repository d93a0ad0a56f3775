-------------------------- MODULE InstallerProofs --------------------------
(***************************************************************************)
(* The theorems of Installer, for any number of agents, paths, edits,      *)
(* commands, failures and kills.                                           *)
(***************************************************************************)
EXTENDS InstallerInvariants, TLAPS

USE NoBinaryAssumption, BoundsAssumption

---------------------------------------------------------------------------
(* Contents of files                                                       *)

LEMMA HookType ==
    ASSUME NEW count \in Nat, NEW rtk \in BOOLEAN
    PROVE  Hook(count, rtk) \in [count : Nat, rtk : BOOLEAN]
BY DEF Hook

LEMMA NoHooksType ==
    /\ NoHook \in [count : Nat, rtk : BOOLEAN]
    /\ NoHooks \in [Binary -> [count : Nat, rtk : BOOLEAN]]
    /\ \A b \in Binary : NoHooks[b] = NoHook
BY HookType DEF NoHooks, NoHook

LEMMA PlainFiles ==
    /\ Absent \in Files /\ Absent.kind = "absent" /\ HookFree(Absent)
    /\ Empty \in Files /\ Empty.kind = "empty" /\ HookFree(Empty)
    /\ Absent # Empty
BY NoHooksType DEF Absent, Empty, Files, File, HookFree

LEMMA PlainManifest ==
    /\ NoManifest \in Manifests
    /\ NoManifest.installed = Absent
    /\ NoPlan \in Plans
    /\ NoPlan.original = Absent /\ NoPlan.updated = Absent
    /\ NoPlan.old = NoManifest /\ NoPlan.new = NoManifest
BY PlainFiles DEF NoManifest, Manifest, Manifests, NoPlan, Plan, Plans

LEMMA BytesType ==
    ASSUME NEW f \in Files
    PROVE  /\ Bytes(f) \in Files
           /\ Bytes(f) # Absent
           /\ HookFree(f) => HookFree(Bytes(f))
BY PlainFiles DEF Bytes

\* What a patched file has, and what is left of it.
LEMMA PatchType ==
    ASSUME NEW f \in Files, binary \in Binary, withRtk \in BOOLEAN
    PROVE  /\ Patch(f) \in Files
           /\ Patch(f).hooks[binary] = Hook(1, withRtk)
           /\ ~(withRtk /\ Patch(f).rtk)
           /\ Patch(f).kind = IF f = Absent THEN "sound" ELSE f.kind
<1>1. CASE f = Absent
  BY <1>1, PlainFiles, HookType DEF Patch, Files
<1>2. CASE f # Absent
  BY <1>2, HookType DEF Patch, Files
<1>3. QED
  BY <1>1, <1>2

LEMMA UnpatchType ==
    ASSUME NEW f \in Files, NEW b \in Binary \union {NoBinary}
    PROVE  /\ Unpatch(f, b) \in Files
           /\ b \in Binary => Unpatch(f, b).hooks[b] = NoHook
           /\ Unpatch(f, b).user = f.user
           /\ Unpatch(f, b).kind = f.kind
           /\ HookFree(f) => HookFree(Unpatch(f, b))
BY NoHooksType DEF Unpatch, Files, HookFree

LEMMA UserFilesType ==
    ASSUME TypeOK, NEW a \in Agent, NEW f \in UserFiles(a)
    PROVE  /\ f \in Files
           /\ f # Empty
           /\ HookFree(f) \/ f.hooks = settings[a].hooks
<1>1. settings[a] \in Files /\ settings[a].hooks \in [Binary -> [count : Nat, rtk : BOOLEAN]] /\ edits + 2 \in Nat
  BY DEF TypeOK, DiskOK, Files
<1> DEFINE New(kind, rtk, hooks) == File(kind, edits + 2, TRUE, rtk, hooks)
<1>2. \/ f = Absent
      \/ f = New("unreadable", FALSE, NoHooks)
      \/ \E hooks \in {settings[a].hooks, NoHooks} :
            f \in {New("odd", FALSE, hooks), New("sound", FALSE, hooks),
                   New("sound", TRUE, hooks)}
  BY DEF UserFiles
<1>3. CASE f = Absent
  BY <1>3, PlainFiles
<1>4. CASE f = New("unreadable", FALSE, NoHooks)
  BY <1>1, <1>4, NoHooksType DEF File, Files, HookFree, Empty
<1>5. ASSUME NEW hooks \in {settings[a].hooks, NoHooks},
             f \in {New("odd", FALSE, hooks), New("sound", FALSE, hooks),
                    New("sound", TRUE, hooks)}
      PROVE  /\ f \in Files
             /\ f # Empty
             /\ HookFree(f) \/ f.hooks = settings[a].hooks
  <2>1. hooks \in [Binary -> [count : Nat, rtk : BOOLEAN]]
    BY <1>1, NoHooksType
  <2>2. f.hooks = hooks /\ f.kind # "empty" /\ f \in Files
    <3>1. CASE f = New("odd", FALSE, hooks)
      BY <1>1, <2>1, <3>1 DEF File, Files
    <3>2. CASE f = New("sound", FALSE, hooks)
      BY <1>1, <2>1, <3>2 DEF File, Files
    <3>3. CASE f = New("sound", TRUE, hooks)
      BY <1>1, <2>1, <3>3 DEF File, Files
    <3>4. QED
      BY <1>5, <3>1, <3>2, <3>3
  <2>3. f # Empty
    BY <2>2, PlainFiles
  <2>4. QED
    BY <2>2, <2>3, NoHooksType DEF HookFree
<1>6. QED
  BY <1>2, <1>3, <1>4, <1>5

LEMMA InstallManifestType ==
    ASSUME TypeOK, NEW a \in Agent, binary \in Binary
    PROVE  InstallManifest(a) \in Manifests
<1>1. settings[a] \in Files /\ manifest[a] \in Manifests /\ withRtk \in BOOLEAN
  BY DEF TypeOK, DiskOK, CommandOK
<1>2. Patch(settings[a]) \in Files /\ Bytes(settings[a]) \in Files
  BY <1>1, PatchType, BytesType
<1>3. QED
  BY <1>1, <1>2 DEF InstallManifest, Manifest, Manifests

LEMMA UninstalledType ==
    ASSUME TypeOK, NEW a \in Agent
    PROVE  Uninstalled(a) \in Files
<1>1. InstalledBinary(a) \in Binary \union {NoBinary}
  BY DEF TypeOK, DiskOK, CommandOK, InstalledBinary, Manifests
<1>2. QED
  BY <1>1, UnpatchType, PlainFiles DEF TypeOK, DiskOK, Uninstalled

LEMMA AgentListsType ==
    ASSUME NEW l \in AgentLists
    PROVE  /\ l \in Seq(Agent)
           /\ l # <<>>
           /\ \A i, j \in 1..Len(l) : l[i] = l[j] => i = j
<1>1. CASE \E a \in Agent : l = <<a>>
  BY <1>1
<1>2. CASE \E a, b \in Agent : l = <<a, b>> /\ a # b
  <2>1. PICK a \in Agent, b \in Agent : l = <<a, b>> /\ a # b
    BY <1>2
  <2>2. l \in Seq(Agent) /\ Len(l) = 2 /\ l[1] = a /\ l[2] = b
    BY <2>1
  <2>3. QED
    BY <2>1, <2>2
<1>3. QED
  BY <1>1, <1>2 DEF AgentLists

---------------------------------------------------------------------------
(* Type correctness                                                        *)

LEMMA TypeOKInit == Init => TypeOK
<1> SUFFICES ASSUME Init PROVE TypeOK
  OBVIOUS
<1>1. \A f \in Fresh : f \in Files
  <2>1. File("sound", 1, TRUE, FALSE, NoHooks) \in Files
    BY NoHooksType DEF File, Files
  <2>2. QED
    BY <2>1, PlainFiles DEF Fresh
<1>2. DiskOK
  BY <1>1, PlainFiles, PlainManifest DEF Init, DiskOK
<1>3. CommandOK
  <2>1. <<>> \in Seq(Agent) /\ {} \in SUBSET (Agent \X {"settings", "manifest"})
    OBVIOUS
  <2>2. plan \in [Agent -> Plans]
    BY PlainManifest DEF Init
  <2>3. QED
    BY <2>1, <2>2 DEF Init, CommandOK, AtRest, Committing, Undoing
<1>4. QED
  BY <1>2, <1>3 DEF Init, TypeOK

\* The agent at hand is one of the planned.
LEMMA CurrentType ==
    ASSUME CommandOK, pc \in Committing \union Undoing
    PROVE  /\ Current \in Agent
           /\ at \in 1..Len(order)
           /\ plan[Current].original \in Files /\ plan[Current].updated \in Files
           /\ plan[Current].old \in Manifests /\ plan[Current].new \in Manifests
BY DEF CommandOK, Current, Plans

\* A command that ends leaves no trace in memory.
LEMMA EndType ==
    ASSUME NEW how \in AtRest, End(how), TypeOK
    PROVE  CommandOK'
<1>1. <<>> \in Seq(Agent) /\ {} \in SUBSET (Agent \X {"settings", "manifest"})
  OBVIOUS
<1>2. plan' \in [Agent -> Plans]
  BY PlainManifest DEF End
<1>3. QED
  BY <1>1, <1>2 DEF End, TypeOK, CommandOK, AtRest, Committing, Undoing

\* Every step keeps the types.
LEMMA TypeOKNext ==
    TypeOK /\ [Next]_vars => TypeOK'
<1> SUFFICES ASSUME TypeOK, [Next]_vars PROVE TypeOK'
  OBVIOUS
<1> USE DEF TypeOK, DiskOK, CommandOK, AtRest, Committing, Undoing
<1>1. ASSUME NEW command \in {"install", "uninstall"}, NEW l \in AgentLists,
         NEW b \in Binary, NEW rtk \in BOOLEAN,
         Begin(command, l, b, rtk)
      PROVE  TypeOK'
  BY <1>1, AgentListsType DEF Begin, diskVars
<1>2. ASSUME NEW a \in Agent, PrepareInstall(a) PROVE TypeOK'
  <2>1. binary \in Binary /\ withRtk \in BOOLEAN /\ settings[a] \in Files
    BY <1>2
       DEF PrepareInstall
  <2>2. Plan(settings[a], Patch(settings[a]), manifest[a], InstallManifest(a)) \in Plans
    BY <2>1, PatchType, InstallManifestType DEF Plan, Plans
  <2>3. Tail(todo) \in Seq(Agent) /\ Append(order, a) \in Seq(Agent)
    BY <1>2 DEF PrepareInstall
  <2>4. QED
    BY <1>2, <2>2, <2>3 DEF PrepareInstall, Prepared, diskVars, boundVars
<1>3. ASSUME NEW a \in Agent, PrepareUninstall(a) PROVE TypeOK'
  <2>1. Plan(settings[a], Uninstalled(a), manifest[a], NoManifest) \in Plans
    BY UninstalledType, PlainManifest DEF Plan, Plans
  <2>2. Tail(todo) \in Seq(Agent) /\ Append(order, a) \in Seq(Agent)
    BY <1>3 DEF PrepareUninstall
  <2>3. QED
    BY <1>3, <2>1, <2>2 DEF PrepareUninstall, Prepared, diskVars, boundVars
<1>4. ASSUME NEW a \in Agent, SkipUninstall(a) PROVE TypeOK'
  BY <1>4 DEF SkipUninstall, diskVars, boundVars
<1>5. ASSUME NEW a \in Agent, Refuse(a) PROVE TypeOK'
  <2>1. CommandOK'
    BY <1>5, EndType DEF AtRest, Refuse
  <2>2. DiskOK' /\ edits' \in Nat /\ commands' \in Nat /\ faults' \in Nat
    BY <1>5 DEF TypeOK, DiskOK, Refuse, diskVars, boundVars
  <2>3. QED
    BY <2>1, <2>2 DEF TypeOK
<1>6. ASSUME ReadFails PROVE TypeOK'
  <2>1. CommandOK'
    BY <1>6, EndType DEF AtRest, ReadFails
  <2>2. DiskOK' /\ edits' \in Nat /\ commands' \in Nat /\ faults' \in Nat
    BY <1>6 DEF TypeOK, DiskOK, ReadFails, Fault, diskVars
  <2>3. QED
    BY <2>1, <2>2 DEF TypeOK
<1>7. ASSUME Commit PROVE TypeOK'
  <2>1. CASE order = <<>>
    <3>1. CommandOK'
      BY <1>7, <2>1, EndType DEF Commit, AtRest
    <3>2. QED
      BY <1>7, <3>1 DEF Commit, diskVars, boundVars
  <2>2. CASE order # <<>>
    <3>1. at \in 1..Len(order)
      BY <1>7, <2>2 DEF Commit
    <3>2. QED
      BY <1>7, <2>2, <3>1 DEF Commit, diskVars, commandVars, boundVars
  <2>3. QED
    BY <2>1, <2>2
<1>8. ASSUME BackUp PROVE TypeOK'
  BY <1>8, BytesType DEF BackUp, Current, commandVars, boundVars, Plans
<1>9. ASSUME ApplySettings PROVE TypeOK'
  BY <1>9 DEF ApplySettings, PutSettings, Current, commandVars, boundVars,
     Plans
<1>10. ASSUME ApplyManifest PROVE TypeOK'
  <2>1. CASE \E how \in AtRest : End(how)
    <3>1. CommandOK'
      BY <2>1, EndType
    <3>2. DiskOK' /\ edits' \in Nat /\ commands' \in Nat /\ faults' \in Nat
      BY <1>10 DEF TypeOK, DiskOK, ApplyManifest, PutManifest, Current,
       boundVars, Plans
    <3>3. QED
      BY <3>1, <3>2 DEF TypeOK
  <2>2. CASE ~\E how \in AtRest : End(how)
    BY <1>10, <2>2 DEF TypeOK, DiskOK, CommandOK, AtRest, Committing, Undoing,
       ApplyManifest, PutManifest, Current, boundVars, Plans
  <2>3. QED
    BY <2>1, <2>2
<1>11. ASSUME UndoSettings PROVE TypeOK'
  BY <1>11 DEF UndoSettings, PutSettings, Current, Blocked, commandVars,
     boundVars, Plans
<1>12. ASSUME UndoManifest PROVE TypeOK'
  <2>1. CASE \E how \in AtRest : End(how)
    <3>1. CommandOK'
      BY <2>1, EndType
    <3>2. DiskOK' /\ edits' \in Nat /\ commands' \in Nat /\ faults' \in Nat
      BY <1>12 DEF TypeOK, DiskOK, UndoManifest, PutManifest, Current, Blocked,
       boundVars, Plans
    <3>3. QED
      BY <3>1, <3>2 DEF TypeOK
  <2>2. CASE ~\E how \in AtRest : End(how)
    BY <1>12, <2>2 DEF TypeOK, DiskOK, CommandOK, AtRest, Committing, Undoing,
       UndoManifest, PutManifest, Current, Blocked, boundVars, Plans
  <2>3. QED
    BY <2>1, <2>2
<1>13. ASSUME BackUpFails PROVE TypeOK'
  <2>1. Current \in Agent /\ Bytes(plan[Current].original) \in Files
    BY <1>13, CurrentType, BytesType DEF BackUpFails, Committing
  <2>2. backup' \in [Agent -> Files]
    BY <1>13, <2>1 DEF BackUpFails
  <2>3. QED
    BY <1>13, <2>2 DEF BackUpFails, Fault, StartUndo
<1>14. ASSUME ApplySettingsFails PROVE TypeOK'
  BY <1>14 DEF ApplySettingsFails, Fault, PutSettings, StartUndo, Leave,
     Current, Plans
<1>15. ASSUME ApplyManifestFails PROVE TypeOK'
  <2>1. Current \in Agent /\ plan[Current].new \in Manifests
    BY <1>15, CurrentType DEF ApplyManifestFails, Committing
  <2>2. /\ manifest' \in [Agent -> Manifests]
        /\ leftover' \in SUBSET (Agent \X {"settings", "manifest"})
    BY <1>15, <2>1 DEF ApplyManifestFails, PutManifest, Leave
  <2>3. QED
    BY <1>15, <2>2 DEF ApplyManifestFails, Fault, StartUndo
<1>16. ASSUME UndoFails PROVE TypeOK'
  <2>1. CommandOK'
    BY <1>16, EndType DEF AtRest, UndoFails
  <2>2. DiskOK' /\ edits' \in Nat /\ commands' \in Nat /\ faults' \in Nat
    BY <1>16 DEF TypeOK, DiskOK, UndoFails, Current, Blocked, diskVars, boundVars
  <2>3. QED
    BY <2>1, <2>2 DEF TypeOK
<1>17. ASSUME UndoFaults PROVE TypeOK'
  <2>1. CommandOK'
    BY <1>17, EndType DEF AtRest, UndoFaults
  <2>2. DiskOK' /\ edits' \in Nat /\ commands' \in Nat /\ faults' \in Nat
    BY <1>17 DEF TypeOK, DiskOK, UndoFaults, Current, boundVars, Plans
  <2>3. QED
    BY <2>1, <2>2 DEF TypeOK
<1>18. ASSUME Crash PROVE TypeOK'
  <2>1. CommandOK'
    BY <1>18, EndType DEF AtRest, Crash
  <2>2. DiskOK' /\ edits' \in Nat /\ commands' \in Nat /\ faults' \in Nat
    BY <1>18 DEF TypeOK, DiskOK, Crash, Fault, diskVars
  <2>3. QED
    BY <2>1, <2>2 DEF TypeOK
<1>19. ASSUME NEW a \in Agent, Edit(a) PROVE TypeOK'
  <2>1. PICK f \in UserFiles(a) : settings' = [settings EXCEPT ![a] = f]
    BY <1>19 DEF Edit
  <2>2. f \in Files
    BY UserFilesType
  <2>3. QED
    BY <1>19, <2>1, <2>2 DEF Edit, commandVars
<1>20. ASSUME Rest PROVE TypeOK'
  BY <1>20 DEF Rest, vars, diskVars, commandVars, boundVars
<1>21. CASE UNCHANGED vars
  BY <1>21 DEF vars, diskVars, commandVars, boundVars
<1>22. QED
  BY <1>1, <1>2, <1>3, <1>4, <1>5, <1>6, <1>7, <1>8, <1>9, <1>10, <1>11,
     <1>12, <1>13, <1>14, <1>15, <1>16, <1>17, <1>18, <1>19, <1>20, <1>21 DEF
     Next, Prepare, Write, Fail

\* Every variable keeps its type.
THEOREM TypeCorrect == Spec => []TypeOK
<1>1. Init => TypeOK
  BY TypeOKInit
<1>2. TypeOK /\ [Next]_vars => TypeOK'
  BY TypeOKNext
<1>3. QED
  BY <1>1, <1>2, PTL DEF Spec

---------------------------------------------------------------------------
(* The inductive invariant                                                 *)

\* What uninstall puts has a hook only if what it found had one.
LEMMA UninstalledHooks ==
    ASSUME InstallerIInv, NEW a \in Agent, UninstallAccepted(a)
    PROVE  /\ ~HookFree(Uninstalled(a)) => Preserved(a)
           /\ Uninstalled(a) # Empty
<1>1. /\ InstalledBinary(a) \in Binary \union {NoBinary}
      /\ settings[a] \in Files /\ backup[a] \in Files
  BY DEF InstallerIInv, InstallerInv, TypeOK, DiskOK, CommandOK, InstalledBinary, Manifests
<1>2. CASE Untouched(a)
  <2>1. Backed(a, manifest[a]) /\ manifest[a] # NoManifest
    BY <1>2 DEF InstallerIInv, InstallerInv, ManifestBacked, Untouched
  <2>2. HookFree(backup[a])
    BY <2>1 DEF InstallerIInv, InstallerInv, OriginalKept, Backed
  <2>3. QED
    BY <1>2, <2>1, <2>2, PlainFiles DEF Uninstalled, Backed
<1>3. CASE ~Untouched(a)
  <2>1. Uninstalled(a) = Unpatch(settings[a], InstalledBinary(a))
    BY <1>3 DEF Uninstalled
  <2>2. Unpatch(settings[a], InstalledBinary(a)).kind \in {"odd", "sound"}
    BY <1>1, UnpatchType DEF UninstallAccepted
  <2>3. HookFree(settings[a]) => HookFree(Uninstalled(a))
    BY <1>1, <2>1, UnpatchType
  <2>4. QED
    BY <2>1, <2>2, <2>3, PlainFiles DEF InstallerIInv, InstallerInv, OriginalKept
<1>4. QED
  BY <1>2, <1>3

\* What the invariant says of the agent at hand.
LEMMA AtHand ==
    ASSUME InstallerIInv, pc \in Committing \union Undoing
    PROVE  /\ Current \in Agent
           /\ at \in 1..Len(order)
           /\ Current = order[at]
           /\ IF op = "install" THEN InstallPlanned(Current)
              ELSE UninstallPlanned(Current)
           /\ op = "install" /\ pc \in {"settings", "manifest"} => backup[Current] # Absent
BY CurrentType
   DEF InstallerIInv, InstallerInv, TypeOK, PlanSound, Progress, ProgressOf, BackupDone, Current, Committing

\* Every hook that comes finds a backup.
LEMMA OriginalKeptNext ==
    InstallerIInv /\ [Next]_vars => OriginalKept'
<1> SUFFICES ASSUME InstallerIInv, [Next]_vars PROVE OriginalKept'
  OBVIOUS
<1>facts. /\ TypeOK /\ op \in {"install", "uninstall"} /\ OriginalKept /\ Stage
            /\ settings \in [Agent -> Files] /\ backup \in [Agent -> Files]
            /\ plan \in [Agent -> Plans]
  BY DEF InstallerIInv, InstallerInv, TypeOK, DiskOK, CommandOK
<1> USE <1>facts DEF OriginalKept, Preserved, Stage, AtRest
<1>1. ASSUME NEW command \in {"install", "uninstall"}, NEW l \in AgentLists,
         NEW b \in Binary, NEW rtk \in BOOLEAN,
         Begin(command, l, b, rtk)
      PROVE  OriginalKept'
  BY <1>1, PlainFiles, PlainManifest DEF Begin, diskVars
<1>2. ASSUME NEW a \in Agent, PrepareInstall(a) PROVE OriginalKept'
  BY <1>2 DEF PrepareInstall, Prepared, diskVars, boundVars, Plan
<1>3. ASSUME NEW a \in Agent, PrepareUninstall(a) PROVE OriginalKept'
  <2>1. ~HookFree(Uninstalled(a)) => Preserved(a)
    BY <1>3, UninstalledHooks DEF PrepareUninstall
  <2>2. QED
    BY <1>3, <2>1 DEF PrepareUninstall, Prepared, Plan, diskVars
<1>4. ASSUME NEW a \in Agent, SkipUninstall(a) PROVE OriginalKept'
  BY <1>4, PlainFiles, PlainManifest DEF SkipUninstall, diskVars, boundVars
<1>5. ASSUME NEW a \in Agent, Refuse(a) PROVE OriginalKept'
  BY <1>5, PlainFiles, PlainManifest DEF Refuse, End, diskVars, boundVars
<1>6. ASSUME ReadFails PROVE OriginalKept'
  BY <1>6, PlainFiles, PlainManifest DEF ReadFails, End, Fault, diskVars
<1>7. ASSUME Commit PROVE OriginalKept'
  BY <1>7, PlainFiles, PlainManifest DEF Commit, End, diskVars, commandVars,
     boundVars
<1>8. ASSUME BackUp PROVE OriginalKept'
  <2>1. Current \in Agent /\ plan[Current].original \in Files
    BY <1>8, AtHand DEF BackUp, Committing, Plans
  <2>2. /\ Bytes(plan[Current].original) # Absent
        /\ HookFree(plan[Current].original) => HookFree(Bytes(plan[Current].original))
    BY <2>1, BytesType
  <2>3. QED
    BY <1>8, <2>1, <2>2 DEF BackUp, commandVars
<1>9. ASSUME ApplySettings PROVE OriginalKept'
  <2>1. /\ Current \in Agent
        /\ ~HookFree(plan[Current].updated) => Preserved(Current)
    BY <1>9, AtHand DEF ApplySettings, Committing, CommandOK
  <2>2. QED
    BY <1>9, <2>1 DEF ApplySettings, PutSettings, commandVars
<1>10. ASSUME ApplyManifest PROVE OriginalKept'
  BY <1>10, PlainFiles, PlainManifest DEF ApplyManifest, End, PutManifest,
     Current, boundVars
<1>11. ASSUME UndoSettings PROVE OriginalKept'
  BY <1>11, PlainFiles, PlainManifest, AtHand DEF UndoSettings, PutSettings,
     Current, Blocked, commandVars, boundVars, Committing, Undoing
<1>12. ASSUME UndoManifest PROVE OriginalKept'
  BY <1>12, PlainFiles, PlainManifest DEF UndoManifest, End, PutManifest,
     Current, Blocked, boundVars
<1>13. ASSUME BackUpFails PROVE OriginalKept'
  <2>1. Current \in Agent /\ plan[Current].original \in Files
    BY <1>13, AtHand DEF BackUpFails, Committing, Plans
  <2>2. /\ Bytes(plan[Current].original) # Absent
        /\ HookFree(plan[Current].original) => HookFree(Bytes(plan[Current].original))
    BY <2>1, BytesType
  <2>3. QED
    BY <1>13, <2>1, <2>2 DEF BackUpFails, StartUndo
<1>14. ASSUME ApplySettingsFails PROVE OriginalKept'
  <2>1. /\ Current \in Agent
        /\ ~HookFree(plan[Current].updated) => Preserved(Current)
    BY <1>14, AtHand DEF ApplySettingsFails, Committing, CommandOK
  <2>2. QED
    BY <1>14, <2>1 DEF ApplySettingsFails, PutSettings, StartUndo
<1>15. ASSUME ApplyManifestFails PROVE OriginalKept'
  BY <1>15, PlainFiles, PlainManifest DEF ApplyManifestFails, Fault,
     PutManifest, StartUndo, Leave, Current
<1>16. ASSUME UndoFails PROVE OriginalKept'
  BY <1>16, PlainFiles, PlainManifest DEF UndoFails, End, Current, Blocked,
     diskVars, boundVars
<1>17. ASSUME UndoFaults PROVE OriginalKept'
  BY <1>17, PlainFiles, PlainManifest, AtHand DEF UndoFaults, End, Current,
     boundVars, Committing, Undoing
<1>18. ASSUME Crash PROVE OriginalKept'
  BY <1>18, PlainFiles, PlainManifest DEF Crash, End, Fault, diskVars
<1>19. ASSUME NEW a \in Agent, Edit(a) PROVE OriginalKept'
  <2>1. PICK f \in UserFiles(a) : settings' = [settings EXCEPT ![a] = f]
    BY <1>19 DEF Edit
  <2>2. HookFree(f) \/ f.hooks = settings[a].hooks
    BY UserFilesType
  <2>3. ~HookFree(f) => ~HookFree(settings[a])
    BY <2>2 DEF HookFree
  <2>4. QED
    BY <1>19, <2>1, <2>3 DEF Edit, commandVars
<1>20. ASSUME Rest PROVE OriginalKept'
  BY <1>20, PlainFiles, PlainManifest DEF Rest, vars, diskVars, commandVars,
     boundVars
<1>21. CASE UNCHANGED vars
  BY <1>21, PlainFiles, PlainManifest DEF vars, diskVars, commandVars,
     boundVars
<1>22. QED
  BY <1>1, <1>2, <1>3, <1>4, <1>5, <1>6, <1>7, <1>8, <1>9, <1>10, <1>11,
     <1>12, <1>13, <1>14, <1>15, <1>16, <1>17, <1>18, <1>19, <1>20, <1>21 DEF
     Next, Prepare, Write, Fail

\* What preparing an agent does to the lists and the plan.
LEMMA PreparedShape ==
    ASSUME CommandOK, NEW a \in Agent, NEW p, todo # <<>>, Head(todo) = a,
           Prepared(a, p)
    PROVE  /\ Len(order) \in Nat /\ Len(order') = Len(order) + 1
           /\ \A i \in 1..Len(order) : order'[i] = order[i]
           /\ order'[Len(order) + 1] = a
           /\ Len(todo) \in Nat /\ Len(todo') = Len(todo) - 1
           /\ \A j \in 1..Len(todo') : j + 1 \in 1..Len(todo) /\ todo'[j] = todo[j + 1]
           /\ 1 \in 1..Len(todo) /\ todo[1] = a
           /\ plan'[a] = p
           /\ \A b \in Agent : b # a => plan'[b] = plan[b]
           /\ UNCHANGED <<diskVars, pc, op, binary, withRtk, at, leftover, edited>>
<1>1. order' = Append(order, a) /\ todo' = Tail(todo)
  BY DEF Prepared
<1>2. order \in Seq(Agent) /\ todo \in Seq(Agent) /\ plan \in [Agent -> Plans]
  BY DEF CommandOK
<1>3. UNCHANGED <<diskVars, pc, op, binary, withRtk, at, leftover, edited>>
  BY DEF Prepared, diskVars
<1>4. plan'[a] = p /\ \A b \in Agent : b # a => plan'[b] = plan[b]
  BY <1>2 DEF Prepared
<1>5. /\ Len(order) \in Nat /\ Len(order') = Len(order) + 1
      /\ \A i \in 1..Len(order) : order'[i] = order[i]
      /\ order'[Len(order) + 1] = a
  BY <1>1, <1>2
<1>6. /\ Len(todo) \in Nat /\ Len(todo') = Len(todo) - 1
      /\ \A j \in 1..Len(todo') : j + 1 \in 1..Len(todo) /\ todo'[j] = todo[j + 1]
      /\ 1 \in 1..Len(todo) /\ todo[1] = a
  BY <1>1, <1>2
<1>7. QED
  BY <1>3, <1>4, <1>5, <1>6

\* The manifest to be written is for the backup that lies there by now.
LEMMA PlannedManifest ==
    ASSUME InstallerIInv, pc = "manifest"
    PROVE  Current \in Agent /\ Backed(Current, plan[Current].new)
<1>1. pc \in Committing /\ binary \in Binary /\ op \in {"install", "uninstall"}
  BY DEF Committing, AtRest, InstallerIInv, InstallerInv, TypeOK, CommandOK
<1>2. Current \in Agent
  BY <1>1, AtHand
<1>3. CASE op = "install"
  <2>1. InstallPlanned(Current) /\ backup[Current] # Absent
    BY <1>1, <1>3, AtHand
  <2>2. plan[Current].new.original = backup[Current]
    BY <2>1 DEF InstallPlanned
  <2>3. QED
    BY <1>1, <1>2, <2>1, <2>2 DEF InstallPlanned, Backed
<1>4. CASE op = "uninstall"
  <2>1. UninstallPlanned(Current)
    BY <1>1, <1>4, AtHand
  <2>2. QED
    BY <1>2, <2>1 DEF UninstallPlanned, Backed
<1>5. QED
  BY <1>1, <1>3, <1>4

\* A manifest is written when its backup is there.
LEMMA ManifestBackedNext ==
    InstallerIInv /\ [Next]_vars => ManifestBacked'
<1> SUFFICES ASSUME InstallerIInv, [Next]_vars PROVE ManifestBacked'
  OBVIOUS
<1>facts. /\ TypeOK /\ op \in {"install", "uninstall"} /\ Stage
            /\ settings \in [Agent -> Files] /\ backup \in [Agent -> Files]
            /\ manifest \in [Agent -> Manifests] /\ plan \in [Agent -> Plans]
            /\ ManifestBacked
  BY DEF InstallerIInv, InstallerInv, TypeOK, DiskOK, CommandOK
<1> USE <1>facts DEF ManifestBacked, Backed, Stage
<1>1. ASSUME NEW command \in {"install", "uninstall"}, NEW l \in AgentLists,
         NEW b \in Binary, NEW rtk \in BOOLEAN,
         Begin(command, l, b, rtk)
      PROVE  ManifestBacked'
  BY <1>1, PlainFiles, PlainManifest DEF Begin, diskVars
<1>2. ASSUME NEW a \in Agent, PrepareInstall(a) PROVE ManifestBacked'
  BY <1>2 DEF PrepareInstall, Prepared, diskVars, boundVars, Plan
<1>3. ASSUME NEW a \in Agent, PrepareUninstall(a) PROVE ManifestBacked'
  BY <1>3 DEF PrepareUninstall, Prepared, diskVars, boundVars, Plan
<1>4. ASSUME NEW a \in Agent, SkipUninstall(a) PROVE ManifestBacked'
  BY <1>4, PlainFiles, PlainManifest DEF SkipUninstall, diskVars, boundVars
<1>5. ASSUME NEW a \in Agent, Refuse(a) PROVE ManifestBacked'
  BY <1>5, PlainFiles, PlainManifest DEF Refuse, End, diskVars, boundVars
<1>6. ASSUME ReadFails PROVE ManifestBacked'
  BY <1>6, PlainFiles, PlainManifest DEF ReadFails, End, Fault, diskVars
<1>7. ASSUME Commit PROVE ManifestBacked'
  BY <1>7, PlainFiles, PlainManifest DEF Commit, End, diskVars, commandVars,
     boundVars
<1>8. ASSUME BackUp PROVE ManifestBacked'
  BY <1>8, AtHand DEF BackUp, Current, commandVars, boundVars, Committing
<1>9. ASSUME ApplySettings PROVE ManifestBacked'
  BY <1>9, PlainFiles, PlainManifest DEF ApplySettings, PutSettings, Current,
     commandVars, boundVars
<1>10. ASSUME ApplyManifest PROVE ManifestBacked'
  <2>1. Current \in Agent /\ Backed(Current, plan[Current].new)
    BY <1>10, PlannedManifest DEF ApplyManifest
  <2>2. manifest' = [manifest EXCEPT ![Current] = plan[Current].new]
    BY <1>10 DEF ApplyManifest, PutManifest
  <2>3. plan' = plan \/ plan' = [a \in Agent |-> NoPlan]
    BY <1>10 DEF ApplyManifest, End
  <2>4. QED
    BY <1>10, <2>1, <2>2, <2>3, PlainManifest DEF ApplyManifest
<1>11. ASSUME UndoSettings PROVE ManifestBacked'
  BY <1>11, PlainFiles, PlainManifest DEF UndoSettings, PutSettings, Current,
     Blocked, commandVars, boundVars
<1>12. ASSUME UndoManifest PROVE ManifestBacked'
  BY <1>12, PlainFiles, PlainManifest, AtHand DEF UndoManifest, End,
     PutManifest, Current, Blocked, boundVars, Undoing
<1>13. ASSUME BackUpFails PROVE ManifestBacked'
  BY <1>13, AtHand DEF BackUpFails, Fault, StartUndo, Current, Committing
<1>14. ASSUME ApplySettingsFails PROVE ManifestBacked'
  BY <1>14, PlainFiles, PlainManifest DEF ApplySettingsFails, Fault,
     PutSettings, StartUndo, Leave, Current
<1>15. ASSUME ApplyManifestFails PROVE ManifestBacked'
  <2>1. Current \in Agent /\ Backed(Current, plan[Current].new)
    BY <1>15, PlannedManifest DEF ApplyManifestFails
  <2>2. QED
    BY <1>15, <2>1 DEF ApplyManifestFails, PutManifest, StartUndo
<1>16. ASSUME UndoFails PROVE ManifestBacked'
  BY <1>16, PlainFiles, PlainManifest DEF UndoFails, End, Current, Blocked,
     diskVars, boundVars
<1>17. ASSUME UndoFaults PROVE ManifestBacked'
  BY <1>17, PlainFiles, PlainManifest, AtHand DEF UndoFaults, End, Current,
     boundVars, Undoing
<1>18. ASSUME Crash PROVE ManifestBacked'
  BY <1>18, PlainFiles, PlainManifest DEF Crash, End, Fault, diskVars
<1>19. ASSUME NEW a \in Agent, Edit(a) PROVE ManifestBacked'
  BY <1>19, PlainFiles, PlainManifest DEF Edit, commandVars
<1>20. ASSUME Rest PROVE ManifestBacked'
  BY <1>20, PlainFiles, PlainManifest DEF Rest, vars, diskVars, commandVars,
     boundVars
<1>21. CASE UNCHANGED vars
  BY <1>21, PlainFiles, PlainManifest DEF vars, diskVars, commandVars,
     boundVars
<1>22. QED
  BY <1>1, <1>2, <1>3, <1>4, <1>5, <1>6, <1>7, <1>8, <1>9, <1>10, <1>11,
     <1>12, <1>13, <1>14, <1>15, <1>16, <1>17, <1>18, <1>19, <1>20, <1>21 DEF
     Next, Prepare, Write, Fail

\* Nothing makes an empty settings file.
LEMMA NeverEmptyNext ==
    InstallerIInv /\ [Next]_vars => NeverEmpty'
<1> SUFFICES ASSUME InstallerIInv, [Next]_vars PROVE NeverEmpty'
  OBVIOUS
<1>facts. /\ TypeOK /\ op \in {"install", "uninstall"} /\ Stage
            /\ settings \in [Agent -> Files] /\ backup \in [Agent -> Files]
            /\ manifest \in [Agent -> Manifests] /\ plan \in [Agent -> Plans]
            /\ NeverEmpty
  BY DEF InstallerIInv, InstallerInv, TypeOK, DiskOK, CommandOK
<1> USE <1>facts DEF NeverEmpty
<1>1. ASSUME NEW command \in {"install", "uninstall"}, NEW l \in AgentLists,
         NEW b \in Binary, NEW rtk \in BOOLEAN,
         Begin(command, l, b, rtk)
      PROVE  NeverEmpty'
  BY <1>1, PlainFiles, PlainManifest DEF Begin, diskVars
<1>2. ASSUME NEW a \in Agent, PrepareInstall(a) PROVE NeverEmpty'
  <2>1. Patch(settings[a]).kind # "empty"
    BY <1>2, PatchType DEF PrepareInstall, InstallAccepted, TypeOK, CommandOK, AtRest
  <2>2. Patch(settings[a]) # Empty
    BY <2>1, PlainFiles
  <2>3. QED
    BY <1>2, <2>2 DEF PrepareInstall, Prepared, Plan, diskVars
<1>3. ASSUME NEW a \in Agent, PrepareUninstall(a) PROVE NeverEmpty'
  <2>1. Uninstalled(a) # Empty
    BY <1>3, UninstalledHooks DEF PrepareUninstall
  <2>2. QED
    BY <1>3, <2>1 DEF PrepareUninstall, Prepared, Plan, diskVars
<1>4. ASSUME NEW a \in Agent, SkipUninstall(a) PROVE NeverEmpty'
  BY <1>4, PlainFiles, PlainManifest DEF SkipUninstall, diskVars, boundVars
<1>5. ASSUME NEW a \in Agent, Refuse(a) PROVE NeverEmpty'
  BY <1>5, PlainFiles, PlainManifest DEF Refuse, End, diskVars, boundVars
<1>6. ASSUME ReadFails PROVE NeverEmpty'
  BY <1>6, PlainFiles, PlainManifest DEF ReadFails, End, Fault, diskVars
<1>7. ASSUME Commit PROVE NeverEmpty'
  BY <1>7, PlainFiles, PlainManifest DEF Commit, End, diskVars, commandVars,
     boundVars
<1>8. ASSUME BackUp PROVE NeverEmpty'
  BY <1>8, PlainFiles, PlainManifest DEF BackUp, Current, commandVars,
     boundVars
<1>9. ASSUME ApplySettings PROVE NeverEmpty'
  BY <1>9, AtHand, PlainFiles, PlainManifest DEF ApplySettings, PutSettings,
     Current, commandVars, boundVars, Committing, Undoing
<1>10. ASSUME ApplyManifest PROVE NeverEmpty'
  BY <1>10, PlainFiles, PlainManifest DEF ApplyManifest, End, PutManifest,
     Current, boundVars
<1>11. ASSUME UndoSettings PROVE NeverEmpty'
  BY <1>11, AtHand, PlainFiles, PlainManifest DEF UndoSettings, PutSettings,
     Current, Blocked, commandVars, boundVars, Committing, Undoing
<1>12. ASSUME UndoManifest PROVE NeverEmpty'
  BY <1>12, PlainFiles, PlainManifest DEF UndoManifest, End, PutManifest,
     Current, Blocked, boundVars
<1>13. ASSUME BackUpFails PROVE NeverEmpty'
  BY <1>13, PlainFiles, PlainManifest DEF BackUpFails, Fault, StartUndo,
     Current
<1>14. ASSUME ApplySettingsFails PROVE NeverEmpty'
  BY <1>14, AtHand, PlainFiles, PlainManifest DEF ApplySettingsFails, Fault,
     PutSettings, StartUndo, Leave, Current, Committing, Undoing
<1>15. ASSUME ApplyManifestFails PROVE NeverEmpty'
  BY <1>15, PlainFiles, PlainManifest DEF ApplyManifestFails, Fault,
     PutManifest, StartUndo, Leave, Current
<1>16. ASSUME UndoFails PROVE NeverEmpty'
  BY <1>16, PlainFiles, PlainManifest DEF UndoFails, End, Current, Blocked,
     diskVars, boundVars
<1>17. ASSUME UndoFaults PROVE NeverEmpty'
  BY <1>17, AtHand, PlainFiles, PlainManifest DEF UndoFaults, End, Current,
     boundVars, Committing, Undoing
<1>18. ASSUME Crash PROVE NeverEmpty'
  BY <1>18, PlainFiles, PlainManifest DEF Crash, End, Fault, diskVars
<1>19. ASSUME NEW a \in Agent, Edit(a) PROVE NeverEmpty'
  <2>1. PICK f \in UserFiles(a) : settings' = [settings EXCEPT ![a] = f]
    BY <1>19 DEF Edit
  <2>2. f # Empty
    BY UserFilesType
  <2>3. QED
    BY <1>19, <2>1, <2>2 DEF Edit, commandVars
<1>20. ASSUME Rest PROVE NeverEmpty'
  BY <1>20, PlainFiles, PlainManifest DEF Rest, vars, diskVars, commandVars,
     boundVars
<1>21. CASE UNCHANGED vars
  BY <1>21, PlainFiles, PlainManifest DEF vars, diskVars, commandVars,
     boundVars
<1>22. QED
  BY <1>1, <1>2, <1>3, <1>4, <1>5, <1>6, <1>7, <1>8, <1>9, <1>10, <1>11,
     <1>12, <1>13, <1>14, <1>15, <1>16, <1>17, <1>18, <1>19, <1>20, <1>21 DEF
     Next, Prepare, Write, Fail

\* The lists are used up when writing begins.
LEMMA StageNext ==
    InstallerIInv /\ [Next]_vars => Stage'
<1> SUFFICES ASSUME InstallerIInv, [Next]_vars PROVE Stage'
  OBVIOUS
<1>facts. TypeOK /\ CommandOK /\ Stage
  BY DEF InstallerIInv, InstallerInv, TypeOK
<1> USE <1>facts DEF Stage, AtRest, Committing, Undoing
<1>1. ASSUME NEW command \in {"install", "uninstall"}, NEW l \in AgentLists,
         NEW b \in Binary, NEW rtk \in BOOLEAN,
         Begin(command, l, b, rtk)
      PROVE  Stage'
  BY <1>1 DEF Begin, diskVars
<1>2. ASSUME NEW a \in Agent, PrepareInstall(a) PROVE Stage'
  BY <1>2 DEF PrepareInstall, Prepared, diskVars, boundVars
<1>3. ASSUME NEW a \in Agent, PrepareUninstall(a) PROVE Stage'
  BY <1>3 DEF PrepareUninstall, Prepared, diskVars, boundVars
<1>4. ASSUME NEW a \in Agent, SkipUninstall(a) PROVE Stage'
  BY <1>4 DEF SkipUninstall, diskVars, boundVars
<1>5. ASSUME NEW a \in Agent, Refuse(a) PROVE Stage'
  BY <1>5 DEF Refuse, End, diskVars, boundVars
<1>6. ASSUME ReadFails PROVE Stage'
  BY <1>6 DEF ReadFails, End, Fault, diskVars
<1>7. ASSUME Commit PROVE Stage'
  BY <1>7 DEF Commit, End, diskVars, commandVars, boundVars
<1>8. ASSUME BackUp PROVE Stage'
  BY <1>8 DEF BackUp, Current, commandVars, boundVars
<1>9. ASSUME ApplySettings PROVE Stage'
  BY <1>9 DEF ApplySettings, PutSettings, Current, commandVars, boundVars
<1>10. ASSUME ApplyManifest PROVE Stage'
  BY <1>10 DEF ApplyManifest, End, PutManifest, Current, boundVars
<1>11. ASSUME UndoSettings PROVE Stage'
  BY <1>11 DEF UndoSettings, PutSettings, Current, Blocked, commandVars,
     boundVars
<1>12. ASSUME UndoManifest PROVE Stage'
  BY <1>12 DEF UndoManifest, End, PutManifest, Current, Blocked, boundVars
<1>13. ASSUME BackUpFails PROVE Stage'
  BY <1>13 DEF BackUpFails, Fault, StartUndo, Current
<1>14. ASSUME ApplySettingsFails PROVE Stage'
  BY <1>14 DEF ApplySettingsFails, Fault, PutSettings, StartUndo, Leave,
     Current
<1>15. ASSUME ApplyManifestFails PROVE Stage'
  BY <1>15 DEF ApplyManifestFails, Fault, PutManifest, StartUndo, Leave,
     Current
<1>16. ASSUME UndoFails PROVE Stage'
  BY <1>16 DEF UndoFails, End, Current, Blocked, diskVars, boundVars
<1>17. ASSUME UndoFaults PROVE Stage'
  BY <1>17 DEF UndoFaults, End, Current, boundVars
<1>18. ASSUME Crash PROVE Stage'
  BY <1>18 DEF Crash, End, Fault, diskVars
<1>19. ASSUME NEW a \in Agent, Edit(a) PROVE Stage'
  BY <1>19 DEF Edit, commandVars
<1>20. ASSUME Rest PROVE Stage'
  BY <1>20 DEF Rest, vars, diskVars, commandVars, boundVars
<1>21. CASE UNCHANGED vars
  BY <1>21 DEF vars, diskVars, commandVars, boundVars
<1>22. QED
  BY <1>1, <1>2, <1>3, <1>4, <1>5, <1>6, <1>7, <1>8, <1>9, <1>10, <1>11,
     <1>12, <1>13, <1>14, <1>15, <1>16, <1>17, <1>18, <1>19, <1>20, <1>21 DEF
     Next, Prepare, Write, Fail

\* No agent comes twice.
LEMMA DistinctNext ==
    InstallerIInv /\ [Next]_vars => Distinct'
<1> SUFFICES ASSUME InstallerIInv, [Next]_vars PROVE Distinct'
  OBVIOUS
<1>facts. TypeOK /\ CommandOK /\ Stage /\ Distinct
  BY DEF InstallerIInv, InstallerInv, TypeOK
<1> USE <1>facts DEF Distinct
<1>1. ASSUME NEW command \in {"install", "uninstall"}, NEW l \in AgentLists,
         NEW b \in Binary, NEW rtk \in BOOLEAN,
         Begin(command, l, b, rtk)
      PROVE  Distinct'
  <2>1. order' = <<>> /\ todo' = l
    BY <1>1 DEF Begin, Stage
  <2>2. Len(order') = 0 /\ \A i, j \in 1..Len(l) : l[i] = l[j] => i = j
    BY <2>1, AgentListsType
  <2>3. QED
    BY <2>1, <2>2
<1>2. ASSUME NEW a \in Agent, PrepareInstall(a) PROVE Distinct'
  <2>1. /\ Len(order) \in Nat /\ Len(order') = Len(order) + 1
        /\ \A i \in 1..Len(order) : order'[i] = order[i]
        /\ order'[Len(order) + 1] = a
        /\ Len(todo) \in Nat /\ Len(todo') = Len(todo) - 1
        /\ \A j \in 1..Len(todo') : j + 1 \in 1..Len(todo) /\ todo'[j] = todo[j + 1]
        /\ 1 \in 1..Len(todo) /\ todo[1] = a
    BY <1>2, PreparedShape DEF PrepareInstall
  <2>2. \A i \in 1..Len(order) : order[i] # a
    BY <2>1
  <2>3. \A i, j \in 1..Len(order') : order'[i] = order'[j] => i = j
    <3>1. \A i \in 1..Len(order') : i \in 1..Len(order) \/ i = Len(order) + 1
      BY <2>1
    <3>2. QED
      BY <2>1, <2>2, <3>1
  <2>4. \A i, j \in 1..Len(todo') : todo'[i] = todo'[j] => i = j
    BY <2>1
  <2>5. \A i \in 1..Len(order'), j \in 1..Len(todo') : order'[i] # todo'[j]
    <3>1. \A i \in 1..Len(order') : i \in 1..Len(order) \/ i = Len(order) + 1
      BY <2>1
    <3>2. \A j \in 1..Len(todo') : todo'[j] # a
      BY <2>1
    <3>3. QED
      BY <2>1, <3>1, <3>2
  <2>6. QED
    BY <2>3, <2>4, <2>5
<1>3. ASSUME NEW a \in Agent, PrepareUninstall(a) PROVE Distinct'
  <2>1. /\ Len(order) \in Nat /\ Len(order') = Len(order) + 1
        /\ \A i \in 1..Len(order) : order'[i] = order[i]
        /\ order'[Len(order) + 1] = a
        /\ Len(todo) \in Nat /\ Len(todo') = Len(todo) - 1
        /\ \A j \in 1..Len(todo') : j + 1 \in 1..Len(todo) /\ todo'[j] = todo[j + 1]
        /\ 1 \in 1..Len(todo) /\ todo[1] = a
    BY <1>3, PreparedShape DEF PrepareUninstall
  <2>2. \A i \in 1..Len(order) : order[i] # a
    BY <2>1
  <2>3. \A i, j \in 1..Len(order') : order'[i] = order'[j] => i = j
    <3>1. \A i \in 1..Len(order') : i \in 1..Len(order) \/ i = Len(order) + 1
      BY <2>1
    <3>2. QED
      BY <2>1, <2>2, <3>1
  <2>4. \A i, j \in 1..Len(todo') : todo'[i] = todo'[j] => i = j
    BY <2>1
  <2>5. \A i \in 1..Len(order'), j \in 1..Len(todo') : order'[i] # todo'[j]
    <3>1. \A i \in 1..Len(order') : i \in 1..Len(order) \/ i = Len(order) + 1
      BY <2>1
    <3>2. \A j \in 1..Len(todo') : todo'[j] # a
      BY <2>1
    <3>3. QED
      BY <2>1, <3>1, <3>2
  <2>6. QED
    BY <2>3, <2>4, <2>5
<1>4. ASSUME NEW a \in Agent, SkipUninstall(a) PROVE Distinct'
  <2>1. /\ Len(todo) \in Nat /\ Len(todo') = Len(todo) - 1
        /\ \A j \in 1..Len(todo') : j + 1 \in 1..Len(todo) /\ todo'[j] = todo[j + 1]
    BY <1>4 DEF SkipUninstall, TypeOK, CommandOK
  <2>2. QED
    BY <1>4, <2>1 DEF SkipUninstall
<1>5. ASSUME NEW a \in Agent, Refuse(a) PROVE Distinct'
  BY <1>5 DEF Refuse, End, diskVars, boundVars
<1>6. ASSUME ReadFails PROVE Distinct'
  BY <1>6 DEF ReadFails, End, Fault, diskVars
<1>7. ASSUME Commit PROVE Distinct'
  BY <1>7 DEF Commit, End, diskVars, commandVars, boundVars
<1>8. ASSUME BackUp PROVE Distinct'
  BY <1>8 DEF BackUp, Current, commandVars, boundVars
<1>9. ASSUME ApplySettings PROVE Distinct'
  BY <1>9 DEF ApplySettings, PutSettings, Current, commandVars, boundVars
<1>10. ASSUME ApplyManifest PROVE Distinct'
  BY <1>10 DEF ApplyManifest, End, PutManifest, Current, boundVars
<1>11. ASSUME UndoSettings PROVE Distinct'
  BY <1>11 DEF UndoSettings, PutSettings, Current, Blocked, commandVars,
     boundVars
<1>12. ASSUME UndoManifest PROVE Distinct'
  BY <1>12 DEF UndoManifest, End, PutManifest, Current, Blocked, boundVars
<1>13. ASSUME BackUpFails PROVE Distinct'
  BY <1>13 DEF BackUpFails, Fault, StartUndo, Current
<1>14. ASSUME ApplySettingsFails PROVE Distinct'
  BY <1>14 DEF ApplySettingsFails, Fault, PutSettings, StartUndo, Leave,
     Current
<1>15. ASSUME ApplyManifestFails PROVE Distinct'
  BY <1>15 DEF ApplyManifestFails, Fault, PutManifest, StartUndo, Leave,
     Current
<1>16. ASSUME UndoFails PROVE Distinct'
  BY <1>16 DEF UndoFails, End, Current, Blocked, diskVars, boundVars
<1>17. ASSUME UndoFaults PROVE Distinct'
  BY <1>17 DEF UndoFaults, End, Current, boundVars
<1>18. ASSUME Crash PROVE Distinct'
  BY <1>18 DEF Crash, End, Fault, diskVars
<1>19. ASSUME NEW a \in Agent, Edit(a) PROVE Distinct'
  BY <1>19 DEF Edit, commandVars
<1>20. ASSUME Rest PROVE Distinct'
  BY <1>20 DEF Rest, vars, diskVars, commandVars, boundVars
<1>21. CASE UNCHANGED vars
  BY <1>21 DEF vars, diskVars, commandVars, boundVars
<1>22. QED
  BY <1>1, <1>2, <1>3, <1>4, <1>5, <1>6, <1>7, <1>8, <1>9, <1>10, <1>11,
     <1>12, <1>13, <1>14, <1>15, <1>16, <1>17, <1>18, <1>19, <1>20, <1>21 DEF
     Next, Prepare, Write, Fail

\* An install plans one hook, and a manifest for the backup there will be.
LEMMA PrepareInstallPlans ==
    ASSUME InstallerIInv, NEW a \in Agent, PrepareInstall(a)
    PROVE  InstallPlanned(a)'
<1>1. /\ settings[a] \in Files /\ backup[a] \in Files /\ manifest[a] \in Manifests
      /\ binary \in Binary /\ withRtk \in BOOLEAN /\ CommandOK
      /\ settings[a] # Empty /\ Backed(a, manifest[a])
  BY DEF InstallerIInv, InstallerInv, TypeOK, DiskOK, CommandOK, PrepareInstall, AtRest,
         NeverEmpty, ManifestBacked
<1>2. /\ plan'[a] = Plan(settings[a], Patch(settings[a]), manifest[a],
                         InstallManifest(a))
      /\ UNCHANGED <<backup, binary, withRtk>>
  BY <1>1 DEF PrepareInstall, Prepared, diskVars, CommandOK
<1>3. /\ plan'[a].original = settings[a] /\ plan'[a].updated = Patch(settings[a])
      /\ plan'[a].new = InstallManifest(a)
  BY <1>2 DEF Plan
<1>4. /\ Patch(settings[a]) \in Files /\ Patch(settings[a]).hooks[binary] = Hook(1, withRtk)
      /\ ~(withRtk /\ Patch(settings[a]).rtk)
  BY <1>1, PatchType
<1>5. /\ InstallManifest(a).installed = Patch(settings[a])
      /\ InstallManifest(a).binary = binary
  BY <1>1 DEF InstallManifest, Manifest, Manifests
<1>6. InstallManifest(a) # NoManifest
  <2>1. Absent.hooks[binary] = NoHook
    BY <1>1, PlainFiles DEF HookFree
  <2>2. Hook(1, withRtk) # NoHook
    BY DEF Hook, NoHook
  <2>3. InstallManifest(a).installed # Absent
    BY <1>4, <1>5, <2>1, <2>2
  <2>4. QED
    BY <2>3, PlainManifest
<1>7. /\ InstallManifest(a).existed <=> InstallManifest(a).original # Empty
      /\ \/ InstallManifest(a).original = Bytes(settings[a]) /\ backup[a] = Absent
         \/ InstallManifest(a).original = backup[a] /\ backup[a] # Absent
  <2>1. CASE manifest[a] # NoManifest
    <3>1. /\ InstallManifest(a).existed = manifest[a].existed
          /\ InstallManifest(a).original = manifest[a].original
      BY <1>1, <2>1 DEF InstallManifest, Manifests
    <3>2. QED
      BY <1>1, <2>1, <3>1 DEF Backed
  <2>2. CASE manifest[a] = NoManifest
    <3>1. /\ InstallManifest(a).existed = (settings[a] # Absent)
          /\ InstallManifest(a).original = Bytes(settings[a])
      BY <2>2 DEF InstallManifest, Manifest
    <3>2. Bytes(settings[a]) # Empty <=> settings[a] # Absent
      BY <1>1 DEF Bytes
    <3>3. backup[a] \in {Absent, Bytes(settings[a])}
      BY <2>2 DEF PrepareInstall, InstallAccepted
    <3>4. QED
      BY <1>1, <3>1, <3>2, <3>3, BytesType
  <2>3. QED
    BY <2>1, <2>2
<1>8. QED
  BY <1>2, <1>3, <1>4, <1>5, <1>6, <1>7 DEF InstallPlanned

\* An uninstall plans the backup, or the settings without the installed hook.
LEMMA PrepareUninstallPlans ==
    ASSUME InstallerIInv, NEW a \in Agent, PrepareUninstall(a)
    PROVE  UninstallPlanned(a)'
<1>1. /\ settings[a] \in Files /\ backup[a] \in Files /\ manifest[a] \in Manifests
      /\ binary \in Binary /\ CommandOK /\ Backed(a, manifest[a])
      /\ settings[a].kind \in {"odd", "sound"}
      /\ backup[a] # Absent => HookFree(backup[a])
  BY DEF InstallerIInv, InstallerInv, TypeOK, DiskOK, CommandOK, PrepareUninstall, AtRest,
         ManifestBacked, OriginalKept, UninstallAccepted
<1>2. /\ plan'[a] = Plan(settings[a], Uninstalled(a), manifest[a], NoManifest)
      /\ UNCHANGED <<backup, binary>>
  BY <1>1 DEF PrepareUninstall, Prepared, diskVars, CommandOK
<1>3. /\ plan'[a].original = settings[a] /\ plan'[a].updated = Uninstalled(a)
      /\ plan'[a].old = manifest[a] /\ plan'[a].new = NoManifest
  BY <1>2 DEF Plan
<1>4. settings[a] # Absent
  BY <1>1, PlainFiles
<1>5. InstalledBinary(a) \in Binary
  BY <1>1 DEF InstalledBinary, Backed
<1>6. settings[a] = manifest[a].installed <=> Untouched(a)
  BY <1>4, PlainManifest DEF Untouched
<1>7. CASE Untouched(a)
  <2>1. Uninstalled(a) = IF backup[a] = Empty THEN Absent ELSE backup[a]
    BY <1>1, <1>7 DEF Uninstalled, Untouched, Backed
  <2>2. HookFree(Uninstalled(a))
    BY <1>1, <1>7, <2>1, PlainFiles DEF Untouched, Backed
  <2>3. QED
    BY <1>2, <1>3, <1>5, <1>6, <1>7, <2>1, <2>2
       DEF UninstallPlanned, InstalledBinary, Restoration, HookFree
<1>8. CASE ~Untouched(a)
  <2>1. Uninstalled(a) = Unpatch(settings[a], InstalledBinary(a))
    BY <1>8 DEF Uninstalled
  <2>2. /\ Unpatch(settings[a], InstalledBinary(a)).hooks[InstalledBinary(a)] = NoHook
        /\ Unpatch(settings[a], InstalledBinary(a)).user = settings[a].user
    <3>1. settings[a] \in Files /\ InstalledBinary(a) \in Binary
      BY <1>1, <1>5
    <3>2. QED
      BY <3>1, UnpatchType
  <2>3. QED
    BY <1>2, <1>3, <1>6, <1>8, <2>1, <2>2 DEF UninstallPlanned, InstalledBinary
<1>9. QED
  BY <1>7, <1>8

\* The plans stay as they are, or are forgotten.
LEMMA PlanSoundKept ==
    ASSUME PlanSound, UNCHANGED <<op, binary, withRtk, order, plan, backup>>
    PROVE  PlanSound'
BY DEF PlanSound, InstallPlanned, UninstallPlanned, Restoration

LEMMA NoPlanSound ==
    ASSUME order' = <<>>
    PROVE  PlanSound'
BY DEF PlanSound

\* The backup of the agent at hand comes.
LEMMA PlanSoundBackedUp ==
    ASSUME InstallerIInv, pc = "backup", UNCHANGED <<op, binary, withRtk, order, plan>>,
           \/ backup' = backup
           \/ /\ backup[Current] = Absent
              /\ backup' = [backup EXCEPT ![Current] = Bytes(plan[Current].original)]
    PROVE  PlanSound'
<1>1. /\ op = "install" /\ Current \in Agent /\ backup \in [Agent -> Files]
      /\ order \in Seq(Agent) /\ PlanSound
      /\ plan[Current].original \in Files
  BY CurrentType DEF InstallerIInv, InstallerInv, TypeOK, DiskOK, CommandOK, Stage, Committing
<1>2. Bytes(plan[Current].original) # Absent
  BY <1>1, BytesType
<1>3. ASSUME NEW i \in 1..Len(order) PROVE InstallPlanned(order[i])'
  <2>1. order[i] \in Agent /\ InstallPlanned(order[i])
    BY <1>1 DEF PlanSound
  <2>2. CASE backup'[order[i]] = backup[order[i]]
    BY <2>1, <2>2 DEF InstallPlanned
  <2>3. CASE backup'[order[i]] # backup[order[i]]
    <3>1. /\ order[i] = Current /\ backup[Current] = Absent
          /\ backup'[Current] = Bytes(plan[Current].original)
      BY <1>1, <2>1, <2>3
    <3>2. plan[Current].new.original = backup'[Current] /\ backup'[Current] # Absent
      BY <1>2, <2>1, <3>1 DEF InstallPlanned
    <3>3. QED
      BY <2>1, <3>1, <3>2 DEF InstallPlanned
  <2>4. QED
    BY <2>2, <2>3
<1>4. QED
  BY <1>1, <1>3 DEF PlanSound

\* What is planned stays right.
LEMMA PlanSoundNext ==
    InstallerIInv /\ [Next]_vars => PlanSound'
<1> SUFFICES ASSUME InstallerIInv, [Next]_vars PROVE PlanSound'
  OBVIOUS
<1>facts. TypeOK /\ CommandOK /\ Stage /\ Distinct /\ PlanSound
  BY DEF InstallerIInv, InstallerInv, TypeOK
<1> USE <1>facts
<1>1. ASSUME NEW command \in {"install", "uninstall"}, NEW l \in AgentLists,
         NEW b \in Binary, NEW rtk \in BOOLEAN,
         Begin(command, l, b, rtk)
      PROVE  PlanSound'
  BY <1>1, NoPlanSound DEF Begin, diskVars, Stage
<1>2. ASSUME NEW a \in Agent, PrepareInstall(a) PROVE PlanSound'
  <2>1. /\ Len(order) \in Nat /\ Len(order') = Len(order) + 1
        /\ \A i \in 1..Len(order) : order'[i] = order[i]
        /\ order'[Len(order) + 1] = a
        /\ 1 \in 1..Len(todo) /\ todo[1] = a
        /\ \A b \in Agent : b # a => plan'[b] = plan[b]
        /\ UNCHANGED <<backup, op, binary, withRtk>>
    BY <1>2, PreparedShape DEF PrepareInstall, diskVars
  <2>2. \A i \in 1..Len(order) : order[i] \in Agent /\ order[i] # a
    BY <2>1 DEF Distinct, CommandOK
  <2>3. InstallPlanned(a)'
    BY <1>2, PrepareInstallPlans
  <2>4. ASSUME NEW i \in 1..Len(order)
        PROVE  InstallPlanned(order[i])'
    <3>1. order[i] \in Agent /\ InstallPlanned(order[i])
      BY <1>2, <2>2 DEF PrepareInstall, PlanSound
    <3>2. plan'[order[i]] = plan[order[i]] /\ order'[i] = order[i]
      BY <2>1, <2>2
    <3>3. QED
      BY <2>1, <3>1, <3>2 DEF InstallPlanned, Restoration
  <2>5. \A i \in 1..Len(order') : i \in 1..Len(order) \/ i = Len(order) + 1
    BY <2>1
  <2>6. QED
    <3>1. ASSUME NEW i \in 1..Len(order') PROVE InstallPlanned(order[i])'
      <4>1. CASE i \in 1..Len(order)
        BY <2>4, <4>1
      <4>2. CASE i = Len(order) + 1
        BY <2>1, <2>3, <4>2
      <4>3. QED
        BY <2>5, <4>1, <4>2
    <3>2. QED
      BY <1>2, <2>1, <3>1 DEF PrepareInstall, PlanSound
<1>3. ASSUME NEW a \in Agent, PrepareUninstall(a) PROVE PlanSound'
  <2>1. /\ Len(order) \in Nat /\ Len(order') = Len(order) + 1
        /\ \A i \in 1..Len(order) : order'[i] = order[i]
        /\ order'[Len(order) + 1] = a
        /\ 1 \in 1..Len(todo) /\ todo[1] = a
        /\ \A b \in Agent : b # a => plan'[b] = plan[b]
        /\ UNCHANGED <<backup, op, binary, withRtk>>
    BY <1>3, PreparedShape DEF PrepareUninstall, diskVars
  <2>2. \A i \in 1..Len(order) : order[i] \in Agent /\ order[i] # a
    BY <2>1 DEF Distinct, CommandOK
  <2>3. UninstallPlanned(a)'
    BY <1>3, PrepareUninstallPlans
  <2>4. ASSUME NEW i \in 1..Len(order)
        PROVE  UninstallPlanned(order[i])'
    <3>1. order[i] \in Agent /\ UninstallPlanned(order[i])
      BY <1>3, <2>2 DEF PrepareUninstall, PlanSound
    <3>2. plan'[order[i]] = plan[order[i]] /\ order'[i] = order[i]
      BY <2>1, <2>2
    <3>3. QED
      BY <2>1, <3>1, <3>2 DEF UninstallPlanned, Restoration
  <2>5. \A i \in 1..Len(order') : i \in 1..Len(order) \/ i = Len(order) + 1
    BY <2>1
  <2>6. QED
    <3>1. ASSUME NEW i \in 1..Len(order') PROVE UninstallPlanned(order[i])'
      <4>1. CASE i \in 1..Len(order)
        BY <2>4, <4>1
      <4>2. CASE i = Len(order) + 1
        BY <2>1, <2>3, <4>2
      <4>3. QED
        BY <2>5, <4>1, <4>2
    <3>2. QED
      BY <1>3, <2>1, <3>1 DEF PrepareUninstall, PlanSound
<1>4. ASSUME NEW a \in Agent, SkipUninstall(a) PROVE PlanSound'
  BY <1>4, PlanSoundKept, NoPlanSound DEF SkipUninstall, diskVars, boundVars
<1>5. ASSUME NEW a \in Agent, Refuse(a) PROVE PlanSound'
  BY <1>5, PlanSoundKept, NoPlanSound DEF Refuse, End, diskVars, boundVars
<1>6. ASSUME ReadFails PROVE PlanSound'
  BY <1>6, PlanSoundKept, NoPlanSound DEF ReadFails, End, Fault, diskVars
<1>7. ASSUME Commit PROVE PlanSound'
  BY <1>7, PlanSoundKept, NoPlanSound DEF Commit, End, diskVars, commandVars,
     boundVars
<1>8. ASSUME BackUp PROVE PlanSound'
  BY <1>8, PlanSoundBackedUp DEF BackUp, Current, commandVars, boundVars
<1>9. ASSUME ApplySettings PROVE PlanSound'
  BY <1>9, PlanSoundKept, NoPlanSound DEF ApplySettings, PutSettings,
     Current, commandVars, boundVars
<1>10. ASSUME ApplyManifest PROVE PlanSound'
  BY <1>10, PlanSoundKept, NoPlanSound DEF ApplyManifest, End, PutManifest,
     Current, boundVars
<1>11. ASSUME UndoSettings PROVE PlanSound'
  BY <1>11, PlanSoundKept, NoPlanSound DEF UndoSettings, PutSettings,
     Current, Blocked, commandVars, boundVars
<1>12. ASSUME UndoManifest PROVE PlanSound'
  BY <1>12, PlanSoundKept, NoPlanSound DEF UndoManifest, End, PutManifest,
     Current, Blocked, boundVars
<1>13. ASSUME BackUpFails PROVE PlanSound'
  BY <1>13, PlanSoundBackedUp DEF BackUpFails, Fault, StartUndo, Current
<1>14. ASSUME ApplySettingsFails PROVE PlanSound'
  BY <1>14, PlanSoundKept, NoPlanSound DEF ApplySettingsFails, Fault,
     PutSettings, StartUndo, Leave, Current
<1>15. ASSUME ApplyManifestFails PROVE PlanSound'
  BY <1>15, PlanSoundKept, NoPlanSound DEF ApplyManifestFails, Fault,
     PutManifest, StartUndo, Leave, Current
<1>16. ASSUME UndoFails PROVE PlanSound'
  BY <1>16, PlanSoundKept, NoPlanSound DEF UndoFails, End, Current, Blocked,
     diskVars, boundVars
<1>17. ASSUME UndoFaults PROVE PlanSound'
  BY <1>17, PlanSoundKept, NoPlanSound DEF UndoFaults, End, Current, boundVars
<1>18. ASSUME Crash PROVE PlanSound'
  BY <1>18, PlanSoundKept, NoPlanSound DEF Crash, End, Fault, diskVars
<1>19. ASSUME NEW a \in Agent, Edit(a) PROVE PlanSound'
  BY <1>19, PlanSoundKept, NoPlanSound DEF Edit, commandVars
<1>20. ASSUME Rest PROVE PlanSound'
  BY <1>20, PlanSoundKept, NoPlanSound DEF Rest, vars, diskVars, commandVars,
     boundVars
<1>21. CASE UNCHANGED vars
  BY <1>21, PlanSoundKept, NoPlanSound DEF vars, diskVars, commandVars,
     boundVars
<1>22. QED
  BY <1>1, <1>2, <1>3, <1>4, <1>5, <1>6, <1>7, <1>8, <1>9, <1>10, <1>11,
     <1>12, <1>13, <1>14, <1>15, <1>16, <1>17, <1>18, <1>19, <1>20, <1>21 DEF
     Next, Prepare, Write, Fail

\* What the invariant says of the i-th agent of the command.
LEMMA AgentOfCommand ==
    ASSUME InstallerIInv, NEW i \in 1..Len(order)
    PROVE  /\ order[i] \in Agent /\ i \in Nat /\ at \in Nat /\ ProgressOf(i)
           /\ op \in {"install", "uninstall"}
           /\ settings \in [Agent -> Files] /\ backup \in [Agent -> Files]
           /\ manifest \in [Agent -> Manifests]
           /\ pc \in Committing \union Undoing =>
                 at \in 1..Len(order) /\ (order[i] = Current <=> i = at)
BY DEF InstallerIInv, InstallerInv, TypeOK, DiskOK, CommandOK, Progress, Distinct, Current

LEMMA NoProgress ==
    ASSUME order' = <<>>
    PROVE  Progress'
BY DEF Progress

\* A command knows what it has done.
LEMMA ProgressNext ==
    InstallerIInv /\ [Next]_vars => Progress'
<1> SUFFICES ASSUME InstallerIInv, [Next]_vars PROVE Progress'
  OBVIOUS
<1>facts. TypeOK /\ CommandOK /\ Stage /\ Distinct /\ Progress
  BY DEF InstallerIInv, InstallerInv, TypeOK
<1> USE <1>facts
<1>1. ASSUME NEW command \in {"install", "uninstall"}, NEW l \in AgentLists,
         NEW b \in Binary, NEW rtk \in BOOLEAN,
         Begin(command, l, b, rtk)
      PROVE  Progress'
  BY <1>1, NoProgress DEF Begin, diskVars, Stage
<1>2. ASSUME NEW a \in Agent, PrepareInstall(a) PROVE Progress'
  <2>1. /\ Len(order) \in Nat /\ Len(order') = Len(order) + 1
        /\ \A i \in 1..Len(order) : order'[i] = order[i]
        /\ order'[Len(order) + 1] = a
        /\ 1 \in 1..Len(todo) /\ todo[1] = a
        /\ plan'[a].original = settings[a] /\ plan'[a].old = manifest[a]
        /\ \A b \in Agent : b # a => plan'[b] = plan[b]
        /\ UNCHANGED <<settings, backup, manifest, pc, op, at, edited>>
    BY <1>2, PreparedShape DEF PrepareInstall, diskVars, Plan
  <2>2. \A i \in 1..Len(order) : order[i] # a
    BY <2>1 DEF Distinct
  <2>3. ASSUME NEW i \in 1..Len(order') PROVE ProgressOf(i)'
    <3>1. CASE i \in 1..Len(order)
      <4>1. order'[i] = order[i] /\ plan'[order[i]] = plan[order[i]]
        BY <2>1, <2>2, <3>1, AgentOfCommand
      <4>2. QED
        BY <2>1, <3>1, <4>1, AgentOfCommand
           DEF ProgressOf, SettingsDone, SettingsOpen, ManifestDone, ManifestOpen,
               BackupDone
    <3>2. CASE i = Len(order) + 1
      BY <1>2, <2>1, <3>2
         DEF PrepareInstall, ProgressOf, SettingsDone, SettingsOpen, ManifestDone,
             ManifestOpen, BackupDone, Committing, Undoing
    <3>3. QED
      BY <2>1, <3>1, <3>2
  <2>4. QED
    BY <2>3 DEF Progress
<1>3. ASSUME NEW a \in Agent, PrepareUninstall(a) PROVE Progress'
  <2>1. /\ Len(order) \in Nat /\ Len(order') = Len(order) + 1
        /\ \A i \in 1..Len(order) : order'[i] = order[i]
        /\ order'[Len(order) + 1] = a
        /\ 1 \in 1..Len(todo) /\ todo[1] = a
        /\ plan'[a].original = settings[a] /\ plan'[a].old = manifest[a]
        /\ \A b \in Agent : b # a => plan'[b] = plan[b]
        /\ UNCHANGED <<settings, backup, manifest, pc, op, at, edited>>
    BY <1>3, PreparedShape DEF PrepareUninstall, diskVars, Plan
  <2>2. \A i \in 1..Len(order) : order[i] # a
    BY <2>1 DEF Distinct
  <2>3. ASSUME NEW i \in 1..Len(order') PROVE ProgressOf(i)'
    <3>1. CASE i \in 1..Len(order)
      <4>1. order'[i] = order[i] /\ plan'[order[i]] = plan[order[i]]
        BY <2>1, <2>2, <3>1, AgentOfCommand
      <4>2. QED
        BY <2>1, <3>1, <4>1, AgentOfCommand
           DEF ProgressOf, SettingsDone, SettingsOpen, ManifestDone, ManifestOpen,
               BackupDone
    <3>2. CASE i = Len(order) + 1
      BY <1>3, <2>1, <3>2
         DEF PrepareUninstall, ProgressOf, SettingsDone, SettingsOpen, ManifestDone,
             ManifestOpen, BackupDone, Committing, Undoing
    <3>3. QED
      BY <2>1, <3>1, <3>2
  <2>4. QED
    BY <2>3 DEF Progress
<1>4. ASSUME NEW a \in Agent, SkipUninstall(a) PROVE Progress'
  <2>1. ASSUME NEW i \in 1..Len(order) PROVE order' = order /\ ProgressOf(i)'
    BY <1>4, <2>1, AgentOfCommand DEF SkipUninstall, diskVars, boundVars,
       ProgressOf, SettingsDone, SettingsOpen, ManifestDone, ManifestOpen,
       BackupDone, Committing, Undoing
  <2>2. QED
    BY <1>4, <2>1 DEF Progress, SkipUninstall, diskVars, boundVars
<1>5. ASSUME NEW a \in Agent, Refuse(a) PROVE Progress'
  BY <1>5, NoProgress DEF Refuse, End, diskVars, boundVars
<1>6. ASSUME ReadFails PROVE Progress'
  BY <1>6, NoProgress DEF ReadFails, End, Fault, diskVars
<1>7. ASSUME Commit PROVE Progress'
  <2>1. CASE order' = <<>>
    BY <2>1, NoProgress
  <2>2. CASE order' # <<>>
    <3>0. at = 1 /\ order # <<>> /\ op \in {"install", "uninstall"}
      BY <1>7, <2>2 DEF Commit, CommandOK, End
    <3>1. ASSUME NEW i \in 1..Len(order) PROVE order' = order /\ ProgressOf(i)'
      BY <1>7, <2>2, <3>0, <3>1, AgentOfCommand DEF Commit, End, diskVars,
         commandVars, boundVars, ProgressOf, SettingsDone, SettingsOpen,
         ManifestDone, ManifestOpen, BackupDone, Committing, Undoing
    <3>2. QED
      BY <1>7, <2>2, <3>1 DEF Progress, Commit, End, diskVars, commandVars,
         boundVars
  <2>3. QED
    BY <2>1, <2>2
<1>8. ASSUME BackUp PROVE Progress'
  <2>0. Bytes(plan[Current].original) # Absent /\ Current \in Agent
    BY <1>8, AtHand, BytesType DEF BackUp, Committing, CommandOK, Plans
  <2>1. ASSUME NEW i \in 1..Len(order) PROVE order' = order /\ ProgressOf(i)'
    BY <1>8, <2>0, <2>1, AgentOfCommand DEF BackUp, commandVars, boundVars,
       ProgressOf, SettingsDone, SettingsOpen, ManifestDone, ManifestOpen,
       BackupDone, Committing, Undoing
  <2>2. QED
    BY <1>8, <2>1 DEF Progress, BackUp, commandVars, boundVars
<1>9. ASSUME ApplySettings PROVE Progress'
  <2>1. ASSUME NEW i \in 1..Len(order) PROVE order' = order /\ ProgressOf(i)'
    BY <1>9, <2>1, AgentOfCommand DEF ApplySettings, PutSettings, commandVars,
       boundVars, ProgressOf, SettingsDone, SettingsOpen, ManifestDone,
       ManifestOpen, BackupDone, Committing, Undoing
  <2>2. QED
    BY <1>9, <2>1 DEF Progress, ApplySettings, PutSettings, commandVars,
       boundVars
<1>10. ASSUME ApplyManifest PROVE Progress'
  <2>1. CASE order' = <<>>
    BY <2>1, NoProgress
  <2>2. CASE order' # <<>>
    <3>1. ASSUME NEW i \in 1..Len(order) PROVE order' = order /\ ProgressOf(i)'
      BY <1>10, <2>2, <3>1, AgentOfCommand DEF ApplyManifest, End, PutManifest,
         boundVars, ProgressOf, SettingsDone, SettingsOpen, ManifestDone,
         ManifestOpen, BackupDone, Committing, Undoing
    <3>2. QED
      BY <1>10, <2>2, <3>1 DEF Progress, ApplyManifest, End, PutManifest,
         boundVars
  <2>3. QED
    BY <2>1, <2>2
<1>11. ASSUME UndoSettings PROVE Progress'
  <2>1. ASSUME NEW i \in 1..Len(order) PROVE order' = order /\ ProgressOf(i)'
    BY <1>11, <2>1, AgentOfCommand DEF UndoSettings, PutSettings, Blocked,
       commandVars, boundVars, ProgressOf, SettingsDone, SettingsOpen,
       ManifestDone, ManifestOpen, BackupDone, Committing, Undoing
  <2>2. QED
    BY <1>11, <2>1 DEF Progress, UndoSettings, PutSettings, Blocked, commandVars,
       boundVars
<1>12. ASSUME UndoManifest PROVE Progress'
  <2>1. CASE order' = <<>>
    BY <2>1, NoProgress
  <2>2. CASE order' # <<>>
    <3>1. ASSUME NEW i \in 1..Len(order) PROVE order' = order /\ ProgressOf(i)'
      BY <1>12, <2>2, <3>1, AgentOfCommand DEF UndoManifest, End, PutManifest,
         Blocked, boundVars, ProgressOf, SettingsDone, SettingsOpen,
         ManifestDone, ManifestOpen, BackupDone, Committing, Undoing
    <3>2. QED
      BY <1>12, <2>2, <3>1 DEF Progress, UndoManifest, End, PutManifest, Blocked,
         boundVars
  <2>3. QED
    BY <2>1, <2>2
<1>13. ASSUME BackUpFails PROVE Progress'
  <2>1. ASSUME NEW i \in 1..Len(order) PROVE order' = order /\ ProgressOf(i)'
    BY <1>13, <2>1, AgentOfCommand DEF BackUpFails, Fault, StartUndo, ProgressOf,
       SettingsDone, SettingsOpen, ManifestDone, ManifestOpen, BackupDone,
       Committing, Undoing
  <2>2. QED
    BY <1>13, <2>1 DEF Progress, BackUpFails, Fault, StartUndo
<1>14. ASSUME ApplySettingsFails PROVE Progress'
  <2>1. ASSUME NEW i \in 1..Len(order) PROVE order' = order /\ ProgressOf(i)'
    BY <1>14, <2>1, AgentOfCommand DEF ApplySettingsFails, Fault, PutSettings,
       StartUndo, Leave, ProgressOf, SettingsDone, SettingsOpen,
       ManifestDone, ManifestOpen, BackupDone, Committing, Undoing
  <2>2. QED
    BY <1>14, <2>1 DEF Progress, ApplySettingsFails, Fault, PutSettings,
       StartUndo, Leave
<1>15. ASSUME ApplyManifestFails PROVE Progress'
  <2>1. ASSUME NEW i \in 1..Len(order) PROVE order' = order /\ ProgressOf(i)'
    BY <1>15, <2>1, AgentOfCommand DEF ApplyManifestFails, Fault, PutManifest,
       StartUndo, Leave, ProgressOf, SettingsDone, SettingsOpen,
       ManifestDone, ManifestOpen, BackupDone, Committing, Undoing
  <2>2. QED
    BY <1>15, <2>1 DEF Progress, ApplyManifestFails, Fault, PutManifest,
       StartUndo, Leave
<1>16. ASSUME UndoFails PROVE Progress'
  BY <1>16, NoProgress DEF UndoFails, End, Current, Blocked, diskVars,
     boundVars
<1>17. ASSUME UndoFaults PROVE Progress'
  BY <1>17, NoProgress DEF UndoFaults, End, Current, boundVars
<1>18. ASSUME Crash PROVE Progress'
  BY <1>18, NoProgress DEF Crash, End, Fault, diskVars
<1>19. ASSUME NEW a \in Agent, Edit(a) PROVE Progress'
  <2>0. ASSUME NEW i \in 1..Len(order) PROVE pc \notin AtRest
    BY <2>0 DEF Stage
  <2>1. ASSUME NEW i \in 1..Len(order) PROVE order' = order /\ ProgressOf(i)'
    BY <1>19, <2>0, <2>1, AgentOfCommand DEF Edit, commandVars, ProgressOf,
       SettingsDone, SettingsOpen, ManifestDone, ManifestOpen, BackupDone,
       Committing, Undoing
  <2>2. QED
    BY <1>19, <2>1 DEF Progress, Edit, commandVars
<1>20. ASSUME Rest PROVE Progress'
  <2>1. ASSUME NEW i \in 1..Len(order) PROVE order' = order /\ ProgressOf(i)'
    BY <1>20, <2>1, AgentOfCommand DEF Rest, vars, diskVars, commandVars,
       boundVars, ProgressOf, SettingsDone, SettingsOpen, ManifestDone,
       ManifestOpen, BackupDone, Committing, Undoing
  <2>2. QED
    BY <1>20, <2>1 DEF Progress, Rest, vars, diskVars, commandVars, boundVars
<1>21. CASE UNCHANGED vars
  <2>1. ASSUME NEW i \in 1..Len(order) PROVE order' = order /\ ProgressOf(i)'
    BY <1>21, <2>1, AgentOfCommand DEF vars, diskVars, commandVars, boundVars,
       ProgressOf, SettingsDone, SettingsOpen, ManifestDone, ManifestOpen,
       BackupDone, Committing, Undoing
  <2>2. QED
    BY <1>21, <2>1 DEF Progress, vars, diskVars, commandVars, boundVars
<1>22. QED
  BY <1>1, <1>2, <1>3, <1>4, <1>5, <1>6, <1>7, <1>8, <1>9, <1>10, <1>11,
     <1>12, <1>13, <1>14, <1>15, <1>16, <1>17, <1>18, <1>19, <1>20, <1>21 DEF
     Next, Prepare, Write, Fail

LEMMA InstallerInvInit == Init => InstallerIInv
<1> SUFFICES ASSUME Init PROVE InstallerIInv
  OBVIOUS
<1>1. TypeOK
  BY TypeOKInit
<1>2. \A a \in Agent : /\ backup[a] = Absent /\ manifest[a] = NoManifest
                       /\ plan[a] = NoPlan /\ settings[a] \in Fresh
  BY DEF Init
<1>3. \A f \in Fresh : HookFree(f) /\ f # Empty
  <2>1. /\ HookFree(File("sound", 1, TRUE, FALSE, NoHooks))
        /\ File("sound", 1, TRUE, FALSE, NoHooks).kind = "sound"
    BY NoHooksType DEF File, HookFree
  <2>2. QED
    BY <2>1, PlainFiles DEF Fresh
<1>4. OriginalKept /\ NeverEmpty
  BY <1>2, <1>3, PlainFiles, PlainManifest DEF OriginalKept, NeverEmpty
<1>5. ManifestBacked
  BY <1>2, PlainManifest DEF ManifestBacked, Backed
<1>6. PlanSound /\ Distinct /\ Progress /\ Stage
  BY DEF Init, PlanSound, Distinct, Progress, Stage, AtRest, Committing, Undoing
<1>7. QED
  BY <1>1, <1>4, <1>5, <1>6 DEF InstallerIInv, InstallerInv

---------------------------------------------------------------------------
(* The theorems                                                            *)

\* The settings, backups, manifests and plans fit their types at every moment.
THEOREM InstallerTypeCorrect == Spec => []TypeOK
<1>1. Init => TypeOK
  BY TypeOKInit
<1>2. TypeOK /\ [Next]_vars => TypeOK'
  BY TypeOKNext
<1>3. QED
  BY <1>1, <1>2, PTL DEF Spec

\* Types and InstallerInv are kept by every step, together.
THEOREM InstallerInductive == Spec => []InstallerIInv
<1>1. Init => InstallerIInv
  BY InstallerInvInit
<1>2. InstallerIInv /\ [Next]_vars => InstallerIInv'
  <2>1. InstallerIInv => TypeOK
    BY DEF InstallerIInv, InstallerInv
  <2>2. InstallerIInv' <=> /\ TypeOK' /\ OriginalKept' /\ ManifestBacked'
                          /\ NeverEmpty' /\ PlanSound' /\ Distinct'
                          /\ Progress' /\ Stage'
    BY DEF InstallerIInv, InstallerInv
  <2>3. QED
    BY <2>1, <2>2, TypeOKNext, OriginalKeptNext, ManifestBackedNext,
       NeverEmptyNext, PlanSoundNext, DistinctNext, ProgressNext, StageNext
<1>3. QED
  BY <1>1, <1>2, PTL DEF Spec

\* Wherever a command is killed or fails: what the user had before the first
\* hook came is in the backup, and the manifest describes that backup.
THEOREM InstallerSafe == Spec => []InstallerInv
<1>1. InstallerIInv => InstallerInv
  BY DEF InstallerIInv
<1>2. QED
  BY <1>1, InstallerInductive, PTL

\* A command is over when the manifest of its last agent is written.
LEMMA CommandDone ==
    ASSUME InstallerIInv, Next, pc = "manifest", pc' = "done"
    PROVE  /\ ApplyManifest /\ at = Len(order)
           /\ \A a \in Agent : Alone(a) =>
                 settings'[a] = plan[a].updated /\ manifest'[a] = plan[a].new
<1>1. ApplyManifest
  BY DEF Next, Prepare, Write, Fail, Rest, Begin, PrepareInstall, PrepareUninstall,
         SkipUninstall, Refuse, ReadFails, Commit, BackUp, ApplySettings,
         UndoSettings, UndoManifest, BackUpFails, ApplySettingsFails,
         ApplyManifestFails, UndoFails, UndoFaults, Crash, Edit, End, StartUndo,
         AtRest
<1>2. at = Len(order)
  BY <1>1 DEF ApplyManifest
<1>3. ASSUME NEW a \in Agent, Alone(a)
      PROVE  settings'[a] = plan[a].updated /\ manifest'[a] = plan[a].new
  <2>1. PICK i \in 1..Len(order) : order[i] = a
    BY <1>3 DEF Alone
  <2>2. a \notin edited /\ pc \in Committing
    BY <1>3 DEF Alone, Committing
  <2>3. settings[a] = plan[a].updated
    BY <1>2, <2>1, <2>2, AgentOfCommand DEF ProgressOf, SettingsDone
  <2>4. i = at \/ manifest[a] = plan[a].new
    BY <1>2, <2>1, <2>2, AgentOfCommand DEF ProgressOf, ManifestDone
  <2>5. manifest \in [Agent -> Manifests] /\ (a = Current <=> i = at)
    BY <2>1, <2>2, AgentOfCommand
  <2>6. QED
    BY <1>1, <2>3, <2>4, <2>5 DEF ApplyManifest, PutManifest
<1>4. QED
  BY <1>1, <1>2, <1>3

\* An install that succeeds has left one hook of this binary in each agent,
\* and a manifest that describes it, whatever happened before.
THEOREM InstallIsEffective == Spec => InstallEffective
<1> DEFINE Effective(a) ==
      /\ settings'[a].hooks[binary] = Hook(1, withRtk)
      /\ ~(withRtk /\ settings'[a].rtk)
      /\ manifest'[a].installed = settings'[a]
      /\ manifest'[a].original = backup'[a]
<1> DEFINE Step ==
      (op = "install" /\ pc = "manifest" /\ pc' = "done") =>
          \A a \in Agent : Alone(a) => Effective(a)
<1>1. InstallerIInv /\ [Next]_vars => [Step]_vars
  <2> SUFFICES ASSUME InstallerIInv, Next, op = "install", pc = "manifest",
                      pc' = "done", NEW a \in Agent, Alone(a)
               PROVE  Effective(a)
    OBVIOUS
  <2>1. /\ ApplyManifest /\ at = Len(order)
        /\ settings'[a] = plan[a].updated /\ manifest'[a] = plan[a].new
    BY CommandDone
  <2>2. PICK i \in 1..Len(order) : order[i] = a
    BY DEF Alone
  <2>3. InstallPlanned(a)
    BY <2>2 DEF InstallerIInv, InstallerInv, PlanSound
  <2>4. backup[a] # Absent /\ backup' = backup
    BY <2>1, <2>2, AgentOfCommand
       DEF ProgressOf, BackupDone, Committing, ApplyManifest
  <2>5. QED
    BY <2>1, <2>3, <2>4 DEF InstallPlanned
<1>2. QED
  BY <1>1, InstallerInductive, PTL DEF Spec, InstallEffective

\* An uninstall that succeeds has taken the installed hook out, and given
\* settings that nobody has changed back as they were.
THEOREM UninstallIsEffective == Spec => UninstallEffective
<1> DEFINE Effective(a) ==
      LET old == plan[a].old
          installed == IF old = NoManifest THEN binary ELSE old.binary
      IN  /\ manifest'[a] = NoManifest
          /\ settings'[a].hooks[installed] = NoHook
          /\ IF plan[a].original = old.installed
             THEN settings'[a] = IF backup[a] = Empty THEN Absent
                                 ELSE backup[a]
             ELSE settings'[a].user = plan[a].original.user
<1> DEFINE Step ==
      (op = "uninstall" /\ pc = "manifest" /\ pc' = "done") =>
          \A a \in Agent : Alone(a) => Effective(a)
<1>1. InstallerIInv /\ [Next]_vars => [Step]_vars
  <2> SUFFICES ASSUME InstallerIInv, Next, op = "uninstall", pc = "manifest",
                      pc' = "done", NEW a \in Agent, Alone(a)
               PROVE  Effective(a)
    OBVIOUS
  <2>1. settings'[a] = plan[a].updated /\ manifest'[a] = plan[a].new
    BY CommandDone
  <2>2. PICK i \in 1..Len(order) : order[i] = a
    BY DEF Alone
  <2>3. UninstallPlanned(a)
    BY <2>2 DEF InstallerIInv, InstallerInv, PlanSound
  <2>4. QED
    BY <2>1, <2>3 DEF UninstallPlanned, Restoration
<1>2. QED
  BY <1>1, InstallerInductive, PTL DEF Spec, UninstallEffective

\* A command that fails after it has begun to write, and can undo all it has
\* written, leaves everything as it found it.
THEOREM RollbackIsComplete == Spec => RollbackRestores
<1> DEFINE Step ==
      (pc \in Undoing /\ pc' = "failed") =>
          \A a \in Agent : Alone(a) => Restored(a)
<1>1. InstallerIInv /\ [Next]_vars => [Step]_vars
  <2> SUFFICES ASSUME InstallerIInv, Next, pc \in Undoing, pc' = "failed",
                      NEW a \in Agent, Alone(a)
               PROVE  Restored(a)
    OBVIOUS
  <2>1. UndoManifest
    BY DEF Next, Prepare, Write, Fail, Rest, Begin, PrepareInstall,
           PrepareUninstall, SkipUninstall, Refuse, ReadFails, Commit, BackUp,
           ApplySettings, ApplyManifest, UndoSettings, BackUpFails,
           ApplySettingsFails, ApplyManifestFails, UndoFails, UndoFaults, Crash,
           Edit, End, StartUndo, AtRest, Undoing
  <2>2. at = 1 /\ pc = "undo_manifest"
    BY <2>1 DEF UndoManifest
  <2>3. PICK i \in 1..Len(order) : order[i] = a
    BY DEF Alone
  <2>4. a \notin edited
    BY DEF Alone
  <2>5. settings[a] = plan[a].original
    BY <2>2, <2>3, <2>4, AgentOfCommand DEF ProgressOf, SettingsOpen, Undoing
  <2>6. i = at \/ manifest[a] = plan[a].old
    BY <2>2, <2>3, AgentOfCommand DEF ProgressOf, ManifestOpen, Undoing
  <2>7. manifest \in [Agent -> Manifests] /\ (a = Current <=> i = at)
    BY <2>3, AgentOfCommand
  <2>8. QED
    BY <2>1, <2>5, <2>6, <2>7 DEF UndoManifest, PutManifest, Restored
<1>2. QED
  BY <1>1, InstallerInductive, PTL DEF Spec, RollbackRestores
=============================================================================
