----------------------------- MODULE HookProofs -----------------------------
(***************************************************************************)
(* The theorems about the hook, for every call, every configuration and    *)
(* every answer of RTK: nothing of RTK is left over, its verdict is passed *)
(* on, heavy commands are governed, and nothing else is changed.           *)
(***************************************************************************)
EXTENDS HookInvariants, ShellProofs

---------------------------------------------------------------------------
(* invoke                                                                  *)

LEMMA RtkInvInit == ASSUME NEW first \in {"idle", "spawn"}, RtkInit(first)
                    PROVE  RtkInv
BY DEF RtkInit, RtkInv, RtkTypeOK, Steps, ChildCollected, GroupKilled,
       OutputRead, VerdictEarned

\* The steps of invoke, of the reading thread, of RTK and of the clocks.
LEMMA RtkInvNext == ASSUME RtkInv, RtkNext PROVE RtkInv'
<1> USE DEF RtkInv, RtkTypeOK, Steps, ChildCollected, GroupKilled, OutputRead,
            VerdictEarned, Goto, Return, Sent, callVars
<1>1. CASE Spawn
  BY <1>1 DEF Spawn
<1>2. CASE SpawnFails
  BY <1>2 DEF SpawnFails
<1>3. CASE Wait
  BY <1>3 DEF Wait
<1>4. CASE WaitExpires
  BY <1>4 DEF WaitExpires
<1>5. CASE Kill
  BY <1>5 DEF Kill, KillGroup
<1>6. CASE Reap
  BY <1>6 DEF Reap
<1>7. CASE Receive
  BY <1>7 DEF Receive
<1>8. CASE ReceiveExpires
  BY <1>8 DEF ReceiveExpires, KillGroup
<1>9. CASE Join
  <2>1. PICK d \in {"preserve", "deny", "rewrite", "ask"} :
           /\ Return("join", d)
           /\ d # "preserve" => output # "error"
    BY <1>9 DEF Join, Codes, Decisions
  <2>2. reader = "ended" /\ UNCHANGED <<child, helper, pipe, reader, output>>
    BY <1>9 DEF Join
  <2>3. QED
    BY <2>1, <2>2
<1>10. CASE FinishReceive
  BY <1>10 DEF FinishReceive
<1>11. CASE FinishExpires
  BY <1>11 DEF FinishExpires
<1>12. CASE FinishJoin
  BY <1>12 DEF FinishJoin
<1>13. CASE EndOfFile
  BY <1>13 DEF EndOfFile
<1>14. CASE ReadFails
  BY <1>14 DEF ReadFails
<1>15. CASE HelperStarts
  BY <1>15 DEF HelperStarts
<1>16. CASE ChildEnds
  BY <1>16 DEF ChildEnds
<1>17. CASE HelperEnds
  BY <1>17 DEF HelperEnds
<1>18. ASSUME NEW who \in {"child", "helper"}, Close(who) PROVE RtkInv'
  BY <1>18 DEF Close
<1>19. CASE TimeElapses
  BY <1>19 DEF TimeElapses
<1>20. CASE GraceElapses
  BY <1>20 DEF GraceElapses
<1> HIDE DEF RtkInv
<1>21. QED
  BY <1>1, <1>2, <1>3, <1>4, <1>5, <1>6, <1>7, <1>8, <1>9, <1>10, <1>11,
     <1>12, <1>13, <1>14, <1>15, <1>16, <1>17, <1>18, <1>19, <1>20
  DEF RtkNext, Invoke, RtkProcess, Clock

LEMMA RtkInvStutters == ASSUME RtkInv, UNCHANGED rtkVars PROVE RtkInv'
BY DEF RtkInv, RtkTypeOK, ChildCollected, GroupKilled, OutputRead,
       VerdictEarned, Sent, rtkVars, callVars

LEMMA RtkInvLeavesNothing == RtkInv => NothingLeft
BY DEF RtkInv, ChildCollected, GroupKilled, OutputRead, NothingLeft, Sent

(***************************************************************************)
(* A call of RTK by itself, whoever makes it.                              *)
(***************************************************************************)
THEOREM RtkInvariant == RtkSpec => [](RtkInv /\ NothingLeft)
<1>1. RtkInit("spawn") => RtkInv
  BY RtkInvInit
<1>2. RtkInv /\ [RtkNext]_rtkVars => RtkInv'
  BY RtkInvNext, RtkInvStutters
<1>3. QED
  BY <1>1, <1>2, RtkInvLeavesNothing, PTL DEF RtkSpec

---------------------------------------------------------------------------
(* handle                                                                  *)

\* While the call itself does not change, neither does the reply to it.
LEMMA ReplyUnchanged ==
    ASSUME UNCHANGED <<request, config, candidate, permission>>
    PROVE  /\ Pass' = Pass /\ Deny' = Deny /\ Error' = Error
           /\ Reply(Fallback(Governed(candidate)))'
                = Reply(Fallback(Governed(candidate)))
BY DEF Pass, Deny, Error, Reply, Fallback, Governed, Update, Permission

LEMMA NestingUnchanged ==
    ASSUME verdict' = verdict, request' = request
    PROVE  RtkNestsTooDeep' = RtkNestsTooDeep
BY DEF RtkNestsTooDeep

LEMMA ReplyKinds ==
    /\ Pass.kind = "pass" /\ Deny.kind = "deny" /\ Error.kind = "error"
    /\ \A outcome : Reply(outcome).kind \in {"pass", "deny", "update"}
BY DEF Pass, Deny, Error, Reply, Update

LEMMA HookInvInit == Init => HookInv
<1> SUFFICES ASSUME Init PROVE HookInv
  OBVIOUS
<1>1. RtkInv
  BY RtkInvInit DEF Init
<1>2. [request |-> request, config |-> config] \in Calls
  BY CallsAssumption DEF Init, CallType
<1>3. TypeOK
  BY <1>1, <1>2 DEF Init, TypeOK, RtkInv, NoReply
<1>4. Consultation /\ CandidateChecked /\ ReplyExplained
  BY DEF Init, RtkInit, Consultation, CandidateChecked, ReplyExplained
<1>5. QED
  BY <1>1, <1>3, <1>4 DEF HookInv

LEMMA TakeCallKeeps == ASSUME HookInv, TakeCall PROVE HookInv'
<1>1. pc = "receive" /\ RtkInv /\ TypeOK /\ Consultation /\ CandidateChecked
  BY DEF HookInv, TakeCall
<1>2. ASSUME Answer(Pass) \/ Answer(Error), request.foreign \/ ~Answer(Pass),
             request.line.syntax = "deep" \/ ~Answer(Error), UNCHANGED rtkVars
      PROVE  HookInv'
  <2>1. UNCHANGED <<request, config, candidate, permission>>
        /\ pc' = "done" /\ reply' \in {Pass, Error}
    BY <1>2 DEF Answer
  <2>2. RtkInv'
    BY <1>1, <1>2, RtkInvStutters
  <2>3. TypeOK'
    BY <1>1, <2>1, <2>2, ReplyKinds DEF TypeOK, RtkInv
  <2>4. Consultation' /\ CandidateChecked'
    BY <1>1, <1>2, <2>1 DEF Consultation, CandidateChecked, rtkVars, callVars
  <2>5. step = "idle" /\ verdict = "none" /\ verdict' = verdict
    BY <1>1, <1>2 DEF Consultation, RtkInv, VerdictEarned, rtkVars, callVars
  <2>6. candidate = request.line
    BY <1>1 DEF CandidateChecked
  <2>7. ReplyExplained'
    BY <1>2, <2>1, <2>5, <2>6, ReplyUnchanged DEF ReplyExplained, Answer
  <2>8. QED
    BY <2>2, <2>3, <2>4, <2>7 DEF HookInv
<1>3. ASSUME ~request.foreign, pc' = IF config.rtk THEN "consult" ELSE "govern",
             step' = IF config.rtk THEN "spawn" ELSE step,
             UNCHANGED <<request, config, candidate, permission, reply>>,
             UNCHANGED <<verdict, child, helper, pipe, reader, output, late, graceOver>>
      PROVE  HookInv'
  <2>1. step = "idle" /\ verdict = "none"
    BY <1>1 DEF Consultation, RtkInv, VerdictEarned
  <2>2. RtkInv'
    BY <1>1, <1>3, <2>1
    DEF RtkInv, RtkTypeOK, Steps, ChildCollected, GroupKilled, OutputRead,
        VerdictEarned, Sent
  <2>3. pc' \in {"consult", "govern"}
    BY <1>3
  <2>4. TypeOK'
    BY <1>1, <1>3, <2>2, <2>3 DEF TypeOK, RtkInv
  <2>5. Consultation' /\ CandidateChecked' /\ ReplyExplained'
    BY <1>1, <1>3, <2>1, <2>3 DEF Consultation, CandidateChecked, ReplyExplained
  <2>6. QED
    BY <2>2, <2>4, <2>5 DEF HookInv
<1>4. ASSUME request.foreign, Answer(Pass), UNCHANGED rtkVars PROVE HookInv'
  <2>1. ~Answer(Error)
    BY <1>4, ReplyKinds DEF Answer
  <2>2. QED
    BY <1>2, <1>4, <2>1
<1>5. ASSUME request.line.syntax = "deep", Answer(Error), UNCHANGED rtkVars
      PROVE  HookInv'
  <2>1. ~Answer(Pass)
    BY <1>5, ReplyKinds DEF Answer
  <2>2. QED
    BY <1>2, <1>5, <2>1
<1>6. QED
  BY <1>3, <1>4, <1>5 DEF TakeCall

LEMMA ConsultKeeps == ASSUME HookInv, Consult PROVE HookInv'
<1>1. pc = "consult" /\ step # "returned" /\ UNCHANGED hookVars
  BY DEF Consult
<1>2. RtkInv /\ RtkInv'
  BY RtkInvNext DEF HookInv, Consult
<1>3. TypeOK'
  BY <1>1, <1>2 DEF HookInv, TypeOK, RtkInv, hookVars
<1>4. verdict = "none" /\ candidate = request.line /\ permission = "preserve"
      /\ step # "idle" /\ ~request.foreign
  BY <1>1, <1>2 DEF HookInv, Consultation, CandidateChecked, RtkInv,
                    VerdictEarned, TypeOK
<1>5. step' # "idle"
  BY <1>1, <1>4 DEF Consult, RtkNext, Invoke, RtkProcess, Clock,
     Spawn, SpawnFails, Wait, WaitExpires, Kill, Reap, Receive, ReceiveExpires,
     Join, FinishReceive, FinishExpires, FinishJoin, EndOfFile, ReadFails,
     HelperStarts, ChildEnds, HelperEnds, Close, TimeElapses, GraceElapses,
     Goto, Return, callVars
<1>6. Consultation' /\ CandidateChecked' /\ ReplyExplained'
  BY <1>1, <1>4, <1>5 DEF Consultation, CandidateChecked, ReplyExplained, hookVars
<1>7. QED
  BY <1>2, <1>3, <1>6 DEF HookInv

LEMMA ConsultedKeeps == ASSUME HookInv, Consulted PROVE HookInv'
<1>1. /\ pc = "consult" /\ step = "returned" /\ UNCHANGED rtkVars
      /\ ~request.foreign /\ candidate = request.line /\ permission = "preserve"
      /\ verdict # "none" /\ RtkInv /\ TypeOK
  BY DEF HookInv, Consulted, Consultation, CandidateChecked, RtkInv,
         VerdictEarned, TypeOK
<1>2. RtkInv' /\ step' = step /\ verdict' = verdict
  BY <1>1, RtkInvStutters DEF rtkVars, callVars
<1>3. ASSUME verdict = "deny", Answer(Deny) PROVE HookInv'
  <2>1. UNCHANGED <<request, config, candidate, permission>>
        /\ pc' = "done" /\ reply' = Deny
    BY <1>3 DEF Answer
  <2>2. TypeOK'
    BY <1>1, <1>2, <2>1, ReplyKinds DEF TypeOK, RtkInv
  <2>3. Consultation' /\ CandidateChecked' /\ ReplyExplained'
    BY <1>1, <1>2, <1>3, <2>1, ReplyUnchanged
    DEF Consultation, CandidateChecked, ReplyExplained
  <2>4. QED
    BY <1>2, <2>2, <2>3 DEF HookInv
<1>4. ASSUME RtkNestsTooDeep, Answer(Error) PROVE HookInv'
  <2>1. UNCHANGED <<request, config, candidate, permission>>
        /\ pc' = "done" /\ reply' = Error
    BY <1>4 DEF Answer
  <2>2. TypeOK'
    BY <1>1, <1>2, <2>1, ReplyKinds DEF TypeOK, RtkInv
  <2>3. RtkNestsTooDeep' /\ verdict # "deny"
    BY <1>2, <1>4, <2>1, NestingUnchanged DEF RtkNestsTooDeep
  <2>4. Consultation' /\ CandidateChecked' /\ ReplyExplained'
    BY <1>1, <1>2, <2>1, <2>3, ReplyUnchanged
    DEF Consultation, CandidateChecked, ReplyExplained
  <2>5. QED
    BY <1>2, <2>2, <2>4 DEF HookInv
<1>5. ASSUME verdict # "deny", pc' = "govern",
             UNCHANGED <<request, config, candidate, permission, reply>>
      PROVE  HookInv'
  <2>1. TypeOK'
    BY <1>1, <1>2, <1>5 DEF TypeOK, RtkInv
  <2>2. Consultation' /\ CandidateChecked' /\ ReplyExplained'
    BY <1>1, <1>2, <1>5 DEF Consultation, CandidateChecked, ReplyExplained
  <2>3. QED
    BY <1>2, <2>1, <2>2 DEF HookInv
<1>6. ASSUME NEW command \in RtkOutputs(request.line),
             verdict \in {"rewrite", "ask"}, pc' = "govern",
             RewritePreservesStructure(request.line, command, config.rules),
             candidate' = command,
             permission' = IF verdict = "ask" THEN "ask" ELSE permission,
             UNCHANGED <<request, config, reply>>
      PROVE  HookInv'
  <2>1. RtkOutputs(request.line)' = RtkOutputs(request.line)
    BY <1>6
  <2>2. TypeOK'
    BY <1>1, <1>2, <1>6, <2>1 DEF TypeOK, RtkInv
  <2>3. Consultation' /\ CandidateChecked' /\ ReplyExplained'
    BY <1>1, <1>2, <1>6 DEF Consultation, CandidateChecked, ReplyExplained
  <2>4. QED
    BY <1>2, <2>2, <2>3 DEF HookInv
<1>7. ASSUME verdict \in {"rewrite", "ask"}, NEW command \in RtkOutputs(request.line),
             command.syntax = "deep", Answer(Error)
      PROVE  HookInv'
  <2>1. RtkNestsTooDeep
    BY <1>7 DEF RtkNestsTooDeep
  <2>2. QED
    BY <1>4, <1>7, <2>1
<1>8. QED
  BY <1>3, <1>5, <1>6, <1>7 DEF Consulted

LEMMA ConcludeKeeps == ASSUME HookInv, Conclude PROVE HookInv'
<1>1. /\ pc = "govern" /\ UNCHANGED rtkVars
      /\ UNCHANGED <<request, config, candidate, permission>>
      /\ pc' = "done" /\ reply' = Reply(Fallback(Governed(candidate)))
      /\ ~request.foreign /\ verdict # "deny"
  BY DEF HookInv, Conclude, Answer, Consultation
<1>2. RtkInv' /\ step' = step /\ verdict' = verdict
  BY <1>1, RtkInvStutters DEF HookInv, rtkVars, callVars
<1>3. TypeOK'
  BY <1>1, <1>2, ReplyKinds DEF HookInv, TypeOK, RtkInv
<1>4. Consultation' /\ CandidateChecked' /\ ReplyExplained'
  BY <1>1, <1>2, ReplyUnchanged
  DEF HookInv, Consultation, CandidateChecked, ReplyExplained
<1>5. QED
  BY <1>2, <1>3, <1>4 DEF HookInv

LEMMA HookInvStutters == ASSUME HookInv, UNCHANGED vars PROVE HookInv'
<1>1. RtkInv' /\ step' = step /\ verdict' = verdict
  BY RtkInvStutters DEF HookInv, vars, rtkVars, callVars
<1>2. UNCHANGED <<pc, request, config, candidate, permission, reply>>
  BY DEF vars, hookVars
<1>3. TypeOK'
  BY <1>1, <1>2 DEF HookInv, TypeOK, RtkInv
<1>4. Consultation' /\ CandidateChecked' /\ ReplyExplained'
  BY <1>1, <1>2, ReplyUnchanged, NestingUnchanged
  DEF HookInv, Consultation, CandidateChecked, ReplyExplained
<1>5. QED
  BY <1>1, <1>3, <1>4 DEF HookInv

(***************************************************************************)
(* HookInv is inductive: where each reply of handle came from.             *)
(***************************************************************************)
THEOREM HookInvariant == Spec => []HookInv
<1>1. HookInv /\ [Next]_vars => HookInv'
  BY TakeCallKeeps, ConsultKeeps, ConsultedKeeps, ConcludeKeeps, HookInvStutters
  DEF Next
<1>2. QED
  BY <1>1, HookInvInit, PTL DEF Spec

(***************************************************************************)
(* invoke never returns over a process of RTK it has not collected, leaves *)
(* nobody of the group it gave up on, and never joins a thread that reads. *)
(***************************************************************************)
THEOREM NothingLeftHolds == Spec => []NothingLeft
<1>1. HookInv => NothingLeft
  BY RtkInvLeavesNothing DEF HookInv
<1>2. QED
  BY <1>1, HookInvariant, PTL

LEMMA HookInvHonours == HookInv => VerdictHonoured
<1> SUFFICES ASSUME HookInv, pc = "done"
             PROVE  /\ verdict = "deny" => reply.kind = "deny"
                    /\ verdict = "ask" /\ candidate # request.line =>
                            \/ reply.kind = "deny"
                            \/ reply.kind = "update" /\ reply.permission = "ask"
                    /\ reply.kind = "update" /\ request.host = "cursor" =>
                            reply.permission = "ask"
                    /\ candidate # request.line =>
                            output = "whole" /\ pipe = {}
  BY DEF VerdictHonoured
<1>1. candidate # request.line => output = "whole" /\ pipe = {}
  BY DEF HookInv, CandidateChecked, RtkInv, VerdictEarned, OutputRead
<1>2. request.foreign => verdict = "none" /\ candidate = request.line
  BY DEF HookInv, Consultation, CandidateChecked, RtkInv, VerdictEarned
<1>3. \A outcome : Reply(outcome).kind = "update" =>
          Reply(outcome).permission = Permission
  BY DEF Reply, Update, Deny, Pass
<1>4. verdict = "ask" /\ candidate # request.line =>
          permission = "ask" /\ Permission = "ask"
  BY DEF HookInv, CandidateChecked, Permission
<1>5. permission = "ask" => \A outcome : Reply(outcome).kind \in {"deny", "update"}
  BY DEF Reply, Update, Deny
<1>6. request.host = "cursor" => Permission = "ask"
  BY DEF Permission
<1>7. QED
  BY <1>1, <1>2, <1>3, <1>4, <1>5, <1>6, ReplyKinds DEF HookInv, ReplyExplained

(***************************************************************************)
(* No host gets less restrictive by RTK, and only an answer that was read  *)
(* to its end, of an RTK that ended in time, is used.                      *)
(***************************************************************************)
THEOREM VerdictHonouredHolds == Spec => []VerdictHonoured
BY HookInvHonours, HookInvariant, PTL

---------------------------------------------------------------------------
(* The lines that are answered                                             *)

\* The words of RTK's own, and the operators it may put.
LEMMA OutputsAreLines ==
    ASSUME NEW line \in CommandLine
    PROVE  RtkOutputs(line) \subseteq LinesOf(STRING \cup {"rtk", "&&", "&"})
<1> DEFINE More == STRING \cup {"rtk", "&&", "&"}
           Seg == [words : Seq(More), sep : More, hidden : BOOLEAN]
<1>1. line \in LinesOf(More) /\ StrayLines \subseteq LinesOf(More)
  BY MoreWords, CallsAssumption DEF CommandLine
<1>2. /\ line.segs \in Seq(Seg) /\ line.syntax \in {"plain", "odd", "deep"}
      /\ DOMAIN line.segs = 1 .. Len(line.segs) /\ Len(line.segs) \in Nat
      /\ \A i \in DOMAIN line.segs : line.segs[i] \in Seg
      /\ line = [syntax |-> line.syntax, segs |-> line.segs]
  <2>1. line = [syntax |-> line.syntax, segs |-> line.segs]
    BY <1>1 DEF LinesOf
  <2>2. QED
    BY <1>1, <2>1, LineFields
<1>3. "rtk" \in More /\ "&&" \in More /\ "&" \in More
  OBVIOUS
<1> HIDE DEF More
<1>4. ASSUME NEW words \in Seq(More), NEW i \in 1 .. Len(words) + 1
      PROVE  InsertRtk(words, i) \in Seq(More)
  <2>1. Len(words) \in Nat
    BY LenProperties
  <2>2. SubSeq(words, 1, i - 1) \in Seq(More) /\ SubSeq(words, i, Len(words)) \in Seq(More)
    BY <2>1
  <2>3. <<"rtk">> \in Seq(More)
    BY <1>3
  <2>4. QED
    BY <2>2, <2>3, ConcatProperties DEF InsertRtk
<1>5. ASSUME NEW segs \in [DOMAIN line.segs -> Seg]
      PROVE  [line EXCEPT !.segs = segs] \in LinesOf(More)
  <2> HIDE DEF Seg
  <2>1. segs \in Seq(Seg)
    BY <1>2, SeqDef
  <2> USE DEF Seg
  <2>2. QED
    BY <1>2, <2>1 DEF LinesOf
<1>6. ASSUME NEW i \in DOMAIN line.segs
      PROVE  /\ Program(line.segs[i].words) \in 1 .. Len(line.segs[i].words) + 1
             /\ line.segs[i].words \in Seq(More)
             /\ 1 \in 1 .. Len(line.segs[i].words) + 1
  <2>1. line.segs[i].words \in Seq(More)
    BY <1>2
  <2>2. QED
    BY <2>1, ProgramPlace, LenProperties
<1> DEFINE Called(i) == [line.segs[i] EXCEPT !.words = InsertRtk(@, Program(@))]
           Segs(S) == [i \in DOMAIN line.segs |-> IF i \in S THEN Called(i) ELSE line.segs[i]]
           Prefix(S) == [line EXCEPT !.segs = Segs(S)]
<1>7. \A i \in DOMAIN line.segs : Called(i) \in Seg
  BY <1>2, <1>4, <1>6
<1>8. \A S : Segs(S) \in [DOMAIN line.segs -> Seg]
  BY <1>2, <1>7
<1>9. ASSUME NEW S \in SUBSET DOMAIN line.segs PROVE Prefix(S) \in LinesOf(More)
  BY <1>5, <1>8
<1>10. ASSUME NEW i \in DOMAIN line.segs, NEW sep \in {"&&", "&"}
       PROVE  [Prefix(DOMAIN line.segs) EXCEPT !.segs[i].sep = sep] \in LinesOf(More)
  <2> DEFINE segs == Segs(DOMAIN line.segs)
  <2>1. segs \in [DOMAIN line.segs -> Seg]
    BY <1>8
  <2> HIDE DEF segs
  <2>2. [segs EXCEPT ![i].sep = sep] \in [DOMAIN line.segs -> Seg]
    BY <1>3, <2>1
  <2>3. [line EXCEPT !.segs = [segs EXCEPT ![i].sep = sep]] \in LinesOf(More)
    BY <1>5, <2>2
  <2>4. [Prefix(DOMAIN line.segs) EXCEPT !.segs[i].sep = sep]
           = [line EXCEPT !.segs = [segs EXCEPT ![i].sep = sep]]
    BY <1>2 DEF segs
  <2>5. QED
    BY <2>3, <2>4
<1>11. ASSUME NEW i \in DOMAIN line.segs
       PROVE  [line EXCEPT !.segs[i].words = InsertRtk(@, 1)] \in LinesOf(More)
  <2> DEFINE segs == [line.segs EXCEPT ![i].words = InsertRtk(@, 1)]
  <2>1. InsertRtk(line.segs[i].words, 1) \in Seq(More)
    BY <1>4, <1>6
  <2>2. segs \in [DOMAIN line.segs -> Seg]
    BY <1>2, <2>1
  <2>3. [line EXCEPT !.segs = segs] \in LinesOf(More)
    BY <1>5, <2>2
  <2>4. [line EXCEPT !.segs[i].words = InsertRtk(@, 1)] = [line EXCEPT !.segs = segs]
    BY <1>2
  <2>5. QED
    BY <2>3, <2>4
<1> DEFINE Prefixed == {Prefix(S) : S \in SUBSET DOMAIN line.segs}
           Rejoin(i, sep) == [Prefix(DOMAIN line.segs) EXCEPT !.segs[i].sep = sep]
           Rejoined == {Rejoin(i, sep) : i \in DOMAIN line.segs, sep \in {"&&", "&"}}
           Displaced == {[line EXCEPT !.segs[i].words = InsertRtk(@, 1)] :
                           i \in DOMAIN line.segs}
<1>12. RtkOutputs(line) = StrayLines \cup Prefixed \cup Rejoined \cup Displaced
  BY DEF RtkOutputs
<1> HIDE DEF Prefix
<1>13. Prefixed \subseteq LinesOf(More)
  BY <1>9
<1>14. Rejoined \subseteq LinesOf(More)
  <2>1. \A i \in DOMAIN line.segs, sep \in {"&&", "&"} : Rejoin(i, sep) \in LinesOf(More)
    BY <1>10, Zenon
  <2> HIDE DEF Rejoin
  <2>2. QED
    BY <2>1
<1>15. Displaced \subseteq LinesOf(More)
  BY <1>11, Zenon
<1> HIDE DEF Prefixed, Rejoined, Displaced
<1>16. RtkOutputs(line) \subseteq LinesOf(More)
  BY <1>1, <1>12, <1>13, <1>14, <1>15
<1>17. QED
  BY <1>16 DEF More

---------------------------------------------------------------------------
(* What may become of the agent's words                                    *)

LEMMA RtkPrefixStripped ==
    ASSUME NEW Word, NEW before \in Seq(Word), NEW More, NEW after \in Seq(More),
           AddsOnlyRtkPrefix(before, after)
    PROVE  before \in WithoutRtk(after)
<1> DEFINE k == Program(before)
<1>1. k \in 1 .. Len(before) + 1 /\ Len(before) \in Nat /\ Len(after) \in Nat
  BY ProgramPlace, LenProperties
<1>2. Len(after) = Len(before) + 1 /\ Basename(after[k]) = "rtk"
      /\ RemoveAt(after, k) = before
  BY DEF AddsOnlyRtkPrefix
<1> HIDE DEF k
<1>3. k \in {j \in 1 .. Len(after) : Basename(after[j]) = "rtk"}
  BY <1>1, <1>2
<1>4. Without(after, k, 1) = before
  BY <1>2 DEF RemoveAt, Without
<1>5. QED
  BY <1>3, <1>4 DEF WithoutRtk

LEMMA GovernorStripped ==
    ASSUME NEW Word, NEW words \in Seq(Word)
    PROVE  words \in Ungoverned(Govern(words))
<1> DEFINE More == Word \cup {Governor, "run", "--"}
           k == Program(words)
           g == Govern(words)
<1>1. k \in 1 .. Len(words) + 1 /\ Len(words) \in Nat
  BY ProgramPlace, LenProperties
<1>2. /\ g \in Seq(More) /\ Len(g) = Len(words) + 3
      /\ \A i \in 1 .. k - 1 : g[i] = words[i]
      /\ g[k] = Governor /\ g[k + 1] = "run" /\ g[k + 2] = "--"
      /\ \A i \in k .. Len(words) : g[i + 3] = words[i]
  BY GovernedWords
<1>3. words \in Seq(More)
  BY SeqMonotonic
<1> HIDE DEF More, k, g
<1>4. SubSeq(g, 1, k - 1) = SubSeq(words, 1, k - 1)
  <2>1. /\ SubSeq(g, 1, k - 1) \in Seq(More) /\ Len(SubSeq(g, 1, k - 1)) = k - 1
        /\ \A i \in 1 .. k - 1 : SubSeq(g, 1, k - 1)[i] = g[i]
    BY <1>1, <1>2
  <2>2. /\ SubSeq(words, 1, k - 1) \in Seq(More) /\ Len(SubSeq(words, 1, k - 1)) = k - 1
        /\ \A i \in 1 .. k - 1 : SubSeq(words, 1, k - 1)[i] = words[i]
    BY <1>1, <1>3
  <2>3. QED
    BY <1>2, <2>1, <2>2, SeqEqual
<1>5. SubSeq(g, k + 3, Len(g)) = SubSeq(words, k, Len(words))
  <2> DEFINE n == Len(words) - k + 1
  <2>1. n \in Nat
    BY <1>1
  <2>2. /\ SubSeq(g, k + 3, Len(g)) \in Seq(More) /\ Len(SubSeq(g, k + 3, Len(g))) = n
        /\ \A i \in 1 .. n : SubSeq(g, k + 3, Len(g))[i] = g[k + 3 + i - 1]
    BY <1>1, <1>2
  <2>3. /\ SubSeq(words, k, Len(words)) \in Seq(More) /\ Len(SubSeq(words, k, Len(words))) = n
        /\ \A i \in 1 .. n : SubSeq(words, k, Len(words))[i] = words[k + i - 1]
    BY <1>1, <1>3
  <2>4. ASSUME NEW i \in 1 .. n PROVE g[k + 3 + i - 1] = words[k + i - 1]
    <3>1. PICK j \in k .. Len(words) : j = k + i - 1 /\ j + 3 = k + 3 + i - 1
      BY <1>1
    <3>2. g[j + 3] = words[j]
      BY <1>2
    <3>3. QED
      BY <3>1, <3>2
  <2> DEFINE left == SubSeq(g, k + 3, Len(g))
             right == SubSeq(words, k, Len(words))
  <2> HIDE DEF n
  <2>5. /\ left \in Seq(More) /\ right \in Seq(More)
        /\ Len(left) = n /\ Len(right) = n
        /\ \A i \in 1 .. n : left[i] = right[i]
    BY <2>2, <2>3, <2>4
  <2> HIDE DEF left, right
  <2>6. left = right
    BY <2>5, SeqEqual
  <2>7. QED
    BY <2>6 DEF left, right
<1>6. Without(g, k, 3) = SubSeq(words, 1, k - 1) \o SubSeq(words, k, Len(words))
  BY <1>4, <1>5 DEF Without
<1>7. SubSeq(words, 1, k - 1) \o SubSeq(words, k, Len(words)) = words
  <2>1. SubSeq(words, 1, k - 1) \o SubSeq(words, (k - 1) + 1, Len(words))
           = SubSeq(words, 1, Len(words))
    <3>1. 1 \in 1 .. Len(words) + 1 /\ k - 1 \in 1 - 1 .. Len(words)
          /\ Len(words) \in k - 1 .. Len(words)
      BY <1>1
    <3>2. QED
      BY <3>1, ConcatAdjacentSubSeq
  <2>2. (k - 1) + 1 = k /\ SubSeq(words, 1, Len(words)) = words
    BY <1>1, SubSeqFull
  <2>3. QED
    BY <2>1, <2>2
<1>8. k \in {j \in 1 .. Len(g) - 2 :
               g[j] = Governor /\ g[j + 1] = "run" /\ g[j + 2] = "--"}
  BY <1>1, <1>2
<1>9. words \in Ungoverned(g)
  BY <1>6, <1>7, <1>8 DEF Ungoverned
<1>10. QED
  BY <1>9 DEF g

\* The line is the agent's, but for calls of RTK that change no class.
Follows(original, line, rules) ==
    /\ line.syntax = original.syntax
    /\ Len(line.segs) = Len(original.segs)
    /\ \A i \in DOMAIN original.segs :
          LET before == original.segs[i]
              after  == line.segs[i]
          IN  /\ after.sep = before.sep /\ after.hidden = before.hidden
              /\ before.words \in WithoutRtk(after.words)
              /\ ~before.hidden =>
                    SegmentClass(before, rules) = SegmentClass(after, rules)

LEMMA FollowsItself == ASSUME NEW line, NEW rules PROVE Follows(line, line, rules)
BY DEF Follows, WithoutRtk

LEMMA CheckedFollows ==
    ASSUME NEW Word, NEW original \in LinesOf(Word),
           NEW More, NEW answer \in LinesOf(More), NEW rules,
           RewritePreservesStructure(original, answer, rules)
    PROVE  Follows(original, answer, rules)
<1>1. CASE original = answer
  BY <1>1, FollowsItself
<1>2. CASE original # answer
  <2>1. /\ answer.syntax = original.syntax
        /\ Len(answer.segs) = Len(original.segs)
        /\ \A i \in DOMAIN original.segs :
              LET before == original.segs[i]
                  after  == answer.segs[i]
              IN  /\ after.sep = before.sep /\ after.hidden = before.hidden
                  /\ before.hidden => after.words = before.words
                  /\ ~before.hidden =>
                        /\ SegmentClass(before, rules) = SegmentClass(after, rules)
                        /\ AddsOnlyRtkPrefix(before.words, after.words)
    BY <1>2, CheckedLine
  <2>2. ASSUME NEW i \in DOMAIN original.segs
        PROVE  original.segs[i].words \in WithoutRtk(answer.segs[i].words)
    <3>1. /\ original.segs[i].words \in Seq(Word) /\ original.segs[i].hidden \in BOOLEAN
          /\ answer.segs[i].words \in Seq(More)
      <4>1. i \in DOMAIN answer.segs
        BY <2>1, LineFields
      <4>2. original.segs[i] \in [words : Seq(Word), sep : Word, hidden : BOOLEAN]
        BY LineFields
      <4>3. answer.segs[i] \in [words : Seq(More), sep : More, hidden : BOOLEAN]
        BY <4>1, LineFields
      <4>4. QED
        BY <4>2, <4>3
    <3>2. CASE original.segs[i].hidden
      BY <2>1, <3>2 DEF WithoutRtk
    <3>3. CASE ~original.segs[i].hidden
      BY <2>1, <3>1, <3>3, RtkPrefixStripped
    <3>4. QED
      BY <3>1, <3>2, <3>3
  <2>3. QED
    BY <2>1, <2>2 DEF Follows
<1>3. QED
  BY <1>1, <1>2

\* It has the agent's segments of each class.
LEMMA FollowerClasses ==
    ASSUME NEW Word, NEW original \in LinesOf(Word),
           NEW More, NEW line \in LinesOf(More), NEW rules,
           Follows(original, line, rules)
    PROVE  /\ Visible(line) = Visible(original)
           /\ Supported(line) <=> Supported(original)
           /\ \A S : WithClass(line, S, rules) = WithClass(original, S, rules)
<1>1. DOMAIN line.segs = DOMAIN original.segs
  BY LineFields DEF Follows
<1>2. Visible(line) = Visible(original)
  BY <1>1 DEF Visible, Follows
<1>3. \A i \in Visible(original) :
         SegmentClass(line.segs[i], rules) = SegmentClass(original.segs[i], rules)
  BY DEF Visible, Follows
<1>4. Supported(line) <=> Supported(original)
  BY <1>2 DEF Supported, Follows
<1>5. ASSUME NEW S PROVE WithClass(line, S, rules) = WithClass(original, S, rules)
  BY <1>2, <1>3 DEF WithClass
<1>6. QED
  BY <1>2, <1>4, <1>5

\* What Outcome makes of a line.
LEMMA OutcomeLine ==
    ASSUME NEW Word, NEW line \in LinesOf(Word), NEW heavy
    PROVE  LET out == Outcome(line, heavy).line IN
           /\ ~Outcome(line, heavy).denied
           /\ out.syntax = line.syntax
           /\ Len(out.segs) = Len(line.segs) /\ DOMAIN out.segs = DOMAIN line.segs
           /\ \A i \in DOMAIN line.segs :
                 /\ out.segs[i].sep = line.segs[i].sep
                 /\ out.segs[i].hidden = line.segs[i].hidden
                 /\ i \in heavy => out.segs[i].words = Govern(line.segs[i].words)
                 /\ i \notin heavy => out.segs[i].words = line.segs[i].words
<1> DEFINE segs == [i \in DOMAIN line.segs |->
                IF i \in heavy
                THEN [line.segs[i] EXCEPT !.words = Govern(@)]
                ELSE line.segs[i]]
           out == [line EXCEPT !.segs = segs]
<1>1. Outcome(line, heavy).line = out /\ ~Outcome(line, heavy).denied
  BY DEF Outcome
<1>2. out.syntax = line.syntax /\ out.segs = segs
  BY DEF LinesOf
<1>3. DOMAIN segs = 1 .. Len(line.segs) /\ Len(line.segs) \in Nat
      /\ DOMAIN line.segs = 1 .. Len(line.segs)
  BY LineFields
<1>4. Len(segs) = Len(line.segs)
  BY <1>3
<1>5. \A i \in DOMAIN line.segs :
         line.segs[i] \in [words : Seq(Word), sep : Word, hidden : BOOLEAN]
  BY LineFields
<1>6. \A i \in DOMAIN line.segs :
         /\ segs[i].sep = line.segs[i].sep /\ segs[i].hidden = line.segs[i].hidden
         /\ i \in heavy => segs[i].words = Govern(line.segs[i].words)
         /\ i \notin heavy => segs[i].words = line.segs[i].words
  BY <1>5
<1> HIDE DEF segs, out
<1>7. QED
  BY <1>1, <1>2, <1>3, <1>4, <1>6
\* The line runs what the agent's line runs, under the governor where that
\* is due.
Runs(original, line, rules) ==
    /\ line.syntax = original.syntax
    /\ Len(line.segs) = Len(original.segs)
    /\ \A i \in DOMAIN original.segs :
          LET before == original.segs[i]
              after  == line.segs[i]
          IN  /\ after.sep = before.sep /\ after.hidden = before.hidden
              /\ \/ before.words \in WithoutRtk(after.words)
                 \/ \E words \in Ungoverned(after.words) :
                        before.words \in WithoutRtk(words)
              /\ Supported(original) /\ ~before.hidden =>
                    IF SegmentClass(before, rules) = "heavy"
                    THEN AlreadyWrapped(after.words)
                    ELSE before.words \in WithoutRtk(after.words)

\* Rewrite denies for the agent's own segments, and otherwise governs its
\* heavy ones and changes no other.
LEMMA RewrittenLine ==
    ASSUME NEW Word, NEW original \in LinesOf(Word),
           NEW More, NEW line \in LinesOf(More), NEW rules, NEW deny,
           Follows(original, line, rules)
    PROVE  LET outcome == Rewrite(line, rules, deny) IN
           /\ outcome.denied <=>
                 /\ deny /\ Supported(original)
                 /\ WithClass(original, {"unsafe-background-heavy"}, rules) # {}
           /\ ~outcome.denied => Runs(original, outcome.line, rules)
<1> DEFINE outcome == Rewrite(line, rules, deny)
           heavy   == ToGovern(line, rules)
           refuse  == /\ deny /\ Supported(original)
                      /\ WithClass(original, {"unsafe-background-heavy"}, rules) # {}
           out     == Outcome(line, heavy).line
<1>1. outcome = IF refuse THEN Refused(line, rules) ELSE Outcome(line, heavy)
  BY FollowerClasses DEF Rewrite
<1>2. Refused(line, rules).denied
  BY DEF Refused
<1>3. /\ ~Outcome(line, heavy).denied
      /\ out.syntax = line.syntax
      /\ Len(out.segs) = Len(line.segs) /\ DOMAIN out.segs = DOMAIN line.segs
      /\ \A i \in DOMAIN line.segs :
            /\ out.segs[i].sep = line.segs[i].sep
            /\ out.segs[i].hidden = line.segs[i].hidden
            /\ i \in heavy => out.segs[i].words = Govern(line.segs[i].words)
            /\ i \notin heavy => out.segs[i].words = line.segs[i].words
  BY OutcomeLine
<1> HIDE DEF outcome, out, refuse
<1>4. DOMAIN line.segs = DOMAIN original.segs
  BY LineFields DEF Follows
<1>5. ASSUME NEW i \in DOMAIN original.segs
      PROVE  LET before == original.segs[i]
                 after  == out.segs[i]
             IN  /\ after.sep = before.sep /\ after.hidden = before.hidden
                 /\ \/ before.words \in WithoutRtk(after.words)
                    \/ \E words \in Ungoverned(after.words) :
                           before.words \in WithoutRtk(words)
                 /\ Supported(original) /\ ~before.hidden =>
                       IF SegmentClass(before, rules) = "heavy"
                       THEN AlreadyWrapped(after.words)
                       ELSE before.words \in WithoutRtk(after.words)
  <2> DEFINE before == original.segs[i]
             middle == line.segs[i]
             after  == out.segs[i]
  <2>1. /\ middle.sep = before.sep /\ middle.hidden = before.hidden
        /\ before.words \in WithoutRtk(middle.words)
        /\ ~before.hidden => SegmentClass(before, rules) = SegmentClass(middle, rules)
    BY DEF Follows
  <2>2. /\ after.sep = middle.sep /\ after.hidden = middle.hidden
        /\ i \in heavy => after.words = Govern(middle.words)
        /\ i \notin heavy => after.words = middle.words
    BY <1>3, <1>4
  <2>3. middle.words \in Seq(More)
    <3>1. middle \in [words : Seq(More), sep : More, hidden : BOOLEAN]
      BY <1>4, LineFields
    <3>2. QED
      BY <3>1
  <2>4. i \in heavy <=> /\ Supported(original) /\ ~before.hidden
                        /\ SegmentClass(before, rules) = "heavy"
    <3>1. Supported(line) <=> Supported(original)
      BY FollowerClasses
    <3>2. SegmentClass(middle, rules) = "heavy" => ~AlreadyWrapped(middle.words)
      BY WrappedIsLight DEF SegmentClass, PlacedClass
    <3>3. i \in heavy <=> /\ Supported(line) /\ ~middle.hidden
                          /\ SegmentClass(middle, rules) = "heavy"
                          /\ ~AlreadyWrapped(middle.words)
      BY <1>4 DEF ToGovern, WithClass, Visible
    <3>4. QED
      BY <2>1, <3>1, <3>2, <3>3
  <2> HIDE DEF before, middle, after, heavy
  <2>5. CASE i \in heavy
    <3>1. middle.words \in Ungoverned(after.words)
      BY <2>2, <2>3, <2>5, GovernorStripped
    <3>2. AlreadyWrapped(after.words)
      BY <2>2, <2>3, <2>5, GovernIsRecognised
    <3>3. QED
      BY <2>1, <2>2, <2>4, <2>5, <3>1, <3>2 DEF before, after
  <2>6. CASE i \notin heavy
    BY <2>1, <2>2, <2>4, <2>6 DEF before, after
  <2>7. QED
    BY <2>5, <2>6
<1>6. Runs(original, out, rules)
  BY <1>3, <1>5 DEF Runs, Follows
<1>7. QED
  BY <1>1, <1>2, <1>3, <1>6 DEF outcome, out, refuse

\* The line of the call, and what the hook goes on with.
LEMMA HookLines ==
    ASSUME HookInv
    PROVE  /\ request.line \in LinesOf(STRING)
           /\ request.timeout \in Nat
           /\ Follows(request.line, request.line, config.rules)
           /\ \E More : candidate \in LinesOf(More)
           /\ Follows(request.line, candidate, config.rules)
<1>1. [request |-> request, config |-> config] \in CallType
  BY CallsAssumption DEF HookInv, TypeOK
<1>2. request.line \in CommandLine /\ request.timeout \in Nat
  BY <1>1 DEF CallType
<1>3. Follows(request.line, request.line, config.rules)
  BY FollowsItself
<1>4. request.line \in LinesOf(STRING)
  BY <1>2 DEF CommandLine
<1>5. CASE candidate = request.line
  BY <1>2, <1>3, <1>4, <1>5
<1>6. CASE candidate # request.line
  <2>1. candidate \in RtkOutputs(request.line)
    BY <1>6 DEF HookInv, TypeOK
  <2>2. candidate \in LinesOf(STRING \cup {"rtk", "&&", "&"})
    BY <1>2, <2>1, OutputsAreLines
  <2>3. RewritePreservesStructure(request.line, candidate, config.rules)
    BY <1>6 DEF HookInv, CandidateChecked
  <2>4. Follows(request.line, candidate, config.rules)
    BY <1>4, <2>2, <2>3, CheckedFollows
  <2>5. QED
    BY <1>2, <1>3, <1>4, <2>2, <2>4
<1>7. QED
  BY <1>5, <1>6

\* What is governed in the end was made from the agent's line or from the
\* candidate, and either way it runs what the agent asked for.
LEMMA ChosenOutcome ==
    ASSUME HookInv
    PROVE  LET outcome == Fallback(Governed(candidate)) IN
           /\ outcome.denied <=>
                 /\ config.denyBackground /\ Supported(request.line)
                 /\ WithClass(request.line, {"unsafe-background-heavy"}, config.rules) # {}
           /\ ~outcome.denied => Runs(request.line, outcome.line, config.rules)
<1> DEFINE Good(outcome) ==
               /\ outcome.denied <=>
                     /\ config.denyBackground /\ Supported(request.line)
                     /\ WithClass(request.line, {"unsafe-background-heavy"}, config.rules) # {}
               /\ ~outcome.denied => Runs(request.line, outcome.line, config.rules)
<1>1. Good(Governed(candidate))
  BY HookLines, RewrittenLine DEF Governed
<1>2. Good(Governed(request.line))
  BY HookLines, RewrittenLine DEF Governed
<1>3. Fallback(Governed(candidate)) \in {Governed(candidate), Governed(request.line)}
  BY DEF Fallback
<1> HIDE DEF Good
<1>4. Good(Fallback(Governed(candidate)))
  BY <1>1, <1>2, <1>3
<1>5. QED
  BY <1>4 DEF Good

LEMMA HookInvInserts == HookInv => OnlyInsertions
<1> SUFFICES ASSUME HookInv, pc = "done" PROVE OnlyInsertions
  BY DEF OnlyInsertions
<1>1. request.timeout \in Nat /\ TimeoutFloor \in Nat
  BY HookLines, FloorAssumption
<1>2. CASE reply.line = request.line /\ reply.timeout = request.timeout
  BY <1>1, <1>2 DEF OnlyInsertions, WithoutRtk
<1>3. ASSUME NEW outcome, ~outcome.denied, reply = Update(outcome.line, outcome.heavySegments > 0),
             Runs(request.line, outcome.line, config.rules)
      PROVE  OnlyInsertions
  <2>1. reply.line = outcome.line
    BY <1>3 DEF Update
  <2>2. reply.timeout >= request.timeout
    <3>1. reply.timeout = request.timeout \/ reply.timeout = Raised(request.timeout)
      BY <1>3 DEF Update
    <3>2. QED
      BY <1>1, <3>1 DEF Raised
  <2>3. QED
    BY <1>3, <2>1, <2>2 DEF Runs, OnlyInsertions
<1>4. CASE reply \in {Pass, Deny, Error}
  <2>1. reply.line = request.line /\ reply.timeout = request.timeout
    BY <1>4 DEF Pass, Deny, Error
  <2>2. QED
    BY <1>2, <2>1
<1>5. CASE reply = Reply(Fallback(Governed(candidate)))
  <2> DEFINE outcome == Fallback(Governed(candidate))
  <2>1. outcome.denied \/ Runs(request.line, outcome.line, config.rules)
    BY ChosenOutcome
  <2> HIDE DEF outcome
  <2>2. \/ reply \in {Pass, Deny}
        \/ ~outcome.denied /\ reply = Update(outcome.line, outcome.heavySegments > 0)
    BY <1>5 DEF Reply, outcome
  <2>3. QED
    BY <1>3, <1>4, <2>1, <2>2
<1>6. QED
  BY <1>4, <1>5 DEF HookInv, ReplyExplained

(***************************************************************************)
(* Whatever RTK answers, the line that is answered is the agent's line but *)
(* for the governor's prefix and one call of RTK in each segment.          *)
(***************************************************************************)
THEOREM OnlyInsertionsHolds == Spec => []OnlyInsertions
BY HookInvInserts, HookInvariant, PTL

LEMMA HookInvGoverns == HookInv => HeavyGoverned
<1> DEFINE rules  == config.rules
           unsafe == WithClass(request.line, {"unsafe-background-heavy"}, rules)
           outcome == Fallback(Governed(candidate))
<1> SUFFICES ASSUME HookInv, Judged, verdict # "deny",
                    ~(reply.kind = "error" /\ RtkNestsTooDeep)
             PROVE  IF config.denyBackground /\ unsafe # {} THEN reply.kind = "deny"
                    ELSE /\ reply.kind # "deny"
                         /\ \A i \in Visible(request.line) :
                                LET before == request.line.segs[i]
                                    after  == reply.line.segs[i]
                                IN  IF SegmentClass(before, rules) = "heavy"
                                    THEN AlreadyWrapped(after.words)
                                    ELSE before.words \in WithoutRtk(after.words)
  BY DEF HeavyGoverned, Governs
<1>1. /\ Supported(request.line) /\ pc = "done" /\ ~request.foreign
      /\ request.line.syntax # "deep"
  BY DEF Judged, Supported
<1>2. reply = Reply(outcome)
  BY <1>1, ReplyKinds DEF HookInv, ReplyExplained
<1>3. /\ outcome.denied <=> config.denyBackground /\ unsafe # {}
      /\ ~outcome.denied => Runs(request.line, outcome.line, rules)
  BY <1>1, ChosenOutcome
<1> HIDE DEF outcome
<1>4. CASE outcome.denied
  <2>1. reply.kind = "deny"
    BY <1>2, <1>4, ReplyKinds DEF Reply
  <2>2. QED
    BY <1>3, <1>4, <2>1
<1>5. CASE ~outcome.denied
  <2>1. reply.line = outcome.line /\ reply.kind # "deny"
    BY <1>2, <1>5 DEF Reply, Pass, Update
  <2>2. \A i \in Visible(request.line) : i \in DOMAIN request.line.segs /\ ~request.line.segs[i].hidden
    BY DEF Visible
  <2>3. QED
    BY <1>1, <1>3, <1>5, <2>1, <2>2 DEF Runs
<1>6. QED
  BY <1>4, <1>5

(***************************************************************************)
(* RTK cannot talk the hook out of governing, but for an answer nested     *)
(* beyond the depth limit: each heavy segment of the agent's line runs     *)
(* under the governor, a heavy segment in the background has the call      *)
(* denied, and nothing but such an answer makes handle fail.               *)
(***************************************************************************)
THEOREM HeavyGovernedHolds == Spec => []HeavyGoverned
BY HookInvGoverns, HookInvariant, PTL

\* Where RTK puts itself, the nesting of the line stays what it was.
LEMMA RtkKeepsSyntax ==
    ASSUME NEW line \in CommandLine
    PROVE  \A printed \in RtkOutputs(line) :
               printed \in StrayLines \/ printed.syntax = line.syntax
<1>1. line = [syntax |-> line.syntax, segs |-> line.segs]
  BY DEF CommandLine, LinesOf
<1> DEFINE Called(i) == [line.segs[i] EXCEPT !.words = InsertRtk(@, Program(@))]
           Segs(S) == [i \in DOMAIN line.segs |-> IF i \in S THEN Called(i) ELSE line.segs[i]]
           Prefix(S) == [line EXCEPT !.segs = Segs(S)]
<1>2. ASSUME NEW S \in SUBSET DOMAIN line.segs PROVE Prefix(S).syntax = line.syntax
  BY <1>1
<1>3. ASSUME NEW i \in DOMAIN line.segs, NEW sep \in {"&&", "&"}
      PROVE  [Prefix(DOMAIN line.segs) EXCEPT !.segs[i].sep = sep].syntax = line.syntax
  BY <1>1
<1>4. ASSUME NEW i \in DOMAIN line.segs
      PROVE  [line EXCEPT !.segs[i].words = InsertRtk(@, 1)].syntax = line.syntax
  BY <1>1
<1> DEFINE Prefixed == {Prefix(S) : S \in SUBSET DOMAIN line.segs}
           Rejoin(i, sep) == [Prefix(DOMAIN line.segs) EXCEPT !.segs[i].sep = sep]
           Rejoined == {Rejoin(i, sep) : i \in DOMAIN line.segs, sep \in {"&&", "&"}}
           Displaced == {[line EXCEPT !.segs[i].words = InsertRtk(@, 1)] :
                           i \in DOMAIN line.segs}
<1>5. RtkOutputs(line) = StrayLines \cup Prefixed \cup Rejoined \cup Displaced
  BY DEF RtkOutputs
<1> HIDE DEF Prefix
<1>6. \A printed \in Prefixed : printed.syntax = line.syntax
  BY <1>2
<1>7. \A printed \in Rejoined : printed.syntax = line.syntax
  <2>1. \A i \in DOMAIN line.segs, sep \in {"&&", "&"} : Rejoin(i, sep).syntax = line.syntax
    BY <1>3, Zenon
  <2> HIDE DEF Rejoin
  <2>2. QED
    BY <2>1
<1>8. \A printed \in Displaced : printed.syntax = line.syntax
  <2> DEFINE Displace(i) == [line EXCEPT !.segs[i].words = InsertRtk(@, 1)]
  <2>1. \A i \in DOMAIN line.segs : Displace(i).syntax = line.syntax
    BY <1>4, Zenon
  <2>2. Displaced = {Displace(i) : i \in DOMAIN line.segs}
    OBVIOUS
  <2> HIDE DEF Displace, Displaced
  <2>3. QED
    BY <2>1, <2>2
<1> HIDE DEF Prefixed, Rejoined, Displaced
<1>9. QED
  BY <1>5, <1>6, <1>7, <1>8

(***************************************************************************)
(* What README.md promises holds of an RTK that never answers with a line  *)
(* beyond the depth limit: then nothing at all gets past the governor.     *)
(***************************************************************************)
THEOREM GovernedWithinDepth ==
    ASSUME \A line \in StrayLines : line.syntax # "deep"
    PROVE  Spec => []GovernedWhateverRtk
<1>1. ASSUME HookInv PROVE GovernedWhateverRtk
  <2> SUFFICES ASSUME Judged, RtkNestsTooDeep PROVE FALSE
    BY <1>1, HookInvGoverns DEF GovernedWhateverRtk, HeavyGoverned
  <2>1. request.line \in CommandLine /\ request.line.syntax = "plain"
    BY <1>1, HookLines DEF Judged, Supported, CommandLine
  <2>2. PICK line \in RtkOutputs(request.line) : line.syntax = "deep"
    BY DEF RtkNestsTooDeep
  <2>3. line \notin StrayLines
    BY <2>2
  <2>4. QED
    BY <2>1, <2>2, <2>3, RtkKeepsSyntax
<1>2. QED
  BY <1>1, HookInvariant, PTL

---------------------------------------------------------------------------
(* The class of a command under safe wrappers                              *)

\* normalize finds the end of a call of a wrapper.
LEMMA WrapperSkipped ==
    ASSUME NEW Word, NEW words \in Seq(Word), NEW i \in 1 .. Len(words),
           NEW j \in i + 1 .. Len(words) + 1,
           WordAt(words, j) \notin Flags \cup Assignments,
           WrapperCall(words, i, j)
    PROVE  SkipWrapper(words, i) = j /\ Basename(words[i]) \in Wrappers
<1>1. Len(words) \in Nat /\ DOMAIN words = 1 .. Len(words)
  BY LenProperties
<1>2. PICK a \in 1 .. Len(words) + 1 : a = i + 1
  BY <1>1
<1>3. ASSUME NEW S, NoWord \notin S, WordAt(words, j) \notin S,
             {words[k] : k \in i + 1 .. j - 1} \subseteq S
      PROVE  Past(S, words, i + 1) = j
  <2>1. j \in a .. Len(words) + 1 /\ \A k \in a .. j - 1 : words[k] \in S
    BY <1>2, <1>3
  <2>2. Past(S, words, a) = j
    BY <1>3, <2>1, PastIsUnique
  <2>3. QED
    BY <1>2, <2>2
<1>4. CASE Basename(words[i]) \in {"rtk", "command"}
  <2>1. NoWord \notin {"--"}
    BY Zenon DEF NoWord
  <2>2. WordAt(words, j) \notin {"--"}
    BY WordsAssumption
  <2>3. {words[k] : k \in i + 1 .. j - 1} \subseteq {"--"}
    BY <1>4 DEF WrapperCall
  <2>4. Past({"--"}, words, i + 1) = j
    BY <1>3, <2>1, <2>2, <2>3
  <2>5. QED
    BY <1>4, <2>4 DEF SkipWrapper, Wrappers
<1>5. CASE Basename(words[i]) = "time"
  <2>1. {words[k] : k \in i + 1 .. j - 1} \subseteq Flags
    BY <1>5 DEF WrapperCall
  <2>2. Past(Flags, words, i + 1) = j
    BY <1>3, <2>1, WordsAssumption
  <2>3. QED
    BY <1>5, <2>2 DEF SkipWrapper, Wrappers
<1>6. CASE Basename(words[i]) = "env"
  <2>1. {words[k] : k \in i + 1 .. j - 1} \subseteq Flags \cup Assignments
    BY <1>6 DEF WrapperCall
  <2>2. Past(Flags \cup Assignments, words, i + 1) = j
    BY <1>3, <2>1, WordsAssumption
  <2>3. QED
    BY <1>6, <2>2 DEF SkipWrapper, Wrappers
<1>7. CASE Basename(words[i]) = "nice"
  <2>1. SkipWrapper(words, i) = IF WordAt(words, i + 1) = "-n" THEN i + 3
            ELSE IF WordAt(words, i + 1) \in NiceLevels THEN i + 2 ELSE i + 1
    BY <1>7 DEF SkipWrapper
  <2>2. \/ j = i + 1
        \/ j = i + 2 /\ words[i + 1] \in NiceLevels
        \/ j = i + 3 /\ words[i + 1] = "-n"
    BY <1>7 DEF WrapperCall
  <2>3. ASSUME j = i + 1 PROVE SkipWrapper(words, i) = j
    BY <2>1, <2>3, WordsAssumption
  <2>4. ASSUME j # i + 1 PROVE SkipWrapper(words, i) = j
    <3>1. WordAt(words, i + 1) = words[i + 1]
      BY <1>1, <2>2, <2>4 DEF WordAt
    <3>2. QED
      BY <2>1, <2>2, <2>4, <3>1, WordsAssumption
  <2>5. SkipWrapper(words, i) = j
    BY <2>3, <2>4
  <2>6. QED
    BY <1>7, <2>5 DEF Wrappers
<1>8. QED
  BY <1>4, <1>5, <1>6, <1>7 DEF WrapperCall

\* Behind a prefix of safe wrappers normalize finds the same command.
LEMMA PrefixNormalized ==
    ASSUME NEW Word, NEW prefix \in Seq(Word), NEW words \in Seq(Word),
           OnlyWrappers(prefix), Program(words) = 1, WordAt(words, 1) \notin Flags
    PROVE  Normalize(prefix \o words) = Normalize(words)
<1> DEFINE n == Len(prefix)
           all == prefix \o words
<1>1. n \in Nat /\ Len(words) \in Nat /\ DOMAIN prefix = 1 .. n
  BY LenProperties
<1>2. /\ all \in Seq(Word) /\ Len(all) = n + Len(words)
      /\ \A i \in 1 .. n : all[i] = prefix[i]
      /\ \A i \in Nat \ {0} : WordAt(all, n + i) = WordAt(words, i)
  BY Behind
<1>3. DOMAIN all = 1 .. n + Len(words)
  BY <1>2, LenProperties
<1>4. PICK stops \in SUBSET (1 .. n + 1) :
         /\ Program(prefix) \in stops
         /\ \A i \in stops \ {n + 1} :
               /\ prefix[i] \notin Flags \cup Assignments
               /\ \E j \in stops : i < j /\ WrapperCall(prefix, i, j)
  BY DEF OnlyWrappers
<1>5. PICK from :
         /\ \A i \in 1 .. Len(words) + 3 : from[i] = NormalizeAt(words, i, from)
         /\ Normalize(words) = NormalizeAt(words, Program(words), from)
  BY NormalizeUnfolds
<1>6. PICK full :
         /\ \A i \in 1 .. Len(all) + 3 : full[i] = NormalizeAt(all, i, full)
         /\ Normalize(all) = NormalizeAt(all, Program(all), full)
  BY <1>2, NormalizeUnfolds
<1>7. \A i \in 1 .. Len(words) + 3 : full[n + i] = from[i]
  <2>1. \A i \in 1 .. Len(words) + 3 : from[i] = NormalizeAt(words, i, from)
    BY <1>5
  <2>2. \A i \in 1 .. Len(prefix \o words) + 3 :
           full[i] = NormalizeAt(prefix \o words, i, full)
    BY <1>6
  <2>3. \A i \in 1 .. Len(words) + 3 : full[Len(prefix) + i] = from[i]
    BY ONLY prefix \in Seq(Word), words \in Seq(Word), <2>1, <2>2, NormalizeShifts
  <2>4. QED
    BY <2>3
<1> HIDE DEF n, all
<1>8. Normalize(words) = full[n + 1]
  <2>1. 1 \in 1 .. Len(words) + 3
    BY <1>1
  <2>2. Normalize(words) = NormalizeAt(words, 1, from)
    BY <1>5
  <2>3. QED
    BY <1>5, <1>7, <2>1, <2>2
<1>9. ASSUME NEW j \in stops PROVE WordAt(all, j) \notin Flags \cup Assignments
  <2>1. CASE j = n + 1
    <3>1. WordAt(all, n + 1) = WordAt(words, 1)
      BY <1>2
    <3>2. WordAt(words, 1) \notin Assignments
      BY ProgramPlace
    <3>3. QED
      BY <2>1, <3>1, <3>2
  <2>2. CASE j # n + 1
    <3>1. j \in 1 .. n /\ j \in DOMAIN all
      BY <1>1, <1>3, <1>4, <2>2
    <3>2. QED
      BY <1>2, <1>4, <2>2, <3>1 DEF WordAt
  <2>3. QED
    BY <2>1, <2>2
<1>10. Program(all) = Program(prefix)
  <2> DEFINE k == Program(prefix)
  <2>1. k \in 1 .. n + 1 /\ \A l \in 1 .. k - 1 : prefix[l] \in Assignments
    BY ProgramPlace DEF n
  <2>2. WordAt(all, k) \notin Assignments
    BY <1>4, <1>9
  <2> HIDE DEF k
  <2>3. k \in 1 .. Len(all) + 1 /\ 1 \in 1 .. Len(all) + 1
    BY <1>1, <1>2, <2>1
  <2>4. \A l \in 1 .. k - 1 : all[l] \in Assignments
    BY <1>1, <1>2, <2>1
  <2>5. Past(Assignments, all, 1) = k
    BY <1>2, <2>2, <2>3, <2>4, PastIsUnique, WordsAssumption
  <2>6. QED
    BY <2>5 DEF Program, k
<1>11. ASSUME NEW i \in stops \ {n + 1}
       PROVE  \E j \in stops : i < j /\ full[i] = full[j]
  <2>1. PICK j \in stops : i < j /\ WrapperCall(prefix, i, j)
    BY <1>4
  <2>2. i \in 1 .. n /\ i \in 1 .. Len(all) /\ j \in i + 1 .. Len(all) + 1 /\ j <= n + 1
    BY <1>1, <1>2, <1>4, <2>1
  <2>3. WrapperCall(all, i, j)
    <3>1. all[i] = prefix[i]
      BY <1>2, <2>2
    <3>2. {all[k] : k \in i + 1 .. j - 1} = {prefix[k] : k \in i + 1 .. j - 1}
      <4>1. \A k \in i + 1 .. j - 1 : k \in 1 .. n /\ all[k] = prefix[k]
        BY <1>1, <1>2, <2>2
      <4>2. QED
        BY <4>1
    <3>3. j # i + 1 => all[i + 1] = prefix[i + 1]
      BY <1>1, <1>2, <2>2
    <3>4. j = i + 2 \/ j = i + 3 => j # i + 1
      BY <2>2
    <3>5. QED
      BY <2>1, <3>1, <3>2, <3>3, <3>4 DEF WrapperCall
  <2>4. SkipWrapper(all, i) = j /\ Basename(all[i]) \in Wrappers
    BY <1>2, <1>9, <2>2, <2>3, WrapperSkipped
  <2>5. WordAt(all, i) = all[i]
    BY <1>2, <1>3, <2>2 DEF WordAt
  <2>6. full[i] = NormalizeAt(all, i, full)
    BY <1>2, <1>6, <2>2
  <2>7. ~(i > Len(all))
    BY <1>1, <1>2, <2>2
  <2>8. NormalizeAt(all, i, full) = full[j]
    BY <2>4, <2>5, <2>7 DEF NormalizeAt, Wrappers, UnsafeWrappers
  <2>9. QED
    BY <2>1, <2>6, <2>8
<1>12. \A i \in stops : full[i] = full[n + 1]
  <2> DEFINE Lost == {d \in 0 .. n : \E i \in stops : d = n + 1 - i /\ full[i] # full[n + 1]}
  <2>1. ASSUME Lost # {} PROVE FALSE
    <3>1. Lost \in SUBSET Nat
      OBVIOUS
    <3> HIDE DEF Lost
    <3>2. PICK d \in Lost : \A e \in Lost : d <= e
      BY <2>1, <3>1, LeastNat
    <3> USE DEF Lost
    <3>3. PICK i \in stops : d = n + 1 - i /\ full[i] # full[n + 1]
      BY <3>2
    <3>4. PICK j \in stops : i < j /\ full[i] = full[j]
      BY <1>11, <3>3
    <3>5. n + 1 - j \in 0 .. n /\ ~(d <= n + 1 - j)
      BY <1>1, <1>4, <3>3, <3>4
    <3>6. n + 1 - j \notin Lost
      BY <3>2, <3>5
    <3>7. QED
      BY <3>3, <3>4, <3>5, <3>6
  <2>2. ASSUME NEW i \in stops, full[i] # full[n + 1] PROVE FALSE
    <3>1. n + 1 - i \in 0 .. n
      BY <1>1, <1>4
    <3>2. QED
      BY <2>1, <2>2, <3>1
  <2>3. QED
    BY <2>2
<1>13. Normalize(all) = full[Program(prefix)]
  <2>1. Program(prefix) \in 1 .. Len(all) + 3
    <3>1. Program(prefix) \in 1 .. n + 1
      BY <1>4
    <3>2. QED
      BY <1>1, <1>2, <3>1
  <2>2. QED
    BY <1>6, <1>10, <2>1
<1>14. Normalize(all) = Normalize(words)
  BY <1>4, <1>8, <1>12, <1>13
<1>15. QED
  BY <1>14 DEF all

LEMMA HookInvStable == HookInv => ClassificationStable
<1> SUFFICES ASSUME HookInv, NEW i \in Visible(request.line)
             PROVE  LET words == request.line.segs[i].words
                        class == Class(words, config.rules)
                    IN  /\ Program(words) = 1 /\ WordAt(words, 1) \notin Flags =>
                               \A prefix \in SafePrefixes :
                                   Class(prefix \o words, config.rules) = class
                        /\ Class(Govern(words), config.rules) = "light"
  BY DEF ClassificationStable
<1> DEFINE words == request.line.segs[i].words
<1>1. words \in Seq(STRING)
  <2>1. request.line \in LinesOf(STRING) /\ i \in DOMAIN request.line.segs
    BY HookLines DEF Visible
  <2>2. request.line.segs[i] \in [words : Seq(STRING), sep : STRING, hidden : BOOLEAN]
    BY <2>1, LineFields
  <2>3. QED
    BY <2>2
<1> HIDE DEF words
<1>2. Class(Govern(words), config.rules) = "light"
  BY <1>1, GovernIsRecognised
<1>3. ASSUME Program(words) = 1, WordAt(words, 1) \notin Flags,
             NEW prefix \in SafePrefixes
      PROVE  Class(prefix \o words, config.rules) = Class(words, config.rules)
  <2>1. prefix \in Seq(STRING) /\ OnlyWrappers(prefix)
    BY PrefixesAssumption
  <2>2. Normalize(prefix \o words) = Normalize(words)
    BY <1>1, <1>3, <2>1, PrefixNormalized
  <2>3. QED
    BY <2>2 DEF Class
<1>4. QED
  BY <1>2, <1>3 DEF words

(***************************************************************************)
(* The class of a command is that of the command without the safe wrappers *)
(* around it, and what is governed is never governed again.                *)
(***************************************************************************)
THEOREM ClassificationStableHolds == Spec => []ClassificationStable
BY HookInvStable, HookInvariant, PTL
=============================================================================
