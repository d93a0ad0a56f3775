-------------------------------- MODULE Hook --------------------------------
(***************************************************************************)
(* The answer of `agent-gov hook` to one tool call (src/hook/mod.rs,       *)
(* handle): it analyses the command, asks RTK (module Rtk) for another     *)
(* form of it, and governs the heavy segments (module Shell) of what it    *)
(* has then.                                                               *)
(***************************************************************************)
EXTENDS Rtk, Shell

CONSTANTS
    Calls,        \* what the hosts send, with the configuration it meets
    StrayLines,   \* bound: lines RTK may answer whatever it was asked
    SafePrefixes, \* bound: ways to call a safe wrapper
    TimeoutFloor  \* FLOOR_MS

ASSUME FloorAssumption == TimeoutFloor \in Nat

CallType ==
    [request : [host : STRING, foreign : BOOLEAN, line : CommandLine, timeout : Nat],
     config  : [rtk : BOOLEAN, denyBackground : BOOLEAN, rules : Seq(Rule)]]

ASSUME CallsAssumption == Calls \subseteq CallType /\ StrayLines \subseteq CommandLine

VARIABLES
    pc,         \* where handle is
    request,    \* host, whether it is a call handle looks at, line, timeout
    config,     \* whether RTK is asked, deny_background_heavy, the rules
    candidate,  \* the line to be governed
    permission, \* "ask" when RTK's rewrite asks for confirmation
    reply       \* what the host is told

hookVars == <<pc, request, config, candidate, permission, reply>>
vars     == <<hookVars, rtkVars>>

NoReply == [kind |-> "none"]

Init ==
    /\ pc = "receive"
    /\ \E call \in Calls : request = call.request /\ config = call.config
    /\ candidate = request.line
    /\ permission = "preserve"
    /\ reply = NoReply
    /\ RtkInit("idle")

-----------------------------------------------------------------------------
\* The replies.  With "pass" the host goes on with its own request, and after
\* an error of the hook it does so as well.
Pass  == [kind |-> "pass", line |-> request.line, permission |-> "host",
          timeout |-> request.timeout]
Deny  == [Pass EXCEPT !.kind = "deny"]
Error == [Pass EXCEPT !.kind = "error"]

\* increase_claude_timeout.
Raised(timeout) == IF timeout < TimeoutFloor THEN TimeoutFloor ELSE timeout

\* Bug: RTK's request for a confirmation is lost.
CursorPermission == IF request.host = "cursor" THEN "ask" ELSE "host"

Permission ==
    IF request.host = "cursor" \/ permission = "ask" THEN "ask" ELSE "host"

Update(line, governed) ==
    [kind       |-> "update",
     line       |-> line,
     permission |-> Permission,
     timeout    |-> IF request.host = "claude" /\ governed
                    THEN Raised(request.timeout) ELSE request.timeout]

\* Bug: after a denial handle goes on.
AnswerAndGoOn(r) ==
    /\ pc' = IF r.kind = "deny" THEN "govern" ELSE "done"
    /\ reply' = r
    /\ UNCHANGED <<request, config, candidate, permission>>

Answer(r) ==
    /\ pc' = "done"
    /\ reply' = r
    /\ UNCHANGED <<request, config, candidate, permission>>

\* matches_tool and the early returns of handle; the analysis of the original.
TakeCall ==
    /\ pc = "receive"
    /\ \/ request.foreign /\ Answer(Pass) /\ UNCHANGED rtkVars
       \/ /\ ~request.foreign /\ request.line.syntax = "deep"
          /\ Answer(Error) /\ UNCHANGED rtkVars
       \/ /\ ~request.foreign /\ request.line.syntax # "deep"
          /\ pc' = IF config.rtk THEN "consult" ELSE "govern"
          /\ step' = IF config.rtk THEN "spawn" ELSE step
          /\ UNCHANGED <<request, config, candidate, permission, reply>>
          /\ UNCHANGED <<verdict, child, helper, pipe, reader, output,
                         late, graceOver>>

\* RTK's process and invoke.  What RTK's processes do later is of no interest.
Consult ==
    /\ pc = "consult" /\ step # "returned"
    /\ RtkNext
    /\ UNCHANGED hookVars

\* What RTK may print for a line: it puts itself before some of the programs,
\* or before everything, and may also change what joins the commands.
InsertRtk(words, i) ==
    SubSeq(words, 1, i - 1) \o <<"rtk">> \o SubSeq(words, i, Len(words))

RtkOutputs(line) ==
    LET Prefix(S) == [line EXCEPT !.segs = [i \in DOMAIN line.segs |->
            IF i \in S
            THEN [line.segs[i] EXCEPT !.words = InsertRtk(@, Program(@))]
            ELSE line.segs[i]]]
    IN  StrayLines
        \cup {Prefix(S) : S \in SUBSET DOMAIN line.segs}
        \cup {[Prefix(DOMAIN line.segs) EXCEPT !.segs[i].sep = sep] :
                i \in DOMAIN line.segs, sep \in {"&&", "&"}}
        \cup {[line EXCEPT !.segs[i].words = InsertRtk(@, 1)] :
                i \in DOMAIN line.segs}

\* The match over invoke's decision.
Consulted ==
    /\ pc = "consult" /\ step = "returned"
    /\ UNCHANGED rtkVars
    /\ \/ verdict = "deny" /\ Answer(Deny)
       \/ /\ verdict = "preserve"
          /\ pc' = "govern"
          /\ UNCHANGED <<request, config, candidate, permission, reply>>
       \/ /\ verdict \in {"rewrite", "ask"}
          /\ \E command \in RtkOutputs(request.line) :
                IF command.syntax = "deep" THEN Answer(Error)
                ELSE /\ pc' = "govern"
                     /\ IF RewritePreservesStructure(request.line, command, config.rules)
                        THEN /\ candidate' = command
                             /\ permission' = IF verdict = "ask" THEN "ask"
                                              ELSE permission
                        ELSE UNCHANGED <<candidate, permission>>
                     /\ UNCHANGED <<request, config, reply>>

\* The rest of handle: the original is governed when the candidate has nothing
\* to govern and the original has.
Governed(line) == Rewrite(line, config.rules, config.denyBackground)

Fallback(first) ==
    IF /\ HeavyCount(request.line, config.rules) > 0
       /\ first.heavySegments = 0 /\ ~first.denied
    THEN Governed(request.line) ELSE first

Reply(outcome) ==
    IF outcome.denied THEN Deny
    ELSE IF outcome.line = request.line /\ permission = "preserve" THEN Pass
    ELSE Update(outcome.line, outcome.heavySegments > 0)

Conclude ==
    /\ pc = "govern"
    /\ Answer(Reply(Fallback(Governed(candidate))))
    /\ UNCHANGED rtkVars

Next == TakeCall \/ Consult \/ Consulted \/ Conclude

Spec == Init /\ [][Next]_vars

\* The two threads of the hook run, and its clocks.  Nothing is assumed of RTK.
Fairness ==
    /\ WF_vars(TakeCall \/ Consulted \/ Conclude)
    /\ WF_vars(Consult /\ Invoke)
    /\ WF_vars(Consult /\ EndOfFile)
    /\ WF_vars(Consult /\ TimeElapses)
    /\ WF_vars(Consult /\ GraceElapses)

FairSpec == Spec /\ Fairness

-----------------------------------------------------------------------------
(* Properties *)

TypeOK ==
    /\ RtkTypeOK
    /\ pc \in {"receive", "consult", "govern", "done"}
    /\ [request |-> request, config |-> config] \in Calls
    /\ candidate = request.line \/ candidate \in RtkOutputs(request.line)
    /\ permission \in {"preserve", "ask"}
    /\ reply.kind \in {"none", "pass", "deny", "error", "update"}
    /\ pc = "done" <=> reply.kind # "none"

\* The calls handle has an opinion on.
Judged == pc = "done" /\ ~request.foreign /\ Supported(request.line)

\* Words without n of them from the i-th on.
Without(words, i, n) ==
    SubSeq(words, 1, i - 1) \o SubSeq(words, i + n, Len(words))

\* Without one call of RTK, or unchanged.
WithoutRtk(words) ==
    {words} \cup {Without(words, i, 1) :
        i \in {j \in 1 .. Len(words) : Basename(words[j]) = "rtk"}}

\* Without the governor's prefix.
Ungoverned(words) ==
    {Without(words, i, 3) : i \in {j \in 1 .. Len(words) - 2 :
        words[j] = Governor /\ words[j + 1] = "run" /\ words[j + 2] = "--"}}

\* The call is answered as its heavy segments ask for: each runs under the
\* governor, no other segment gets more than an RTK prefix, and a heavy segment
\* followed by "&" has the call denied.
Governs ==
    LET rules  == config.rules
        unsafe == WithClass(request.line, {"unsafe-background-heavy"}, rules)
    IN  IF config.denyBackground /\ unsafe # {} THEN reply.kind = "deny"
        ELSE /\ reply.kind # "deny"
             /\ \A i \in Visible(request.line) :
                    LET before == request.line.segs[i]
                        after  == reply.line.segs[i]
                    IN  IF SegmentClass(before, rules) = "heavy"
                        THEN AlreadyWrapped(after.words)
                        ELSE before.words \in WithoutRtk(after.words)

\* RTK may have answered with a line that walk refuses to go through.
RtkNestsTooDeep ==
    /\ verdict \in {"rewrite", "ask"}
    /\ \E line \in RtkOutputs(request.line) : line.syntax = "deep"

\* There is one way past the governor and no other: an answer of RTK nested
\* beyond the depth limit, which makes handle fail and the host run the agent's
\* own line (GovernedWhateverRtk).  Whatever else RTK answers, or does not, the
\* heavy segments of the agent's command are governed or the call is denied
\* (FR-014, FR-024); only RTK itself denies anything else.
HeavyGoverned ==
    Judged /\ verdict # "deny" =>
        \/ Governs
        \/ reply.kind = "error" /\ RtkNestsTooDeep

\* Without the governor's prefix and one "rtk", each segment of the answered
\* line is the agent's, and they are as many, joined by the same operators
\* (docs/architecture.md, "Removing all inserted prefixes").
OnlyInsertions ==
    pc = "done" =>
        /\ reply.line.syntax = request.line.syntax
        /\ Len(reply.line.segs) = Len(request.line.segs)
        /\ \A i \in DOMAIN request.line.segs :
              LET before == request.line.segs[i]
                  after  == reply.line.segs[i]
              IN  /\ after.sep = before.sep /\ after.hidden = before.hidden
                  /\ \/ before.words \in WithoutRtk(after.words)
                     \/ \E words \in Ungoverned(after.words) :
                            before.words \in WithoutRtk(words)
        /\ reply.timeout >= request.timeout

\* No host gets less restrictive by RTK (FR-006, FR-012): a denial is passed
\* on, an accepted rewrite that asks is asked for, and a rewrite is used only
\* if RTK ended by itself, in time, and all of its output was read.
VerdictHonoured ==
    pc = "done" =>
        /\ verdict = "deny" => reply.kind = "deny"
        /\ verdict = "ask" /\ candidate # request.line =>
                \/ reply.kind = "deny"
                \/ reply.kind = "update" /\ reply.permission = "ask"
        /\ reply.kind = "update" /\ request.host = "cursor" =>
                reply.permission = "ask"
        /\ candidate # request.line =>
                output = "whole" /\ pipe = {}

\* The words from i to j - 1 call a wrapper, with options that take no value
\* (nice: with a level, in one word or in two); what it runs begins at j.
WrapperCall(words, i, j) ==
    LET name    == Basename(words[i])
        options == {words[k] : k \in i + 1 .. j - 1}
    IN  \/ name \in {"rtk", "command"} /\ options \subseteq {"--"}
        \/ name = "time" /\ options \subseteq Flags
        \/ name = "env"  /\ options \subseteq Flags \cup Assignments
        \/ name = "nice" /\ \/ j = i + 1
                            \/ j = i + 2 /\ words[i + 1] \in NiceLevels
                            \/ j = i + 3 /\ words[i + 1] = "-n"

\* Behind their assignments the words call one wrapper after the other.
OnlyWrappers(words) ==
    \E stops \in SUBSET (1 .. Len(words) + 1) :
        /\ Program(words) \in stops
        /\ \A i \in stops \ {Len(words) + 1} :
              /\ words[i] \notin Flags \cup Assignments
              /\ \E j \in stops : i < j /\ WrapperCall(words, i, j)

ASSUME PrefixesAssumption ==
    \A prefix \in SafePrefixes : prefix \in Seq(STRING) /\ OnlyWrappers(prefix)

\* The class of a command does not depend on how it is called (FR-027): a safe
\* wrapper or an assignment before it changes nothing, and once it is governed
\* another hook leaves it alone.
ClassificationStable ==
    pc = "receive" =>
        \A i \in Visible(request.line) :
            LET words == request.line.segs[i].words
                class == Class(words, config.rules)
            IN  /\ Program(words) = 1 /\ WordAt(words, 1) \notin Flags =>
                        \A prefix \in SafePrefixes :
                            Class(prefix \o words, config.rules) = class
                /\ Class(Govern(words), config.rules) = "light"

\* The agent gets its answer whatever RTK does, also when a process that RTK
\* left behind holds the pipe open for ever (FR-011).
Answered == <>(pc = "done")

-----------------------------------------------------------------------------
(* What the documentation says and the code does not keep *)

\* README.md: "RTK failure never bypasses classification or governance", and
\* FR-014: RTK must not be a way round the governor, whatever it answers.
GovernedWhateverRtk == Judged /\ verdict # "deny" => Governs
=============================================================================
