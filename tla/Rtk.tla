-------------------------------- MODULE Rtk --------------------------------
(***************************************************************************)
(* One call of `rtk rewrite` (src/hook/rtk.rs, invoke): the calling thread *)
(* waits for the child and then for a second thread, which reads the       *)
(* child's output until its end.  The child may leave a descendant that    *)
(* lives on and holds the pipe open, in the child's process group or       *)
(* outside of it.  A command line, and whether the output is one that can  *)
(* be used, is left to the caller.                                         *)
(***************************************************************************)
EXTENDS Integers

CONSTANT CallsFail   \* can spawn, wait and read fail?

ASSUME CallsFailAssumption == CallsFail \in BOOLEAN

VARIABLES
    step,      \* where invoke is
    child,     \* the RTK process
    helper,    \* the descendant: in the group, outside of it, or gone
    pipe,      \* who holds the write end of the child's stdout
    reader,    \* the reading thread
    output,    \* what the reading thread has sent
    late,      \* the timeout has elapsed since `started`
    graceOver, \* the 100 ms of finish_reader have elapsed
    verdict    \* the RtkDecision, without its command

callVars == <<step, verdict>>
rtkVars  == <<callVars, child, helper, pipe, reader, output, late, graceOver>>

Steps == {"idle", "spawn", "wait", "kill", "reap", "receive", "join",
          "finish", "finish_join", "returned"}

RtkTypeOK ==
    /\ step \in Steps
    /\ child \in {"none", "running", "zombie", "reaped"}
    /\ helper \in {"none", "inside", "outside", "gone"}
    /\ pipe \subseteq {"child", "helper"}
    /\ reader \in {"none", "reading", "ended"}
    /\ output \in {"none", "whole", "error"}
    /\ late \in BOOLEAN
    /\ graceOver \in BOOLEAN
    /\ verdict \in {"none", "preserve", "deny", "rewrite", "ask"}

RtkInit(first) ==
    /\ step = first
    /\ child = "none" /\ helper = "none" /\ pipe = {}
    /\ reader = "none" /\ output = "none"
    /\ late = FALSE /\ graceOver = FALSE
    /\ verdict = "none"

(***************************************************************************)
(* The calling thread.                                                     *)
(***************************************************************************)
Goto(from, to) == step = from /\ step' = to

\* The clocks are locals of invoke.
Return(from, decision) ==
    /\ Goto(from, "returned")
    /\ verdict' = decision
    /\ late' = FALSE /\ graceOver' = FALSE

Spawn ==
    /\ Goto("spawn", "wait")
    /\ child' = "running" /\ pipe' = {"child"} /\ reader' = "reading"
    /\ UNCHANGED <<verdict, helper, output, late, graceOver>>

SpawnFails ==
    /\ CallsFail
    /\ Return("spawn", "preserve")
    /\ UNCHANGED <<child, helper, pipe, reader, output>>

\* wait_timeout has collected the child.
Wait ==
    /\ Goto("wait", "receive")
    /\ child = "zombie"
    /\ child' = "reaped"
    /\ UNCHANGED <<verdict, helper, pipe, reader, output, late, graceOver>>

WaitExpires ==
    /\ Goto("wait", "kill")
    /\ late \/ CallsFail
    /\ UNCHANGED <<verdict, child, helper, pipe, reader, output, late,
                   graceOver>>

\* Bug: the signal goes to the child alone, child.kill() for killpg.
KillChild ==
    /\ child' = IF child = "running" THEN "zombie" ELSE child
    /\ pipe' = pipe \ {"child"}
    /\ UNCHANGED helper

\* killpg(child_group, SIGKILL).
KillGroup ==
    /\ child' = IF child = "running" THEN "zombie" ELSE child
    /\ helper' = IF helper = "inside" THEN "gone" ELSE helper
    /\ pipe' = IF helper = "outside" THEN pipe \ {"child"} ELSE {}

Kill ==
    /\ Goto("kill", "reap")
    /\ KillGroup
    /\ UNCHANGED <<verdict, reader, output, late, graceOver>>

\* The blocking wait of kill_group_and_reap.
Reap ==
    /\ Goto("reap", "finish")
    /\ child = "zombie"
    /\ child' = "reaped"
    /\ UNCHANGED <<verdict, helper, pipe, reader, output, late, graceOver>>

Sent == output # "none"

\* recv_timeout(remaining).
Receive ==
    /\ Goto("receive", "join")
    /\ Sent
    /\ UNCHANGED <<verdict, child, helper, pipe, reader, output, late,
                   graceOver>>

ReceiveExpires ==
    /\ Goto("receive", "finish")
    /\ late /\ ~Sent
    /\ KillGroup
    /\ UNCHANGED <<verdict, reader, output, late, graceOver>>

\* What the rest of invoke makes of the exit code and the output; -1 is any
\* signal (`code()` is None) and any other code.  The output of a whole read may
\* be empty, too long, not UTF-8 or contain NUL.
Codes == {-1, 0, 1, 2, 3}

Decisions(code) ==
    IF output = "error" THEN {"preserve"}
    ELSE CASE code = 2 -> {"deny"}
           [] code = 0 -> {"rewrite", "preserve"}
           [] code = 3 -> {"ask", "preserve"}
           [] OTHER    -> {"preserve"}

Join ==
    /\ reader = "ended"
    /\ \E code \in Codes : \E d \in Decisions(code) : Return("join", d)
    /\ UNCHANGED <<child, helper, pipe, reader, output>>

\* finish_reader: the thread is joined only if it has sent its result.
FinishReceive ==
    /\ Goto("finish", "finish_join")
    /\ Sent
    /\ UNCHANGED <<verdict, child, helper, pipe, reader, output, late,
                   graceOver>>

\* Bug: the thread is joined whatever recv_timeout says.
FinishUnbounded ==
    /\ Goto("finish", "finish_join")
    /\ graceOver /\ ~Sent
    /\ UNCHANGED <<verdict, child, helper, pipe, reader, output, late,
                   graceOver>>

FinishExpires ==
    /\ graceOver /\ ~Sent
    /\ Return("finish", "preserve")
    /\ UNCHANGED <<child, helper, pipe, reader, output>>

FinishJoin ==
    /\ reader = "ended"
    /\ Return("finish_join", "preserve")
    /\ UNCHANGED <<child, helper, pipe, reader, output>>

Invoke ==
    \/ Spawn \/ SpawnFails \/ Wait \/ WaitExpires \/ Kill \/ Reap
    \/ Receive \/ ReceiveExpires \/ Join
    \/ FinishReceive \/ FinishExpires \/ FinishJoin

(***************************************************************************)
(* The reading thread: read_limited reads on, without keeping more, until  *)
(* nobody can write any longer.  After it has sent its result it ends.     *)
(***************************************************************************)
EndOfFile ==
    /\ reader = "reading" /\ pipe = {}
    /\ reader' = "ended" /\ output' = "whole"
    /\ UNCHANGED <<callVars, child, helper, pipe, late, graceOver>>

ReadFails ==
    /\ CallsFail /\ reader = "reading"
    /\ reader' = "ended" /\ output' = "error"
    /\ UNCHANGED <<callVars, child, helper, pipe, late, graceOver>>

(***************************************************************************)
(* RTK and the clocks.                                                     *)
(***************************************************************************)
\* The descendant leaves the group at once (setsid) or never, and inherits
\* stdout if the child has not closed it.
HelperStarts ==
    /\ child = "running" /\ helper = "none"
    /\ helper' \in {"inside", "outside"}
    /\ pipe' \in {pipe, pipe \cup {"helper" : x \in pipe}}
    /\ UNCHANGED <<callVars, child, reader, output, late, graceOver>>

Close(who) ==
    /\ who \in pipe
    /\ pipe' = pipe \ {who}
    /\ UNCHANGED <<callVars, child, helper, reader, output, late, graceOver>>

ChildEnds ==
    /\ child = "running"
    /\ child' = "zombie"
    /\ pipe' = pipe \ {"child"}
    /\ UNCHANGED <<callVars, helper, reader, output, late, graceOver>>

HelperEnds ==
    /\ helper \in {"inside", "outside"}
    /\ helper' = "gone"
    /\ pipe' = pipe \ {"helper"}
    /\ UNCHANGED <<callVars, child, reader, output, late, graceOver>>

TimeElapses ==
    /\ step \notin {"idle", "spawn", "returned"} /\ ~late
    /\ late' = TRUE
    /\ UNCHANGED <<callVars, child, helper, pipe, reader, output, graceOver>>

GraceElapses ==
    /\ step = "finish" /\ ~graceOver
    /\ graceOver' = TRUE
    /\ UNCHANGED <<callVars, child, helper, pipe, reader, output, late>>

RtkProcess ==
    \/ HelperStarts \/ ChildEnds \/ HelperEnds
    \/ \E who \in {"child", "helper"} : Close(who)

Clock == TimeElapses \/ GraceElapses

RtkNext == Invoke \/ EndOfFile \/ ReadFails \/ RtkProcess \/ Clock

(***************************************************************************)
(* Nothing is assumed of RTK, nor that its output ever ends.               *)
(***************************************************************************)
RtkSpec == RtkInit("spawn") /\ [][RtkNext]_rtkVars

(***************************************************************************)
(* Properties                                                              *)
(***************************************************************************)

\* invoke never returns over a child that runs or is a zombie; when it gives
\* up on RTK no process of RTK's group is left; and it never joins a thread
\* that may still be reading, which a descendant outside of the group could
\* delay for ever (kill_group_and_reap, finish_reader).
NothingLeft ==
    /\ step = "returned" => child \in {"none", "reaped"}
    /\ step \in {"finish", "finish_join"} => helper # "inside"
    /\ step \in {"join", "finish_join"} => reader # "reading"

=============================================================================
