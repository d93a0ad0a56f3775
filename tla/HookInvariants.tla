--------------------------- MODULE HookInvariants ---------------------------
(***************************************************************************)
(* The inductive invariants behind the safety properties of Rtk and Hook:  *)
(* what is left of RTK at each point of invoke, and how each reply came    *)
(* about.                                                                  *)
(***************************************************************************)
EXTENDS Hook

\* The child is collected once and only then is the thread waited for.
ChildCollected ==
    /\ step \in {"idle", "spawn"} => child = "none"
    /\ step \in {"wait", "kill"} => child \in {"running", "zombie"}
    /\ step = "reap" => child = "zombie"
    /\ step \in {"receive", "join", "finish", "finish_join"} => child = "reaped"
    /\ step = "returned" => child \in {"none", "reaped"}

\* After a kill nobody is left in the group, and nobody joins it any more.
GroupKilled == step \in {"reap", "finish", "finish_join"} => helper # "inside"

\* What the thread has sent it has read to the end, or it is an error.
OutputRead ==
    /\ child = "none" => reader = "none" /\ pipe = {}
    /\ output # "none" <=> reader = "ended"
    /\ output = "whole" => pipe = {}
    /\ step \in {"join", "finish_join"} => Sent

\* Only the output that was read to its end is followed.
VerdictEarned ==
    /\ verdict = "none" <=> step # "returned"
    /\ verdict \in {"deny", "rewrite", "ask"} => output = "whole"

\* NothingLeft follows from it.
RtkInv ==
    /\ RtkTypeOK
    /\ ChildCollected
    /\ GroupKilled
    /\ OutputRead
    /\ VerdictEarned

\* handle and invoke are never busy at the same time.
Consultation ==
    /\ pc = "receive" => step = "idle"
    /\ step \notin {"idle", "returned"} => pc = "consult"
    /\ pc = "consult" => step # "idle"
    /\ request.foreign => pc \in {"receive", "done"} /\ step = "idle"
    /\ pc = "govern" => verdict # "deny"

\* Of RTK's lines only those are taken over that pass the structure check,
\* together with the question that comes with them.
CandidateChecked ==
    /\ candidate # request.line =>
          /\ pc \in {"govern", "done"}
          /\ verdict \in {"rewrite", "ask"}
          /\ verdict = "ask" => permission = "ask"
          /\ RewritePreservesStructure(request.line, candidate, config.rules)
    /\ permission = "ask" => verdict = "ask" /\ pc \in {"govern", "done"}

\* Where the reply came from: a call of no interest, an error over a line that is
\* nested too deep, the agent's or RTK's, RTK's denial, or the rewrite of what
\* was chosen.
ReplyExplained ==
    pc = "done" =>
        \/ /\ request.foreign
           /\ reply = Pass
        \/ /\ verdict # "deny" /\ candidate = request.line
           /\ reply = Error
           /\ request.line.syntax = "deep" \/ RtkNestsTooDeep
        \/ /\ verdict = "deny"
           /\ reply = Deny
        \/ /\ verdict # "deny" /\ ~request.foreign
           /\ reply = Reply(Fallback(Governed(candidate)))

(***************************************************************************)
(* The inductive invariant: VerdictHonoured, HeavyGoverned and             *)
(* OnlyInsertions follow from it and from the lemmas about Shell.          *)
(***************************************************************************)
HookInv ==
    /\ TypeOK
    /\ RtkInv
    /\ Consultation
    /\ CandidateChecked
    /\ ReplyExplained
=============================================================================
