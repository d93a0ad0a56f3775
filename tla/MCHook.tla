------------------------------- MODULE MCHook -------------------------------
(* Small instances of Hook for TLC.                                         *)
EXTENDS HookInvariants, TLC

MCFileName == ("/bin/agent-gov" :> "agent-gov") @@ ("./mvnw" :> "mvnw")
                @@ ("/usr/bin/env" :> "env") @@ ("/opt/rtk" :> "rtk")
MCTaskName == (":app:check" :> "check") @@ (":app:unitTest" :> "unitTest")

MCSafePrefixes ==
    {<<"A=1">>, <<"command">>, <<"command", "--">>, <<"time", "-p">>,
     <<"nice">>, <<"nice", "-n", "5">>, <<"nice", "-n5">>, <<"/opt/rtk">>,
     <<"/usr/bin/env", "-i", "A=1">>, <<"A=1", "env", "nice", "rtk">>}

Segment(words, sep) == [words |-> words, sep |-> sep, hidden |-> FALSE]

Plain(segs) == [syntax |-> "plain", segs |-> segs]

\* Every rule of the classifier, and what it must not take for one.
Single ==
    {<<"npm", "test">>, <<"A=1", "npm", "run", "-s", "build">>, <<"npm", "run", "dev">>,
     <<"npm", "run", "test:watch">>, <<"yarn", "start">>, <<"npm", "run">>, <<"npm">>,
     <<"npm", "run", "deploy">>, <<"./mvnw", "-q", "verify">>, <<"mvn", "spring-boot:run", "test">>,
     <<"mvn", "site">>, <<"gradle", ":app:check">>, <<"gradle", ":app:unitTest">>,
     <<"gradle", "-t", "build">>, <<"gradle", "tasks">>, <<"cargo", "build">>, <<"cargo", "fmt">>,
     <<"docker", "compose", "build">>, <<"docker", "ps">>, <<"make">>, <<"echo", "a>b">>,
     <<"sudo", "npm", "test">>, <<"env", "A=1">>, <<"nice", "-n">>, <<"nice", "-n", "5", "make">>,
     <<"rtk", "npm", "test">>, <<"/bin/agent-gov", "run", "--", "npm", "test">>,
     <<"make", ">out">>}

Pairs == {<<"npm", "test">>, <<"A=1", "make">>, <<"echo", "a">>}

Lines == {Plain(<<Segment(w, "")>>) : w \in Single}
    \cup {Plain(<<Segment(w, "&")>>) : w \in Pairs}
    \cup {Plain(<<Segment(v, sep), Segment(w, last)>>) :
            v, w \in Pairs, sep \in {"&&", "&"}, last \in {"", "&"}}
    \cup {[Plain(<<Segment(<<"make">>, ""), Segment(w, "")>>)
            EXCEPT !.segs[1].hidden = TRUE] : w \in {<<"npm", "test">>, <<"echo", "a">>}}

Odd(syntax) == [syntax |-> syntax, segs |-> <<Segment(<<"npm", "test">>, "")>>]

Request(host, line, timeout) ==
    [host |-> host, foreign |-> FALSE, line |-> line, timeout |-> timeout]

Config(rtk, deny, rules) == [rtk |-> rtk, denyBackground |-> deny, rules |-> rules]

Call(r, c) == [request |-> r, config |-> c]

Rules == <<[argv_prefix |-> <<"npm", "run", "deploy">>, class |-> "heavy"],
           [argv_prefix |-> <<"npm", "run">>, class |-> "service"],
           [argv_prefix |-> <<"cargo">>, class |-> "light"]>>

\* Without RTK every line; with it, those whose segments it can mix up.
Consulting == {<<"npm", "test">>, <<"A=1", "make">>, <<"make", ">out">>, <<"npm", "run", "dev">>}

Mixed == {Segment(<<"npm", "test">>, "&&"), Segment(<<"npm", "test">>, "&"),
               [Segment(<<"make">>, "") EXCEPT !.hidden = TRUE]}

RtkLines == {Plain(<<Segment(w, "")>>) : w \in Consulting}
    \cup {Plain(<<s, Segment(<<"A=1", "echo">>, "")>>) : s \in Mixed}

Test == Plain(<<Segment(<<"npm", "test">>, "")>>)

MCCalls ==
    {Call(Request("claude", line, 1), c) : line \in Lines,
        c \in {Config(FALSE, TRUE, << >>), Config(FALSE, FALSE, << >>),
                    Config(FALSE, TRUE, Rules)}}
    \cup {Call(Request(host, Odd(syntax), 3), Config(rtk, TRUE, << >>)) :
            host \in {"claude", "cursor"}, syntax \in {"odd", "deep"}, rtk \in BOOLEAN}
    \cup {Call(Request("claude", line, 1), Config(TRUE, TRUE, << >>)) : line \in RtkLines}
    \cup {Call(Request("cursor", Test, 3), Config(rtk, FALSE, << >>)) : rtk \in BOOLEAN}
    \cup {Call([Request("claude", Test, 3) EXCEPT !.foreign = TRUE], Config(TRUE, TRUE, << >>))}

MCStrayLines ==
    {Odd("odd"), Odd("deep"), Plain(<<Segment(<<"rtk", "cargo", "build">>, "")>>),
     Plain(<<Segment(<<"echo", "a">>, "")>>), Plain(<<Segment(<<"npm", "test">>, "")>>)}
=============================================================================
