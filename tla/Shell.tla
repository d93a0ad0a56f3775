------------------------------- MODULE Shell -------------------------------
(***************************************************************************)
(* What agent-gov knows about a command line: the segments that            *)
(* shell/parse.rs finds in it, the class that shell/classify.rs gives to   *)
(* each, and the line that shell/rewrite.rs makes of it.  No state.        *)
(*                                                                         *)
(* A word is a string without inner structure; the constants say what the  *)
(* code asks of its characters.  A line is the sequence of its simple      *)
(* commands, each with the text that follows it.  The grammar that finds   *)
(* them (tree-sitter-bash) is external.                                    *)
(***************************************************************************)
EXTENDS Naturals, FiniteSets, SequencesExt

CONSTANTS
    Assignments,  \* the words NAME=value
    Flags,        \* the words that start with "-"
    NiceLevels,   \* those that start with "-n" and go on
    AngleWords,   \* the words with "<" or ">" in them
    FileName,     \* the last component of the words that are paths
    TaskName,     \* what follows the last ":" of the words that have one
    TestTasks,    \* the task names that end in "Test"
    WatchScripts, \* the words with "watch" in them
    Governor      \* the path of agent-gov

ASSUME GovernorAssumption ==
    /\ Governor \in DOMAIN FileName /\ FileName[Governor] = "agent-gov"
    /\ Governor \notin Assignments

\* A flag starts with "-", an assignment has a "=".
NoWord == ""

ASSUME WordsAssumption ==
    /\ NoWord \notin Assignments \cup Flags
    /\ NiceLevels \cup {"-n", "--"} \subseteq Flags
    /\ "-n" \notin NiceLevels

(***************************************************************************)
(* classify.rs                                                             *)
(***************************************************************************)
Basename(w) == IF w \in DOMAIN FileName THEN FileName[w] ELSE w

\* The word at i, and no word beyond the end.
WordAt(words, i) == IF i \in DOMAIN words THEN words[i] ELSE NoWord

\* The first place from i on that does not hold a member of S.
Past(S, words, i) ==
    CHOOSE j \in i .. Len(words) + 1 :
        /\ WordAt(words, j) \notin S
        /\ \A k \in i .. j - 1 : words[k] \in S

\* The place of the program, behind the leading assignments: for the shell
\* (command_name of the grammar) and for normalize.
Program(words) == Past(Assignments, words, 1)

UnsafeWrappers == {"sudo", "xargs", "bash", "sh", "zsh"}

\* Bug: `nice -n 5` is taken for `nice -5`.
SkipNiceBriefly(words, i) ==
    LET name == Basename(words[i])
        next == WordAt(words, i + 1)
    IN  CASE name \in {"rtk", "command"} -> Past({"--"}, words, i + 1)
          [] name = "time" -> Past(Flags, words, i + 1)
          [] name = "env"  -> Past(Flags \cup Assignments, words, i + 1)
          [] name = "nice" -> IF next = "-n" \/ next \in NiceLevels
                              THEN i + 2 ELSE i + 1

\* Where normalize goes on after the wrapper at i.
SkipWrapper(words, i) ==
    LET name == Basename(words[i])
        next == WordAt(words, i + 1)
    IN  CASE name \in {"rtk", "command"} -> Past({"--"}, words, i + 1)
          [] name = "time" -> Past(Flags, words, i + 1)
          [] name = "env"  -> Past(Flags \cup Assignments, words, i + 1)
          [] name = "nice" -> IF next = "-n" THEN i + 3
                              ELSE IF next \in NiceLevels THEN i + 2 ELSE i + 1

Wrappers == {"rtk", "command", "time", "nice", "env"}

Command(argv) == [kind |-> "command", argv |-> argv]

\* The loop of normalize at the word i, given its results further on.
NormalizeAt(words, i, from) ==
    LET name == Basename(WordAt(words, i)) IN
    IF i > Len(words) THEN Command(<< >>)
    ELSE IF name = "agent-gov" /\ WordAt(words, i + 1) = "run"
         THEN [kind |-> "wrapped", argv |-> << >>]
    ELSE IF name \in UnsafeWrappers THEN [kind |-> "unsafe", argv |-> << >>]
    ELSE IF name \in Wrappers THEN from[SkipWrapper(words, i)]
    ELSE Command(SubSeq(words, i, Len(words)))

\* The Normalized command, or why there is none.
Normalize(words) ==
    LET from[i \in 1 .. Len(words) + 3] == NormalizeAt(words, i, from)
    IN  from[Program(words)]

MavenGoals    == {"clean", "compile", "test", "package", "verify", "install"}
GradleTasks   == {"clean", "assemble", "build", "check", "test"}
NodeServices  == {"start", "dev", "watch"}
NodeCommands  == {"install", "ci", "test", "build", "lint", "typecheck"}
NodeScripts   == {"build", "test", "lint", "typecheck"}
BuildTools    == {"xcodebuild", "make", "gmake", "ninja"}
SetTools == [cargo    |-> {"build", "test", "check", "clippy"},
             go       |-> {"build", "test"},
             dotnet   |-> {"restore", "build", "test"},
             bazel    |-> {"build", "test"},
             bazelisk |-> {"build", "test"},
             swift    |-> {"build", "test"}]

HeavyIf(condition) == IF condition THEN "heavy" ELSE "unknown"

IsTask(w) == w \notin Flags

Task(w) == IF w \in DOMAIN TaskName THEN TaskName[w] ELSE w

NodeClass(command, script) ==
    IF command \in NodeServices THEN "service"
    ELSE IF command # "run" THEN HeavyIf(command \in NodeCommands)
    ELSE IF script \in NodeServices \cup WatchScripts THEN "service"
    ELSE HeavyIf(script \in NodeScripts)

\* The match over the program's name and the functions it calls.
ToolClass(name, args) ==
    LET tasks == SelectSeq(args, IsTask) IN
    CASE name \in {"mvn", "mvnw"} ->
            IF "spring-boot:run" \in ToSet(args) THEN "service"
            ELSE HeavyIf(ToSet(tasks) \cap MavenGoals # {})
      [] name \in {"gradle", "gradlew"} ->
            IF ToSet(args) \cap {"--continuous", "-t"} # {} THEN "service"
            ELSE HeavyIf(\E w \in ToSet(tasks) :
                            Task(w) \in GradleTasks \cup TestTasks)
      [] name \in {"npm", "yarn", "yarnpkg", "pnpm"} ->
            NodeClass(WordAt(tasks, 1), WordAt(tasks, 2))
      [] name \in DOMAIN SetTools -> HeavyIf(WordAt(tasks, 1) \in SetTools[name])
      [] name = "docker" ->
            HeavyIf(\/ WordAt(tasks, 1) = "build"
                    \/ WordAt(tasks, 1) = "compose" /\ WordAt(tasks, 2) = "build")
      [] OTHER -> HeavyIf(name \in BuildTools)

AlreadyWrapped(words) == Normalize(words).kind = "wrapped"

Rule == [argv_prefix : Seq(STRING) \ {<< >>}, class : {"heavy", "light", "service"}]

\* The first of the user's rules that fits; they come before the built-in ones.
Matching(rules, argv) == {r \in DOMAIN rules : IsPrefix(rules[r].argv_prefix, argv)}

FirstRule(rules, matches) ==
    rules[CHOOSE r \in matches : \A s \in matches : r <= s]

ClassOf(normal, rules) ==
    LET matches == Matching(rules, normal.argv) IN
    IF normal.kind = "wrapped" THEN "light"
    ELSE IF normal.kind = "unsafe" THEN "unknown"
    ELSE IF matches # {} THEN FirstRule(rules, matches).class
    ELSE IF normal.argv = << >> THEN "unknown"
    ELSE ToolClass(Basename(Head(normal.argv)), Tail(normal.argv))

\* classify_argv.
Class(words, rules) == ClassOf(Normalize(words), rules)

(***************************************************************************)
(* parse.rs.  A line has a syntax: "deep" lines exceed the depth of walk,  *)
(* "odd" ones are unsupported.  A segment is hidden when it has an unsafe  *)
(* ancestor or dynamic syntax inside; sep is the text up to the next one.  *)
(***************************************************************************)
\* The lines whose words and operators are of Word.
LinesOf(Word) ==
    [syntax : {"plain", "odd", "deep"},
     segs   : Seq([words : Seq(Word), sep : Word, hidden : BOOLEAN])]

CommandLine == LinesOf(STRING)

Visible(line) == {i \in DOMAIN line.segs : ~line.segs[i].hidden}

Supported(line) == line.syntax = "plain" /\ Visible(line) # {}

IsBackground(segment) == segment.sep = "&"

PlacedClass(class, segment) ==
    IF class = "heavy" /\ IsBackground(segment)
    THEN "unsafe-background-heavy" ELSE class

SegmentClass(segment, rules) == PlacedClass(Class(segment.words, rules), segment)

WithClass(line, classes, rules) ==
    {i \in Visible(line) : SegmentClass(line.segs[i], rules) \in classes}

HeavyCount(line, rules) ==
    IF Supported(line)
    THEN Cardinality(WithClass(line, {"heavy", "unsafe-background-heavy"}, rules))
    ELSE 0

\* shell_frame: the line without the text of its visible commands.
ShellFrame(line) ==
    [i \in DOMAIN line.segs |->
        IF line.segs[i].hidden THEN line.segs[i]
        ELSE [line.segs[i] EXCEPT !.words = << >>]]

\* Bug: what follows the prefix is not compared.
BeginsWithRtk(original, candidate) ==
    Basename(WordAt(candidate, Program(candidate))) = "rtk"

AddsOnlyRtkPrefix(original, candidate) ==
    /\ Len(candidate) = Len(original) + 1
    /\ Basename(candidate[Program(original)]) = "rtk"
    /\ RemoveAt(candidate, Program(original)) = original

RewritePreservesStructure(original, candidate, rules) ==
    \/ original = candidate
    \/ /\ Supported(original) /\ Supported(candidate)
       /\ HeavyCount(original, rules) = HeavyCount(candidate, rules)
       /\ ShellFrame(original) = ShellFrame(candidate)
       /\ \A i \in Visible(original) :
            LET before == original.segs[i]
                after  == candidate.segs[i]
            IN  /\ SegmentClass(before, rules) = SegmentClass(after, rules)
                /\ ToSet(before.words) \cap AngleWords = {}
                /\ ToSet(after.words) \cap AngleWords = {}
                /\ AddsOnlyRtkPrefix(before.words, after.words)

(***************************************************************************)
(* rewrite.rs                                                              *)
(***************************************************************************)
Govern(words) ==
    LET k == Program(words) IN
    SubSeq(words, 1, k - 1) \o <<Governor, "run", "--">>
        \o SubSeq(words, k, Len(words))

\* Bug: of several heavy segments only the first is wrapped.
FirstToGovern(line, rules) ==
    LET heavy == WithClass(line, {"heavy"}, rules) IN
    {i \in heavy : Supported(line) /\ \A j \in heavy : i <= j}

\* The segments that are wrapped.
ToGovern(line, rules) ==
    {i \in WithClass(line, {"heavy"}, rules) :
        Supported(line) /\ ~AlreadyWrapped(line.segs[i].words)}

Outcome(line, heavy) ==
    [line |-> [line EXCEPT !.segs = [i \in DOMAIN line.segs |->
                IF i \in heavy
                THEN [line.segs[i] EXCEPT !.words = Govern(@)]
                ELSE line.segs[i]]],
     denied |-> FALSE, heavySegments |-> Cardinality(heavy)]

Refused(line, rules) ==
    [line |-> line, denied |-> TRUE, heavySegments |-> HeavyCount(line, rules)]

Rewrite(line, rules, denyBackground) ==
    IF /\ denyBackground /\ Supported(line)
       /\ WithClass(line, {"unsafe-background-heavy"}, rules) # {}
    THEN Refused(line, rules)
    ELSE Outcome(line, ToGovern(line, rules))

=============================================================================
