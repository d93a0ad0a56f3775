SPECIFICATION FairSpec
CONSTANTS
    CallsFail = TRUE
    Assignments = {"A=1"}
    Flags = {"-n", "-n5", "-p", "-i", "-s", "-q", "-t", "--", "--continuous"}
    NiceLevels = {"-n5"}
    AngleWords = {"a>b", ">out"}
    FileName <- MCFileName
    TaskName <- MCTaskName
    TestTasks = {"unitTest"}
    WatchScripts = {"test:watch"}
    Governor = "/bin/agent-gov"
    Calls <- MCCalls
    StrayLines <- MCStrayLines
    SafePrefixes <- MCSafePrefixes
    TimeoutFloor = 2
INVARIANTS HookInv NothingLeft HeavyGoverned OnlyInsertions VerdictHonoured ClassificationStable
PROPERTY Answered
CHECK_DEADLOCK FALSE
