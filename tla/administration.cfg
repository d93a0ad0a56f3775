SPECIFICATION Spec
CONSTANTS
    Operator = {o1, o2}
    Command <- MCCommand
    Capacities = {1, 2, 3}
    OtherThings = {"default", "mine"}
    Default = "default"
    WritesFail = TRUE
    MaxCrashes = 1
    MaxEdits = 1
SYMMETRY Symmetry
INVARIANTS TypeOK Transaction DrainRestored
PROPERTIES ChangeOnlyWhenIdle SettingsKept
CHECK_DEADLOCK FALSE
