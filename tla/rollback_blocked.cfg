SPECIFICATION Spec
CONSTANTS
    Agent = {claude, cursor}
    Binary = {b1}
    NoBinary = none
    MaxEdits = 2
    MaxCommands = 3
    MaxFaults = 1
    UndoMayFail = FALSE
SYMMETRY Symmetry
PROPERTY FailureRestores
