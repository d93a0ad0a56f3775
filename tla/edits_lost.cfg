SPECIFICATION Spec
CONSTANTS
    Agent = {claude, cursor}
    Binary = {b1}
    NoBinary = none
    MaxEdits = 2
    MaxCommands = 3
    MaxFaults = 0
    UndoMayFail = FALSE
SYMMETRY Symmetry
INVARIANT UninstallKeepsEdits
