SPECIFICATION Spec
CONSTANTS
    Agent = {claude, cursor}
    Binary = {b1, b2}
    NoBinary = none
    MaxEdits = 1
    MaxCommands = 3
    MaxFaults = 1
    UndoMayFail = TRUE
SYMMETRY Symmetry
CONSTRAINT FourEvents
INVARIANTS TypeOK InstallerInv
PROPERTIES InstallEffective UninstallEffective RollbackRestores
