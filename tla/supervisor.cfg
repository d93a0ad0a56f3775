SPECIFICATION FairSpec
CONSTANTS
    Descendant = {d1}
    Client = {c1, c2}
    Delivered = {2, 15}
    OwnStatus = {0}
    CallsFail = TRUE
    MaxKills = 1
INVARIANTS TypeOK SupervisorInv CleanReturn SuccessIsUnforced
PROPERTIES NoSignalAfterReap KillOnlyAfterGrace ImplementsJob SignalEnds CancelEnds TimeLimitEnds
