SPECIFICATION Spec
CONSTANTS
    Proc = {1, 2}
    Owner <- MCOwner
    InitialCapacity = 1
    WaitExpires = FALSE
    WritesFail = FALSE
    MaxDisturbances = 0
    MaxAdmin = 1
    MaxQueue = 2
    MaxQueuedPerOwner = 1
PROPERTY DrainSparesWaiters
