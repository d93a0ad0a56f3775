SPECIFICATION FairSpec
CONSTANTS
    Proc = {1, 2, 3}
    Owner <- MCOwner
    InitialCapacity = 1
    WaitExpires = FALSE
    WritesFail = FALSE
    MaxDisturbances = 1
    MaxAdmin = 0
    MaxQueue = 2
    MaxQueuedPerOwner = 2
PROPERTIES Termination WaiterServed
