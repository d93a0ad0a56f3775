SPECIFICATION Spec
CONSTANTS
    Proc = {1, 2, 3}
    Owner <- MCOwner
    InitialCapacity = 1
    WaitExpires = TRUE
    WritesFail = TRUE
    MaxDisturbances = 1
    MaxAdmin = 3
    MaxQueue = 2
    MaxQueuedPerOwner = 1
INVARIANTS TypeOK SlotExclusion WaiterKeepsPlace QueueInv NoTraceLeft QueueBounded TraceInv
PROPERTIES DrainStopsAdmission ImplementsFifoPool OrphanKeepsSlot ImplementsJobs
CONSTRAINT OneOfAlike
