SPECIFICATION Spec
CONSTANTS
    None = None
    Clients = {c1, c2, c3}
    MaxWorkers = 2
    MaxFaults = 1
INVARIANTS
    StopIsClean
PROPERTIES
    NothingAfterCancel
    ServingEnds
CHECK_DEADLOCK FALSE
