SPECIFICATION FairSpec
CONSTANTS
    None = None
    Torn = Torn
    Shapes <- AllShapes
    MaxFaults = 3
INVARIANTS
    RemovalIsRecorded
PROPERTIES
    RemovalIsForward
    RemovalCompletes
CHECK_DEADLOCK FALSE
