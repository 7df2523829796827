SPECIFICATION TunnelFairSpec
CONSTANTS
    None = None
    Torn = Torn
    MaxFaults = 3
INVARIANTS
    OwnedInOrder
PROPERTIES
    ImageIsReviewed
    TunnelRecoveryCompletes
CHECK_DEADLOCK FALSE
