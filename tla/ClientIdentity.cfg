SPECIFICATION FairSpec
CONSTANTS
    None = None
    Torn = Torn
    Subscribed = TRUE
    MaxRotations = 3
    MaxFailures = 3
    MaxPowerLoss = 1
INVARIANTS
    OneIdentity
    HostFitsTheRecord
PROPERTIES
    RevocationIsFinal
    RotationEnds
CHECK_DEADLOCK FALSE
