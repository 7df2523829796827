SPECIFICATION Spec
CONSTANTS
    None = None
    Torn = Torn
    Subscribed = TRUE
    MaxRotations = 2
    MaxFailures = 0
    MaxPowerLoss = 0
INVARIANTS
    NextRotationIsOpen
CHECK_DEADLOCK FALSE
