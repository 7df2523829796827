SPECIFICATION CheckSpec
CONSTANTS
    Budget = 3
    Exchange = 2
    ReadyLimit = 2
    Query = 2
    Grace = 1
    MaxEvents = 3
INVARIANTS
    ProbeIsContained
PROPERTIES
    VerifiedIsTrue
    CheckEnds
CHECK_DEADLOCK FALSE
