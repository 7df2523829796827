SPECIFICATION FairSpec
CONSTANTS
    None = None
    Torn = Torn
    MaxFaults = 4
INVARIANTS
    ResourcesAreOwned
    LiveProxyIsCommitted
    RecordNeverAhead
PROPERTIES
    NoReversal
    RecoveryCompletes
CHECK_DEADLOCK FALSE
