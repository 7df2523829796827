SPECIFICATION Spec
CONSTANTS
    None = None
    Owners = {o1, o2}
    MaxSessions = 3
    MaxStarts = 1
    MaxFaults = 2
INVARIANTS
    SourceStaysRevoked
    LentAsRecorded
PROPERTIES
    AuthorizedByTheRecord
    HandoffEnds
CHECK_DEADLOCK FALSE
