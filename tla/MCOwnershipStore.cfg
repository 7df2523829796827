SPECIFICATION Spec
CONSTANTS
    p1 = p1
    p2 = p2
    None = None
    Torn = Torn
    Procs = {p1, p2}
    Records <- MCRecords
    Successor <- MCSuccessor
    First <- MCFirst
    Cleaned <- MCCleaned
SYMMETRY MCSymmetry
INVARIANTS
    InstalledRecordIsWhole
    AcknowledgedIsDurable
    StagedIsSuccessor
PROPERTY
    ImplementsAuthority
