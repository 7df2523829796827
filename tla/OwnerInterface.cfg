SPECIFICATION Spec
CONSTANTS
    None = None
    Terminals = {t1, t2}
    MaxGen = 2
    MaxImages = 1
INVARIANTS
    AlwaysFinishable
    ReviewHolds
PROPERTIES
    ChangesAreReviewed
    LockEnds
CHECK_DEADLOCK FALSE
