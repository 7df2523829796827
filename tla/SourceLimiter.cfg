SPECIFICATION LimiterSpec
CONSTANTS
    NoCall = NoCall
    Sources = {s1, s2, s3}
    Workers = {w1, w2}
    Burst = 2
    Refill = 2
    Idle = 5
    MaxSources = 2
    MaxDelay = 1
    MaxTime = 8
INVARIANTS
    RateBounded
PROPERTIES
    NobodyIsShort
CHECK_DEADLOCK FALSE
