SPECIFICATION FairSpec
CONSTANTS
    None = None
    Torn = Torn
    Failed = Failed
    MaxLinks = 3
    MaxFailures = 3
    MaxPowerLoss = 2
INVARIANTS
    OneLink
    HostFitsTheRecord
    ReportIsKept
PROPERTIES
    LinksAreFinal
    ChangeEnds
CHECK_DEADLOCK FALSE
