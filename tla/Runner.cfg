\* The life of a VM and of the requests it posts.
SPECIFICATION FairSpec
CONSTANTS
    Work <- MCWork
    LogSize <- MCLogSize
    MaxFaults = 1
    RunnerMax = 10
    RunnerHalf = 5
    ServerMax = 10
    ServerHalf = 4
    MarkerLength = 1
INVARIANTS
    TypeOK
    SilentNeedsExcuse
    LogBeforeReport
    StoredLogIsFaithful
PROPERTIES
    DoneStays
    PhaseFrozen
    ReportArrives
CHECK_DEADLOCK FALSE
