\* A job and a submission, three commits.
SPECIFICATION Spec
CONSTANTS
    k1 = k1
    k2 = k2
    Keys <- MCKeys
    Entries <- MCEntries
    Jobs = {j1}
    Server = srv
    MaxFaults = 1
INVARIANTS
    TypeOK
    CatalogsAgree
    RowsDescribed
    HeadIsLive
CHECK_DEADLOCK FALSE
