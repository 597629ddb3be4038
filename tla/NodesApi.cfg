\* Two runs and two clients of the nodes API.
SPECIFICATION Spec
CONSTANTS
    Runs = {r1, r2}
    OwnIds = {n1}
    Clients = {c1, c2}
INVARIANTS
    TypeOK
    BusyFindsItsRow
    
    TwoRowsNeedRace
PROPERTIES
    RowsImplementNodeTable
SYMMETRY MCSymmetry
CHECK_DEADLOCK FALSE
