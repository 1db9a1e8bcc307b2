SPECIFICATION Spec
CONSTANTS
    MaxItems = 3
    MaxDepth = 4
    Fcds = {1, 2}
    Keys = {1, 2, 3, 4, 5, 6, 7}
    Alts = {1, 2}
    MaxHdrs = 2
    Scenarios <- All
INVARIANTS IndexRight NoDangling
PROPERTIES ScanRight
CHECK_DEADLOCK FALSE
