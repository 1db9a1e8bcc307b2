SPECIFICATION Spec
CONSTANTS
    Clients = {"c1", "c2", "c3"}
    Supports = {"s1", "s2"}
    Lines = 2
    Cols = 2
    Regions <- Some
    Casts <- Three
INVARIANTS Reachable Mirror
PROPERTIES Answered
CHECK_DEADLOCK FALSE
