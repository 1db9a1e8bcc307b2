SPECIFICATION Spec
CONSTANTS
    Keys = {1, 2, 3}
    Group <- Pairs
    Touched = {2}
    Ops <- SomeRelations
    Hasty = FALSE
 
PROPERTIES ScanRight EofHonest
CHECK_DEADLOCK FALSE
