SPECIFICATION Spec
CONSTANTS
    Keys = {1, 2, 3}
    Group <- Pairs
    Touched = {2}
    Ops <- OnlyGreaterEqual
    Hasty = FALSE
PROPERTY ShortcutRight
CHECK_DEADLOCK FALSE
