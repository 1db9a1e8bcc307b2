SPECIFICATION Spec
CONSTANTS
    Lines = 2
    Cols = 3
    Steps = {1, 2}
    MaxOps = 3
    MaxWaiting = 1
INVARIANTS ScreenSent
