SPECIFICATION FairSpec
CONSTANTS
    t1 = t1 t2 = t2 w1 = w1 w2 = w2
    Tables = {t1, t2}
    Added <- One
    Keys = {1, 2}
    Written <- Three
    Writers = {w1, w2}
    Pipes = {FALSE, TRUE}
    MaxId = 2
    MaxFaults = 2
INVARIANTS Converges
PROPERTIES FirstInOrder Drained
