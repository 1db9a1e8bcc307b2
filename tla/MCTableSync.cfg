SPECIFICATION Spec
CONSTANTS
    Keys = {0, 1, 2, 3}
    Types <- Both
    Tables <- SomeTables
    Files <- SomeFiles
    Earlier <- Emptied
    Orders <- SomeOrders
    Bad = {3}
    Stores = {"B", "I"}
    Faults = TRUE
    Started = TRUE
    MaxCommands = 1
INVARIANTS LogRight  SyncSettles
PROPERTIES CommandEnds OnlyInDatabase
CHECK_DEADLOCK FALSE
