SPECIFICATION FairSpec
CONSTANTS
    x = x
    a = a
    Orders = {x, a}
    Purpose <- TwoExits
    OrderQty = 2
    Prices = {3}
    Entry = 2
    Sign = 1
    Fee = 1
    Scale = 2
    ProbeBudget = 2
    MaxLost = 1
    MaxRepeated = 1
    WithRepair = TRUE
    RepeatOld = FALSE
CHECK_DEADLOCK FALSE
INVARIANTS
    NeverBookedTwice
    CanceledIsReal
PROPERTIES
    RowsSettle
