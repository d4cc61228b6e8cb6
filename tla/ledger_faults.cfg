SPECIFICATION Spec
CONSTANTS
    x = x
    a = a
    Orders = {x, a}
    Purpose <- ExitAndAdd
    OrderQty = 2
    Prices = {1, 3}
    Entry = 2
    Sign = 1
    Fee = 1
    Scale = 2
    ProbeBudget = 2
    MaxLost = 1
    MaxRepeated = 1
    WithRepair = FALSE
    RepeatOld = FALSE
CHECK_DEADLOCK FALSE
INVARIANTS
    CatchesUp
    LedgerInv
    ProfitIsExact
    CapitalIsExact
PROPERTIES
    BooksAtMostOnce
