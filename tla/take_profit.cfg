SPECIFICATION FairSpec
CONSTANTS
    Levels = 2
    Ratios <- Halves
    DefaultRatio = 50
    Extras = {100}
    MinClose = 2
    FirstLevel = 1
    Overrides = {1}
    Pending = 2
    MinTrail = 2
    PeakMin = 2
    Retrace = 1
    StopAt <- StopRoi
    Rois <- SmallRois
    Held = 4
    Lot = 2
    Budgets <- SomeBudgets
    Obv = TRUE
CHECK_DEADLOCK FALSE
INVARIANTS
    TpInv
PROPERTIES
    TakenInTurn
    RetreatIsTaken
    FlatEnds
    LadderIsClimbed
