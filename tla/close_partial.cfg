SPECIFICATION Spec
CONSTANTS
    s1 = s1
    Stops = {}
    Job = job
    Nobody = nobody
    Plans = {"TRIM", "TP1"}
    Cycles = 1
    Held = 3
    Keep = 1
    Resting = 0
    AfterExit = "REENTRY_READY"
    Patience = 2
    HandCloses = 0
    Listed <- AnyListing
    Fails <- NotAsked
    Expires = FALSE
    Late = FALSE
CHECK_DEADLOCK FALSE
INVARIANTS
    PartialCloseKeepsRest
    PartialCloseKeepsTheStrategy
