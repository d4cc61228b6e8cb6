SPECIFICATION Spec
CONSTANTS
    s1 = s1
    Stops = {}
    Job = job
    Nobody = nobody
    Plans = {"TP_FINAL"}
    Cycles = 1
    Held = 2
    Keep = 1
    Resting = 1
    AfterExit = "REENTRY_READY"
    Patience = 1
    HandCloses = 1
    Listed = {TRUE}
    Fails <- NotCancel
    Expires = FALSE
    Late = FALSE
CHECK_DEADLOCK FALSE
INVARIANTS
    NoZombieEntry
