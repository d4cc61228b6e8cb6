SPECIFICATION Spec
CONSTANTS
    s1 = s1
    Stops = {s1}
    Job = job
    Nobody = nobody
    Plans = {"FORCE_SL", "TRIM"}
    Cycles = 1
    Held = 2
    Keep = 1
    Resting = 0
    AfterExit = "REENTRY_READY"
    Patience = 1
    HandCloses = 0
    Listed = {TRUE}
    Fails <- AnyFailure
    Expires = TRUE
    Late = FALSE
CHECK_DEADLOCK FALSE
INVARIANTS
    TypeOK
    NoOrphan
    CloseInv
