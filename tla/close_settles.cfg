SPECIFICATION FairSpec
CONSTANTS
    s1 = s1
    Stops = {}
    Job = job
    Nobody = nobody
    Plans = {"TRIM", "TP1", "TP_FINAL", "FORCE_SL", "SL"}
    Cycles = 1
    Held = 2
    Keep = 1
    Resting = 0
    AfterExit = "LIQUIDATED_WAITING_RETRY"
    Patience = 1
    HandCloses = 1
    Listed = {TRUE}
    Fails = {"event", "verify"}
    Expires = FALSE
    Late = TRUE
CHECK_DEADLOCK FALSE
PROPERTIES
    StoppingResolves
    QtyFollows
