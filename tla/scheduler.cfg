SPECIFICATION FairSpec
CONSTANTS
    p1 = p1
    p2 = p2
    job = job
    Nodes = {p1, p2}
    Jobs = {job}
    Slow = {}
    Nobody = nobody
    Ttl = 3
    Wait = 4
    JobTtl = 2
    MaxWipes = 1
    MaxFaults = 3
CHECK_DEADLOCK FALSE
INVARIANTS
    LeaderInv
PROPERTIES
    TakesTurns
    StoppedStaysOut
    LoneProcessLeads
    LeaderAgain
