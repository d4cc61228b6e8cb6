SPECIFICATION Spec
CONSTANTS
    s1 = s1
    c1 = c1
    c2 = c2
    p1 = p1
    Starts = {s1}
    Clicks = {c1, c2}
    Stops = {p1}
    Job = job
    Last = 3
    Modes = {"PRICE", "OBV"}
    Lots = 2
    Keep = 1
    Budgets <- AnOverlap
    Together = TRUE
    TrimOn = TRUE
    Partial = FALSE
CHECK_DEADLOCK FALSE
INVARIANT NoDoubling
