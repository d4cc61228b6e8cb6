SPECIFICATION Spec
CONSTANTS
    w1 = w1
    o2 = o2
    o1 = o1
    n1 = n1
    n2 = n2
    n3 = n3
    bb = bb
    re = re
    m1 = m1
    m2 = m2
    Signals = {w1}
    Reentry = reentry
    Ids = {o1, o2, n1, n2, n3}
    Old = {o1, o2}
    NoId = noid
    Nobody = nobody
    Markets = {m1, m2}
    Families = {bb, re}
    MarketOf <- Place
    FamilyOf <- Family
    DailyMax <- PerDay
    Limit = 1
    MaxConcurrent = 4
    Troubles = {"switch", "halt", "ban", "unanswered", "crash"}
    MaxTroubles = 1
SYMMETRY Fresh
CHECK_DEADLOCK FALSE
INVARIANTS
    AutoInv
    FamilyDailyCap
    SlotBound
    EntriesAreKnown
    ReentryOnce
PROPERTIES
    EntersByLicence
