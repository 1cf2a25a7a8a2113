SPECIFICATION Spec
CONSTANTS
    Threads = {t1, t2}
    NoThread = NoThread
    ThePlan = p1
    Plans = {p1, p2}
    Buffers = {b1, b2}
    Null = Null
    Aligned = {b1}
    Placement = "in_place"
    Scaled = TRUE
    Distinct = TRUE
    MaxCalls = 3
    MaxFailures = 1
SYMMETRY Symmetry
INVARIANTS
    TypeOK
    PlannerExclusive
    NoNativePlanLost
    UnscaledIsPrivate
