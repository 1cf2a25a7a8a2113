SPECIFICATION Spec
CONSTANTS
    Threads = {t1, t2}
    NoThread = NoThread
    ThePlan = p1
    Plans = {p1}
    Buffers = {b1, b2}
    Null = Null
    Aligned = {b1}
    Placement = "out_of_place"
    Scaled = TRUE
    Distinct = FALSE
    MaxCalls = 3
    MaxFailures = 1
INVARIANTS
    OutOfPlaceDistinct
