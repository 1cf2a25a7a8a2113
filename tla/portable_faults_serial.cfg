SPECIFICATION Spec
CONSTANTS
    Threads = {t1, t2}
    NoThread = NoThread
    b1 = b1
    b2 = b2
    Buffers = {b1, b2}
    Invalid = Invalid
    Produced <- NothingPending
    Provider = "portable_sycl"
    Placement = "in_place"
    Scaled = TRUE
    Axes <- OneAxis
    MaxCalls = 2
    MaxFaults = 1
INVARIANTS
    SerialExecution
