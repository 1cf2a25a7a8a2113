SPECIFICATION Spec
CONSTANTS
    Threads = {t1, t2}
    NoThread = NoThread
    b1 = b1
    b2 = b2
    Buffers = {b1, b2}
    Invalid = Invalid
    Produced <- FillsFirst
    Provider = "cufft"
    Placement = "out_of_place"
    Scaled = TRUE
    Axes <- OneAxis
    MaxCalls = 3
    MaxFaults = 0
SYMMETRY Symmetry
INVARIANTS
    QuiescentMemory
    EventCoversExecution
