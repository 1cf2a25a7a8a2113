SPECIFICATION Spec
CONSTANTS
    Threads = {t1, t2}
    NoThread = NoThread
    b1 = b1
    b2 = b2
    Buffers = {b1, b2}
    Invalid = Invalid
    Produced <- FillsFirst
    Provider = "portable_sycl"
    Placement = "out_of_place"
    Scaled = TRUE
    Axes <- BluesteinThenMixed
    MaxCalls = 2
    MaxFaults = 0
INVARIANTS
    DataInv
    IInv
    SerialExecution
    NoRace
    NoUseAfterFree
PROPERTIES
    ImplementsSerialPlan
