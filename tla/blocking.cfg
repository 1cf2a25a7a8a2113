SPECIFICATION Spec
CONSTANTS
    Threads = {t1, t2}
    NoThread = NoThread
    b1 = b1
    b2 = b2
    Buffers = {b1, b2, d}
    Aligned = {b1}
    DeviceUsm = {d}
    Invalid = Invalid
    Placement = "out_of_place"
    Scaled = TRUE
    Inner = Inner
    Other = Other
    Produced <- FillsBoth
    Elsewhere = {2}
    MaxCalls = 2
    MaxCommands = 3
    MaxFailures = 1
    MaxThrows = 1
INVARIANTS
    HostWorksAlone
    HostPlanReady
PROPERTIES
    CallsReturn
    ImplementsSerialPlan
