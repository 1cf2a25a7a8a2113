SPECIFICATION Spec
CONSTANTS
    SizeMax = 511
    IntMax = 31
    Smooth <- SmoothLengths
    Requests <- SomeRequests
INVARIANTS
    CountsExact
    RefusedForCause
    ConvolutionFits
    ScratchCovers
    NativeExact
