SPECIFICATION Spec
CONSTANTS
    Modulus = 2113
    Generator = 5
    Shapes <- BluesteinShapes
    Batches = {1}
    Placements = {"in_place", "out_of_place"}
    Normalizations = {"forward"}
    Stale = 5
INVARIANTS
    OutputIsSpectrum
    WorkItemsIndependent
    InBounds
