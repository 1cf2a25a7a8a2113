SPECIFICATION Spec
CONSTANTS
    Modulus = 2521
    Generator = 17
    Shapes <- RadixShapes
    Batches = {1, 2}
    Placements = {"out_of_place"}
    Normalizations = {"backward"}
    Stale = 5
INVARIANTS
    OutputIsSpectrum
    WorkItemsIndependent
