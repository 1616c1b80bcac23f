SPECIFICATION Spec
CONSTANTS
    MaxTrace = 12
    MaxRewrites = 12
    MaxIterations = 10
    Family = "supported"
    Programs <- MCPrograms
    Inputs <- MCInputs
INVARIANTS
    LegalFunction
    SameMeaning
    LoopsParallel
    NeighboursFused
