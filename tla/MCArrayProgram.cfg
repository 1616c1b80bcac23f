SPECIFICATION Spec
CONSTANTS
    W = 5
    N = 3
    P64 = 6
    P32 = 3
    MaxFloat = 32
    Inputs <- MCInputs
    Indices <- MCIndices
    NewShapes <- MCNewShapes
    Supported <- MCSupported
    MaxSteps = 3
INVARIANTS
    TypeOK
    SameElements
CHECK_DEADLOCK FALSE
