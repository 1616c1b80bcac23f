INIT Init
NEXT Next
CONSTANTS
    W = 4
    N = 2
    P64 = 3
    P32 = 2
    MaxFloat = 8
    Scalars <- Types
    Ops <- MCOps
    Faithful <- MCFaithful
INVARIANTS
    SameValue
