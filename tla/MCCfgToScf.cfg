SPECIFICATION Spec
CONSTANTS
    MaxTrace = 6
    MaxArg = 3
    MaxRewrites = 14
    Family = "supported"
INVARIANTS
    BranchesFit
    SameMeaning
    Structured
    RewritingEnds
