SPECIFICATION Spec
CONSTANTS
  NumThreads = 2
  MaxConcurrency = 2
  Count = 3
  Grain = 1
  ReduceOp = "add"
  MaxDepth = 2
INVARIANTS
  ResultCorrect
