SPECIFICATION FairSpec
CONSTANTS
  NumThreads = 2
  MaxConcurrency = 3
  Count = 5
  Grain = 1
  ReduceOp = "add"
  MaxDepth = 1
INVARIANTS
  TypeOK
  EachIterationHeldOnce
  ResultCorrect
PROPERTIES
  ImplementsLoopOnce
  Termination
