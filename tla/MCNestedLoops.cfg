SPECIFICATION FairSpec
CONSTANTS
  NumThreads = 1
  MaxGrain = 2
  Word = 32
  Inputs <- AllNests
INVARIANTS
  TypeOK
  ExactlyOnce
  NothingOutside
PROPERTIES
  Termination
