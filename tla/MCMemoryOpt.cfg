SPECIFICATION Spec
CONSTANTS
  None = None
  A = A
  B = B
  C = C
  x = x
  y = y
  AliasPairs <- Aliases
  Families <- AllBodies
  MaxBack = 2
INVARIANTS
  TypeOK
  SameResults
  SameMemory
  GraphConsistent
PROPERTIES
  RepeatsAfterErasure
