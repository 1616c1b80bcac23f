SPECIFICATION Spec
CONSTANTS
  None = None
  n1 = n1
  n2 = n2
  n3 = n3
  n4 = n4
  Funcs <- Four
  Programs <- NamedApart
  MaxCompiles = 3
INVARIANTS
  TypeOK
  CallsTheCallee
  ContextMatches
  OneCopy
  NamesAvailable
  InlineHonoured
