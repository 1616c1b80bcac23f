SPECIFICATION ContextSpec
CONSTANTS
  Pipelines <- Ten
  Registrations <- AllRegistrations
  Ops = {o1, o2, o3}
  Kinds = {"branch", "std", "call", "array", "tuple"}
  StdCallees = {"std", "call", "array", "tuple"}
INVARIANTS
  ContextTypeOK
  OrderRespectsDeps
  ErrorsJustified
  StagesServeJumps
  CompilerSchedule
  NothingLeftForStd
  MarkersServed
PROPERTIES
  Termination
  RunEnds
