SPECIFICATION FairSpec
CONSTANTS
  object = object
  array = array
  B = B
  C = C
  R1 = R1
  R2 = R2
  R3 = R3
  Class = {object, array, B, C}
  Object = object
  Array = array
  Record = {R1, R2, R3}
  Name = {1, 2, 3}
  Program <- MCProgram
CHECK_DEADLOCK FALSE
INVARIANTS DependenciesFirst SolvesExact ObjectLayoutExact DispatchExact FailsOnlyUnloadable
PROPERTIES LoadCompletes
