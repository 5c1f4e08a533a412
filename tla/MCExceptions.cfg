SPECIFICATION Spec
CONSTANTS
  Failure = Failure
  OutOfRange = OutOfRange
  Conversion = Conversion
  NoClass = NoClass
  Class <- Related
  BaseClass <- MCBaseClass
  PartLists <- OneCatch
  Features = {"missing optional"}
  Node = {n1, n2, n3}
  MaxBlocks = 2
  MaxTemps = 1
  MaxHeight = 2
CHECK_DEADLOCK FALSE
SYMMETRY Symmetry
INVARIANTS HandlersAreOpenParts NoOperandUnderflow
PROPERTY ImplementsStructuredExceptions
