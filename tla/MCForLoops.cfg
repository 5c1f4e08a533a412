SPECIFICATION Spec
CONSTANTS
  Programs <- ForPrograms
  MaxAnswers = 3
  Depth = 0
INVARIANT
  ForLoopsAsWritten
