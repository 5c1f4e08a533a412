SPECIFICATION Spec
CONSTANTS
  Programs <- MCPrograms
  MaxAnswers = 3
  Depth = 3
INVARIANTS FollowsSource InStep LineIsNear
PROPERTIES SearchesLines Progress
