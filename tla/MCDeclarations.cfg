SPECIFICATION Spec
CONSTANT
  Programs <- MCPrograms
INVARIANTS FailsOnlyKnown NamesAsDeclared ConstructorsChain SelfHasMember 
CHECK_DEADLOCK FALSE
