\* One request, to every end it may have.
SPECIFICATION Spec
CONSTANTS
  Estimate = 1
  MaxTokens = 3
  MaxInput = 2
INVARIANTS
  NeverAHole
  CompletedIsExact
CHECK_DEADLOCK FALSE
