\* Every fault but an unresolved toolset, two executors, DynamoDB.
SPECIFICATION Spec
CONSTANTS
  e1 = e1
  e2 = e2
  NoDoc = NoDoc
  Deployments <- OnDynamo
  Executors <- TwoExecutors
  MaxSteps = 1
  Faults <- NearlyAllFaults
INVARIANTS NothingLeftOpen StatusHasAuthor
SYMMETRY Symmetry
CHECK_DEADLOCK FALSE
