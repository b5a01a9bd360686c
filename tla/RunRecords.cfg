\* Every substrate over DynamoDB, Firestore on its two; the run's own faults; fair processes.
SPECIFICATION LiveSpec
CONSTANTS
  e1 = e1
  e2 = e2
  NoDoc = NoDoc
  Deployments <- OnEither
  Executors <- OneExecutor
  MaxSteps = 3
  Faults <- LocalFaults
INVARIANT AnswerStands
PROPERTIES
  RecordStands
  SettlesEventually
CHECK_DEADLOCK FALSE
