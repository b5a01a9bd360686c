\* A harness free to spin, hang, die, commit anywhere and push anything.
SPECIFICATION Spec
CONSTANTS
  Repos = {r1, r2}
  NoRepo = NoRepo
  RunRepos = {r1, NoRepo}
  ToolCalls = {a, b}
  Threshold = 2
  MaxEvents = 2
  MaxCommits = 1
INVARIANTS
  DetectsSpinning
  EndIsExplained
  
PROPERTIES
  
  RunEnds
CHECK_DEADLOCK FALSE
