\* Four callers race on one row; two lost races are enough to give up.
SPECIFICATION CasSpec
CONSTANTS
  r1 = r1
  r2 = r2
  r3 = r3
  a1 = a1
  Callers <- MCCallers
  Capped <- MCCapped
  Delta <- MCDelta
  Ceiling <- MCCeiling
  MaxAttempts = 2
INVARIANT EveryLossIsAWin
PROPERTY CasIsAtomic
CHECK_DEADLOCK FALSE
