\* Two processes, two calls of one tenant, a month and a claim that move.
SPECIFICATION HookSpec
CONSTANTS
  c1 = c1
  c2 = c2
  p1 = p1
  p2 = p2
  t1 = t1
  NoClaim = NoClaim
  Calls <- MCCalls
  Processes <- MCProcesses
  Tenants <- MCTenants
  BearerOf <- MCBearerOf
  Worst <- MCWorst
  Naming <- MCNaming
  Costs = {0, 1, 3}
  Grantable = {3}
  DefaultCap = 3
  SessionCap = 3
  CacheTTL = 1
  MaxAge = 0
  LastMonth = 2
  MaxTime = 1
INVARIANTS
  RowsAreHeld
  MonthHardStop
  SettledRight
PROPERTY ClaimIsFresh
SYMMETRY Symmetry
CHECK_DEADLOCK FALSE
