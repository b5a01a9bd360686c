\* The documented hard stop when the month turns.
SPECIFICATION Spec
CONSTANTS
  c1 = c1
  c2 = c2
  c3 = c3
  t1 = t1
  s1 = s1
  NoSession = NoSession
  Calls <- MCCalls
  Tenants <- MCTenants
  Sessions <- MCSessions
  TenantOf <- MCTenantOf
  SessionOf <- MCSessionOf
  Worst <- MCWorst
  SessionCap = 3
  Caps = {3}
  LastMonth = 2
  Most = 3
  Costs = {0, 1, 3}
INVARIANT TenantHardStop
CHECK_DEADLOCK FALSE
