\* Two objects, overlapping passes, overlapping refreshes.
SPECIFICATION Spec
CONSTANTS
  Absent = Absent
  Unjudged = Unjudged
  NoCap = NoCap
  Names = {1, 2}
  Budgets = {1, 2}
  Caps = {NoCap, 2}
  Passes = {p1, p2}
  Readers = {q1, q2}
  Settings <- MCSettings
  p1 = p1
  p2 = p2
  q1 = q1
  q2 = q2
  TTL = 1
  Latency = 1
INVARIANTS
  AllowanceHolds
  HonouredIsRecent
PROPERTIES
  VerdictOfItsSpec
  Converges
CHECK_DEADLOCK FALSE
