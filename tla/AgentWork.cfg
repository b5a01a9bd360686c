\* Three calls on one memory; six paths; one job and two servers; two callers; two runs of two turns; four logins.
SPECIFICATION Spec
CONSTANTS
  Calls = {c1, c2, c3}
  Notes = {m, n}
  NoReply = NoReply
  Refused = Refused
  Error = Error
  Remembered = Remembered
  Best = 2
  TopK = 1
  MaxResults = 1
  Plain = {a, b, e, f}
  Dot = {d}
  Vendored = {v}
  MassMin = 2
  MaxFiles = 2
  Native = {b}
  Jobs = {j}
  Servers = {s1, s2}
  Callers = {u1, u2}
  None = None
  Life = 3
  Margin = 1
  Latency = 1
  Horizon = 6
  Failures = 2
  Runs = {r1, r2}
  Cap = 4000
  MaxTurns = 2
  MaxOut = 2
  Chars = 2
  MaxLogins = 4
  Mishaps = 2
INVARIANTS
  RememberedIsFound
  JobEndsWell
  HandedAlive
  MoneyIsTold
  LoginIsItsOwn
PROPERTIES
  PushedIsTheWork
  HandedAgain
CHECK_DEADLOCK FALSE
