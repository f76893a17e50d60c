SPECIFICATION FairSpec
CONSTANTS
  None = None
  u1 = u1
  u2 = u2
  r1 = r1
  r2 = r2
  User = {u1, u2}
  Request = {r1, r2}
  Agent = {a1}
  Command = {c1, c2, c3}
  Cashier = {}
  Operator = {}
  Owner <- TwoUsers
  Amount <- UnitAmount
  OpeningBalance <- One
  OpeningWithdrawable <- One
  WageringRemaining <- Zero
  Float <- UnitFloat
  PoolSize = 2
  Reliable = TRUE
  ServerRestarts = TRUE
  MaxDials = 2
INVARIANTS
  DispatchedAtMostOnce
  DialledOnce
  FailureReportedOnlyForFailedDial
PROPERTIES
  DispatchedIsResolved
