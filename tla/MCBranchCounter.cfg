SPECIFICATION Spec
CONSTANTS
  u1 = u1
  c1 = c1
  c2 = c2
  dep = dep
  wdr = wdr
  None = None
  User = {u1}
  Cashier = {k1, k2}
  Shift = {s1, s2}
  Code = {c1, c2}
  Key = {dep, wdr}
  Session = {x1, x2}
  Bet = {b1}
  Owner <- OneOwner
  Amount <- OneOrTwo
  Deposits = {dep}
  Opening <- TwoUnits
INVARIANTS
  CodeSettledOnce
  LockedMatchesCodes
  WalletMatchesLedger
PROPERTIES
  CodesAreHeldCash
  CountIsKept
CHECK_DEADLOCK FALSE
