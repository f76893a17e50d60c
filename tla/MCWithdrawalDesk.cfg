SPECIFICATION Spec
CONSTANTS
  None = None
  u1 = u1
  u2 = u2
  r1 = r1
  r2 = r2
  User = {u1}
  Request = {r1, r2}
  Agent = {a1}
  Command = {c1}
  Cashier = {k1}
  Operator = {o1}
  Owner <- OneUser
  Amount <- UnitAmount
  OpeningBalance <- Two
  OpeningWithdrawable <- One
  WageringRemaining <- Zero
  Float <- UnitFloat
  PoolSize = 2
SYMMETRY Identical
INVARIANTS
  TypeOK
  WalletMatchesLedger
  OneOpenWithdrawal
  LedgerMatchesOutcome
  PayoutHasPayer
PROPERTIES
  OutcomeIsFinal
  ImplementsEscrow
