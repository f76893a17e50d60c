SPECIFICATION Spec
CONSTANTS
  Txn = {t1, t2}
  HookTxn = {h1, h2}
  Call = {c1, c2}
  Stakes = {1}
  Wins = {2}
  Opening = 2
  MaxBalance = 5
  None = None
SYMMETRY Interchangeable
INVARIANTS
  WalletMatchesLedger
  BetMatchesRows
CHECK_DEADLOCK FALSE
