SPECIFICATION Spec
CONSTANTS
  Ticket = {t1, t2, t3}
  Slip = {t1}
  Leg = {l1, l2}
  Cashier = {k1, k2}
  Hasty = {}
  Session = {x1, x2}
  Referred = {t1}
  MaxCorrections = 1
  MaxCopies = 1
  None = None
SYMMETRY Interchangeable
VIEW NothingPrinted
INVARIANTS
  DrawerMatchesTickets
  PaidHasWon
  CopiesWithinLimit
PROPERTY
  CopyBeforeKickOff
CHECK_DEADLOCK FALSE
