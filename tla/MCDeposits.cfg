SPECIFICATION FairSpec
CONSTANTS
  u1 = u1
  u2 = u2
  p1 = p1
  p2 = p2
  r1 = r1
  r2 = r2
  None = None
  Returned = Returned
  User = {u1, u2}
  Payment = {p1}
  Request = {r1, r2}
  Worker = {w1, w2}
  Owner <- TwoUsers
  Amount <- UnitAmount
  Paid <- UnitPaid
  Sender <- FromFirst
  Note <- NoteOfFirst
  Frozen = {u2}
  Escalated = {p1}
  MaxFaults = 1
INVARIANTS
  TypeOK
  RowsMatchLedger
  ConfirmedIsPaid
  ProcessedIsOnFile
PROPERTIES
  CreditedOnce
  ReportedIsOnFile
CHECK_DEADLOCK FALSE
