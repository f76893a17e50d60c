SPECIFICATION Spec
CONSTANTS
  u1 = u1
  t1 = t1
  t2 = t2
  e1 = e1
  e2 = e2
  s1 = s1
  s2 = s2
  User = {u1}
  Ticket = {t1, t2}
  Event = {e1, e2}
  Selection = {s1, s2}
  Pass = {p1, p2}
  ResultsPass = {p2}
  EventOf <- EventPerSelection
  Gradable = {s1, s2}
  Linked = {e1, e2}
  Bettor <- OneBettor
  Slip <- ParlayAndSingle
  Stake <- UnitStake
  Payout <- UnitPerLeg
  OtherPayout = {1}
  OpeningBalance <- Two
  MaxPendingSlips = 2
  InUse = {"cashout", "postpone", "restart"}
INVARIANTS
  WinMatchesLegs
PROPERTIES
  KeepsPromise
CHECK_DEADLOCK FALSE
