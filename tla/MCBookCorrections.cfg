SPECIFICATION Spec
CONSTANTS
  u1 = u1
  t1 = t1
  t2 = t2
  e1 = e1
  e2 = e2
  s1 = s1
  s2 = s2
  User = {u1}
  Ticket = {t1}
  Event = {e1}
  Selection = {s1}
  Pass = {p1}
  ResultsPass = {p1}
  EventOf <- EventPerSelection
  Gradable = {s1}
  Linked = {}
  Bettor <- OneBettor
  Slip <- OneSelection
  Stake <- UnitStake
  Payout <- UnitPerLeg
  OtherPayout = {1}
  OpeningBalance <- Two
  MaxPendingSlips = 2
  InUse = {"cashout", "user_cancel", "bet_cancel", "match_result", "desk", "void_leg",
           "reopen", "trading", "postpone", "cancel_event", "overdue", "restart"}
INVARIANTS
  TypeOK
  WalletMatchesLedger
CHECK_DEADLOCK FALSE
