\* Two bets of one player, two crash rounds and one of Keno.
SPECIFICATION Spec
CONSTANTS
  b1 = b1
  b2 = b2
  p1 = p1
  Bet = {b1, b2}
  Player = {p1}
  OwnerOf <- MCOwnerOf
  PlayedOn <- MCPlayedOn
  Opening = 1
  MaxFlight = 2
  AutoTarget = {0, 2}
  Prize = {0, 2}
  MaxWin = 2
  MaxRounds <- MCMaxRounds
INVARIANTS
  WinsMatchStatus
  GambleIsBooked
PROPERTY
  BetsOfOpenRoundsEnd
CHECK_DEADLOCK FALSE
