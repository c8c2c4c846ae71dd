SPECIFICATION FairSpec
CONSTANTS
  s1 = s1
  c1 = c1
  a1 = a1
  None = None
  Sends = {s1}
  Continues = {c1}
  Handbacks = {}
  Aborts = {a1}
  MaxSeats = 2
CHECK_DEADLOCK FALSE
PROPERTIES AbortReturns TurnAnswered RoundFinishes
