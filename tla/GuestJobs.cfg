SPECIFICATION FairSpec
CONSTANTS
  t1 = t1
  c1 = c1
  p1 = p1
  Turns = {t1}
  Continues = {c1}
  Parts = {p1}
  MaxRelays = 2
  SettlePolls = 2
  MaxRestarts = 1
  None = None
INVARIANTS
  OneGuest
PROPERTIES
  KeepsChatTurn
  SummonsAnswered
  PauseComes
CHECK_DEADLOCK FALSE
