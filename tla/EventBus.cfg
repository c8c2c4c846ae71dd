SPECIFICATION FairSpec
CONSTANTS
  m1 = m1
  m2 = m2
  p1 = p1
  t1 = t1
  Inserts = {m1, m2}
  Patches = {p1}
  Tabs = {t1}
  MaxBreaks = 2
INVARIANTS NoLostWakeup OnceEach
PROPERTIES MessagesArrive StreamsEnd
CHECK_DEADLOCK FALSE
