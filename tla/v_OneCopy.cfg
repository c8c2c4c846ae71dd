SPECIFICATION Spec
CONSTANTS
  s1 = s1
  s2 = s2
  h1 = h1
  a1 = a1
  None = None
  Sends = {s1, s2}
  Continues = {}
  Handbacks = {h1}
  Aborts = {a1}
  MaxSeats = 1
CHECK_DEADLOCK FALSE
INVARIANT OneCopy
