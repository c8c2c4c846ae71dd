SPECIFICATION MCSpec
CONSTANTS
  None = None
  Turns = {t1, t2}
  Chats = {A, B}
  MaxEvents = 2
  MaxBreaks = 1
  MaxExtras = 1
  MaxChanges = 3
  MaxFetches = 1
  MaxSwitches = 1
SYMMETRY Symmetry
INVARIANTS NothingDropped SavedTwiceOnlyBlind StreamIsPrefix NothingStuck NothingMissed LabelsFresh NoStrangers
CHECK_DEADLOCK FALSE
