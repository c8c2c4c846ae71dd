SPECIFICATION FairSpec
CONSTANTS
  Ids = {1, 2, 3}
  Names = {a, b}
  Clips = {c1}
  NoClip = NoClip
  MaxActs = 3
  MaxFaults = 1
INVARIANTS TypeOK StaysRemoved NobodyReturns
PROPERTIES Converges
CHECK_DEADLOCK FALSE
