SPECIFICATION Spec
CONSTANTS
  Ids = {1, 2}
  Names = {a, b}
  Clips = {c1}
  NoClip = NoClip
  MaxActs = 1
  MaxFaults = 1
PROPERTY NeverOfferedBack
CHECK_DEADLOCK FALSE
