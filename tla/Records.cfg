SPECIFICATION MCSpec
CONSTANTS
  Workers = {w1, w2}
  Guests = {g1, g2, g3}
  Learnt = {g1, g2}
  Owner = Owner
  Stranger = Stranger
  Cap = 1
  MaxNames = 2
  MaxJobs = 4
  Chats = {A, B}
  Passes = {p1, p2}
  MaxRows = 3
  Keep = 1
  MaxRenames = 1
SYMMETRY Symmetry
INVARIANTS CapHolds AsksNotStacked SoloUnlessOvertaken SummaryCovers NotesKept
CHECK_DEADLOCK FALSE
