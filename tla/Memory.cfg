SPECIFICATION FairSpec
CONSTANTS
  Sweep = Sweep
  Others = {leaving}
  Modern = TRUE
  MaxRows = 2
  MaxFaults = 1
  MaxTurns = 1
INVARIANTS HandedOn GapsShow ReconcileHeals
PROPERTIES RowsArrive
CHECK_DEADLOCK FALSE
