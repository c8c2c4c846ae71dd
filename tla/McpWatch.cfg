SPECIFICATION FairSpec
CONSTANTS
  MaxJobs = 2
  MaxAsks = 1
  MaxStages = 1
  None = None
INVARIANT NoNewsLost
PROPERTIES NothingRepeated WatchEnds
CHECK_DEADLOCK FALSE
