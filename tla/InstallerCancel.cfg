SPECIFICATION InstSpec
CONSTANTS
  MaxJobs = 1
  MaxCancels = 1
PROPERTIES CancelEnds
CHECK_DEADLOCK FALSE
