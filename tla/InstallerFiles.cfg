SPECIFICATION InstSpec
CONSTANTS
  MaxJobs = 1
  MaxCancels = 0
INVARIANTS FilesAreThere
CHECK_DEADLOCK FALSE
