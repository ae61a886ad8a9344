SPECIFICATION WorkerSpec
CONSTANTS
  MaxPosts = 1
  MaxReplies = 1
  MaxStarts = 1
PROPERTIES TerminateReturns
CHECK_DEADLOCK FALSE
