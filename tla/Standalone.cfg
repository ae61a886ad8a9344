SPECIFICATION StandaloneSpec
CONSTANTS
  MaxPosts = 3
  MaxReplies = 2
  MaxStarts = 2
  MaxLines = 3
  MaxLoggers = 3
  MaxCopies = 2
  MaxFiles = 2
  MaxWritten = 4
  Characters = {"a", "b"}
  MaxText = 5
  MaxExits = 2
  MaxJobs = 2
  MaxCancels = 2
INVARIANTS
  MessagesInOrder
  RepliesInOrder
  LinesInOrder
  LinesKept
  CallbacksInOrder
  RunningIsKept
  WrittenIsKept
  LinesReadBack
  TextIsPassed
  MarkedAfterEveryJob
  NobodyLeft
  OneMoreJob
PROPERTIES
  RepliesDelivered
  TerminateWakes
  LinesWritten
  FinishedIsRemoved
CHECK_DEADLOCK FALSE
