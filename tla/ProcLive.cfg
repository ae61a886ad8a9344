SPECIFICATION MCFairSpec
CONSTANTS
  Pipes <- MCPipes
  Threads <- MCThreads
  Blobs <- MCBlobs
  Others <- MCOthers
  NoThread = NoThread
  CloseCall = CloseCall
  Outs <- MCOuts
  Ins <- MCIns
  Streams <- MCStreams
  StreamNames = {"stdout"}
  Generations = 2
  Launches = 1
  UserPipes <- MCUserPipes
  UserLinks <- NoLinks
  MaxOutput = 1
  ForkMayFail = FALSE
  Modes = {"async"}
  MaxStdin = 1
  MaxStdinClose = 1
  Asks = {"stdout"}
ACTION_CONSTRAINT OneOfThem
INVARIANTS StdinInOrder
PROPERTIES
  ExitReported
  StdinReaches
