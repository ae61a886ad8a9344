SPECIFICATION MCFairSpec
CONSTANTS
  Pipes <- MCPipes
  Threads <- MCThreads
  Blobs <- MCBlobs
  Others <- MCOthers
  NoThread = NoThread
  CloseCall = CloseCall
  Outs <- MCOuts
  Ins <- MCIns
  Streams <- MCStreams
  StreamNames = {"stdout"}
  Generations = 3
  Launches = 2
  UserPipes <- NoUserPipes
  UserLinks <- NoLinks
  MaxOutput = 0
  ForkMayFail = FALSE
  Modes = {"async"}
  MaxStdin = 0
  MaxStdinClose = 0
  Asks = {}
PROPERTIES
  RunningEnds
