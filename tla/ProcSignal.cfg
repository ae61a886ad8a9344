SPECIFICATION MCSpec
CONSTANTS
  Pipes <- MCPipes
  Threads <- MCThreads
  Blobs <- MCBlobs
  Others <- MCOthers
  NoThread = NoThread
  CloseCall = CloseCall
  Outs <- MCOuts
  Ins <- MCIns
  Streams <- MCStreams
  StreamNames = {"stdout"}
  Generations = 2
  Launches = 1
  UserPipes <- NoUserPipes
  UserLinks <- NoLinks
  MaxOutput = 1
  ForkMayFail = TRUE
  Modes = {"async"}
  MaxStdin = 0
  MaxStdinClose = 0
  Asks = {"signal"}
INVARIANTS
  SignalReachesChild
