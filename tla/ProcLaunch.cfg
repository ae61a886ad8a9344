SPECIFICATION MCSpec
CONSTANTS
  Pipes <- MCPipes
  Threads <- MCThreads
  Blobs <- MCBlobs
  Others <- MCOthers
  NoThread = NoThread
  CloseCall = CloseCall
  Outs <- MCOuts
  Ins <- MCIns
  Streams <- MCStreams
  StreamNames = {"stdout"}
  Generations = 5
  Launches = 2
  UserPipes <- NoUserPipes
  UserLinks <- NoLinks
  MaxOutput = 1
  ForkMayFail = TRUE
  Modes = {"async", "sync"}
  MaxStdin = 0
  MaxStdinClose = 0
  Asks = {"signal"}
INVARIANTS
  ExitAfterOutput
  NothingAfterClose
  ExitOnce
  OutputReturned
