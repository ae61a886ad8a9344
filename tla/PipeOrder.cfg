SPECIFICATION MCFairSpec
CONSTANTS
  Pipes = {"out", "user"}
  Threads = {reader}
  Others = {exit}
  NoThread = NoThread
  CloseCall = CloseCall
  MaxWrites = 2
  MaxCloses = 1
  MaxAttached = 1
  Blobs <- MCBlobs
  Links <- MCLinks
INVARIANTS CloseAfterData OtherAfterAll
PROPERTIES PromiseKept EverythingFired
