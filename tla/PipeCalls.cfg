SPECIFICATION MCSpec
CONSTANTS
  Pipes = {"out", "user"}
  Threads = {reader, main}
  Others = {}
  NoThread = NoThread
  CloseCall = CloseCall
  MaxWrites = 2
  MaxCloses = 1
  MaxAttached = 1
  Blobs <- MCBlobs
  Links <- MCLinks
SYMMETRY ThreadSymmetry
INVARIANTS PipeTypeOK DataInOrder NoCallAfterDetach
PROPERTY CloseOnce
