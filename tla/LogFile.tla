------------------------------- MODULE LogFile -------------------------------
(***************************************************************************)
(* One log file of ti.Filesystem: the script's Logger objects for it       *)
(* (Logger.cpp) share a LoggerFile (LoggerFile.cpp), whose thread writes   *)
(* to the file what they log.                                              *)
(*                                                                         *)
(* The last Logger to go deletes the LoggerFile and joins its thread; the  *)
(* next one makes a new LoggerFile for the same file.  pendingMsgEvent is  *)
(* an auto-reset event: it stays set until one wait has seen it.           *)
(***************************************************************************)
EXTENDS Naturals, Sequences

CONSTANTS MaxLines,    \* lines logged, at most
          MaxLoggers   \* Logger objects made, at most

ASSUME LogFileAssumption == {MaxLines, MaxLoggers} \subseteq Nat

VARIABLES
  references,   \* Logger objects that are alive
  bRunning,     \* bRunning
  pending,      \* pendingMsgEvent is set
  writeQueue,   \* writeQueue
  tempQueue,    \* tempWriteQueue
  writer,       \* where the thread is, "none" when there is no LoggerFile
  owner,        \* where the main thread is in ~LoggerFile
  file,         \* the lines in the file
  logged,       \* history: how many lines were logged
  before,       \* history: how many of them to earlier LoggerFiles
  made,         \* history: how many Logger objects were made
  dropped       \* history: lines of batches the file could not be opened for

life == <<references, made>>
signals == <<bRunning, pending>>
lineQueues == <<writeQueue, tempQueue, file, dropped>>
counts == <<logged, before>>
logVars == <<life, signals, lineQueues, counts, writer, owner>>

LogInit ==
  /\ references = 0 /\ bRunning = FALSE /\ pending = FALSE
  /\ writeQueue = <<>> /\ tempQueue = <<>>
  /\ writer = "none" /\ owner = "idle"
  /\ file = <<>> /\ logged = 0 /\ before = 0 /\ made = 0 /\ dropped = {}

Writes(from, to) == writer = from /\ writer' = to
Owns(from, to) == owner = from /\ owner' = to

-----------------------------------------------------------------------------
(* The script's Logger objects, on the main thread.                        *)

\* new Logger: the first one for the file makes a LoggerFile and its thread.
NewLogger ==
  /\ owner = "idle" /\ made < MaxLoggers
  /\ made' = made + 1 /\ references' = references + 1
  /\ IF references = 0
       THEN writer' = "starting" /\ bRunning' = FALSE /\ pending' = FALSE
              /\ writeQueue' = <<>> /\ before' = logged
       ELSE UNCHANGED <<signals, writeQueue, writer, before>>
  /\ UNCHANGED <<tempQueue, owner, file, logged, dropped>>

\* Mutant: the event is set only when lines wait already.
Mutant_SetOnce ==
  /\ owner = "idle" /\ references > 0 /\ logged < MaxLines
  /\ logged' = logged + 1
  /\ writeQueue' = Append(writeQueue, logged')
  /\ pending' = (pending \/ writeQueue # <<>>)
  /\ UNCHANGED <<life, bRunning, tempQueue, writer, owner, file, before, dropped>>

Log ==
  /\ owner = "idle" /\ references > 0 /\ logged < MaxLines
  /\ logged' = logged + 1
  /\ writeQueue' = Append(writeQueue, logged')
  /\ pending' = TRUE
  /\ UNCHANGED <<life, bRunning, tempQueue, writer, owner, file, before, dropped>>

\* ~Logger of one that is not the last ...
Release ==
  /\ owner = "idle" /\ references > 1
  /\ references' = references - 1
  /\ UNCHANGED <<signals, lineQueues, counts, writer, owner, made>>

\* ... and of the last one: ~LoggerFile stops the thread ...
StopThread ==
  /\ references = 1
  /\ Owns("idle", "set")
  /\ references' = 0 /\ bRunning' = FALSE
  /\ UNCHANGED <<lineQueues, counts, pending, writer, made>>

SetEvent ==
  /\ Owns("set", "join")
  /\ pending' = TRUE
  /\ UNCHANGED <<life, lineQueues, counts, bRunning, writer>>

\* ... and joins it.
JoinWriter ==
  /\ Owns("join", "idle")
  /\ Writes("ended", "none")
  /\ UNCHANGED <<life, signals, lineQueues, counts>>

-----------------------------------------------------------------------------
(* LoggerFile::run on its thread.                                          *)

\* bRunning = true, whatever happened since the thread was started.
Begins ==
  /\ Writes("starting", "test")
  /\ bRunning' = TRUE
  /\ UNCHANGED <<life, lineQueues, counts, pending, owner>>

Continues ==
  /\ Writes("test", "wait") /\ bRunning
  /\ UNCHANGED <<life, signals, lineQueues, counts, owner>>

Ends ==
  /\ Writes("test", "ended") /\ ~bRunning
  /\ UNCHANGED <<life, signals, lineQueues, counts, owner>>

Wakes ==
  /\ Writes("wait", "look") /\ pending
  /\ pending' = FALSE
  /\ UNCHANGED <<life, lineQueues, counts, bRunning, owner>>

\* dumpToFile looks at the queue without the mutex.
NothingToDump ==
  /\ Writes("look", "test") /\ writeQueue = <<>>
  /\ UNCHANGED <<life, signals, lineQueues, counts, owner>>

SomethingToDump ==
  /\ Writes("look", "copy") /\ writeQueue # <<>>
  /\ UNCHANGED <<life, signals, lineQueues, counts, owner>>

\* Mutant: the queue is not cleared.
Mutant_QueueKept ==
  /\ Writes("copy", "write")
  /\ tempQueue' = writeQueue
  /\ UNCHANGED <<life, signals, counts, writeQueue, owner, file, dropped>>

TakeQueue ==
  /\ Writes("copy", "write")
  /\ tempQueue' = writeQueue /\ writeQueue' = <<>>
  /\ UNCHANGED <<life, signals, counts, owner, file, dropped>>

\* Mutant: the queue is cleared when its copy has been written.
Mutant_ClearedLate ==
  /\ Writes("write", "test")
  /\ file' = file \o tempQueue /\ tempQueue' = <<>> /\ writeQueue' = <<>>
  /\ UNCHANGED <<life, signals, counts, owner, dropped>>

WriteLines ==
  /\ Writes("write", "test")
  /\ file' = file \o tempQueue /\ tempQueue' = <<>>
  /\ UNCHANGED <<life, signals, counts, writeQueue, owner, dropped>>

\* The file cannot be opened: its lines are forgotten.
OpenFails ==
  /\ Writes("write", "test")
  /\ dropped' = dropped \cup {tempQueue[i] : i \in DOMAIN tempQueue} /\ tempQueue' = <<>>
  /\ UNCHANGED <<life, signals, counts, writeQueue, owner, file>>

LogThread ==
  \/ Begins \/ Continues \/ Ends \/ Wakes \/ NothingToDump \/ SomethingToDump
  \/ TakeQueue \/ WriteLines \/ OpenFails

Delete == SetEvent \/ JoinWriter

LogNext == NewLogger \/ Log \/ Release \/ StopThread \/ Delete \/ LogThread

\* The two threads go on.
LogFairness == WF_logVars(LogThread) /\ WF_logVars(Delete)

-----------------------------------------------------------------------------
(* Properties.                                                             *)

\* The lines on their way to the file, in the order they will get there.
OnTheirWay == file \o tempQueue \o writeQueue

\* The file holds lines in the order they were logged, none twice, and over all
\* LoggerFiles of its life: the next one starts when the last has written.
LinesInOrder ==
  \A i, j \in DOMAIN OnTheirWay : i < j => OnTheirWay[i] < OnTheirWay[j]

\* As long as a LoggerFile lives, what was logged to it is lost only with a file
\* that cannot be opened, whenever it is logged; ~LoggerFile may leave some.
LinesKept ==
  references > 0 =>
    \A n \in before + 1 .. logged :
      n \in dropped \/ \E i \in DOMAIN OnTheirWay : OnTheirWay[i] = n

\* Nothing stays in the queue while there is a Logger.
LinesWritten == writeQueue # <<>> ~> writeQueue = <<>> \/ references = 0
===============================================================================
