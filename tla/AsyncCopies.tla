----------------------------- MODULE AsyncCopies -----------------------------
(***************************************************************************)
(* Filesystem.asyncCopy: every call makes an AsyncCopy (async_copy.cpp)    *)
(* with a thread of its own, which copies file after file and gives the    *)
(* main thread a call of the script's callback for each.  The binding      *)
(* (filesystem_binding.cpp) keeps the copies in a list, from which a timer *)
(* removes those that have finished, one at a time and on the main thread. *)
(*                                                                         *)
(* The timer is Poco's.  Its thread waits, calls OnAsyncOperationTimer and *)
(* goes round as long as its interval is not 0.  restart() sets the        *)
(* interval, no more: restart(0) in the callback ends the loop unless      *)
(* another restart comes before the loop looks, and after that the timer   *)
(* never fires again, for the binding makes one timer only.                *)
(***************************************************************************)
EXTENDS Naturals, Sequences, SequencesExt

CONSTANTS MaxCopies,  \* copies the script asks for, at most
          MaxFiles    \* files of one copy, at most

ASSUME CopyAssumption == {MaxCopies, MaxFiles} \subseteq Nat

Copies == 1 .. MaxCopies
Collect == [copy |-> 0, file |-> 0]   \* the main thread's call of _invoke

VARIABLES
  asyncOperations,  \* asyncOperations
  asked,            \* how many copies the script asked for; they are 1 .. asked
  files,            \* files[c]: how many files copy c has
  running,          \* running[c]: its property "running"
  thread,           \* thread[c]: where its thread is
  looked,           \* looked[c]: how many of its files it has tried
  copied,           \* history: copied[c], those of them it has copied
  calls,            \* what the main thread has been asked to call, in order
  called,           \* history: called[c], the files its callback was called for
  timer,            \* where the timer's thread is, "none" before there is one
  pause,            \* what _invoke returned to the timer
  late              \* history: copies asked for when restart(100) came to nothing

copyOf == <<asked, files>>
progress == <<running, thread, looked, copied>>
mainVars == <<calls, called>>
timerVars == <<timer, pause, late>>
copyVars == <<asyncOperations, copyOf, progress, mainVars, timerVars>>

CopyInit ==
  /\ asyncOperations = <<>> /\ asked = 0
  /\ files = [c \in Copies |-> 0] /\ running = [c \in Copies |-> FALSE]
  /\ thread = [c \in Copies |-> "none"] /\ looked = [c \in Copies |-> 0]
  /\ copied = [c \in Copies |-> {}]
  /\ calls = <<>> /\ called = [c \in Copies |-> <<>>]
  /\ timer = "none" /\ pause = FALSE /\ late = {}

-----------------------------------------------------------------------------
(* The script's call, on the main thread.                                  *)

\* The first copy makes the timer.  A later one restarts it: in time when its loop has yet
\* to look at the interval, too early when the callback is about to set the interval to 0,
\* and too late when the loop has ended.
ExecuteAsyncCopy(n) ==
  /\ asked < MaxCopies
  /\ asked' = asked + 1
  /\ files' = [files EXCEPT ![asked'] = n]
  /\ running' = [running EXCEPT ![asked'] = TRUE]
  /\ thread' = [thread EXCEPT ![asked'] = "begin"]
  /\ asyncOperations' = Append(asyncOperations, asked')
  /\ timer' = IF timer \in {"none", "stopping"} THEN "waiting" ELSE timer
  /\ late' = IF (timer = "answered" /\ pause) \/ timer = "ended"
               THEN late \cup {asked'} ELSE late
  /\ UNCHANGED <<looked, copied, mainVars, pause>>

-----------------------------------------------------------------------------
(* AsyncCopy::Run, on the thread of copy c.                                *)

\* The destination is there, or is made.
Begin(c) ==
  /\ thread[c] = "begin"
  /\ thread' = [thread EXCEPT ![c] = "copy"]
  /\ UNCHANGED <<asyncOperations, copyOf, running, looked, copied, mainVars, timerVars>>

\* It cannot be made: the exception ends the thread.
BeginFails(c) ==
  /\ thread[c] = "begin"
  /\ thread' = [thread EXCEPT ![c] = "failed"]
  /\ UNCHANGED <<asyncOperations, copyOf, running, looked, copied, mainVars, timerVars>>

Looks(c) ==
  /\ thread[c] = "copy" /\ looked[c] < files[c]
  /\ looked' = [looked EXCEPT ![c] = @ + 1]

FileCopied(c) ==
  /\ Looks(c)
  /\ copied' = [copied EXCEPT ![c] = @ \cup {looked'[c]}]
  /\ calls' = Append(calls, [copy |-> c, file |-> looked'[c]])
  /\ UNCHANGED <<asyncOperations, copyOf, running, thread, called, timerVars>>

\* Mutant: the callback is called after a failure too.
Mutant_ToldOfFailure(c) ==
  /\ Looks(c)
  /\ calls' = Append(calls, [copy |-> c, file |-> looked'[c]])
  /\ UNCHANGED <<asyncOperations, copyOf, running, thread, copied, called, timerVars>>

\* What Copy throws is logged.
FileFails(c) ==
  /\ Looks(c)
  /\ UNCHANGED <<asyncOperations, copyOf, running, thread, copied, mainVars, timerVars>>

Finish(c) ==
  /\ thread[c] = "copy" /\ looked[c] = files[c]
  /\ thread' = [thread EXCEPT ![c] = "ended"]
  /\ running' = [running EXCEPT ![c] = FALSE]
  /\ UNCHANGED <<asyncOperations, copyOf, looked, copied, mainVars, timerVars>>

CopyThread(c) == Begin(c) \/ BeginFails(c) \/ FileCopied(c) \/ FileFails(c) \/ Finish(c)

-----------------------------------------------------------------------------
(* The main thread calls what it was asked to call.                        *)

CallCallback ==
  /\ calls # <<>> /\ Head(calls) # Collect
  /\ called' = [called EXCEPT ![Head(calls).copy] = Append(@, Head(calls).file)]
  /\ calls' = Tail(calls)
  /\ UNCHANGED <<asyncOperations, copyOf, progress, timerVars>>

\* Mutant: the first copy is removed when one has finished.
Mutant_EraseFirst ==
  /\ calls # <<>> /\ Head(calls) = Collect
  /\ asyncOperations' = IF \E c \in Range(asyncOperations) : ~running[c]
                          THEN Tail(asyncOperations) ELSE asyncOperations
  /\ pause' = (asyncOperations' = <<>>) /\ timer' = "answered"
  /\ calls' = Tail(calls)
  /\ UNCHANGED <<copyOf, progress, called, late>>

\* Mutant: the timer is stopped when there is nothing to remove.
Mutant_PauseEarly ==
  /\ calls # <<>> /\ Head(calls) = Collect
  /\ LET finished == SelectInSeq(asyncOperations, LAMBDA c : ~running[c])
     IN asyncOperations' = IF finished = 0 THEN asyncOperations
                             ELSE RemoveAt(asyncOperations, finished)
  /\ pause' = (asyncOperations' = asyncOperations) /\ timer' = "answered"
  /\ calls' = Tail(calls)
  /\ UNCHANGED <<copyOf, progress, called, late>>

\* The first of the copies that have finished is removed.
DeletePendingOperations ==
  /\ calls # <<>> /\ Head(calls) = Collect
  /\ LET finished == SelectInSeq(asyncOperations, LAMBDA c : ~running[c])
     IN asyncOperations' = IF finished = 0 THEN asyncOperations
                             ELSE RemoveAt(asyncOperations, finished)
  /\ pause' = (asyncOperations' = <<>>) /\ timer' = "answered"
  /\ calls' = Tail(calls)
  /\ UNCHANGED <<copyOf, progress, called, late>>

MainThread == CallCallback \/ DeletePendingOperations

-----------------------------------------------------------------------------
(* OnAsyncOperationTimer, on the timer's thread.                           *)

TimerFires ==
  /\ timer = "waiting" /\ timer' = "asked"
  /\ calls' = Append(calls, Collect)
  /\ UNCHANGED <<asyncOperations, copyOf, progress, called, pause, late>>

\* restart(0).
TimerStops ==
  /\ timer = "answered" /\ pause
  /\ timer' = "stopping"
  /\ UNCHANGED <<asyncOperations, copyOf, progress, mainVars, pause, late>>

\* The loop sees that the interval is 0.
TimerEnds ==
  /\ timer = "stopping"
  /\ timer' = "ended"
  /\ UNCHANGED <<asyncOperations, copyOf, progress, mainVars, pause, late>>

TimerGoesOn ==
  /\ timer = "answered" /\ ~pause
  /\ timer' = "waiting"
  /\ UNCHANGED <<asyncOperations, copyOf, progress, mainVars, pause, late>>

Timer == TimerFires \/ TimerStops \/ TimerEnds \/ TimerGoesOn

-----------------------------------------------------------------------------

CopyNext ==
  \/ \E n \in 0 .. MaxFiles : ExecuteAsyncCopy(n)
  \/ \E c \in Copies : CopyThread(c)
  \/ MainThread \/ Timer

\* The threads of the copies, the main thread and the timer go on.
CopyFairness ==
  /\ \A c \in Copies : WF_copyVars(CopyThread(c))
  /\ WF_copyVars(MainThread) /\ WF_copyVars(Timer)

-----------------------------------------------------------------------------
(* Properties.                                                             *)

\* The calls of the callback of c that the main thread was asked for, by their places.
Pending(c) == {i \in DOMAIN calls : calls[i].copy = c}

\* The callback of a copy is called of exactly the files that were copied, of each
\* once and in order, whatever other copies and the timer ask of the main thread.
CallbacksInOrder ==
  \A c \in Copies :
    /\ Range(called[c]) \cup {calls[i].file : i \in Pending(c)} = copied[c]
    /\ \A i, j \in DOMAIN called[c] : i < j => called[c][i] < called[c][j]
    /\ \A i, j \in Pending(c) : i < j => calls[i].file < calls[j].file
    /\ \A i \in DOMAIN called[c], j \in Pending(c) : called[c][i] < calls[j].file

\* The binding keeps a copy as long as it runs: the thread uses it.
RunningIsKept == \A c \in Copies : running[c] => c \in Range(asyncOperations)

\* A copy that has finished is removed in the end, unless the timer has ended and this very
\* copy was asked for too late for it: after _invoke had found the list empty, and not in
\* the moment in which restart(100) still undoes restart(0).
FinishedIsRemoved ==
  \A c \in Copies :
    thread[c] = "ended" ~> (c \notin Range(asyncOperations) \/ (timer = "ended" /\ c \in late))
===============================================================================
