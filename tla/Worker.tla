-------------------------------- MODULE Worker --------------------------------
(***************************************************************************)
(* A ti.Worker Worker (worker.cpp) and its WorkerContext                   *)
(* (worker_context.cpp): a thread that evaluates a script and then hands   *)
(* the messages posted to it to the script's onmessage.                    *)
(*                                                                         *)
(* Messages go down (the page's postMessage) and replies go up (the        *)
(* script's postMessage).  Both kinds of handlers run on the main thread,  *)
(* as jobs the host queues for it: the worker's thread only evaluates the  *)
(* script and moves messages.  A Poco condition remembers nothing: a       *)
(* signal wakes whoever waits at that moment.                              *)
(***************************************************************************)
EXTENDS Naturals, Sequences, SequencesExt

CONSTANTS MaxPosts,    \* messages the page posts, at most
          MaxReplies,  \* replies to each start of the worker, at most
          MaxStarts    \* calls of start() that start a thread, at most

ASSUME WorkerAssumption == {MaxPosts, MaxReplies, MaxStarts} \subseteq Nat

VARIABLES
  stopped,    \* Worker::stopped
  messages,   \* Worker::messages
  copy,       \* what Run copied from it and has not handed on yet
  replies,    \* the messages of the current WorkerContext
  onmessage,  \* who has an onmessage that is a method: the "page", the "script"
  at,         \* where the worker's thread is
  doing,      \* where the main thread is
  posted,     \* history: how many messages were posted
  handed,     \* history: the messages handed to the main thread
  starts,     \* history: how many contexts were made
  replied,    \* history: how many replies the current context was given
  told,       \* history: the replies of the current context sent to the page
  jobs        \* the host's queue: messages of the current context, other jobs as 0

queues == <<messages, copy, replies, jobs>>
history == <<posted, handed, starts, replied, told>>
workerVars == <<stopped, queues, onmessage, at, doing, history>>

WorkerInit ==
  /\ stopped = TRUE /\ onmessage = {} /\ at = "none" /\ doing = "idle"
  /\ messages = <<>> /\ copy = <<>> /\ replies = <<>> /\ jobs = <<>>
  /\ posted = 0 /\ handed = <<>> /\ starts = 0 /\ replied = 0 /\ told = <<>>

-----------------------------------------------------------------------------
(* Steps shared by the two threads: the script runs on either.             *)

Worker(from, to) == at = from /\ at' = to /\ UNCHANGED doing
Main(from, to) == doing = from /\ doing' = to /\ UNCHANGED at

\* condition.signal() of the worker.
Signal == at' = IF at = "waiting" THEN "woken" ELSE at

\* WorkerContext::PostMessage, up to SendQueuedMessages.
Push ==
  /\ replied < MaxReplies
  /\ replied' = replied + 1
  /\ replies' = Append(replies, replied')
  /\ UNCHANGED <<stopped, messages, copy, jobs, onmessage, posted, handed, starts, told>>

\* SendQueuedMessages sees no message or no handler, and returns ...
NothingToSend ==
  /\ replies = <<>> \/ "page" \notin onmessage
  /\ UNCHANGED <<stopped, queues, onmessage, history>>

\* ... or has the handler, and goes for the mutex.
HasHandler ==
  /\ replies # <<>> /\ "page" \in onmessage
  /\ UNCHANGED <<stopped, queues, onmessage, history>>

\* Mutant: the messages are not cleared.
Mutant_RepliesKept ==
  /\ jobs' = jobs \o [i \in DOMAIN replies |-> 0]
  /\ told' = told \o replies
  /\ UNCHANGED <<stopped, messages, copy, replies, onmessage, posted, handed, starts, replied>>

\* With the mutex held every message goes to the main thread.
SendAll ==
  /\ jobs' = jobs \o [i \in DOMAIN replies |-> 0]
  /\ told' = told \o replies
  /\ replies' = <<>>
  /\ UNCHANGED <<stopped, messages, copy, onmessage, posted, handed, starts, replied>>

\* The script makes its onmessage a method.
DefineOnMessage ==
  /\ onmessage' = onmessage \cup {"script"}
  /\ UNCHANGED <<stopped, queues, history>>

Quietly == UNCHANGED <<stopped, queues, onmessage, history>>

-----------------------------------------------------------------------------
(* Worker::Run.                                                            *)

\* Evaluate: the script runs, replies and sleeps.
ScriptReplies == Worker("script", "send") /\ Push
ScriptSent == Worker("send", "script") /\ NothingToSend
ScriptSends == Worker("send", "sending") /\ HasHandler
ScriptSendsAll == Worker("sending", "script") /\ SendAll
ScriptDefines == Worker("script", "script") /\ DefineOnMessage
ScriptSleeps == Worker("script", "asleep") /\ Quietly
ScriptWakes == Worker("asleep", "script") /\ Quietly
ScriptEnds == Worker("script", "loop") /\ Quietly
ScriptFails == Worker("script", "exit") /\ Quietly

\* One round of the loop.  Yield takes and releases the context's condmutex,
\* which a sleeper does not hold.
MessagesWait == Worker("loop", "take") /\ messages # <<>> /\ Quietly
NoMessages == Worker("loop", "beforeWait") /\ messages = <<>> /\ Quietly
Waits == Worker("beforeWait", "waiting") /\ Quietly
GoesOn == Worker("woken", "take") /\ Quietly

\* Mutant: messages is not cleared.
Mutant_NotCleared ==
  /\ Worker("take", "hand")
  /\ "script" \in onmessage
  /\ copy' = messages
  /\ UNCHANGED <<stopped, messages, replies, jobs, onmessage, history>>

\* The script has a handler: messages is copied and cleared.
CopyMessages ==
  /\ Worker("take", "hand")
  /\ "script" \in onmessage
  /\ copy' = messages /\ messages' = <<>>
  /\ UNCHANGED <<stopped, replies, jobs, onmessage, history>>

NoHandler == Worker("take", "check") /\ "script" \notin onmessage /\ Quietly

\* CallOnMessageCallback, without waiting for the main thread.
HandOn ==
  /\ Worker("hand", "hand")
  /\ copy # <<>>
  /\ jobs' = Append(jobs, Head(copy)) /\ handed' = Append(handed, Head(copy))
  /\ copy' = Tail(copy)
  /\ UNCHANGED <<stopped, messages, replies, onmessage, posted, starts, replied, told>>

AllHanded == Worker("hand", "check") /\ copy = <<>> /\ Quietly

LoopAgain == Worker("check", "loop") /\ ~stopped /\ Quietly
LoopEnds == Worker("check", "exit") /\ stopped /\ Quietly

\* wc->Terminate wakes a handler that sleeps on the main thread.
LeaveContext ==
  /\ at = "exit" /\ at' = "cleanup"
  /\ doing' = IF doing = "asleep" THEN "handler" ELSE doing
  /\ Quietly

\* The global object, and its onmessage, are gone.
Cleanup ==
  /\ Worker("cleanup", "returning")
  /\ stopped' = TRUE
  /\ onmessage' = onmessage \ {"script"}
  /\ UNCHANGED <<queues, history>>

\* The thread is no longer running for Poco.
ThreadReturns == Worker("returning", "none") /\ Quietly

Run ==
  \/ ScriptSent \/ ScriptSends \/ ScriptSendsAll \/ ScriptWakes \/ ScriptEnds
  \/ MessagesWait \/ NoMessages \/ Waits \/ GoesOn \/ CopyMessages \/ NoHandler
  \/ HandOn \/ AllHanded \/ LoopAgain \/ LoopEnds \/ LeaveContext \/ Cleanup
  \/ ThreadReturns

RunScript == ScriptReplies \/ ScriptDefines \/ ScriptSleeps \/ ScriptFails

-----------------------------------------------------------------------------
(* The page's calls, on the main thread.                                   *)

\* start() makes a new context; Poco's thread.start throws when the last thread
\* has not returned, which leaves stopped reset.  A handler that still waits for the
\* main thread replies into the context it was made for, which nobody looks at.
Start ==
  /\ doing = "idle" /\ stopped /\ starts < MaxStarts
  /\ stopped' = FALSE
  /\ replies' = <<>> /\ starts' = starts + 1 /\ replied' = 0 /\ told' = <<>>
  /\ jobs' = [i \in DOMAIN jobs |-> 0]
  /\ at' = IF at = "none" THEN "script" ELSE at
  /\ UNCHANGED <<messages, copy, onmessage, doing, posted, handed>>

PostMessage ==
  /\ posted < MaxPosts
  /\ Main("idle", "signal")
  /\ posted' = posted + 1
  /\ messages' = Append(messages, posted')
  /\ UNCHANGED <<stopped, copy, replies, jobs, onmessage, handed, starts, replied, told>>

SignalWorker ==
  /\ doing = "signal" /\ doing' = "idle"
  /\ Signal
  /\ Quietly

\* worker.onmessage = ...: Set, then Bound.
SetOnMessage(isMethod) ==
  /\ Main("idle", IF starts > 0 THEN "bound" ELSE "idle")
  /\ onmessage' = IF isMethod THEN onmessage \cup {"page"} ELSE onmessage \ {"page"}
  /\ UNCHANGED <<stopped, queues, history>>

\* Mutant: Bound only signals.
Mutant_BoundSignals == Main("bound", "signal") /\ Quietly

BoundSent == Main("bound", "signal") /\ NothingToSend
BoundSends == Main("bound", "boundSending") /\ HasHandler
BoundSendsAll == Main("boundSending", "signal") /\ SendAll

\* terminate(), by a page that has started the worker.
Terminate ==
  /\ starts > 0
  /\ Main("idle", "terminate")
  /\ stopped' = TRUE
  /\ UNCHANGED <<queues, onmessage, history>>

\* The context's signal interrupts a script that sleeps: it goes on, or fails.
Interrupt ==
  /\ doing = "terminate" /\ doing' = "wake"
  /\ IF at = "asleep" THEN at' \in {"script", "exit"} ELSE UNCHANGED at
  /\ Quietly

\* Mutant: terminate only signals the context.
Mutant_NoSignal == Main("wake", "join") /\ Quietly

WakeWorker ==
  /\ doing = "wake" /\ doing' = "join"
  /\ Signal
  /\ Quietly

Join == Main("join", "idle") /\ at = "none" /\ Quietly

\* A job: the script's onmessage runs on the main thread, or the page's does.
RunJob ==
  /\ jobs # <<>>
  /\ Main("idle", IF Head(jobs) = 0 THEN "idle" ELSE "handler")
  /\ jobs' = Tail(jobs)
  /\ UNCHANGED <<stopped, messages, copy, replies, onmessage, history>>

HandlerReplies == Main("handler", "send") /\ Push
HandlerSent == Main("send", "handler") /\ NothingToSend
HandlerSends == Main("send", "sending") /\ HasHandler
HandlerSendsAll == Main("sending", "handler") /\ SendAll
HandlerSleeps == Main("handler", "asleep") /\ Quietly
HandlerWakes == Main("asleep", "handler") /\ Quietly
HandlerReturns == Main("handler", "idle") /\ Quietly

MainGoesOn ==
  \/ SignalWorker \/ BoundSent \/ BoundSends \/ BoundSendsAll \/ Interrupt \/ WakeWorker
  \/ Join
  \/ RunJob \/ HandlerSent \/ HandlerSends \/ HandlerSendsAll \/ HandlerWakes
  \/ HandlerReturns

Page ==
  \/ Start \/ PostMessage \/ Terminate \/ \E isMethod \in BOOLEAN : SetOnMessage(isMethod)
  \/ HandlerReplies \/ HandlerSleeps

WorkerNext == Run \/ RunScript \/ MainGoesOn \/ Page

\* Both threads go on, and the script's code ends.
WorkerFairness ==
  WF_workerVars(Run) /\ SF_workerVars(ScriptEnds) /\ WF_workerVars(MainGoesOn)

WorkerSpec == WorkerInit /\ [][WorkerNext]_workerVars /\ WorkerFairness

-----------------------------------------------------------------------------
(* Properties.                                                             *)

\* Every variable has its type.
WorkerTypeOK ==
  /\ stopped \in BOOLEAN /\ onmessage \subseteq {"page", "script"}
  /\ messages \in Seq(1 .. MaxPosts) /\ copy \in Seq(1 .. MaxPosts)
  /\ replies \in Seq(1 .. MaxReplies) /\ jobs \in Seq(0 .. MaxPosts)
  /\ at \in {"none", "script", "send", "sending", "asleep", "loop", "beforeWait", "waiting",
             "woken", "take", "hand", "check", "exit", "cleanup", "returning"}
  /\ doing \in {"idle", "signal", "bound", "boundSending", "terminate", "wake", "join",
                "handler", "send", "sending", "asleep"}
  /\ posted \in 0 .. MaxPosts /\ handed \in Seq(1 .. MaxPosts)
  /\ starts \in 0 .. MaxStarts /\ replied \in 0 .. MaxReplies
  /\ told \in Seq(1 .. MaxReplies)

\* Across stops and restarts, no message is lost, repeated or reordered on its
\* way to the main thread: it was handed on, or waits in copy or in messages.
MessagesInOrder == handed \o copy \o messages = [i \in 1 .. posted |-> i]

\* Nor is a reply to the current start, whichever thread sends it.
RepliesInOrder == told \o replies = [i \in 1 .. replied |-> i]

\* A page with a handler is sent every reply, also those from before it set it.
RepliesDelivered ==
  replies # <<>> /\ "page" \in onmessage ~> replies = <<>> \/ "page" \notin onmessage

\* terminate() of a worker that waits for messages returns.
TerminateWakes == doing = "terminate" /\ at = "waiting" ~> doing = "idle"

\* "Terminate the worker thread": terminate() returns.
TerminateReturns == doing = "terminate" ~> doing = "idle"
===============================================================================
