---------------------------- MODULE StandaloneProofs ----------------------------
(***************************************************************************)
(* Theorems about the parts of StandaloneMC: Worker, for any number of     *)
(* messages, replies and starts; Installer, for any number of jobs and of  *)
(* cancels; LineReader, for any output and any READs it is cut into; and   *)
(* the three parts of FilesystemMC: log files with any number of lines and *)
(* Loggers, any number of copies of any number of files, and streams to    *)
(* which any number of pieces is written.                                  *)
(***************************************************************************)
EXTENDS FilesystemMC, Worker, LineReader, Installer, SequenceTheorems, Induction

-----------------------------------------------------------------------------
(* Sequences.                                                              *)

\* The numbers 1, 2, ..., n in order.
UpTo(n) == [i \in 1 .. n |-> i]

LEMMA UpToGrows == \A n \in Nat : UpTo(n) \in Seq(Nat) /\ Append(UpTo(n), n + 1) = UpTo(n + 1)
BY DEF UpTo

\* Moving the head of the second part to the end of the first.
LEMMA MoveHead ==
  ASSUME NEW S, NEW s \in Seq(S), NEW t \in Seq(S), NEW u \in Seq(S), t # <<>>
  PROVE  /\ Head(t) \in S /\ Tail(t) \in Seq(S) /\ Append(s, Head(t)) \in Seq(S)
         /\ Append(s, Head(t)) \o Tail(t) \o u = s \o t \o u
OBVIOUS

LEMMA AppendLast ==
  ASSUME NEW S, NEW s \in Seq(S), NEW t \in Seq(S), NEW u \in Seq(S), NEW e \in S
  PROVE  s \o t \o Append(u, e) = Append(s \o t \o u, e)
OBVIOUS

LEMMA EmptyParts ==
  ASSUME NEW S, NEW s \in Seq(S), NEW t \in Seq(S)
  PROVE  s \o t \o <<>> = s \o <<>> \o t /\ (s \o t) \o <<>> = s \o t /\ <<>> \in Seq(S)
OBVIOUS

-----------------------------------------------------------------------------
(* Type correctness, and the order of messages and replies.                *)

\* What Run copied is handed on before it looks for more.
CopyHeld == copy # <<>> => at = "hand"

WorkerInv == CopyHeld /\ MessagesInOrder /\ RepliesInOrder

LEMMA WorkerInitially == WorkerInit => WorkerTypeOK /\ WorkerInv
<1> SUFFICES ASSUME WorkerInit PROVE WorkerTypeOK /\ WorkerInv
  OBVIOUS
<1>1. WorkerTypeOK
  BY WorkerAssumption DEF WorkerInit, WorkerTypeOK
<1>2. <<>> \o <<>> = <<>> /\ <<>> \o <<>> \o <<>> = <<>> /\ <<>> = [i \in 1 .. 0 |-> i]
  <2>1. <<>> \in Seq(Nat)
    OBVIOUS
  <2> QED
    BY <2>1
<1> QED
  BY <1>1, <1>2 DEF WorkerInit, WorkerInv, CopyHeld, MessagesInOrder, RepliesInOrder

\* A step that leaves the queues alone, and leaves "hand" with nothing to hand on.
Still ==
  /\ UNCHANGED <<messages, copy, replies, posted, handed, replied, told>>
  /\ at = "hand" => at' = "hand" \/ copy = <<>>

LEMMA StillKeeps == WorkerInv /\ Still => WorkerInv'
BY DEF WorkerInv, Still, CopyHeld, MessagesInOrder, RepliesInOrder

\* A reply is the last of those that wait.
LEMMA PushKeeps ==
  ASSUME WorkerTypeOK, WorkerInv, Push, at = "hand" => at' = "hand"
  PROVE  WorkerInv' /\ replies' \in Seq(1 .. MaxReplies)
<1>1. replied \in Nat /\ replied + 1 \in 1 .. MaxReplies /\ MaxReplies \in Nat
  BY WorkerAssumption DEF WorkerTypeOK, Push
<1>2. replies' = Append(replies, replied + 1) /\ replied' = replied + 1 /\ told' = told
  BY DEF Push
<1>3. told \in Seq(1 .. MaxReplies) /\ replies \in Seq(1 .. MaxReplies)
  BY DEF WorkerTypeOK
<1>4. told \o Append(replies, replied + 1) = Append(told \o replies, replied + 1)
  BY <1>1, <1>3, ConcatAppend
<1>5. RepliesInOrder'
  BY <1>1, <1>2, <1>4, UpToGrows DEF WorkerInv, RepliesInOrder, UpTo
<1> QED
  BY <1>1, <1>2, <1>3, <1>5 DEF Push, WorkerInv, CopyHeld, MessagesInOrder

\* All replies that wait are sent.
LEMMA SendAllKeeps ==
  ASSUME WorkerTypeOK, WorkerInv, SendAll, at = "hand" => at' = "hand"
  PROVE  WorkerInv'
<1>1. told \in Seq(1 .. MaxReplies) /\ replies \in Seq(1 .. MaxReplies)
  BY DEF WorkerTypeOK
<1>2. (told \o replies) \o <<>> = told \o replies
  BY <1>1
<1>3. RepliesInOrder'
  BY <1>2 DEF SendAll, WorkerInv, RepliesInOrder
<1> QED
  BY <1>3 DEF SendAll, WorkerInv, CopyHeld, MessagesInOrder

\* Run takes the messages when it has handed on what it took before,
LEMMA CopyMessagesKeeps ==
  ASSUME WorkerTypeOK, WorkerInv, CopyMessages
  PROVE  WorkerInv'
<1>1. copy = <<>> /\ copy' = messages /\ messages' = <<>> /\ handed' = handed /\ at' = "hand"
  BY DEF CopyMessages, Worker, WorkerInv, CopyHeld, history
<1>2. handed \o messages \o <<>> = handed \o <<>> \o messages
  BY EmptyParts DEF WorkerTypeOK
<1>3. MessagesInOrder'
  BY <1>1, <1>2 DEF CopyMessages, WorkerInv, MessagesInOrder, history
<1> QED
  BY <1>1, <1>3 DEF CopyMessages, WorkerInv, CopyHeld, RepliesInOrder, history

\* and hands on the first.
LEMMA HandOnKeeps ==
  ASSUME WorkerTypeOK, WorkerInv, HandOn
  PROVE  WorkerInv' /\ copy' \in Seq(1 .. MaxPosts) /\ handed' \in Seq(1 .. MaxPosts)
         /\ Head(copy) \in 1 .. MaxPosts
<1>1. copy # <<>> /\ handed \in Seq(1 .. MaxPosts) /\ copy \in Seq(1 .. MaxPosts)
      /\ messages \in Seq(1 .. MaxPosts)
  BY DEF HandOn, WorkerTypeOK
<1>2. /\ Head(copy) \in 1 .. MaxPosts /\ Tail(copy) \in Seq(1 .. MaxPosts)
      /\ Append(handed, Head(copy)) \in Seq(1 .. MaxPosts)
      /\ Append(handed, Head(copy)) \o Tail(copy) \o messages = handed \o copy \o messages
  <2> DEFINE S == 1 .. MaxPosts
  <2>1. copy # <<>> /\ handed \in Seq(S) /\ copy \in Seq(S) /\ messages \in Seq(S)
    BY <1>1
  <2> HIDE DEF S
  <2>2. /\ Head(copy) \in S /\ Tail(copy) \in Seq(S) /\ Append(handed, Head(copy)) \in Seq(S)
        /\ Append(handed, Head(copy)) \o Tail(copy) \o messages = handed \o copy \o messages
    BY <2>1, MoveHead
  <2> QED
    BY <2>2 DEF S
<1>3. handed' = Append(handed, Head(copy)) /\ copy' = Tail(copy) /\ messages' = messages
      /\ posted' = posted
  BY DEF HandOn
<1>4. MessagesInOrder'
  BY <1>2, <1>3 DEF WorkerInv, MessagesInOrder
<1> QED
  BY <1>2, <1>3, <1>4 DEF HandOn, Worker, WorkerInv, CopyHeld, RepliesInOrder

\* A message that is posted is the last.
LEMMA PostMessageKeeps ==
  ASSUME WorkerTypeOK, WorkerInv, PostMessage
  PROVE  WorkerInv' /\ messages' \in Seq(1 .. MaxPosts) /\ posted' \in 0 .. MaxPosts
<1>1. posted \in Nat /\ posted + 1 \in 1 .. MaxPosts /\ posted' = posted + 1
      /\ messages' = Append(messages, posted + 1)
  BY WorkerAssumption DEF WorkerTypeOK, PostMessage
<1>2. handed \in Seq(1 .. MaxPosts) /\ copy \in Seq(1 .. MaxPosts)
      /\ messages \in Seq(1 .. MaxPosts)
  BY DEF WorkerTypeOK
<1>3. handed \o copy \o messages' = Append(handed \o copy \o messages, posted + 1)
  BY <1>1, <1>2, AppendLast, SMTT(30)
<1>4. MessagesInOrder'
  BY <1>1, <1>3, UpToGrows DEF PostMessage, WorkerInv, MessagesInOrder, UpTo
<1> QED
  BY <1>1, <1>2, <1>4, WorkerAssumption
  DEF PostMessage, Main, WorkerInv, CopyHeld, RepliesInOrder

\* A start makes a new context, without replies.
LEMMA StartKeeps ==
  ASSUME WorkerTypeOK, WorkerInv, Start
  PROVE  WorkerInv'
<1>1. <<>> \o <<>> = <<>> /\ <<>> = [i \in 1 .. 0 |-> i]
  <2>1. <<>> \in Seq(Nat)
    OBVIOUS
  <2> QED
    BY <2>1
<1>2. RepliesInOrder'
  BY <1>1 DEF Start, RepliesInOrder
<1>3. CopyHeld'
  BY DEF Start, WorkerInv, CopyHeld
<1> QED
  BY <1>2, <1>3 DEF Start, WorkerInv, MessagesInOrder

\* Every other step of the worker's thread,
LEMMA RunKeeps ==
  ASSUME WorkerTypeOK, WorkerInv, Run \/ RunScript
  PROVE  WorkerInv'
<1> USE DEF Worker, Quietly, queues, history
<1>1. CASE CopyMessages \/ HandOn
  BY <1>1, CopyMessagesKeeps, HandOnKeeps
<1>2. CASE ScriptSendsAll
  BY <1>2, SendAllKeeps DEF ScriptSendsAll
<1>3. CASE ScriptReplies
  BY <1>3, PushKeeps DEF ScriptReplies
<1>4. CASE ScriptSent \/ ScriptSends \/ ScriptWakes \/ ScriptEnds \/ MessagesWait
  BY <1>4, StillKeeps
  DEF Still, ScriptSent, ScriptSends, ScriptWakes, ScriptEnds, MessagesWait,
      NothingToSend, HasHandler
<1>5. CASE NoMessages \/ Waits \/ GoesOn \/ NoHandler \/ AllHanded
  BY <1>5, StillKeeps DEF Still, NoMessages, Waits, GoesOn, NoHandler, AllHanded
<1>6. CASE LoopAgain \/ LoopEnds \/ LeaveContext \/ Cleanup \/ ThreadReturns
  BY <1>6, StillKeeps DEF Still, LoopAgain, LoopEnds, LeaveContext, Cleanup, ThreadReturns
<1>7. CASE ScriptDefines \/ ScriptSleeps \/ ScriptFails
  BY <1>7, StillKeeps DEF Still, ScriptDefines, ScriptSleeps, ScriptFails, DefineOnMessage
<1> QED
  BY <1>1, <1>2, <1>3, <1>4, <1>5, <1>6, <1>7 DEF Run, RunScript

\* and of the main thread.
LEMMA MainKeeps ==
  ASSUME WorkerTypeOK, WorkerInv, MainGoesOn \/ Page
  PROVE  WorkerInv'
<1> USE DEF Main, Quietly, queues, history
<1>1. CASE Start \/ PostMessage
  BY <1>1, StartKeeps, PostMessageKeeps
<1>2. CASE BoundSendsAll \/ HandlerSendsAll
  BY <1>2, SendAllKeeps DEF BoundSendsAll, HandlerSendsAll
<1>3. CASE HandlerReplies
  BY <1>3, PushKeeps DEF HandlerReplies
<1>4. CASE SignalWorker \/ BoundSent \/ BoundSends \/ Interrupt \/ WakeWorker \/ Join
  BY <1>4, StillKeeps
  DEF Still, SignalWorker, BoundSent, BoundSends, Interrupt, WakeWorker, Join, Signal,
      NothingToSend, HasHandler
<1>5. CASE RunJob \/ HandlerSent \/ HandlerSends \/ HandlerWakes \/ HandlerReturns
           \/ HandlerSleeps
  BY <1>5, StillKeeps
  DEF Still, RunJob, HandlerSent, HandlerSends, HandlerWakes, HandlerReturns, HandlerSleeps,
      NothingToSend, HasHandler
<1>6. CASE Terminate \/ \E isMethod \in BOOLEAN : SetOnMessage(isMethod)
  BY <1>6, StillKeeps DEF Still, Terminate, SetOnMessage
<1> QED
  BY <1>1, <1>2, <1>3, <1>4, <1>5, <1>6 DEF MainGoesOn, Page

LEMMA WorkerStepInv == WorkerTypeOK /\ WorkerInv /\ [WorkerNext]_workerVars => WorkerInv'
<1> SUFFICES ASSUME WorkerTypeOK, WorkerInv, [WorkerNext]_workerVars PROVE WorkerInv'
  OBVIOUS
<1>1. CASE UNCHANGED workerVars
  BY <1>1, StillKeeps DEF Still, workerVars, queues, history
<1> QED
  BY <1>1, RunKeeps, MainKeeps DEF WorkerNext

\* Where the two threads can be.
Places == {"none", "script", "send", "sending", "asleep", "loop", "beforeWait", "waiting",
           "woken", "take", "hand", "check", "exit", "cleanup", "returning"}
Doings == {"idle", "signal", "bound", "boundSending", "terminate", "wake", "join",
           "handler", "send", "sending", "asleep"}

\* What a step may do without disturbing the types of the queues.
Placed ==
  /\ at' \in Places /\ doing' \in Doings /\ stopped' \in BOOLEAN
  /\ onmessage' \subseteq {"page", "script"}

LEMMA PlacedType ==
  ASSUME WorkerTypeOK, Placed, UNCHANGED <<queues, history>>
  PROVE  WorkerTypeOK'
BY DEF WorkerTypeOK, Placed, Places, Doings, queues, history

LEMMA PushType ==
  ASSUME WorkerTypeOK, WorkerInv, Push, Placed, at = "hand" => at' = "hand"
  PROVE  WorkerTypeOK'
<1>1. replies' \in Seq(1 .. MaxReplies) /\ replied' \in 0 .. MaxReplies
  BY PushKeeps, WorkerAssumption DEF WorkerTypeOK, Push
<1> QED
  BY <1>1 DEF WorkerTypeOK, Placed, Places, Doings, Push

LEMMA SendAllType ==
  ASSUME WorkerTypeOK, SendAll, Placed
  PROVE  WorkerTypeOK'
<1>1. /\ told \o replies \in Seq(1 .. MaxReplies) /\ <<>> \in Seq(1 .. MaxReplies)
      /\ [i \in DOMAIN replies |-> 0] \in Seq(0 .. MaxPosts)
  <2>1. told \in Seq(1 .. MaxReplies) /\ replies \in Seq(1 .. MaxReplies)
        /\ 0 \in 0 .. MaxPosts /\ DOMAIN replies = 1 .. Len(replies) /\ Len(replies) \in Nat
    BY WorkerAssumption DEF WorkerTypeOK
  <2> QED
    BY <2>1
<1>2. jobs \o [i \in DOMAIN replies |-> 0] \in Seq(0 .. MaxPosts)
  BY <1>1 DEF WorkerTypeOK
<1> QED
  BY <1>1, <1>2 DEF WorkerTypeOK, Placed, Places, Doings, SendAll

\* Every step of the worker's thread keeps the types,
LEMMA RunType ==
  ASSUME WorkerTypeOK, WorkerInv, Run \/ RunScript
  PROVE  WorkerTypeOK'
<1>0. at \in Places /\ doing \in Doings /\ stopped \in BOOLEAN
      /\ onmessage \subseteq {"page", "script"}
  BY DEF WorkerTypeOK, Places, Doings
<1> USE DEF Worker, Quietly, queues, history, Places, Doings
<1>1. CASE CopyMessages
  <2>1. <<>> \in Seq(1 .. MaxPosts)
    OBVIOUS
  <2> QED
    BY <1>1, <2>1 DEF CopyMessages, WorkerTypeOK
<1>2. CASE HandOn
  <2>1. Append(jobs, Head(copy)) \in Seq(0 .. MaxPosts)
    BY <1>2, HandOnKeeps, WorkerAssumption, SMTT(30) DEF WorkerTypeOK
  <2> QED
    BY <1>2, <2>1, HandOnKeeps DEF HandOn, WorkerTypeOK
<1>3. CASE ScriptSendsAll
  BY <1>0, <1>3, SendAllType DEF Placed, ScriptSendsAll, SendAll
<1>4. CASE ScriptReplies
  BY <1>0, <1>4, PushType DEF Placed, ScriptReplies, Push
<1>5. CASE ScriptSent \/ ScriptSends \/ ScriptWakes \/ ScriptEnds \/ MessagesWait
  BY <1>0, <1>5, PlacedType
  DEF Placed, ScriptSent, ScriptSends, ScriptWakes, ScriptEnds, MessagesWait,
      NothingToSend, HasHandler
<1>6. CASE NoMessages \/ Waits \/ GoesOn \/ NoHandler \/ AllHanded
  BY <1>0, <1>6, PlacedType DEF Placed, NoMessages, Waits, GoesOn, NoHandler, AllHanded
<1>7. CASE LoopAgain \/ LoopEnds \/ LeaveContext \/ Cleanup \/ ThreadReturns
  BY <1>0, <1>7, PlacedType
  DEF Placed, LoopAgain, LoopEnds, LeaveContext, Cleanup, ThreadReturns
<1>8. CASE ScriptDefines \/ ScriptSleeps \/ ScriptFails
  BY <1>0, <1>8, PlacedType
  DEF Placed, ScriptDefines, ScriptSleeps, ScriptFails, DefineOnMessage
<1> QED
  BY <1>1, <1>2, <1>3, <1>4, <1>5, <1>6, <1>7, <1>8 DEF Run, RunScript

\* and so does every step of the main thread.
LEMMA MainType ==
  ASSUME WorkerTypeOK, WorkerInv, MainGoesOn \/ Page
  PROVE  WorkerTypeOK'
<1>0. at \in Places /\ doing \in Doings /\ stopped \in BOOLEAN
      /\ onmessage \subseteq {"page", "script"}
  BY DEF WorkerTypeOK, Places, Doings
<1> USE DEF Main, Quietly, queues, history, Places, Doings
<1>1. CASE Start
  <2>1. <<>> \in Seq(1 .. MaxReplies) /\ 0 \in 0 .. MaxReplies /\ starts + 1 \in 0 .. MaxStarts
    BY <1>1, WorkerAssumption DEF Start, WorkerTypeOK
  <2>2. [i \in DOMAIN jobs |-> 0] \in Seq(0 .. MaxPosts)
    <3>1. DOMAIN jobs = 1 .. Len(jobs) /\ Len(jobs) \in Nat /\ 0 \in 0 .. MaxPosts
      BY WorkerAssumption DEF WorkerTypeOK
    <3> QED
      BY <3>1
  <2> QED
    BY <1>0, <1>1, <2>1, <2>2 DEF Start, WorkerTypeOK
<1>2. CASE PostMessage
  BY <1>0, <1>2, PostMessageKeeps DEF PostMessage, WorkerTypeOK
<1>3. CASE BoundSendsAll \/ HandlerSendsAll
  BY <1>0, <1>3, SendAllType DEF Placed, BoundSendsAll, HandlerSendsAll, SendAll
<1>4. CASE HandlerReplies
  BY <1>0, <1>4, PushType DEF Placed, HandlerReplies, Push
<1>5. CASE SignalWorker \/ BoundSent \/ BoundSends \/ Interrupt \/ WakeWorker \/ Join
  BY <1>0, <1>5, PlacedType
  DEF Placed, SignalWorker, BoundSent, BoundSends, Interrupt, WakeWorker, Join, Signal,
      NothingToSend, HasHandler
<1>6. CASE HandlerSent \/ HandlerSends \/ HandlerWakes \/ HandlerReturns \/ HandlerSleeps
  BY <1>0, <1>6, PlacedType
  DEF Placed, HandlerSent, HandlerSends, HandlerWakes, HandlerReturns, HandlerSleeps,
      NothingToSend, HasHandler
<1>7. CASE RunJob
  <2>1. Tail(jobs) \in Seq(0 .. MaxPosts)
    BY <1>7 DEF RunJob, WorkerTypeOK
  <2> QED
    BY <1>0, <1>7, <2>1 DEF RunJob, WorkerTypeOK
<1>8. CASE Terminate \/ \E isMethod \in BOOLEAN : SetOnMessage(isMethod)
  BY <1>0, <1>8, PlacedType DEF Placed, Terminate, SetOnMessage
<1> QED
  BY <1>1, <1>2, <1>3, <1>4, <1>5, <1>6, <1>7, <1>8 DEF MainGoesOn, Page

LEMMA WorkerStepType ==
  WorkerTypeOK /\ WorkerInv /\ [WorkerNext]_workerVars => WorkerTypeOK'
<1> SUFFICES ASSUME WorkerTypeOK, WorkerInv, [WorkerNext]_workerVars PROVE WorkerTypeOK'
  OBVIOUS
<1>1. CASE UNCHANGED workerVars
  BY <1>1 DEF WorkerTypeOK, workerVars, queues, history
<1> QED
  BY <1>1, RunType, MainType DEF WorkerNext

LEMMA WorkerInductive == WorkerSpec => [](WorkerTypeOK /\ WorkerInv)
BY WorkerInitially, WorkerStepInv, WorkerStepType, PTL DEF WorkerSpec

\* Every variable of a Worker keeps its type.
THEOREM WorkerTypeCorrect == WorkerSpec => []WorkerTypeOK
BY WorkerInductive, PTL

\* What the page posts is handed to the script's onmessage in order and once, over
\* all stops and restarts, whatever the worker's thread was doing.
THEOREM MessagesStayInOrder == WorkerSpec => []MessagesInOrder
<1>1. WorkerInv => MessagesInOrder
  BY DEF WorkerInv
<1> QED
  BY <1>1, WorkerInductive, PTL

\* What the script posts is sent to the page in order and once, although both
\* threads send.
THEOREM RepliesStayInOrder == WorkerSpec => []RepliesInOrder
<1>1. WorkerInv => RepliesInOrder
  BY DEF WorkerInv
<1> QED
  BY <1>1, WorkerInductive, PTL

-----------------------------------------------------------------------------
(* The inductive invariant.  The stage says which thread may be alive, so *)
(* that nobody needs to wait for one.                                      *)

ThreadPlaces == {"none", "work", "failed", "throw", "check", "next", "done", "ended"}

InstTypeOK ==
  /\ update \in BOOLEAN /\ known \in BOOLEAN /\ inSudo \in BOOLEAN /\ app \in BOOLEAN
  /\ curl \in BOOLEAN /\ installed \in BOOLEAN /\ updateFile \in BOOLEAN
  /\ helped \in BOOLEAN
  /\ jobCount \in Nat /\ cancels \in Nat /\ begun \in Nat
  /\ stage \in Stages
  /\ gtk \in {"new", "loop", "join", "mark", "left", "finish", "over", "died"}
  /\ window \in {"none", "intro", "progress"}
  /\ threadAt \in [Workers -> ThreadPlaces] /\ job \in [Workers -> Nat]

Nobody == \A w \in Workers : threadAt[w] = "none"

\* Nothing has been started yet.
FreshWindow == gtk = "new" \/ (gtk = "loop" /\ window = "intro")

\* Where the GTK thread is, what the stage may be and which thread is alive.
WhereInv ==
  /\ FreshWindow => stage = "predownload" /\ Nobody /\ curl /\ begun = 0
  /\ stage = "predownload" => FreshWindow \/ gtk \in {"finish", "over", "died"}
  /\ window = "intro" => gtk \in {"loop", "left", "finish", "over", "died"}
  /\ gtk = "left" /\ stage = "sudo_request" => Nobody /\ begun = 0
  /\ gtk \in {"left", "finish", "over", "died"} => \A w \in Workers : AtRest(w)
  /\ gtk = "join" => stage = "preinstall"
  /\ gtk = "mark" => stage \in {"preinstall", "success", "error"}
  /\ stage = "preinstall" /\ gtk \in {"loop", "join"} =>
       threadAt["download"] = "ended" /\ threadAt["install"] = "none"
  /\ ~AtRest("download") =>
       /\ gtk = "loop" /\ stage \in {"downloading", "cancel_request"}
       /\ threadAt["install"] = "none" /\ curl
  /\ ~AtRest("install") =>
       \/ gtk = "loop" /\ stage \in {"installing", "cancel_request"}
       \/ gtk = "mark" /\ stage = "preinstall"
  /\ threadAt["install"] # "none" => threadAt["download"] = "ended"

Upto(n) == [k \in 1 .. n |-> k]

\* What was fetched and what Unzip was called for when a thread has come so far.
JobsInv ==
  /\ \A w \in Workers : ~AtRest(w) => job[w] >= 1
  /\ threadAt["download"] \in {"work", "failed"} => 1 .. job["download"] - 1 \subseteq fetched
  /\ threadAt["download"] = "check" =>
       1 .. job["download"] \subseteq fetched \/ stage = "cancel_request"
  /\ threadAt["download"] = "next" => 1 .. job["download"] \subseteq fetched
  /\ threadAt["download"] = "done" => 1 .. jobCount \subseteq fetched
  /\ stage = "preinstall" /\ gtk \in {"loop", "join"} => 1 .. jobCount \subseteq fetched
  /\ threadAt["install"] # "none" => 1 .. jobCount \subseteq fetched
  /\ threadAt["install"] = "none" => tried = <<>>
  /\ threadAt["install"] = "work" => tried = Upto(job["install"] - 1)
  /\ threadAt["install"] \in {"check", "next"} => tried = Upto(job["install"])
  /\ threadAt["install"] = "done" => tried = Upto(jobCount)

AllDone == 1 .. jobCount \subseteq fetched /\ tried = Upto(jobCount)

\* Success is what it says, and nothing is marked before the end.
MarkInv ==
  /\ stage = "success" /\ gtk # "died" => helped \/ AllDone
  /\ gtk # "over" => ~installed /\ updateFile = update
  /\ MarkedAfterEveryJob

\* A request to cancel may find one thread that has decided to go on, no more.
CancelInv ==
  stage = "cancel_request" =>
    begun <= 1 /\ (begun = 1 => \A w \in Workers : threadAt[w] # "next")

-----------------------------------------------------------------------------
(* The tuples of variables, and the sets that every leaf needs.            *)

LEMMA StartType ==
  ASSUME InstTypeOK, NEW w \in Workers, StartThread(w)
  PROVE  threadAt' \in [Workers -> ThreadPlaces] /\ job' \in [Workers -> Nat] /\ begun' \in Nat
BY DEF InstTypeOK, StartThread, ThreadPlaces

LEMMA InstTypeStep == InstTypeOK /\ [InstNext]_instVars => InstTypeOK'
<1> SUFFICES ASSUME InstTypeOK, [InstNext]_instVars PROVE InstTypeOK'
  OBVIOUS
<1> USE DEF InstTypeOK, Workers, ThreadPlaces, Stages, Goes, arguments, jobVars, threads,
            outcome, results
<1>0. ASSUME NEW idle \in {"loop", "left"}, StartDownloading(idle)
      PROVE  /\ jobCount' \in Nat /\ stage' \in Stages /\ gtk' \in {"loop", "left"}
             /\ window' \in {window, "progress"}
             /\ threadAt' \in [Workers -> ThreadPlaces] /\ job' \in [Workers -> Nat]
             /\ begun' \in Nat
  <2>1. CASE jobCount' = 0
    BY <1>0, <2>1 DEF StartDownloading
  <2>2. CASE jobCount' # 0
    BY <1>0, <2>2, StartType DEF StartDownloading
  <2> QED
    BY <2>1, <2>2
<1>1. CASE Construct
  <2>1. CASE ConstructForSudo \/ ConstructIntro
    BY <1>1, <2>1, ZenonT(60) DEF ConstructForSudo, ConstructIntro
  <2>2. CASE ConstructKnown
    BY <1>0, <2>2 DEF ConstructKnown
  <2> QED
    BY <1>1, <2>1, <2>2 DEF Construct
<1>2. CASE Install \/ InstallForSystem
  BY <1>0, <1>2 DEF Install, InstallForSystem
<1>3. CASE Cancel \/ DestroyWindow
  BY <1>3 DEF Cancel, DestroyWindow, RequestCancel
<1>4. CASE Watcher
  BY <1>4 DEF Watcher, WatcherQuits, WatcherInstalls
<1>5. CASE StartInstalling
  <2>1. threadAt' \in [Workers -> ThreadPlaces] /\ job' \in [Workers -> Nat] /\ begun' \in Nat
    BY <1>5, StartType DEF StartInstalling, ShutdownDownloader
  <2> QED
    BY <1>5, <2>1, ZenonT(60) DEF StartInstalling, ShutdownDownloader
<1>6. CASE SetInstalling
  BY <1>6 DEF SetInstalling
<1>7. CASE Fetched \/ FetchFails \/ FailureNoticed \/ FailureIgnored \/ FetchThrows
  BY <1>7 DEF Fetched, FetchFails, FailureNoticed, FailureIgnored, FetchThrows
<1>8. CASE UnzipReturns \/ UnzipThrows
  BY <1>8 DEF UnzipReturns, UnzipThrows
<1>9. ASSUME NEW w \in Workers, Works(w) PROVE InstTypeOK'
  <2>1. CASE NextJob(w) \/ LastJob(w)
    BY <1>9, <2>1 DEF NextJob, LastJob
  <2>2. CASE BeginJob(w)
    BY <1>9, <2>2 DEF BeginJob
  <2>3. CASE Acknowledge(w) \/ SetError(w) \/ Report(w)
    BY <1>9, <2>3 DEF Acknowledge, SetError, Report
  <2> QED
    BY <1>9, <2>1, <2>2, <2>3 DEF Works
<1>10. CASE InstallWithSudo \/ InstallWithoutSudo
  <2>1. CASE InstallWithSudo
    <3>1. helped' \in BOOLEAN
      BY <2>1 DEF InstallWithSudo
    <3>2. stage' \in Stages /\ gtk' = "finish" /\ UNCHANGED <<arguments, app, window, threads,
            curl, installed, updateFile, cancels, jobCount>>
      BY <2>1 DEF InstallWithSudo
    <3> QED
      BY <3>1, <3>2
  <2>2. CASE InstallWithoutSudo
    BY <2>2 DEF InstallWithoutSudo
  <2> QED
    BY <1>10, <2>1, <2>2
<1>11. CASE FinishInstall \/ FinishWithoutApp
  BY <1>11, ZenonT(60) DEF FinishInstall, FinishWithoutApp, ShutdownDownloader
<1>12. CASE UNCHANGED instVars
  BY <1>12 DEF instVars
<1> QED
  BY <1>1, <1>2, <1>3, <1>4, <1>5, <1>6, <1>7, <1>8, <1>9, <1>10, <1>11, <1>12
  DEF InstNext, User, MainGoes, Downloads, Installs

\* The stage and the thread it speaks of change together.
LEMMA WhereStep == InstTypeOK /\ WhereInv /\ [InstNext]_instVars => WhereInv'
<1> SUFFICES ASSUME InstTypeOK, WhereInv, [InstNext]_instVars PROVE WhereInv'
  OBVIOUS
<1> USE DEF InstTypeOK, WhereInv, FreshWindow, Nobody, AtRest,
            Workers, Goes, arguments, jobVars, threads, outcome, results
<1>1. CASE Construct
  BY <1>1 DEF Construct, ConstructForSudo, ConstructIntro, ConstructKnown, StartDownloading,
              StartThread
<1>2. CASE Install \/ InstallForSystem
  BY <1>2 DEF Install, InstallForSystem, StartDownloading, StartThread
<1>3. CASE Cancel \/ DestroyWindow
  BY <1>3 DEF Cancel, DestroyWindow, RequestCancel
<1>4. CASE Watcher
  BY <1>4 DEF Watcher, WatcherQuits, WatcherInstalls
<1>5. CASE StartInstalling
  BY <1>5 DEF StartInstalling, ShutdownDownloader, StartThread
<1>6. CASE SetInstalling
  BY <1>6 DEF SetInstalling
<1>7. CASE Fetched \/ FetchFails \/ FailureNoticed \/ FailureIgnored \/ FetchThrows
  BY <1>7 DEF Fetched, FetchFails, FailureNoticed, FailureIgnored, FetchThrows
<1>8. CASE UnzipReturns \/ UnzipThrows
  BY <1>8 DEF UnzipReturns, UnzipThrows
<1>9. ASSUME NEW w \in Workers, Works(w) PROVE WhereInv'
  <2>1. CASE NextJob(w) \/ BeginJob(w) \/ LastJob(w)
    BY <1>9, <2>1 DEF NextJob, BeginJob, LastJob
  <2>2. CASE Acknowledge(w) \/ SetError(w) \/ Report(w)
    BY <1>9, <2>2 DEF Acknowledge, SetError, Report
  <2> QED
    BY <1>9, <2>1, <2>2 DEF Works
<1>10. CASE InstallWithSudo \/ InstallWithoutSudo
  BY <1>10 DEF InstallWithSudo, InstallWithoutSudo
<1>11. CASE FinishInstall \/ FinishWithoutApp
  BY <1>11 DEF FinishInstall, FinishWithoutApp, ShutdownDownloader
<1>12. CASE UNCHANGED instVars
  BY <1>12 DEF instVars
<1> QED
  BY <1>1, <1>2, <1>3, <1>4, <1>5, <1>6, <1>7, <1>8, <1>9, <1>10, <1>11, <1>12
  DEF InstNext, User, MainGoes, Downloads, Installs

LEMMA UptoNext == ASSUME NEW n \in Nat PROVE Append(Upto(n), n + 1) = Upto(n + 1)
BY DEF Upto

LEMMA UptoZero == Upto(0) = <<>>
BY DEF Upto

\* A transfer that failed unnoticed leaves the request to cancel in the stage, which nobody
\* but its own thread takes away.
LEMMA JobsStep == InstTypeOK /\ WhereInv /\ JobsInv /\ [InstNext]_instVars => JobsInv'
<1> SUFFICES ASSUME InstTypeOK, WhereInv, JobsInv, [InstNext]_instVars PROVE JobsInv'
  OBVIOUS
<1> USE DEF InstTypeOK, WhereInv, JobsInv, FreshWindow, Nobody, AtRest,
            Workers, Goes, arguments, jobVars, threads, outcome, results
<1>1. CASE Construct
  BY <1>1 DEF Construct, ConstructForSudo, ConstructIntro, ConstructKnown, StartDownloading,
              StartThread
<1>2. CASE Install \/ InstallForSystem
  BY <1>2 DEF Install, InstallForSystem, StartDownloading, StartThread
<1>3. CASE Cancel \/ DestroyWindow
  BY <1>3 DEF Cancel, DestroyWindow, RequestCancel
<1>4. CASE Watcher
  BY <1>4 DEF Watcher, WatcherQuits, WatcherInstalls
<1>5. CASE StartInstalling
  BY <1>5, UptoZero DEF StartInstalling, ShutdownDownloader, StartThread
<1>6. CASE SetInstalling
  BY <1>6 DEF SetInstalling
<1>7. CASE Fetched \/ FetchFails \/ FailureNoticed \/ FailureIgnored \/ FetchThrows
  BY <1>7 DEF Fetched, FetchFails, FailureNoticed, FailureIgnored, FetchThrows
<1>8. CASE UnzipReturns \/ UnzipThrows
  <2>1. CASE UnzipReturns
    <3>1. job["install"] \in Nat /\ job["install"] >= 1 /\ tried = Upto(job["install"] - 1)
      BY <2>1 DEF UnzipReturns
    <3>2. PICK n \in Nat : n = job["install"] - 1
      BY <3>1
    <3>3. n + 1 = job["install"]
      BY <3>1, <3>2
    <3>4. tried' = Append(Upto(n), n + 1)
      BY <2>1, <3>1, <3>2, <3>3 DEF UnzipReturns
    <3>5. tried' = Upto(job["install"])
      BY <3>3, <3>4, UptoNext
    <3> QED
      BY <2>1, <3>5 DEF UnzipReturns
  <2>2. CASE UnzipThrows
    BY <2>2 DEF UnzipThrows
  <2> QED
    BY <1>8, <2>1, <2>2
<1>9. ASSUME NEW w \in Workers, Works(w) PROVE JobsInv'
  <2>1. CASE NextJob(w) \/ BeginJob(w) \/ LastJob(w)
    BY <1>9, <2>1 DEF NextJob, BeginJob, LastJob
  <2>2. CASE Acknowledge(w) \/ SetError(w) \/ Report(w)
    BY <1>9, <2>2 DEF Acknowledge, SetError, Report
  <2> QED
    BY <1>9, <2>1, <2>2 DEF Works
<1>10. CASE InstallWithSudo \/ InstallWithoutSudo
  BY <1>10 DEF InstallWithSudo, InstallWithoutSudo
<1>11. CASE FinishInstall \/ FinishWithoutApp
  BY <1>11 DEF FinishInstall, FinishWithoutApp, ShutdownDownloader
<1>12. CASE UNCHANGED instVars
  BY <1>12 DEF instVars
<1> QED
  BY <1>1, <1>2, <1>3, <1>4, <1>5, <1>6, <1>7, <1>8, <1>9, <1>10, <1>11, <1>12
  DEF InstNext, User, MainGoes, Downloads, Installs

\* After the request no thread decides to go on.
LEMMA CancelStep == InstTypeOK /\ WhereInv /\ CancelInv /\ [InstNext]_instVars => CancelInv'
<1> SUFFICES ASSUME InstTypeOK, WhereInv, CancelInv, [InstNext]_instVars PROVE CancelInv'
  OBVIOUS
<1> USE DEF InstTypeOK, WhereInv, CancelInv, FreshWindow, Nobody, AtRest,
            Workers, Goes, arguments, jobVars, threads, outcome, results
<1>1. CASE Construct
  BY <1>1 DEF Construct, ConstructForSudo, ConstructIntro, ConstructKnown, StartDownloading,
              StartThread
<1>2. CASE Install \/ InstallForSystem
  BY <1>2 DEF Install, InstallForSystem, StartDownloading, StartThread
<1>3. CASE Cancel \/ DestroyWindow
  BY <1>3 DEF Cancel, DestroyWindow, RequestCancel
<1>4. CASE Watcher
  BY <1>4 DEF Watcher, WatcherQuits, WatcherInstalls
<1>5. CASE StartInstalling
  BY <1>5 DEF StartInstalling, ShutdownDownloader, StartThread
<1>6. CASE SetInstalling
  BY <1>6 DEF SetInstalling
<1>7. CASE Fetched \/ FetchFails \/ FailureNoticed \/ FailureIgnored \/ FetchThrows
  BY <1>7 DEF Fetched, FetchFails, FailureNoticed, FailureIgnored, FetchThrows
<1>8. CASE UnzipReturns \/ UnzipThrows
  BY <1>8 DEF UnzipReturns, UnzipThrows
<1>9. ASSUME NEW w \in Workers, Works(w) PROVE CancelInv'
  <2>1. CASE NextJob(w) \/ BeginJob(w) \/ LastJob(w)
    BY <1>9, <2>1 DEF NextJob, BeginJob, LastJob
  <2>2. CASE Acknowledge(w) \/ SetError(w) \/ Report(w)
    BY <1>9, <2>2 DEF Acknowledge, SetError, Report
  <2> QED
    BY <1>9, <2>1, <2>2 DEF Works
<1>10. CASE InstallWithSudo \/ InstallWithoutSudo
  BY <1>10 DEF InstallWithSudo, InstallWithoutSudo
<1>11. CASE FinishInstall \/ FinishWithoutApp
  BY <1>11 DEF FinishInstall, FinishWithoutApp, ShutdownDownloader
<1>12. CASE UNCHANGED instVars
  BY <1>12 DEF instVars
<1> QED
  BY <1>1, <1>2, <1>3, <1>4, <1>5, <1>6, <1>7, <1>8, <1>9, <1>10, <1>11, <1>12
  DEF InstNext, User, MainGoes, Downloads, Installs

\* What ends the loop, or begins to install, is a stage that a thread sets last.
LEMMA LeftStep == InstTypeOK /\ WhereInv /\ NobodyLeft /\ [InstNext]_instVars => NobodyLeft'
<1> SUFFICES ASSUME InstTypeOK, WhereInv, NobodyLeft, [InstNext]_instVars PROVE NobodyLeft'
  OBVIOUS
<1> USE DEF InstTypeOK, WhereInv, NobodyLeft, FreshWindow, Nobody, AtRest,
            Workers, Goes, arguments, jobVars, threads, outcome, results
<1>1. CASE Construct
  BY <1>1 DEF Construct, ConstructForSudo, ConstructIntro, ConstructKnown, StartDownloading,
              StartThread
<1>2. CASE Install \/ InstallForSystem
  BY <1>2 DEF Install, InstallForSystem, StartDownloading, StartThread
<1>3. CASE Cancel \/ DestroyWindow
  BY <1>3 DEF Cancel, DestroyWindow, RequestCancel
<1>4. CASE Watcher
  BY <1>4 DEF Watcher, WatcherQuits, WatcherInstalls
<1>5. CASE StartInstalling
  BY <1>5 DEF StartInstalling, ShutdownDownloader, StartThread
<1>6. CASE SetInstalling
  BY <1>6 DEF SetInstalling
<1>7. CASE Fetched \/ FetchFails \/ FailureNoticed \/ FailureIgnored \/ FetchThrows
  BY <1>7 DEF Fetched, FetchFails, FailureNoticed, FailureIgnored, FetchThrows
<1>8. CASE UnzipReturns \/ UnzipThrows
  BY <1>8 DEF UnzipReturns, UnzipThrows
<1>9. ASSUME NEW w \in Workers, Works(w) PROVE NobodyLeft'
  <2>1. CASE NextJob(w) \/ BeginJob(w) \/ LastJob(w)
    BY <1>9, <2>1 DEF NextJob, BeginJob, LastJob
  <2>2. CASE Acknowledge(w) \/ SetError(w) \/ Report(w)
    BY <1>9, <2>2 DEF Acknowledge, SetError, Report
  <2> QED
    BY <1>9, <2>1, <2>2 DEF Works
<1>10. CASE InstallWithSudo \/ InstallWithoutSudo
  BY <1>10 DEF InstallWithSudo, InstallWithoutSudo
<1>11. CASE FinishInstall \/ FinishWithoutApp
  BY <1>11 DEF FinishInstall, FinishWithoutApp, ShutdownDownloader
<1>12. CASE UNCHANGED instVars
  BY <1>12 DEF instVars
<1> QED
  BY <1>1, <1>2, <1>3, <1>4, <1>5, <1>6, <1>7, <1>8, <1>9, <1>10, <1>11, <1>12
  DEF InstNext, User, MainGoes, Downloads, Installs

\* The stage says success when nothing was to do, when the install thread is done, or when
\* sudo says it.
LEMMA MarkStep == InstTypeOK /\ WhereInv /\ JobsInv /\ MarkInv /\ [InstNext]_instVars => MarkInv'
<1> SUFFICES ASSUME InstTypeOK, WhereInv, JobsInv, MarkInv, [InstNext]_instVars PROVE MarkInv'
  OBVIOUS
<1> USE DEF InstTypeOK, WhereInv, JobsInv, MarkInv, AllDone, FreshWindow, Nobody, AtRest,
            Workers, Goes, arguments, jobVars, threads, outcome, results
<1>a. MarkedAfterEveryJob <=> (installed \/ updateFile # update => helped \/ AllDone)
  BY DEF MarkedAfterEveryJob, AllDone, Upto
<1>b. MarkedAfterEveryJob' <=> (installed' \/ updateFile' # update' => helped' \/ AllDone')
  BY DEF MarkedAfterEveryJob, AllDone, Upto
<1> USE <1>a, <1>b
<1>0. ASSUME FreshWindow, NEW idle, StartDownloading(idle), UNCHANGED <<fetched, tried>>
      PROVE  stage' = "success" => AllDone'
  BY <1>0, UptoZero DEF StartDownloading
<1>1. CASE Construct
  BY <1>0, <1>1 DEF Construct, ConstructForSudo, ConstructIntro, ConstructKnown, StartDownloading
<1>2. CASE Install \/ InstallForSystem
  <2>1. CASE Install
    BY <1>0, <2>1 DEF Install, StartDownloading
  <2>2. CASE InstallForSystem
    BY <2>2 DEF InstallForSystem
  <2> QED
    BY <1>2, <2>1, <2>2
<1>3. CASE Cancel \/ DestroyWindow
  BY <1>3 DEF Cancel, DestroyWindow, RequestCancel
<1>4. CASE Watcher
  BY <1>4 DEF Watcher, WatcherQuits, WatcherInstalls
<1>5. CASE StartInstalling
  BY <1>5 DEF StartInstalling, ShutdownDownloader, StartThread
<1>6. CASE SetInstalling
  BY <1>6 DEF SetInstalling
<1>7. CASE Fetched \/ FetchFails \/ FailureNoticed \/ FailureIgnored \/ FetchThrows
  BY <1>7 DEF Fetched, FetchFails, FailureNoticed, FailureIgnored, FetchThrows
<1>8. CASE UnzipReturns \/ UnzipThrows
  BY <1>8 DEF UnzipReturns, UnzipThrows
<1>9. ASSUME NEW w \in Workers, Works(w) PROVE MarkInv'
  <2>1. CASE NextJob(w) \/ BeginJob(w) \/ LastJob(w)
    BY <1>9, <2>1 DEF NextJob, BeginJob, LastJob
  <2>2. CASE Acknowledge(w) \/ SetError(w) \/ Report(w)
    BY <1>9, <2>2 DEF Acknowledge, SetError, Report
  <2> QED
    BY <1>9, <2>1, <2>2 DEF Works
<1>10. CASE InstallWithSudo \/ InstallWithoutSudo
  <2>1. CASE InstallWithSudo
    <3>1. stage' = "success" => helped'
      BY <2>1 DEF InstallWithSudo
    <3> QED
      BY <2>1, <3>1 DEF InstallWithSudo
  <2>2. CASE InstallWithoutSudo
    BY <2>2 DEF InstallWithoutSudo
  <2> QED
    BY <1>10, <2>1, <2>2
<1>11. CASE FinishInstall \/ FinishWithoutApp
  BY <1>11 DEF FinishInstall, FinishWithoutApp, ShutdownDownloader
<1>12. CASE UNCHANGED instVars
  BY <1>12 DEF instVars
<1> QED
  BY <1>1, <1>2, <1>3, <1>4, <1>5, <1>6, <1>7, <1>8, <1>9, <1>10, <1>11, <1>12
  DEF InstNext, User, MainGoes, Downloads, Installs

-----------------------------------------------------------------------------
(* The theorems.                                                           *)

InstInv == InstTypeOK /\ WhereInv /\ JobsInv /\ MarkInv /\ CancelInv /\ NobodyLeft

LEMMA InstInitially == InstInit => InstInv
<1> SUFFICES ASSUME InstInit PROVE InstInv
  OBVIOUS
<1> USE InstallerAssumption DEF InstInit, Workers, ThreadPlaces, Stages, AtRest
<1>0. jobCount \in Nat
  BY DEF InstInit
<1>1. InstTypeOK
  <2>1. updateFile \in BOOLEAN
    BY DEF InstInit
  <2>2. threadAt \in [Workers -> ThreadPlaces] /\ job \in [Workers -> Nat]
    BY DEF InstInit
  <2> QED
    BY <1>0, <2>1, <2>2 DEF InstTypeOK
<1>2. WhereInv /\ JobsInv /\ CancelInv /\ NobodyLeft
  BY DEF WhereInv, JobsInv, CancelInv, NobodyLeft, FreshWindow, Nobody
<1>3. MarkInv
  BY DEF MarkInv, MarkedAfterEveryJob
<1> QED
  BY <1>1, <1>2, <1>3 DEF InstInv

LEMMA InstInductive == InstSpec => []InstInv
<1>1. InstInv /\ [InstNext]_instVars => InstInv'
  BY InstTypeStep, WhereStep, JobsStep, MarkStep, CancelStep, LeftStep DEF InstInv
<1> QED
  BY <1>1, InstInitially, PTL DEF InstSpec

\* Finish writes .installed and removes the update file only after each job's file was
\* whole and Unzip was called for each in order, or when sudo reports success: Finish asks
\* nothing but the stage.
THEOREM MarkedMeansEveryJob == InstSpec => []MarkedAfterEveryJob
<1>1. InstInv => MarkedAfterEveryJob
  BY DEF InstInv, MarkInv
<1> QED
  BY <1>1, InstInductive, PTL

\* cURL is shut down, and the Installer freed, when the threads that use them are at rest.
THEOREM NobodyIsLeft == InstSpec => []NobodyLeft
<1>1. InstInv => NobodyLeft
  BY DEF InstInv
<1> QED
  BY <1>1, InstInductive, PTL

\* A thread that goes on after a request to cancel does so for one job.
THEOREM CancelsAreHeeded == InstSpec => []OneMoreJob
<1>1. InstInv => OneMoreJob
  BY DEF InstInv, CancelInv, OneMoreJob
<1> QED
  BY <1>1, InstInductive, PTL

-----------------------------------------------------------------------------
(* Lines: no text is lost on its way to fn.                                *)

AllCharacters == Characters \cup {"end"}
SomeLines == {ll \in Seq(Seq(Characters)) : ll # <<>>}

LineInv ==
  /\ buffer \in Seq(Characters) /\ fnLines \in Seq(Seq(Characters))
  /\ read \in Seq(AllCharacters)
  /\ TextIsPassed

\* A character more ends the last line or makes it longer.
LEMMA WithOne ==
  ASSUME NEW ll \in SomeLines, NEW c \in AllCharacters
  PROVE  With(ll, c) \in SomeLines
<1>1. PICK T : T = Seq(Characters)
  OBVIOUS
<1>2. ll \in Seq(T) /\ ll # <<>>
  BY <1>1 DEF SomeLines
<1>3. CASE c = "end"
  <2>1. <<>> \in T
    BY <1>1
  <2>2. Append(ll, <<>>) \in Seq(T) /\ Append(ll, <<>>) # <<>>
    BY <1>2, <2>1, Appended
  <2> QED
    BY <1>1, <1>3, <2>2 DEF With, SomeLines
<1>4. CASE c # "end"
  <2>1. Front(ll) \in Seq(T) /\ Last(ll) \in T
    BY <1>2, FrontAndLast
  <2>2. c \in Characters
    BY <1>4 DEF AllCharacters
  <2>3. Append(Last(ll), c) \in T
    BY <1>1, <2>1, <2>2
  <2>4. /\ Append(Front(ll), Append(Last(ll), c)) \in Seq(T)
        /\ Append(Front(ll), Append(Last(ll), c)) # <<>>
    BY <2>1, <2>3, Appended
  <2> QED
    BY <1>1, <1>4, <2>4 DEF With, SomeLines
<1> QED
  BY <1>3, <1>4

\* f splits str, character by character.
Splits(f, str) == f[0] = << <<>> >> /\ \A i \in 1 .. Len(str) : f[i] = With(f[i - 1], str[i])

LEMMA SplitExists ==
  ASSUME NEW str \in Seq(AllCharacters)
  PROVE  \E f \in [0 .. Len(str) -> SomeLines] : Splits(f, str)
<1>1. PICK n \in Nat : n = Len(str)
  OBVIOUS
<1>2. \A i \in 1 .. n : str[i] \in AllCharacters
  BY <1>1
<1>3. PICK e \in SomeLines : e = << <<>> >>
  <2>1. <<>> \in Seq(Characters)
    OBVIOUS
  <2>2. << <<>> >> \in Seq(Seq(Characters)) /\ << <<>> >> # <<>>
    BY <2>1
  <2> QED
    BY <2>2 DEF SomeLines
<1>4. PICK g : g = [p \in (1 .. n) \X SomeLines |-> With(p[2], str[p[1]])]
  OBVIOUS
<1>5. g \in [(1 .. n) \X SomeLines -> SomeLines]
  BY <1>2, <1>4, WithOne
<1>6. \A i \in 1 .. n, s \in SomeLines : g[<<i, s>>] = With(s, str[i])
  BY <1>4
<1>7. PICK f \in [0 .. n -> SomeLines] : Recursion(f, n, e, g)
  BY <1>5, RecursionExists
<1>8. \A i \in 1 .. n : i - 1 \in 0 .. n
  BY <1>1
<1>9. \A i \in 1 .. n : f[i - 1] \in SomeLines
  BY <1>7, <1>8
<1>10. Splits(f, str)
  BY <1>1, <1>3, <1>6, <1>7, <1>9 DEF Splits, Recursion
<1> QED
  BY <1>1, <1>7, <1>10

LEMMA SplitSplits ==
  ASSUME NEW str \in Seq(AllCharacters), NEW f \in [0 .. Len(str) -> SomeLines], Splits(f, str)
  PROVE  Split(str) = f[Len(str)]
<1>1. PICK n \in Nat : n = Len(str)
  OBVIOUS
<1> DEFINE split[i \in 0 .. Len(str)] ==
             IF i = 0 THEN << <<>> >> ELSE With(split[i - 1], str[i])
<1>2. Split(str) = split[n]
  BY <1>1 DEF Split
<1>3. \E k : k = [i \in 0 .. Len(str) |-> IF i = 0 THEN << <<>> >> ELSE With(k[i - 1], str[i])]
  <2>1. \A i \in 0 .. n : i = 0 \/ i \in 1 .. n
    BY <1>1
  <2>2. f = [i \in 0 .. Len(str) |-> IF i = 0 THEN << <<>> >> ELSE With(f[i - 1], str[i])]
    BY <1>1, <2>1 DEF Splits
  <2> QED
    BY <2>2
<1>4. split = [i \in 0 .. Len(str) |-> IF i = 0 THEN << <<>> >> ELSE With(split[i - 1], str[i])]
  BY <1>3, Zenon
<1> HIDE DEF split
<1>5. f[0] = split[0]
  <2>1. 0 \in 0 .. n
    BY <1>1
  <2> QED
    BY <1>1, <1>4, <2>1 DEF Splits
<1>6. ASSUME NEW i \in 0 .. n - 1, f[i] = split[i] PROVE f[i + 1] = split[i + 1]
  <2>1. i + 1 \in 0 .. n /\ i + 1 \in 1 .. n /\ i + 1 # 0 /\ (i + 1) - 1 = i
    BY <1>1
  <2> QED
    BY <1>1, <1>4, <1>6, <2>1 DEF Splits
<1>7. \A i \in 0 .. n : f[i] = split[i]
  BY <1>5, <1>6, Agree, ZenonT(40)
<1>8. n \in 0 .. n
  OBVIOUS
<1> QED
  BY <1>1, <1>2, <1>7, <1>8

LEMMA SplitEmpty == Split(<<>>) = << <<>> >>
<1>1. <<>> \in Seq(AllCharacters) /\ Len(<<>>) = 0
  OBVIOUS
<1>2. PICK f \in [0 .. 0 -> SomeLines] : Splits(f, <<>>)
  BY <1>1, SplitExists
<1>3. Split(<<>>) = f[0]
  BY <1>1, <1>2, SplitSplits
<1> QED
  BY <1>2, <1>3 DEF Splits

LEMMA SplitAppend ==
  ASSUME NEW str \in Seq(AllCharacters), NEW c \in AllCharacters
  PROVE  Split(str) \in SomeLines /\ Split(Append(str, c)) = With(Split(str), c)
<1>1. PICK n \in Nat : n = Len(str)
  OBVIOUS
<1>2. PICK f \in [0 .. n -> SomeLines] : Splits(f, str)
  BY <1>1, SplitExists
<1>3. Split(str) = f[n] /\ n \in 0 .. n
  BY <1>1, <1>2, SplitSplits
<1>4. PICK s \in Seq(AllCharacters) : s = Append(str, c)
  BY OneMore
<1>5. Len(s) = n + 1 /\ s[n + 1] = c /\ \A i \in 1 .. n : s[i] = str[i]
  BY <1>1, <1>4, OneMore
<1>6. PICK h \in [0 .. n + 1 -> SomeLines] : Splits(h, s)
  BY <1>5, SplitExists
<1>7. Split(s) = h[n + 1]
  BY <1>5, <1>6, SplitSplits
<1>8. f[0] = h[0]
  BY <1>2, <1>6 DEF Splits
<1>9. ASSUME NEW i \in 0 .. n - 1, f[i] = h[i] PROVE f[i + 1] = h[i + 1]
  <2>1. i + 1 \in 1 .. n /\ i + 1 \in 1 .. n + 1 /\ (i + 1) - 1 = i
    OBVIOUS
  <2> QED
    BY <1>1, <1>2, <1>5, <1>6, <1>9, <2>1 DEF Splits
<1>10. f[n] = h[n]
  <2>1. \A i \in 0 .. n : f[i] = h[i]
    BY <1>8, <1>9, Agree, ZenonT(40)
  <2> QED
    BY <1>3, <2>1
<1>11. h[n + 1] = With(h[n], s[n + 1])
  <2>1. n + 1 \in 1 .. n + 1 /\ (n + 1) - 1 = n
    OBVIOUS
  <2> QED
    BY <1>5, <1>6, <2>1 DEF Splits
<1> QED
  BY <1>2, <1>3, <1>4, <1>5, <1>7, <1>10, <1>11

\* f leaves out the line ends of str, character by character.
LeavesOut(f, str) ==
  /\ f[0] = <<>>
  /\ \A i \in 1 .. Len(str) :
       f[i] = IF str[i] = "end" THEN f[i - 1] ELSE Append(f[i - 1], str[i])

LEMMA WithoutExists ==
  ASSUME NEW str \in Seq(AllCharacters)
  PROVE  \E f \in [0 .. Len(str) -> Seq(Characters)] : LeavesOut(f, str)
<1>1. PICK n \in Nat : n = Len(str)
  OBVIOUS
<1>2. \A i \in 1 .. n : str[i] = "end" \/ str[i] \in Characters
  BY <1>1 DEF AllCharacters
<1>3. PICK T : T = Seq(Characters)
  OBVIOUS
<1>4. PICK e \in T : e = <<>>
  <2>1. <<>> \in Seq(Characters)
    OBVIOUS
  <2> QED
    BY <1>3, <2>1
<1>5. PICK g : g = [p \in (1 .. n) \X T |->
                     IF str[p[1]] = "end" THEN p[2] ELSE Append(p[2], str[p[1]])]
  OBVIOUS
<1>6. g \in [(1 .. n) \X T -> T]
  BY <1>2, <1>3, <1>5
<1>7. \A i \in 1 .. n, s \in T :
        g[<<i, s>>] = IF str[i] = "end" THEN s ELSE Append(s, str[i])
  BY <1>5
<1>8. PICK f \in [0 .. n -> T] : Recursion(f, n, e, g)
  BY <1>6, RecursionExists
<1>9. \A i \in 1 .. n : i - 1 \in 0 .. n
  BY <1>1
<1>10. \A i \in 1 .. n : f[i - 1] \in T
  BY <1>8, <1>9
<1>11. LeavesOut(f, str)
  BY <1>1, <1>4, <1>7, <1>8, <1>10 DEF LeavesOut, Recursion
<1> QED
  BY <1>1, <1>3, <1>8, <1>11

LEMMA WithoutLeavesOut ==
  ASSUME NEW str \in Seq(AllCharacters), NEW f \in [0 .. Len(str) -> Seq(Characters)],
         LeavesOut(f, str)
  PROVE  WithoutEnds(str) = f[Len(str)]
<1>1. PICK n \in Nat : n = Len(str)
  OBVIOUS
<1> DEFINE left[i \in 0 .. Len(str)] ==
             IF i = 0 THEN <<>>
             ELSE IF str[i] = "end" THEN left[i - 1] ELSE Append(left[i - 1], str[i])
<1>2. WithoutEnds(str) = left[n]
  BY <1>1 DEF WithoutEnds
<1>3. \E k : k = [i \in 0 .. Len(str) |->
                    IF i = 0 THEN <<>>
                    ELSE IF str[i] = "end" THEN k[i - 1] ELSE Append(k[i - 1], str[i])]
  <2>1. \A i \in 0 .. n : i = 0 \/ i \in 1 .. n
    BY <1>1
  <2>2. f = [i \in 0 .. Len(str) |->
               IF i = 0 THEN <<>>
               ELSE IF str[i] = "end" THEN f[i - 1] ELSE Append(f[i - 1], str[i])]
    BY <1>1, <2>1 DEF LeavesOut
  <2> QED
    BY <2>2
<1>4. left = [i \in 0 .. Len(str) |->
                IF i = 0 THEN <<>>
                ELSE IF str[i] = "end" THEN left[i - 1] ELSE Append(left[i - 1], str[i])]
  BY <1>3, Zenon
<1> HIDE DEF left
<1>5. f[0] = left[0]
  <2>1. 0 \in 0 .. n
    BY <1>1
  <2> QED
    BY <1>1, <1>4, <2>1 DEF LeavesOut
<1>6. ASSUME NEW i \in 0 .. n - 1, f[i] = left[i] PROVE f[i + 1] = left[i + 1]
  <2>1. i + 1 \in 0 .. n /\ i + 1 \in 1 .. n /\ i + 1 # 0 /\ (i + 1) - 1 = i
    BY <1>1
  <2>2. f[i + 1] = IF str[i + 1] = "end" THEN f[i] ELSE Append(f[i], str[i + 1])
    BY <1>1, <2>1 DEF LeavesOut
  <2>3. left[i + 1] = IF str[i + 1] = "end" THEN left[i] ELSE Append(left[i], str[i + 1])
    BY <1>1, <1>4, <2>1
  <2> QED
    BY <1>6, <2>2, <2>3
<1>7. \A i \in 0 .. n : f[i] = left[i]
  BY <1>5, <1>6, Agree, ZenonT(40)
<1>8. n \in 0 .. n
  OBVIOUS
<1> QED
  BY <1>1, <1>2, <1>7, <1>8

LEMMA WithoutEmpty == WithoutEnds(<<>>) = <<>>
<1>1. <<>> \in Seq(AllCharacters) /\ Len(<<>>) = 0
  OBVIOUS
<1>2. PICK f \in [0 .. 0 -> Seq(Characters)] : LeavesOut(f, <<>>)
  BY <1>1, WithoutExists
<1>3. WithoutEnds(<<>>) = f[0]
  BY <1>1, <1>2, WithoutLeavesOut
<1> QED
  BY <1>2, <1>3 DEF LeavesOut

LEMMA WithoutAppend ==
  ASSUME NEW str \in Seq(AllCharacters), NEW c \in AllCharacters
  PROVE  /\ WithoutEnds(str) \in Seq(Characters)
         /\ WithoutEnds(Append(str, c)) =
              IF c = "end" THEN WithoutEnds(str) ELSE Append(WithoutEnds(str), c)
<1>1. PICK n \in Nat : n = Len(str)
  OBVIOUS
<1>2. PICK f \in [0 .. n -> Seq(Characters)] : LeavesOut(f, str)
  BY <1>1, WithoutExists
<1>3. WithoutEnds(str) = f[n] /\ n \in 0 .. n
  BY <1>1, <1>2, WithoutLeavesOut
<1>4. PICK s \in Seq(AllCharacters) : s = Append(str, c)
  BY OneMore
<1>5. Len(s) = n + 1 /\ s[n + 1] = c /\ \A i \in 1 .. n : s[i] = str[i]
  BY <1>1, <1>4, OneMore
<1>6. PICK h \in [0 .. n + 1 -> Seq(Characters)] : LeavesOut(h, s)
  BY <1>5, WithoutExists
<1>7. WithoutEnds(s) = h[n + 1]
  BY <1>5, <1>6, WithoutLeavesOut
<1>8. f[0] = h[0]
  BY <1>2, <1>6 DEF LeavesOut
<1>9. ASSUME NEW i \in 0 .. n - 1, f[i] = h[i] PROVE f[i + 1] = h[i + 1]
  <2>1. i + 1 \in 1 .. n /\ i + 1 \in 1 .. n + 1 /\ (i + 1) - 1 = i
    OBVIOUS
  <2>2. f[i + 1] = IF str[i + 1] = "end" THEN f[i] ELSE Append(f[i], str[i + 1])
    BY <1>1, <1>2, <2>1 DEF LeavesOut
  <2>3. h[i + 1] = IF s[i + 1] = "end" THEN h[i] ELSE Append(h[i], s[i + 1])
    BY <1>5, <1>6, <2>1 DEF LeavesOut
  <2> QED
    BY <1>5, <1>9, <2>1, <2>2, <2>3
<1>10. f[n] = h[n]
  <2>1. \A i \in 0 .. n : f[i] = h[i]
    BY <1>8, <1>9, Agree, ZenonT(40)
  <2> QED
    BY <1>3, <2>1
<1>11. h[n + 1] = IF s[n + 1] = "end" THEN h[n] ELSE Append(h[n], s[n + 1])
  <2>1. n + 1 \in 1 .. n + 1 /\ (n + 1) - 1 = n
    OBVIOUS
  <2> QED
    BY <1>5, <1>6, <2>1 DEF LeavesOut
<1> QED
  BY <1>2, <1>3, <1>4, <1>5, <1>7, <1>10, <1>11

LEMMA WithoutConcat ==
  ASSUME NEW a \in Seq(AllCharacters), NEW b \in Seq(AllCharacters)
  PROVE  WithoutEnds(a \o b) = WithoutEnds(a) \o WithoutEnds(b)
<1> DEFINE P == {t \in Seq(AllCharacters) : WithoutEnds(a \o t) = WithoutEnds(a) \o WithoutEnds(t)}
<1>0. "end" \in AllCharacters
  BY DEF AllCharacters
<1>1. PICK w \in Seq(Characters) : w = WithoutEnds(a)
  BY <1>0, WithoutAppend
<1>2. <<>> \in P
  <2>1. a \o <<>> = a /\ w \o <<>> = w /\ <<>> \in Seq(AllCharacters)
    OBVIOUS
  <2> QED
    BY <1>1, <2>1, WithoutEmpty
<1>3. ASSUME NEW t \in Seq(AllCharacters), NEW c \in AllCharacters, t \in P
      PROVE  Append(t, c) \in P
  <2>1. PICK v \in Seq(Characters) : v = WithoutEnds(t)
    BY <1>0, WithoutAppend
  <2>2. PICK u \in Seq(AllCharacters) : u = a \o t
    <3>1. a \o t \in Seq(AllCharacters)
      OBVIOUS
    <3> QED
      BY <3>1
  <2>3. WithoutEnds(u) = w \o v
    BY <1>1, <1>3, <2>1, <2>2
  <2>4. WithoutEnds(Append(u, c)) = IF c = "end" THEN w \o v ELSE Append(w \o v, c)
    BY <2>3, WithoutAppend
  <2>5. WithoutEnds(Append(t, c)) = IF c = "end" THEN v ELSE Append(v, c)
    BY <2>1, WithoutAppend
  <2>6. a \o Append(t, c) = Append(u, c) /\ Append(t, c) \in Seq(AllCharacters)
    BY <2>2
  <2>7. c # "end" => w \o Append(v, c) = Append(w \o v, c)
    <3> SUFFICES ASSUME c # "end" PROVE w \o Append(v, c) = Append(w \o v, c)
      OBVIOUS
    <3>1. c \in Characters
      BY DEF AllCharacters
    <3> QED
      BY <3>1, ConcatAppend
  <2>8. WithoutEnds(a \o Append(t, c)) = w \o WithoutEnds(Append(t, c))
    BY <2>4, <2>5, <2>6, <2>7
  <2> QED
    BY <1>1, <2>6, <2>8
<1>4. Seq(AllCharacters) \subseteq P
  <2> HIDE DEF P
  <2> QED
    BY <1>2, <1>3, SequenceInduction
<1> QED
  BY <1>4

\* A text without line ends stays as it is.
LEMMA WithoutNone ==
  ASSUME NEW s \in Seq(Characters)
  PROVE  WithoutEnds(s) = s
<1> DEFINE P == {t \in Seq(Characters) : WithoutEnds(t) = t}
<1>1. <<>> \in P
  <2>1. <<>> \in Seq(Characters)
    OBVIOUS
  <2> QED
    BY <2>1, WithoutEmpty
<1>2. ASSUME NEW t \in Seq(Characters), NEW c \in Characters, t \in P PROVE Append(t, c) \in P
  <2>1. t \in Seq(AllCharacters) /\ c \in AllCharacters
    BY DEF AllCharacters
  <2>2. c # "end"
    BY LineReaderAssumption
  <2>3. WithoutEnds(Append(t, c)) = Append(t, c)
    BY <1>2, <2>1, <2>2, WithoutAppend
  <2>4. Append(t, c) \in Seq(Characters)
    OBVIOUS
  <2> QED
    BY <2>3, <2>4
<1>3. Seq(Characters) \subseteq P
  <2> HIDE DEF P
  <2> QED
    BY <1>1, <1>2, SequenceInduction
<1> QED
  BY <1>3

\* The text of the lines is the text that was split.
LEMMA SplitKeepsText ==
  ASSUME NEW str \in Seq(AllCharacters)
  PROVE  FlattenSeq(Split(str)) = WithoutEnds(str)
<1> DEFINE P == {t \in Seq(AllCharacters) : FlattenSeq(Split(t)) = WithoutEnds(t)}
<1>0. "end" \in AllCharacters
  BY DEF AllCharacters
<1>1. <<>> \in P
  <2>1. <<>> \in Seq(Characters) /\ <<>> \in Seq(Seq(Characters)) /\ <<>> \in Seq(AllCharacters)
    OBVIOUS
  <2>2. FlattenSeq(Append(<<>>, <<>>)) = <<>> \o <<>>
    BY <2>1, FlattenAppend, FlattenEmpty
  <2>3. Append(<<>>, <<>>) = << <<>> >> /\ <<>> \o <<>> = <<>>
    OBVIOUS
  <2> QED
    BY <2>1, <2>2, <2>3, SplitEmpty, WithoutEmpty
<1>2. ASSUME NEW t \in Seq(AllCharacters), NEW c \in AllCharacters, t \in P
      PROVE  Append(t, c) \in P
  <2>1. PICK ll \in SomeLines : ll = Split(t)
    BY <1>0, SplitAppend
  <2>2. PICK w \in Seq(Characters) : w = WithoutEnds(t)
    BY <1>0, WithoutAppend
  <2>3. FlattenSeq(ll) = w
    BY <1>2, <2>1, <2>2
  <2>4. Split(Append(t, c)) = With(ll, c)
    BY <2>1, SplitAppend
  <2>5. WithoutEnds(Append(t, c)) = IF c = "end" THEN w ELSE Append(w, c)
    BY <2>2, WithoutAppend
  <2>6. ll \in Seq(Seq(Characters)) /\ ll # <<>>
    BY DEF SomeLines
  <2>7. FlattenSeq(With(ll, c)) = IF c = "end" THEN w ELSE Append(w, c)
    <3>1. CASE c = "end"
      <4>1. <<>> \in Seq(Characters)
        OBVIOUS
      <4>2. FlattenSeq(Append(ll, <<>>)) = FlattenSeq(ll) \o <<>>
        BY <2>6, <4>1, FlattenAppend
      <4>3. w \o <<>> = w
        OBVIOUS
      <4> QED
        BY <2>3, <3>1, <4>2, <4>3 DEF With
    <3>2. CASE c # "end"
      <4>1. c \in Characters
        BY <3>2 DEF AllCharacters
      <4>2. PICK T : T = Seq(Characters)
        OBVIOUS
      <4>3. ll \in Seq(T)
        BY <2>6, <4>2
      <4>4. PICK f : f = Front(ll)
        OBVIOUS
      <4>5. PICK l : l = Last(ll)
        OBVIOUS
      <4>6. f \in Seq(T) /\ l \in T /\ Append(f, l) = ll
        BY <2>6, <4>3, <4>4, <4>5, FrontAndLast
      <4>7. f \in Seq(Seq(Characters)) /\ l \in Seq(Characters)
        BY <4>2, <4>6
      <4>8. PICK a \in Seq(Characters) : a = FlattenSeq(f)
        BY <4>7, FlattenAppend
      <4>9. FlattenSeq(Append(f, l)) = a \o l
        BY <4>7, <4>8, FlattenAppend
      <4>10. w = a \o l
        BY <2>3, <4>6, <4>9
      <4>11. PICK m \in Seq(Characters) : m = Append(l, c)
        BY <4>1, <4>7, OneMore
      <4>12. FlattenSeq(Append(f, m)) = a \o m
        BY <4>7, <4>8, <4>11, FlattenAppend
      <4>13. a \o Append(l, c) = Append(a \o l, c)
        BY <4>1, <4>7, ConcatAppend
      <4>14. With(ll, c) = Append(f, m)
        BY <3>2, <4>4, <4>5, <4>11 DEF With
      <4> QED
        BY <3>2, <4>10, <4>11, <4>12, <4>13, <4>14
    <3> QED
      BY <3>1, <3>2
  <2>8. Append(t, c) \in Seq(AllCharacters)
    OBVIOUS
  <2> QED
    BY <2>4, <2>5, <2>7, <2>8
<1>3. Seq(AllCharacters) \subseteq P
  <2> HIDE DEF P
  <2> QED
    BY <1>1, <1>2, SequenceInduction
<1> QED
  BY <1>3

\* What a READ brings is a text.
LEMMA TextType ==
  ASSUME NEW n, NEW data \in Texts(n)
  PROVE  data \in Seq(AllCharacters)
<1>1. PICK k \in 1 .. n : data \in [1 .. k -> AllCharacters]
  BY DEF Texts, AllCharacters
<1>2. k \in Nat
  OBVIOUS
<1> QED
  BY <1>1, <1>2

LEMMA TextAssoc == \A s, t, u \in Seq(Characters) : (s \o t) \o u = s \o (t \o u)
OBVIOUS

\* A READ: whether or not the last line is kept, no text is lost.
LEMMA OnReadKeeps ==
  ASSUME LineInv, NEW data \in Seq(AllCharacters), OnRead(data)
  PROVE  LineInv'
<1>0. "end" \in AllCharacters
  BY DEF AllCharacters
<1>1. /\ buffer \in Seq(Characters) /\ fnLines \in Seq(Seq(Characters))
      /\ read \in Seq(AllCharacters)
      /\ ~isNull /\ isNull' = isNull /\ read' = read \o data
      /\ FlattenSeq(fnLines) \o buffer = WithoutEnds(read)
  BY DEF LineInv, TextIsPassed, OnRead
<1>2. buffer \in Seq(AllCharacters)
  BY <1>1 DEF AllCharacters
<1>3. PICK str \in Seq(AllCharacters) : str = buffer \o data
  <2>1. PICK b \in Seq(AllCharacters) : b = buffer
    BY <1>2
  <2>2. b \o data \in Seq(AllCharacters)
    OBVIOUS
  <2> QED
    BY <2>1, <2>2
<1>4. PICK ll : ll = Split(str)
  OBVIOUS
<1>5. ll \in Seq(Seq(Characters)) /\ ll # <<>>
  BY <1>0, <1>4, SplitAppend DEF SomeLines
<1>6. PICK front : front = Front(ll)
  OBVIOUS
<1>7. PICK last : last = Last(ll)
  OBVIOUS
<1>8. front \in Seq(Seq(Characters)) /\ last \in Seq(Characters) /\ Append(front, last) = ll
  <2>1. PICK T : T = Seq(Characters)
    OBVIOUS
  <2>2. front \in Seq(T) /\ last \in T /\ Append(front, last) = ll
    BY <1>5, <1>6, <1>7, <2>1, FrontAndLast
  <2> QED
    BY <2>1, <2>2
<1>9. \/ buffer' = last /\ fnLines' = fnLines \o front
      \/ buffer' = <<>> /\ fnLines' = fnLines \o ll
  <2>1. PICK keep : keep = (IndexOf(str, last) + Len(last) < Len(str))
    OBVIOUS
  <2>2. /\ buffer' = IF keep THEN last ELSE <<>>
        /\ fnLines' = fnLines \o IF keep THEN front ELSE ll
    BY <1>3, <1>4, <1>6, <1>7, <2>1 DEF OnRead, Pass, Last
  <2> QED
    BY <2>2
<1>10. PICK f \in Seq(Characters) : f = FlattenSeq(fnLines)
  BY <1>1, <1>8, FlattenAppend
<1>11. PICK g \in Seq(Characters) : g = FlattenSeq(front)
  BY <1>8, FlattenAppend
<1>12. FlattenSeq(ll) = g \o last
  BY <1>8, <1>11, FlattenAppend
<1>13. PICK d \in Seq(Characters) : d = WithoutEnds(data)
  BY <1>0, WithoutAppend
<1>14. g \o last = buffer \o d
  <2>1. FlattenSeq(ll) = WithoutEnds(str)
    BY <1>4, SplitKeepsText
  <2>2. WithoutEnds(str) = WithoutEnds(buffer) \o WithoutEnds(data)
    BY <1>2, <1>3, WithoutConcat
  <2>3. WithoutEnds(buffer) = buffer
    BY <1>1, WithoutNone
  <2> QED
    BY <1>12, <1>13, <2>1, <2>2, <2>3
<1>15. WithoutEnds(read') = (f \o buffer) \o d
  <2>1. WithoutEnds(read \o data) = WithoutEnds(read) \o WithoutEnds(data)
    BY <1>1, WithoutConcat
  <2> QED
    BY <1>1, <1>10, <1>13, <2>1
<1>16. (f \o buffer) \o d = f \o (g \o last)
  <2>1. (f \o buffer) \o d = f \o (buffer \o d)
    BY <1>1, TextAssoc
  <2> QED
    BY <1>14, <2>1
<1>17. read' \in Seq(AllCharacters)
  BY <1>1
<1>18. CASE buffer' = last /\ fnLines' = fnLines \o front
  <2>1. FlattenSeq(fnLines') = f \o g
    BY <1>1, <1>8, <1>10, <1>11, <1>18, FlattenConcat
  <2>2. (f \o g) \o last = f \o (g \o last)
    <3>1. PICK l \in Seq(Characters) : l = last
      BY <1>8
    <3>2. (f \o g) \o l = f \o (g \o l)
      BY TextAssoc, SMTT(30)
    <3> QED
      BY <3>1, <3>2
  <2>3. fnLines' \in Seq(Seq(Characters))
    BY <1>1, <1>8, <1>18
  <2> QED
    BY <1>8, <1>15, <1>16, <1>17, <1>18, <2>1, <2>2, <2>3 DEF LineInv, TextIsPassed
<1>19. CASE buffer' = <<>> /\ fnLines' = fnLines \o ll
  <2>1. FlattenSeq(fnLines') = f \o (g \o last)
    BY <1>1, <1>5, <1>10, <1>12, <1>19, FlattenConcat
  <2>2. (f \o (g \o last)) \o <<>> = f \o (g \o last)
    BY <1>8
  <2>3. fnLines' \in Seq(Seq(Characters)) /\ <<>> \in Seq(Characters)
    BY <1>1, <1>5, <1>19
  <2> QED
    BY <1>15, <1>16, <1>17, <1>19, <2>1, <2>2, <2>3 DEF LineInv, TextIsPassed
<1> QED
  BY <1>9, <1>18, <1>19

LEMMA LineStep == LineInv /\ [LinesNext]_lineVars => LineInv'
<1> SUFFICES ASSUME LineInv, [LinesNext]_lineVars PROVE LineInv'
  OBVIOUS
<1>1. CASE UNCHANGED lineVars
  BY <1>1 DEF lineVars, LineInv, TextIsPassed
<1>2. ASSUME NEW data \in Texts(MaxText - Len(read)), OnRead(data) PROVE LineInv'
  BY <1>2, TextType, OnReadKeeps
<1>3. ASSUME NEW data \in Texts(MaxText - Len(read)), OnReadThrows(data) PROVE LineInv'
  <2>1. data \in Seq(AllCharacters)
    BY TextType
  <2> QED
    BY <1>3, <2>1 DEF OnReadThrows, LineInv, TextIsPassed
<1>4. CASE OnExit
  BY <1>4 DEF OnExit, LineInv, TextIsPassed
<1>5. CASE OnExitEmpty
  BY <1>5 DEF OnExitEmpty, LineInv, TextIsPassed
<1> QED
  BY <1>1, <1>2, <1>3, <1>4, <1>5 DEF LinesNext

\* However the output is cut into READs and whatever lines repeat in it: the listener
\* loses no text and makes none up, until an exit finds it with a line it has kept.
THEOREM TextsArePassed == LinesSpec => []TextIsPassed
<1>1. LinesInit => LineInv
  <2> SUFFICES ASSUME LinesInit PROVE LineInv
    OBVIOUS
  <2>1. <<>> \in Seq(Characters) /\ <<>> \in Seq(Seq(Characters)) /\ <<>> \in Seq(AllCharacters)
        /\ <<>> \o <<>> = <<>>
    OBVIOUS
  <2> QED
    BY <2>1, FlattenEmpty, WithoutEmpty DEF LinesInit, LineInv, TextIsPassed
<1>2. LineInv => TextIsPassed
  BY DEF LineInv
<1> QED
  BY <1>1, <1>2, LineStep, PTL DEF LinesSpec

-----------------------------------------------------------------------------
(* ti.Filesystem.                                                          *)

\* A step of one part leaves the others alone.
LEMMA FilesystemStep ==
  [FilesystemNext]_<<part, logVars, copyVars, streamVars>> =>
    [LogNext]_logVars /\ [CopyNext]_copyVars /\ [StreamNext]_streamVars
BY DEF FilesystemNext, LogWorks, CopiesWork, StreamWorks

-----------------------------------------------------------------------------
(* Streams: what was written is in the file, or in the buffer of a stream  *)
(* that writes.                                                            *)

StreamInv ==
  /\ disk \in Seq(Pieces) /\ unflushed \in Seq(Pieces) /\ meant \in Seq(Pieces)
  /\ meant = disk \o unflushed
  /\ stream # "out" => unflushed = <<>>

LEMMA ConcatPieces ==
  \A s, t, u \in Seq(Pieces) :
    /\ s \o t \in Seq(Pieces) /\ (s \o t) \o u = s \o (t \o u)
    /\ s \o <<>> = s /\ <<>> \o s = s /\ <<>> \in Seq(Pieces)
OBVIOUS

LEMMA FlushKeeps ==
  ASSUME StreamInv, Flush, meant' = meant
  PROVE  StreamInv'
BY ConcatPieces DEF StreamInv, Flush

LEMMA StreamStep == StreamInv /\ [StreamNext]_streamVars => StreamInv'
<1> SUFFICES ASSUME StreamInv, [StreamNext]_streamVars PROVE StreamInv'
  OBVIOUS
<1>1. CASE UNCHANGED streamVars \/ Read \/ ReadLine \/ ReadLastLine
  BY <1>1 DEF streamVars, Read, ReadLine, ReadLastLine, StreamInv
<1>2. CASE Close \/ OpenRead \/ OpenAppend \/ OpenRefused
  BY <1>2, FlushKeeps DEF Close, OpenRead, OpenAppend, OpenRefused
<1>3. CASE OpenWrite
  <2>1. <<>> \in Seq(Pieces) /\ <<>> \o <<>> = <<>>
    BY ConcatPieces
  <2> QED
    BY <1>3, <2>1 DEF OpenWrite, StreamInv
<1>4. ASSUME NEW pieces \in Seq(Pieces), Puts(pieces) PROVE StreamInv'
  <2>1. PICK d \in Seq(Pieces) : d = disk
    BY DEF StreamInv
  <2>2. PICK u \in Seq(Pieces) : u = unflushed
    BY DEF StreamInv
  <2>3. (d \o u) \o pieces = d \o (u \o pieces) /\ u \o pieces \in Seq(Pieces)
        /\ d \o (u \o pieces) \in Seq(Pieces)
    OBVIOUS
  <2>4. /\ stream' = "out" /\ disk' = d /\ unflushed' = u \o pieces
        /\ meant' = (d \o u) \o pieces
    BY <1>4, <2>1, <2>2 DEF Puts, StreamInv
  <2> QED
    BY <2>3, <2>4 DEF StreamInv
<1>5. \A p \in Pieces : <<p>> \in Seq(Pieces)
  OBVIOUS
<1>6. <<"text", "end">> \in Seq(Pieces)
  BY DEF Pieces
<1>7. CASE BufferWritten
  BY <1>7, ConcatPieces DEF BufferWritten, StreamInv
<1> QED
  BY <1>1, <1>2, <1>3, <1>4, <1>5, <1>6, <1>7 DEF StreamNext, Write, WriteLine

\* In whatever order a script opens, writes, reads and closes: the file holds what was
\* written once the stream no longer writes.
THEOREM StreamsKeep == FilesystemSpec => []WrittenIsKept
<1>1. FilesystemInit => StreamInv
  BY ConcatPieces DEF FilesystemInit, FilesystemStart, StreamInit, StreamInv
<1>2. StreamInv => WrittenIsKept
  BY ConcatPieces DEF StreamInv, WrittenIsKept
<1> QED
  BY <1>1, <1>2, StreamStep, FilesystemStep, PTL DEF FilesystemSpec

-----------------------------------------------------------------------------
(* Streams: what a stream that reads has given.                            *)

\* The lines, each with its end.
Ended(ll) == [i \in DOMAIN ll |-> Append(ll[i], "end")]
Given == FlattenSeq(Ended(lines)) \o rest
NoEnds(ll) == \A i \in DOMAIN ll : "end" \notin Range(ll[i])

ReadInv ==
  stream = "in" =>
    /\ lines \in Seq(Seq(Pieces)) /\ rest \in Seq(Pieces)
    /\ NoEnds(lines) /\ position \in 0 .. Len(disk) /\ atEnd \in BOOLEAN
    /\ ~atEnd => rest = <<>> /\ Given = SubSeq(disk, 1, position)
    /\ atEnd => /\ position = Len(disk)
                /\ Given = disk \/ (Given = Append(disk, "end") /\ Last(disk) # "end")

\* A line more.
LEMMA LineMore ==
  ASSUME NEW ll \in Seq(Seq(Pieces)), NEW l \in Seq(Pieces)
  PROVE  /\ Append(ll, l) \in Seq(Seq(Pieces))
         /\ FlattenSeq(Ended(ll)) \in Seq(Pieces)
         /\ FlattenSeq(Ended(Append(ll, l))) = FlattenSeq(Ended(ll)) \o Append(l, "end")
         /\ NoEnds(ll) /\ "end" \notin Range(l) => NoEnds(Append(ll, l))
<1>1. PICK T : T = Seq(Pieces)
  OBVIOUS
<1>2. ll \in Seq(T) /\ l \in T
  BY <1>1
<1>3. PICK n \in Nat : n = Len(ll)
  OBVIOUS
<1>4. PICK mm : mm = Append(ll, l)
  OBVIOUS
<1>5. /\ mm \in Seq(T) /\ DOMAIN mm = 1 .. n + 1 /\ DOMAIN ll = 1 .. n
      /\ mm[n + 1] = l /\ \A i \in 1 .. n : mm[i] = ll[i] /\ ll[i] \in T
  BY <1>2, <1>3, <1>4
<1>6. "end" \in Pieces
  BY DEF Pieces
<1>7. \A s \in T : Append(s, "end") \in T
  BY <1>1, <1>6
<1>8. PICK a : a = Ended(ll)
  OBVIOUS
<1>9. a \in Seq(T) /\ Len(a) = n /\ \A i \in 1 .. n : a[i] = Append(ll[i], "end")
  <2>1. a = [i \in 1 .. n |-> Append(ll[i], "end")]
    BY <1>5, <1>8 DEF Ended
  <2>2. a \in [1 .. n -> T]
    BY <1>5, <1>7, <2>1
  <2> QED
    BY <2>1, <2>2
<1>10. PICK e : e = Append(l, "end")
  OBVIOUS
<1>11. e \in T
  BY <1>2, <1>7, <1>10
<1>12. Ended(mm) = Append(a, e)
  <2>1. Ended(mm) = [i \in 1 .. n + 1 |-> Append(mm[i], "end")]
    BY <1>5 DEF Ended
  <2>2. \A i \in 1 .. n + 1 : i \in 1 .. n \/ i = n + 1
    OBVIOUS
  <2>3. PICK b : b = Append(a, e)
    OBVIOUS
  <2>4. /\ b \in Seq(T) /\ Len(b) = n + 1 /\ b[n + 1] = e
        /\ \A i \in 1 .. n : b[i] = a[i]
    BY <1>9, <1>11, <2>3, OneMore
  <2>5. b = [i \in 1 .. n + 1 |-> b[i]]
    BY <2>4
  <2>6. \A i \in 1 .. n + 1 : b[i] = Append(mm[i], "end")
    BY <1>5, <1>9, <1>10, <2>2, <2>4
  <2> QED
    BY <2>1, <2>3, <2>5, <2>6
<1>13. a \in Seq(Seq(Pieces)) /\ e \in Seq(Pieces)
  BY <1>1, <1>9, <1>11
<1>14. FlattenSeq(a) \in Seq(Pieces) /\ FlattenSeq(Append(a, e)) = FlattenSeq(a) \o e
  BY <1>13, FlattenAppend
<1>15. ASSUME NoEnds(ll), "end" \notin Range(l) PROVE NoEnds(mm)
  <2>1. \A i \in 1 .. n + 1 : i \in 1 .. n \/ i = n + 1
    OBVIOUS
  <2> QED
    BY <1>5, <1>15, <2>1 DEF NoEnds
<1> QED
  BY <1>1, <1>4, <1>5, <1>8, <1>10, <1>12, <1>14, <1>15

\* The rest of the file, and what is before it.
LEMMA RestOfDisk ==
  ASSUME NEW d \in Seq(Pieces), NEW p \in 0 .. Len(d), NEW k \in 0 .. Len(d) - p
  PROVE  LET r == SubSeq(d, p + 1, Len(d))
         IN /\ r \in Seq(Pieces) /\ Len(r) = Len(d) - p
            /\ \A i \in 1 .. Len(d) - p : r[i] = d[p + i]
            /\ SubSeq(d, 1, p) \o SubSeq(r, 1, k) = SubSeq(d, 1, p + k)
            /\ SubSeq(r, 1, k) \in Seq(Pieces) /\ SubSeq(d, 1, p) \in Seq(Pieces)
<1>1. PICK n \in Nat : n = Len(d)
  OBVIOUS
<1>2. PICK r : r = SubSeq(d, p + 1, n)
  OBVIOUS
<1>3. r \in Seq(Pieces) /\ Len(r) = n - p
  BY <1>1, <1>2
<1>4. ASSUME NEW i \in 1 .. n - p PROVE r[i] = d[p + i]
  <2>1. (p + 1) + i - 1 = p + i
    BY <1>1
  <2> QED
    BY <1>1, <1>2, <2>1
<1>5. PICK a : a = SubSeq(d, 1, p)
  OBVIOUS
<1>6. a \in Seq(Pieces) /\ Len(a) = p /\ \A i \in 1 .. p : a[i] = d[i]
  BY <1>1, <1>5
<1>7. PICK b : b = SubSeq(r, 1, k)
  OBVIOUS
<1>8. b \in Seq(Pieces) /\ Len(b) = k /\ \A i \in 1 .. k : b[i] = d[p + i]
  <2>1. b \in Seq(Pieces) /\ Len(b) = k /\ \A i \in 1 .. k : b[i] = r[i]
    BY <1>1, <1>3, <1>7
  <2>2. \A i \in 1 .. k : i \in 1 .. n - p
    BY <1>1
  <2> QED
    BY <1>4, <2>1, <2>2
<1>9. PICK c : c = SubSeq(d, 1, p + k)
  OBVIOUS
<1>10. c \in Seq(Pieces) /\ Len(c) = p + k /\ \A i \in 1 .. p + k : c[i] = d[i]
  BY <1>1, <1>9
<1>11. PICK x : x = a \o b
  OBVIOUS
<1>12. /\ x \in Seq(Pieces) /\ Len(x) = p + k
       /\ \A i \in 1 .. p : x[i] = a[i]
       /\ \A j \in 1 .. k : x[p + j] = b[j]
  <2>1. a \in Seq(Pieces) /\ b \in Seq(Pieces)
    BY <1>6, <1>8
  <2>2. /\ a \o b \in Seq(Pieces) /\ Len(a \o b) = Len(a) + Len(b)
        /\ \A i \in 1 .. Len(a) : (a \o b)[i] = a[i]
        /\ \A i \in 1 .. Len(b) : (a \o b)[Len(a) + i] = b[i]
    BY <2>1, Concatenated
  <2> QED
    BY <1>6, <1>8, <1>11, <2>2
<1>13. ASSUME NEW i \in 1 .. p + k PROVE x[i] = c[i]
  <2>1. CASE i \in 1 .. p
    BY <1>6, <1>10, <1>12, <2>1
  <2>2. CASE i \notin 1 .. p
    <3>1. PICK j \in 1 .. k : i = p + j
      <4>1. i - p \in 1 .. k /\ i = p + (i - p)
        BY <2>2
      <4> QED
        BY <4>1
    <3>2. x[p + j] = b[j]
      BY <1>12
    <3>3. b[j] = d[p + j]
      BY <1>8
    <3>4. c[i] = d[i]
      BY <1>10
    <3> QED
      BY <3>1, <3>2, <3>3, <3>4
  <2> QED
    BY <2>1, <2>2
<1>14. x = c
  BY <1>10, <1>12, <1>13
<1> QED
  BY <1>1, <1>2, <1>3, <1>4, <1>5, <1>6, <1>7, <1>8, <1>9, <1>11, <1>14

LEMMA RestType ==
  ASSUME disk \in Seq(Pieces), position \in 0 .. Len(disk)
  PROVE  Rest \in Seq(Pieces) /\ Len(disk) - position \in 0 .. Len(disk) - position
<1>1. PICK n \in Nat : n = Len(disk)
  OBVIOUS
<1>2. 0 \in 0 .. n - position /\ n - position \in 0 .. n - position
  BY <1>1
<1> QED
  BY <1>1, <1>2, RestOfDisk DEF Rest

\* A stream that has just been opened has given nothing.
LEMMA OpenedReads ==
  ASSUME StreamInv', Fresh
  PROVE  ReadInv'
<1>1. position' = 0 /\ atEnd' = FALSE /\ lines' = <<>> /\ rest' = <<>> /\ disk' \in Seq(Pieces)
  BY DEF Fresh, StreamInv
<1>2. lines' \in Seq(Seq(Pieces)) /\ rest' \in Seq(Pieces) /\ NoEnds(lines)'
  BY <1>1 DEF NoEnds
<1>3. Ended(lines)' = <<>>
  <2>1. DOMAIN lines' = {}
    BY <1>1
  <2>2. Ended(lines)' = [i \in {} |-> Append(lines'[i], "end")]
    BY <2>1 DEF Ended
  <2> QED
    BY <2>2
<1>4. Given' = <<>>
  BY <1>1, <1>3, FlattenEmpty DEF Given
<1>5. SubSeq(disk', 1, 0) = <<>> /\ 0 \in 0 .. Len(disk')
  BY <1>1
<1> QED
  BY <1>1, <1>2, <1>4, <1>5 DEF ReadInv

LEMMA ReadsTheRest ==
  ASSUME StreamInv, ReadInv, Read
  PROVE  ReadInv'
<1>1. /\ stream = "in" /\ position' = Len(disk) /\ atEnd' = TRUE
      /\ rest' = rest \o Rest /\ disk' = disk /\ lines' = lines
  BY DEF Read
<1>2. /\ disk \in Seq(Pieces) /\ lines \in Seq(Seq(Pieces)) /\ rest \in Seq(Pieces)
      /\ NoEnds(lines) /\ position \in 0 .. Len(disk) /\ Len(disk) \in Nat
  BY <1>1 DEF StreamInv, ReadInv
<1>3. PICK f \in Seq(Pieces) : f = FlattenSeq(Ended(lines))
  <2>1. <<>> \in Seq(Pieces)
    OBVIOUS
  <2>2. FlattenSeq(Ended(lines)) \in Seq(Pieces)
    BY <1>2, <2>1, LineMore
  <2> QED
    BY <2>2
<1>4. PICK r \in Seq(Pieces) : r = Rest
  BY <1>2, RestType
<1>5. Given = f \o rest /\ Given' = f \o (rest \o r) /\ rest \in Seq(Pieces)
  BY <1>1, <1>2, <1>3, <1>4 DEF Given
<1>6. f \o (rest \o r) = (f \o rest) \o r
  <2>1. PICK s \in Seq(Pieces) : s = rest
    BY <1>2
  <2>2. f \o (s \o r) = (f \o s) \o r
    OBVIOUS
  <2> QED
    BY <2>1, <2>2
<1>7. CASE ~atEnd
  <2>1. f \o rest = SubSeq(disk, 1, position)
    BY <1>1, <1>5, <1>7 DEF ReadInv
  <2>2. SubSeq(disk, 1, position) \o r = disk
    <3>1. PICK k \in 0 .. Len(disk) - position : k = Len(disk) - position
      BY <1>2, RestType
    <3>2. /\ Len(r) = Len(disk) - position
          /\ SubSeq(disk, 1, position) \o SubSeq(r, 1, k) = SubSeq(disk, 1, position + k)
      BY <1>2, <1>4, RestOfDisk DEF Rest
    <3>3. SubSeq(r, 1, k) = r /\ SubSeq(disk, 1, position + k) = disk
      BY <1>2, <3>1, <3>2
    <3> QED
      BY <3>2, <3>3
  <2>3. Given' = disk'
    BY <1>1, <1>5, <1>6, <2>1, <2>2
  <2> QED
    BY <1>1, <1>2, <1>4, <2>3, ConcatPieces DEF ReadInv
<1>8. CASE atEnd
  <2>1. position = Len(disk)
    BY <1>1, <1>8 DEF ReadInv
  <2>2. r = <<>>
    BY <1>2, <1>4, <2>1 DEF Rest
  <2>3. rest' = rest /\ Given' = Given
    BY <1>1, <1>2, <1>4, <1>5, <1>6, <2>2, ConcatPieces
  <2> QED
    BY <1>1, <1>2, <1>8, <2>3 DEF ReadInv
<1> QED
  BY <1>1, <1>7, <1>8 DEF ReadInv

LEMMA ReadsALine ==
  ASSUME StreamInv, ReadInv, ReadLine
  PROVE  ReadInv'
<1> DEFINE I == {i \in 1 .. Len(Rest) : Rest[i] = "end"}
           length == SelectInSeq(Rest, LAMBDA p : p = "end")
<1>1. /\ stream = "in" /\ ~atEnd /\ "end" \in Range(Rest)
      /\ lines' = Append(lines, SubSeq(Rest, 1, length - 1)) /\ position' = position + length
      /\ atEnd' = atEnd /\ disk' = disk /\ rest' = rest
  BY DEF ReadLine
<1>2. length = IF I # {} THEN Min(I) ELSE 0
  BY DEF SelectInSeq
<1>3. /\ disk \in Seq(Pieces) /\ lines \in Seq(Seq(Pieces)) /\ rest = <<>>
      /\ NoEnds(lines) /\ position \in 0 .. Len(disk) /\ Len(disk) \in Nat
      /\ Given = SubSeq(disk, 1, position)
  BY <1>1 DEF StreamInv, ReadInv
<1>4. PICK r \in Seq(Pieces) : r = Rest
  BY <1>3, RestType
<1>5. PICK k : k = length
  OBVIOUS
<1>6. k \in I /\ \A i \in I : k <= i
  <2>1. I # {}
    BY <1>1, <1>4 DEF Range
  <2>2. I \subseteq Nat
    BY <1>4
  <2> HIDE DEF I, length
  <2> QED
    BY <1>2, <1>5, <2>1, <2>2, MinIsIn
<1>7. k \in 1 .. Len(r) /\ r[k] = "end" /\ \A i \in 1 .. k - 1 : r[i] # "end"
  <2>1. k \in 1 .. Len(r) /\ r[k] = "end" /\ \A i \in 1 .. Len(r) : r[i] = "end" => k <= i
    BY <1>4, <1>6
  <2>2. \A i \in 1 .. k - 1 : i \in 1 .. Len(r) /\ ~ (k <= i)
    BY <1>4, <2>1
  <2> QED
    BY <2>1, <2>2
<1> HIDE DEF I, length
<1>8. Len(r) = Len(disk) - position /\ k \in 0 .. Len(disk) - position
  <2>1. 0 \in 0 .. Len(disk) - position
    BY <1>3
  <2>2. Len(r) = Len(disk) - position
    BY <1>3, <1>4, <2>1, RestOfDisk DEF Rest
  <2> QED
    BY <1>7, <2>2
<1>9. SubSeq(disk, 1, position) \o SubSeq(r, 1, k) = SubSeq(disk, 1, position + k)
  BY <1>3, <1>4, <1>8, RestOfDisk DEF Rest
<1>10. PICK l : l = SubSeq(r, 1, k - 1)
  OBVIOUS
<1>11. l \in Seq(Pieces) /\ "end" \notin Range(l) /\ Append(l, "end") = SubSeq(r, 1, k)
  <2>1. l \in Seq(Pieces) /\ Len(l) = k - 1 /\ \A i \in 1 .. k - 1 : l[i] = r[i]
    BY <1>4, <1>7, <1>10
  <2>2. "end" \notin Range(l)
    BY <1>7, <2>1 DEF Range
  <2>3. PICK a : a = Append(l, "end")
    OBVIOUS
  <2>4. PICK b : b = SubSeq(r, 1, k)
    OBVIOUS
  <2>5. b \in Seq(Pieces) /\ Len(b) = k /\ \A i \in 1 .. k : b[i] = r[i]
    BY <1>4, <1>7, <2>4
  <2>6. a \in Seq(Pieces) /\ Len(a) = k
    <3>1. "end" \in Pieces
      BY DEF Pieces
    <3>2. Append(l, "end") \in Seq(Pieces) /\ Len(Append(l, "end")) = Len(l) + 1
      BY <2>1, <3>1, OneMore
    <3> QED
      BY <1>7, <2>1, <2>3, <3>2
  <2>7. ASSUME NEW i \in 1 .. k PROVE a[i] = b[i]
    <3>1. CASE i = k
      BY <1>7, <2>1, <2>3, <2>5, <3>1
    <3>2. CASE i \in 1 .. k - 1
      BY <1>7, <2>1, <2>3, <2>5, <3>2
    <3> QED
      BY <1>7, <3>1, <3>2
  <2>8. a = b
    BY <2>5, <2>6, <2>7
  <2> QED
    BY <2>1, <2>2, <2>3, <2>4, <2>8
<1>12. lines' = Append(lines, l) /\ position' = position + k
  BY <1>1, <1>4, <1>5, <1>10
<1>13. /\ lines' \in Seq(Seq(Pieces)) /\ NoEnds(lines)'
       /\ FlattenSeq(Ended(lines)) \in Seq(Pieces)
       /\ FlattenSeq(Ended(lines)') = FlattenSeq(Ended(lines)) \o SubSeq(r, 1, k)
  BY <1>3, <1>11, <1>12, LineMore DEF NoEnds, Ended
<1>14. Given' = SubSeq(disk', 1, position')
  <2>1. PICK f \in Seq(Pieces) : f = FlattenSeq(Ended(lines))
    BY <1>13
  <2>2. Given = f \o <<>> /\ f \o <<>> = f
    BY <1>3, <2>1 DEF Given
  <2>3. PICK s \in Seq(Pieces) : s = SubSeq(r, 1, k)
    <3>1. SubSeq(r, 1, k) \in Seq(Pieces)
      BY <1>3, <1>4, <1>8, RestOfDisk DEF Rest
    <3> QED
      BY <3>1
  <2>4. Given' = (f \o s) \o <<>>
    BY <1>1, <1>3, <1>13, <2>1, <2>3 DEF Given
  <2>5. (f \o s) \o <<>> = f \o s
    BY ConcatPieces
  <2>6. f = SubSeq(disk, 1, position)
    BY <1>3, <2>2
  <2> QED
    BY <1>1, <1>9, <1>12, <2>3, <2>4, <2>5, <2>6
<1>15. position' \in 0 .. Len(disk')
  BY <1>1, <1>3, <1>8, <1>12
<1> QED
  BY <1>1, <1>3, <1>13, <1>14, <1>15 DEF ReadInv

LEMMA ReadsTheLast ==
  ASSUME StreamInv, ReadInv, ReadLastLine
  PROVE  ReadInv'
<1>1. /\ stream = "in" /\ ~atEnd /\ "end" \notin Range(Rest)
      /\ atEnd' = TRUE /\ position' = Len(disk)
      /\ lines' = IF Rest = <<>> THEN lines ELSE Append(lines, Rest)
      /\ disk' = disk /\ rest' = rest
  BY DEF ReadLastLine
<1>2. /\ disk \in Seq(Pieces) /\ lines \in Seq(Seq(Pieces)) /\ rest = <<>>
      /\ NoEnds(lines) /\ position \in 0 .. Len(disk) /\ Len(disk) \in Nat
      /\ Given = SubSeq(disk, 1, position)
  BY <1>1 DEF StreamInv, ReadInv
<1>3. PICK r \in Seq(Pieces) : r = Rest
  BY <1>2, RestType
<1>4. PICK k \in 0 .. Len(disk) - position : k = Len(disk) - position
  BY <1>2, RestType
<1>5. /\ Len(r) = k /\ \A i \in 1 .. k : r[i] = disk[position + i]
      /\ SubSeq(disk, 1, position) \o r = disk
  <2>1. /\ Len(r) = k /\ \A i \in 1 .. k : r[i] = disk[position + i]
        /\ SubSeq(disk, 1, position) \o SubSeq(r, 1, k) = SubSeq(disk, 1, position + k)
    BY <1>2, <1>3, <1>4, RestOfDisk DEF Rest
  <2>2. SubSeq(r, 1, k) = r /\ SubSeq(disk, 1, position + k) = disk
    BY <1>2, <1>4, <2>1
  <2> QED
    BY <2>1, <2>2
<1>6. position' \in 0 .. Len(disk') /\ rest' \in Seq(Pieces)
  BY <1>1, <1>2
<1>7. CASE r = <<>>
  <2>1. lines' = lines /\ Given' = Given
    BY <1>1, <1>3, <1>7 DEF Given, Ended
  <2>2. SubSeq(disk, 1, position) \in Seq(Pieces)
    BY <1>2
  <2>3. Given' = disk
    BY <1>2, <1>5, <1>7, <2>1, <2>2, ConcatPieces
  <2> QED
    BY <1>1, <1>2, <1>6, <2>1, <2>3 DEF ReadInv
<1>8. CASE r # <<>>
  <2>1. lines' = Append(lines, r) /\ "end" \notin Range(r)
    BY <1>1, <1>3, <1>8
  <2>2. /\ lines' \in Seq(Seq(Pieces)) /\ NoEnds(lines)'
        /\ FlattenSeq(Ended(lines)) \in Seq(Pieces)
        /\ FlattenSeq(Ended(lines)') = FlattenSeq(Ended(lines)) \o Append(r, "end")
    BY <1>2, <2>1, LineMore DEF NoEnds, Ended
  <2>3. PICK f \in Seq(Pieces) : f = FlattenSeq(Ended(lines))
    BY <2>2
  <2>4. f = SubSeq(disk, 1, position)
    <3>1. Given = f \o <<>> /\ f \o <<>> = f
      BY <1>2, <2>3 DEF Given
    <3> QED
      BY <1>2, <3>1
  <2>5. "end" \in Pieces
    BY DEF Pieces
  <2>6. f \o Append(r, "end") = Append(f \o r, "end")
    BY <2>5, ConcatAppend
  <2>7. FlattenSeq(Ended(lines)') = Append(disk, "end")
    BY <1>5, <2>2, <2>3, <2>4, <2>6
  <2>8. Append(disk, "end") \o <<>> = Append(disk, "end")
    <3>1. Append(disk, "end") \in Seq(Pieces)
      BY <1>2, <2>5
    <3> QED
      BY <3>1, ConcatPieces
  <2>9. Given' = Append(disk, "end")
    BY <1>1, <1>2, <2>7, <2>8 DEF Given
  <2>10. Last(disk) # "end"
    <3>1. k \in 1 .. k /\ position + k = Len(disk)
      BY <1>2, <1>4, <1>5, <1>8
    <3>2. r[k] = disk[Len(disk)]
      BY <1>5, <3>1
    <3>3. r[k] \in Range(r)
      BY <1>3, <1>5, <3>1 DEF Range
    <3> QED
      BY <2>1, <3>2, <3>3 DEF Last
  <2> QED
    BY <1>1, <1>6, <2>2, <2>9, <2>10 DEF ReadInv
<1> QED
  BY <1>7, <1>8

LEMMA ReadStep ==
  ASSUME StreamInv, ReadInv, [StreamNext]_streamVars
  PROVE  ReadInv'
<1>0. StreamInv'
  BY StreamStep
<1>1. ASSUME UNCHANGED <<stream, atEnd, position, disk, lines, rest>> PROVE ReadInv'
  BY <1>1 DEF ReadInv, Given, Ended, NoEnds
<1>2. CASE UNCHANGED streamVars
  BY <1>1, <1>2 DEF streamVars
<1>3. CASE OpenRead \/ OpenAppend \/ OpenWrite
  BY <1>0, <1>3, OpenedReads DEF OpenRead, OpenAppend, OpenWrite
<1>4. CASE Close \/ OpenRefused
  BY <1>4 DEF Close, OpenRefused, ReadInv
<1>5. CASE \E pieces : Puts(pieces)
  BY <1>5 DEF Puts, ReadInv
<1>6. CASE BufferWritten
  <2>1. stream # "in" /\ stream' = stream
    BY <1>6 DEF BufferWritten, StreamInv
  <2> QED
    BY <2>1 DEF ReadInv
<1>7. CASE Read
  BY <1>7, ReadsTheRest
<1>8. CASE ReadLine
  BY <1>8, ReadsALine
<1>9. CASE ReadLastLine
  BY <1>9, ReadsTheLast
<1> QED
  BY <1>2, <1>3, <1>4, <1>5, <1>6, <1>7, <1>8, <1>9 DEF StreamNext, Write, WriteLine

\* In whatever order a script opens, writes and reads: the lines that readLine returns,
\* and what read does, are what was written, up to where the stream has read.
THEOREM LinesAreReadBack == FilesystemSpec => []LinesReadBack
<1>1. FilesystemInit => StreamInv /\ ReadInv
  BY ConcatPieces DEF FilesystemInit, FilesystemStart, StreamInit, StreamInv, ReadInv
<1>2. ASSUME StreamInv, ReadInv PROVE LinesReadBack
  <2> SUFFICES ASSUME stream = "in"
               PROVE /\ NoEnds(lines)
                     /\ \/ ~atEnd /\ Given = SubSeq(meant, 1, Len(Given))
                        \/ atEnd /\ Given = meant
                        \/ atEnd /\ Given = Append(meant, "end") /\ Last(meant) # "end"
    BY DEF LinesReadBack, Given, Ended, NoEnds
  <2>1. meant = disk /\ disk \in Seq(Pieces)
    BY <1>2, ConcatPieces DEF StreamInv
  <2>2. position \in 0 .. Len(disk) /\ NoEnds(lines)
    BY <1>2 DEF ReadInv
  <2>3. Len(SubSeq(disk, 1, position)) = position
    BY <2>1, <2>2
  <2> QED
    BY <1>2, <2>1, <2>2, <2>3 DEF ReadInv
<1> QED
  BY <1>1, <1>2, StreamStep, ReadStep, FilesystemStep, PTL DEF FilesystemSpec

-----------------------------------------------------------------------------
(* Copies: one that runs is in the list.                                   *)

CopiesInv ==
  /\ asyncOperations \in Seq(Copies) /\ asked \in Nat
  /\ running \in [Copies -> BOOLEAN]
  /\ RunningIsKept

\* The copy that is removed is none of those that run.
LEMMA CollectKeeps ==
  ASSUME CopiesInv, DeletePendingOperations
  PROVE  CopiesInv'
<1> DEFINE I == {i \in 1 .. Len(asyncOperations) : ~running[asyncOperations[i]]}
           finished == SelectInSeq(asyncOperations, LAMBDA c : ~running[c])
<1>1. finished = IF I # {} THEN Min(I) ELSE 0
  BY DEF SelectInSeq
<1>2. /\ asyncOperations' = IF finished = 0 THEN asyncOperations
                              ELSE RemoveAt(asyncOperations, finished)
      /\ running' = running /\ asked' = asked
  BY DEF DeletePendingOperations, progress, copyOf
<1> HIDE DEF finished
<1>3. CASE I = {}
  BY <1>1, <1>2, <1>3 DEF CopiesInv, RunningIsKept
<1>4. CASE I # {}
  <2>1. finished \in I
    BY <1>1, <1>4, MinIsIn
  <2>2. finished \in DOMAIN asyncOperations /\ ~running[asyncOperations[finished]]
    BY <2>1 DEF CopiesInv
  <2>3. finished # 0
    BY <2>1
  <2>4. finished \in 1 .. Len(asyncOperations) /\ asyncOperations \in Seq(Copies)
    BY <2>1 DEF CopiesInv
  <2>5. RunningIsKept'
    <3> SUFFICES ASSUME NEW c \in Copies, running[c] PROVE c \in Range(asyncOperations')
      BY <1>2 DEF RunningIsKept
    <3>1. c \in Range(asyncOperations) /\ c # asyncOperations[finished]
      BY <2>2 DEF CopiesInv, RunningIsKept
    <3>2. c \in Range(RemoveAt(asyncOperations, finished))
      BY <2>4, <3>1, OthersStay
    <3> QED
      BY <1>2, <2>3, <3>2
  <2>6. RemoveAt(asyncOperations, finished) \in Seq(Copies)
    BY <2>4, TakenOut
  <2> QED
    BY <1>2, <2>3, <2>5, <2>6 DEF CopiesInv
<1> QED
  BY <1>3, <1>4

LEMMA AskedCopy ==
  ASSUME CopiesInv, NEW n \in 0 .. MaxFiles, ExecuteAsyncCopy(n)
  PROVE  CopiesInv'
<1>1. asked' \in Copies /\ asked' \in Nat
  BY CopyAssumption DEF CopiesInv, ExecuteAsyncCopy, Copies
<1>2. /\ asyncOperations' = Append(asyncOperations, asked')
      /\ running' = [running EXCEPT ![asked'] = TRUE]
  BY DEF ExecuteAsyncCopy
<1>3. /\ asyncOperations' \in Seq(Copies)
      /\ Range(asyncOperations') = Range(asyncOperations) \cup {asked'}
  BY <1>1, <1>2, Appended DEF CopiesInv
<1>4. running' \in [Copies -> BOOLEAN]
  BY <1>2 DEF CopiesInv
<1>5. \A c \in Copies : running'[c] => running[c] \/ c = asked'
  BY <1>2 DEF CopiesInv
<1>6. RunningIsKept'
  BY <1>3, <1>5 DEF CopiesInv, RunningIsKept
<1> QED
  BY <1>1, <1>3, <1>4, <1>6 DEF CopiesInv

LEMMA CopyStep == CopiesInv /\ [CopyNext]_copyVars => CopiesInv'
<1> SUFFICES ASSUME CopiesInv, [CopyNext]_copyVars PROVE CopiesInv'
  OBVIOUS
<1>1. ASSUME UNCHANGED <<asyncOperations, running, asked>> PROVE CopiesInv'
  BY <1>1 DEF CopiesInv, RunningIsKept
<1>2. CASE UNCHANGED copyVars
  BY <1>1, <1>2 DEF copyVars, copyOf, progress
<1>3. ASSUME NEW c \in Copies, CopyThread(c) PROVE CopiesInv'
  <2>1. CASE Begin(c) \/ BeginFails(c) \/ FileCopied(c) \/ FileFails(c)
    BY <1>1, <2>1 DEF Begin, BeginFails, FileCopied, FileFails, copyOf
  <2>2. CASE Finish(c)
    <3>1. running' = [running EXCEPT ![c] = FALSE] /\ UNCHANGED <<asyncOperations, asked>>
      BY <2>2 DEF Finish, copyOf
    <3>2. running' \in [Copies -> BOOLEAN] /\ \A d \in Copies : running'[d] => running[d]
      BY <3>1 DEF CopiesInv
    <3> QED
      BY <3>1, <3>2 DEF CopiesInv, RunningIsKept
  <2> QED
    BY <1>3, <2>1, <2>2 DEF CopyThread
<1>4. CASE CallCallback \/ Timer
  BY <1>1, <1>4 DEF CallCallback, Timer, TimerFires, TimerStops, TimerEnds, TimerGoesOn,
                    copyOf, progress
<1> QED
  BY <1>2, <1>3, <1>4, AskedCopy, CollectKeeps DEF CopyNext, MainThread

\* However many copies run, finish and are collected, and in whatever order: the binding
\* keeps each one as long as its thread runs.
THEOREM RunningCopiesKept == FilesystemSpec => []RunningIsKept
<1>1. FilesystemInit => CopiesInv
  BY DEF FilesystemInit, FilesystemStart, CopyInit, CopiesInv, RunningIsKept
<1>2. CopiesInv => RunningIsKept
  BY DEF CopiesInv
<1> QED
  BY <1>1, <1>2, CopyStep, FilesystemStep, PTL DEF FilesystemSpec

-----------------------------------------------------------------------------
(* Copies: what the callbacks are told.                                    *)

CopyCalls == [copy : 0 .. MaxCopies, file : Nat]

\* What the callback of c was told, by the places of the files in called[c].
ToldOf(c) ==
  /\ Range(called[c]) \cup {calls[i].file : i \in Pending(c)} = copied[c]
  /\ \A i, j \in DOMAIN called[c] : i < j => called[c][i] < called[c][j]
  /\ \A i, j \in Pending(c) : i < j => calls[i].file < calls[j].file
  /\ \A i \in DOMAIN called[c], j \in Pending(c) : called[c][i] < calls[j].file

CallsInv ==
  /\ calls \in Seq(CopyCalls) /\ called \in [Copies -> Seq(Nat)]
  /\ looked \in [Copies -> Nat] /\ copied \in [Copies -> SUBSET Nat]
  /\ \A c \in Copies : copied[c] \subseteq 1 .. looked[c] /\ ToldOf(c)

\* Another file is copied, and is the last to be told.
LEMMA OneMoreToTell ==
  ASSUME CallsInv, NEW c \in Copies, FileCopied(c)
  PROVE  CallsInv'
<1>1. PICK n \in Nat \ {0} : n = looked[c] + 1
  BY DEF CallsInv
<1>2. PICK e \in CopyCalls : e = [copy |-> c, file |-> n]
  <2>1. c \in 0 .. MaxCopies
    BY CopyAssumption DEF Copies
  <2>2. [copy |-> c, file |-> n] \in CopyCalls
    BY <2>1 DEF CopyCalls
  <2> QED
    BY <2>2
<1>3. /\ looked' = [looked EXCEPT ![c] = n]
      /\ copied' = [copied EXCEPT ![c] = @ \cup {n}]
      /\ calls' = Append(calls, e) /\ called' = called
  <2>1. /\ looked' = [looked EXCEPT ![c] = @ + 1]
        /\ copied' = [copied EXCEPT ![c] = @ \cup {looked'[c]}]
        /\ calls' = Append(calls, [copy |-> c, file |-> looked'[c]]) /\ called' = called
    BY DEF FileCopied, Looks
  <2>2. looked'[c] = n
    BY <1>1, <2>1 DEF CallsInv
  <2> QED
    BY <1>1, <1>2, <2>1, <2>2
<1>4. /\ calls' \in Seq(CopyCalls) /\ DOMAIN calls' = 1 .. Len(calls) + 1 /\ Len(calls) \in Nat
      /\ DOMAIN calls = 1 .. Len(calls)
      /\ \A i \in 1 .. Len(calls) : calls'[i] = calls[i]
      /\ calls'[Len(calls) + 1] = e
  <2>1. calls \in Seq(CopyCalls)
    BY DEF CallsInv
  <2> QED
    BY <1>3, <2>1
<1>5. looked' \in [Copies -> Nat] /\ copied' \in [Copies -> SUBSET Nat]
  BY <1>3 DEF CallsInv
<1>6. ASSUME NEW d \in Copies, d # c PROVE copied'[d] \subseteq 1 .. looked'[d] /\ ToldOf(d)'
  <2>1. copied'[d] = copied[d] /\ looked'[d] = looked[d]
    BY <1>3, <1>6 DEF CallsInv
  <2>2. Pending(d)' = Pending(d)
    BY <1>2, <1>4, <1>6 DEF Pending
  <2>3. \A i \in Pending(d) : calls'[i] = calls[i]
    BY <1>4 DEF Pending
  <2>4. {calls'[i].file : i \in Pending(d)} = {calls[i].file : i \in Pending(d)}
    BY <2>3
  <2>5. called' = called
    BY <1>3
  <2>6. ToldOf(d) /\ copied[d] \subseteq 1 .. looked[d]
    BY DEF CallsInv
  <2> QED
    BY <2>1, <2>2, <2>3, <2>4, <2>5, <2>6 DEF ToldOf
<1>7. copied'[c] = copied[c] \cup {n} /\ looked'[c] = n /\ copied[c] \subseteq 1 .. n - 1
  BY <1>1, <1>3 DEF CallsInv
<1>8. copied'[c] \subseteq 1 .. looked'[c]
  <2>1. n \in 1 .. n /\ 1 .. n - 1 \subseteq 1 .. n
    OBVIOUS
  <2> QED
    BY <1>7, <2>1
<1>9. PICK m : m = Len(calls) + 1
  OBVIOUS
<1>10. /\ Pending(c)' = Pending(c) \cup {m} /\ m \notin Pending(c)
       /\ \A i \in Pending(c) : calls'[i] = calls[i] /\ i < m
       /\ calls'[m].file = n
  <2>1. \A i \in 1 .. Len(calls) + 1 : i \in 1 .. Len(calls) \/ i = m
    BY <1>4, <1>9
  <2>2. e.copy = c /\ e.file = n
    BY <1>2
  <2>3. m \in 1 .. Len(calls) + 1 /\ m \notin 1 .. Len(calls)
        /\ 1 .. Len(calls) \subseteq 1 .. Len(calls) + 1
    BY <1>4, <1>9
  <2>4. Pending(c)' = Pending(c) \cup {m}
    BY <1>4, <1>9, <2>1, <2>2, <2>3 DEF Pending
  <2>5. \A i \in Pending(c) : i \in 1 .. Len(calls)
    BY <1>4 DEF Pending
  <2> QED
    BY <1>4, <1>9, <2>2, <2>3, <2>4, <2>5
<1>11. {calls'[i].file : i \in Pending(c)'} = {calls[i].file : i \in Pending(c)} \cup {n}
  <2>1. ASSUME NEW i \in Pending(c)'
        PROVE  calls'[i].file \in {calls[j].file : j \in Pending(c)} \cup {n}
    <3>1. CASE i = m
      <4>1. calls'[i].file = n
        BY <1>10, <3>1
      <4> QED
        BY <4>1
    <3>2. CASE i \in Pending(c)
      <4>1. calls'[i].file = calls[i].file
        BY <1>10, <3>2
      <4> QED
        BY <3>2, <4>1
    <3> QED
      BY <1>10, <3>1, <3>2
  <2>2. ASSUME NEW j \in Pending(c) PROVE calls[j].file \in {calls'[i].file : i \in Pending(c)'}
    <3>1. j \in Pending(c)' /\ calls'[j].file = calls[j].file
      BY <1>10
    <3> QED
      BY <3>1
  <2>3. n \in {calls'[i].file : i \in Pending(c)'}
    <3>1. m \in Pending(c)' /\ n = calls'[m].file
      BY <1>10
    <3> QED
      BY <3>1
  <2> QED
    BY <2>1, <2>2, <2>3
<1>12. ToldOf(c)'
  <2>1. ToldOf(c)
    BY DEF CallsInv
  <2>2. \A i \in DOMAIN called[c] : called[c][i] \in copied[c]
    BY <2>1 DEF ToldOf, Range
  <2>3. \A i \in Pending(c) : calls[i].file \in copied[c]
    BY <2>1 DEF ToldOf
  <2>4. \A x \in copied[c] : x < n
    BY <1>7
  <2>5. Range(called'[c]) \cup {calls'[i].file : i \in Pending(c)'} = copied'[c]
    BY <1>3, <1>7, <1>11, <2>1 DEF ToldOf
  <2>6. \A i, j \in Pending(c)' : i < j => calls'[i].file < calls'[j].file
    <3> SUFFICES ASSUME NEW i \in Pending(c)', NEW j \in Pending(c)', i < j
                 PROVE  calls'[i].file < calls'[j].file
      OBVIOUS
    <3>1. Pending(c) \subseteq Nat /\ m \in Nat
      BY <1>4, <1>9 DEF Pending
    <3>2. i \in Pending(c)
      BY <1>10, <3>1
    <3>3. CASE j = m
      BY <1>10, <2>3, <2>4, <3>2, <3>3
    <3>4. CASE j \in Pending(c)
      BY <1>10, <2>1, <3>2, <3>4 DEF ToldOf
    <3> QED
      BY <1>10, <3>3, <3>4
  <2>7. \A i \in DOMAIN called'[c], j \in Pending(c)' : called'[c][i] < calls'[j].file
    <3> SUFFICES ASSUME NEW i \in DOMAIN called[c], NEW j \in Pending(c)'
                 PROVE  called[c][i] < calls'[j].file
      BY <1>3
    <3>1. CASE j = m
      <4>1. called[c][i] < n
        BY <2>2, <2>4
      <4>2. calls'[j].file = n
        BY <1>10, <3>1
      <4> QED
        BY <4>1, <4>2
    <3>2. CASE j \in Pending(c)
      BY <1>10, <2>1, <3>2 DEF ToldOf
    <3> QED
      BY <1>10, <3>1, <3>2
  <2> QED
    BY <1>3, <2>1, <2>5, <2>6, <2>7 DEF ToldOf
<1>13. called' \in [Copies -> Seq(Nat)]
  BY <1>3 DEF CallsInv
<1> QED
  BY <1>4, <1>5, <1>6, <1>8, <1>12, <1>13 DEF CallsInv

\* The first call is made, or is the timer's.
LEMMA OneLessToTell ==
  ASSUME CallsInv, calls # <<>>, calls' = Tail(calls), UNCHANGED <<looked, copied>>,
         \/ /\ calls[1].copy = 0 /\ called' = called
         \/ /\ calls[1].copy \in Copies
            /\ called' = [called EXCEPT ![calls[1].copy] = Append(@, calls[1].file)]
  PROVE  CallsInv'
<1>1. PICK n \in Nat : n = Len(calls)
  BY DEF CallsInv
<1>2. PICK e \in CopyCalls : e = calls[1]
  BY DEF CallsInv
<1>3. /\ calls \in Seq(CopyCalls) /\ calls' \in Seq(CopyCalls) /\ n \in Nat \ {0}
      /\ DOMAIN calls = 1 .. n /\ DOMAIN calls' = 1 .. n - 1
      /\ \A i \in 1 .. n - 1 : calls'[i] = calls[i + 1]
  <2>1. calls \in Seq(CopyCalls)
    BY DEF CallsInv
  <2> QED
    BY <1>1, <2>1
<1>4. e.file \in Nat
  BY <1>2 DEF CopyCalls
<1>5. called' \in [Copies -> Seq(Nat)]
  <2>1. CASE called' = called
    BY <2>1 DEF CallsInv
  <2>2. CASE e.copy \in Copies /\ called' = [called EXCEPT ![e.copy] = Append(@, e.file)]
    <3>1. called[e.copy] \in Seq(Nat)
      BY <2>2 DEF CallsInv
    <3>2. Append(called[e.copy], e.file) \in Seq(Nat)
      BY <1>4, <3>1
    <3> QED
      BY <2>2, <3>2 DEF CallsInv
  <2> QED
    BY <1>2, <2>1, <2>2
<1>6. ASSUME NEW c \in Copies PROVE ToldOf(c)'
  <2> DEFINE others == Pending(c) \ {1}
  <2>1. ToldOf(c) /\ Pending(c) \subseteq 1 .. n
    BY <1>3 DEF CallsInv, Pending
  <2>2. ASSUME NEW i \in Pending(c)'
        PROVE  i + 1 \in others /\ calls'[i] = calls[i + 1] /\ i \in Nat
    <3>1. i \in 1 .. n - 1 /\ calls'[i].copy = c
      BY <1>3 DEF Pending
    <3>2. i + 1 \in 1 .. n /\ i + 1 # 1
      BY <1>3, <3>1
    <3> QED
      BY <1>3, <3>1, <3>2 DEF Pending
  <2>3. ASSUME NEW j \in others PROVE \E i \in Pending(c)' : calls'[i] = calls[j] /\ j = i + 1
    <3>1. j - 1 \in 1 .. n - 1 /\ (j - 1) + 1 = j /\ calls[j].copy = c
      BY <1>3, <2>1 DEF Pending
    <3>2. j - 1 \in Pending(c)' /\ calls'[j - 1] = calls[j]
      BY <1>3, <3>1 DEF Pending
    <3> QED
      BY <3>1, <3>2
  <2>4. {calls'[i].file : i \in Pending(c)'} = {calls[i].file : i \in others}
    <3>1. \A i \in Pending(c)' : calls'[i].file \in {calls[j].file : j \in others}
      BY <2>2
    <3>2. \A j \in others : calls[j].file \in {calls'[i].file : i \in Pending(c)'}
      BY <2>3
    <3>3. {calls'[i].file : i \in Pending(c)'} \subseteq {calls[j].file : j \in others}
      BY <3>1
    <3>4. {calls[j].file : j \in others} \subseteq {calls'[i].file : i \in Pending(c)'}
      BY <3>2
    <3> QED
      BY <3>3, <3>4
  <2>5. \A i, j \in Pending(c)' : i < j => calls'[i].file < calls'[j].file
    <3> SUFFICES ASSUME NEW i \in Pending(c)', NEW j \in Pending(c)', i < j
                 PROVE  calls'[i].file < calls'[j].file
      OBVIOUS
    <3>1. i + 1 \in Pending(c) /\ j + 1 \in Pending(c) /\ i + 1 < j + 1
      BY <2>2
    <3>2. calls[i + 1].file < calls[j + 1].file
      BY <2>1, <3>1 DEF ToldOf
    <3> QED
      BY <2>2, <3>2
  <2>6. CASE e.copy # c
    <3>1. 1 \notin Pending(c) /\ others = Pending(c)
      BY <1>2, <2>6 DEF Pending
    <3>2. called'[c] = called[c]
      BY <1>2, <2>6 DEF CallsInv
    <3>3. \A i \in DOMAIN called'[c], j \in Pending(c)' : called'[c][i] < calls'[j].file
      BY <2>1, <2>2, <3>1, <3>2 DEF ToldOf
    <3> QED
      BY <2>1, <2>4, <2>5, <3>1, <3>2, <3>3 DEF ToldOf
  <2>7. CASE e.copy = c
    <3>1. 1 \in Pending(c) /\ Pending(c) = others \cup {1}
      BY <1>2, <1>3, <2>7 DEF Pending
    <3>2. PICK heard \in Seq(Nat) : heard = called[c]
      BY DEF CallsInv
    <3>3. called'[c] = Append(heard, e.file)
      <4>1. c # 0
        BY DEF Copies
      <4> QED
        BY <1>2, <2>7, <3>2, <4>1 DEF CallsInv
    <3>4. PICK new \in Seq(Nat) : new = called'[c]
      BY <1>5
    <3>5. /\ DOMAIN new = 1 .. Len(heard) + 1 /\ DOMAIN heard = 1 .. Len(heard) /\ Len(heard) \in Nat
          /\ \A i \in 1 .. Len(heard) : new[i] = heard[i]
          /\ new[Len(heard) + 1] = e.file /\ Range(new) = Range(heard) \cup {e.file}
      <4>1. Range(Append(heard, e.file)) = Range(heard) \cup {e.file}
        BY <1>4, Appended
      <4> QED
        BY <1>4, <3>3, <3>4, <4>1
    <3>6. \A i \in 1 .. Len(heard) + 1 : i \in 1 .. Len(heard) \/ i = Len(heard) + 1
      BY <3>5
    <3>7. \A i \in 1 .. Len(heard) : heard[i] < e.file
      BY <1>2, <2>1, <3>1, <3>2, <3>5 DEF ToldOf
    <3>8. ASSUME NEW i \in DOMAIN new, NEW j \in DOMAIN new, i < j PROVE new[i] < new[j]
      <4>1. i \in 1 .. Len(heard)
        BY <3>5, <3>6, <3>8
      <4>2. CASE j = Len(heard) + 1
        BY <3>5, <3>7, <4>1, <4>2
      <4>3. CASE j \in 1 .. Len(heard)
        BY <2>1, <3>2, <3>5, <3>8, <4>1, <4>3 DEF ToldOf
      <4> QED
        BY <3>5, <3>6, <4>2, <4>3
    <3>9. \A j \in others : e.file < calls[j].file
      <4> SUFFICES ASSUME NEW j \in others PROVE e.file < calls[j].file
        OBVIOUS
      <4>1. j \in Pending(c) /\ 1 < j
        BY <2>1
      <4> QED
        BY <1>2, <2>1, <3>1, <4>1 DEF ToldOf
    <3>10. ASSUME NEW i \in DOMAIN new, NEW j \in Pending(c)' PROVE new[i] < calls'[j].file
      <4>1. j + 1 \in others /\ calls'[j] = calls[j + 1]
        BY <2>2
      <4>2. CASE i = Len(heard) + 1
        BY <3>5, <3>9, <4>1, <4>2
      <4>3. CASE i \in 1 .. Len(heard)
        BY <2>1, <3>2, <3>5, <4>1, <4>3 DEF ToldOf
      <4> QED
        BY <3>5, <3>6, <4>2, <4>3
    <3>11. {calls[i].file : i \in Pending(c)} = {calls[i].file : i \in others} \cup {e.file}
      BY <1>2, <3>1
    <3>12. Range(new) \cup {calls'[i].file : i \in Pending(c)'} = copied'[c]
      BY <2>1, <2>4, <3>2, <3>5, <3>11 DEF ToldOf
    <3> QED
      BY <2>5, <3>4, <3>8, <3>10, <3>12 DEF ToldOf
  <2> QED
    BY <2>6, <2>7
<1> QED
  BY <1>3, <1>5, <1>6 DEF CallsInv

\* The timer asks to be answered.
LEMMA TimersCall ==
  ASSUME CallsInv, calls' = Append(calls, Collect), UNCHANGED <<looked, copied, called>>
  PROVE  CallsInv'
<1>1. Collect \in CopyCalls
  BY CopyAssumption DEF Collect, CopyCalls
<1>2. /\ calls' \in Seq(CopyCalls) /\ DOMAIN calls' = 1 .. Len(calls) + 1 /\ Len(calls) \in Nat
      /\ DOMAIN calls = 1 .. Len(calls)
      /\ \A i \in 1 .. Len(calls) : calls'[i] = calls[i]
      /\ calls'[Len(calls) + 1] = Collect
  BY <1>1 DEF CallsInv
<1>3. ASSUME NEW d \in Copies PROVE ToldOf(d)'
  <2>1. d # 0 /\ Collect.copy = 0
    BY DEF Copies, Collect
  <2>2. \A i \in 1 .. Len(calls) + 1 : i \in 1 .. Len(calls) \/ i = Len(calls) + 1
    BY <1>2
  <2>3. Pending(d)' = Pending(d)
    BY <1>2, <2>1, <2>2 DEF Pending
  <2>4. \A i \in Pending(d) : calls'[i] = calls[i]
    BY <1>2 DEF Pending
  <2>5. {calls'[i].file : i \in Pending(d)} = {calls[i].file : i \in Pending(d)}
    BY <2>4
  <2>6. ToldOf(d) /\ called' = called /\ copied' = copied
    BY DEF CallsInv
  <2> QED
    BY <2>3, <2>4, <2>5, <2>6 DEF ToldOf
<1> QED
  BY <1>2, <1>3 DEF CallsInv

LEMMA CallsStep == CallsInv /\ [CopyNext]_copyVars => CallsInv'
<1> SUFFICES ASSUME CallsInv, [CopyNext]_copyVars PROVE CallsInv'
  OBVIOUS
<1>1. ASSUME UNCHANGED <<calls, called, looked, copied>> PROVE CallsInv'
  BY <1>1 DEF CallsInv, ToldOf, Pending
<1>2. CASE UNCHANGED copyVars
  BY <1>1, <1>2 DEF copyVars, progress, mainVars
<1>3. ASSUME NEW n \in 0 .. MaxFiles, ExecuteAsyncCopy(n) PROVE CallsInv'
  BY <1>1, <1>3 DEF ExecuteAsyncCopy, mainVars
<1>4. ASSUME NEW c \in Copies, CopyThread(c) PROVE CallsInv'
  <2>1. CASE Begin(c) \/ BeginFails(c) \/ Finish(c)
    BY <1>1, <2>1 DEF Begin, BeginFails, Finish, mainVars
  <2>2. CASE FileFails(c)
    <3>1. looked' = [looked EXCEPT ![c] = @ + 1] /\ UNCHANGED <<calls, called, copied>>
      BY <2>2 DEF FileFails, Looks, mainVars
    <3>2. looked' \in [Copies -> Nat]
      BY <3>1 DEF CallsInv
    <3>3. ASSUME NEW d \in Copies PROVE copied[d] \subseteq 1 .. looked'[d] /\ ToldOf(d)'
      <4>1. looked[d] \in Nat /\ (looked'[d] = looked[d] \/ looked'[d] = looked[d] + 1)
        BY <3>1 DEF CallsInv
      <4>2. 1 .. looked[d] \subseteq 1 .. looked'[d]
        BY <4>1
      <4> QED
        BY <3>1, <4>2 DEF CallsInv, ToldOf, Pending
    <3> QED
      BY <3>1, <3>2, <3>3 DEF CallsInv
  <2> QED
    BY <1>4, <2>1, <2>2, OneMoreToTell DEF CopyThread
<1>5. CASE CallCallback \/ DeletePendingOperations
  <2>1. calls # <<>> /\ calls' = Tail(calls) /\ UNCHANGED <<looked, copied>>
    BY <1>5 DEF CallCallback, DeletePendingOperations, progress
  <2>2. Head(calls) = calls[1] /\ calls[1] \in CopyCalls
    BY <2>1 DEF CallsInv
  <2>3. CASE calls[1].copy = 0 /\ called' = called
    BY <2>1, <2>3, OneLessToTell
  <2>4. CASE CallCallback /\ calls[1].copy \in Copies
    BY <2>1, <2>2, <2>4, OneLessToTell DEF CallCallback
  <2>5. CASE CallCallback /\ calls[1].copy \notin Copies
    <3>1. calls[1].copy = 0
      BY <2>2, <2>5 DEF CopyCalls, Copies
    <3>2. called' = called
      <4>1. called' = [called EXCEPT ![0] = Append(@, Head(calls).file)] /\ 0 \notin Copies
        BY <2>2, <2>5, <3>1 DEF CallCallback, Copies
      <4> QED
        BY <4>1 DEF CallsInv
    <3> QED
      BY <2>3, <3>1, <3>2
  <2>6. CASE DeletePendingOperations
    BY <2>2, <2>3, <2>6 DEF DeletePendingOperations, Collect
  <2> QED
    BY <1>5, <2>4, <2>5, <2>6
<1>6. CASE Timer
  BY <1>1, <1>6, TimersCall DEF Timer, TimerFires, TimerStops, TimerEnds, TimerGoesOn, progress, mainVars
<1> QED
  BY <1>2, <1>3, <1>4, <1>5, <1>6 DEF CopyNext, MainThread

\* However copies, the timer and the main thread take turns: the callback of a copy hears
\* of each file that was copied, of no other, once and in order.
THEOREM CallbacksStayInOrder == FilesystemSpec => []CallbacksInOrder
<1>1. FilesystemInit => CallsInv
  <2> SUFFICES ASSUME FilesystemInit PROVE CallsInv
    OBVIOUS
  <2>1. /\ calls = <<>> /\ called = [c \in Copies |-> <<>>]
        /\ looked = [c \in Copies |-> 0] /\ copied = [c \in Copies |-> {}]
    BY DEF FilesystemInit, FilesystemStart, CopyInit
  <2>2. <<>> \in Seq(CopyCalls) /\ <<>> \in Seq(Nat) /\ DOMAIN <<>> = {}
    OBVIOUS
  <2> QED
    BY <2>1, <2>2 DEF CallsInv, ToldOf, Pending, Range
<1>2. CallsInv => CallbacksInOrder
  BY DEF CallsInv, ToldOf, CallbacksInOrder
<1> QED
  BY <1>1, <1>2, CallsStep, FilesystemStep, PTL DEF FilesystemSpec

-----------------------------------------------------------------------------
(* Log files: the lines on their way to the file are in the order in which *)
(* they were logged, and only a file that cannot be opened loses one.      *)

Increasing(s) == \A i, j \in DOMAIN s : i < j => s[i] < s[j]

\* The batch is empty but while the thread writes it, and without a Logger or its
\* destructor there is no thread.
LogShape ==
  /\ file \in Seq(Nat) /\ tempQueue \in Seq(Nat) /\ writeQueue \in Seq(Nat)
  /\ logged \in Nat /\ before \in Nat /\ references \in Nat
  /\ writer # "write" => tempQueue = <<>>
  /\ owner = "idle" /\ references = 0 => writer = "none"

LogInv ==
  /\ LogShape
  /\ LinesInOrder
  /\ \A i \in DOMAIN OnTheirWay : OnTheirWay[i] <= logged

LEMMA ConcatLines ==
  \A s, t \in Seq(Nat) :
    /\ s \o t \in Seq(Nat) /\ Len(s \o t) = Len(s) + Len(t)
    /\ \A k \in 1 .. Len(s) : (s \o t)[k] = s[k]
    /\ \A k \in 1 .. Len(t) : (s \o t)[Len(s) + k] = t[k]
OBVIOUS

LEMMA ConcatAlgebra ==
  \A s, t, u \in Seq(Nat) :
    /\ (s \o t) \o u = s \o (t \o u) /\ s \o <<>> = s /\ <<>> \o s = s /\ <<>> \in Seq(Nat)
BY SMTT(30)

LEMMA AppendAlgebra ==
  ASSUME NEW s \in Seq(Nat), NEW t \in Seq(Nat), NEW e \in Nat
  PROVE  Append(t, e) \in Seq(Nat) /\ s \o Append(t, e) = Append(s \o t, e)
<1>1. <<e>> \in Seq(Nat) /\ s \o t \in Seq(Nat)
  OBVIOUS
<1>2. Append(t, e) = t \o <<e>> /\ Append(s \o t, e) = (s \o t) \o <<e>>
  BY <1>1, AppendIsConcat
<1>3. (s \o t) \o <<e>> = s \o (t \o <<e>>)
  BY <1>1, ConcatAlgebra
<1>4. Append(t, e) \in Seq(Nat)
  OBVIOUS
<1> QED
  BY <1>2, <1>3, <1>4

LEMMA ConcatIndex ==
  \A m, n \in Nat : \A k \in 1 .. m + n :
    k \in 1 .. m \/ (\E l \in 1 .. n : k = m + l)
<1> SUFFICES ASSUME NEW m \in Nat, NEW n \in Nat, NEW k \in 1 .. m + n, k \notin 1 .. m
             PROVE  \E l \in 1 .. n : k = m + l
  OBVIOUS
<1>1. k - m \in 1 .. n /\ k = m + (k - m)
  OBVIOUS
<1> QED
  BY <1>1

\* An increasing sequence stays so when a part of it is taken out.
LEMMA PartTakenOut ==
  ASSUME NEW s \in Seq(Nat), NEW t \in Seq(Nat), NEW u \in Seq(Nat), Increasing((s \o t) \o u)
  PROVE  Increasing(s \o u)
<1> DEFINE w == (s \o t) \o u
           v == s \o u
           spot == [k \in 1 .. Len(s) + Len(u) |-> IF k <= Len(s) THEN k ELSE k + Len(t)]
<1>1. /\ Len(s) \in Nat /\ Len(t) \in Nat /\ Len(u) \in Nat /\ s \o t \in Seq(Nat)
      /\ w \in Seq(Nat) /\ DOMAIN w = 1 .. (Len(s) + Len(t)) + Len(u)
      /\ v \in Seq(Nat) /\ DOMAIN v = 1 .. Len(s) + Len(u)
      /\ Len(s \o t) = Len(s) + Len(t)
  BY ConcatLines
<1>2. ASSUME NEW k \in DOMAIN v PROVE spot[k] \in DOMAIN w /\ v[k] = w[spot[k]]
  <2>1. CASE k \in 1 .. Len(s)
    <3>1. spot[k] = k /\ k \in 1 .. Len(s \o t) /\ k \in DOMAIN w
      BY <1>1, <2>1
    <3>2. w[k] = (s \o t)[k] /\ (s \o t)[k] = s[k] /\ v[k] = s[k]
      BY <1>1, <2>1, <3>1, ConcatLines
    <3> QED
      BY <3>1, <3>2
  <2>2. ASSUME NEW l \in 1 .. Len(u), k = Len(s) + l PROVE spot[k] \in DOMAIN w /\ v[k] = w[spot[k]]
    <3>1. spot[k] = Len(s \o t) + l /\ spot[k] \in DOMAIN w
      BY <1>1, <2>2
    <3>2. w[Len(s \o t) + l] = u[l] /\ v[Len(s) + l] = u[l]
      BY <1>1, ConcatLines
    <3> QED
      BY <2>2, <3>1, <3>2
  <2>3. k \in 1 .. Len(s) + Len(u)
    BY <1>1, <1>2
  <2>4. k \in 1 .. Len(s) \/ (\E l \in 1 .. Len(u) : k = Len(s) + l)
    BY <1>1, <2>3, ConcatIndex
  <2> HIDE DEF spot, w, v
  <2> QED
    BY <2>1, <2>2, <2>4
<1>3. ASSUME NEW i \in DOMAIN v, NEW j \in DOMAIN v, i < j PROVE spot[i] < spot[j]
  BY <1>1, <1>3
<1> HIDE DEF spot, w, v
<1>4. Increasing(w)
  BY DEF w
<1>5. Increasing(v)
  BY <1>2, <1>3, <1>4 DEF Increasing
<1> QED
  BY <1>5 DEF v

LEMMA RangeOfConcat ==
  ASSUME NEW s \in Seq(Nat), NEW t \in Seq(Nat)
  PROVE  Range(s \o t) = Range(s) \cup Range(t)
<1>1. /\ DOMAIN s = 1 .. Len(s) /\ DOMAIN t = 1 .. Len(t) /\ Len(s) \in Nat /\ Len(t) \in Nat
      /\ DOMAIN (s \o t) = 1 .. Len(s) + Len(t)
  BY ConcatLines
<1>2. /\ \A k \in 1 .. Len(s) : k \in 1 .. Len(s) + Len(t)
      /\ \A k \in 1 .. Len(t) : Len(s) + k \in 1 .. Len(s) + Len(t)
  BY <1>1
<1>3. \A x \in Range(s \o t) : x \in Range(s) \cup Range(t)
  BY <1>1, ConcatIndex, ConcatLines DEF Range
<1>4. \A x \in Range(s) : x \in Range(s \o t)
  BY <1>1, <1>2, ConcatLines DEF Range
<1>5. ASSUME NEW x \in Range(t) PROVE x \in Range(s \o t)
  <2>1. PICK k \in 1 .. Len(t) : x = t[k]
    BY <1>1 DEF Range
  <2>2. Len(s) + k \in DOMAIN (s \o t) /\ (s \o t)[Len(s) + k] = x
    BY <1>1, <1>2, <2>1, ConcatLines
  <2> QED
    BY <2>2 DEF Range
<1> QED
  BY <1>3, <1>4, <1>5

\* One more line, larger than all before it.
LEMMA LineAppended ==
  ASSUME NEW s \in Seq(Nat), NEW e \in Nat, Increasing(s), \A i \in DOMAIN s : s[i] < e
  PROVE  /\ Increasing(Append(s, e))
         /\ \A i \in DOMAIN Append(s, e) : Append(s, e)[i] <= e
<1>1. /\ DOMAIN Append(s, e) = 1 .. Len(s) + 1 /\ DOMAIN s = 1 .. Len(s) /\ Len(s) \in Nat
      /\ Append(s, e)[Len(s) + 1] = e /\ \A k \in 1 .. Len(s) : Append(s, e)[k] = s[k]
  OBVIOUS
<1>2. \A k \in 1 .. Len(s) + 1 : k \in 1 .. Len(s) \/ k = Len(s) + 1
  BY <1>1
<1>3. /\ Len(s) + 1 \in 1 .. Len(s) + 1 /\ \A k \in 1 .. Len(s) : k \in 1 .. Len(s) + 1
      /\ \A k \in 1 .. Len(s) + 1 : ~(Len(s) + 1 < k)
  BY <1>1
<1>4. \A k \in DOMAIN s : s[k] \in Nat
  OBVIOUS
<1>5. Increasing(Append(s, e))
  BY <1>1, <1>2, <1>3 DEF Increasing
<1>6. \A i \in DOMAIN Append(s, e) : Append(s, e)[i] <= e
  BY <1>1, <1>2, <1>4
<1> QED
  BY <1>5, <1>6

LEMMA AppendedRange ==
  ASSUME NEW s \in Seq(Nat), NEW e \in Nat
  PROVE  Range(Append(s, e)) = Range(s) \cup {e}
<1>1. Append(s, e) = s \o <<e>> /\ <<e>> \in Seq(Nat)
  BY AppendIsConcat
<1>2. Range(<<e>>) = {e}
  BY DEF Range
<1> QED
  BY <1>1, <1>2, RangeOfConcat

\* A step that leaves the lines on their way as they are.
LEMMA SameLines ==
  ASSUME LogInv, LogShape', OnTheirWay' = OnTheirWay, logged' = logged
  PROVE  LogInv'
BY DEF LogInv, LinesInOrder

\* A step that takes some of them out.
LEMMA FewerLines ==
  ASSUME LogInv, LogShape', OnTheirWay \in Seq(Nat), OnTheirWay' \in Seq(Nat),
         Increasing(OnTheirWay'), Range(OnTheirWay') \subseteq Range(OnTheirWay),
         logged' = logged
  PROVE  LogInv'
<1>1. \A x \in Range(OnTheirWay) : x <= logged
  BY DEF LogInv, Range
<1>2. \A i \in DOMAIN OnTheirWay' : OnTheirWay'[i] \in Range(OnTheirWay')
  BY DEF Range
<1> QED
  BY <1>1, <1>2 DEF LogInv, LinesInOrder, Increasing

LEMMA OnTheirWayLines ==
  ASSUME LogShape
  PROVE  OnTheirWay \in Seq(Nat) /\ file \o tempQueue \in Seq(Nat)
BY ConcatLines DEF LogShape, OnTheirWay

\* The lines on their way after a step, as a set.
LEMMA RangeOnTheirWay ==
  ASSUME LogShape
  PROVE  Range(OnTheirWay) = Range(file) \cup Range(tempQueue) \cup Range(writeQueue)
<1>1. Range(file \o tempQueue) = Range(file) \cup Range(tempQueue)
  BY RangeOfConcat DEF LogShape
<1>2. Range(OnTheirWay) = Range(file \o tempQueue) \cup Range(writeQueue)
  BY OnTheirWayLines, RangeOfConcat DEF LogShape, OnTheirWay
<1> QED
  BY <1>1, <1>2

LEMMA LogStep == LogInv /\ [LogNext]_logVars => LogInv'
<1> SUFFICES ASSUME LogInv, [LogNext]_logVars PROVE LogInv'
  OBVIOUS
<1> USE DEF life, signals, lineQueues, counts
<1>0. LogShape /\ OnTheirWay \in Seq(Nat) /\ Increasing(OnTheirWay)
  BY OnTheirWayLines DEF LogInv, LinesInOrder, Increasing
<1>1. ASSUME UNCHANGED <<file, tempQueue, writeQueue, logged>>, LogShape' PROVE LogInv'
  BY <1>1, SameLines DEF OnTheirWay
<1>2. CASE UNCHANGED logVars
  BY <1>0, <1>1, <1>2 DEF logVars, LogShape
<1>3. CASE NewLogger
  <2>1. LogShape'
    BY <1>0, <1>3 DEF NewLogger, LogShape
  <2>2. CASE writeQueue' = writeQueue
    BY <1>1, <1>3, <2>1, <2>2 DEF NewLogger
  <2>3. CASE writeQueue' = <<>>
    <3>1. OnTheirWay' = (file \o tempQueue) \o <<>> /\ logged' = logged
      BY <1>3, <2>3 DEF NewLogger, OnTheirWay
    <3>2. /\ file \o tempQueue \in Seq(Nat) /\ <<>> \in Seq(Nat)
          /\ OnTheirWay = ((file \o tempQueue) \o writeQueue) \o <<>>
          /\ writeQueue \in Seq(Nat)
      BY <1>0, OnTheirWayLines, ConcatAlgebra DEF OnTheirWay, LogShape
    <3>3. Increasing(OnTheirWay')
      BY <1>0, <3>1, <3>2, PartTakenOut
    <3>4. OnTheirWay' \in Seq(Nat) /\ OnTheirWay' = file \o tempQueue
      BY <3>1, <3>2, ConcatAlgebra
    <3>5. Range(OnTheirWay') \subseteq Range(OnTheirWay)
      BY <1>0, <3>4, RangeOnTheirWay, RangeOfConcat DEF LogShape
    <3> QED
      BY <1>0, <2>1, <3>1, <3>3, <3>4, <3>5, FewerLines
  <2> QED
    BY <1>3, <2>2, <2>3 DEF NewLogger
<1>4. CASE Log
  <2>1. /\ logged' = logged + 1 /\ writeQueue' = Append(writeQueue, logged + 1)
        /\ UNCHANGED <<file, tempQueue, writer, owner, references, before>>
    BY <1>4 DEF Log
  <2>2. logged + 1 \in Nat /\ writeQueue' \in Seq(Nat)
    BY <1>0, <2>1 DEF LogShape
  <2>3. LogShape'
    BY <1>0, <2>1, <2>2 DEF LogShape
  <2>4. OnTheirWay' = Append(OnTheirWay, logged + 1)
    BY <1>0, <2>1, <2>2, OnTheirWayLines, AppendAlgebra, SMTT(30) DEF OnTheirWay, LogShape
  <2>5. \A i \in DOMAIN OnTheirWay : OnTheirWay[i] < logged + 1
    BY <1>0 DEF LogInv, LogShape
  <2> QED
    BY <1>0, <2>1, <2>2, <2>3, <2>4, <2>5, LineAppended DEF LogInv, LinesInOrder, Increasing
<1>5. CASE Release \/ StopThread \/ SetEvent \/ JoinWriter
  <2>1. LogShape' /\ UNCHANGED <<file, tempQueue, writeQueue, logged>>
    BY <1>0, <1>5 DEF Release, StopThread, SetEvent, JoinWriter, Owns, Writes, LogShape
  <2> QED
    BY <1>1, <2>1
<1>6. CASE Begins \/ Continues \/ Ends \/ Wakes \/ NothingToDump \/ SomethingToDump
  <2>1. LogShape' /\ UNCHANGED <<file, tempQueue, writeQueue, logged>>
    BY <1>0, <1>6 DEF Begins, Continues, Ends, Wakes, NothingToDump, SomethingToDump,
                      Writes, LogShape
  <2> QED
    BY <1>1, <2>1
<1>7. CASE TakeQueue
  <2>1. /\ tempQueue = <<>> /\ tempQueue' = writeQueue /\ writeQueue' = <<>>
        /\ UNCHANGED <<file, logged, before, references, owner>> /\ writer' = "write"
        /\ writer = "copy"
    BY <1>0, <1>7 DEF TakeQueue, Writes, LogShape
  <2>2. LogShape'
    BY <1>0, <2>1, ConcatAlgebra DEF LogShape
  <2>3. OnTheirWay' = OnTheirWay
    BY <1>0, <2>1, ConcatLines, ConcatAlgebra DEF LogShape, OnTheirWay
  <2> QED
    BY <2>1, <2>2, <2>3, SameLines
<1>8. CASE WriteLines
  <2>1. /\ file' = file \o tempQueue /\ tempQueue' = <<>> /\ writer' = "test"
        /\ UNCHANGED <<writeQueue, logged, before, references, owner>> /\ writer = "write"
    BY <1>8 DEF WriteLines, Writes
  <2>2. LogShape'
    BY <1>0, <2>1, ConcatAlgebra, OnTheirWayLines DEF LogShape
  <2>3. OnTheirWay' = OnTheirWay
    BY <1>0, <2>1, OnTheirWayLines, ConcatAlgebra DEF OnTheirWay
  <2> QED
    BY <2>1, <2>2, <2>3, SameLines
<1>9. CASE OpenFails
  <2>1. /\ tempQueue' = <<>> /\ writer' = "test" /\ writer = "write"
        /\ UNCHANGED <<file, writeQueue, logged, before, references, owner>>
    BY <1>9 DEF OpenFails, Writes
  <2>2. LogShape'
    BY <1>0, <2>1, ConcatAlgebra DEF LogShape
  <2>3. OnTheirWay' = file \o writeQueue
    BY <1>0, <2>1, ConcatAlgebra DEF OnTheirWay, LogShape
  <2>4. Increasing(OnTheirWay') /\ OnTheirWay' \in Seq(Nat)
    BY <1>0, <2>3, PartTakenOut, ConcatLines DEF OnTheirWay, LogShape
  <2>5. Range(OnTheirWay') \subseteq Range(OnTheirWay)
    BY <1>0, <2>3, RangeOnTheirWay, RangeOfConcat DEF LogShape
  <2> QED
    BY <1>0, <2>1, <2>2, <2>4, <2>5, FewerLines
<1> QED
  BY <1>2, <1>3, <1>4, <1>5, <1>6, <1>7, <1>8, <1>9 DEF LogNext, Delete, LogThread

\* However many lines are logged through however many Loggers and LoggerFiles: they are
\* in the file in the order in which they were logged, none twice.
THEOREM LinesStayInOrder == FilesystemSpec => []LinesInOrder
<1>1. FilesystemInit => LogInv
  <2> SUFFICES ASSUME FilesystemInit PROVE LogInv
    OBVIOUS
  <2>1. OnTheirWay = <<>>
    BY ConcatAlgebra DEF FilesystemInit, FilesystemStart, LogInit, OnTheirWay
  <2> QED
    BY <2>1, ConcatAlgebra DEF FilesystemInit, FilesystemStart, LogInit, LogInv, LogShape, LinesInOrder
<1>2. LogInv => LinesInOrder
  BY DEF LogInv
<1> QED
  BY <1>1, <1>2, LogStep, FilesystemStep, PTL DEF FilesystemSpec

\* Where a line is that was logged and not forgotten.
Somewhere == Range(file) \cup Range(tempQueue) \cup Range(writeQueue) \cup dropped

KeptInv == LogInv /\ (references > 0 => before + 1 .. logged \subseteq Somewhere)

LEMMA KeptMeans == LogShape => (LinesKept <=>
                     (references > 0 => before + 1 .. logged \subseteq Somewhere))
<1> SUFFICES ASSUME LogShape
             PROVE  LinesKept <=> (references > 0 => before + 1 .. logged \subseteq Somewhere)
  OBVIOUS
<1>1. Range(OnTheirWay) = Range(file) \cup Range(tempQueue) \cup Range(writeQueue)
  BY RangeOnTheirWay
<1>2. \A n : (\E i \in DOMAIN OnTheirWay : OnTheirWay[i] = n) <=> n \in Range(OnTheirWay)
  BY DEF Range
<1> QED
  BY <1>1, <1>2 DEF LinesKept, Somewhere

LEMMA KeptStep == KeptInv /\ [LogNext]_logVars => KeptInv'
<1> SUFFICES ASSUME KeptInv, [LogNext]_logVars PROVE KeptInv'
  OBVIOUS
<1> USE DEF life, signals, lineQueues, counts
<1>1. LogInv' /\ LogShape
  BY LogStep DEF KeptInv, LogInv
<1>2. Range(<<>>) = {}
  BY DEF Range
<1>3. ASSUME Somewhere \subseteq Somewhere', references' > 0 => references > 0,
             UNCHANGED counts
      PROVE  KeptInv'
  BY <1>1, <1>3 DEF KeptInv
<1>4. ASSUME UNCHANGED <<file, tempQueue, writeQueue, dropped>> PROVE Somewhere' = Somewhere
  BY <1>4 DEF Somewhere
<1>5. CASE UNCHANGED logVars
  BY <1>3, <1>4, <1>5 DEF logVars
<1>6. CASE NewLogger
  <2>1. CASE references = 0
    BY <1>1, <1>6, <2>1 DEF NewLogger, KeptInv, LogShape
  <2>2. CASE references # 0
    BY <1>1, <1>3, <1>4, <1>6, <2>2 DEF NewLogger, LogShape
  <2> QED
    BY <2>1, <2>2
<1>7. CASE Log
  <2>1. /\ Range(writeQueue') = Range(writeQueue) \cup {logged + 1}
        /\ UNCHANGED <<file, tempQueue, dropped, before, references>> /\ logged' = logged + 1
    BY <1>1, <1>7, AppendedRange DEF Log, LogShape
  <2>2. Somewhere' = Somewhere \cup {logged + 1}
    BY <2>1 DEF Somewhere
  <2>3. before + 1 .. logged + 1 \subseteq (before + 1 .. logged) \cup {logged + 1}
    BY <1>1 DEF LogShape
  <2> QED
    BY <1>1, <2>1, <2>2, <2>3 DEF KeptInv
<1>8. CASE Release \/ StopThread \/ SetEvent \/ JoinWriter
  BY <1>1, <1>3, <1>4, <1>8 DEF Release, StopThread, SetEvent, JoinWriter, Owns, Writes, LogShape
<1>9. CASE Begins \/ Continues \/ Ends \/ Wakes \/ NothingToDump \/ SomethingToDump
  BY <1>3, <1>4, <1>9 DEF Begins, Continues, Ends, Wakes, NothingToDump, SomethingToDump
<1>10. CASE TakeQueue
  <2>1. tempQueue' = writeQueue /\ writeQueue' = <<>> /\ tempQueue = <<>>
    BY <1>1, <1>10 DEF TakeQueue, Writes, LogShape
  <2>2. Somewhere' = Somewhere
    BY <1>2, <1>10, <2>1 DEF Somewhere, TakeQueue
  <2> QED
    BY <1>3, <1>10, <2>2 DEF TakeQueue
<1>11. CASE WriteLines
  <2>1. Range(file') = Range(file) \cup Range(tempQueue)
    BY <1>1, <1>11, RangeOfConcat DEF WriteLines, LogShape
  <2>2. Somewhere' = Somewhere
    BY <1>2, <1>11, <2>1 DEF Somewhere, WriteLines
  <2> QED
    BY <1>3, <1>11, <2>2 DEF WriteLines
<1>12. CASE OpenFails
  <2>1. dropped' = dropped \cup Range(tempQueue)
    BY <1>12 DEF OpenFails, Range
  <2>2. Somewhere' = Somewhere
    BY <1>2, <1>12, <2>1 DEF Somewhere, OpenFails
  <2> QED
    BY <1>3, <1>12, <2>2 DEF OpenFails
<1> QED
  BY <1>5, <1>6, <1>7, <1>8, <1>9, <1>10, <1>11, <1>12 DEF LogNext, Delete, LogThread

\* Whenever a line is logged, even while the thread takes the queue: it gets to the file, or
\* is forgotten with a file that cannot be opened, as long as its LoggerFile lives.
THEOREM LinesAreKept == FilesystemSpec => []LinesKept
<1>1. FilesystemInit => KeptInv
  <2> SUFFICES ASSUME FilesystemInit PROVE KeptInv
    OBVIOUS
  <2>1. OnTheirWay = <<>>
    BY ConcatAlgebra DEF FilesystemInit, FilesystemStart, LogInit, OnTheirWay
  <2> QED
    BY <2>1, ConcatAlgebra
       DEF FilesystemInit, FilesystemStart, LogInit, LogInv, LogShape, LinesInOrder, KeptInv
<1>2. KeptInv => LinesKept
  BY KeptMeans DEF KeptInv, LogInv
<1> QED
  BY <1>1, <1>2, KeptStep, FilesystemStep, PTL DEF FilesystemSpec
================================================================================
