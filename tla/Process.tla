------------------------------- MODULE Process -------------------------------
(***************************************************************************)
(* A ti.Process Process object (process.cpp, posix/posix_process.cpp): one *)
(* child process after another, launched with launch() or with a call of   *)
(* the object, each with native pipes of its own generation.               *)
(*                                                                         *)
(* Three kinds of threads run this code: the main thread, the exit monitor *)
(* of an asynchronous launch, and the threads of the native pipes and of   *)
(* the event loop (NativePipes, PipeEvents).  Main and the monitor are     *)
(* straight-line code with waits: each has a plan, the list of steps it    *)
(* still has to make, and each kind of step is an action.                  *)
(*                                                                         *)
(* A pipe is <<name, generation>>: generation 0 is the script's pipe, the  *)
(* others are native pipes.  A blob is <<stream, launch, n>> when a child  *)
(* wrote it, <<"stdin", 0, n>> when the script did.                        *)
(***************************************************************************)
EXTENDS NativePipes, SequencesExt

CONSTANTS Streams,      \* the output streams, in the order the code takes them
          Generations,  \* how many times native pipes are created, at most
          Launches,     \* how many launches, at most
          UserPipes,    \* pipes made by the script
          UserLinks,    \* which of them it attached to each stream's pipe
          MaxOutput,    \* blobs a child writes to a stream, at most
          ForkMayFail   \* whether fork may fail

Main == <<"main", 0>>
Monitor == <<"monitor", 0>>
StreamSet == {Streams[i] : i \in DOMAIN Streams}
Out(s, g) == <<s, g>>
In(g) == <<"stdin", g>>
ScriptPipe(name) == <<name, 0>>
ChildBlob(s, n, k) == <<s, n, k>>

ASSUME ProcessAssumption ==
  /\ Streams \in Seq(StreamSet)
  /\ Pipes = ((StreamSet \cup {"stdin"}) \X (0 .. Generations)) \cup UserPipes
  /\ Outs = StreamSet \X (1 .. Generations)
  /\ Ins = {"stdin"} \X (1 .. Generations)
  /\ Threads = {Main} \cup Outs
  /\ Others = 1 .. Launches
  /\ UserLinks \in [StreamSet -> Seq(UserPipes)]
  /\ MaxOutput \in Nat /\ ForkMayFail \in BOOLEAN

\* The constructor makes the first native pipes, native pipes are never handed to
\* the script, and what a child writes are blobs.
ASSUME ChildAssumption ==
  /\ Generations \in Nat \ {0} /\ Launches \in Nat
  /\ UserPipes \cap (Outs \cup Ins) = {}
  /\ StreamSet \X (1 .. Launches) \X (1 .. MaxOutput) \subseteq Blobs

VARIABLES
  gen,           \* the generation of nativeIn, nativeOut and nativeErr
  running,       \* running
  exitCode,      \* exitCode: "null" or "code"
  exitCallback,  \* exitCallback is set
  pid,           \* the launch whose child has the process id of this object
  ends,          \* stdinPipe, stdoutPipe and stderrPipe
  plan,          \* what Main and Monitor still have to do
  job,           \* the exit callback sent to the main thread
  child,         \* the child of each launch
  home,          \* history: the generation each launch used
  produced,      \* history: how much each child wrote to each stream
  exits,         \* history: the EXIT events fired
  returned,      \* history: the launch and output of each call that returned
  stray          \* history: a signal was sent when there was no child to get it

objectVars == <<gen, running, exitCode, exitCallback, pid, ends>>
childVars == <<child, home, produced>>
saidVars == <<exits, returned, stray>>
ownVars == <<objectVars, plan, job, childVars, saidVars>>
procVars == <<pipeVars, nativeVars, ownVars>>

Count == Cardinality({n \in 1 .. Launches : home[n] # 0})
NativePipesOf(g) == {In(g)} \cup {Out(s, g) : s \in StreamSet}
NobodyCalls == UNCHANGED pipeVars
NativesSame == UNCHANGED nativeVars

-----------------------------------------------------------------------------
(* Plans.                                                                  *)

Each(op) == [i \in DOMAIN Streams |-> <<op, Streams[i]>>]
Do(op) == <<<<op, "-">>>>

\* Exited(async): how says how EXIT is fired, "fireLater" or "fireNow".
Exited(how) ==
  Each("close") \o Do("detachIn") \o Each("detach") \o Do("recreate") \o Do(how)

\* Mutant: StopMonitors joins before it sets closed.
Mutant_JoinFirst ==
  Do("wait") \o Do("joinIn") \o Do("stopIn") \o Each("stop") \o Do("invoke")

\* ExitMonitorAsync, and ExitMonitorSync.
ExitMonitor == Do("wait") \o Do("stopIn") \o Do("joinIn") \o Each("stop") \o Do("invoke")

LaunchAsyncPlan == Each("attach") \o Do("fork") \o Do("monitors") \o Do("startMonitor")

\* Mutant: the monitors start before the read callbacks are set.
Mutant_CallbacksLate ==
  Each("attach") \o Do("fork") \o Do("monitors") \o Do("callbacks") \o ExitMonitor
    \o Do("collect") \o Exited("fireNow")

LaunchSyncPlan ==
  Each("attach") \o Do("fork") \o Do("callbacks") \o Do("monitors") \o ExitMonitor
    \o Do("collect") \o Exited("fireNow")

\* The next step of a's plan is op; a makes it.
At(a, op) == plan[a] # <<>> /\ Head(plan[a])[1] = op /\ (a = Main => Idle(Main))
Step(a, op) == At(a, op) /\ plan' = [plan EXCEPT ![a] = Tail(@)]
Stream(a) == Head(plan[a])[2]

-----------------------------------------------------------------------------
(* The main thread.                                                        *)

MainFree == plan[Main] = <<>> /\ Idle(Main)

\* launch() and the call of the object.  Neither asks whether a child runs:
\* the scripts modelled here do not launch while isRunning().
Launch(thePlan) ==
  /\ MainFree /\ ~running /\ Count < Launches
  /\ running' = TRUE /\ exitCode' = "null"
  /\ plan' = [plan EXCEPT ![Main] = thePlan]
  /\ NobodyCalls /\ NativesSame
  /\ UNCHANGED <<gen, exitCallback, pid, ends, job, childVars, saidVars>>

LaunchAsync == Launch(LaunchAsyncPlan)
LaunchSync == Launch(LaunchSyncPlan)

AttachPipes ==
  /\ Step(Main, "attach")
  /\ Attach(Out(Stream(Main), gen), ends[Stream(Main)])
  /\ NativesSame
  /\ UNCHANGED <<objectVars, job, childVars, saidVars>>

\* ForkAndExec, in the parent.
ForkAndExec ==
  /\ Step(Main, "fork")
  /\ LET n == Count + 1 IN
       /\ pid' = n
       /\ child' = [child EXCEPT ![n] = "alive"]
       /\ home' = [home EXCEPT ![n] = gen]
  /\ childHolds' = [p \in Outs \cup Ins |-> childHolds[p] \/ p \in NativePipesOf(gen)]
  /\ NobodyCalls
  /\ UNCHANGED <<outVars, inVars, polling, gen, running, exitCode, exitCallback, ends,
                 job, produced, saidVars>>

\* fork fails: the exception leaves LaunchAsync or LaunchSync.
ForkFails ==
  /\ ForkMayFail
  /\ At(Main, "fork")
  /\ plan' = [plan EXCEPT ![Main] = <<>>]
  /\ NobodyCalls /\ NativesSame
  /\ UNCHANGED <<objectVars, job, childVars, saidVars>>

\* MonitorSync: SetReadCallback on both readers.
SetReadCallbacks ==
  /\ Step(Main, "callbacks")
  /\ callback' = [p \in Outs |-> callback[p] \/ p \in NativePipesOf(gen)]
  /\ NobodyCalls
  /\ UNCHANGED <<channel, fetched, output, inVars, childHolds, polling,
                 objectVars, job, childVars, saidVars>>

\* StartMonitor on the three native pipes.
StartMonitors ==
  /\ Step(Main, "monitors")
  /\ polling' = [p \in Outs \cup Ins |->
                   IF p \in NativePipesOf(gen) THEN "on" ELSE polling[p]]
  /\ NobodyCalls
  /\ UNCHANGED <<outVars, inVars, childHolds, objectVars, job, childVars, saidVars>>

\* exitMonitorThread.start throws when the thread of the last launch has not
\* returned yet.
StartExitMonitor ==
  /\ At(Main, "startMonitor")
  /\ exitCallback' = TRUE
  /\ plan' = [plan EXCEPT ![Main] = <<>>,
                          ![Monitor] = IF @ = <<>> THEN ExitMonitor \o Do("await") ELSE @]
  /\ NobodyCalls /\ NativesSame
  /\ UNCHANGED <<gen, running, exitCode, pid, ends, job, childVars, saidVars>>

\* LaunchSync, after ExitMonitorSync: the output is collected, given to onRead,
\* and returned.
CollectOutput ==
  /\ Step(Main, "collect")
  /\ callback' = [p \in Outs |-> callback[p] /\ p \notin NativePipesOf(gen)]
  /\ returned' = Append(returned, [launch |-> pid, output |-> output])
  /\ NobodyCalls
  /\ UNCHANGED <<channel, fetched, output, inVars, childHolds, polling,
                 objectVars, job, childVars, exits, stray>>

\* The steps of Exited.
CloseOut ==
  /\ Step(Main, "close")
  /\ Enter(Main, Out(Stream(Main), gen), CloseCall)
  /\ NativesSame
  /\ UNCHANGED <<objectVars, job, childVars, saidVars>>

DetachIn ==
  /\ Step(Main, "detachIn")
  /\ Detach(Main, ends["stdin"], In(gen))
  /\ NativesSame
  /\ UNCHANGED <<objectVars, job, childVars, saidVars>>

DetachOut ==
  /\ Step(Main, "detach")
  /\ Detach(Main, Out(Stream(Main), gen), ends[Stream(Main)])
  /\ NativesSame
  /\ UNCHANGED <<objectVars, job, childVars, saidVars>>

RecreateNativePipes ==
  /\ Step(Main, "recreate")
  /\ gen < Generations
  /\ gen' = gen + 1
  /\ Attach(ends["stdin"], In(gen + 1))
  /\ NativesSame
  /\ UNCHANGED <<running, exitCode, exitCallback, pid, ends, job, childVars, saidVars>>

\* Mutant: EXIT is fired at once on the main thread.
Mutant_ExitAtOnce ==
  /\ Step(Main, "fireLater")
  /\ running' = FALSE
  /\ exits' = Append(exits, pid)
  /\ NobodyCalls /\ NativesSame
  /\ UNCHANGED <<gen, exitCode, exitCallback, pid, ends, job, childVars,
                 returned, stray>>

\* running = false, and EXIT is left to the event loop or fired at once.
ExitLater ==
  /\ Step(Main, "fireLater")
  /\ running' = FALSE
  /\ FireEventAsynchronously(pid)
  /\ NativesSame
  /\ UNCHANGED <<gen, exitCode, exitCallback, pid, ends, job, childVars, saidVars>>

ExitNow ==
  /\ Step(Main, "fireNow")
  /\ running' = FALSE
  /\ exits' = Append(exits, pid)
  /\ NobodyCalls /\ NativesSame
  /\ UNCHANGED <<gen, exitCode, exitCallback, pid, ends, job, childVars,
                 returned, stray>>

\* The main loop runs the exit callback the monitor sent, then lets it go on.
ExitCallback ==
  /\ MainFree /\ job = "sent"
  /\ job' = "taken"
  /\ plan' = [plan EXCEPT ![Main] = Exited("fireLater") \o Do("signal")]
  /\ NobodyCalls /\ NativesSame
  /\ UNCHANGED <<objectVars, childVars, saidVars>>

SignalMonitor ==
  /\ Step(Main, "signal")
  /\ job' = "done"
  /\ NobodyCalls /\ NativesSame
  /\ UNCHANGED <<objectVars, childVars, saidVars>>

MainDoes ==
  \/ AttachPipes \/ ForkAndExec \/ ForkFails \/ SetReadCallbacks \/ StartMonitors
  \/ StartExitMonitor \/ CollectOutput \/ CloseOut \/ DetachIn \/ DetachOut
  \/ RecreateNativePipes \/ ExitLater \/ ExitNow \/ ExitCallback \/ SignalMonitor

-----------------------------------------------------------------------------
(* ExitMonitorAsync on its thread, and ExitMonitorSync on the main thread. *)

Wait(a) ==
  /\ Step(a, "wait")
  /\ child[pid] = "ended"
  /\ child' = [child EXCEPT ![pid] = "reaped"]
  /\ exitCode' = "code"
  /\ NobodyCalls /\ NativesSame
  /\ UNCHANGED <<gen, running, exitCallback, pid, ends, job, home, produced, saidVars>>

\* StopMonitors of nativeIn: closed = true, then join.
StopIn(a) ==
  /\ Step(a, "stopIn")
  /\ closed' = [closed EXCEPT ![In(gen)] = TRUE]
  /\ NobodyCalls
  /\ UNCHANGED <<outVars, buffers, received, eof, sent, closedAt, childHolds, polling,
                 objectVars, job, childVars, saidVars>>

JoinIn(a) ==
  /\ Step(a, "joinIn")
  /\ polling[In(gen)] # "on"
  /\ NobodyCalls /\ NativesSame
  /\ UNCHANGED <<objectVars, job, childVars, saidVars>>

\* Mutant: the reader's thread is told to stop, and not waited for.
Mutant_StopOutNoJoin(a) ==
  /\ Step(a, "stop")
  /\ NobodyCalls /\ NativesSame
  /\ UNCHANGED <<objectVars, job, childVars, saidVars>>

\* StopMonitors of a reader: join; nobody looks at its closed.
StopOut(a) ==
  /\ Step(a, "stop")
  /\ polling[Out(Stream(a), gen)] # "on"
  /\ NobodyCalls /\ NativesSame
  /\ UNCHANGED <<objectVars, job, childVars, saidVars>>

\* InvokeMethodOnMainThread(exitCallback): on the main thread itself it is a
\* call.  A synchronous launch finds exitCallback set by an earlier launch().
Invoke(a) ==
  /\ At(a, "invoke")
  /\ \/ /\ a = Monitor
        /\ job' = "sent"
        /\ plan' = [plan EXCEPT ![a] = Tail(@)]
     \/ /\ a = Main
        /\ plan' = [plan EXCEPT ![a] =
                      IF exitCallback THEN Exited("fireLater") \o Tail(@) ELSE Tail(@)]
        /\ UNCHANGED job
  /\ NobodyCalls /\ NativesSame
  /\ UNCHANGED <<objectVars, childVars, saidVars>>

\* The monitor's thread returns.
MonitorReturns ==
  /\ Step(Monitor, "await")
  /\ job = "done"
  /\ job' = "none"
  /\ NobodyCalls /\ NativesSame
  /\ UNCHANGED <<objectVars, childVars, saidVars>>

ExitMonitors(a) == Wait(a) \/ StopIn(a) \/ JoinIn(a) \/ StopOut(a) \/ Invoke(a)

-----------------------------------------------------------------------------
(* The child (external), the script, and the threads of the pipes.         *)

ChildWrites(n, s) ==
  /\ child[n] = "alive" /\ produced[n][s] < MaxOutput
  /\ produced' = [produced EXCEPT ![n][s] = @ + 1]
  /\ channel' = [channel EXCEPT ![Out(s, home[n])] =
                   Append(@, ChildBlob(s, n, produced[n][s] + 1))]
  /\ NobodyCalls
  /\ UNCHANGED <<fetched, callback, output, inVars, childHolds, polling, objectVars,
                 plan, job, child, home, saidVars>>

\* The child ends, by itself or by a signal; its pipes end with it.
ChildEnds(n) ==
  /\ child[n] = "alive"
  /\ child' = [child EXCEPT ![n] = "ended"]
  /\ childHolds' = [p \in Outs \cup Ins |-> childHolds[p] /\ p \notin NativePipesOf(home[n])]
  /\ NobodyCalls
  /\ UNCHANGED <<outVars, inVars, polling, objectVars, plan, job, home, produced, saidVars>>

\* stdinPipe.write(blob) and stdinPipe.close().
ScriptCalls(what) ==
  /\ MainFree
  /\ Enter(Main, ends["stdin"], what)
  /\ NativesSame /\ UNCHANGED ownVars

\* Terminate and Kill: SendSignal returns at once unless the object runs, and
\* trusts that the process id is that of a child.
SendSignal ==
  /\ MainFree /\ running
  /\ stray' = (stray \/ pid = 0 \/ child[pid] = "reaped")
  /\ NobodyCalls /\ NativesSame
  /\ UNCHANGED <<objectVars, plan, job, childVars, exits, returned>>

\* createProcess with a stdout or stderr option.  (SetStdin, for a stdin option,
\* assigns its member to itself: the object goes on with its own stdin.)
SetStdout(s, p) ==
  /\ MainFree /\ ~running /\ Count = 0
  /\ ends' = [ends EXCEPT ![s] = p]
  /\ NobodyCalls /\ NativesSame
  /\ UNCHANGED <<gen, running, exitCode, exitCallback, pid, plan, job, childVars, saidVars>>

FireExit ==
  /\ FireOther
  /\ exits' = Append(exits, Head(otherCopy).event)
  /\ NativesSame
  /\ UNCHANGED <<objectVars, plan, job, childVars, returned, stray>>

EventLoop ==
  \/ (Collect \/ FireRead \/ ReadsFired \/ FireClose \/ ClosesFired \/ OthersFired)
       /\ NativesSame /\ UNCHANGED ownVars
  \/ FireExit

Polling(p) ==
  ((p \in Outs /\ PollForReads(p)) \/ (p \in Ins /\ PollForWrites(p))) /\ UNCHANGED ownVars

Calling(t) == NativeCallStep(t) /\ UNCHANGED ownVars

Attachments ==
  [p \in Pipes |-> IF p = ScriptPipe("stdin") THEN <<In(1)>>
                   ELSE IF p[2] = 0 /\ p[1] \in StreamSet THEN UserLinks[p[1]]
                   ELSE <<>>]

\* A new object: its constructor attached nativeIn to stdinPipe, and the script
\* attached what it wants to stdout and stderr.
ProcInit ==
  /\ attached = Attachments /\ Unused /\ NativeInit
  /\ gen = 1 /\ running = FALSE /\ exitCode = "null" /\ exitCallback = FALSE /\ pid = 0
  /\ ends = [name \in StreamSet \cup {"stdin"} |-> ScriptPipe(name)]
  /\ plan = [a \in {Main, Monitor} |-> <<>>] /\ job = "none"
  /\ child = [n \in 1 .. Launches |-> "none"]
  /\ home = [n \in 1 .. Launches |-> 0]
  /\ produced = [n \in 1 .. Launches |-> [s \in StreamSet |-> 0]]
  /\ exits = <<>> /\ returned = <<>> /\ stray = FALSE

ScriptBlobs == {b \in Blobs : b[1] = "stdin"}

Script ==
  \/ LaunchAsync \/ LaunchSync \/ SendSignal
  \/ \E what \in ScriptBlobs \cup {CloseCall} : ScriptCalls(what)
  \/ \E p \in UserPipes, s \in StreamSet : SetStdout(s, p)

Running ==
  \/ MainDoes \/ MonitorReturns
  \/ \E a \in {Main, Monitor} : ExitMonitors(a)
  \/ \E n \in 1 .. Launches : ChildEnds(n) \/ \E s \in StreamSet : ChildWrites(n, s)
  \/ \E p \in Outs \cup Ins : Polling(p)
  \/ \E t \in Threads : Calling(t)
  \/ EventLoop

ProcNext == Script \/ Running

ProcSpec == ProcInit /\ [][ProcNext]_procVars

-----------------------------------------------------------------------------
(* Properties.                                                             *)

\* Everything the child of launch n wrote to s.
Produced(n, s) == {ChildBlob(s, n, k) : k \in 1 .. produced[n][s]}

\* The calls of the object that returned, by launch.
Synchronous(n) == \E i \in DOMAIN returned : returned[i].launch = n

\* When the EXIT of an asynchronous launch has been fired, the child is gone
\* and all it wrote has been read by the listeners of its native pipes and of
\* the script's pipes ("We want the onRead callbacks to fire before the exit").
ExitAfterOutput ==
  \A i \in DOMAIN exits :
    LET n == exits[i] IN
    ~Synchronous(n) =>
      /\ child[n] = "reaped"
      /\ \A s \in StreamSet :
           /\ Produced(n, s) \subseteq Range(delivered[Out(s, home[n])])
           /\ Produced(n, s) \subseteq Range(delivered[ends[s]])

\* A CLOSE is the last thing a native pipe's listeners see.
NothingAfterClose ==
  \A n \in 1 .. Launches, s \in StreamSet :
    home[n] # 0 /\ closesFired[Out(s, home[n])] # {} =>
      Produced(n, s) \subseteq Range(delivered[Out(s, home[n])])

\* The blobs in out that the child of launch n wrote to s, by their places.
Own(out, n, s) == {j \in DOMAIN out : out[j][1] = s /\ out[j][2] = n}
InOrder(out, n, s) == \A j, k \in Own(out, n, s) : j < k => out[j][3] < out[k][3]

\* A call of the object returns all its child wrote, in the order of each stream.
OutputReturned ==
  \A i \in DOMAIN returned, s \in StreamSet :
    LET n == returned[i].launch
        out == returned[i].output
    IN /\ {out[j] : j \in Own(out, n, s)} = Produced(n, s)
       /\ InOrder(out, n, s)

\* launch() is answered by one EXIT.
ExitOnce ==
  \A i, j \in DOMAIN exits : exits[i] = exits[j] /\ ~Synchronous(exits[i]) => i = j

\* Claims of the documentation.

\* kill() and terminate() send their signal "to this Process", so there is a
\* child that has not been waited for when they do.
SignalReachesChild == ~stray

\* isRunning is "whether or not this process is actively running": it does not
\* say so for ever when the child has ended.
RunningEnds == \A n \in 1 .. Launches : child[n] = "ended" ~> ~running

\* The child of an asynchronous launch ends: its EXIT is fired.
ExitReported ==
  \A n \in 1 .. Launches : child[n] = "ended" ~> (\E i \in DOMAIN exits : exits[i] = n)

\* What was written to stdin before the child was told the end of it, or ended,
\* is handed to the child, and it is told the end.
StdinReaches ==
  \A p \in Ins :
    polling[p] = "on" /\ closed[p] ~> (eof[p] \/ ~childHolds[p])

\* Every thread goes on as long as it can; one that waits for a mutex gets it
\* in the end, since every holder lets go of it and the event loop sleeps.
ProcFairness ==
  /\ WF_procVars(EventLoop)
  /\ WF_procVars(ExitMonitors(Monitor) \/ MonitorReturns)
  /\ SF_procVars(MainDoes \/ ExitMonitors(Main) \/ Calling(Main))
  /\ \A p \in Ins : WF_procVars(Polling(p))
  /\ \A p \in Outs : SF_procVars(Polling(p) \/ Calling(p))
===============================================================================
