# Titanium Desktop in TLA+

Titanium Desktop is a runtime for desktop applications written in JavaScript.
A host (kroll, a submodule that is not in this repository) loads the modules of
`modules/`, each of which gives scripts an object: `Titanium.Process`,
`Titanium.Worker`, `Titanium.Network` and so on. Scripts run on the main thread.
The modules that do slow work start threads of their own, and meet the script
again in one of two ways: an event of a `KEventObject`, fired on some thread,
or a job that `Host::InvokeMethodOnMainThread` queues for the main thread and
may wait for. What goes wrong in this code goes wrong between these threads,
and that is what this project models first.

## Inventory

| Part | State | Operations | What is hard | What makes it correct |
|---|---|---|---|---|
| `ti.Process/pipe.cpp` | attached objects, unread blobs and static queues of events to fire | Write, Close, Attach, Detach, FireEventAsynchronously, the thread FireEvents | any thread calls, one thread fires; it collects in the reverse of the order it fires in | listeners read what was written in order; CLOSE after READs, EXIT after both |
| `native_pipe.cpp`, `posix_pipe.cpp` | a queue to the child, descriptors, `closed` | reader and writer threads, Write, Close, StopMonitors | the descriptor is closed while data is queued | stdin arrives in order and its end after it |
| `process.cpp`, `posix_process.cpp` | `running`, exit code, process id, three native pipes per launch | launch(), the call, kill, terminate, Exited | exit monitor, main thread and readers join, call and wait for each other; relaunch | EXIT once, after all output; the call returns all of it; `running` tells the truth |
| `tiprocessmodule.js` | the part of a line that waits for the rest | setOnReadLine, exit | a READ ends anywhere in a line | the lines are the output's |
| `ti.Worker` | two queues of messages, `stopped`, a context per start | start, postMessage (both ways), terminate, sleep, Run | condition variables that remember nothing; restart | nothing lost or reordered; terminate() returns |
| `ti.Network` HTTP client | properties, streams and handlers that all requests of an object share; a thread per request | open, send, receive, abort, setRequestHeader | a handler, or the script while a request waits for it, calls the object again; abort and redirects during the transfer | the body reaches its own handler; an abort ends the request it was for; a request ends |
| `ti.Network` TCP socket | reactor thread, send buffer with a mutex | connect, write, close, OnRead, OnWrite | partial sends; close while the reactor is in a handler | what was written is sent once and in order; callbacks tell what happened |
| `ti.Network` IRC client | a thread that parses what the server sends, a linked list of users without a lock | connect, disconnect, send, getUsers, JOIN, PART, MODE, QUIT | the list is read on another thread than it is changed on | the list is the channel's |
| `ti.Filesystem` | log queue and thread, copy thread, pending copies, streams | log, copy, timer, open/read/write/close | thread end against queue, timer against copy | no line lost, one callback per file |
| `ti.UI` menus | a graph of menus and items; for each of them the list of its GTK widgets | insert, remove, clear, setSubmenu, setState, setMenu, opening and closing a window | one menu is shown in many places at once, and a change has to reach all of them | every bar shows its menu as it is |
| `ti.UI` windows | parents and children, the list of open windows | open, close, and the listeners of their events | listeners open and close windows, the one that is closing included, while vectors are walked | a closed window is in no list; the program exits with the last one |
| `ti.UI` sizes | size and limits in the configuration, in GTK's hints, and the target the script is told | setters of sizes and limits, resizable, open, close | GTK and the user resize later and by themselves, and report it with events | a window keeps to its limits; the script is told its size |
| `ti.App`, `ti.Database` | properties; session and cursors | get/set, execute, next, close | order of calls | defaults and types kept |
| Installer for Linux | one field `stage`, the list of jobs | download thread, install thread, the GTK thread's timer and buttons, Finish | three threads read and overwrite `stage` without a lock; the user cancels at any time | it is marked only when every job was done; nothing is freed under a thread; a cancel is heeded |
| the rest | little or none | | | see `PROJECT.json` for the reason each is left out |

Components interact as follows. A `Process` owns one native pipe per stream
and generation and attaches the script's pipes to them; a native pipe's reader
thread calls `Write` of the pipe, which calls `Write` of every attached object
with the pipe's mutex held; the static FireEvents thread of `pipe.cpp` fires
READ, CLOSE and EXIT for all of them. The exit monitor of a launch waits for the
child, joins the pipes' threads, and runs `Exited` on the main thread. The READ and
EXIT listeners of `setOnReadLine` are script, and see the pipes' events only. A
`Worker` and its page only share queues: messages go through `Worker::messages`
and the host's jobs, replies through `WorkerContext::messages` and the jobs. The
request threads of an `HTTPClient` and the reactor of a `TCPSocket` call the script on
the main thread; the former wait for it, the latter does not. The window classes and
the menus meet in the menu bar of a window. The installer is a program of its
own, which the runtime starts when a component is missing.

## Modules

| Module | Models | State and actions |
|---|---|---|
| `EventOrder` | what the listeners of pipes are promised, without threads or queues | sets of owed events; an event is fired when all it must follow has been |
| `PipeEvents` | `pipe.cpp` | a call of Write or Close is a stack `todo` of its remaining steps per thread, since it holds a mutex per pipe it passes through; the loop's local collections and `pc` are variables; one action per collection and per event fired |
| `PipeEventsPromise` | the refinement mapping from `PipeEvents` to `EventOrder` | |
| `PipeEventsMC` | bounded callers | |
| `PipeEventsProofs` | theorems of `PipeEvents` | |
| `NativePipes` | `native_pipe.cpp`, `posix_pipe.cpp`; extends `PipeEvents` | a reader's thread is one of the threads that call pipes; the operating system's pipe is the sequence `channel` |
| `Process` | `process.cpp`, `posix_process.cpp`; extends `NativePipes` | the main thread and the exit monitor are straight-line code with waits: `plan` is the list of steps each has left, and each kind of step is an action |
| `ProcessMC` | bounded scripts | |
| `Worker` | `worker.cpp`, `worker_context.cpp` | `at` and `doing` are the program counters of the worker's thread and the main thread |
| `LogFile` | `LoggerFile.cpp`, `Logger.cpp` | `writer` and `owner` are the program counters of the log thread and of `~LoggerFile`; a line is the number of its `log` |
| `AsyncCopies` | `async_copy.cpp`, asyncCopy and its timer in `filesystem_binding.cpp` | a thread per copy, the main thread's queue `calls`, the timer's thread and its interval |
| `FileStream` | `file_stream.cpp` | one file as a sequence of texts and line ends, and what the stream has not flushed |
| `FilesystemMC` | the last three side by side | `part` says which of them a behaviour is about |
| `LineReader` | setOnReadLine of `tiprocessmodule.js` | the text it keeps, whether it is null; a READ brings any part of the output |
| `Installer` | `net_installer/linux/installer.cpp`, `job.cpp` | `gtk` and `threadAt` are the program counters of the GTK thread and the two workers; the look at `stage` after a job, the decision and the begin of the next job are steps of their own; `whole` says which jobs have their file |
| `StandaloneMC` | `Worker`, `FilesystemMC`, `LineReader` and `Installer` side by side | `part` again |
| `HttpClient` | `http_client_binding.cpp` | the members of the object, and per request the program counter of its thread (`thread`, `telling`); calls of send and receive are numbered, a request and the handler given have the number |
| `TcpSocket` | `tcp_socket_binding.cpp` | main thread and reactor; `reactor` is the latter's program counter inside `OnWrite`, which holds the mutex |
| `NetworkMC` | both side by side; its `NetworkSpec` is what the theorems are about | `part` |
| `Menus` | `menu.cpp`, `menu_item.cpp`, their GTK classes, and the menu bar in `gtk_user_window.cpp` | the graph of menus, and per window the menu bars, each with the ways from it to the widgets GTK shows; each operation changes the widgets as the code changes the native lists |
| `Windows` | open and close in `user_window.cpp`, `ui_binding.cpp`, `gtk_user_window.cpp` | `stack` holds the calls of open and close that wait for a listener, since a listener may make others |
| `WindowSizes` | sizes and limits in `user_window.cpp`, `gtk_user_window.cpp` | per window its configuration, GTK's side of it (`native`), the size it has (`real`) and the configure events under way |
| `BindingsMC` | `NetworkMC` and the last three side by side | `part` |
| `Induction` | no part of the system: theorems about sequences, recursion and sums that the proofs below use | |
| `PromiseProofs`, `ProcessProofs`, `ExitProofs`, `StandaloneProofs`, `NetworkProofs`, `InterfaceProofs` | theorems, below | |

Data is abstract throughout: a blob or a message is a number or a tuple that
names its writer and position. Every variable the code does not have is called
a history variable where it is declared, and no guard of a code step reads one,
except for the bounds the instances put on what the environment does.

### Modelling decisions

* One step of a thread is what it does between two points at which another
  thread can see a difference: a critical section, a call of another object, a
  wait. The two data races of the modelled code (`buffers.size()` in
  `native_pipe.cpp`, `messages.size()` in `worker_context.cpp`, both read without
  their mutex) are read in one step and give the queue as it is then.
* Poco's conditions are modelled as they are implemented: `signal` wakes a
  thread that waits, and is forgotten when there is none. `thread.start` throws
  when the thread has not returned.
* A child writes, ends, and holds its ends of the pipes until it ends. That it
  closes them earlier, or leaves them to a grandchild, is left out.
* `setStdin` assigns its member to itself (`process.cpp:485`), so that the
  `stdin` option of `createProcess` has no effect: the model has no action for it.
* `LoggerFile::writeQueue.empty()` is read without its mutex too, in one step. Poco's
  timer is modelled as its documentation says: its thread goes round as long as the interval
  is not 0, `restart` sets the interval, and a loop that has ended does not begin again.
* Parts that share no state are checked in one run: a behaviour is one of one of them, the
  others stay as they began, and the run costs their sum and not their product.
* An HTTP request's upload, its cookies, credentials and proxy, and the events that report
  progress only are left out; a handler of the script runs between two steps of the request's
  thread, in which the script may do whatever it may do at other times, and returns or throws. The value of
  `timedOut` is the state "failed" of a request.
* The operating system's socket takes any part of what is sent and gives any part of what
  arrived. Poco's reactor ends after `stop()`. A script connects a socket once.
* The menu bar of a window is a tree of widgets, modelled as the set of the ways to them, each the
  sequence of the widgets from the bar down. The code leaves widgets on its lists that
  GTK has freed (below a replaced item, in a closed window, in a popup that is gone); using
  them is undefined, and what the model does then is nothing. A window opens and closes
  its menu bar in one step. Separators, labels, icons, disabled items and popups are left out.
  `nativeMenus` and `nativeItems`, the lists by which the code finds the widgets it changes, are
  no state of the model: a change is made at every live widget, so that `MenusMirrored` is about
  which widgets a change makes, moves and takes away, and not about the upkeep of those lists.
* In `Windows` a parent has two children at most, so that the vector a parent walks is not
  moved in memory while listeners change it. Only listeners of OPEN, OPENED, CLOSE and CLOSED
  are modelled.
* In `WindowSizes` GTK gives a window, at any later time, the size that it was asked for or has,
  cut to the hints, and until then the user may drag it anywhere. A script keeps minima below
  maxima, leaves a window alone in its OPEN event, gives positive bounds, and changes whether a
  window is resizable when GTK has settled: what happens otherwise is among the disagreements.
* The installer's exit code under sudo may be any stage. Dialogs, progress and a
  thread that cannot be made are left out. `download_thread` and `installCombo` are read
  uninitialised on paths that the model leaves out.
* A handler of a worker that waits for the main thread when start() is called again replies into
  the context it was made for, which `Worker` no longer follows.
* In `LineReader` a line end is one character: a CR that a READ splits from its LF is left out.

## What is checked

| Run | Instance | Shows |
|---|---|---|
| `pipe_calls` | 2 interchangeable threads, 2 pipes, one attached to the other at times, 2 blobs, 1 close | no blob lost or reordered, nothing called after Detach, each Close answered once |
| `pipe_order` | 1 thread, the same pipes, and an EXIT-like event | order of READ, CLOSE and others; implementation of `EventOrder`; everything is fired in the end |
| `proc_launch` | 2 launches, each asynchronous or a call, 1 stream, 1 blob per child, signals, fork may fail | the EXIT of a launch() once and after all output; a call returns all of it |
| `proc_live` | 1 launch, stdin with 1 write and either 1 close by the script or 1 blob of output (`OneOfThem`), stdout to a pipe of the script | stdin in order with its end last; EXIT comes; a closed stdin reaches the child |
| `standalone` | worker: 3 messages, 2 replies per start, 2 starts; log file: 3 lines, 3 Loggers; 2 copies of up to 2 files; a stream with 4 pieces; 5 characters of output and 2 exits; installer: 2 jobs and an update, 2 cancels | order of messages and replies, late handlers, waking a waiting worker; no line reordered, lost or left while a Logger lives; one callback per copied file, finished copies removed, while the timer lives, and no others; a stream reads back what was written; every character of a process reaches the line function; an installation is marked only when every job had its file and Unzip was called for it, nothing is freed under a thread, one more job at most after a cancel |
| `bindings` | HTTP: 2 calls, 2 buffers per body, 1 redirect, headers set before the first call (`HeadersFirst`); TCP: 3 bytes each way, one of them NUL; 2 menus, 2 items (one a check item), 3 entries, 1 window with 2 bars, 1 click; 3 windows with 2 nested calls; 1 window with widths 1 to 3 and 2 configure events | a body reaches its own handler, an abort ends the request it was for, requests end; what is written goes out once and in order, callbacks tell what happened; bars show menus as they are; the lists of windows are right, and closing is complete; a window is within its limits when all is still, and its script is told the size it has |
| `proc_signal`, `proc_relaunch`, `worker_stop`, `lines_whole`, `installer_cancel`, `installer_files` | small instances | six disagreements of code and documentation, below |

The bounds are chosen so that each queue can hold two entries of which one is
late, each mutex can be wanted by two threads, and each object is used twice
(the second launch, start, request or open finds what the first left behind). Two
threads are the most that can meet in one critical section of `pipe.cpp` besides the loop,
which is there in every instance. A single stream is enough for `Process`: the
reader threads share nothing but the pipes' machinery, which `pipe_calls` checks
with two threads. Two requests are the fewest of which one can find the other's streams,
two jobs the fewest between which a cancel can come, three windows the fewest that
have a parent, a child and a grandchild, and three entries the fewest with which an item is shown
twice in a submenu that is itself shown twice. Three widths are the fewest with one between two
limits; every setter treats both axes alike, and each window of its own, so that the run has one of
each; the theorem is for any number of both.
In `proc_live` a child that writes has a script that does not close its stdin. The two meet in
the loop's queues only, neither the script's calls nor the child's writes are assumed to happen, and
without the restriction the graph is too large for the liveness check. In `bindings` the
headers come first since `RequestsEnd` asks nothing more of a request once one is empty.

The type invariant that a run checks is that of `PipeEvents`; those of the other modules that
have theorems are conjuncts of the inductive invariants there.

Deadlock checking is on for the pipes and for `Process`, where every thread waits for
others. It is off for `LineReader`, `Installer`, `Worker`, `StandaloneMC` and
`BindingsMC`, which stop when the script has used up its bounds, when the
program is over, or when the main thread waits for a thread that will not return (the last of
which is what `worker_stop` and the remarks below are about).

Fairness. The FireEvents loop never blocks but for mutexes that are held for
finite steps, so it is weakly fair. A thread that takes a mutex others keep
taking is strongly fair: the holders release it in between, and the loop sleeps
5 ms in every round. The worker's thread and the main thread are weakly fair,
and a worker's script ends. The log thread, the copy threads, their timer and the main
thread's jobs are weakly fair: none of them waits but for what the formulas name. A
request's thread is weakly fair as long as it lives, and so is the handler it waits for: a
server that does not answer is timed out, which is an outcome of the step. The installer's
timer, its main loop and both threads are weakly fair: cURL asks the progress function
while it transfers, so that a job comes to an end. Nothing is assumed of the child, of the
script, of the user, or of the page: a child need not end.

### Disagreements

* `proc_signal`: a failed fork leaves `running` set, and then kill() and
  terminate() signal the process id -1, or that of an earlier child. The same
  happens, in a shorter window, between `waitpid` and `Exited`.
* `proc_relaunch`: a launch that is quicker than the return of the last exit
  monitor has a child that nobody waits for, and runs for ever.
* `worker_stop`: terminate() of a worker that evaluates its script, or is about
  to wait, blocks the main thread for ever.
* `lines_whole`: a READ that ends within a line makes two lines of it, or one with a part of
  another, depending on whether the part occurred in the text before
  (`tiprocessmodule.js:34`).
* `installer_cancel`: a click on Cancel that comes when a thread is past its last look at the
  stage, or has ended and the timer has not seen the stage it set, overwrites that stage or is
  overwritten by it: the installer then stays in `CANCEL_REQUEST` for ever (`installer.cpp:734`).
* `installer_files`: `ShutdownDownloader` deletes the temporary directory, with the files in it,
  before they are unzipped (`installer.cpp:616`, `job.cpp:57`), although the comment above the call
  says "we need access to downloaded files now". What Unzip returns is ignored (`job.cpp:255`,
  `:260`), so that the installer reports success and writes `.installed` with nothing unzipped. The
  files that the command line names are elsewhere and stay.

Further disagreements that reading and modelling showed and that no run states.

*Process.* `getExitCode` of a running process is null (`process.cpp:247`) and not -1
(`process.cpp:52`); `terminate` sends SIGINT (`posix_process.cpp:212`) and not SIGTERM
(`process.cpp:90`); the last READ of a launch comes after `running` was reset
(`process.cpp:165`), which the test `process.js:511` excludes; a new launch from a
CLOSE listener runs while the EXIT of the last one is fired, which `process.js:518`
excludes; a call of an object that was launched before runs `Exited` twice and fires EXIT twice
(`process.cpp:288`), since `exitCallback` outlives its launch, and what calls return begins with the
output of earlier ones (`posix_process.cpp:149`); the output a call returns and a pipe attached to both streams may have them in
different orders (`native_pipe.cpp:73`), which `process.js:248` excludes. `SetOnRead` adds
the new listener before it removes the old one, so that a READ between the two reaches both
(`process.cpp:183`). launch() while running attaches the pipes twice and overwrites the
descriptors (`process.cpp:244`). In `tiprocessmodule.js` the buffer is null after an
exit, so that the READs of a later launch throw (`:47`, `:23`), and the deprecated launch gives
its onread the buffer and not what the event brought (`:81`).

*Worker.* `Yield` of a context does not wait for a sleeping script
(`worker_context.cpp:37`), since `tryWait` releases the mutex it takes; terminate() before the
first start() calls a null context (`worker.cpp:217`).

*Filesystem.* Lines are lost when the last Logger goes while the thread writes earlier ones
(`LoggerFile.cpp:102` looks at `bRunning`, not at the queue), and `~LoggerFile` never returns
when it comes before `run` has set `bRunning` (`LoggerFile.cpp:101`): `LinesKept` and
`LinesWritten` speak of the life of a LoggerFile. A copy whose destination cannot be made says
`running` for ever (`async_copy.cpp:118`). When the list of copies is empty, `restart(0)` ends the
timer's loop (`filesystem_binding.cpp:498`), where the comment at `:486` says "return true to pause the
timer": the `restart(100)` of a later copy wakes nobody, and that copy and all after it stay in the
list. `FinishedIsRemoved` excepts the copies asked for from the moment on in which `_invoke` has found the
list empty, but for those that come between `restart(0)` and the loop's look at its interval.

*HTTP client.* A second send() loses its stream to the reset that the first one made
necessary, so that `responseText` is null or a stale handler gets the body; a send() or receive()
that is refused swaps the streams of the request that runs (`http_client_binding.cpp:315`,
`:324`). A request header with an empty value is a loop without end (`:727`). `HTTP_DONE` is
fired after `HTTP_ABORT` too (`:781`), and more redirects than `maxRedirects` end with neither
`HTTP_DONE` nor `HTTP_TIMEOUT`. `BodyIsItsOwn` and `RequestsEnd` name these exceptions.

*TCP socket.* A send that takes a part of the buffer drops the rest
(`tcp_socket_binding.cpp:202`); the text of onRead ends at a NUL; close() does not take the
mutex the reactor holds. `WrittenGoesOut` and `CallbacksFollow` say how much is left.

*IRC client.* PART of an entry that is not the first drops all before it; `-o` and `-v`
set what they should clear when it is clear (`IRC.cpp:568`), and `+o` skips the last entry; QUIT
removes the first entry only; JOIN is ignored while the list is empty; a reply split
over two `recv` is lost; getUsers reads the list without a lock.

*Menus and windows.* A `return` without a semicolon returns the call after it
(`gtk_user_window.cpp:1185`); `_Disable` of an item enables it (`menu_item.cpp:276`); two
clicks before the first queued `setState` set the same value (`menu_item.cpp:338`);
`ReplaceNativeItem` frees a widget before `DestroyNative` looks at it, and never shows the new
one (`gtk_menu_item.cpp:118`); Close destroys the GTK window before `RemoveOldMenu` uses the
menu in it (`gtk_user_window.cpp:265`). A child whose OPEN listener closes its parent opens
after it; close() from a CLOSE listener fires CLOSED twice; a window that opens while the
last one closes is open when the host was asked to exit. `_IsUsingScrollbars` of an
active window answers `IsUsingChrome` (`user_window.cpp:758`); a minimum or maximum width may
be set to the other side of its counterpart (`user_window.cpp:945`). The old size that a configure
event is compared with is one for all windows (`gtk_user_window.cpp:465`), so that with two windows
a resize to the size the other one had is missed, and getWidth, documented as "the width of the
window" (`user_window.cpp:159`), stays at the earlier width: `LimitsHold` says so of a window only
as long as it is the only one that was opened. What an OPEN listener sets reaches the configuration
only, since the GTK window is made and the window not active yet (`user_window.cpp:519`). setBounds
takes sizes that setWidth ignores (`user_window.cpp:1165`). A new size for a window that cannot be
resized is lost when setResizable(true) follows before GTK has settled.

*Installer.* `SetStage(INSTALLING)` may overwrite what a quick install thread set
(`installer.cpp:621`), and the installer never ends. Finish dereferences a null application when
the constructor asked for sudo, so that `.installed` is not written.

*Others.* `SetList` saves per set and `Setter` of a list falls through to the default
(`properties_binding.cpp`). pause() in the onComplete of a looping sound is undone
(`sound.cpp`).

## What is proved

Every theorem holds for all values of the constants, under the assumptions on them that the
modules name: markers that are no element of the sets they extend (`PipesAssumption`), how the
sets of pipes and threads lie to each other (`NativeAssumption`, `ProcessAssumption`), that there is a generation of native pipes and that the
blobs of a child are blobs (`ChildAssumption`), and bounds that are natural numbers
(`WorkerAssumption`, `LogFileAssumption`, `CopyAssumption`, `StreamAssumption`,
`HttpAssumption`, `TcpAssumption`, `InstallerAssumption`, `SizesAssumption`). The bounds stop what the environment does, so that a
theorem for every bound is one for any number of calls, messages, lines, copies, jobs and clicks.

**Pipes** (`PipeEventsProofs`). `PipeSpec` implies `[]PipeTypeOK`, `[]DataInOrder`,
`[]CloseAfterData` and `[]OtherAfterAll`. The inductive invariant is `PipeTypeOK /\ PipeInv`,
where `PipeInv` is the conjunction of

* `ReadsInv`: a pipe with unread data is in the queue, one round has at most one
  READ per pipe, and while the loop collects, with its mutex held, a collected
  pipe has no unread data. Without the last part `DataInOrder` does not survive
  the next write;
* `ClosesInv`: what was written before a collected Close has left `readData` by the
  time READs are fired, because reads are collected after closes;
* `OthersInv`: the same for other events, and each Close is fired or still in one
  of two queues, so that an event collected before the closes finds them
  fired or about to be fired before it.

Each theorem has one lemma per part of the invariant, with a step per action of
`PipeNext`. That the calls of threads (`Forward`, `Erase`, ...) leave the loop's
variables alone is one lemma used by all.

**Calls** (`PromiseProofs`): `NoCallAfterDetach`. The invariant `CallsInv` says of the steps a
thread has left that each one that calls through a pipe comes before the unlock of that pipe, that
there is one unlock per pipe, and that the thread holds every mutex it is to release. Detach
holds the mutex of the pipe alone, so that nobody else can be about to call what it erases.

**The promise** (`PromiseProofs`): `CloseOnce` and `PromiseKept`, the refinement of `EventOrder`.
`SingleInv` says that each Close is in exactly one place: queued, collected, or
fired. The initial states of the two map to each other, and each step of `PipeNext` is
a step of `EventOrder` or a stutter: a call asks, an event fired is one that was owed and
whose predecessors, by the three invariants above, were fired, and everything between moves
what is owed from one queue to another.

**Processes** (`ProcessProofs`): `StdinInOrder`, for any number of launches. `PlanInv` bounds what the
main thread and the exit monitor have left to do: writer threads are started before anything
is waited for, and `running` is set only after new pipes were made, so that nothing touches
the pipes of an earlier launch. `InInv` says that what was written is what was received and
then a rest, and that the rest is the queue as long as the writer thread lives.

**The end of a process** (`ExitProofs`): `ExitOnce`, `NothingAfterClose`, `ExitAfterOutput` and
`OutputReturned`, of `ProcSpec`, for any number of launches, streams, blobs and generations of
native pipes. The code has no place where "the output has been read" is written down: it follows
from who waits for whom, over the exit monitor, the readers, the main thread and the event loop.
The inductive invariant `ExitInv` says this piece by piece, in the order of the way a blob goes:

* `LifeInv` says where the main thread and the monitor are, from what their plans have left: `Shapes`
  that no plan does a step after those that come later in the code, `NewPipes` that no fork meets
  pipes that were used, `Homes` that no two launches share a generation, `Watched` that a watcher
  that has passed `stop` for a stream has joined its reader, and `Ending` that Exited runs when the
  child is reaped and its readers are gone;
* `OnceInv`: an EXIT is in one of three places, and none is there as long as one is to come (`Pends`);
* `FlowInv`: what a child wrote is in the operating system's pipe, in its reader's hand or in the
  native pipe, and a reader that has ended left nothing in the first two;
* `LinkInv`: what a native pipe was given the script's pipe was given, or the reader is about to;
  it needs that no pipe that polls is detached (`Erasing`);
* `ClosedInv`: a reader that was asked to close has ended, so that a CLOSE on its way is stamped with
  all its pipe will ever be given. With `CloseAfterData` this is `NothingAfterClose`;
* `StampInv`: the EXIT in the queue is stamped with how much each pipe had been given, and that
  includes all the child wrote. With `OtherAfterAll` of the pipes this is `ExitAfterOutput`.

For `OutputReturned` there is `OutputInv` besides: what was taken from the operating system's pipe is in
`output`, each stream in order, once the read callbacks are set, which is before the readers start
(`Gathering`), and what is collected is complete since the readers were joined (`Answers`).

**Workers** (`StandaloneProofs`): `WorkerTypeOK`, `MessagesInOrder`, `RepliesInOrder`. `CopyHeld` says that
what a thread has copied from a queue is handed on before the next copy is made, over restarts.

**Files** (`StandaloneProofs`): `LinesInOrder` and `LinesKept` of log files, `RunningIsKept` of
copies, `WrittenIsKept` of streams. They are theorems of `FilesystemSpec`, whose steps are those of
`standalone` while `part` is one of its own. `LogShape` says which of queue, copy and
stream may hold lines at which place of the thread. `CallbacksInOrder` of copies needs that a copy has
looked at every file it copied (`looked`), so that the next one it asks the main thread about comes
after all of those, the called and the pending; that the main thread takes the first of the calls moves
one number from the end of the latter to the former. For `LinesReadBack`, `ReadInv` says that what the
stream has given is the file up to `position`, and at its end the file, or the file and a line end that
it has not.

**Lines** (`StandaloneProofs`): `TextIsPassed`, of `LinesSpec`, for any output, however READs cut it.
What `split` returns has, one part after the other, the text without its line ends (`SplitKeepsText`,
by induction along the text), and leaving out line ends goes through concatenation
(`WithoutConcat`). It then does not matter to the text whether the last part is kept or passed, which
is why the code's test may be wrong (`lines_whole`) and lose nothing.

**Network** (`NetworkProofs`): `AbortIsForThis`, `OneSession`, `BodyIsItsOwn`, `WrittenGoesOut`
and `CallbacksFollow`, of `NetworkSpec`. An abort
that stands was asked for a request that runs, or before any; a request finds none but those, since
it begins with a reset. `OneSession`, which no run checks as it is the invariant that makes
the other one provable, says that a request that has a session has set `connected`, which keeps
others from beginning. Then `BodyInv` can say of a request that nobody disturbed that it has the
streams: while a `receive` runs `outputHandler` is its own and there is no stream (`Streaming`), the
handler has got what was read (`Receives`), and the first `send` has it in its stream, and after the
end in `responseText` (`Sends`). Of the socket `TcpInv` says that the buffer holds the last bytes
written and the wire earlier ones, but for those a send has just taken while it holds the mutex.
`CallsInv` says that what onRead was and will be called with are numbers of bytes that arrived, so
that the next ones are larger, and that the counts told, queued and held by the reactor between its
send and its call add up to the wire's length.

**Installer** (`StandaloneProofs`): `MarkedAfterEveryJob`, `NobodyLeft`, `OneMoreJob`. The first says
that each job had its file once and that Unzip was called for each, and nothing of what it found. `WhereInv`
says which stages can be met at each place of the three threads; it is what the code trusts
when it reads `stage` without a lock. `JobsInv` counts what was fetched and what Unzip was called for by those
places, and `CancelInv` says that a job that begins after a cancel was decided on before it.

**Windows** (`InterfaceProofs`): `WindowsListed` and `ClosingIsComplete`, of `WindowsSpec`, for any windows
and any depth of calls that listeners make. What the code holds only when no call is under way, the
invariant `WindowsInv` says of each state from what `stack` has left to do: a listed window is open, or
its close waits for its CLOSED event or for its children (`Ending`); an open window whose parent is
closed is in the list of children which a close is about to walk, or has a close of its own under way
(`ChildIsClosed`); a window whose open waits for a listener has its GTK window and was not opened
before (`Stacked`). At rest nothing waits, and both properties are left. They except what the code
does not do: the windows closed again from within their close (`again`), those whose CLOSE listener
prevented it (`spared`) and those that open under a closed parent (`late`).

**Menus** (`InterfaceProofs`): `MenusMirrored`, of `MenusSpec`, for any finite set of menus and any items
and windows. The inductive invariant `MenusInv` says that the graph of menus has no cycle (`Ordered`), that
each bar in a window is the one `CreateNativeBar` would build now for its menu (`BarsNow`), and that a window
with a native menu has a bar to remove. There is no cycle since the code asks `ContainsSubmenu` or
`ContainsItem` before it adds an edge, which reaches no further than the new edge allows (`ReachMore`).
Without cycles a way meets each menu once (`WaysGoDown`) and is no longer than there are menus (`WaysAreShort`), so that the
bound in `NativeMenu` cuts nothing off; and the ways to widgets that are new fall into one part
down to the widget that changed and one below (`WaysThrough`, `WaysBeyond`). Hence each change of the
code, made once at each widget, gives the bar that would be built afterwards (`InsertedBar`,
`RemovedBar`, `HungBar`, `MarkedBar`).

**Sizes of windows** (`InterfaceProofs`): `LimitsHold`, of `SizesSpec`, for any windows, axes, sizes
and events. `Fits` says that the configured size is in the limits, `Known` that GTK's hints are
those of the configuration and that a settled window is within them, and `Told` that the script
will have been told the window's size when the events under way are handled (`Chain`: each tells
another size than the one before, and the last one the size the window has), or that GTK is still to
give the window the size the script is told (`Wanted`).

**Induction** (`Induction`). Some of these properties speak of values that a recursive function computes
along a sequence: `Split`, the text without line ends, sums, and `FlattenSeq`. The library's induction
theorems have an operator as a parameter, which the provers cannot instantiate. `Induction` has them
with a set in its place: each set of natural numbers that is not empty has a least element (`Least`),
since `<` is well-founded; hence a set with 0 that has i + 1 with each i holds them all
(`UpToInduction`), one of sequences that has `<<>>` and with each sequence every longer one holds all
(`SequenceInduction`), and a function given by its first value and a step exists
(`RecursionExists`). The module also has what the lists of windows need: what appending to a sequence,
replacing in it, or taking one element out of it does to what it holds and how often.

Model-checked only: the liveness properties, which are beyond the prover. Every safety property that a
passing run checks is a theorem, for any values of the constants.

## Not modelled

`PROJECT.json` gives the reason for every part. In short: the Windows and OS X back ends, and
the installers there, are second implementations of what is modelled; wrappers of a library that
holds the state (files, SQLite, players, clipboard, tray, notifications) have little
order to get wrong; vendored zip code, the test runner and the build are not the product. Of
what is modelled in part, the looks of windows, dialogs, the upload of a request and the
environment of a process are left out as data. Known gaps with state of their own are the
IRC client's list, properties, the position in a result set, the HTTP server, positions
and states of windows, and the deprecated launch of `tiprocessmodule.js`.

## Plan

1. Done: pipes, native pipes, processes, workers, log files, copies, streams, the HTTP client, the TCP
   socket, menus, windows, sizes of windows, the line reader and the Linux installer; the theorems above.
2. Next: the IRC client's list, whose disagreements above want a run each; `Properties` and the result
   set as small modules checked in `standalone`; positions of windows, which are told like sizes.
3. Then their proofs: no safety property of a passing run is without a theorem now.
