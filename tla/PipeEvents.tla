------------------------------ MODULE PipeEvents ------------------------------
(***************************************************************************)
(* The event machinery of ti.Process' Pipe class (pipe.cpp).               *)
(*                                                                         *)
(* A Pipe has no thread of its own.  Write and Close run on the caller's   *)
(* thread: they record that the pipe owes its listeners an event, then     *)
(* call write or close on every attached object while holding the pipe's   *)
(* attachedMutex.  One static thread, FireEvents, turns the recorded work  *)
(* into READ, CLOSE and other (EXIT) events.  It collects the three        *)
(* collections in the REVERSE of the order in which it fires them.         *)
(*                                                                         *)
(* A blob is what one call of Write carries.  Listeners run when an event  *)
(* is fired; what they call in turn is a step of some thread.              *)
(***************************************************************************)
EXTENDS Naturals, Sequences

CONSTANTS Pipes,      \* the Pipe objects
          Threads,    \* threads that call Write, Close, Attach and Detach
          Blobs,      \* what may be written
          Others,     \* the events queued by FireEventAsynchronously
          NoThread,   \* the holder of a free mutex
          CloseCall   \* what a call of Close carries instead of a blob

ASSUME PipesAssumption == NoThread \notin Threads /\ CloseCall \notin Blobs

VARIABLES
  attached,      \* attachedObjects of each pipe; duplicates are allowed
  holder,        \* who holds each pipe's attachedMutex
  todo,          \* the rest of the Write or Close call of each thread
  carried,       \* what that call carries: a blob, or CloseCall
  readData,      \* blobs of each pipe that are not in a READ event yet
  readQueue,     \* pipesNeedingReadEvents
  closeQueue,    \* pipesNeedingCloseEvents
  otherEvents,   \* otherEvents
  pc,            \* where the FireEvents loop is
  readEvents,    \* its readEvents
  closeEvents,   \* its closeEvents: one entry stands for CLOSE and CLOSED
  otherCopy,     \* its otherEventsCopy
  written,       \* history: blobs given to each pipe, in readData order
  delivered,     \* history: blobs in the READ events fired on each pipe
  closesAsked,   \* history: calls of Close on each pipe
  closesFired    \* history: which of those calls had their CLOSE fired

callVars == <<attached, holder, todo, carried>>
queueVars == <<readData, readQueue, closeQueue, otherEvents>>
loopVars == <<pc, readEvents, closeEvents, otherCopy>>
askedVars == <<written, closesAsked>>
firedVars == <<delivered, closesFired>>
pipeVars == <<callVars, queueVars, loopVars, askedVars, firedVars>>

(***************************************************************************)
(* A queued CLOSE or other event is stamped with what its pipe, or every   *)
(* pipe, had been given when it was queued.  The stamps are history: no    *)
(* guard reads them.                                                       *)
(***************************************************************************)
CloseEntry == [pipe : Pipes, nth : Nat, after : Nat]
OtherEntry == [event : Others, after : [Pipes -> Nat], closes : [Pipes -> Nat]]
ReadEntry == [pipe : Pipes, glob : Seq(Blobs)]

\* The steps left of a call.  "call" is the entry of Write or Close on a pipe
\* (via: the pipe that forwards to it), "forward" takes the attachedMutex,
\* "erase" is Detach's loop (via: the object to be detached).
Task == [do : {"call", "erase"}, pipe : Pipes, via : Pipes]
          \cup [do : {"forward", "unlock"}, pipe : Pipes]

LoopSteps == {"others", "closes", "lockReads", "reads",
              "fireReads", "fireCloses", "fireOthers"}

-----------------------------------------------------------------------------
(* Calls on a pipe, made by the threads of the program.                    *)

Idle(t) == todo[t] = <<>>

\* The FireEvents thread holds pipesNeedingReadEventsMutex while it collects.
ReadQueueFree == pc # "reads"

\* Mutant: the pipe is only queued when nothing else is.
Mutant_QueueReadOnce(p, b) ==
  /\ ReadQueueFree
  /\ readData' = [readData EXCEPT ![p] = Append(@, b)]
  /\ readQueue' = IF readQueue = <<>> THEN <<p>> ELSE readQueue
  /\ written' = [written EXCEPT ![p] = Append(@, b)]
  /\ UNCHANGED <<closeQueue, otherEvents, closesAsked>>

QueueRead(p, b) ==
  /\ ReadQueueFree
  /\ readData' = [readData EXCEPT ![p] = Append(@, b)]
  /\ readQueue' = Append(readQueue, p)
  /\ written' = [written EXCEPT ![p] = Append(@, b)]
  /\ UNCHANGED <<closeQueue, otherEvents, closesAsked>>

QueueClose(p) ==
  /\ closeQueue' = Append(closeQueue, [pipe |-> p, nth |-> closesAsked[p] + 1,
                                       after |-> Len(written[p])])
  /\ closesAsked' = [closesAsked EXCEPT ![p] = @ + 1]
  /\ UNCHANGED <<readData, readQueue, otherEvents, written>>

QueueFor(p, what) ==
  IF what = CloseCall THEN QueueClose(p) ELSE QueueRead(p, what)

\* Pipe::Write(blob) or Pipe::Close() entered by t: the pipe's own events are
\* queued first, the attached objects are called afterwards.
Enter(t, p, what) ==
  /\ Idle(t)
  /\ QueueFor(p, what)
  /\ carried' = [carried EXCEPT ![t] = what]
  /\ todo' = [todo EXCEPT ![t] = <<[do |-> "forward", pipe |-> p]>>]
  /\ UNCHANGED <<attached, holder, loopVars, firedVars>>

\* t reaches Write or Close of an attached pipe.
EnterAttached(t) ==
  /\ ~Idle(t) /\ Head(todo[t]).do = "call"
  /\ LET q == Head(todo[t]).pipe IN
       /\ QueueFor(q, carried[t])
       /\ todo' = [todo EXCEPT ![t] = <<[do |-> "forward", pipe |-> q]>> \o Tail(@)]
  /\ UNCHANGED <<attached, holder, carried, loopVars, firedVars>>

CallsOf(p) == [i \in DOMAIN attached[p] |->
                 [do |-> "call", pipe |-> attached[p][i], via |-> p]]

\* t takes the attachedMutex and will call each attached object in turn.
Forward(t) ==
  /\ ~Idle(t) /\ Head(todo[t]).do = "forward"
  /\ LET p == Head(todo[t]).pipe IN
       /\ holder[p] = NoThread
       /\ holder' = [holder EXCEPT ![p] = t]
       /\ todo' = [todo EXCEPT ![t] =
                     CallsOf(p) \o <<[do |-> "unlock", pipe |-> p]>> \o Tail(@)]
  /\ UNCHANGED <<attached, carried, queueVars, loopVars, askedVars, firedVars>>

Unlock(t) ==
  /\ ~Idle(t) /\ Head(todo[t]).do = "unlock"
  /\ holder' = [holder EXCEPT ![Head(todo[t]).pipe] = NoThread]
  /\ todo' = [todo EXCEPT ![t] = Tail(@)]
  /\ UNCHANGED <<attached, carried, queueVars, loopVars, askedVars, firedVars>>

Attach(p, q) ==
  /\ holder[p] = NoThread
  /\ attached' = [attached EXCEPT ![p] = Append(@, q)]
  /\ UNCHANGED <<holder, todo, carried, queueVars, loopVars, askedVars, firedVars>>

\* Mutant: Detach does not take attachedMutex.
Mutant_DetachUnlocked(t, p, q) ==
  /\ Idle(t)
  /\ todo' = [todo EXCEPT ![t] = <<[do |-> "erase", pipe |-> p, via |-> q]>>]
  /\ UNCHANGED <<attached, holder, carried, queueVars, loopVars, askedVars, firedVars>>

\* t detaches q from p: it takes attachedMutex and erases every occurrence.
Detach(t, p, q) ==
  /\ Idle(t)
  /\ holder[p] = NoThread
  /\ holder' = [holder EXCEPT ![p] = t]
  /\ todo' = [todo EXCEPT ![t] = <<[do |-> "erase", pipe |-> p, via |-> q],
                                   [do |-> "unlock", pipe |-> p]>>]
  /\ UNCHANGED <<attached, carried, queueVars, loopVars, askedVars, firedVars>>

\* One turn of Detach's loop over attachedObjects.
Erase(t) ==
  /\ ~Idle(t) /\ Head(todo[t]).do = "erase"
  /\ LET p == Head(todo[t]).pipe
         q == Head(todo[t]).via
         found == {i \in DOMAIN attached[p] : attached[p][i] = q}
     IN \/ /\ found = {}
           /\ todo' = [todo EXCEPT ![t] = Tail(@)]
           /\ UNCHANGED attached
        \/ /\ \E i \in found :
                /\ \A j \in found : i <= j
                /\ attached' = [attached EXCEPT ![p] =
                                  SubSeq(@, 1, i - 1) \o SubSeq(@, i + 1, Len(@))]
           /\ UNCHANGED todo
  /\ UNCHANGED <<holder, carried, queueVars, loopVars, askedVars, firedVars>>

CallStep(t) == EnterAttached(t) \/ Forward(t) \/ Unlock(t) \/ Erase(t)

OtherStamp(e) ==
  [event |-> e, after |-> [p \in Pipes |-> Len(written[p])], closes |-> closesAsked]

FireEventAsynchronously(e) ==
  /\ otherEvents' = Append(otherEvents, OtherStamp(e))
  /\ UNCHANGED <<callVars, readData, readQueue, closeQueue, loopVars, askedVars, firedVars>>

-----------------------------------------------------------------------------
(* The FireEvents loop.                                                    *)

\* Mutant: others are collected after the pipes' READs.
Mutant_OthersCollectedLast ==
  [others |-> "fireReads", closes |-> "lockReads", lockReads |-> "reads",
   reads |-> "others", fireReads |-> "fireCloses", fireCloses |-> "fireOthers",
   fireOthers |-> "closes"]

\* Mutant: CLOSEs are collected after READs, in the order of firing.
Mutant_ClosesCollectedLast ==
  [others |-> "lockReads", lockReads |-> "reads", reads |-> "closes",
   closes |-> "fireReads", fireReads |-> "fireCloses",
   fireCloses |-> "fireOthers", fireOthers |-> "others"]

\* Mutant: the loop ends after a round.
Mutant_OneRound ==
  [others |-> "closes", closes |-> "lockReads", lockReads |-> "reads",
   reads |-> "fireReads", fireReads |-> "fireCloses",
   fireCloses |-> "fireOthers", fireOthers |-> "ended"]

\* The loop body: collect in one order, fire in the opposite one.
LoopOrder ==
  [others |-> "closes", closes |-> "lockReads", lockReads |-> "reads",
   reads |-> "fireReads", fireReads |-> "fireCloses",
   fireCloses |-> "fireOthers", fireOthers |-> "others"]

Leave(step) == pc = step /\ pc' = LoopOrder[step]

\* Mutant: otherEvents is not cleared.
Mutant_OthersKept ==
  /\ Leave("others")
  /\ otherCopy' = otherEvents
  /\ UNCHANGED <<callVars, queueVars, readEvents, closeEvents, askedVars, firedVars>>

CollectOthers ==
  /\ Leave("others")
  /\ otherCopy' = otherEvents
  /\ otherEvents' = <<>>
  /\ UNCHANGED <<callVars, readData, readQueue, closeQueue, readEvents, closeEvents,
                 askedVars, firedVars>>

\* Mutant: the collected CLOSEs stay in pipesNeedingCloseEvents.
Mutant_ClosesKept ==
  /\ Leave("closes")
  /\ closeEvents' = closeQueue
  /\ UNCHANGED <<callVars, queueVars, readEvents, otherCopy, askedVars, firedVars>>

CollectCloses ==
  /\ Leave("closes")
  /\ closeEvents' = closeQueue
  /\ closeQueue' = <<>>
  /\ UNCHANGED <<callVars, readData, readQueue, otherEvents, readEvents, otherCopy,
                 askedVars, firedVars>>

LockReads ==
  /\ Leave("lockReads")
  /\ UNCHANGED <<callVars, queueVars, readEvents, closeEvents, otherCopy,
                 askedVars, firedVars>>

\* Mutant: the blobs that went into the event stay in readData.
Mutant_ReadDataKept ==
  /\ pc = "reads" /\ readQueue # <<>>
  /\ LET p == Head(readQueue) IN
       readEvents' = Append(readEvents, [pipe |-> p, glob |-> readData[p]])
  /\ readQueue' = Tail(readQueue)
  /\ UNCHANGED <<callVars, readData, closeQueue, otherEvents, pc, closeEvents, otherCopy,
                 askedVars, firedVars>>

\* All of the pipe's blobs go into one event; the pipe's later entries in the
\* queue then find nothing left.
CollectRead ==
  /\ pc = "reads" /\ readQueue # <<>>
  /\ LET p == Head(readQueue) IN
       /\ readEvents' = IF readData[p] # <<>>
                          THEN Append(readEvents, [pipe |-> p, glob |-> readData[p]])
                          ELSE readEvents
       /\ readData' = [readData EXCEPT ![p] = <<>>]
  /\ readQueue' = Tail(readQueue)
  /\ UNCHANGED <<callVars, closeQueue, otherEvents, pc, closeEvents, otherCopy,
                 askedVars, firedVars>>

UnlockReads ==
  /\ readQueue = <<>>
  /\ Leave("reads")
  /\ UNCHANGED <<callVars, queueVars, readEvents, closeEvents, otherCopy,
                 askedVars, firedVars>>

FireRead ==
  /\ pc = "fireReads" /\ readEvents # <<>>
  /\ delivered' = [delivered EXCEPT ![Head(readEvents).pipe] = @ \o Head(readEvents).glob]
  /\ readEvents' = Tail(readEvents)
  /\ UNCHANGED <<callVars, queueVars, pc, closeEvents, otherCopy, askedVars, closesFired>>

ReadsFired ==
  /\ readEvents = <<>>
  /\ Leave("fireReads")
  /\ UNCHANGED <<callVars, queueVars, readEvents, closeEvents, otherCopy,
                 askedVars, firedVars>>

\* CLOSE and CLOSED of one pipe are fired back to back.
FireClose ==
  /\ pc = "fireCloses" /\ closeEvents # <<>>
  /\ closesFired' = [closesFired EXCEPT ![Head(closeEvents).pipe] =
                                            @ \cup {Head(closeEvents).nth}]
  /\ closeEvents' = Tail(closeEvents)
  /\ UNCHANGED <<callVars, queueVars, pc, readEvents, otherCopy, askedVars, delivered>>

ClosesFired ==
  /\ closeEvents = <<>>
  /\ Leave("fireCloses")
  /\ UNCHANGED <<callVars, queueVars, readEvents, closeEvents, otherCopy,
                 askedVars, firedVars>>

FireOther ==
  /\ pc = "fireOthers" /\ otherCopy # <<>>
  /\ otherCopy' = Tail(otherCopy)
  /\ UNCHANGED <<callVars, queueVars, pc, readEvents, closeEvents, askedVars, firedVars>>

\* The end of the loop body: sleep, and start again.
OthersFired ==
  /\ otherCopy = <<>>
  /\ Leave("fireOthers")
  /\ UNCHANGED <<callVars, queueVars, readEvents, closeEvents, otherCopy,
                 askedVars, firedVars>>

Collect == CollectOthers \/ CollectCloses \/ LockReads \/ CollectRead \/ UnlockReads
Fire == FireRead \/ ReadsFired \/ FireClose \/ ClosesFired \/ FireOther \/ OthersFired
FireEvents == Collect \/ Fire

-----------------------------------------------------------------------------
(* Any thread may call any pipe, and ask for any event, at any time.       *)

Unused ==
  /\ holder = [p \in Pipes |-> NoThread]
  /\ todo = [t \in Threads |-> <<>>]
  /\ carried = [t \in Threads |-> CloseCall]
  /\ readData = [p \in Pipes |-> <<>>]
  /\ readQueue = <<>> /\ closeQueue = <<>> /\ otherEvents = <<>>
  /\ pc = "others"
  /\ readEvents = <<>> /\ closeEvents = <<>> /\ otherCopy = <<>>
  /\ written = [p \in Pipes |-> <<>>]
  /\ delivered = [p \in Pipes |-> <<>>]
  /\ closesAsked = [p \in Pipes |-> 0]
  /\ closesFired = [p \in Pipes |-> {}]

PipeInit == attached = [p \in Pipes |-> <<>>] /\ Unused

Request ==
  \/ \E t \in Threads, p \in Pipes, what \in Blobs \cup {CloseCall} : Enter(t, p, what)
  \/ \E p, q \in Pipes : Attach(p, q) \/ \E t \in Threads : Detach(t, p, q)
  \/ \E e \in Others : FireEventAsynchronously(e)

PipeNext == Request \/ (\E t \in Threads : CallStep(t)) \/ FireEvents

PipeSpec == PipeInit /\ [][PipeNext]_pipeVars

-----------------------------------------------------------------------------
(* Properties.                                                             *)

Pending(q, p) == {i \in DOMAIN q : q[i].pipe = p}

\* Every variable has its type.
PipeTypeOK ==
  /\ attached \in [Pipes -> Seq(Pipes)]
  /\ holder \in [Pipes -> Threads \cup {NoThread}]
  /\ todo \in [Threads -> Seq(Task)]
  /\ carried \in [Threads -> Blobs \cup {CloseCall}]
  /\ readData \in [Pipes -> Seq(Blobs)]
  /\ readQueue \in Seq(Pipes)
  /\ closeQueue \in Seq(CloseEntry)
  /\ otherEvents \in Seq(OtherEntry)
  /\ pc \in LoopSteps
  /\ readEvents \in Seq(ReadEntry)
  /\ closeEvents \in Seq(CloseEntry)
  /\ otherCopy \in Seq(OtherEntry)
  /\ written \in [Pipes -> Seq(Blobs)]
  /\ delivered \in [Pipes -> Seq(Blobs)]
  /\ closesAsked \in [Pipes -> Nat]
  /\ closesFired \in [Pipes -> SUBSET Nat]

\* What the listeners of a pipe have read, what the loop is about to show them
\* and what waits in readData are together what was written, in that order:
\* no blob is lost, repeated or reordered by the globbing of readData.
DataInOrder ==
  \A p \in Pipes :
    /\ Pending(readEvents, p) = {} => written[p] = delivered[p] \o readData[p]
    /\ \A i \in Pending(readEvents, p) :
          written[p] = delivered[p] \o readEvents[i].glob \o readData[p]

\* When a CLOSE event is about to be fired, its pipe's listeners have read
\* everything that was written before Close was called ("this avoids a race
\* condition where a CLOSE or EXIT event happens before a READ event").
CloseAfterData ==
  pc = "fireCloses" =>
    \A i \in DOMAIN closeEvents :
      closeEvents[i].after <= Len(delivered[closeEvents[i].pipe])

\* When an event queued with FireEventAsynchronously is about to be fired, the
\* READs of everything written to any pipe, and the CLOSEs of every Close
\* called, before it was queued have been fired.
OtherAfterAll ==
  pc = "fireOthers" =>
    \A i \in DOMAIN otherCopy, p \in Pipes :
      /\ otherCopy[i].after[p] <= Len(delivered[p])
      /\ 1 .. otherCopy[i].closes[p] \subseteq closesFired[p]

\* A thread only calls objects that are still attached: once Detach returned,
\* the pipe never writes to or closes what it detached.
NoCallAfterDetach ==
  \A t \in Threads : \A i \in DOMAIN todo[t] :
    todo[t][i].do = "call" =>
      \E j \in DOMAIN attached[todo[t][i].via] :
        attached[todo[t][i].via][j] = todo[t][i].pipe

\* How many of the blobs written to p have left readData.
Collected(p) == Len(written[p]) - Len(readData[p])

\* The k-th Close of p waits in the queue q for its CLOSE.
Waiting(q, p, k) == \E i \in DOMAIN q : q[i].pipe = p /\ q[i].nth = k

\* What makes DataInOrder inductive: a pipe with data is queued, a round makes
\* one READ per pipe, and nobody writes while the loop collects.
ReadsInv ==
  /\ DataInOrder
  /\ pc \notin {"reads", "fireReads"} => readEvents = <<>>
  /\ \A i, j \in DOMAIN readEvents : readEvents[i].pipe = readEvents[j].pipe => i = j
  /\ \A p \in Pipes : readData[p] # <<>> => \E i \in DOMAIN readQueue : readQueue[i] = p
  /\ pc = "reads" => \A i \in DOMAIN readEvents : readData[readEvents[i].pipe] = <<>>

\* What makes CloseAfterData inductive: the reads are collected after the
\* closes, so they cover what was written before any collected Close.
ClosesInv ==
  /\ pc \in {"others", "closes", "fireOthers"} => closeEvents = <<>>
  /\ \A i \in DOMAIN closeQueue : closeQueue[i].after <= Len(written[closeQueue[i].pipe])
  /\ \A i \in DOMAIN closeEvents :
       /\ closeEvents[i].after <= Len(written[closeEvents[i].pipe])
       /\ pc \in {"fireReads", "fireCloses"} =>
            closeEvents[i].after <= Collected(closeEvents[i].pipe)

\* Every Close called has had its CLOSE fired, or is queued for it.
ClosesAccounted ==
  \A p \in Pipes : \A k \in 1 .. closesAsked[p] :
    k \in closesFired[p] \/ Waiting(closeEvents, p, k) \/ Waiting(closeQueue, p, k)

\* The stamps of queued events do not run ahead of the history.
StampsPast(q) ==
  \A i \in DOMAIN q, p \in Pipes :
    q[i].after[p] <= Len(written[p]) /\ q[i].closes[p] <= closesAsked[p]

\* The collected events come after the collected data and closes.
CopyCoversData ==
  pc \in {"fireReads", "fireCloses", "fireOthers"} =>
    \A i \in DOMAIN otherCopy, p \in Pipes : otherCopy[i].after[p] <= Collected(p)

CopyCoversCloses ==
  pc \notin {"others", "closes"} =>
    \A i \in DOMAIN otherCopy, p \in Pipes : \A k \in 1 .. otherCopy[i].closes[p] :
      k \in closesFired[p] \/ Waiting(closeEvents, p, k)

\* What makes OtherAfterAll inductive: other events are collected before both.
OthersInv ==
  /\ pc = "others" => otherCopy = <<>>
  /\ ClosesAccounted
  /\ StampsPast(otherEvents) /\ StampsPast(otherCopy)
  /\ CopyCoversData /\ CopyCoversCloses

PipeInv == ReadsInv /\ ClosesInv /\ OthersInv

\* No Close is answered twice: the CLOSE of a call of Close is fired once.
CloseOnce == [][FireClose => closesFired' # closesFired]_pipeVars

Fairness == WF_pipeVars(FireEvents) /\ \A t \in Threads : WF_pipeVars(CallStep(t))

\* Whatever is written to a pipe is eventually read by its listeners, and
\* every Close is eventually followed by its CLOSE.
EverythingFired ==
  \A p \in Pipes :
    []<>(Len(delivered[p]) = Len(written[p]) /\ closesFired[p] = 1 .. closesAsked[p])
===============================================================================
