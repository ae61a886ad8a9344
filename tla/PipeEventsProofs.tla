--------------------------- MODULE PipeEventsProofs ---------------------------
(***************************************************************************)
(* Theorems about PipeEvents, for every set of pipes, threads and blobs.   *)
(***************************************************************************)
EXTENDS PipeEvents, TLAPS

-----------------------------------------------------------------------------
(* Lemmas about sequences.                                                 *)

\* What is left of a non-empty sequence after its head.
LEMMA TailFacts ==
  ASSUME NEW S, NEW s \in Seq(S), s # <<>>
  PROVE  /\ Head(s) \in S /\ Head(s) = s[1]
         /\ Tail(s) \in Seq(S) /\ Len(Tail(s)) = Len(s) - 1
         /\ \A i \in 1 .. Len(Tail(s)) : Tail(s)[i] = s[i + 1]
         /\ 1 \in DOMAIN s /\ DOMAIN s = 1 .. Len(s) /\ Len(s) \in Nat
OBVIOUS

LEMMA AppendFacts ==
  ASSUME NEW S, NEW s \in Seq(S), NEW e \in S
  PROVE  /\ Append(s, e) \in Seq(S) /\ Len(Append(s, e)) = Len(s) + 1
         /\ \A i \in 1 .. Len(s) : Append(s, e)[i] = s[i]
         /\ Append(s, e)[Len(s) + 1] = e
OBVIOUS

LEMMA ElementType ==
  ASSUME NEW S, NEW s \in Seq(S), NEW i \in DOMAIN s
  PROVE  s[i] \in S
OBVIOUS

LEMMA ReadEntryFields == \A e \in ReadEntry : e.pipe \in Pipes /\ e.glob \in Seq(Blobs)
BY DEF ReadEntry

LEMMA RemoveOne ==
  ASSUME NEW S, NEW s \in Seq(S), NEW i \in DOMAIN s
  PROVE  SubSeq(s, 1, i - 1) \o SubSeq(s, i + 1, Len(s)) \in Seq(S)
<1>1. Len(s) \in Nat /\ i \in 1 .. Len(s) /\ \A j \in 1 .. Len(s) : s[j] \in S
  OBVIOUS
<1>2. SubSeq(s, 1, i - 1) \in Seq(S)
  BY <1>1
<1>3. SubSeq(s, i + 1, Len(s)) \in Seq(S)
  BY <1>1
<1> QED
  BY <1>2, <1>3

LEMMA ConcatEmpty == <<>> \o <<>> = <<>>
<1>1. <<>> \in Seq(Nat)
  OBVIOUS
<1> QED
  BY <1>1

LEMMA NonePending == \A p : Pending(<<>>, p) = {}
<1>1. DOMAIN <<>> = {}
  OBVIOUS
<1> QED
  BY <1>1 DEF Pending

LEMMA ConcatAppend ==
  \A s, t \in Seq(Blobs), e \in Blobs : Append(s \o t, e) = s \o Append(t, e)
OBVIOUS

-----------------------------------------------------------------------------
(* Type correctness.                                                       *)

\* Initially every variable has its type.
LEMMA InitType == PipeInit => PipeTypeOK
BY DEF PipeInit, Unused, PipeTypeOK, LoopSteps

\* Queueing the event of a Write or Close keeps the types.
LEMMA QueueType ==
  ASSUME PipeTypeOK, NEW p \in Pipes, NEW what \in Blobs \cup {CloseCall},
         QueueFor(p, what)
  PROVE  /\ readData' \in [Pipes -> Seq(Blobs)] /\ readQueue' \in Seq(Pipes)
         /\ closeQueue' \in Seq(CloseEntry) /\ otherEvents' \in Seq(OtherEntry)
         /\ written' \in [Pipes -> Seq(Blobs)] /\ closesAsked' \in [Pipes -> Nat]
<1> USE DEF PipeTypeOK
<1>1. CASE what = CloseCall
  <2>1. [pipe |-> p, nth |-> closesAsked[p] + 1, after |-> Len(written[p])] \in CloseEntry
    BY DEF CloseEntry
  <2>2. QueueClose(p)
    BY <1>1 DEF QueueFor
  <2>3. closeQueue' \in Seq(CloseEntry)
    BY <2>1, <2>2, AppendFacts DEF QueueClose
  <2>4. closesAsked' \in [Pipes -> Nat]
    BY <2>2 DEF QueueClose
  <2> QED
    BY <2>2, <2>3, <2>4 DEF QueueClose
<1>2. CASE what # CloseCall
  <2>1. QueueRead(p, what) /\ what \in Blobs
    BY <1>2 DEF QueueFor
  <2>2. readData' \in [Pipes -> Seq(Blobs)]
    BY <2>1, AppendFacts DEF QueueRead
  <2>3. written' \in [Pipes -> Seq(Blobs)]
    BY <2>1, AppendFacts DEF QueueRead
  <2>4. readQueue' \in Seq(Pipes)
    BY <2>1, AppendFacts DEF QueueRead
  <2> QED
    BY <2>1, <2>2, <2>3, <2>4 DEF QueueRead
<1> QED
  BY <1>1, <1>2

\* The calls made on attached objects are tasks.
LEMMA CallsType ==
  ASSUME PipeTypeOK, NEW p \in Pipes
  PROVE  CallsOf(p) \in Seq(Task)
<1>1. attached[p] \in Seq(Pipes) /\ Len(attached[p]) \in Nat
  BY DEF PipeTypeOK
<1>2. DOMAIN attached[p] = 1 .. Len(attached[p])
  BY <1>1
<1>3. \A i \in 1 .. Len(attached[p]) :
        [do |-> "call", pipe |-> attached[p][i], via |-> p] \in Task
  BY <1>1 DEF Task
<1> QED
  BY <1>1, <1>2, <1>3 DEF CallsOf

LEMMA TaskPipe == \A task \in Task : task.pipe \in Pipes
BY DEF Task

\* Every step keeps the types.
LEMMA NextType == PipeTypeOK /\ [PipeNext]_pipeVars => PipeTypeOK'
<1> SUFFICES ASSUME PipeTypeOK, [PipeNext]_pipeVars PROVE PipeTypeOK'
  OBVIOUS
<1> USE DEF callVars, queueVars, loopVars, askedVars, firedVars
<1>1. ASSUME NEW t \in Threads, NEW p \in Pipes, NEW what \in Blobs \cup {CloseCall},
             Enter(t, p, what)
      PROVE  PipeTypeOK'
  <2>1. [do |-> "forward", pipe |-> p] \in Task
    BY DEF Task
  <2>2. <<[do |-> "forward", pipe |-> p]>> \in Seq(Task)
    BY <2>1
  <2>3. todo' \in [Threads -> Seq(Task)] /\ carried' \in [Threads -> Blobs \cup {CloseCall}]
    BY <1>1, <2>2 DEF PipeTypeOK, Enter
  <2>4. QueueFor(p, what)
    BY <1>1 DEF Enter
  <2> QED
    BY <1>1, <2>3, <2>4, QueueType DEF PipeTypeOK, Enter
<1>2. ASSUME NEW p \in Pipes, NEW q \in Pipes, Attach(p, q)
      PROVE  PipeTypeOK'
  <2>1. attached' \in [Pipes -> Seq(Pipes)]
    BY <1>2, AppendFacts DEF PipeTypeOK, Attach
  <2> QED
    BY <1>2, <2>1 DEF PipeTypeOK, Attach
<1>3. ASSUME NEW t \in Threads, NEW p \in Pipes, NEW q \in Pipes, Detach(t, p, q)
      PROVE  PipeTypeOK'
  <2>1. [do |-> "erase", pipe |-> p, via |-> q] \in Task
        /\ [do |-> "unlock", pipe |-> p] \in Task
    BY DEF Task
  <2>2. <<[do |-> "erase", pipe |-> p, via |-> q], [do |-> "unlock", pipe |-> p]>>
          \in Seq(Task)
    BY <2>1
  <2>3. todo' \in [Threads -> Seq(Task)] /\ holder' \in [Pipes -> Threads \cup {NoThread}]
    BY <1>3, <2>2 DEF PipeTypeOK, Detach
  <2> QED
    BY <1>3, <2>3 DEF PipeTypeOK, Detach
<1>4. ASSUME NEW e \in Others, FireEventAsynchronously(e)
      PROVE  PipeTypeOK'
  <2>1. OtherStamp(e) \in OtherEntry
    BY DEF PipeTypeOK, OtherEntry, OtherStamp
  <2> QED
    BY <1>4, <2>1 DEF PipeTypeOK, FireEventAsynchronously
<1>5. ASSUME NEW t \in Threads, EnterAttached(t)
      PROVE  PipeTypeOK'
  <2> DEFINE q == Head(todo[t]).pipe
  <2>1. todo[t] \in Seq(Task) /\ todo[t] # <<>>
    BY <1>5 DEF PipeTypeOK, EnterAttached, Idle
  <2>2. q \in Pipes /\ Tail(todo[t]) \in Seq(Task)
    BY <2>1, TailFacts, TaskPipe
  <2>3. [do |-> "forward", pipe |-> q] \in Task
    BY <2>2 DEF Task
  <2>4. <<[do |-> "forward", pipe |-> q]>> \o Tail(todo[t]) \in Seq(Task)
    BY <2>2, <2>3
  <2>5. carried[t] \in Blobs \cup {CloseCall} /\ QueueFor(q, carried[t])
    BY <1>5 DEF PipeTypeOK, EnterAttached
  <2> HIDE DEF q
  <2>6. todo' = [todo EXCEPT ![t] = <<[do |-> "forward", pipe |-> q]>> \o Tail(todo[t])]
    BY <1>5 DEF EnterAttached, q
  <2> QED
    BY <1>5, <2>2, <2>4, <2>5, <2>6, QueueType DEF PipeTypeOK, EnterAttached
<1>6. ASSUME NEW t \in Threads, Forward(t)
      PROVE  PipeTypeOK'
  <2> DEFINE p == Head(todo[t]).pipe
  <2>1. todo[t] \in Seq(Task) /\ todo[t] # <<>>
    BY <1>6 DEF PipeTypeOK, Forward, Idle
  <2>2. p \in Pipes /\ Tail(todo[t]) \in Seq(Task)
    BY <2>1, TailFacts, TaskPipe
  <2>3. <<[do |-> "unlock", pipe |-> p]>> \in Seq(Task)
    BY <2>2 DEF Task
  <2>4. CallsOf(p) \o <<[do |-> "unlock", pipe |-> p]>> \o Tail(todo[t]) \in Seq(Task)
    BY <2>2, <2>3, CallsType
  <2> QED
    BY <1>6, <2>2, <2>4 DEF PipeTypeOK, Forward
<1>7. ASSUME NEW t \in Threads, Unlock(t)
      PROVE  PipeTypeOK'
  <2>1. todo[t] \in Seq(Task) /\ todo[t] # <<>>
    BY <1>7 DEF PipeTypeOK, Unlock, Idle
  <2>2. Tail(todo[t]) \in Seq(Task)
    BY <2>1, TailFacts
  <2> QED
    BY <1>7, <2>2 DEF PipeTypeOK, Unlock
<1>8. ASSUME NEW t \in Threads, Erase(t)
      PROVE  PipeTypeOK'
  <2> DEFINE p == Head(todo[t]).pipe
             found == {i \in DOMAIN attached[p] : attached[p][i] = Head(todo[t]).via}
  <2>1. todo[t] \in Seq(Task) /\ todo[t] # <<>>
    BY <1>8 DEF PipeTypeOK, Erase, Idle
  <2>2. p \in Pipes /\ Tail(todo[t]) \in Seq(Task)
    BY <2>1, TailFacts, TaskPipe
  <2>3. todo' \in [Threads -> Seq(Task)]
    BY <1>8, <2>2 DEF PipeTypeOK, Erase
  <2>4. attached' \in [Pipes -> Seq(Pipes)]
    <3>1. CASE UNCHANGED attached
      BY <3>1 DEF PipeTypeOK
    <3>2. ASSUME NEW i \in found,
                 attached' = [attached EXCEPT ![p] =
                   SubSeq(@, 1, i - 1) \o SubSeq(@, i + 1, Len(@))]
          PROVE  attached' \in [Pipes -> Seq(Pipes)]
      <4>1. i \in DOMAIN attached[p] /\ attached[p] \in Seq(Pipes)
        BY <2>2 DEF PipeTypeOK
      <4> DEFINE kept == SubSeq(attached[p], 1, i - 1)
                           \o SubSeq(attached[p], i + 1, Len(attached[p]))
      <4>2. kept \in Seq(Pipes)
        BY <4>1, RemoveOne
      <4>3. attached' = [attached EXCEPT ![p] = kept]
        BY <3>2
      <4> HIDE DEF kept, p
      <4> QED
        BY <4>2, <4>3, <2>2 DEF PipeTypeOK
    <3> QED
      BY <1>8, <3>1, <3>2 DEF Erase
  <2> QED
    BY <1>8, <2>3, <2>4 DEF PipeTypeOK, Erase
<1>9. ASSUME CollectOthers \/ CollectCloses \/ LockReads \/ UnlockReads
      PROVE  PipeTypeOK'
  <2>1. pc' \in LoopSteps
    BY <1>9 DEF CollectOthers, CollectCloses, LockReads, UnlockReads,
                Leave, LoopOrder, LoopSteps
  <2>2. CASE CollectOthers
    BY <2>1, <2>2 DEF PipeTypeOK, CollectOthers
  <2>3. CASE CollectCloses
    BY <2>1, <2>3 DEF PipeTypeOK, CollectCloses
  <2>4. CASE LockReads \/ UnlockReads
    BY <2>1, <2>4 DEF PipeTypeOK, LockReads, UnlockReads
  <2> QED
    BY <1>9, <2>2, <2>3, <2>4
<1>10. ASSUME CollectRead PROVE PipeTypeOK'
  <2> DEFINE p == Head(readQueue)
  <2>1. readQueue \in Seq(Pipes) /\ readQueue # <<>>
    BY <1>10 DEF PipeTypeOK, CollectRead
  <2>2. p \in Pipes /\ Tail(readQueue) \in Seq(Pipes)
    BY <2>1, TailFacts
  <2>3. [pipe |-> p, glob |-> readData[p]] \in ReadEntry
    BY <2>2 DEF PipeTypeOK, ReadEntry
  <2>4. readEvents' \in Seq(ReadEntry)
    <3>1. readEvents' = Append(readEvents, [pipe |-> p, glob |-> readData[p]])
          \/ readEvents' = readEvents
      BY <1>10 DEF CollectRead
    <3>2. readEvents \in Seq(ReadEntry)
      BY DEF PipeTypeOK
    <3> HIDE DEF p
    <3> QED
      BY <2>3, <3>1, <3>2, AppendFacts
  <2>5. readData' \in [Pipes -> Seq(Blobs)]
    BY <1>10, <2>2 DEF PipeTypeOK, CollectRead
  <2> QED
    BY <1>10, <2>2, <2>4, <2>5 DEF PipeTypeOK, CollectRead
<1>11. ASSUME FireRead PROVE PipeTypeOK'
  <2>1. Head(readEvents) \in ReadEntry /\ Tail(readEvents) \in Seq(ReadEntry)
    BY <1>11, TailFacts DEF PipeTypeOK, FireRead
  <2> DEFINE p == Head(readEvents).pipe
             glob == Head(readEvents).glob
  <2>2. p \in Pipes /\ glob \in Seq(Blobs)
    BY <2>1 DEF ReadEntry
  <2>3. delivered' = [delivered EXCEPT ![p] = @ \o glob]
    BY <1>11 DEF FireRead
  <2> HIDE DEF p, glob
  <2>4. delivered' \in [Pipes -> Seq(Blobs)]
    BY <2>2, <2>3 DEF PipeTypeOK
  <2> QED
    BY <1>11, <2>1, <2>4 DEF PipeTypeOK, FireRead
<1>12. ASSUME FireClose PROVE PipeTypeOK'
  <2>1. Head(closeEvents) \in CloseEntry /\ Tail(closeEvents) \in Seq(CloseEntry)
    BY <1>12, TailFacts DEF PipeTypeOK, FireClose
  <2>2. closesFired' \in [Pipes -> SUBSET Nat]
    BY <1>12, <2>1 DEF PipeTypeOK, FireClose, CloseEntry
  <2> QED
    BY <1>12, <2>1, <2>2 DEF PipeTypeOK, FireClose
<1>13. ASSUME FireOther PROVE PipeTypeOK'
  BY <1>13, TailFacts DEF PipeTypeOK, FireOther
<1>14. ASSUME ReadsFired \/ ClosesFired \/ OthersFired PROVE PipeTypeOK'
  BY <1>14 DEF PipeTypeOK, ReadsFired, ClosesFired, OthersFired,
               Leave, LoopOrder, LoopSteps
<1>15. CASE UNCHANGED pipeVars
  BY <1>15 DEF PipeTypeOK, pipeVars
<1> QED
  BY <1>1, <1>2, <1>3, <1>4, <1>5, <1>6, <1>7, <1>8, <1>9, <1>10, <1>11, <1>12,
     <1>13, <1>14, <1>15
  DEF PipeNext, Request, CallStep, FireEvents, Collect, Fire

\* Every variable always has its type.
THEOREM PipeTypeCorrect == PipeSpec => []PipeTypeOK
BY InitType, NextType, PTL DEF PipeSpec

-----------------------------------------------------------------------------
(* READ events: nothing is lost, repeated or reordered.                    *)

\* Queueing the READ of a Write.
LEMMA QueueReadReads ==
  ASSUME PipeTypeOK, ReadsInv, NEW p \in Pipes, NEW b \in Blobs, QueueRead(p, b),
         UNCHANGED <<loopVars, firedVars>>
  PROVE  ReadsInv'
<1> USE DEF loopVars, firedVars
<1>1. /\ readData' = [readData EXCEPT ![p] = Append(@, b)]
      /\ readQueue' = Append(readQueue, p)
      /\ written' = [written EXCEPT ![p] = Append(@, b)]
      /\ pc # "reads"
      /\ UNCHANGED <<pc, readEvents, delivered>>
  BY DEF QueueRead, ReadQueueFree
<1>2. readQueue \in Seq(Pipes) /\ readEvents \in Seq(ReadEntry)
      /\ readData \in [Pipes -> Seq(Blobs)] /\ written \in [Pipes -> Seq(Blobs)]
      /\ delivered \in [Pipes -> Seq(Blobs)]
  BY DEF PipeTypeOK
<1>3. DataInOrder'
  <2> SUFFICES ASSUME NEW q \in Pipes
               PROVE  /\ Pending(readEvents, q) = {} =>
                            written'[q] = delivered[q] \o readData'[q]
                      /\ \A i \in Pending(readEvents, q) :
                            written'[q] = delivered[q] \o readEvents[i].glob \o readData'[q]
    BY <1>1, ZenonT(30) DEF DataInOrder, Pending
  <2>1. CASE q # p
    BY <2>1, <1>1, <1>2 DEF ReadsInv, DataInOrder
  <2>2. CASE q = p
    <3>1. written'[p] = Append(written[p], b) /\ readData'[p] = Append(readData[p], b)
      BY <1>1, <1>2
    <3>2. delivered[p] \in Seq(Blobs) /\ readData[p] \in Seq(Blobs)
      BY <1>2
    <3>3. ASSUME Pending(readEvents, p) = {}
          PROVE  written'[p] = delivered[p] \o readData'[p]
      <4>1. written[p] = delivered[p] \o readData[p]
        BY <3>3 DEF ReadsInv, DataInOrder
      <4>2. Append(delivered[p] \o readData[p], b) = delivered[p] \o Append(readData[p], b)
        BY <3>2, ConcatAppend
      <4> QED
        BY <4>1, <4>2, <3>1
    <3>4. ASSUME NEW i \in Pending(readEvents, p)
          PROVE  written'[p] = delivered[p] \o readEvents[i].glob \o readData'[p]
      <4> DEFINE shown == delivered[p] \o readEvents[i].glob
      <4>1. written[p] = shown \o readData[p]
        BY <3>4 DEF ReadsInv, DataInOrder
      <4>2. shown \in Seq(Blobs)
        <5>1. i \in DOMAIN readEvents
          BY <3>4 DEF Pending
        <5>2. readEvents[i].glob \in Seq(Blobs)
          BY <5>1, <1>2, ElementType, ReadEntryFields
        <5> QED
          BY <5>2, <3>2
      <4> HIDE DEF shown
      <4>3. Append(shown \o readData[p], b) = shown \o Append(readData[p], b)
        BY <4>2, <3>2, ConcatAppend
      <4>4. written'[p] = shown \o readData'[p]
        BY <4>1, <4>3, <3>1
      <4> QED
        BY <4>4 DEF shown
    <3> QED
      BY <2>2, <3>3, <3>4
  <2> QED
    BY <2>1, <2>2
<1>4. ASSUME NEW q \in Pipes, readData'[q] # <<>>
      PROVE  \E i \in DOMAIN readQueue' : readQueue'[i] = q
  <2>1. CASE q = p
    <3>1. /\ Len(readQueue') = Len(readQueue) + 1 /\ readQueue'[Len(readQueue) + 1] = p
          /\ readQueue' \in Seq(Pipes)
      BY <1>1, <1>2, AppendFacts
    <3>2. Len(readQueue) + 1 \in DOMAIN readQueue'
      BY <3>1, <1>2
    <3> QED
      BY <2>1, <3>1, <3>2
  <2>2. CASE q # p
    <3>1. PICK i \in DOMAIN readQueue : readQueue[i] = q
      BY <1>4, <2>2, <1>1, <1>2 DEF ReadsInv
    <3>2. i \in DOMAIN readQueue' /\ readQueue'[i] = q
      BY <3>1, <1>1, <1>2, SMTT(30)
    <3> QED
      BY <3>2
  <2> QED
    BY <2>1, <2>2
<1> QED
  BY <1>1, <1>3, <1>4 DEF ReadsInv

\* Collecting one entry of pipesNeedingReadEvents.
LEMMA CollectReadReads ==
  ASSUME PipeTypeOK, ReadsInv, CollectRead
  PROVE  ReadsInv'
<1> DEFINE p == Head(readQueue)
<1>1. /\ pc = "reads" /\ readQueue # <<>>
      /\ readEvents' = IF readData[p] # <<>>
                         THEN Append(readEvents, [pipe |-> p, glob |-> readData[p]])
                         ELSE readEvents
      /\ readData' = [readData EXCEPT ![p] = <<>>]
      /\ readQueue' = Tail(readQueue)
      /\ UNCHANGED <<pc, delivered, written>>
  BY DEF CollectRead, askedVars, firedVars
<1>2. readQueue \in Seq(Pipes) /\ readEvents \in Seq(ReadEntry)
      /\ readData \in [Pipes -> Seq(Blobs)] /\ written \in [Pipes -> Seq(Blobs)]
      /\ delivered \in [Pipes -> Seq(Blobs)]
  BY DEF PipeTypeOK
<1>3. p \in Pipes /\ p = readQueue[1]
  BY <1>1, <1>2, TailFacts
<1>4. ASSUME NEW q \in Pipes, readData'[q] # <<>>
      PROVE  \E i \in DOMAIN readQueue' : readQueue'[i] = q
  <2>1. q # p /\ readData[q] # <<>>
    BY <1>4, <1>1, <1>2, <1>3
  <2>2. PICK i \in DOMAIN readQueue : readQueue[i] = q
    BY <2>1 DEF ReadsInv
  <2>3. i \in 2 .. Len(readQueue)
    BY <2>1, <2>2, <1>2, <1>3
  <2>4. i - 1 \in DOMAIN readQueue' /\ readQueue'[i - 1] = q
    <3>1. /\ Tail(readQueue) \in Seq(Pipes) /\ Len(Tail(readQueue)) = Len(readQueue) - 1
          /\ \A j \in 1 .. Len(Tail(readQueue)) : Tail(readQueue)[j] = readQueue[j + 1]
      BY <1>1, <1>2, TailFacts
    <3>2. i - 1 \in 1 .. Len(Tail(readQueue)) /\ (i - 1) + 1 = i
      <4>1. Len(readQueue) \in Nat
        BY <1>2
      <4> HIDE DEF p
      <4> QED
        BY <2>3, <3>1, <4>1
    <3>3. i - 1 \in DOMAIN Tail(readQueue)
      BY <3>1, <3>2
    <3> QED
      BY <2>2, <3>1, <3>2, <3>3, <1>1
  <2> QED
    BY <2>4
<1> HIDE DEF p
<1>5. CASE readData[p] = <<>>
  <2>1. readEvents' = readEvents /\ readData' = readData
    BY <1>5, <1>1, <1>2, <1>3
  <2> QED
    <3>1. DataInOrder'
      <4>1. UNCHANGED <<readEvents, readData, written, delivered>>
        BY <2>1, <1>1
      <4> QED
        BY <4>1 DEF ReadsInv, DataInOrder, Pending
    <3> QED
      BY <2>1, <3>1, <1>1, <1>4 DEF ReadsInv
<1>6. CASE readData[p] # <<>>
  <2> DEFINE e == [pipe |-> p, glob |-> readData[p]]
             n == Len(readEvents)
  <2>1. e \in ReadEntry /\ e.pipe = p /\ e.glob = readData[p]
    BY <1>2, <1>3 DEF ReadEntry
  <2> HIDE DEF e
  <2>2. /\ n \in Nat /\ DOMAIN readEvents = 1 .. n
        /\ readEvents' = Append(readEvents, e)
        /\ DOMAIN readEvents' = 1 .. n + 1
        /\ readEvents'[n + 1] = e
        /\ \A i \in 1 .. n : readEvents'[i] = readEvents[i]
    <3>1. readEvents' = Append(readEvents, e)
      BY <1>6, <1>1 DEF e
    <3> QED
      BY <3>1, <2>1, <1>2, AppendFacts
  <2>3. \A i \in 1 .. n : readEvents[i].pipe # p
    BY <1>6, <1>1, <2>2 DEF ReadsInv
  <2> HIDE DEF n
  <2>4. \A q \in Pipes : q # p => Pending(readEvents', q) = Pending(readEvents, q)
                                /\ \A i \in Pending(readEvents, q) :
                                      readEvents'[i] = readEvents[i]
    BY <2>1, <2>2 DEF Pending
  <2>5. Pending(readEvents, p) = {} /\ Pending(readEvents', p) = {n + 1}
    BY <2>1, <2>2, <2>3 DEF Pending
  <2>6. DataInOrder'
    <3> SUFFICES ASSUME NEW q \in Pipes
                 PROVE  /\ Pending(readEvents', q) = {} =>
                              written[q] = delivered[q] \o readData'[q]
                        /\ \A i \in Pending(readEvents', q) :
                              written[q] = delivered[q] \o readEvents'[i].glob \o readData'[q]
      BY <1>1 DEF DataInOrder, Pending
    <3>1. CASE q # p
      <4>1. readData'[q] = readData[q]
        BY <3>1, <1>1, <1>2
      <4> QED
        BY <3>1, <4>1, <2>4, ZenonT(30) DEF ReadsInv, DataInOrder
    <3>2. CASE q = p
      <4>1. readData'[p] = <<>> /\ written[p] = delivered[p] \o readData[p]
        BY <1>1, <1>2, <1>3, <2>5 DEF ReadsInv, DataInOrder
      <4>2. readEvents'[n + 1].glob = readData[p]
        BY <2>1, <2>2
      <4>3. (delivered[p] \o readData[p]) \o <<>> = delivered[p] \o readData[p]
        BY <1>2, <1>3
      <4> QED
        BY <3>2, <4>1, <4>2, <4>3, <2>5
    <3> QED
      BY <3>1, <3>2
  <2>7. \A i, j \in DOMAIN readEvents' : readEvents'[i].pipe = readEvents'[j].pipe => i = j
    BY <2>1, <2>2, <2>3 DEF ReadsInv
  <2>8. \A i \in DOMAIN readEvents' : readData'[readEvents'[i].pipe] = <<>>
    <3>1. ASSUME NEW i \in 1 .. n PROVE readData'[readEvents'[i].pipe] = <<>>
      <4>1. readEvents[i].pipe \in Pipes
        BY <1>2, <2>2, ElementType, ReadEntryFields
      <4>2. readData[readEvents[i].pipe] = <<>>
        BY <1>1, <2>2 DEF ReadsInv
      <4> QED
        BY <4>1, <4>2, <2>2, <1>1, <1>2
    <3> QED
      BY <3>1, <2>1, <2>2, <1>1, <1>2, <1>3
  <2> QED
    BY <1>1, <1>4, <2>6, <2>7, <2>8 DEF ReadsInv
<1> QED
  BY <1>5, <1>6

\* Firing one READ event.
LEMMA FireReadReads ==
  ASSUME PipeTypeOK, ReadsInv, FireRead
  PROVE  ReadsInv'
<1> DEFINE p == Head(readEvents).pipe
           glob == Head(readEvents).glob
<1>1. /\ pc = "fireReads" /\ readEvents # <<>>
      /\ delivered' = [delivered EXCEPT ![p] = @ \o glob]
      /\ readEvents' = Tail(readEvents)
      /\ UNCHANGED <<pc, readData, readQueue, written>>
  BY DEF FireRead, queueVars, askedVars
<1>2. readEvents \in Seq(ReadEntry) /\ delivered \in [Pipes -> Seq(Blobs)]
  BY DEF PipeTypeOK
<1>3. /\ Head(readEvents) = readEvents[1] /\ 1 \in DOMAIN readEvents
      /\ DOMAIN readEvents = 1 .. Len(readEvents) /\ Len(readEvents) \in Nat
      /\ DOMAIN readEvents' = 1 .. Len(readEvents) - 1
      /\ \A i \in DOMAIN readEvents' : readEvents'[i] = readEvents[i + 1]
  BY <1>1, <1>2, TailFacts
<1>4. p \in Pipes /\ p = readEvents[1].pipe /\ glob = readEvents[1].glob
  BY <1>2, <1>3, ElementType, ReadEntryFields
<1> HIDE DEF p, glob
<1>5. \A i, j \in DOMAIN readEvents' : readEvents'[i].pipe = readEvents'[j].pipe => i = j
  BY <1>3 DEF ReadsInv
<1>6. \A i \in DOMAIN readEvents' : readEvents'[i].pipe # p
  BY <1>3, <1>4 DEF ReadsInv
<1>7. DataInOrder'
  <2> SUFFICES ASSUME NEW q \in Pipes
               PROVE  /\ Pending(readEvents', q) = {} =>
                            written[q] = delivered'[q] \o readData[q]
                      /\ \A i \in Pending(readEvents', q) :
                            written[q] = delivered'[q] \o readEvents'[i].glob \o readData[q]
    BY <1>1 DEF DataInOrder, Pending
  <2>1. CASE q = p
    <3>1. Pending(readEvents', p) = {}
      BY <1>6 DEF Pending
    <3>2. 1 \in Pending(readEvents, p)
      BY <1>3, <1>4 DEF Pending
    <3>3. written[p] = delivered[p] \o glob \o readData[p]
      BY <3>2, <1>4 DEF ReadsInv, DataInOrder
    <3>4. delivered'[p] = delivered[p] \o glob
      BY <1>1, <1>2, <1>4
    <3> QED
      BY <2>1, <3>1, <3>3, <3>4
  <2>2. CASE q # p
    <3>1. delivered'[q] = delivered[q]
      BY <2>2, <1>1, <1>2
    <3>2. ASSUME Pending(readEvents', q) = {} PROVE Pending(readEvents, q) = {}
      <4>1. ASSUME NEW i \in Pending(readEvents, q) PROVE FALSE
        <5>1. i \in 2 .. Len(readEvents) /\ readEvents[i].pipe = q
          BY <2>2, <1>3, <1>4 DEF Pending
        <5>2. i - 1 \in Pending(readEvents', q)
          BY <5>1, <1>3 DEF Pending
        <5> QED
          BY <5>2, <3>2
      <4> QED
        BY <4>1
    <3>3. ASSUME NEW i \in Pending(readEvents', q)
          PROVE  i + 1 \in Pending(readEvents, q) /\ readEvents'[i] = readEvents[i + 1]
      BY <1>3 DEF Pending
    <3>4. /\ Pending(readEvents, q) = {} => written[q] = delivered[q] \o readData[q]
          /\ \A i \in Pending(readEvents, q) :
                written[q] = delivered[q] \o readEvents[i].glob \o readData[q]
      BY DEF ReadsInv, DataInOrder
    <3>5. ASSUME NEW i \in Pending(readEvents', q)
          PROVE  written[q] = delivered'[q] \o readEvents'[i].glob \o readData[q]
      BY <3>1, <3>3, <3>4
    <3> QED
      BY <3>1, <3>2, <3>4, <3>5
  <2> QED
    BY <2>1, <2>2
<1> QED
  BY <1>1, <1>5, <1>7 DEF ReadsInv

\* A step that moves the loop without touching what ReadsInv is about.
LEMMA MoveReads ==
  ASSUME ReadsInv, UNCHANGED <<readData, readQueue, readEvents, written, delivered>>,
         pc' \notin {"reads", "fireReads"} => readEvents = <<>>,
         pc' = "reads" => pc = "reads" \/ readEvents = <<>>
  PROVE  ReadsInv'
<1>1. DataInOrder'
  BY DEF ReadsInv, DataInOrder, Pending
<1>2. ASSUME pc' = "reads" PROVE \A i \in DOMAIN readEvents : readData[readEvents[i].pipe] = <<>>
  <2>1. CASE pc = "reads"
    BY <2>1 DEF ReadsInv
  <2>2. CASE readEvents = <<>>
    BY <2>2
  <2> QED
    BY <1>2, <2>1, <2>2
<1> QED
  BY <1>1, <1>2 DEF ReadsInv

\* Every step of the loop preserves ReadsInv.
LEMMA LoopReads ==
  ASSUME PipeTypeOK, ReadsInv, FireEvents
  PROVE  ReadsInv'
<1> USE DEF callVars, queueVars, loopVars, askedVars, firedVars, Leave, LoopOrder
<1>1. CASE CollectOthers
  BY <1>1, MoveReads DEF CollectOthers, ReadsInv
<1>2. CASE CollectCloses
  BY <1>2, MoveReads DEF CollectCloses, ReadsInv
<1>3. CASE LockReads
  BY <1>3, MoveReads DEF LockReads, ReadsInv
<1>4. CASE UnlockReads
  BY <1>4, MoveReads DEF UnlockReads, ReadsInv
<1>5. CASE ReadsFired
  BY <1>5, MoveReads DEF ReadsFired, ReadsInv
<1>6. CASE FireClose
  BY <1>6, MoveReads DEF FireClose, ReadsInv
<1>7. CASE ClosesFired
  BY <1>7, MoveReads DEF ClosesFired, ReadsInv
<1>8. CASE FireOther
  BY <1>8, MoveReads DEF FireOther, ReadsInv
<1>9. CASE OthersFired
  BY <1>9, MoveReads DEF OthersFired, ReadsInv
<1> QED
  BY <1>1, <1>2, <1>3, <1>4, <1>5, <1>6, <1>7, <1>8, <1>9, CollectReadReads, FireReadReads
  DEF FireEvents, Collect, Fire

-----------------------------------------------------------------------------
(* What a step of the program's threads can change.                        *)

\* A step that is not the loop's queues one event, or changes nothing that
\* the invariants are about.
QueueStep ==
  /\ UNCHANGED <<loopVars, firedVars>>
  /\ \/ \E p \in Pipes, b \in Blobs : QueueRead(p, b)
     \/ \E p \in Pipes : QueueClose(p)
     \/ \E e \in Others : /\ otherEvents' = Append(otherEvents, OtherStamp(e))
                         /\ UNCHANGED <<readData, readQueue, closeQueue, askedVars>>
     \/ UNCHANGED <<queueVars, askedVars>>

LEMMA StepCases ==
  ASSUME PipeTypeOK, [PipeNext]_pipeVars
  PROVE  QueueStep \/ FireEvents
<1>1. ASSUME NEW p \in Pipes, NEW what \in Blobs \cup {CloseCall},
             QueueFor(p, what), UNCHANGED <<loopVars, firedVars>>
      PROVE  QueueStep
  BY <1>1 DEF QueueStep, QueueFor
<1>2. ASSUME NEW t \in Threads, NEW p \in Pipes, NEW what \in Blobs \cup {CloseCall},
             Enter(t, p, what)
      PROVE  QueueStep
  BY <1>1, <1>2 DEF Enter
<1>3. ASSUME NEW t \in Threads, EnterAttached(t) PROVE QueueStep
  <2>1. todo[t] \in Seq(Task) /\ todo[t] # <<>> /\ carried[t] \in Blobs \cup {CloseCall}
    BY <1>3 DEF PipeTypeOK, EnterAttached, Idle
  <2>2. Head(todo[t]).pipe \in Pipes
    BY <2>1, TailFacts, TaskPipe
  <2>3. QueueFor(Head(todo[t]).pipe, carried[t]) /\ UNCHANGED <<loopVars, firedVars>>
    BY <1>3 DEF EnterAttached
  <2> QED
    BY <2>1, <2>2, <2>3, <1>1
<1>4. ASSUME NEW t \in Threads, Forward(t) \/ Unlock(t) \/ Erase(t) PROVE QueueStep
  BY <1>4 DEF QueueStep, Forward, Unlock, Erase
<1>5. ASSUME NEW t \in Threads, NEW p \in Pipes, NEW q \in Pipes,
             Attach(p, q) \/ Detach(t, p, q)
      PROVE  QueueStep
  BY <1>5 DEF QueueStep, Attach, Detach
<1>6. ASSUME NEW p \in Pipes, NEW q \in Pipes, Attach(p, q) PROVE QueueStep
  BY <1>6 DEF QueueStep, Attach
<1>7. ASSUME NEW e \in Others, FireEventAsynchronously(e) PROVE QueueStep
  BY <1>7 DEF QueueStep, FireEventAsynchronously
<1>8. CASE UNCHANGED pipeVars
  BY <1>8 DEF QueueStep, pipeVars, callVars
<1> QED
  BY <1>2, <1>3, <1>4, <1>5, <1>6, <1>7, <1>8 DEF PipeNext, Request, CallStep

LEMMA QueueReads == PipeTypeOK /\ ReadsInv /\ QueueStep => ReadsInv'
<1> SUFFICES ASSUME PipeTypeOK, ReadsInv, QueueStep PROVE ReadsInv'
  OBVIOUS
<1>1. CASE UNCHANGED <<readData, readQueue, written>>
  BY <1>1, MoveReads DEF QueueStep, loopVars, firedVars, ReadsInv
<1>2. ASSUME NEW p \in Pipes, NEW b \in Blobs, QueueRead(p, b) PROVE ReadsInv'
  BY <1>2, QueueReadReads DEF QueueStep
<1> QED
  BY <1>1, <1>2 DEF QueueStep, QueueClose, queueVars, askedVars

LEMMA StepReads == PipeTypeOK /\ ReadsInv /\ [PipeNext]_pipeVars => ReadsInv'
BY StepCases, QueueReads, LoopReads

LEMMA InitReads == Unused => ReadsInv
<1> SUFFICES ASSUME Unused PROVE ReadsInv
  OBVIOUS
<1>1. DataInOrder
  <2>1. <<>> \o <<>> = <<>>
    BY ConcatEmpty
  <2>2. \A p \in Pipes : Pending(readEvents, p) = {} /\ written[p] = <<>>
                         /\ delivered[p] = <<>> /\ readData[p] = <<>>
    BY NonePending DEF Unused
  <2> QED
    BY <2>1, <2>2 DEF DataInOrder
<1> QED
  BY <1>1 DEF Unused, ReadsInv

\* What a pipe's listeners read is what was written to it, in that order,
\* whatever the threads do: the globs of FireEvents lose nothing.
THEOREM ReadsInOrder == PipeSpec => []DataInOrder
<1>1. PipeInit => ReadsInv
  BY InitReads DEF PipeInit
<1>2. PipeTypeOK /\ ReadsInv /\ [PipeNext]_pipeVars => ReadsInv'
  BY StepReads
<1>3. ReadsInv => DataInOrder
  BY DEF ReadsInv
<1> QED
  BY <1>1, <1>2, <1>3, PipeTypeCorrect, PTL DEF PipeSpec

-----------------------------------------------------------------------------
(* CLOSE events come after the data.                                       *)

LEMMA CloseEntryFields ==
  \A e \in CloseEntry : e.pipe \in Pipes /\ e.nth \in Nat /\ e.after \in Nat
BY DEF CloseEntry

\* Writing to a pipe lengthens written and readData together.
LEMMA QueueReadLengths ==
  ASSUME PipeTypeOK, NEW p \in Pipes, NEW b \in Blobs, QueueRead(p, b), NEW q \in Pipes
  PROVE  /\ Len(written[q]) \in Nat /\ Len(written'[q]) \in Nat
         /\ Len(written[q]) <= Len(written'[q])
         /\ Collected(q)' = Collected(q)
<1>1. /\ written[q] \in Seq(Blobs) /\ readData[q] \in Seq(Blobs)
      /\ written[p] \in Seq(Blobs) /\ readData[p] \in Seq(Blobs)
  BY DEF PipeTypeOK
<1>2. CASE q = p
  <2>1. written'[q] = Append(written[q], b) /\ readData'[q] = Append(readData[q], b)
    BY <1>2 DEF PipeTypeOK, QueueRead
  <2>2. Len(written'[q]) = Len(written[q]) + 1 /\ Len(readData'[q]) = Len(readData[q]) + 1
    BY <1>1, <2>1, AppendFacts
  <2> QED
    BY <1>1, <2>2 DEF Collected
<1>3. CASE q # p
  <2>1. written'[q] = written[q] /\ readData'[q] = readData[q]
    BY <1>3 DEF PipeTypeOK, QueueRead
  <2> QED
    BY <1>1, <2>1 DEF Collected
<1> QED
  BY <1>2, <1>3

LEMMA QueueCloses == PipeTypeOK /\ ClosesInv /\ QueueStep => ClosesInv'
<1> SUFFICES ASSUME PipeTypeOK, ClosesInv, QueueStep PROVE ClosesInv'
  OBVIOUS
<1>0. /\ UNCHANGED <<pc, closeEvents>>
      /\ closeQueue \in Seq(CloseEntry) /\ closeEvents \in Seq(CloseEntry)
  BY DEF QueueStep, loopVars, PipeTypeOK
<1>1. ASSUME NEW p \in Pipes, NEW b \in Blobs, QueueRead(p, b) PROVE ClosesInv'
  <2>1. closeQueue' = closeQueue
    BY <1>1 DEF QueueRead
  <2>2. \A i \in DOMAIN closeQueue : closeQueue[i].pipe \in Pipes /\ closeQueue[i].after \in Nat
    BY <1>0, ElementType, CloseEntryFields
  <2>3. \A i \in DOMAIN closeEvents : closeEvents[i].pipe \in Pipes /\ closeEvents[i].after \in Nat
    BY <1>0, ElementType, CloseEntryFields
  <2>4. \A q \in Pipes : /\ Len(written[q]) \in Nat /\ Len(written'[q]) \in Nat
                         /\ Len(written[q]) <= Len(written'[q])
                         /\ Collected(q)' = Collected(q)
    BY <1>1, QueueReadLengths
  <2>5. \A i \in DOMAIN closeQueue : closeQueue[i].after <= Len(written'[closeQueue[i].pipe])
    BY <2>2, <2>4 DEF ClosesInv
  <2>6. \A i \in DOMAIN closeEvents :
          /\ closeEvents[i].after <= Len(written'[closeEvents[i].pipe])
          /\ Collected(closeEvents[i].pipe)' = Collected(closeEvents[i].pipe)
    BY <2>3, <2>4, <1>0 DEF ClosesInv
  <2> QED
    BY <1>0, <2>1, <2>5, <2>6 DEF ClosesInv
<1>2. ASSUME NEW p \in Pipes, QueueClose(p) PROVE ClosesInv'
  <2> DEFINE e == [pipe |-> p, nth |-> closesAsked[p] + 1, after |-> Len(written[p])]
  <2>1. UNCHANGED <<written, readData>> /\ closeQueue' = Append(closeQueue, e)
    BY <1>2 DEF QueueClose
  <2>2. e \in CloseEntry /\ e.pipe = p /\ e.after = Len(written[p]) /\ Len(written[p]) \in Nat
    BY DEF CloseEntry, PipeTypeOK
  <2> HIDE DEF e
  <2>3. ASSUME NEW i \in DOMAIN closeQueue'
        PROVE  closeQueue'[i].after <= Len(written[closeQueue'[i].pipe])
    <3>1. i \in 1 .. Len(closeQueue) + 1
      BY <2>1, <2>2, <1>0, AppendFacts
    <3>2. CASE i = Len(closeQueue) + 1
      BY <3>2, <2>1, <2>2, <1>0, AppendFacts
    <3>3. CASE i \in 1 .. Len(closeQueue)
      BY <3>3, <2>1, <2>2, <1>0, AppendFacts DEF ClosesInv
    <3> QED
      BY <3>1, <3>2, <3>3, <1>0
  <2> QED
    BY <1>0, <2>1, <2>3 DEF ClosesInv, Collected
<1>3. CASE UNCHANGED <<readData, closeQueue, written>>
  BY <1>0, <1>3 DEF ClosesInv, Collected
<1> QED
  BY <1>1, <1>2, <1>3 DEF QueueStep, queueVars, askedVars

\* Once pipesNeedingReadEvents is empty, all that was written is collected.
LEMMA AllCollected ==
  ASSUME PipeTypeOK, ReadsInv, readQueue = <<>>, NEW p \in Pipes
  PROVE  Collected(p) = Len(written[p]) /\ Len(written[p]) \in Nat
<1>1. readData[p] = <<>>
  BY DEF ReadsInv
<1> QED
  BY <1>1 DEF Collected, PipeTypeOK

LEMMA LoopCloses == PipeTypeOK /\ ReadsInv /\ ClosesInv /\ FireEvents => ClosesInv'
<1> SUFFICES ASSUME PipeTypeOK, ReadsInv, ClosesInv, FireEvents PROVE ClosesInv'
  OBVIOUS
<1> USE DEF queueVars, askedVars, firedVars, Leave, LoopOrder
<1>0. closeQueue \in Seq(CloseEntry) /\ closeEvents \in Seq(CloseEntry)
  BY DEF PipeTypeOK
<1>1. CASE CollectOthers
  BY <1>1 DEF CollectOthers, ClosesInv, Collected
<1>2. CASE CollectCloses
  BY <1>2 DEF CollectCloses, ClosesInv, Collected
<1>3. CASE LockReads
  BY <1>3 DEF LockReads, ClosesInv, Collected
<1>4. CASE CollectRead
  BY <1>4 DEF CollectRead, ClosesInv
<1>5. CASE UnlockReads
  <2>1. \A i \in DOMAIN closeEvents :
          Collected(closeEvents[i].pipe) = Len(written[closeEvents[i].pipe])
    BY <1>0, <1>5, AllCollected, ElementType, CloseEntryFields DEF UnlockReads
  <2> QED
    BY <1>5, <2>1 DEF UnlockReads, ClosesInv, Collected
<1>6. CASE FireRead
  BY <1>6 DEF FireRead, ClosesInv, Collected
<1>7. CASE ReadsFired
  BY <1>7 DEF ReadsFired, ClosesInv, Collected
<1>8. CASE FireClose
  <2>1. \A i \in DOMAIN closeEvents' : i + 1 \in DOMAIN closeEvents
                                    /\ closeEvents'[i] = closeEvents[i + 1]
    BY <1>0, <1>8, TailFacts DEF FireClose
  <2>2. UNCHANGED <<pc, closeQueue, written, readData>> /\ pc = "fireCloses"
    BY <1>8 DEF FireClose
  <2> QED
    BY <2>1, <2>2 DEF ClosesInv, Collected
<1>9. CASE ClosesFired
  BY <1>9 DEF ClosesFired, ClosesInv, Collected
<1>10. CASE FireOther
  BY <1>10 DEF FireOther, ClosesInv, Collected
<1>11. CASE OthersFired
  BY <1>11 DEF OthersFired, ClosesInv, Collected
<1> QED
  BY <1>1, <1>2, <1>3, <1>4, <1>5, <1>6, <1>7, <1>8, <1>9, <1>10, <1>11
  DEF FireEvents, Collect, Fire

LEMMA StepCloses ==
  PipeTypeOK /\ ReadsInv /\ ClosesInv /\ [PipeNext]_pipeVars => ClosesInv'
BY StepCases, QueueCloses, LoopCloses

\* When no READ is waiting to be fired, the listeners have read all that was
\* collected.
LEMMA DeliveredIsCollected ==
  ASSUME PipeTypeOK, ReadsInv, readEvents = <<>>, NEW p \in Pipes
  PROVE  Len(delivered[p]) = Collected(p)
<1>1. written[p] = delivered[p] \o readData[p]
  BY NonePending DEF ReadsInv, DataInOrder
<1>2. delivered[p] \in Seq(Blobs) /\ readData[p] \in Seq(Blobs)
  BY DEF PipeTypeOK
<1>3. Len(written[p]) = Len(delivered[p]) + Len(readData[p])
  BY <1>1, <1>2
<1> QED
  BY <1>2, <1>3 DEF Collected

\* The events of a round are fired when its READs have been.
LEMMA ReadBeforeClose ==
  ASSUME PipeTypeOK, ReadsInv, ClosesInv
  PROVE  CloseAfterData
<1> SUFFICES ASSUME pc = "fireCloses", NEW i \in DOMAIN closeEvents
             PROVE  closeEvents[i].after <= Len(delivered[closeEvents[i].pipe])
  BY DEF CloseAfterData
<1>1. readEvents = <<>>
  BY DEF ReadsInv
<1>2. closeEvents[i].pipe \in Pipes
  BY ElementType, CloseEntryFields DEF PipeTypeOK
<1>3. Len(delivered[closeEvents[i].pipe]) = Collected(closeEvents[i].pipe)
  BY <1>1, <1>2, DeliveredIsCollected
<1> QED
  BY <1>3 DEF ClosesInv

\* No CLOSE overtakes a READ of what was written before Close was called.
THEOREM CloseComesAfterData == PipeSpec => []CloseAfterData
<1>1. PipeInit => ReadsInv /\ ClosesInv
  BY InitReads DEF PipeInit, Unused, ClosesInv
<1>2. PipeTypeOK /\ ReadsInv /\ ClosesInv /\ [PipeNext]_pipeVars => ReadsInv' /\ ClosesInv'
  BY StepReads, StepCloses
<1>3. PipeTypeOK /\ ReadsInv /\ ClosesInv => CloseAfterData
  BY ReadBeforeClose
<1> QED
  BY <1>1, <1>2, <1>3, PipeTypeCorrect, PTL DEF PipeSpec

-----------------------------------------------------------------------------
(* Other events (EXIT) come after everything queued before them.           *)

LEMMA OtherEntryFields ==
  \A e \in OtherEntry, p \in Pipes : e.after[p] \in Nat /\ e.closes[p] \in Nat
BY DEF OtherEntry

\* A Close that waits in a sequence still waits when an entry is appended.
LEMMA WaitingAppend ==
  ASSUME NEW q \in Seq(CloseEntry), NEW e \in CloseEntry, NEW p, NEW k, Waiting(q, p, k)
  PROVE  Waiting(Append(q, e), p, k)
<1>1. PICK i \in DOMAIN q : q[i].pipe = p /\ q[i].nth = k
  BY DEF Waiting
<1>2. i \in DOMAIN Append(q, e) /\ Append(q, e)[i] = q[i]
  BY <1>1, AppendFacts
<1> QED
  BY <1>1, <1>2 DEF Waiting

\* Stamps stay in the past when the history grows.
LEMMA StampsGrow ==
  ASSUME PipeTypeOK, OthersInv, UNCHANGED <<otherEvents, otherCopy>>,
         \A p \in Pipes : /\ Len(written'[p]) \in Nat /\ Len(written[p]) <= Len(written'[p])
                          /\ closesAsked'[p] \in Nat /\ closesAsked[p] <= closesAsked'[p]
  PROVE  StampsPast(otherEvents)' /\ StampsPast(otherCopy)'
<1>1. ASSUME NEW q \in Seq(OtherEntry), StampsPast(q), NEW i \in DOMAIN q, NEW p \in Pipes
      PROVE  q[i].after[p] <= Len(written'[p]) /\ q[i].closes[p] <= closesAsked'[p]
  <2>1. q[i].after[p] \in Nat /\ q[i].closes[p] \in Nat
    BY <1>1, ElementType, OtherEntryFields
  <2>2. Len(written[p]) \in Nat /\ closesAsked[p] \in Nat
    BY DEF PipeTypeOK
  <2>3. q[i].after[p] <= Len(written[p]) /\ q[i].closes[p] <= closesAsked[p]
    BY <1>1 DEF StampsPast
  <2> QED
    BY <2>1, <2>2, <2>3
<1>2. \A i \in DOMAIN otherEvents, p \in Pipes :
        /\ otherEvents[i].after[p] <= Len(written'[p])
        /\ otherEvents[i].closes[p] <= closesAsked'[p]
  BY <1>1 DEF PipeTypeOK, OthersInv
<1>3. \A i \in DOMAIN otherCopy, p \in Pipes :
        /\ otherCopy[i].after[p] <= Len(written'[p])
        /\ otherCopy[i].closes[p] <= closesAsked'[p]
  BY <1>1 DEF PipeTypeOK, OthersInv
<1> QED
  BY <1>2, <1>3 DEF StampsPast

\* Nothing was asked, queued, collected or fired.
LEMMA AccountedStays ==
  ASSUME OthersInv, UNCHANGED <<closeQueue, closeEvents, closesAsked, closesFired>>
  PROVE  ClosesAccounted'
BY DEF OthersInv, ClosesAccounted, Waiting

LEMMA QueueOthers == PipeTypeOK /\ OthersInv /\ QueueStep => OthersInv'
<1> SUFFICES ASSUME PipeTypeOK, OthersInv, QueueStep PROVE OthersInv'
  OBVIOUS
<1>0. /\ UNCHANGED <<pc, closeEvents, otherCopy, closesFired>>
      /\ otherEvents \in Seq(OtherEntry) /\ otherCopy \in Seq(OtherEntry)
      /\ closeQueue \in Seq(CloseEntry) /\ closesAsked \in [Pipes -> Nat]
      /\ \A q \in Pipes : Len(written[q]) \in Nat
  BY DEF QueueStep, loopVars, firedVars, PipeTypeOK
<1>c. CopyCoversCloses'
  BY <1>0 DEF OthersInv, CopyCoversCloses, Waiting
<1>p. (pc = "others" => otherCopy = <<>>)'
  BY <1>0 DEF OthersInv
<1>1. ASSUME NEW p \in Pipes, NEW b \in Blobs, QueueRead(p, b) PROVE OthersInv'
  <2>1. UNCHANGED <<closeQueue, otherEvents, closesAsked>>
    BY <1>1 DEF QueueRead
  <2>2. \A q \in Pipes : /\ Len(written'[q]) \in Nat /\ Len(written[q]) <= Len(written'[q])
                         /\ Collected(q)' = Collected(q)
    BY <1>1, QueueReadLengths
  <2>3. StampsPast(otherEvents)' /\ StampsPast(otherCopy)'
    <3>1. \A q \in Pipes : closesAsked'[q] \in Nat /\ closesAsked[q] <= closesAsked'[q]
      BY <1>0, <2>1
    <3> QED
      BY <1>0, <2>1, <2>2, <3>1, StampsGrow
  <2>4. ClosesAccounted'
    BY <1>0, <2>1, AccountedStays
  <2>5. CopyCoversData'
    BY <1>0, <2>2 DEF OthersInv, CopyCoversData
  <2> QED
    BY <1>c, <1>p, <2>3, <2>4, <2>5 DEF OthersInv
<1>2. ASSUME NEW p \in Pipes, QueueClose(p) PROVE OthersInv'
  <2> DEFINE e == [pipe |-> p, nth |-> closesAsked[p] + 1, after |-> Len(written[p])]
  <2>1. /\ UNCHANGED <<written, readData, otherEvents>> /\ closeQueue' = Append(closeQueue, e)
        /\ closesAsked' = [closesAsked EXCEPT ![p] = @ + 1]
    BY <1>2 DEF QueueClose
  <2>2. e \in CloseEntry /\ e.pipe = p /\ e.nth = closesAsked[p] + 1
    BY <1>0 DEF CloseEntry
  <2> HIDE DEF e
  <2>3. Waiting(closeQueue', p, closesAsked[p] + 1)
    <3>1. /\ Len(closeQueue) + 1 \in DOMAIN closeQueue'
          /\ closeQueue'[Len(closeQueue) + 1] = e
      BY <2>1, <2>2, <1>0, AppendFacts
    <3> QED
      BY <2>2, <3>1 DEF Waiting
  <2>4. ASSUME NEW q \in Pipes, NEW k \in 1 .. closesAsked'[q]
        PROVE  k \in closesFired[q] \/ Waiting(closeEvents, q, k) \/ Waiting(closeQueue', q, k)
    <3>1. CASE k \in 1 .. closesAsked[q]
      BY <3>1, <2>1, <2>2, <1>0, WaitingAppend DEF OthersInv, ClosesAccounted
    <3>2. CASE q = p /\ k = closesAsked[p] + 1
      BY <3>2, <2>3
    <3> QED
      BY <3>1, <3>2, <2>1, <1>0
  <2>5. ClosesAccounted'
    BY <2>4, <1>0 DEF ClosesAccounted, Waiting
  <2>6. \A q \in Pipes : closesAsked'[q] \in Nat /\ closesAsked[q] <= closesAsked'[q]
    BY <2>1, <1>0
  <2>7. StampsPast(otherEvents)' /\ StampsPast(otherCopy)'
    <3>1. \A q \in Pipes : Len(written'[q]) \in Nat /\ Len(written[q]) <= Len(written'[q])
      BY <1>0, <2>1
    <3> QED
      BY <1>0, <2>1, <2>6, <3>1, StampsGrow
  <2>8. CopyCoversData'
    BY <1>0, <2>1 DEF OthersInv, CopyCoversData, Collected
  <2> QED
    BY <1>c, <1>p, <2>5, <2>7, <2>8 DEF OthersInv
<1>3. ASSUME NEW ev \in Others, otherEvents' = Append(otherEvents, OtherStamp(ev)),
             UNCHANGED <<readData, readQueue, closeQueue, askedVars>>
      PROVE  OthersInv'
  <2> DEFINE e == OtherStamp(ev)
  <2>1. /\ e \in OtherEntry
        /\ \A q \in Pipes : e.after[q] = Len(written[q]) /\ e.closes[q] = closesAsked[q]
    BY <1>0 DEF OtherEntry, OtherStamp
  <2>2. UNCHANGED <<written, readData, closeQueue, closesAsked>>
    BY <1>3 DEF askedVars
  <2> HIDE DEF e
  <2>3. otherEvents' = Append(otherEvents, e)
    BY <1>3 DEF e
  <2>4. ASSUME NEW i \in DOMAIN otherEvents', NEW q \in Pipes
        PROVE  /\ otherEvents'[i].after[q] <= Len(written[q])
               /\ otherEvents'[i].closes[q] <= closesAsked[q]
    <3>1. i \in 1 .. Len(otherEvents) + 1
      BY <2>1, <2>3, <1>0, AppendFacts
    <3>2. CASE i = Len(otherEvents) + 1
      BY <3>2, <2>1, <2>3, <1>0, AppendFacts
    <3>3. CASE i \in 1 .. Len(otherEvents)
      BY <3>3, <2>1, <2>3, <1>0, AppendFacts DEF OthersInv, StampsPast
    <3> QED
      BY <3>1, <3>2, <3>3, <1>0
  <2>5. StampsPast(otherEvents)'
    BY <2>2, <2>4 DEF StampsPast
  <2>6. StampsPast(otherCopy)' /\ ClosesAccounted' /\ CopyCoversData'
    BY <1>0, <2>2, AccountedStays DEF OthersInv, StampsPast, CopyCoversData, Collected
  <2> QED
    BY <1>c, <1>p, <2>5, <2>6 DEF OthersInv
<1>4. CASE UNCHANGED <<queueVars, askedVars>>
  <2>1. UNCHANGED <<readData, closeQueue, otherEvents, written, closesAsked>>
    BY <1>4 DEF queueVars, askedVars
  <2>2. StampsPast(otherEvents)' /\ StampsPast(otherCopy)'
    BY <1>0, <2>1 DEF OthersInv, StampsPast
  <2>3. ClosesAccounted' /\ CopyCoversData'
    BY <1>0, <2>1, AccountedStays DEF OthersInv, CopyCoversData, Collected
  <2> QED
    BY <1>c, <1>p, <2>2, <2>3 DEF OthersInv
<1> QED
  BY <1>1, <1>2, <1>3, <1>4 DEF QueueStep

\* A loop step that collects and fires neither CLOSEs nor others, and does not
\* enter the firing half.
LEMMA MoveOthers ==
  ASSUME OthersInv,
         UNCHANGED <<closeQueue, otherEvents, closeEvents, otherCopy, written,
                     closesAsked, closesFired>>,
         pc' = "others" => otherCopy = <<>>,
         pc \in {"others", "closes"} => pc' \in {"others", "closes"} \/ otherCopy = <<>>,
         pc' \in {"fireReads", "fireCloses", "fireOthers"} =>
           UNCHANGED readData /\ pc \in {"fireReads", "fireCloses", "fireOthers"}
  PROVE  OthersInv'
<1>1. StampsPast(otherEvents)' /\ StampsPast(otherCopy)' /\ ClosesAccounted'
  BY DEF OthersInv, StampsPast, ClosesAccounted, Waiting
<1>2. CopyCoversData'
  BY DEF OthersInv, CopyCoversData, Collected
<1>3. CopyCoversCloses'
  BY DEF OthersInv, CopyCoversCloses, Waiting
<1> QED
  BY <1>1, <1>2, <1>3 DEF OthersInv

\* CollectCloses: what other events wait for is now among the collected CLOSEs.
LEMMA CollectClosesOthers ==
  ASSUME PipeTypeOK, ClosesInv, OthersInv, CollectCloses
  PROVE  OthersInv'
<1>1. /\ closeEvents' = closeQueue /\ closeQueue' = <<>> /\ pc' = "lockReads"
      /\ UNCHANGED <<otherEvents, otherCopy, closesAsked, closesFired, written, readData>>
      /\ closeEvents = <<>>
  BY DEF CollectCloses, Leave, LoopOrder, askedVars, firedVars, ClosesInv
<1>2. \A p \in Pipes : \A k \in 1 .. closesAsked[p] :
        k \in closesFired[p] \/ Waiting(closeEvents', p, k)
  BY <1>1 DEF OthersInv, ClosesAccounted, Waiting
<1>3. ASSUME NEW i \in DOMAIN otherCopy, NEW p \in Pipes,
             NEW k \in 1 .. otherCopy[i].closes[p]
      PROVE  k \in closesFired[p] \/ Waiting(closeEvents', p, k)
  <2>1. otherCopy[i].closes[p] \in Nat /\ closesAsked[p] \in Nat
    BY ElementType, OtherEntryFields DEF PipeTypeOK
  <2>2. otherCopy[i].closes[p] <= closesAsked[p]
    BY DEF OthersInv, StampsPast
  <2>3. k \in 1 .. closesAsked[p]
    BY <2>1, <2>2
  <2> QED
    BY <1>2, <2>3
<1>4. StampsPast(otherEvents)' /\ StampsPast(otherCopy)'
  BY <1>1 DEF OthersInv, StampsPast
<1>5. ClosesAccounted'
  BY <1>1, <1>2 DEF ClosesAccounted
<1>6. CopyCoversCloses' /\ CopyCoversData'
  BY <1>1, <1>3 DEF CopyCoversCloses, CopyCoversData
<1> QED
  BY <1>1, <1>4, <1>5, <1>6 DEF OthersInv

\* FireClose: a CLOSE that an event waits for is fired, or still to be fired.
LEMMA FireCloseOthers ==
  ASSUME PipeTypeOK, OthersInv, FireClose
  PROVE  OthersInv'
<1> DEFINE h == Head(closeEvents)
<1>0. closeEvents \in Seq(CloseEntry) /\ closesAsked \in [Pipes -> Nat]
      /\ closesFired \in [Pipes -> SUBSET Nat] /\ otherCopy \in Seq(OtherEntry)
  BY DEF PipeTypeOK
<1>1. /\ pc = "fireCloses" /\ closeEvents # <<>>
      /\ closesFired' = [closesFired EXCEPT ![h.pipe] = @ \cup {h.nth}]
      /\ closeEvents' = Tail(closeEvents)
      /\ UNCHANGED <<pc, otherEvents, otherCopy, closesAsked, written, readData, closeQueue>>
  BY DEF FireClose, queueVars, askedVars
<1>2. /\ h = closeEvents[1] /\ h.pipe \in Pipes /\ Len(closeEvents) \in Nat
      /\ DOMAIN closeEvents = 1 .. Len(closeEvents)
      /\ DOMAIN closeEvents' = 1 .. Len(closeEvents) - 1
      /\ \A i \in DOMAIN closeEvents' : closeEvents'[i] = closeEvents[i + 1]
  BY <1>1, <1>0, TailFacts, CloseEntryFields
<1> HIDE DEF h
<1>3. ASSUME NEW p \in Pipes, NEW k,
             k \in closesFired[p] \/ Waiting(closeEvents, p, k)
      PROVE  k \in closesFired'[p] \/ Waiting(closeEvents', p, k)
  <2>1. CASE k \in closesFired[p]
    BY <2>1, <1>1, <1>2, <1>0
  <2>2. ASSUME NEW i \in DOMAIN closeEvents, closeEvents[i].pipe = p, closeEvents[i].nth = k
        PROVE  k \in closesFired'[p] \/ Waiting(closeEvents', p, k)
    <3>1. CASE i = 1
      BY <3>1, <2>2, <1>1, <1>2, <1>0
    <3>2. CASE i # 1
      <4>1. i - 1 \in DOMAIN closeEvents' /\ closeEvents'[i - 1] = closeEvents[i]
        BY <3>2, <1>2
      <4> QED
        BY <4>1, <2>2 DEF Waiting
    <3> QED
      BY <3>1, <3>2
  <2> QED
    BY <1>3, <2>1, <2>2 DEF Waiting
<1>4. ASSUME NEW p \in Pipes, NEW k \in 1 .. closesAsked[p], ~Waiting(closeQueue, p, k)
      PROVE  k \in closesFired'[p] \/ Waiting(closeEvents', p, k)
  <2>1. k \in closesFired[p] \/ Waiting(closeEvents, p, k)
    BY <1>4 DEF OthersInv, ClosesAccounted
  <2> QED
    BY <1>3, <2>1
<1>5. ASSUME NEW i \in DOMAIN otherCopy, NEW p \in Pipes,
             NEW k \in 1 .. otherCopy[i].closes[p]
      PROVE  k \in closesFired'[p] \/ Waiting(closeEvents', p, k)
  <2>1. k \in closesFired[p] \/ Waiting(closeEvents, p, k)
    BY <1>1 DEF OthersInv, CopyCoversCloses
  <2> QED
    BY <1>3, <2>1
<1>6. ClosesAccounted'
  BY <1>1, <1>4 DEF ClosesAccounted, Waiting
<1>7. CopyCoversCloses'
  BY <1>1, <1>5 DEF CopyCoversCloses
<1>8. StampsPast(otherEvents)' /\ StampsPast(otherCopy)' /\ CopyCoversData'
  BY <1>1 DEF OthersInv, StampsPast, CopyCoversData, Collected
<1> QED
  BY <1>1, <1>6, <1>7, <1>8 DEF OthersInv

LEMMA LoopOthers ==
  PipeTypeOK /\ ReadsInv /\ ClosesInv /\ OthersInv /\ FireEvents => OthersInv'
<1> SUFFICES ASSUME PipeTypeOK, ReadsInv, ClosesInv, OthersInv, FireEvents
             PROVE  OthersInv'
  OBVIOUS
<1> USE DEF queueVars, askedVars, firedVars, Leave, LoopOrder
<1>1. CASE CollectOthers
  <2>1. /\ otherCopy' = otherEvents /\ otherEvents' = <<>> /\ pc' = "closes"
        /\ UNCHANGED <<closeQueue, closeEvents, written, closesAsked, closesFired>>
    BY <1>1 DEF CollectOthers
  <2>2. StampsPast(otherEvents)' /\ StampsPast(otherCopy)'
    BY <2>1 DEF OthersInv, StampsPast
  <2>3. ClosesAccounted' /\ CopyCoversData' /\ CopyCoversCloses'
    BY <2>1 DEF OthersInv, ClosesAccounted, CopyCoversData, CopyCoversCloses, Waiting
  <2> QED
    BY <2>1, <2>2, <2>3 DEF OthersInv
<1>3. CASE LockReads
  BY <1>3, MoveOthers DEF LockReads
<1>4. CASE CollectRead
  BY <1>4, MoveOthers DEF CollectRead
<1>5. CASE UnlockReads
  <2>1. \A p \in Pipes : Collected(p) = Len(written[p])
    BY <1>5, AllCollected DEF UnlockReads
  <2>2. /\ pc = "reads" /\ pc' = "fireReads"
        /\ UNCHANGED <<otherEvents, otherCopy, closeQueue, closeEvents, written, readData,
                       closesAsked, closesFired>>
    BY <1>5 DEF UnlockReads
  <2>3. StampsPast(otherEvents)' /\ StampsPast(otherCopy)' /\ ClosesAccounted'
    BY <2>2 DEF OthersInv, StampsPast, ClosesAccounted, Waiting
  <2>4. CopyCoversData'
    BY <2>1, <2>2 DEF OthersInv, StampsPast, CopyCoversData, Collected
  <2>5. CopyCoversCloses'
    BY <2>2 DEF OthersInv, CopyCoversCloses, Waiting
  <2> QED
    BY <2>2, <2>3, <2>4, <2>5 DEF OthersInv
<1>6. CASE FireRead
  BY <1>6, MoveOthers DEF FireRead, OthersInv
<1>7. CASE ReadsFired
  BY <1>7, MoveOthers DEF ReadsFired
<1>9. CASE ClosesFired
  BY <1>9, MoveOthers DEF ClosesFired
<1>10. CASE FireOther
  <2>0. otherCopy \in Seq(OtherEntry)
    BY DEF PipeTypeOK
  <2>1. \A i \in DOMAIN otherCopy' : i + 1 \in DOMAIN otherCopy
                                  /\ otherCopy'[i] = otherCopy[i + 1]
    BY <2>0, <1>10, TailFacts DEF FireOther
  <2>2. UNCHANGED <<pc, closeEvents, closeQueue, closesFired, closesAsked, otherEvents,
                    written, readData>> /\ pc = "fireOthers"
    BY <1>10 DEF FireOther
  <2>3. StampsPast(otherCopy)' /\ CopyCoversData'
    BY <2>1, <2>2 DEF OthersInv, StampsPast, CopyCoversData, Collected
  <2>4. CopyCoversCloses'
    BY <2>1, <2>2 DEF OthersInv, CopyCoversCloses, Waiting
  <2>5. StampsPast(otherEvents)' /\ ClosesAccounted'
    BY <2>2 DEF OthersInv, StampsPast, ClosesAccounted, Waiting
  <2> QED
    BY <2>2, <2>3, <2>4, <2>5 DEF OthersInv
<1>11. CASE OthersFired
  BY <1>11, MoveOthers DEF OthersFired
<1> QED
  BY <1>1, <1>3, <1>4, <1>5, <1>6, <1>7, <1>9, <1>10, <1>11,
     CollectClosesOthers, FireCloseOthers
  DEF FireEvents, Collect, Fire

\* PipeInv is inductive.
LEMMA KindInv == PipeTypeOK /\ PipeInv /\ (QueueStep \/ FireEvents) => PipeInv'
BY QueueReads, LoopReads, QueueCloses, LoopCloses, QueueOthers, LoopOthers DEF PipeInv

LEMMA StepInv == PipeTypeOK /\ PipeInv /\ [PipeNext]_pipeVars => PipeInv'
BY StepCases, KindInv

LEMMA InitInv == Unused => PipeInv
<1> SUFFICES ASSUME Unused PROVE PipeInv
  OBVIOUS
<1>1. ClosesInv
  BY DEF Unused, ClosesInv
<1>2. OthersInv
  BY DEF Unused, OthersInv, ClosesAccounted, StampsPast, CopyCoversData, CopyCoversCloses
<1> QED
  BY <1>1, <1>2, InitReads DEF PipeInv

LEMMA AllBeforeOther ==
  ASSUME PipeTypeOK, PipeInv
  PROVE  OtherAfterAll
<1> SUFFICES ASSUME pc = "fireOthers", NEW i \in DOMAIN otherCopy, NEW p \in Pipes
             PROVE  /\ otherCopy[i].after[p] <= Len(delivered[p])
                    /\ 1 .. otherCopy[i].closes[p] \subseteq closesFired[p]
  BY DEF OtherAfterAll
<1>1. readEvents = <<>> /\ closeEvents = <<>>
  BY DEF PipeInv, ReadsInv, ClosesInv
<1>2. Len(delivered[p]) = Collected(p)
  BY <1>1, DeliveredIsCollected DEF PipeInv
<1>3. \A k : ~Waiting(closeEvents, p, k)
  BY <1>1 DEF Waiting
<1> QED
  BY <1>1, <1>2, <1>3 DEF PipeInv, OthersInv, CopyCoversData, CopyCoversCloses

\* An EXIT, or any event queued with FireEventAsynchronously, is fired after
\* the READs of all that was written, and the CLOSEs of every Close called,
\* before it was queued.
THEOREM OthersComeLast == PipeSpec => []OtherAfterAll
<1>1. PipeTypeOK /\ PipeInv => OtherAfterAll
  BY AllBeforeOther
<1>2. PipeInit => PipeInv
  BY InitInv DEF PipeInit
<1>3. PipeTypeOK /\ PipeInv /\ [PipeNext]_pipeVars => PipeInv'
  BY StepInv
<1> QED
  BY <1>1, <1>2, <1>3, PipeTypeCorrect, PTL DEF PipeSpec
===============================================================================
