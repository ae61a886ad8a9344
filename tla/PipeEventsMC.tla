----------------------------- MODULE PipeEventsMC -----------------------------
(* Bounded instances of PipeEvents for TLC.                                *)
EXTENDS PipeEventsPromise, TLC

CONSTANTS MaxWrites,    \* blobs written, over all pipes
          MaxCloses,    \* calls of Close entered, over all threads
          MaxAttached,  \* objects attached to a pipe at a time
          Links         \* <<p, q>> such that the program attaches q to p

VARIABLES asked,   \* how many blobs were used
          closed,  \* how many calls of Close were entered
          raised   \* the other events that were queued

mcVars == <<pipeVars, asked, closed, raised>>
counters == <<asked, closed, raised>>

MCInit == PipeInit /\ asked = 0 /\ closed = 0 /\ raised = {}

MCWrite(t) ==
  /\ asked < MaxWrites
  /\ \E p \in Pipes : Enter(t, p, asked + 1)
  /\ asked' = asked + 1 /\ UNCHANGED <<closed, raised>>

MCClose(t) ==
  /\ closed < MaxCloses
  /\ \E p \in Pipes : Enter(t, p, CloseCall)
  /\ closed' = closed + 1 /\ UNCHANGED <<asked, raised>>

MCAttach ==
  /\ \E l \in Links : Len(attached[l[1]]) < MaxAttached /\ Attach(l[1], l[2])
  /\ UNCHANGED counters

MCDetach ==
  /\ \E t \in Threads, l \in Links :
       attached[l[1]] # <<>> /\ Detach(t, l[1], l[2])
  /\ UNCHANGED counters

MCOther ==
  /\ \E e \in Others \ raised : FireEventAsynchronously(e) /\ raised' = raised \cup {e}
  /\ UNCHANGED <<asked, closed>>

MCCallStep(t) == CallStep(t) /\ UNCHANGED counters
MCFireEvents == FireEvents /\ UNCHANGED counters

MCNext ==
  \/ \E t \in Threads : MCWrite(t) \/ MCClose(t) \/ MCCallStep(t)
  \/ MCAttach \/ MCDetach \/ MCOther
  \/ MCFireEvents

MCSpec == MCInit /\ [][MCNext]_mcVars
MCFairSpec == MCSpec /\ Fairness

MCBlobs == 1 .. MaxWrites
MCLinks == {<<"out", "user">>}
ThreadSymmetry == Permutations(Threads)
===============================================================================
