----------------------------- MODULE NativePipes -----------------------------
(***************************************************************************)
(* The ends of a Process that touch the operating system: NativePipe       *)
(* (native_pipe.cpp) over a PosixPipe (posix_pipe.cpp).                    *)
(*                                                                         *)
(* A reader (stdout, stderr) has a thread, PollForReads, that takes what   *)
(* the child wrote and calls Write on the pipe itself; a writer (stdin)    *)
(* only queues what is written to it, and its thread, PollForWrites, hands *)
(* the queue to the child.  The thread of a reader is named after its      *)
(* pipe: it is one of the Threads that call pipes.                         *)
(*                                                                         *)
(* A blob is what one read returns.  A blob carries its own order, so the  *)
(* contents of an operating system pipe is the sequence of its blobs.      *)
(***************************************************************************)
EXTENDS PipeEvents

CONSTANTS Outs,   \* native reader pipes
          Ins     \* native writer pipes

ASSUME NativeAssumption ==
  /\ Outs \subseteq Pipes \cap Threads
  /\ Ins \subseteq Pipes
  /\ Outs \cap Ins = {}

VARIABLES
  channel,     \* Outs: what the child wrote and nobody has read yet
  childHolds,  \* Outs, Ins: the child has its end of the pipe open
  polling,     \* Outs, Ins: whether the pipe's thread has started and ended
  fetched,     \* Outs: the blob between RawRead and Pipe::Write
  callback,    \* Outs: readCallback is set (synchronous launch)
  output,      \* processOutput: what the readCallbacks were given
  buffers,     \* Ins: what was written and not yet handed to the child
  closed,      \* Ins: closed
  received,    \* Ins: what was handed to the child
  eof,         \* Ins: the write end was closed
  sent,        \* history, Ins: everything written
  closedAt     \* history, Ins: how much had been written at the first Close
               \* that found PollForWrites still to end

outVars == <<channel, fetched, callback, output>>
inVars == <<buffers, closed, received, eof, sent, closedAt>>
nativeVars == <<outVars, inVars, childHolds, polling>>

-----------------------------------------------------------------------------
(* Calls that reach a native pipe through the pipe it is attached to.      *)

\* Write on a writer pipe: queue, and call nobody.
WriteIn(t) ==
  /\ ~Idle(t) /\ Head(todo[t]).do = "call" /\ carried[t] # CloseCall
  /\ LET p == Head(todo[t]).pipe IN
       /\ p \in Ins
       /\ buffers' = [buffers EXCEPT ![p] = Append(@, carried[t])]
       /\ sent' = [sent EXCEPT ![p] = Append(@, carried[t])]
  /\ todo' = [todo EXCEPT ![t] = Tail(@)]
  /\ UNCHANGED <<attached, holder, carried, queueVars, loopVars, askedVars, firedVars,
                 outVars, closed, received, eof, closedAt, childHolds, polling>>

\* Close on a writer pipe: PollForWrites is told to end, then Pipe::Close.
CloseIn(t) ==
  /\ EnterAttached(t) /\ carried[t] = CloseCall
  /\ LET p == Head(todo[t]).pipe IN
       /\ p \in Ins
       /\ closed' = [closed EXCEPT ![p] = TRUE]
       /\ closedAt' = [closedAt EXCEPT ![p] =
                         IF @ = {} /\ polling[p] # "ended" THEN {Len(sent[p])} ELSE @]
  /\ UNCHANGED <<outVars, buffers, received, eof, sent, childHolds, polling>>

CallPipe(t) ==
  /\ EnterAttached(t) /\ Head(todo[t]).pipe \notin Ins
  /\ UNCHANGED nativeVars

NativeCallStep(t) ==
  \/ WriteIn(t) \/ CloseIn(t) \/ CallPipe(t)
  \/ (Forward(t) \/ Unlock(t) \/ Erase(t)) /\ UNCHANGED nativeVars

-----------------------------------------------------------------------------
(* PollForReads of the reader pipe p.                                      *)

Reading(p) == polling[p] = "on" /\ Idle(p) /\ fetched[p] = <<>>

\* RawRead returns a blob; NativePipe::Write calls the readCallback first.
ReadBlob(p) ==
  /\ Reading(p) /\ channel[p] # <<>>
  /\ fetched' = [fetched EXCEPT ![p] = <<Head(channel[p])>>]
  /\ channel' = [channel EXCEPT ![p] = Tail(@)]
  /\ output' = IF callback[p] THEN Append(output, Head(channel[p])) ELSE output
  /\ UNCHANGED <<callback, inVars, childHolds, polling, pipeVars>>

\* ... and Pipe::Write afterwards.
PassOn(p) ==
  /\ fetched[p] # <<>>
  /\ Enter(p, p, Head(fetched[p]))
  /\ fetched' = [fetched EXCEPT ![p] = <<>>]
  /\ UNCHANGED <<channel, callback, output, inVars, childHolds, polling>>

\* RawRead returns 0: nobody can write any more.
ReadEnd(p) ==
  /\ Reading(p) /\ channel[p] = <<>> /\ ~childHolds[p]
  /\ polling' = [polling EXCEPT ![p] = "ended"]
  /\ UNCHANGED <<outVars, inVars, childHolds, pipeVars>>

PollForReads(p) == ReadBlob(p) \/ PassOn(p) \/ ReadEnd(p)

-----------------------------------------------------------------------------
(* PollForWrites of the writer pipe p.                                     *)

\* The child has its end open: the front of the queue is handed over.
WriteBlob(p) ==
  /\ polling[p] = "on" /\ buffers[p] # <<>> /\ childHolds[p]
  /\ received' = [received EXCEPT ![p] = Append(@, Head(buffers[p]))]
  /\ buffers' = [buffers EXCEPT ![p] = Tail(@)]
  /\ UNCHANGED <<outVars, closed, eof, sent, closedAt, childHolds, polling, pipeVars>>

\* It has not: RawWrite throws what RawWrite(blob) does not catch, and the
\* thread dies without CloseNativeWrite.
WriteFails(p) ==
  /\ polling[p] = "on" /\ buffers[p] # <<>> /\ ~childHolds[p]
  /\ buffers' = [buffers EXCEPT ![p] = Tail(@)]
  /\ polling' = [polling EXCEPT ![p] = "ended"]
  /\ UNCHANGED <<outVars, closed, received, eof, sent, closedAt, childHolds, pipeVars>>

\* Mutant: the loop ends as soon as the pipe is closed.
Mutant_WriteEndEarly(p) ==
  /\ polling[p] = "on" /\ closed[p]
  /\ polling' = [polling EXCEPT ![p] = "ended"]
  /\ eof' = [eof EXCEPT ![p] = TRUE]
  /\ UNCHANGED <<outVars, buffers, closed, received, sent, closedAt, childHolds, pipeVars>>

\* Mutant: the loop ends without CloseNativeWrite.
Mutant_WriteEndNoClose(p) ==
  /\ polling[p] = "on" /\ closed[p] /\ buffers[p] = <<>>
  /\ polling' = [polling EXCEPT ![p] = "ended"]
  /\ UNCHANGED <<outVars, inVars, childHolds, pipeVars>>

\* while (!closed || buffers.size() > 0) is false: CloseNativeWrite.
WriteEnd(p) ==
  /\ polling[p] = "on" /\ closed[p] /\ buffers[p] = <<>>
  /\ polling' = [polling EXCEPT ![p] = "ended"]
  /\ eof' = [eof EXCEPT ![p] = TRUE]
  /\ UNCHANGED <<outVars, buffers, closed, received, sent, closedAt, childHolds, pipeVars>>

PollForWrites(p) == WriteBlob(p) \/ WriteFails(p) \/ WriteEnd(p)

NativeInit ==
  /\ channel = [p \in Outs |-> <<>>]
  /\ childHolds = [p \in Outs \cup Ins |-> FALSE]
  /\ polling = [p \in Outs \cup Ins |-> "off"]
  /\ fetched = [p \in Outs |-> <<>>]
  /\ callback = [p \in Outs |-> FALSE]
  /\ output = <<>>
  /\ buffers = [p \in Ins |-> <<>>]
  /\ closed = [p \in Ins |-> FALSE]
  /\ received = [p \in Ins |-> <<>>]
  /\ eof = [p \in Ins |-> FALSE]
  /\ sent = [p \in Ins |-> <<>>]
  /\ closedAt = [p \in Ins |-> {}]

\* The child is given what was written to its stdin, in order, and sees the end
\* of it only after everything that was written before Close.
StdinInOrder ==
  \A p \in Ins :
    /\ Len(received[p]) <= Len(sent[p])
    /\ received[p] = SubSeq(sent[p], 1, Len(received[p]))
    /\ eof[p] => \A n \in closedAt[p] : n <= Len(received[p])
===============================================================================
