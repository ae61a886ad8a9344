------------------------------ MODULE TcpSocket ------------------------------
(***************************************************************************)
(* One Network.TCPSocket (tcp_socket_binding.cpp).  The main thread runs   *)
(* the script, which connects, writes and closes; the thread of a reactor  *)
(* receives and sends, and asks the main thread for the script's callbacks *)
(* without waiting for them.                                               *)
(*                                                                         *)
(* Outside src: the operating system's socket, which takes what it likes   *)
(* of a send and gives what it likes of what arrived, and Poco's reactor,  *)
(* whose loop ends after stop() and which survives a handler's exception.  *)
(* A script connects a socket once: whether a stopped reactor runs again   *)
(* is up to Poco.                                                          *)
(***************************************************************************)
EXTENDS Naturals, Sequences, SequencesExt

CONSTANTS MaxSent,     \* bytes the script writes, at most
          MaxArrived,  \* bytes the peer sends
          Nuls         \* those of them that are NUL

ASSUME TcpAssumption == /\ {MaxSent, MaxArrived} \subseteq Nat
                        /\ Nuls \subseteq 1 .. MaxArrived

VARIABLES
  socket,      \* "new", "open" or "closed", for the operating system
  isOpen,      \* opened
  reactor,     \* the reactor's thread: "none", "select", "locked", "sent" or "ended"
  stopped,     \* reactor.stop() was called
  buffer,      \* buffer
  bytesOut,    \* history: how many bytes were written with success
  wire,        \* history: the bytes the operating system took
  cut,         \* history: the bytes a send did not take, to be dropped
  count,       \* count in OnWrite
  arrived,     \* how many of the peer's bytes were received
  pieces,      \* history: the sets of bytes that were received at once
  asked,       \* the callbacks the main thread was asked for, in order
  wrote,       \* history: the sum of the counts that onWrite was called with
  read         \* history: what onRead was called with

socketVars == <<socket, isOpen, stopped>>
outVars == <<buffer, bytesOut, wire, cut, count>>
inVars == <<arrived, pieces>>
tcpVars == <<socketVars, reactor, outVars, inVars, asked, wrote, read>>

TcpInit ==
  /\ socket = "new" /\ isOpen = FALSE /\ reactor = "none" /\ stopped = FALSE
  /\ buffer = <<>> /\ bytesOut = 0 /\ wire = <<>> /\ cut = {} /\ count = 0
  /\ arrived = 0 /\ pieces = {} /\ asked = <<>> /\ wrote = 0 /\ read = <<>>

-----------------------------------------------------------------------------
(* The script.                                                             *)

Connect ==
  /\ socket = "new" /\ ~isOpen
  /\ socket' = "open" /\ isOpen' = TRUE /\ reactor' = "select"
  /\ UNCHANGED <<stopped, outVars, inVars, asked, wrote, read>>

\* Mutant: the buffer is changed without its mutex.
Mutant_WriteUnlocked(n) ==
  /\ isOpen /\ bytesOut + n <= MaxSent
  /\ bytesOut' = bytesOut + n
  /\ buffer' = buffer \o [i \in 1 .. n |-> bytesOut + i]
  /\ UNCHANGED <<socketVars, reactor, wire, cut, count, inVars, asked, wrote, read>>

Write(n) ==
  /\ isOpen /\ reactor \notin {"locked", "sent"} /\ bytesOut + n <= MaxSent
  /\ bytesOut' = bytesOut + n
  /\ buffer' = buffer \o [i \in 1 .. n |-> bytesOut + i]
  /\ UNCHANGED <<socketVars, reactor, wire, cut, count, inVars, asked, wrote, read>>

\* The mutex is not taken: the reactor may be inside a handler.
Close ==
  /\ isOpen
  /\ isOpen' = FALSE /\ stopped' = TRUE /\ socket' = "closed"
  /\ UNCHANGED <<reactor, outVars, inVars, asked, wrote, read>>

\* The main thread calls the callback it was asked for first.
Callback ==
  /\ asked # <<>> /\ asked' = Tail(asked)
  /\ LET call == Head(asked)
     IN /\ wrote' = IF call.name = "onWrite" THEN wrote + call.count ELSE wrote
        /\ read' = IF call.name = "onRead" THEN read \o call.text ELSE read
  /\ UNCHANGED <<socketVars, reactor, outVars, inVars>>

-----------------------------------------------------------------------------
(* The handlers of the reactor, on its thread.                             *)

Selects == reactor = "select" /\ ~stopped
Ask(call) == asked' = Append(asked, call)

\* A string ends at its first NUL.
Text(bytes) ==
  LET nul == SelectInSeq(bytes, LAMBDA b : b \in Nuls)
  IN IF nul = 0 THEN bytes ELSE SubSeq(bytes, 1, nul - 1)

\* Mutant: each callback is asked for ahead of those that wait.
Mutant_ReadFirst(n) ==
  /\ Selects /\ socket = "open" /\ arrived + n <= MaxArrived
  /\ arrived' = arrived + n /\ pieces' = pieces \cup {arrived + 1 .. arrived'}
  /\ asked' = <<[name |-> "onRead", text |-> Text([i \in 1 .. n |-> arrived + i])]>> \o asked
  /\ UNCHANGED <<socketVars, reactor, outVars, wrote, read>>

OnRead(n) ==
  /\ Selects /\ socket = "open" /\ arrived + n <= MaxArrived
  /\ arrived' = arrived + n /\ pieces' = pieces \cup {arrived + 1 .. arrived'}
  /\ Ask([name |-> "onRead", text |-> Text([i \in 1 .. n |-> arrived + i])])
  /\ UNCHANGED <<socketVars, reactor, outVars, wrote, read>>

\* The peer is done, nothing came for a while or receiving throws: onReadComplete,
\* onTimeout or onError, again and again as long as select says so.  One of them in
\* the queue at a time is modelled.
OnReadComplete ==
  /\ Selects /\ \A i \in DOMAIN asked : asked[i].name # "event"
  /\ Ask([name |-> "event"])
  /\ UNCHANGED <<socketVars, reactor, outVars, inVars, wrote, read>>

\* OnWrite takes the mutex.
LockBuffer ==
  /\ Selects /\ buffer # <<>>
  /\ reactor' = "locked"
  /\ UNCHANGED <<socketVars, outVars, inVars, asked, wrote, read>>

\* The operating system takes n bytes, all or some of the buffer.
SendBytes(n) ==
  /\ reactor = "locked" /\ socket = "open" /\ n \in 1 .. Len(buffer)
  /\ wire' = wire \o SubSeq(buffer, 1, n) /\ count' = n
  /\ cut' = cut \cup Range(SubSeq(buffer, n + 1, Len(buffer)))
  /\ reactor' = "sent"
  /\ UNCHANGED <<socketVars, buffer, bytesOut, inVars, asked, wrote, read>>

\* It throws, as on a closed socket: the mutex is released, the buffer is kept.
SendThrows ==
  /\ reactor = "locked"
  /\ reactor' = "select"
  /\ UNCHANGED <<socketVars, outVars, inVars, asked, wrote, read>>

\* All that was in the buffer is dropped, sent or not, and the mutex released.
ClearBuffer ==
  /\ reactor = "sent"
  /\ buffer' = <<>> /\ count' = 0 /\ reactor' = "select"
  /\ Ask([name |-> "onWrite", count |-> count])
  /\ UNCHANGED <<socketVars, bytesOut, wire, cut, inVars, wrote, read>>

\* With nothing to send onWrite is called with 0.
OnWriteIdle ==
  /\ Selects /\ buffer = <<>>
  /\ \A i \in DOMAIN asked : asked[i].name # "onWrite"
  /\ Ask([name |-> "onWrite", count |-> 0])
  /\ UNCHANGED <<socketVars, reactor, outVars, inVars, wrote, read>>

ReactorEnds ==
  /\ reactor = "select" /\ stopped
  /\ reactor' = "ended"
  /\ UNCHANGED <<socketVars, outVars, inVars, asked, wrote, read>>

Reactor ==
  \/ \E n \in 1 .. MaxArrived : OnRead(n)
  \/ OnReadComplete \/ LockBuffer \/ \E n \in 1 .. MaxSent : SendBytes(n)
  \/ SendThrows \/ ClearBuffer \/ OnWriteIdle \/ ReactorEnds

TcpNext == Connect \/ \E n \in 1 .. MaxSent : Write(n) \/ Close \/ Callback \/ Reactor

-----------------------------------------------------------------------------
(* Properties.                                                             *)

Increasing(s) == \A i, j \in DOMAIN s : i < j => s[i] < s[j]

\* What write() accepted goes out in order and once; what does not is still in the
\* buffer, or was dropped by a send that took a part: nothing is lost to a write
\* that comes while the reactor sends.
WrittenGoesOut ==
  LET pending == IF reactor = "sent" THEN <<>> ELSE buffer
  IN /\ Increasing(wire \o pending)
     /\ 1 .. bytesOut = Range(wire) \cup Range(buffer) \cup cut

\* The sum of the numbers.
Total(numbers) ==
  LET sum[i \in 0 .. Len(numbers)] == IF i = 0 THEN 0 ELSE sum[i - 1] + numbers[i]
  IN sum[Len(numbers)]

\* What the main thread is asked to call onRead with, and the counts for onWrite.
TextsToCome == [i \in DOMAIN asked |-> IF asked[i].name = "onRead" THEN asked[i].text ELSE <<>>]
CountsToCome == [i \in DOMAIN asked |-> IF asked[i].name = "onWrite" THEN asked[i].count ELSE 0]

\* A byte behind a NUL of the piece it came in, or that NUL.
BehindNul(b) == \E p \in pieces : b \in p /\ \E z \in Nuls \cap p : z <= b

\* onRead gets what arrived in order, each byte once, and nothing but a NUL and
\* what came with it in one piece after it is missing; what onWrite was told, with
\* what it will be, adds up to what was sent.
CallbacksFollow ==
  LET all == read \o FlattenSeq(TextsToCome)
  IN /\ Increasing(all)
     /\ \A b \in 1 .. arrived : b \in Range(all) \/ BehindNul(b)
     /\ wrote + Total(CountsToCome) + (IF reactor = "sent" THEN count ELSE 0) = Len(wire)
==============================================================================
