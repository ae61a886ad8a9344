---------------------------- MODULE NetworkProofs ----------------------------
(***************************************************************************)
(* Theorems about the HTTPClient and the TCPSocket of NetworkMC, for any   *)
(* number of calls, buffers and redirects, and of bytes.                   *)
(***************************************************************************)
EXTENDS NetworkMC, Induction

Places == {"none", "connect", "headers", "loading", "body", "closing", "closed", "ended"}

\* The requests that have a connection, or go for one.
InSession(c) == thread[c] \in {"connect", "headers", "loading", "body", "closing"}

\* What the handlers and threads look like, as far as the theorems need it.
Shape ==
  /\ calls \in Nat /\ stopAsked \subseteq Calls
  /\ thread \in [Calls -> Places] /\ telling \in [Calls -> BOOLEAN]
  /\ how \in [Calls -> {"none", "send", "receive", "noWrite", "refused"}]
  /\ ended \in [Calls -> {"no", "whole", "aborted", "failed"}]
  /\ \A c \in Calls : telling[c] => thread[c] \in {"headers", "loading", "closed"}

\* A call that has not been made has no request.
NotYet ==
  \A c \in Calls : IF c > calls THEN thread[c] = "none" /\ how[c] = "none" /\ ended[c] = "no"
                   ELSE how[c] # "none"

\* An object that is not dirty has begun no request.
CleanBefore == ~dirty => \A c \in Calls : how[c] \in {"none", "refused"}

\* An abort that is not noticed yet is for the request that runs, or came before
\* the first.
Excused(c) == c \in stopAsked \/ \A d \in 1 .. c - 1 : how[d] = "refused"
AbortPending == abort => \A c \in Running : Excused(c)

AbortInv == Shape /\ NotYet /\ CleanBefore /\ AbortPending /\ AbortIsForThis

\* One request at a time has a session.
OneSession ==
  \A c, d \in Calls : InSession(c) => connected /\ (InSession(d) => c = d)

-----------------------------------------------------------------------------

LEMMA HttpInitially == HttpInit => AbortInv /\ OneSession
BY HttpAssumption
DEF HttpInit, AbortInv, Shape, NotYet, CleanBefore, AbortPending, AbortIsForThis, Excused,
    Running, OneSession, InSession, Places, Calls

\* A call that begins no request.
LEMMA RefusedKeeps ==
  ASSUME AbortInv, calls < MaxCalls, calls' = calls + 1,
         how' = [how EXCEPT ![calls'] = "refused"],
         abort' => abort,
         UNCHANGED <<dirty, thread, telling, ended, stopAsked>>
  PROVE  AbortInv'
<1>1. calls' \in Calls /\ calls' > calls
  BY HttpAssumption DEF AbortInv, Shape, Calls
<1>2. Shape' /\ NotYet' /\ CleanBefore'
  BY <1>1 DEF AbortInv, Shape, NotYet, CleanBefore, Calls
<1>3. \A c \in Calls : Excused(c) => Excused(c)'
  BY <1>1 DEF AbortInv, Shape, NotYet, Excused, Calls
<1>4. AbortPending' /\ AbortIsForThis'
  BY <1>3 DEF AbortInv, Shape, AbortPending, AbortIsForThis, Excused, Running, Calls
<1> QED
  BY <1>2, <1>4 DEF AbortInv

\* A call that begins one: an abort that is left is older than every request.
LEMMA BegunKeeps ==
  ASSUME AbortInv, calls < MaxCalls, calls' = calls + 1,
         NEW kind \in {"send", "receive", "noWrite"},
         how' = [how EXCEPT ![calls'] = kind],
         thread' = [thread EXCEPT ![calls'] = "connect"],
         abort' => abort /\ ~dirty, dirty',
         UNCHANGED <<telling, ended, stopAsked>>
  PROVE  AbortInv'
<1>1. calls' \in Calls /\ calls' > calls /\ calls \in Nat
  BY HttpAssumption DEF AbortInv, Shape, Calls
<1>2. Shape' /\ NotYet' /\ CleanBefore'
  BY <1>1 DEF AbortInv, Shape, NotYet, CleanBefore, Calls, Places
<1>3. \A c \in Calls : c <= calls /\ Excused(c) => Excused(c)'
  BY <1>1 DEF AbortInv, Shape, Excused, Calls
<1>4. AbortIsForThis'
  BY <1>1, <1>3 DEF AbortInv, Shape, NotYet, AbortIsForThis, Excused, Calls
<1>5. AbortPending'
  <2> SUFFICES ASSUME abort', NEW c \in Running' PROVE Excused(c)'
    BY DEF AbortPending
  <2>1. ~dirty /\ abort
    BY DEF AbortInv, Shape
  <2>2. c \in Calls /\ c <= calls'
    BY <1>2 DEF NotYet, Running, Calls
  <2>3. CASE c = calls'
    <3>1. \A d \in 1 .. c - 1 : how'[d] = "refused"
      <4> SUFFICES ASSUME NEW d \in 1 .. c - 1 PROVE how'[d] = "refused"
        OBVIOUS
      <4>0. c = calls + 1 /\ c \in 1 .. MaxCalls /\ MaxCalls \in Nat
        BY <2>2, <2>3, HttpAssumption DEF Calls
      <4>1. d \in Calls /\ d <= calls /\ d # calls'
        BY <1>1, <4>0 DEF Calls
      <4>2. how[d] = "refused"
        BY <1>1, <2>1, <4>1 DEF AbortInv, NotYet, CleanBefore
      <4> QED
        BY <4>1, <4>2 DEF AbortInv, Shape
    <3> QED
      BY <3>1 DEF Excused
  <2>4. CASE c # calls'
    <3>1. c <= calls /\ c \in Running
      BY <1>1, <2>2, <2>4 DEF AbortInv, Shape, Running, Calls
    <3> QED
      BY <1>3, <2>1, <2>2, <3>1 DEF AbortInv, AbortPending
  <2> QED
    BY <2>3, <2>4
<1> QED
  BY <1>2, <1>4, <1>5 DEF AbortInv

\* The steps that leave the calls and what they began alone.
LEMMA GoesOnKeeps ==
  ASSUME AbortInv, Shape', NotYet', AbortPending',
         UNCHANGED <<how, stopAsked>>, dirty' = dirty,
         \A c \in Calls : ended'[c] = "aborted" => ended[c] = "aborted" \/ Excused(c)
  PROVE  AbortInv'
BY DEF AbortInv, CleanBefore, AbortIsForThis, Excused

\* What the script does.
LEMMA BeginKeeps ==
  ASSUME AbortInv, calls < MaxCalls, calls' = calls + 1,
         NEW kind \in {"send", "receive", "noWrite"}, NEW out, NEW data,
         BeginRequest(kind, out, data),
         UNCHANGED <<telling, ended, stopAsked>>
  PROVE  AbortInv'
<1>1. CASE how' = [how EXCEPT ![calls'] = "refused"] /\ UNCHANGED <<dirty, thread>>
           /\ (abort' => abort)
  BY <1>1, RefusedKeeps
<1>2. CASE how' = [how EXCEPT ![calls'] = kind] /\ thread' = [thread EXCEPT ![calls'] = "connect"]
           /\ dirty' /\ (abort' => abort /\ ~dirty)
  BY <1>2, BegunKeeps
<1> QED
  BY <1>1, <1>2 DEF BeginRequest, Reset

LEMMA ScriptKeeps == ASSUME AbortInv, Script PROVE AbortInv'
<1> USE DEF scriptVars, httpProps, streams, requests, httpHistory
<1>1. CASE Open \/ SetRequestHeader
  BY <1>1 DEF Open, SetRequestHeader, AbortInv, Shape, NotYet, CleanBefore, AbortPending, Excused,
              AbortIsForThis, Running
<1>2. CASE Abort
  <2>1. AbortPending' /\ Shape'
    BY <1>2 DEF Abort, AbortInv, Shape, AbortPending, Excused, Running
  <2> QED
    BY <1>2, <2>1 DEF Abort, AbortInv, NotYet, CleanBefore, AbortIsForThis
<1>3. CASE Send
  BY <1>3, BeginKeeps DEF Send, Calling
<1>4. CASE Receive
  BY <1>4, BeginKeeps DEF Receive, Calling
<1>5. CASE ReceiveNoWrite
  BY <1>5, BeginKeeps DEF ReceiveNoWrite, Calling
<1>6. CASE ReceiveInvalid
  BY <1>6, RefusedKeeps DEF ReceiveInvalid, Calling
<1> QED
  BY <1>1, <1>2, <1>3, <1>4, <1>5, <1>6 DEF Script

\* A thread that goes to another place.
LEMMA MovesKeeps ==
  ASSUME AbortInv, NEW c \in Calls, NEW to \in Places \ {"none"},
         thread[c] \notin {"none", "ended"},
         ~telling'[c],
         thread' = [thread EXCEPT ![c] = to], telling' \in [Calls -> BOOLEAN],
         \A d \in Calls : telling'[d] => telling[d],
         UNCHANGED <<calls, how, dirty, stopAsked>>, abort' => abort,
         \/ ended' = ended
         \/ \E x \in {"whole", "failed"} : ended' = [ended EXCEPT ![c] = x]
         \/ abort /\ ended' = [ended EXCEPT ![c] = "aborted"]
  PROVE  AbortInv'
<1>1. c \in Running
  BY DEF Running
<1>2. Shape'
  BY ZenonT(30) DEF AbortInv, Shape
<1>3. NotYet'
  BY DEF AbortInv, Shape, NotYet
<1>4. Running' \subseteq Running
  BY <1>1 DEF AbortInv, Shape, Running
<1>5. AbortPending'
  BY <1>4 DEF AbortInv, AbortPending, Excused
<1>6. \A d \in Calls : ended'[d] = "aborted" => ended[d] = "aborted" \/ Excused(d)
  BY <1>1 DEF AbortInv, Shape, AbortPending
<1> QED
  BY <1>2, <1>3, <1>5, <1>6, GoesOnKeeps

\* One that stays where it is.
LEMMA StaysKeeps ==
  ASSUME AbortInv, UNCHANGED <<calls, how, dirty, abort, stopAsked, ended, thread>>,
         telling' \in [Calls -> BOOLEAN],
         \A c \in Calls : telling'[c] => thread[c] \in {"headers", "loading", "closed"}
  PROVE  AbortInv'
BY DEF AbortInv, Shape, NotYet, CleanBefore, AbortPending, AbortIsForThis, Excused, Running

\* What the thread of a request does.
LEMMA RequestKeeps ==
  ASSUME AbortInv, NEW c \in Calls, ExecuteRequest(c) PROVE AbortInv'
<1> USE DEF scriptVars, httpProps, streams, requests, httpHistory, At, Go
<1>0. telling \in [Calls -> BOOLEAN] /\ thread \in [Calls -> Places]
      /\ \A d \in Calls : telling[d] => thread[d] \in {"headers", "loading", "closed"}
  BY DEF AbortInv, Shape
<1>1. CASE Redirected(c) \/ ReceiveChunk(c)
  BY <1>0, <1>1, StaysKeeps DEF Redirected, Asks, ReceiveChunk
<1>2. CASE \E place \in {"headers", "loading", "closed"}, state \in 2 .. 4 :
             ChangeState(c, place, state)
  BY <1>0, <1>2, StaysKeeps DEF ChangeState
<1>3. CASE RedirectEnds(c)
  BY <1>0, <1>3, MovesKeeps DEF RedirectEnds, Asks, Places
<1>4. CASE Answered(c)
  BY <1>0, <1>4, MovesKeeps DEF Answered, Asks, Places
<1>5. CASE BodyAborted(c)
  BY <1>0, <1>5, MovesKeeps DEF BodyAborted, Places
<1>6. CASE BodyEnds(c)
  BY <1>0, <1>6, MovesKeeps DEF BodyEnds, Places
<1>7. CASE Fails(c)
  BY <1>0, <1>7, MovesKeeps DEF Fails, Places
<1>8. CASE CloseSession(c)
  BY <1>0, <1>8, MovesKeeps DEF CloseSession, Places
<1> QED
  BY <1>1, <1>2, <1>3, <1>4, <1>5, <1>6, <1>7, <1>8 DEF ExecuteRequest

LEMMA ThrowKeeps ==
  ASSUME AbortInv, NEW c \in Calls, HandlerThrows(c) PROVE AbortInv'
<1> USE DEF scriptVars, httpProps, streams, Go, HandlerCalled
<1>0. telling \in [Calls -> BOOLEAN] /\ thread[c] \in {"headers", "loading", "closed"}
  BY DEF AbortInv, Shape, HandlerThrows
<1>1. CASE thread[c] = "closed"
  <2>1. thread' = [thread EXCEPT ![c] = "ended"] /\ ended' = ended
    BY <1>1 DEF HandlerThrows
  <2> QED
    BY <1>0, <2>1, MovesKeeps DEF HandlerThrows, Places
<1>2. CASE thread[c] # "closed"
  <2>1. thread' = [thread EXCEPT ![c] = "closing"] /\ ended' = [ended EXCEPT ![c] = "failed"]
    BY <1>2 DEF HandlerThrows
  <2> QED
    BY <1>0, <2>1, MovesKeeps DEF HandlerThrows, Places
<1> QED
  BY <1>1, <1>2

LEMMA HandlerKeeps ==
  ASSUME AbortInv, NEW c \in Calls, HandlerReturns(c) PROVE AbortInv'
<1> USE DEF scriptVars, httpProps, streams, Go, HandlerCalled
<1>0. telling \in [Calls -> BOOLEAN] /\ thread[c] \in {"headers", "loading", "closed"}
  BY DEF AbortInv, Shape, HandlerReturns
<1> DEFINE to == CASE thread[c] = "headers" -> "loading"
                   [] thread[c] = "loading" -> "body"
                   [] thread[c] = "closed" -> "ended"
<1>1. to \in Places \ {"none"}
  BY <1>0 DEF Places
<1>2. thread' = [thread EXCEPT ![c] = to]
  BY DEF HandlerReturns
<1> HIDE DEF to
<1> QED
  BY <1>0, <1>1, <1>2, MovesKeeps DEF HandlerReturns

LEMMA HttpStepInv == AbortInv /\ [HttpNext]_httpVars => AbortInv'
<1> SUFFICES ASSUME AbortInv, [HttpNext]_httpVars PROVE AbortInv'
  OBVIOUS
<1>1. CASE UNCHANGED httpVars
  BY <1>1 DEF httpVars, scriptVars, httpProps, streams, requests, httpHistory,
     AbortInv, Shape, NotYet, CleanBefore, AbortPending, AbortIsForThis, Excused, Running
<1> QED
  BY <1>1, ScriptKeeps, RequestKeeps, HandlerKeeps, ThrowKeeps DEF HttpNext, RequestGoesOn

\* A step of the two objects is one of the HTTPClient, or leaves it alone.
LEMMA NetworkStep ==
  [NetworkNext]_<<part, httpVars, tcpVars>> => [HttpNext]_httpVars
BY DEF NetworkNext, HttpWorks, TcpWorks

\* abort() never ends a later request than the one that ran, but for the first.
THEOREM AbortsAreForThis == NetworkSpec => []AbortIsForThis
<1>1. AbortInv => AbortIsForThis
  BY DEF AbortInv
<1>2. NetworkInit => AbortInv
  BY HttpInitially DEF NetworkInit, NetworkStart
<1> QED
  BY <1>1, <1>2, HttpStepInv, NetworkStep, PTL DEF NetworkSpec

-----------------------------------------------------------------------------
(* One session at a time.                                                  *)

\* A step after which no more requests have a session than before.
LEMMA FewerSessions ==
  ASSUME OneSession, connected' = connected,
         \A c \in Calls : InSession(c)' => InSession(c)
  PROVE  OneSession'
BY DEF OneSession

\* A request begins only when connected is not set, and sets it.
LEMMA BeginSession ==
  ASSUME OneSession, Shape, calls < MaxCalls, calls' = calls + 1, NEW kind, NEW out, NEW data,
         BeginRequest(kind, out, data)
  PROVE  OneSession'
<1>1. calls' \in Calls
  BY HttpAssumption DEF Shape, Calls
<1>2. CASE UNCHANGED <<connected, thread>>
  BY <1>2, FewerSessions DEF InSession
<1>3. CASE ~connected /\ connected' /\ thread' = [thread EXCEPT ![calls'] = "connect"]
  BY <1>1, <1>3 DEF OneSession, InSession, Shape
<1> QED
  BY <1>2, <1>3 DEF BeginRequest

\* A thread that goes on to a place of the session, or leaves it.
LEMMA MovesSession ==
  ASSUME OneSession, Shape, NEW c \in Calls, InSession(c), connected' = connected, NEW to,
         thread' = [thread EXCEPT ![c] = to]
  PROVE  OneSession'
BY FewerSessions DEF Shape, InSession

LEMMA RequestSession ==
  ASSUME OneSession, Shape, NEW c \in Calls, ExecuteRequest(c) PROVE OneSession'
<1> USE DEF scriptVars, httpProps, streams, requests, httpHistory, At, Go
<1>1. CASE Redirected(c) \/ ReceiveChunk(c)
  BY <1>1, FewerSessions DEF Redirected, ReceiveChunk, InSession
<1>2. CASE \E place \in {"headers", "loading", "closed"}, state \in 2 .. 4 :
             ChangeState(c, place, state)
  <2>1. UNCHANGED <<connected, thread>>
    BY <1>2 DEF ChangeState
  <2> QED
    BY <2>1, FewerSessions DEF InSession
<1>3. CASE RedirectEnds(c) \/ Answered(c)
  <2>1. CASE RedirectEnds(c)
    <3>1. InSession(c) /\ connected' = connected /\ thread' = [thread EXCEPT ![c] = "closing"]
      BY <2>1 DEF RedirectEnds, InSession
    <3> QED
      BY <3>1, MovesSession
  <2>2. CASE Answered(c)
    <3>1. InSession(c) /\ connected' = connected /\ thread' = [thread EXCEPT ![c] = "headers"]
      BY <2>2 DEF Answered, Asks, InSession
    <3> QED
      BY <3>1, MovesSession
  <2> QED
    BY <1>3, <2>1, <2>2
<1>4. CASE BodyAborted(c) \/ BodyEnds(c) \/ Fails(c)
  <2>1. InSession(c) /\ connected' = connected /\ thread' = [thread EXCEPT ![c] = "closing"]
    BY <1>4 DEF BodyAborted, BodyEnds, Fails, InSession
  <2> QED
    BY <2>1, MovesSession
<1>5. CASE CloseSession(c)
  <2>1. thread[c] = "closing" /\ thread' = [thread EXCEPT ![c] = "closed"]
    BY <1>5 DEF CloseSession
  <2>2. \A d \in Calls : ~InSession(d)'
    BY <2>1 DEF OneSession, InSession, Shape
  <2> QED
    BY <2>2 DEF OneSession
<1> QED
  BY <1>1, <1>2, <1>3, <1>4, <1>5 DEF ExecuteRequest

LEMMA SessionStep == OneSession /\ Shape /\ [HttpNext]_httpVars => OneSession'
<1> SUFFICES ASSUME OneSession, Shape, [HttpNext]_httpVars PROVE OneSession'
  OBVIOUS
<1> USE DEF scriptVars, httpProps, streams, requests, httpHistory
<1>1. CASE UNCHANGED httpVars
  BY <1>1, FewerSessions DEF httpVars, InSession
<1>2. CASE Open \/ SetRequestHeader \/ Abort \/ ReceiveInvalid
  BY <1>2, FewerSessions DEF Open, SetRequestHeader, Abort, ReceiveInvalid, InSession
<1>3. CASE Send \/ Receive \/ ReceiveNoWrite
  BY <1>3, BeginSession DEF Send, Receive, ReceiveNoWrite, Calling
<1>4. ASSUME NEW c \in Calls, HandlerReturns(c) PROVE OneSession'
  <2>1. thread[c] \in {"headers", "loading", "closed"}
    BY <1>4 DEF HandlerReturns, HandlerCalled, Shape
  <2>2. CASE thread[c] = "closed"
    <3>1. thread' = [thread EXCEPT ![c] = "ended"]
      BY <1>4, <2>2 DEF HandlerReturns, Go
    <3> QED
      BY <1>4, <3>1, FewerSessions DEF HandlerReturns, InSession, Shape
  <2>3. CASE thread[c] # "closed"
    BY <1>4, <2>1, <2>3, MovesSession DEF HandlerReturns, Go, InSession
  <2> QED
    BY <2>2, <2>3
<1>5. ASSUME NEW c \in Calls, HandlerThrows(c) PROVE OneSession'
  <2>1. thread[c] \in {"headers", "loading", "closed"}
    BY <1>5 DEF HandlerThrows, HandlerCalled, Shape
  <2>2. CASE thread[c] = "closed"
    <3>1. thread' = [thread EXCEPT ![c] = "ended"]
      BY <1>5, <2>2 DEF HandlerThrows, Go
    <3> QED
      BY <1>5, <3>1, FewerSessions DEF HandlerThrows, InSession, Shape
  <2>3. CASE thread[c] # "closed"
    BY <1>5, <2>1, <2>3, MovesSession DEF HandlerThrows, Go, InSession
  <2> QED
    BY <2>2, <2>3
<1> QED
  BY <1>1, <1>2, <1>3, <1>4, <1>5, RequestSession DEF HttpNext, RequestGoesOn, Script

\* Two requests never share the object's session and streams: while one goes on, the
\* property connected keeps another from beginning, however send, receive, open and
\* abort are called.
THEOREM OneSessionAtATime == NetworkSpec => []OneSession
<1>1. AbortInv => Shape
  BY DEF AbortInv
<1>2. NetworkInit => AbortInv /\ OneSession
  BY HttpInitially DEF NetworkInit, NetworkStart
<1> QED
  BY <1>1, <1>2, SessionStep, HttpStepInv, NetworkStep, PTL DEF NetworkSpec

-----------------------------------------------------------------------------
(* TCPSocket: what write() accepted.                                       *)

\* The buffer holds the last bytes that were written; what went out came before
\* them, but for what a send has just taken.
TcpInv ==
  /\ bytesOut \in Nat /\ wire \in Seq(Nat) /\ buffer \in Seq(Nat) /\ Len(buffer) <= bytesOut
  /\ \A i \in 1 .. Len(buffer) : buffer[i] = (bytesOut - Len(buffer)) + i
  /\ Increasing(wire)
  /\ \A i \in 1 .. Len(wire) :
       wire[i] <= bytesOut /\ (reactor # "sent" => wire[i] <= bytesOut - Len(buffer))
  /\ 1 .. bytesOut = Range(wire) \cup Range(buffer) \cup cut
  /\ reactor = "sent" => Range(buffer) \subseteq Range(wire) \cup cut
  /\ socket = "new" => reactor = "none"

LEMMA RangeConcat ==
  ASSUME NEW S, NEW s \in Seq(S), NEW t \in Seq(S)
  PROVE  Range(s \o t) = Range(s) \cup Range(t)
<1>1. /\ s \o t \in Seq(S) /\ Len(s \o t) = Len(s) + Len(t) /\ Len(s) \in Nat /\ Len(t) \in Nat
      /\ DOMAIN s = 1 .. Len(s) /\ DOMAIN t = 1 .. Len(t) /\ DOMAIN (s \o t) = 1 .. Len(s) + Len(t)
      /\ \A i \in 1 .. Len(s) : (s \o t)[i] = s[i]
      /\ \A i \in 1 .. Len(t) : (s \o t)[Len(s) + i] = t[i]
  OBVIOUS
<1>2. ASSUME NEW x \in Range(s \o t) PROVE x \in Range(s) \cup Range(t)
  <2>1. PICK i \in 1 .. Len(s) + Len(t) : x = (s \o t)[i]
    BY <1>1 DEF Range
  <2>2. CASE i <= Len(s)
    <3>1. i \in DOMAIN s /\ x = s[i]
      BY <1>1, <2>1, <2>2
    <3> QED
      BY <3>1 DEF Range
  <2>3. CASE i > Len(s)
    <3>1. i - Len(s) \in DOMAIN t /\ i = Len(s) + (i - Len(s))
      BY <1>1, <2>1, <2>3
    <3>2. x = t[i - Len(s)]
      BY <1>1, <2>1, <3>1
    <3> QED
      BY <3>1, <3>2 DEF Range
  <2> QED
    BY <1>1, <2>1, <2>2, <2>3
<1>3. ASSUME NEW x \in Range(s) \cup Range(t) PROVE x \in Range(s \o t)
  <2>1. CASE x \in Range(s)
    <3>1. PICK i \in 1 .. Len(s) : x = s[i]
      BY <1>1, <2>1 DEF Range
    <3>2. i \in DOMAIN (s \o t) /\ x = (s \o t)[i]
      BY <1>1, <3>1
    <3> QED
      BY <3>2 DEF Range
  <2>2. CASE x \in Range(t)
    <3>1. PICK i \in 1 .. Len(t) : x = t[i]
      BY <1>1, <2>2 DEF Range
    <3>2. Len(s) + i \in DOMAIN (s \o t) /\ x = (s \o t)[Len(s) + i]
      BY <1>1, <3>1
    <3> QED
      BY <3>2 DEF Range
  <2> QED
    BY <1>3, <2>1, <2>2
<1> QED
  BY <1>2, <1>3

\* What is increasing goes on to be when larger numbers follow.
LEMMA IncreasingConcat ==
  ASSUME NEW s \in Seq(Nat), NEW t \in Seq(Nat), Increasing(s), Increasing(t),
         \A i \in DOMAIN s, j \in DOMAIN t : s[i] < t[j]
  PROVE  Increasing(s \o t)
<1>1. /\ Len(s) \in Nat /\ Len(t) \in Nat
      /\ DOMAIN s = 1 .. Len(s) /\ DOMAIN t = 1 .. Len(t) /\ DOMAIN (s \o t) = 1 .. Len(s) + Len(t)
      /\ \A i \in 1 .. Len(s) : (s \o t)[i] = s[i]
      /\ \A i \in (Len(s) + 1) .. (Len(s) + Len(t)) :
           i - Len(s) \in DOMAIN t /\ (s \o t)[i] = t[i - Len(s)]
  OBVIOUS
<1>2. ASSUME NEW i \in DOMAIN (s \o t), NEW j \in DOMAIN (s \o t), i < j
      PROVE  (s \o t)[i] < (s \o t)[j]
  <2>0. i \in 1 .. Len(s) + Len(t) /\ j \in 1 .. Len(s) + Len(t)
    BY <1>1
  <2>1. CASE j <= Len(s)
    BY <1>1, <1>2, <2>0, <2>1 DEF Increasing
  <2>2. CASE i <= Len(s) /\ j > Len(s)
    <3>1. i \in DOMAIN s /\ j - Len(s) \in DOMAIN t /\ (s \o t)[i] = s[i] /\ (s \o t)[j] = t[j - Len(s)]
      BY <1>1, <2>0, <2>2
    <3> QED
      BY <3>1
  <2>3. CASE i > Len(s)
    <3>1. /\ i - Len(s) \in DOMAIN t /\ j - Len(s) \in DOMAIN t
          /\ (s \o t)[i] = t[i - Len(s)] /\ (s \o t)[j] = t[j - Len(s)]
      BY <1>1, <1>2, <2>0, <2>3
    <3>2. i - Len(s) < j - Len(s)
      BY <1>1, <1>2, <2>0
    <3> QED
      BY <3>1, <3>2 DEF Increasing
  <2>4. j <= Len(s) \/ (i <= Len(s) /\ j > Len(s)) \/ i > Len(s)
    BY <1>1, <2>0
  <2> QED
    BY <2>1, <2>2, <2>3, <2>4
<1> QED
  BY <1>2 DEF Increasing

LEMMA TcpInitially == TcpInit => TcpInv
<1> SUFFICES ASSUME TcpInit PROVE TcpInv
  OBVIOUS
<1>1. bytesOut = 0 /\ wire = <<>> /\ buffer = <<>> /\ cut = {} /\ reactor = "none"
  BY DEF TcpInit
<1>2. <<>> \in Seq(Nat) /\ Len(<<>>) = 0 /\ DOMAIN <<>> = {} /\ 1 .. 0 = {}
  OBVIOUS
<1>3. Range(<<>>) = {} /\ Increasing(<<>>)
  BY <1>2 DEF Range, Increasing
<1> QED
  BY <1>1, <1>2, <1>3 DEF TcpInv, TcpInit

LEMMA WriteKeeps ==
  ASSUME TcpInv, NEW n \in 1 .. MaxSent, Write(n)
  PROVE  TcpInv'
<1> DEFINE more == [i \in 1 .. n |-> bytesOut + i]
<1>1. /\ reactor # "sent" /\ reactor' = reactor /\ bytesOut' = bytesOut + n
      /\ buffer' = buffer \o more /\ UNCHANGED <<wire, cut, socket>>
  BY DEF Write, socketVars
<1>2. n \in Nat /\ bytesOut \in Nat /\ wire \in Seq(Nat) /\ buffer \in Seq(Nat) /\ Len(buffer) <= bytesOut
  BY TcpAssumption DEF TcpInv
<1>3. more \in Seq(Nat) /\ Len(more) = n /\ \A i \in 1 .. n : more[i] = bytesOut + i
  BY <1>2
<1>4. Range(more) = (bytesOut + 1) .. (bytesOut + n)
  <2>1. ASSUME NEW x \in (bytesOut + 1) .. (bytesOut + n) PROVE \E i \in 1 .. n : x = bytesOut + i
    <3>1. x - bytesOut \in 1 .. n /\ x = bytesOut + (x - bytesOut)
      BY <1>2
    <3> QED
      BY <3>1
  <2>2. \A i \in 1 .. n : bytesOut + i \in (bytesOut + 1) .. (bytesOut + n)
    BY <1>2
  <2> QED
    BY <2>1, <2>2 DEF Range
<1> HIDE DEF more
<1>5. /\ buffer' \in Seq(Nat) /\ Len(buffer') = Len(buffer) + n
      /\ \A i \in 1 .. Len(buffer) : buffer'[i] = buffer[i]
      /\ \A i \in (Len(buffer) + 1) .. (Len(buffer) + n) : buffer'[i] = more[i - Len(buffer)]
  <2>1. Len(buffer) \in Nat /\ Len(more) \in Nat /\ more \in Seq(Nat)
    BY <1>2, <1>3
  <2>2. /\ buffer \o more \in Seq(Nat) /\ Len(buffer \o more) = Len(buffer) + Len(more)
        /\ \A i \in 1 .. Len(buffer) : (buffer \o more)[i] = buffer[i]
        /\ \A i \in (Len(buffer) + 1) .. (Len(buffer) + Len(more)) :
             (buffer \o more)[i] = more[i - Len(buffer)]
    BY <1>2, <2>1
  <2> QED
    BY <1>1, <1>3, <2>2
<1>6. Range(buffer') = Range(buffer) \cup Range(more)
  BY <1>1, <1>2, <1>3, RangeConcat
<1>7. 1 .. bytesOut' = 1 .. bytesOut \cup (bytesOut + 1) .. (bytesOut + n)
  BY <1>1, <1>2
<1>8. \A i \in 1 .. Len(buffer') : buffer'[i] = (bytesOut' - Len(buffer')) + i
  <2> TAKE i \in 1 .. Len(buffer')
  <2>1. Len(buffer) \in Nat
    BY <1>2
  <2>2. CASE i <= Len(buffer)
    BY <1>1, <1>2, <1>5, <2>1, <2>2 DEF TcpInv
  <2>3. CASE i > Len(buffer)
    <3>1. i - Len(buffer) \in 1 .. n /\ i \in (Len(buffer) + 1) .. (Len(buffer) + n)
      BY <1>2, <1>5, <2>1, <2>3
    <3> QED
      BY <1>1, <1>2, <1>3, <1>5, <2>1, <3>1
  <2> QED
    BY <1>5, <2>1, <2>2, <2>3
<1>9. \A i \in 1 .. Len(wire) : wire[i] <= bytesOut' /\ wire[i] <= bytesOut' - Len(buffer')
  <2> TAKE i \in 1 .. Len(wire)
  <2>1. wire[i] \in Nat /\ Len(buffer) \in Nat
    BY <1>2
  <2> QED
    BY <1>1, <1>2, <1>5, <2>1, SMTT(30) DEF TcpInv
<1>10. 1 .. bytesOut' = Range(wire) \cup Range(buffer') \cup cut
  BY <1>4, <1>6, <1>7 DEF TcpInv
<1>11. bytesOut' \in Nat /\ Len(buffer') <= bytesOut'
  BY <1>1, <1>2, <1>5
<1> QED
  BY <1>1, <1>2, <1>5, <1>8, <1>9, <1>10, <1>11 DEF TcpInv

LEMMA SendKeeps ==
  ASSUME TcpInv, NEW n \in 1 .. MaxSent, SendBytes(n)
  PROVE  TcpInv'
<1> DEFINE sent == SubSeq(buffer, 1, n)
           rest == SubSeq(buffer, n + 1, Len(buffer))
<1>1. /\ reactor = "locked" /\ reactor' = "sent" /\ wire' = wire \o sent
      /\ cut' = cut \cup Range(rest) /\ UNCHANGED <<buffer, bytesOut, socket>> /\ n \in 1 .. Len(buffer)
  BY DEF SendBytes, socketVars
<1>2. /\ bytesOut \in Nat /\ wire \in Seq(Nat) /\ buffer \in Seq(Nat) /\ Len(buffer) \in Nat
      /\ Len(buffer) <= bytesOut /\ n \in Nat /\ n <= Len(buffer)
      /\ \A i \in 1 .. Len(buffer) : buffer[i] = (bytesOut - Len(buffer)) + i
  BY <1>1 DEF TcpInv
<1>3. /\ sent \in Seq(Nat) /\ Len(sent) = n /\ DOMAIN sent = 1 .. n
      /\ \A i \in 1 .. n : sent[i] = buffer[i]
  BY <1>2
<1>4. /\ rest \in Seq(Nat) /\ Len(rest) = Len(buffer) - n
      /\ \A i \in 1 .. (Len(buffer) - n) : rest[i] = buffer[n + i]
  BY <1>2
<1>5. Range(buffer) = Range(sent) \cup Range(rest)
  <2>1. buffer = sent \o rest
    BY <1>2, <1>3, <1>4
  <2> HIDE DEF sent, rest
  <2> QED
    BY <1>3, <1>4, <2>1, RangeConcat
<1> HIDE DEF sent, rest
<1>6. Increasing(sent)
  <2>1. ASSUME NEW i \in 1 .. n PROVE sent[i] = (bytesOut - Len(buffer)) + i
    <3>1. i \in 1 .. Len(buffer)
      BY <1>2
    <3> QED
      BY <1>2, <1>3, <3>1
  <2> QED
    BY <1>2, <1>3, <2>1 DEF Increasing
<1>7. \A i \in DOMAIN wire, j \in DOMAIN sent : wire[i] < sent[j]
  <2> TAKE i \in DOMAIN wire, j \in DOMAIN sent
  <2>1. i \in 1 .. Len(wire) /\ wire[i] \in Nat
    BY <1>2
  <2>2. wire[i] <= bytesOut - Len(buffer)
    BY <1>1, <2>1 DEF TcpInv
  <2>3. sent[j] = (bytesOut - Len(buffer)) + j /\ j \in 1 .. n
    <3>1. j \in 1 .. n /\ j \in 1 .. Len(buffer)
      BY <1>2, <1>3
    <3> QED
      BY <1>2, <1>3, <3>1
  <2> QED
    BY <1>2, <2>1, <2>2, <2>3
<1>8. Increasing(wire')
  BY <1>1, <1>2, <1>3, <1>6, <1>7, IncreasingConcat DEF TcpInv
<1>9. wire' \in Seq(Nat) /\ \A i \in 1 .. Len(wire') : wire'[i] <= bytesOut
  <2>1. wire' \in Seq(Nat) /\ Range(wire') = Range(wire) \cup Range(sent)
    BY <1>1, <1>2, <1>3, RangeConcat
  <2>2. Range(wire') \subseteq 1 .. bytesOut
    BY <1>5, <2>1 DEF TcpInv
  <2>3. \A i \in 1 .. Len(wire') : wire'[i] \in Range(wire')
    BY <2>1 DEF Range
  <2> QED
    BY <1>2, <2>1, <2>2, <2>3
<1>10. Range(wire') = Range(wire) \cup Range(sent)
  BY <1>1, <1>2, <1>3, RangeConcat
<1> QED
  BY <1>1, <1>2, <1>5, <1>8, <1>9, <1>10 DEF TcpInv

LEMMA ClearKeeps ==
  ASSUME TcpInv, ClearBuffer
  PROVE  TcpInv'
<1>1. reactor = "sent" /\ buffer' = <<>> /\ reactor' = "select" /\ UNCHANGED <<wire, cut, bytesOut, socket>>
  BY DEF ClearBuffer, socketVars
<1>2. <<>> \in Seq(Nat) /\ Len(<<>>) = 0 /\ DOMAIN <<>> = {}
  OBVIOUS
<1>3. Range(<<>>) = {}
  BY <1>2 DEF Range
<1>4. bytesOut \in Nat /\ \A i \in 1 .. Len(wire) : wire[i] \in Nat /\ wire[i] <= bytesOut
  BY DEF TcpInv
<1>5. 1 .. bytesOut = Range(wire) \cup {} \cup cut
  BY <1>1 DEF TcpInv
<1> QED
  BY <1>1, <1>2, <1>3, <1>4, <1>5 DEF TcpInv

LEMMA TcpSteps == TcpInv /\ [TcpNext]_tcpVars => TcpInv'
<1> SUFFICES ASSUME TcpInv, [TcpNext]_tcpVars PROVE TcpInv'
  OBVIOUS
<1>1. ASSUME UNCHANGED <<wire, cut, buffer, bytesOut>>, reactor # "sent", reactor' # "sent", socket' # "new"
      PROVE  TcpInv'
  BY <1>1 DEF TcpInv
<1>2. ASSUME UNCHANGED <<wire, cut, buffer, bytesOut, reactor>>, socket' = "new" => socket = "new"
      PROVE  TcpInv'
  BY <1>2 DEF TcpInv
<1>3. CASE UNCHANGED tcpVars \/ Close \/ Callback
  BY <1>2, <1>3 DEF tcpVars, outVars, socketVars, Close, Callback
<1>4. CASE Connect
  <2>1. /\ UNCHANGED <<wire, cut, buffer, bytesOut>> /\ reactor' = "select" /\ socket' = "open"
        /\ reactor = "none"
    BY <1>4 DEF Connect, outVars, TcpInv
  <2>2. TcpInv'
    BY <2>1, <1>1
  <2> QED
    BY <2>2
<1>5. CASE OnReadComplete \/ OnWriteIdle \/ \E n \in 1 .. MaxArrived : OnRead(n)
  BY <1>2, <1>5 DEF OnReadComplete, OnWriteIdle, OnRead, outVars, socketVars
<1>6. CASE LockBuffer \/ SendThrows \/ ReactorEnds
  <2>1. /\ UNCHANGED <<wire, cut, buffer, bytesOut, socket>> /\ reactor \in {"select", "locked"}
        /\ reactor' \in {"select", "locked", "ended"}
    BY <1>6 DEF LockBuffer, SendThrows, ReactorEnds, Selects, outVars, socketVars
  <2>2. socket # "new"
    BY <2>1 DEF TcpInv
  <2> QED
    BY <1>1, <2>1, <2>2
<1> QED
  BY <1>3, <1>4, <1>5, <1>6, WriteKeeps, SendKeeps, ClearKeeps DEF TcpNext, Reactor

LEMMA WhatIsLeftFollows == TcpInv => WrittenGoesOut
<1> SUFFICES ASSUME TcpInv PROVE WrittenGoesOut
  OBVIOUS
<1>1. wire \in Seq(Nat) /\ buffer \in Seq(Nat) /\ bytesOut \in Nat /\ Len(buffer) \in Nat
  BY DEF TcpInv
<1>2. CASE reactor = "sent"
  <2>1. wire \o <<>> = wire
    BY <1>1
  <2> QED
    BY <1>2, <2>1 DEF TcpInv, WrittenGoesOut
<1>3. CASE reactor # "sent"
  <2>1. Increasing(buffer)
    <3>1. \A i \in 1 .. Len(buffer) : buffer[i] = (bytesOut - Len(buffer)) + i
      BY DEF TcpInv
    <3>2. DOMAIN buffer = 1 .. Len(buffer)
      BY <1>1
    <3> QED
      BY <1>1, <3>1, <3>2 DEF Increasing
  <2>2. \A i \in DOMAIN wire, j \in DOMAIN buffer : wire[i] < buffer[j]
    <3> TAKE i \in DOMAIN wire, j \in DOMAIN buffer
    <3>1. i \in 1 .. Len(wire) /\ j \in 1 .. Len(buffer) /\ wire[i] \in Nat
      BY <1>1
    <3>2. wire[i] <= bytesOut - Len(buffer) /\ buffer[j] = (bytesOut - Len(buffer)) + j
      BY <1>3, <3>1 DEF TcpInv
    <3> QED
      BY <1>1, <3>1, <3>2
  <2>3. Increasing(wire)
    BY DEF TcpInv
  <2>4. Increasing(wire \o buffer)
    BY <1>1, <2>1, <2>2, <2>3, IncreasingConcat
  <2> QED
    BY <1>3, <2>4 DEF TcpInv, WrittenGoesOut
<1> QED
  BY <1>2, <1>3

LEMMA TcpStep ==
  [NetworkNext]_<<part, httpVars, tcpVars>> => [TcpNext]_tcpVars
BY DEF NetworkNext, HttpWorks, TcpWorks

\* What write() accepted is sent in order and once, or was dropped by a send that took
\* a part: the mutex keeps a write out between the send and the clear of the buffer.
THEOREM WrittenOnceInOrder == NetworkSpec => []WrittenGoesOut
<1>1. NetworkInit => TcpInv
  BY TcpInitially DEF NetworkInit, NetworkStart
<1> QED
  BY <1>1, TcpSteps, TcpStep, WhatIsLeftFollows, PTL DEF NetworkSpec

-----------------------------------------------------------------------------
(* TCPSocket: what the callbacks are called with.                          *)

\* f adds up the numbers, one after the other.
AddsUp(f, ns) == f[0] = 0 /\ \A i \in 1 .. Len(ns) : f[i] = f[i - 1] + ns[i]

LEMMA SumExists ==
  ASSUME NEW ns \in Seq(Nat)
  PROVE  \E f \in [0 .. Len(ns) -> Nat] : AddsUp(f, ns)
<1>1. PICK n \in Nat : n = Len(ns)
  OBVIOUS
<1>2. \A i \in 1 .. n : ns[i] \in Nat
  BY <1>1
<1>3. PICK g : g = [p \in (1 .. n) \X Nat |-> p[2] + ns[p[1]]]
  OBVIOUS
<1>4. g \in [(1 .. n) \X Nat -> Nat]
  BY <1>2, <1>3
<1>5. \A i \in 1 .. n, s \in Nat : g[<<i, s>>] = s + ns[i]
  BY <1>3
<1>6. PICK f \in [0 .. n -> Nat] : Recursion(f, n, 0, g)
  BY <1>4, RecursionExists
<1>7. \A i \in 1 .. n : i - 1 \in 0 .. n
  BY <1>1
<1>8. \A i \in 1 .. n : f[i - 1] \in Nat
  BY <1>6, <1>7
<1>9. AddsUp(f, ns)
  BY <1>1, <1>5, <1>6, <1>8 DEF AddsUp, Recursion
<1> QED
  BY <1>1, <1>6, <1>9

LEMMA TotalAddsUp ==
  ASSUME NEW ns \in Seq(Nat), NEW f \in [0 .. Len(ns) -> Nat], AddsUp(f, ns)
  PROVE  Total(ns) = f[Len(ns)]
<1>1. PICK n \in Nat : n = Len(ns)
  OBVIOUS
<1> DEFINE sum[i \in 0 .. Len(ns)] == IF i = 0 THEN 0 ELSE sum[i - 1] + ns[i]
<1>2. Total(ns) = sum[n]
  BY <1>1 DEF Total
<1>3. \E k : k = [i \in 0 .. Len(ns) |-> IF i = 0 THEN 0 ELSE k[i - 1] + ns[i]]
  <2>1. \A i \in 0 .. n : i = 0 \/ i \in 1 .. n
    BY <1>1
  <2>2. f = [i \in 0 .. Len(ns) |-> IF i = 0 THEN 0 ELSE f[i - 1] + ns[i]]
    BY <1>1, <2>1 DEF AddsUp
  <2> QED
    BY <2>2
<1>4. sum = [i \in 0 .. Len(ns) |-> IF i = 0 THEN 0 ELSE sum[i - 1] + ns[i]]
  BY <1>3, Zenon
<1> HIDE DEF sum
<1>5. f[0] = sum[0]
  <2>1. 0 \in 0 .. n
    BY <1>1
  <2> QED
    BY <1>1, <1>4, <2>1 DEF AddsUp
<1>6. ASSUME NEW i \in 0 .. n - 1, f[i] = sum[i] PROVE f[i + 1] = sum[i + 1]
  <2>1. i + 1 \in 0 .. n /\ i + 1 \in 1 .. n /\ i + 1 # 0 /\ (i + 1) - 1 = i
    BY <1>1
  <2>2. f[i + 1] = f[i] + ns[i + 1]
    BY <1>1, <2>1 DEF AddsUp
  <2>3. sum[i + 1] = sum[i] + ns[i + 1]
    BY <1>1, <1>4, <2>1
  <2> QED
    BY <1>6, <2>2, <2>3
<1>7. \A i \in 0 .. n : f[i] = sum[i]
  BY <1>5, <1>6, Agree, ZenonT(40)
<1>8. n \in 0 .. n
  OBVIOUS
<1> QED
  BY <1>1, <1>2, <1>7, <1>8

LEMMA TotalOfNone == Total(<<>>) = 0
<1>1. <<>> \in Seq(Nat) /\ Len(<<>>) = 0
  OBVIOUS
<1>2. PICK f \in [0 .. 0 -> Nat] : AddsUp(f, <<>>)
  BY <1>1, SumExists
<1>3. Total(<<>>) = f[0]
  BY <1>1, <1>2, TotalAddsUp
<1> QED
  BY <1>2, <1>3 DEF AddsUp

LEMMA TotalAppend ==
  ASSUME NEW ns \in Seq(Nat), NEW k \in Nat
  PROVE  Total(ns) \in Nat /\ Total(Append(ns, k)) = Total(ns) + k
<1>1. PICK n \in Nat : n = Len(ns)
  OBVIOUS
<1>2. PICK f \in [0 .. n -> Nat] : AddsUp(f, ns)
  BY <1>1, SumExists
<1>3. Total(ns) = f[n] /\ n \in 0 .. n
  BY <1>1, <1>2, TotalAddsUp
<1>4. PICK s \in Seq(Nat) : s = Append(ns, k)
  BY OneMore
<1>5. Len(s) = n + 1 /\ s[n + 1] = k /\ \A i \in 1 .. n : s[i] = ns[i]
  BY <1>1, <1>4, OneMore
<1>6. PICK h \in [0 .. n + 1 -> Nat] : AddsUp(h, s)
  BY <1>5, SumExists
<1>7. Total(s) = h[n + 1]
  BY <1>5, <1>6, TotalAddsUp
<1>8. f[0] = h[0]
  BY <1>2, <1>6 DEF AddsUp
<1>9. ASSUME NEW i \in 0 .. n - 1, f[i] = h[i] PROVE f[i + 1] = h[i + 1]
  <2>1. i + 1 \in 1 .. n /\ i + 1 \in 1 .. n + 1 /\ (i + 1) - 1 = i
    OBVIOUS
  <2>2. f[i + 1] = f[i] + ns[i + 1]
    BY <1>1, <1>2, <2>1 DEF AddsUp
  <2>3. h[i + 1] = h[i] + s[i + 1]
    BY <1>5, <1>6, <2>1 DEF AddsUp
  <2> QED
    BY <1>5, <1>9, <2>1, <2>2, <2>3
<1>10. f[n] = h[n]
  <2>1. \A i \in 0 .. n : f[i] = h[i]
    BY <1>8, <1>9, Agree, ZenonT(40)
  <2> QED
    BY <1>3, <2>1
<1>11. h[n + 1] = h[n] + s[n + 1]
  <2>1. n + 1 \in 1 .. n + 1 /\ (n + 1) - 1 = n
    OBVIOUS
  <2> QED
    BY <1>5, <1>6, <2>1 DEF AddsUp
<1> QED
  BY <1>2, <1>3, <1>4, <1>5, <1>7, <1>10, <1>11

LEMMA TotalOfMore ==
  ASSUME NEW k \in Nat, NEW ns \in Seq(Nat)
  PROVE  Total(<<k>> \o ns) = k + Total(ns)
<1> DEFINE P == {t \in Seq(Nat) : Total(<<k>> \o t) = k + Total(t)}
<1>1. <<>> \in P
  <2>1. <<>> \in Seq(Nat) /\ Append(<<>>, k) = <<k>> /\ <<k>> \o <<>> = <<k>>
    OBVIOUS
  <2>2. Total(Append(<<>>, k)) = 0 + k
    BY <2>1, TotalAppend, TotalOfNone
  <2> QED
    BY <2>1, <2>2, TotalOfNone
<1>2. ASSUME NEW t \in Seq(Nat), NEW e \in Nat, t \in P PROVE Append(t, e) \in P
  <2>1. PICK u \in Seq(Nat) : u = <<k>> \o t
    <3>1. <<k>> \in Seq(Nat)
      OBVIOUS
    <3>2. <<k>> \o t \in Seq(Nat)
      BY <3>1, Concatenated
    <3> QED
      BY <3>2
  <2>2. <<k>> \o Append(t, e) = Append(u, e) /\ Append(t, e) \in Seq(Nat)
    BY <2>1
  <2>3. Total(Append(u, e)) = Total(u) + e
    BY TotalAppend
  <2>4. Total(Append(t, e)) = Total(t) + e /\ Total(t) \in Nat
    BY TotalAppend
  <2>5. Total(u) = k + Total(t)
    BY <1>2, <2>1
  <2>6. Total(Append(u, e)) = k + Total(Append(t, e))
    BY <2>3, <2>4, <2>5
  <2> QED
    BY <2>2, <2>6
<1>3. Seq(Nat) \subseteq P
  <2> HIDE DEF P
  <2> QED
    BY <1>1, <1>2, SequenceInduction
<1> QED
  BY <1>3

-----------------------------------------------------------------------------
(* TCPSocket: the calls that the main thread is asked for.                 *)

Asked == [name : {"onRead"}, text : Seq(Nat)] \cup [name : {"onWrite"}, count : Nat]
           \cup [name : {"event"}]

TextIn(call) == IF call.name = "onRead" THEN call.text ELSE <<>>
CountIn(call) == IF call.name = "onWrite" THEN call.count ELSE 0
TextsIn(q) == [i \in DOMAIN q |-> TextIn(q[i])]
CountsIn(q) == [i \in DOMAIN q |-> CountIn(q[i])]

LEMMA InCall == ASSUME NEW e \in Asked PROVE TextIn(e) \in Seq(Nat) /\ CountIn(e) \in Nat
<1>1. <<>> \in Seq(Nat)
  OBVIOUS
<1>2. CASE e \in [name : {"onRead"}, text : Seq(Nat)]
  BY <1>2 DEF TextIn, CountIn
<1>3. CASE e \in [name : {"onWrite"}, count : Nat]
  BY <1>1, <1>3 DEF TextIn, CountIn
<1>4. CASE e \in [name : {"event"}]
  BY <1>1, <1>4 DEF TextIn, CountIn
<1> QED
  BY <1>2, <1>3, <1>4 DEF Asked

LEMMA InCalls ==
  ASSUME NEW q \in Seq(Asked)
  PROVE  /\ TextsIn(q) \in Seq(Seq(Nat)) /\ CountsIn(q) \in Seq(Nat)
         /\ Len(TextsIn(q)) = Len(q) /\ Len(CountsIn(q)) = Len(q)
         /\ \A i \in 1 .. Len(q) : TextsIn(q)[i] = TextIn(q[i]) /\ CountsIn(q)[i] = CountIn(q[i])
<1>1. PICK n \in Nat : n = Len(q)
  OBVIOUS
<1>2. DOMAIN q = 1 .. n /\ \A i \in 1 .. n : q[i] \in Asked
  BY <1>1
<1>3. PICK T : T = Seq(Nat)
  OBVIOUS
<1>4. \A i \in 1 .. n : TextIn(q[i]) \in T /\ CountIn(q[i]) \in Nat
  BY <1>2, <1>3, InCall
<1>5. TextsIn(q) \in Seq(T) /\ Len(TextsIn(q)) = n /\ \A i \in 1 .. n : TextsIn(q)[i] = TextIn(q[i])
  BY <1>2, <1>4 DEF TextsIn
<1>6. CountsIn(q) \in Seq(Nat) /\ Len(CountsIn(q)) = n /\ \A i \in 1 .. n : CountsIn(q)[i] = CountIn(q[i])
  BY <1>2, <1>4 DEF CountsIn
<1> QED
  BY <1>1, <1>3, <1>5, <1>6

\* One more call is asked for.
LEMMA CallMore ==
  ASSUME NEW q \in Seq(Asked), NEW e \in Asked
  PROVE  /\ FlattenSeq(TextsIn(q)) \in Seq(Nat) /\ Total(CountsIn(q)) \in Nat
         /\ FlattenSeq(TextsIn(Append(q, e))) = FlattenSeq(TextsIn(q)) \o TextIn(e)
         /\ Total(CountsIn(Append(q, e))) = Total(CountsIn(q)) + CountIn(e)
<1>1. PICK n \in Nat : n = Len(q)
  OBVIOUS
<1>2. PICK r : r = Append(q, e)
  OBVIOUS
<1>3. /\ r \in Seq(Asked) /\ Len(r) = n + 1 /\ r[n + 1] = e
      /\ \A i \in 1 .. n : r[i] = q[i]
  BY <1>1, <1>2, OneMore
<1>4. PICK T : T = Seq(Nat)
  OBVIOUS
<1>5. \A i \in 1 .. n + 1 : i \in 1 .. n \/ i = n + 1
  OBVIOUS
<1>6. TextIn(e) \in T /\ CountIn(e) \in Nat
  BY <1>4, InCall
<1>7. TextsIn(r) = Append(TextsIn(q), TextIn(e)) /\ TextsIn(q) \in Seq(T)
  <2>1. PICK a \in Seq(T) : a = TextsIn(q)
    BY <1>4, InCalls
  <2>2. PICK b \in Seq(T) : b = TextsIn(r)
    BY <1>3, <1>4, InCalls
  <2>3. Len(a) = n /\ \A i \in 1 .. n : a[i] = TextIn(q[i])
    BY <1>1, <2>1, InCalls
  <2>4. Len(b) = n + 1 /\ \A i \in 1 .. n + 1 : b[i] = TextIn(r[i])
    BY <1>3, <2>2, InCalls
  <2>5. PICK c \in Seq(T) : c = Append(a, TextIn(e))
    BY <1>6, OneMore
  <2>6. Len(c) = n + 1 /\ c[n + 1] = TextIn(e) /\ \A i \in 1 .. n : c[i] = a[i]
    BY <1>6, <2>3, <2>5, OneMore
  <2>7. ASSUME NEW i \in 1 .. n + 1 PROVE b[i] = c[i]
    <3>1. CASE i = n + 1
      BY <1>3, <2>4, <2>6, <3>1
    <3>2. CASE i \in 1 .. n
      BY <1>3, <2>3, <2>4, <2>6, <3>2
    <3> QED
      BY <1>5, <3>1, <3>2
  <2>8. b = c
    BY <2>4, <2>6, <2>7
  <2> QED
    BY <2>1, <2>2, <2>5, <2>8
<1>8. CountsIn(r) = Append(CountsIn(q), CountIn(e)) /\ CountsIn(q) \in Seq(Nat)
  <2>1. PICK a \in Seq(Nat) : a = CountsIn(q)
    BY InCalls
  <2>2. PICK b \in Seq(Nat) : b = CountsIn(r)
    BY <1>3, InCalls
  <2>3. Len(a) = n /\ \A i \in 1 .. n : a[i] = CountIn(q[i])
    BY <1>1, <2>1, InCalls
  <2>4. Len(b) = n + 1 /\ \A i \in 1 .. n + 1 : b[i] = CountIn(r[i])
    BY <1>3, <2>2, InCalls
  <2>5. PICK c \in Seq(Nat) : c = Append(a, CountIn(e))
    BY <1>6, OneMore
  <2>6. Len(c) = n + 1 /\ c[n + 1] = CountIn(e) /\ \A i \in 1 .. n : c[i] = a[i]
    <3>1. PICK k \in Nat : k = CountIn(e)
      BY <1>6
    <3>2. /\ Len(Append(a, k)) = Len(a) + 1 /\ Append(a, k)[Len(a) + 1] = k
          /\ \A i \in 1 .. Len(a) : Append(a, k)[i] = a[i]
      BY OneMore
    <3> QED
      BY <2>3, <2>5, <3>1, <3>2
  <2>7. ASSUME NEW i \in 1 .. n + 1 PROVE b[i] = c[i]
    <3>1. CASE i = n + 1
      BY <1>3, <2>4, <2>6, <3>1
    <3>2. CASE i \in 1 .. n
      BY <1>3, <2>3, <2>4, <2>6, <3>2
    <3> QED
      BY <1>5, <3>1, <3>2
  <2>8. b = c
    BY <2>4, <2>6, <2>7
  <2> QED
    BY <2>1, <2>2, <2>5, <2>8
<1>9. PICK a \in Seq(Seq(Nat)) : a = TextsIn(q)
  BY <1>4, <1>7
<1>10. PICK s \in Seq(Nat) : s = TextIn(e)
  BY <1>4, <1>6
<1>11. FlattenSeq(a) \in Seq(Nat) /\ FlattenSeq(Append(a, s)) = FlattenSeq(a) \o s
  BY FlattenAppend
<1>12. Total(CountsIn(q)) \in Nat /\ Total(Append(CountsIn(q), CountIn(e))) = Total(CountsIn(q)) + CountIn(e)
  BY <1>6, <1>8, TotalAppend
<1> QED
  BY <1>2, <1>7, <1>8, <1>9, <1>10, <1>11, <1>12

\* The first call is made.
LEMMA CallLess ==
  ASSUME NEW q \in Seq(Asked), q # <<>>
  PROVE  /\ Head(q) \in Asked /\ Tail(q) \in Seq(Asked)
         /\ FlattenSeq(TextsIn(q)) = TextIn(Head(q)) \o FlattenSeq(TextsIn(Tail(q)))
         /\ Total(CountsIn(q)) = CountIn(Head(q)) + Total(CountsIn(Tail(q)))
<1>1. PICK n \in Nat \ {0} : n = Len(q)
  <2>1. Len(q) \in Nat
    OBVIOUS
  <2>2. Len(q) # 0
    BY NothingIn
  <2> QED
    BY <2>1, <2>2
<1>2. PICK e \in Asked : e = Head(q)
  BY HeadAndTail
<1>3. PICK r \in Seq(Asked) : r = Tail(q)
  BY HeadAndTail
<1>4. Len(r) = n - 1 /\ q[1] = e /\ \A i \in 1 .. n - 1 : r[i] = q[i + 1]
  BY <1>1, <1>2, <1>3
<1>5. PICK T : T = Seq(Nat)
  OBVIOUS
<1>6. \A i \in 1 .. n : i = 1 \/ (i - 1 \in 1 .. n - 1 /\ (i - 1) + 1 = i /\ i - 1 + 1 = i)
  BY <1>1
<1>7. TextIn(e) \in T /\ CountIn(e) \in Nat
  BY <1>5, InCall
<1>8. TextsIn(q) = <<TextIn(e)>> \o TextsIn(r) /\ TextsIn(r) \in Seq(T)
  <2>1. PICK a \in Seq(T) : a = TextsIn(r)
    BY <1>5, InCalls
  <2>2. PICK b \in Seq(T) : b = TextsIn(q)
    BY <1>5, InCalls
  <2>3. Len(a) = n - 1 /\ \A i \in 1 .. n - 1 : a[i] = TextIn(r[i])
    BY <1>4, <2>1, InCalls
  <2>4. Len(b) = n /\ \A i \in 1 .. n : b[i] = TextIn(q[i])
    BY <1>1, <2>2, InCalls
  <2>5. PICK x \in T : x = TextIn(e)
    BY <1>7
  <2>6. PICK c \in Seq(T) : c = <<x>> \o a
    <3>1. <<x>> \in Seq(T)
      OBVIOUS
    <3>2. <<x>> \o a \in Seq(T)
      BY <3>1, Concatenated
    <3> QED
      BY <3>2
  <2>7. Len(c) = n /\ c[1] = x /\ \A i \in 1 .. n - 1 : c[1 + i] = a[i]
    <3>1. <<x>> \in Seq(T) /\ Len(<<x>>) = 1 /\ <<x>>[1] = x /\ 1 \in 1 .. 1
      OBVIOUS
    <3>2. /\ Len(<<x>> \o a) = 1 + Len(a) /\ (<<x>> \o a)[1] = x
          /\ \A i \in 1 .. Len(a) : (<<x>> \o a)[1 + i] = a[i]
      BY <3>1, Concatenated
    <3> QED
      BY <2>3, <2>6, <3>2
  <2>8. ASSUME NEW i \in 1 .. n PROVE b[i] = c[i]
    <3>1. CASE i = 1
      BY <1>4, <2>4, <2>5, <2>7, <3>1
    <3>2. CASE i # 1
      <4>1. PICK j \in 1 .. n - 1 : i = j + 1 /\ i = 1 + j
        BY <1>6, <3>2
      <4>2. c[i] = a[j] /\ a[j] = TextIn(r[j]) /\ r[j] = q[i]
        BY <1>4, <2>3, <2>7, <4>1
      <4> QED
        BY <2>4, <4>2
    <3> QED
      BY <3>1, <3>2
  <2>9. b = c
    BY <2>4, <2>7, <2>8, SameSequence
  <2> QED
    BY <2>1, <2>2, <2>5, <2>6, <2>9
<1>9. CountsIn(q) = <<CountIn(e)>> \o CountsIn(r) /\ CountsIn(r) \in Seq(Nat)
  <2>1. PICK a \in Seq(Nat) : a = CountsIn(r)
    BY InCalls
  <2>2. PICK b \in Seq(Nat) : b = CountsIn(q)
    BY InCalls
  <2>3. Len(a) = n - 1 /\ \A i \in 1 .. n - 1 : a[i] = CountIn(r[i])
    BY <1>4, <2>1, InCalls
  <2>4. Len(b) = n /\ \A i \in 1 .. n : b[i] = CountIn(q[i])
    BY <1>1, <2>2, InCalls
  <2>5. PICK x \in Nat : x = CountIn(e)
    BY <1>7
  <2>6. PICK c \in Seq(Nat) : c = <<x>> \o a
    <3>1. <<x>> \in Seq(Nat)
      OBVIOUS
    <3>2. <<x>> \o a \in Seq(Nat)
      BY <3>1, Concatenated
    <3> QED
      BY <3>2
  <2>7. Len(c) = n /\ c[1] = x /\ \A i \in 1 .. n - 1 : c[1 + i] = a[i]
    <3>1. <<x>> \in Seq(Nat) /\ Len(<<x>>) = 1 /\ <<x>>[1] = x /\ 1 \in 1 .. 1
      OBVIOUS
    <3>2. /\ Len(<<x>> \o a) = 1 + Len(a) /\ (<<x>> \o a)[1] = x
          /\ \A i \in 1 .. Len(a) : (<<x>> \o a)[1 + i] = a[i]
      BY <3>1, Concatenated
    <3> QED
      BY <2>3, <2>6, <3>2
  <2>8. ASSUME NEW i \in 1 .. n PROVE b[i] = c[i]
    <3>1. CASE i = 1
      BY <1>4, <2>4, <2>5, <2>7, <3>1
    <3>2. CASE i # 1
      <4>1. PICK j \in 1 .. n - 1 : i = j + 1 /\ i = 1 + j
        BY <1>6, <3>2
      <4>2. c[i] = a[j] /\ a[j] = CountIn(r[j]) /\ r[j] = q[i]
        BY <1>4, <2>3, <2>7, <4>1
      <4> QED
        BY <2>4, <4>2
    <3> QED
      BY <3>1, <3>2
  <2>9. b = c
    BY <2>4, <2>7, <2>8, SameSequence
  <2> QED
    BY <2>1, <2>2, <2>5, <2>6, <2>9
<1>10. PICK a \in Seq(Seq(Nat)) : a = TextsIn(r)
  BY <1>5, <1>8
<1>11. PICK s \in Seq(Nat) : s = TextIn(e)
  BY <1>5, <1>7
<1>12. FlattenSeq(<<s>> \o a) = s \o FlattenSeq(a)
  <2>1. <<>> \in Seq(Seq(Nat)) /\ Append(<<>>, s) = <<s>> /\ <<>> \o s = s
    OBVIOUS
  <2>2. FlattenSeq(<<s>>) = s
    BY <2>1, FlattenAppend, FlattenEmpty
  <2>3. <<s>> \in Seq(Seq(Nat))
    OBVIOUS
  <2>4. FlattenSeq(<<s>> \o a) = FlattenSeq(<<s>>) \o FlattenSeq(a)
    BY <2>3, FlattenConcat
  <2> QED
    BY <2>2, <2>4
<1>13. Total(<<CountIn(e)>> \o CountsIn(r)) = CountIn(e) + Total(CountsIn(r))
  BY <1>7, <1>9, TotalOfMore
<1> QED
  BY <1>2, <1>3, <1>8, <1>9, <1>10, <1>11, <1>12, <1>13

-----------------------------------------------------------------------------
(* TCPSocket: the callbacks follow what arrives and what is sent.          *)

AllRead == read \o FlattenSeq(TextsIn(asked))
AllWrote == wrote + Total(CountsIn(asked))
BeingTold == IF reactor = "sent" THEN count ELSE 0
NoneMissing == \A b \in 1 .. arrived : b \in Range(AllRead) \/ BehindNul(b)

CallsInv ==
  /\ asked \in Seq(Asked) /\ read \in Seq(Nat) /\ wrote \in Nat
  /\ arrived \in Nat /\ count \in Nat
  /\ Range(AllRead) \subseteq 1 .. arrived /\ Increasing(AllRead) /\ NoneMissing
  /\ AllWrote + BeingTold = Len(wire)

LEMMA AsIfTold ==
  /\ FlattenSeq(TextsToCome) = FlattenSeq(TextsIn(asked))
  /\ Total(CountsToCome) = Total(CountsIn(asked))
BY DEF TextsToCome, CountsToCome, TextsIn, CountsIn, TextIn, CountIn

LEMMA NumbersAssoc ==
  ASSUME NEW r \in Seq(Nat), NEW s \in Seq(Nat), NEW t \in Seq(Nat)
  PROVE  (r \o s) \o t = r \o (s \o t)
OBVIOUS

\* What a call that is asked for brings.
LEMMA CallAsked ==
  ASSUME CallsInv, NEW e \in Asked, asked' = Append(asked, e), UNCHANGED <<read, wrote>>
  PROVE  /\ asked' \in Seq(Asked)
         /\ AllRead \in Seq(Nat) /\ AllRead' = AllRead \o TextIn(e)
         /\ AllWrote \in Nat /\ AllWrote' = AllWrote + CountIn(e)
<1>1. asked \in Seq(Asked) /\ read \in Seq(Nat) /\ wrote \in Nat
  BY DEF CallsInv
<1>2. PICK q \in Seq(Asked) : q = asked
  BY <1>1
<1>3. PICK f \in Seq(Nat) : f = FlattenSeq(TextsIn(q))
  BY CallMore
<1>4. PICK k \in Nat : k = Total(CountsIn(q))
  BY CallMore
<1>5. PICK t \in Seq(Nat) : t = TextIn(e)
  BY InCall
<1>6. PICK c \in Nat : c = CountIn(e)
  BY InCall
<1>7. /\ FlattenSeq(TextsIn(Append(q, e))) = f \o t
      /\ Total(CountsIn(Append(q, e))) = k + c
  BY <1>3, <1>4, <1>5, <1>6, CallMore
<1>8. Append(q, e) \in Seq(Asked)
  BY OneMore
<1>9. PICK r \in Seq(Nat) : r = read
  BY <1>1
<1>10. (r \o f) \o t = r \o (f \o t)
  BY NumbersAssoc
<1>11. AllRead = r \o f /\ AllRead' = r \o (f \o t)
  BY <1>2, <1>3, <1>7, <1>9 DEF AllRead
<1>12. r \o f \in Seq(Nat)
  BY Concatenated
<1>13. AllWrote = wrote + k /\ AllWrote' = wrote + (k + c)
  BY <1>2, <1>4, <1>7 DEF AllWrote
<1>14. wrote + k \in Nat /\ wrote + (k + c) = (wrote + k) + c
  BY <1>1
<1> QED
  BY <1>2, <1>5, <1>6, <1>8, <1>10, <1>11, <1>12, <1>13, <1>14

\* A call that brings no text.
LEMMA NoTextAsked ==
  ASSUME CallsInv, NEW e \in Asked, TextIn(e) = <<>>, asked' = Append(asked, e),
         UNCHANGED <<read, wrote, inVars, wire>>, count' \in Nat,
         CountIn(e) + BeingTold' = BeingTold
  PROVE  CallsInv'
<1>1. /\ asked' \in Seq(Asked)
      /\ AllRead \in Seq(Nat) /\ AllRead' = AllRead \o <<>>
      /\ AllWrote \in Nat /\ AllWrote' = AllWrote + CountIn(e)
  BY CallAsked
<1>2. AllRead' = AllRead
  BY <1>1, Concatenated
<1>3. BeingTold' \in Nat /\ CountIn(e) \in Nat
  BY InCall DEF BeingTold
<1>4. AllWrote' + BeingTold' = Len(wire')
  <2>1. (AllWrote + CountIn(e)) + BeingTold' = AllWrote + (CountIn(e) + BeingTold')
    BY <1>1, <1>3
  <2> QED
    BY <1>1, <2>1 DEF CallsInv
<1> QED
  BY <1>1, <1>2, <1>4 DEF CallsInv, NoneMissing, BehindNul, inVars

LEMMA SameCalls ==
  ASSUME CallsInv, UNCHANGED <<asked, read, wrote, inVars, count, wire>>, BeingTold' = BeingTold
  PROVE  CallsInv'
BY DEF CallsInv, AllRead, AllWrote, NoneMissing, BehindNul, inVars, TextsIn, CountsIn

\* The string ends at the first NUL: what it holds are the first bytes of the piece.
LEMMA TextOfPiece ==
  ASSUME NEW a \in Nat, NEW n \in Nat \ {0}
  PROVE  LET t == Text([i \in 1 .. n |-> a + i])
         IN /\ t \in Seq(Nat) /\ \A i \in DOMAIN t : t[i] = a + i /\ t[i] \in a + 1 .. a + n
            /\ \A b \in a + 1 .. a + n :
                 b \in Range(t) \/ \E z \in Nuls \cap (a + 1 .. a + n) : z <= b
<1> DEFINE bytes == [i \in 1 .. n |-> a + i]
           I == {i \in 1 .. Len(bytes) : bytes[i] \in Nuls}
           nul == SelectInSeq(bytes, LAMBDA b : b \in Nuls)
<1>1. nul = IF I # {} THEN Min(I) ELSE 0
  BY DEF SelectInSeq
<1>2. /\ bytes \in Seq(Nat) /\ Len(bytes) = n /\ DOMAIN bytes = 1 .. n
      /\ \A i \in 1 .. n : bytes[i] = a + i
  OBVIOUS
<1>3. Text(bytes) = IF nul = 0 THEN bytes ELSE SubSeq(bytes, 1, nul - 1)
  BY DEF Text
<1>4. I \subseteq 1 .. n /\ \A i \in I : a + i \in Nuls
  BY <1>2
<1> HIDE DEF nul, I, bytes
<1>5. ASSUME NEW b \in a + 1 .. a + n PROVE \E j \in 1 .. n : b = a + j
  <2>1. b - a \in 1 .. n /\ b = a + (b - a)
    OBVIOUS
  <2> QED
    BY <2>1
<1>6. \A i \in 1 .. n : a + i \in a + 1 .. a + n
  OBVIOUS
<1>7. CASE I = {}
  <2>1. Text(bytes) = bytes
    BY <1>1, <1>3, <1>7
  <2>2. ASSUME NEW b \in a + 1 .. a + n PROVE b \in Range(bytes)
    <3>1. PICK j \in 1 .. n : b = a + j
      BY <1>5
    <3>2. j \in DOMAIN bytes /\ bytes[j] = b
      BY <1>2, <3>1
    <3> QED
      BY <3>2 DEF Range
  <2> QED
    BY <1>2, <1>6, <2>1, <2>2 DEF bytes
<1>8. CASE I # {}
  <2>1. nul \in I
    <3>1. I \subseteq Nat
      BY <1>4
    <3> QED
      BY <1>1, <1>8, <3>1, MinIsIn
  <2>2. PICK k \in 1 .. n : k = nul
    BY <1>4, <2>1
  <2>3. k # 0
    OBVIOUS
  <2>4. PICK t : t = SubSeq(bytes, 1, k - 1)
    OBVIOUS
  <2>5. /\ t \in Seq(Nat) /\ DOMAIN t = 1 .. k - 1
        /\ \A i \in 1 .. k - 1 : t[i] = bytes[i] /\ i \in 1 .. n
    BY <1>2, <2>4
  <2>6. Text(bytes) = t
    BY <1>3, <2>2, <2>3, <2>4
  <2>7. \A i \in 1 .. k - 1 : t[i] = a + i /\ t[i] \in a + 1 .. a + n
    BY <1>2, <1>6, <2>5
  <2>8. ASSUME NEW b \in a + 1 .. a + n
        PROVE  b \in Range(t) \/ \E z \in Nuls \cap (a + 1 .. a + n) : z <= b
    <3>1. PICK j \in 1 .. n : b = a + j
      BY <1>5
    <3>2. CASE j < k
      <4>1. j \in 1 .. k - 1
        BY <3>2
      <4> QED
        BY <2>5, <2>7, <3>1, <4>1 DEF Range
    <3>3. CASE ~(j < k)
      <4>1. a + k \in Nuls /\ a + k <= b /\ a + k \in a + 1 .. a + n
        BY <1>4, <1>6, <2>1, <2>2, <3>1, <3>3
      <4> QED
        BY <4>1
    <3> QED
      BY <3>2, <3>3
  <2> QED
    BY <2>5, <2>6, <2>7, <2>8 DEF bytes
<1> QED
  BY <1>7, <1>8

LEMMA ReadAsked ==
  ASSUME CallsInv, NEW n \in 1 .. MaxArrived, OnRead(n)
  PROVE  CallsInv'
<1>1. PICK t : t = Text([i \in 1 .. n |-> arrived + i])
  OBVIOUS
<1>2. PICK e : e = [name |-> "onRead", text |-> t]
  OBVIOUS
<1>3. /\ arrived' = arrived + n /\ asked' = Append(asked, e)
      /\ pieces' = pieces \cup {arrived + 1 .. arrived + n}
      /\ UNCHANGED <<read, wrote, count, wire, reactor>>
  BY <1>1, <1>2 DEF OnRead, Ask, outVars
<1>4. arrived \in Nat /\ n \in Nat \ {0}
  BY TcpAssumption DEF CallsInv
<1>5. /\ t \in Seq(Nat)
      /\ \A i \in DOMAIN t : t[i] = arrived + i /\ t[i] \in arrived + 1 .. arrived + n
      /\ \A b \in arrived + 1 .. arrived + n :
           b \in Range(t) \/ \E z \in Nuls \cap (arrived + 1 .. arrived + n) : z <= b
  BY <1>1, <1>4, TextOfPiece
<1>6. e \in Asked /\ TextIn(e) = t /\ CountIn(e) = 0
  BY <1>2, <1>5 DEF Asked, TextIn, CountIn
<1>7. /\ asked' \in Seq(Asked)
      /\ AllRead \in Seq(Nat) /\ AllRead' = AllRead \o t
      /\ AllWrote \in Nat /\ AllWrote' = AllWrote + 0
  BY <1>3, <1>6, CallAsked
<1>8. PICK all \in Seq(Nat) : all = AllRead
  BY <1>7
<1>9. Range(all) \subseteq 1 .. arrived /\ Increasing(all)
  BY <1>8 DEF CallsInv
<1>10. Range(all \o t) = Range(all) \cup Range(t)
  BY <1>5, RangeConcat
<1>11. Range(t) \subseteq arrived + 1 .. arrived + n
  BY <1>5 DEF Range
<1>12. Range(all \o t) \subseteq 1 .. arrived + n
  <2>1. 1 .. arrived \subseteq 1 .. arrived + n /\ arrived + 1 .. arrived + n \subseteq 1 .. arrived + n
    BY <1>4
  <2> QED
    BY <1>9, <1>10, <1>11, <2>1
<1>13. Increasing(all \o t)
  <2>1. Increasing(t)
    <3> SUFFICES ASSUME NEW i \in DOMAIN t, NEW j \in DOMAIN t, i < j PROVE t[i] < t[j]
      BY DEF Increasing
    <3>1. i \in Nat /\ j \in Nat /\ t[i] = arrived + i /\ t[j] = arrived + j
      BY <1>5
    <3> QED
      BY <1>4, <3>1
  <2>2. \A i \in DOMAIN all, j \in DOMAIN t : all[i] < t[j]
    <3> SUFFICES ASSUME NEW i \in DOMAIN all, NEW j \in DOMAIN t PROVE all[i] < t[j]
      OBVIOUS
    <3>1. all[i] \in 1 .. arrived
      BY <1>9 DEF Range
    <3>2. t[j] \in arrived + 1 .. arrived + n
      BY <1>5
    <3> QED
      BY <1>4, <3>1, <3>2
  <2> QED
    BY <1>5, <1>9, <2>1, <2>2, IncreasingConcat
<1>14. ASSUME NEW b \in 1 .. arrived + n PROVE b \in Range(all \o t) \/ BehindNul(b)'
  <2>1. b \in 1 .. arrived \/ b \in arrived + 1 .. arrived + n
    BY <1>4
  <2>2. CASE b \in 1 .. arrived
    <3>1. b \in Range(all) \/ BehindNul(b)
      BY <1>8, <2>2 DEF CallsInv, NoneMissing
    <3>2. BehindNul(b) => BehindNul(b)'
      BY <1>3 DEF BehindNul
    <3> QED
      BY <1>10, <3>1, <3>2
  <2>3. CASE b \in arrived + 1 .. arrived + n
    <3>1. PICK p : p = arrived + 1 .. arrived + n
      OBVIOUS
    <3>2. p \in pieces' /\ b \in p
      BY <1>3, <2>3, <3>1
    <3>3. b \in Range(t) \/ \E z \in Nuls \cap p : z <= b
      BY <1>5, <2>3, <3>1
    <3> QED
      BY <1>10, <3>2, <3>3 DEF BehindNul
  <2> QED
    BY <2>1, <2>2, <2>3
<1>15. NoneMissing'
  BY <1>3, <1>7, <1>8, <1>14 DEF NoneMissing
<1>16. BeingTold' = BeingTold /\ AllWrote' = AllWrote
  BY <1>3, <1>7 DEF BeingTold
<1>17. arrived' \in Nat
  BY <1>3, <1>4
<1> QED
  BY <1>3, <1>7, <1>8, <1>12, <1>13, <1>15, <1>16, <1>17 DEF CallsInv

LEMMA CallMade ==
  ASSUME CallsInv, Callback
  PROVE  CallsInv'
<1>1. /\ asked # <<>> /\ asked' = Tail(asked)
      /\ wrote' = IF Head(asked).name = "onWrite" THEN wrote + Head(asked).count ELSE wrote
      /\ read' = IF Head(asked).name = "onRead" THEN read \o Head(asked).text ELSE read
      /\ UNCHANGED <<inVars, count, wire, reactor>>
  BY DEF Callback, outVars
<1>2. PICK q \in Seq(Asked) : q = asked
  BY DEF CallsInv
<1>3. PICK r \in Seq(Nat) : r = read
  BY DEF CallsInv
<1>4. PICK e \in Asked : e = Head(q)
  BY <1>1, <1>2, CallLess
<1>5. PICK p \in Seq(Asked) : p = Tail(q)
  BY <1>1, <1>2, CallLess
<1>6. PICK t \in Seq(Nat) : t = TextIn(e)
  BY InCall
<1>7. PICK c \in Nat : c = CountIn(e)
  BY InCall
<1>8. PICK f \in Seq(Nat) : f = FlattenSeq(TextsIn(p))
  BY CallMore, <1>4
<1>9. PICK k \in Nat : k = Total(CountsIn(p))
  BY CallMore, <1>4
<1>10. FlattenSeq(TextsIn(q)) = t \o f /\ Total(CountsIn(q)) = c + k
  BY <1>1, <1>2, <1>4, <1>5, <1>6, <1>7, <1>8, <1>9, CallLess
<1>11. read' = r \o t
  <2>1. r \o <<>> = r
    BY Concatenated
  <2> QED
    BY <1>1, <1>2, <1>3, <1>4, <1>6, <2>1 DEF TextIn
<1>12. wrote \in Nat /\ wrote' = wrote + c
  <2>1. wrote \in Nat
    BY DEF CallsInv
  <2> QED
    BY <1>1, <1>2, <1>4, <1>7, <2>1 DEF CountIn
<1>13. AllRead' = AllRead
  <2>1. AllRead = r \o (t \o f)
    BY <1>2, <1>3, <1>10 DEF AllRead
  <2>2. AllRead' = (r \o t) \o f
    BY <1>1, <1>2, <1>5, <1>8, <1>11 DEF AllRead
  <2>3. (r \o t) \o f = r \o (t \o f)
    BY NumbersAssoc
  <2> QED
    BY <2>1, <2>2, <2>3
<1>14. AllWrote' = AllWrote
  <2>1. AllWrote = wrote + (c + k)
    BY <1>2, <1>10 DEF AllWrote
  <2>2. AllWrote' = (wrote + c) + k
    BY <1>1, <1>2, <1>5, <1>9, <1>12 DEF AllWrote
  <2> QED
    BY <1>12, <2>1, <2>2
<1>15. asked' \in Seq(Asked) /\ read' \in Seq(Nat) /\ wrote' \in Nat
  <2>1. r \o t \in Seq(Nat)
    BY Concatenated
  <2>2. read' \in Seq(Nat)
    BY <1>11, <2>1
  <2>3. asked' = p /\ wrote' \in Nat
    BY <1>1, <1>2, <1>5, <1>12
  <2> QED
    BY <2>2, <2>3
<1>16. BeingTold' = BeingTold
  BY <1>1 DEF BeingTold
<1> QED
  BY <1>1, <1>13, <1>14, <1>15, <1>16 DEF CallsInv, NoneMissing, BehindNul, inVars

LEMMA CallsStep == TcpInv /\ CallsInv /\ [TcpNext]_tcpVars => CallsInv'
<1> SUFFICES ASSUME TcpInv, CallsInv, [TcpNext]_tcpVars PROVE CallsInv'
  OBVIOUS
<1>1. CASE UNCHANGED tcpVars \/ Close \/ \E n \in 1 .. MaxSent : Write(n)
  <2>1. UNCHANGED <<asked, read, wrote, inVars, count, wire, reactor>>
    BY <1>1 DEF tcpVars, outVars, Close, Write
  <2> QED
    BY <2>1, SameCalls DEF BeingTold
<1>2. CASE Connect \/ LockBuffer \/ SendThrows \/ ReactorEnds
  <2>1. UNCHANGED <<asked, read, wrote, inVars, count, wire>>
    BY <1>2 DEF Connect, LockBuffer, SendThrows, ReactorEnds, outVars
  <2>2. reactor # "sent" /\ reactor' # "sent"
    BY <1>2 DEF Connect, LockBuffer, SendThrows, ReactorEnds, Selects, TcpInv
  <2> QED
    BY <2>1, <2>2, SameCalls DEF BeingTold
<1>3. CASE OnReadComplete
  <2>1. PICK e : e = [name |-> "event"]
    OBVIOUS
  <2>2. e \in Asked /\ TextIn(e) = <<>> /\ CountIn(e) = 0
    BY <2>1 DEF Asked, TextIn, CountIn
  <2>3. asked' = Append(asked, e) /\ UNCHANGED <<read, wrote, inVars, count, wire, reactor>>
    BY <1>3, <2>1 DEF OnReadComplete, Ask, outVars
  <2>4. BeingTold \in Nat /\ BeingTold' = BeingTold /\ count' \in Nat
    BY <2>3 DEF BeingTold, CallsInv
  <2> QED
    BY <2>2, <2>3, <2>4, NoTextAsked
<1>4. CASE OnWriteIdle
  <2>1. PICK e : e = [name |-> "onWrite", count |-> 0]
    OBVIOUS
  <2>2. e \in Asked /\ TextIn(e) = <<>> /\ CountIn(e) = 0
    BY <2>1 DEF Asked, TextIn, CountIn
  <2>3. asked' = Append(asked, e) /\ UNCHANGED <<read, wrote, inVars, count, wire, reactor>>
    BY <1>4, <2>1 DEF OnWriteIdle, Ask, outVars
  <2>4. BeingTold \in Nat /\ BeingTold' = BeingTold /\ count' \in Nat
    BY <2>3 DEF BeingTold, CallsInv
  <2> QED
    BY <2>2, <2>3, <2>4, NoTextAsked
<1>5. CASE ClearBuffer
  <2>1. PICK e : e = [name |-> "onWrite", count |-> count]
    OBVIOUS
  <2>2. e \in Asked /\ TextIn(e) = <<>> /\ CountIn(e) = count
    BY <2>1 DEF Asked, TextIn, CountIn, CallsInv
  <2>3. /\ asked' = Append(asked, e) /\ UNCHANGED <<read, wrote, inVars, wire>>
        /\ reactor = "sent" /\ reactor' = "select" /\ count' = 0
    BY <1>5, <2>1 DEF ClearBuffer, Ask
  <2>4. BeingTold = count /\ BeingTold' = 0 /\ count \in Nat /\ count' \in Nat
    BY <2>3 DEF BeingTold, CallsInv
  <2> QED
    BY <2>2, <2>3, <2>4, NoTextAsked
<1>6. ASSUME NEW n \in 1 .. MaxSent, SendBytes(n) PROVE CallsInv'
  <2>1. /\ reactor = "locked" /\ reactor' = "sent" /\ count' = n
        /\ wire' = wire \o SubSeq(buffer, 1, n) /\ n \in 1 .. Len(buffer)
        /\ UNCHANGED <<asked, read, wrote, inVars>>
    BY <1>6 DEF SendBytes
  <2>2. n \in Nat /\ buffer \in Seq(Nat) /\ wire \in Seq(Nat)
    BY <2>1 DEF TcpInv
  <2>3. PICK s : s = SubSeq(buffer, 1, n)
    OBVIOUS
  <2>4. s \in Seq(Nat) /\ Len(s) = n
    <3>1. PICK b \in Seq(Nat) : b = buffer
      BY <2>2
    <3>2. n \in 1 .. Len(b) /\ Len(b) \in Nat
      BY <2>1, <3>1
    <3>3. SubSeq(b, 1, n) \in Seq(Nat) /\ Len(SubSeq(b, 1, n)) = n
      BY <3>2
    <3> QED
      BY <2>3, <3>1, <3>3
  <2>5. Len(wire') = Len(wire) + n
    BY <2>1, <2>2, <2>3, <2>4, Concatenated
  <2>6. BeingTold = 0 /\ BeingTold' = n
    BY <2>1 DEF BeingTold
  <2>7. AllRead' = AllRead /\ AllWrote' = AllWrote
    BY <2>1 DEF AllRead, AllWrote, TextsIn, CountsIn
  <2>8. AllWrote \in Nat
    <3>1. PICK q \in Seq(Asked) : q = asked
      BY DEF CallsInv
    <3>2. Total(CountsIn(q)) \in Nat
      <4>1. CountsIn(q) \in Seq(Nat) /\ 0 \in Nat
        BY InCalls
      <4> QED
        BY <4>1, TotalAppend
    <3> QED
      BY <3>1, <3>2 DEF AllWrote, CallsInv
  <2>9. AllWrote' + BeingTold' = Len(wire')
    <3>1. AllWrote + BeingTold = Len(wire)
      BY DEF CallsInv
    <3> QED
      BY <2>2, <2>5, <2>6, <2>7, <2>8, <3>1
  <2> QED
    BY <2>1, <2>2, <2>7, <2>9 DEF CallsInv, NoneMissing, BehindNul, inVars
<1> QED
  BY <1>1, <1>2, <1>3, <1>4, <1>5, <1>6, ReadAsked, CallMade DEF TcpNext, Reactor

\* However the reactor's handlers and the main thread take turns: onRead gets what
\* arrived, in order and once, and the counts of onWrite add up to what was sent.
THEOREM CallbacksFollowTheSocket == NetworkSpec => []CallbacksFollow
<1>1. NetworkInit => CallsInv
  <2> SUFFICES ASSUME NetworkInit PROVE CallsInv
    OBVIOUS
  <2>1. /\ asked = <<>> /\ read = <<>> /\ wrote = 0 /\ arrived = 0 /\ count = 0 /\ wire = <<>>
        /\ reactor = "none"
    BY DEF NetworkInit, NetworkStart, TcpInit
  <2>2. <<>> \in Seq(Asked) /\ <<>> \in Seq(Nat) /\ DOMAIN <<>> = {} /\ <<>> \o <<>> = <<>>
        /\ Len(<<>>) = 0 /\ 1 .. 0 = {}
    OBVIOUS
  <2>3. TextsIn(<<>>) = <<>> /\ CountsIn(<<>>) = <<>>
    BY <2>2 DEF TextsIn, CountsIn
  <2>4. AllRead = <<>> /\ AllWrote = 0
    BY <2>1, <2>2, <2>3, FlattenEmpty, TotalOfNone DEF AllRead, AllWrote
  <2>5. Range(<<>>) = {} /\ Increasing(<<>>)
    BY <2>2 DEF Range, Increasing
  <2> QED
    BY <2>1, <2>2, <2>4, <2>5 DEF CallsInv, NoneMissing, BehindNul, inVars, BeingTold
<1>2. CallsInv => CallbacksFollow
  BY AsIfTold DEF CallsInv, CallbacksFollow, AllRead, AllWrote, BeingTold, NoneMissing, BehindNul, inVars
<1>3. NetworkInit => TcpInv
  BY TcpInitially DEF NetworkInit, NetworkStart
<1> QED
  BY <1>1, <1>2, <1>3, TcpSteps, CallsStep, TcpStep, PTL DEF NetworkSpec

-----------------------------------------------------------------------------
(* HTTPClient: where the body of a response goes.                          *)

Before == {"connect", "headers", "loading", "body"}

BodyTypes ==
  /\ got \in [Calls -> Nat] /\ handed \in [Calls -> Seq(Calls \X Nat)]
  /\ outputHandler \in Calls \cup {0} /\ disturbed \subseteq Calls
  /\ outstream \in Seq((Calls \cup {0}) \X Nat)

\* What has not begun has read and said nothing, and no handler was given what has
\* not been read.
Unread ==
  /\ \A c \in Calls : thread[c] = "none" => got[c] = 0
  /\ \A c \in Calls : thread[c] \in Before \cup {"none"} => ended[c] = "no"
  /\ \A c, d \in Calls : \A j \in From(handed[d], c) : handed[d][j][2] \in 1 .. got[c]
Fresh == calls = 0 => ~dirty /\ responseText = None

\* A receive() that nobody disturbed has the streams while its request runs,
Streaming ==
  \A c \in Calls \ disturbed :
    how[c] = "receive" /\ InSession(c) => outstream = None /\ outputHandler = c
\* its handler has been given what was read,
Received(c) ==
  /\ \A d \in Calls \ {c} : From(handed[d], c) = {}
  /\ {handed[c][j] : j \in From(handed[c], c)} = {<<c, i>> : i \in 1 .. got[c]}
  /\ \A j, k \in From(handed[c], c) : j < k => handed[c][j][2] < handed[c][k][2]
Receives == \A c \in Calls \ disturbed : how[c] = "receive" => Received(c)
\* and the first send() has what it read in its own stream, and then in its text.
Sends ==
  \A c \in Calls \ disturbed :
    how[c] = "send" /\ c = 1 =>
      /\ thread[c] \in Before => outstream = Chunks(c) /\ responseText = None
      /\ thread[c] = "closing" /\ ended[c] = "whole" =>
           responseText = IF got[c] = 0 THEN None ELSE Chunks(c)

BodyInv == BodyTypes /\ Unread /\ Fresh /\ Streaming /\ Receives /\ Sends

LEMMA BodyInitially == HttpInit => BodyInv
<1> SUFFICES ASSUME HttpInit PROVE BodyInv
  OBVIOUS
<1>1. /\ calls = 0 /\ dirty = FALSE /\ responseText = None /\ outstream = None /\ outputHandler = 0
      /\ how = [c \in Calls |-> "none"] /\ thread = [c \in Calls |-> "none"]
      /\ got = [c \in Calls |-> 0] /\ handed = [c \in Calls |-> <<>>] /\ disturbed = {}
      /\ ended = [c \in Calls |-> "no"]
  BY DEF HttpInit
<1>2. <<>> \in Seq(Calls \X Nat) /\ DOMAIN <<>> = {}
  OBVIOUS
<1>3. None \in Seq((Calls \cup {0}) \X Nat)
  BY DEF None
<1>4. BodyTypes
  BY <1>1, <1>2, <1>3 DEF BodyTypes
<1>5. Unread
  BY <1>1, <1>2 DEF Unread, From
<1> QED
  BY <1>1, <1>4, <1>5 DEF BodyInv, Fresh, Streaming, Receives, Sends

\* A step that reads nothing and begins nothing.
LEMMA BodyKeeps ==
  ASSUME BodyInv, UNCHANGED <<calls, how, dirty, responseText, streams, got, handed, disturbed>>,
         \A c \in Calls :
           /\ thread'[c] \in Before \cup {"none"} => ended'[c] = ended[c]
           /\ thread'[c] = "none" => thread[c] = "none"
           /\ thread'[c] \in Before => thread[c] \in Before
           /\ InSession(c)' => InSession(c)
           /\ thread'[c] = "closing" /\ ended'[c] = "whole" =>
                thread[c] = "closing" /\ ended[c] = "whole"
  PROVE  BodyInv'
<1> USE DEF streams, BodyInv
<1>1. BodyTypes' /\ Fresh'
  BY DEF BodyTypes, Fresh
<1>2. Unread'
  BY DEF Unread, From
<1>3. Streaming'
  BY DEF Streaming
<1>4. Receives'
  BY DEF Receives, Received, From
<1>5. Sends'
  BY DEF Sends, Chunks
<1> QED
  BY <1>1, <1>2, <1>3, <1>4, <1>5

\* A call that begins no request: one that comes while a request runs disturbs it.
LEMMA RefusedBody ==
  ASSUME BodyInv, Shape, OneSession, calls < MaxCalls, calls' = calls + 1,
         how' = [how EXCEPT ![calls'] = "refused"], UNCHANGED <<thread, got, handed, ended>>,
         outputHandler' \in {outputHandler, calls'},
         outstream' \in Seq((Calls \cup {0}) \X Nat),
         \/ disturbed' = disturbed \cup Running
         \/ ~connected /\ UNCHANGED disturbed
  PROVE  BodyInv'
<1> USE DEF BodyInv
<1>1. calls' \in Calls /\ calls' # 0
  BY HttpAssumption DEF Shape, Calls
<1>2. disturbed \subseteq disturbed' /\ disturbed' \subseteq Calls
  BY DEF BodyTypes, Running
<1>3. \A c \in Calls : c \notin disturbed' => ~InSession(c)
  BY DEF OneSession, InSession, Running
<1>4. BodyTypes' /\ Fresh'
  BY <1>1, <1>2 DEF BodyTypes, Fresh
<1>5. Unread'
  BY DEF Unread, From
<1>6. \A c \in Calls : how'[c] \in {"receive", "send"} => how[c] = how'[c]
  BY <1>1 DEF Shape
<1>7. Streaming'
  BY <1>3 DEF Streaming, InSession
<1>8. Receives'
  BY <1>2, <1>6 DEF Receives, Received, From
<1>9. Sends'
  BY <1>3 DEF Sends, InSession, Before
<1> QED
  BY <1>4, <1>5, <1>7, <1>8, <1>9

\* A call that begins one: there is no other, and what is left of earlier ones is reset.
LEMMA BegunBody ==
  ASSUME BodyInv, Shape, NotYet, OneSession, calls < MaxCalls, calls' = calls + 1, ~connected,
         NEW kind \in {"send", "receive", "noWrite"}, NEW out, Reset(out),
         how' = [how EXCEPT ![calls'] = kind], thread' = [thread EXCEPT ![calls'] = "connect"],
         out = IF kind = "send" THEN <<>> ELSE None,
         outputHandler' = IF kind = "receive" THEN calls' ELSE outputHandler,
         UNCHANGED <<got, handed, ended, disturbed>>
  PROVE  BodyInv'
<1> USE DEF BodyInv
<1>1. /\ calls' \in Calls /\ calls' # 0 /\ thread[calls'] = "none"
      /\ ended[calls'] = "no" /\ got[calls'] = 0
  BY HttpAssumption DEF Shape, Calls, NotYet, Unread
<1>2. /\ \A c \in Calls : ~InSession(c)
      /\ \A c \in Calls \ {calls'} : thread'[c] = thread[c] /\ how'[c] = how[c]
      /\ thread'[calls'] = "connect" /\ how'[calls'] = kind
  BY <1>1 DEF OneSession, Shape
<1>3. <<>> \in Seq((Calls \cup {0}) \X Nat) /\ None \in Seq((Calls \cup {0}) \X Nat)
  BY DEF None
<1>4. outstream' \in {None, out}
  BY DEF Reset
<1>5. BodyTypes' /\ Fresh'
  BY <1>1, <1>3, <1>4 DEF BodyTypes, Fresh
<1>6. Unread'
  BY <1>1, <1>2 DEF Unread, From
<1>7. Streaming'
  <2> SUFFICES ASSUME NEW c \in Calls \ disturbed, how'[c] = "receive", InSession(c)'
               PROVE  outstream' = None /\ outputHandler' = c
    BY DEF Streaming
  <2>1. c = calls'
    BY <1>2 DEF InSession
  <2> QED
    BY <1>2, <1>4, <2>1
<1>8. Receives'
  <2> SUFFICES ASSUME NEW c \in Calls \ disturbed, how'[c] = "receive" PROVE Received(c)'
    BY DEF Receives
  <2>1. Received(c)
    <3>1. CASE c = calls'
      <4>1. \A d \in Calls : From(handed[d], c) = {}
        <5>1. got[c] = 0
          BY <1>1, <3>1
        <5>2. 1 .. 0 = {}
          OBVIOUS
        <5> QED
          BY <5>1, <5>2 DEF Unread
      <4>2. got[c] = 0 /\ 1 .. 0 = {}
        BY <1>1, <3>1
      <4>3. {handed[c][j] : j \in From(handed[c], c)} = {} /\ {<<c, i>> : i \in 1 .. got[c]} = {}
        BY <4>1, <4>2
      <4> QED
        BY <4>1, <4>3 DEF Received
    <3>2. CASE c # calls'
      BY <1>2, <3>2 DEF Receives
    <3> QED
      BY <3>1, <3>2
  <2> QED
    BY <2>1 DEF Received, From
<1>9. Sends'
  <2> SUFFICES ASSUME NEW c \in Calls \ disturbed, how'[c] = "send", c = 1, thread'[c] \in Before \cup {"closing"}
               PROVE  /\ thread'[c] \in Before /\ outstream' = Chunks(c)' /\ responseText' = None
    BY DEF Sends, Before
  <2>1. c = calls' /\ calls = 0 /\ kind = "send"
    BY <1>2 DEF InSession, Before, Shape
  <2>2. outstream' = <<>> /\ responseText' = None
    BY <2>1 DEF Reset, Fresh
  <2>3. Chunks(c)' = <<>>
    <3>1. got'[c] = 0 /\ 1 .. 0 = {}
      BY <1>1, <2>1
    <3>2. Chunks(c)' = [i \in {} |-> <<c, i>>]
      BY <3>1 DEF Chunks
    <3> QED
      BY <3>2
  <2> QED
    BY <1>2, <2>1, <2>2, <2>3 DEF Before
<1> QED
  BY <1>5, <1>6, <1>7, <1>8, <1>9

LEMMA ScriptBody ==
  ASSUME BodyInv, Shape, NotYet, OneSession, Script PROVE BodyInv'
<1> USE DEF httpProps, streams, requests, scriptVars, httpHistory
<1>1. CASE Open \/ SetRequestHeader \/ Abort
  <2>1. UNCHANGED <<calls, how, dirty, responseText, streams, got, handed, disturbed, thread, ended>>
    BY <1>1 DEF Open, SetRequestHeader, Abort
  <2> QED
    BY <2>1, BodyKeeps DEF InSession
<1>2. None \in Seq((Calls \cup {0}) \X Nat) /\ <<>> \in Seq((Calls \cup {0}) \X Nat)
  BY DEF None
<1>3. CASE ReceiveInvalid
  <2>1. /\ calls < MaxCalls /\ calls' = calls + 1 /\ how' = [how EXCEPT ![calls'] = "refused"]
        /\ outstream' = None /\ disturbed' = disturbed \cup Running
        /\ UNCHANGED <<thread, got, handed, ended, outputHandler>>
    BY <1>3 DEF ReceiveInvalid, Calling
  <2> QED
    BY <1>2, <2>1, RefusedBody
<1>4. ASSUME NEW kind \in {"send", "receive", "noWrite"}, NEW out, NEW data, Calling,
             BeginRequest(kind, out, data), out = IF kind = "send" THEN <<>> ELSE None,
             outputHandler' = IF kind = "receive" THEN calls' ELSE outputHandler
      PROVE  BodyInv'
  <2>1. calls < MaxCalls /\ calls' = calls + 1 /\ UNCHANGED <<got, handed, ended>>
    BY <1>4 DEF Calling
  <2>2. out \in Seq((Calls \cup {0}) \X Nat) /\ outputHandler' \in {outputHandler, calls'}
    BY <1>2, <1>4
  <2>3. CASE /\ outstream' = out /\ how' = [how EXCEPT ![calls'] = "refused"]
             /\ disturbed' = disturbed \cup Running /\ UNCHANGED thread
    BY <2>1, <2>2, <2>3, RefusedBody
  <2>4. CASE /\ ~connected /\ Reset(out) /\ how' = [how EXCEPT ![calls'] = "refused"]
             /\ UNCHANGED <<thread, disturbed>>
    <3>1. outstream' \in {None, out}
      BY <2>4 DEF Reset
    <3> QED
      BY <1>2, <2>1, <2>2, <2>4, <3>1, RefusedBody
  <2>5. CASE /\ ~connected /\ Reset(out) /\ how' = [how EXCEPT ![calls'] = kind]
             /\ thread' = [thread EXCEPT ![calls'] = "connect"] /\ UNCHANGED disturbed
    BY <1>4, <2>1, <2>5, BegunBody
  <2> QED
    BY <1>4, <2>3, <2>4, <2>5 DEF BeginRequest
<1>5. CASE Send
  <2>1. PICK data : Calling /\ BeginRequest("send", <<>>, data) /\ outputHandler' = outputHandler
    BY <1>5 DEF Send
  <2> QED
    BY <1>4, <2>1
<1>6. CASE Receive
  <2>1. PICK data : Calling /\ BeginRequest("receive", None, data) /\ outputHandler' = calls'
    BY <1>6 DEF Receive
  <2> QED
    BY <1>4, <2>1
<1>7. CASE ReceiveNoWrite
  <2>1. Calling /\ BeginRequest("noWrite", None, "supported") /\ outputHandler' = outputHandler
    BY <1>7 DEF ReceiveNoWrite
  <2> QED
    BY <1>4, <2>1
<1> QED
  BY <1>1, <1>3, <1>5, <1>6, <1>7 DEF Script

\* A buffer that is read goes to one place.
LEMMA ChunkBody ==
  ASSUME BodyInv, Shape, OneSession, NEW c \in Calls, ReceiveChunk(c) PROVE BodyInv'
<1> USE DEF BodyInv
<1>0. PICK chunk : chunk = <<c, got[c] + 1>>
  OBVIOUS
<1>1. /\ thread[c] = "body" /\ got' = [got EXCEPT ![c] = got[c] + 1] /\ got[c] \in Nat
      /\ UNCHANGED <<calls, how, dirty, thread, ended, responseText, outputHandler, disturbed>>
  BY DEF ReceiveChunk, At, scriptVars, httpProps, BodyTypes
<1>2. got'[c] = got[c] + 1 /\ \A e \in Calls \ {c} : got'[e] = got[e]
  BY <1>1 DEF BodyTypes
<1>3. \/ outstream # None /\ outstream' = Append(outstream, chunk) /\ handed' = handed
      \/ /\ outstream = None /\ outputHandler \in Calls /\ outstream' = outstream
         /\ handed' = [handed EXCEPT ![outputHandler] = Append(handed[outputHandler], chunk)]
      \/ outstream = None /\ outputHandler = 0 /\ outstream' = outstream /\ handed' = handed
  BY <1>0, <1>2 DEF ReceiveChunk, BodyTypes
<1>4. chunk \in Calls \X Nat /\ chunk[1] = c /\ chunk[2] = got[c] + 1
  BY <1>0, <1>1
<1>5. /\ \A e \in Calls : handed[e] \in Seq(Calls \X Nat)
      /\ \A e \in Calls : handed'[e] = handed[e] \/ handed'[e] = Append(handed[e], chunk)
      /\ \A e \in Calls : e # outputHandler => handed'[e] = handed[e]
  BY <1>3 DEF BodyTypes
<1>6. \A e \in Calls : InSession(e) => e = c
  BY <1>1 DEF OneSession, InSession
<1>7. BodyTypes'
  <2>1. got' \in [Calls -> Nat]
    BY <1>1 DEF BodyTypes
  <2>2. handed' \in [Calls -> Seq(Calls \X Nat)]
    <3>1. handed \in [Calls -> Seq(Calls \X Nat)]
      BY DEF BodyTypes
    <3>2. CASE outputHandler \in Calls /\ handed' = [handed EXCEPT ![outputHandler] = Append(handed[outputHandler], chunk)]
      <4>1. Append(handed[outputHandler], chunk) \in Seq(Calls \X Nat)
        BY <1>4, <1>5, <3>2
      <4> QED
        BY <3>1, <3>2, <4>1
    <3>3. CASE handed' = handed
      BY <3>1, <3>3
    <3> QED
      BY <1>3, <3>2, <3>3
  <2>3. outstream' \in Seq((Calls \cup {0}) \X Nat)
    <3>1. chunk \in (Calls \cup {0}) \X Nat
      BY <1>4
    <3>2. outstream \in Seq((Calls \cup {0}) \X Nat)
      BY DEF BodyTypes
    <3>3. Append(outstream, chunk) \in Seq((Calls \cup {0}) \X Nat)
      BY <3>1, <3>2
    <3>4. outstream' = outstream \/ outstream' = Append(outstream, chunk)
      BY <1>3
    <3> QED
      BY <3>2, <3>3, <3>4
  <2> QED
    BY <1>1, <2>1, <2>2, <2>3 DEF BodyTypes
<1>8. Fresh'
  BY <1>1 DEF Fresh
<1>9. ASSUME NEW d \in Calls, NEW e \in Calls
      PROVE  /\ \A j \in From(handed[d], e) : j \in From(handed'[d], e) /\ handed'[d][j] = handed[d][j]
             /\ \A j \in From(handed'[d], e) :
                  \/ j \in From(handed[d], e) /\ handed'[d][j] = handed[d][j]
                  \/ /\ j = Len(handed[d]) + 1 /\ e = c /\ handed'[d][j] = chunk
                     /\ handed'[d] = Append(handed[d], chunk)
  <2>1. handed[d] \in Seq(Calls \X Nat)
    BY <1>5
  <2>2. CASE handed'[d] = handed[d]
    BY <2>2 DEF From
  <2>3. CASE handed'[d] = Append(handed[d], chunk)
    <3>1. /\ DOMAIN handed[d] = 1 .. Len(handed[d]) /\ Len(handed[d]) \in Nat
          /\ DOMAIN handed'[d] = 1 .. Len(handed[d]) + 1
          /\ handed'[d][Len(handed[d]) + 1] = chunk
          /\ \A j \in 1 .. Len(handed[d]) : handed'[d][j] = handed[d][j]
      BY <2>1, <2>3
    <3> QED
      BY <1>4, <2>3, <3>1 DEF From
  <2> QED
    BY <1>5, <2>2, <2>3
<1>10. Unread'
  <2>1. \A e, d \in Calls : \A j \in From(handed[d], e)' : handed'[d][j][2] \in 1 .. got'[e]
    <3> TAKE e, d \in Calls
    <3> TAKE j \in From(handed'[d], e)
    <3>1. got[e] \in Nat
      BY DEF BodyTypes
    <3>2. CASE j \in From(handed[d], e) /\ handed'[d][j] = handed[d][j]
      <4>1. handed'[d][j][2] \in 1 .. got[e]
        BY <3>2 DEF Unread
      <4> QED
        BY <1>2, <3>1, <4>1
    <3>3. CASE e = c /\ handed'[d][j] = chunk
      BY <1>1, <1>2, <1>4, <3>3
    <3> QED
      BY <1>9, <3>2, <3>3
  <2>2. \A e \in Calls : thread'[e] = "none" => got'[e] = 0
    BY <1>1, <1>2 DEF Unread
  <2>3. \A e \in Calls : thread'[e] \in Before \cup {"none"} => ended'[e] = "no"
    BY <1>1 DEF Unread
  <2> QED
    BY <2>1, <2>2, <2>3 DEF Unread, From
<1>11. Streaming'
  BY <1>1, <1>3 DEF Streaming, InSession
<1>12. ASSUME NEW e \in Calls \ disturbed, how[e] = "receive" PROVE Received(e)'
  <2>1. Received(e)
    BY <1>12 DEF Receives
  <2>2. CASE e # c
    <3>1. \A d \in Calls : From(handed'[d], e) = From(handed[d], e)
      <4> TAKE d \in Calls
      <4>1. \A j \in From(handed[d], e) : j \in From(handed'[d], e)
        BY <1>9
      <4>2. \A j \in From(handed'[d], e) : j \in From(handed[d], e)
        BY <1>9, <2>2
      <4> QED
        BY <4>1, <4>2
    <3>2. \A j \in From(handed[e], e) : handed'[e][j] = handed[e][j]
      BY <1>9
    <3>3. {handed'[e][j] : j \in From(handed'[e], e)} = {handed[e][j] : j \in From(handed[e], e)}
      BY <3>1, <3>2
    <3>4. got'[e] = got[e]
      BY <1>2, <2>2
    <3>5. \A j, k \in From(handed'[e], e) : j < k => handed'[e][j][2] < handed'[e][k][2]
      BY <2>1, <3>1, <3>2 DEF Received
    <3>6. \A d \in Calls \ {e} : From(handed'[d], e) = {}
      BY <2>1, <3>1 DEF Received
    <3>7. {handed'[e][j] : j \in From(handed'[e], e)} = {<<e, i>> : i \in 1 .. got'[e]}
      BY <2>1, <3>3, <3>4 DEF Received
    <3> QED
      BY <3>5, <3>6, <3>7 DEF Received, From
  <2>3. CASE e = c
    <3>1. outstream = None /\ outputHandler = c
      BY <1>1, <1>12, <2>3 DEF Streaming, InSession
    <3>2. /\ \A d \in Calls \ {c} : handed'[d] = handed[d]
          /\ handed'[c] = Append(handed[c], chunk)
      <4>1. handed \in [Calls -> Seq(Calls \X Nat)]
        BY DEF BodyTypes
      <4>2. handed' = [handed EXCEPT ![c] = Append(handed[c], chunk)]
        <5>1. c # 0
          BY DEF Calls
        <5>2. CASE outputHandler \in Calls /\ handed' = [handed EXCEPT ![outputHandler] = Append(handed[outputHandler], chunk)]
          BY <3>1, <5>2
        <5> QED
          BY <1>3, <3>1, <5>1, <5>2
      <4> QED
        BY <4>1, <4>2
    <3>3. \A d \in Calls \ {c} : From(handed'[d], c) = {}
      BY <2>1, <2>3, <3>2 DEF Received
    <3>4. PICK last : last = Len(handed[c]) + 1
      OBVIOUS
    <3>5. last \in From(handed'[c], c) /\ handed'[c][last] = chunk /\ \A j \in From(handed[c], c) : j < last
      BY <1>4, <1>5, <3>2, <3>4 DEF From
    <3>6. \A j \in From(handed'[c], c) : j = last \/ (j \in From(handed[c], c) /\ handed'[c][j] = handed[c][j])
      BY <1>9, <3>4
    <3>7. \A j \in From(handed[c], c) : handed[c][j][2] \in 1 .. got[c]
      BY DEF Unread
    <3>8. \A j, k \in From(handed'[c], c) : j < k => handed'[c][j][2] < handed'[c][k][2]
      <4> TAKE j, k \in From(handed'[c], c)
      <4> HAVE j < k
      <4>0. j \in Nat /\ k \in Nat /\ last \in Nat
        BY <1>5, <3>2, <3>4 DEF From
      <4>1. j # last
        BY <3>5, <3>6, <4>0
      <4>2. j \in From(handed[c], c) /\ handed'[c][j] = handed[c][j] /\ handed[c][j][2] \in 1 .. got[c]
        BY <3>6, <3>7, <4>1
      <4>3. CASE k = last
        BY <1>1, <1>4, <3>5, <4>2, <4>3
      <4>4. CASE k # last
        <5>1. k \in From(handed[c], c) /\ handed'[c][k] = handed[c][k]
          BY <3>6, <4>4
        <5> QED
          BY <2>1, <2>3, <4>2, <5>1 DEF Received
      <4> QED
        BY <4>3, <4>4
    <3>9. {handed'[c][j] : j \in From(handed'[c], c)} = {<<c, i>> : i \in 1 .. got'[c]}
      <4>1. {handed[c][j] : j \in From(handed[c], c)} = {<<c, i>> : i \in 1 .. got[c]}
        BY <2>1, <2>3 DEF Received
      <4>2. {handed'[c][j] : j \in From(handed'[c], c)} = {handed[c][j] : j \in From(handed[c], c)} \cup {chunk}
        BY <1>9, <3>5, <3>6
      <4>3. 1 .. got'[c] = (1 .. got[c]) \cup {got[c] + 1}
        BY <1>1, <1>2
      <4>4. {<<c, i>> : i \in 1 .. got'[c]} = {<<c, i>> : i \in 1 .. got[c]} \cup {chunk}
        BY <1>0, <4>3
      <4> QED
        BY <4>1, <4>2, <4>4
    <3> QED
      BY <2>3, <3>3, <3>8, <3>9 DEF Received, From
  <2> QED
    BY <2>2, <2>3
<1>13. Receives'
  BY <1>1, <1>12 DEF Receives
<1>14. Sends'
  <2> SUFFICES ASSUME NEW e \in Calls \ disturbed, how[e] = "send", e = 1
               PROVE  /\ thread[e] \in Before => outstream' = Chunks(e)' /\ responseText = None
                      /\ thread[e] = "closing" /\ ended[e] = "whole" =>
                           responseText = IF got'[e] = 0 THEN None ELSE Chunks(e)'
    BY <1>1 DEF Sends
  <2>1. CASE thread[e] \in Before \cup {"closing"}
    <3>1. e = c /\ thread[c] = "body"
      BY <1>1, <1>6, <2>1 DEF InSession, Before
    <3>2. outstream = Chunks(c) /\ responseText = None
      BY <3>1 DEF Sends, Before
    <3>3. outstream # None
      <4>1. CASE got[c] = 0
        <5>1. 0 \in Nat /\ 1 .. 0 = {} /\ DOMAIN None = {1}
          BY DEF None
        <5>2. DOMAIN Chunks(c) = {}
          BY <4>1, <5>1 DEF Chunks
        <5> QED
          BY <3>2, <5>1, <5>2
      <4>2. CASE got[c] # 0
        <5>1. Chunks(c)[1] = <<c, 1>>
          BY <1>1, <4>2 DEF Chunks
        <5>2. None[1] = <<0, 0>>
          BY DEF None
        <5>3. <<c, 1>>[2] = 1 /\ <<0, 0>>[2] = 0
          OBVIOUS
        <5> QED
          BY <3>2, <5>1, <5>2, <5>3
      <4> QED
        BY <4>1, <4>2
    <3>4. outstream' = Append(Chunks(c), chunk)
      BY <1>3, <3>2, <3>3
    <3>5. Chunks(c)' = [i \in 1 .. got[c] + 1 |-> <<c, i>>]
      BY <1>2 DEF Chunks
    <3>6. Append(Chunks(c), chunk) = [i \in 1 .. got[c] + 1 |-> <<c, i>>]
      BY <1>0, <1>1 DEF Chunks
    <3> QED
      BY <3>1, <3>2, <3>4, <3>5, <3>6
  <2>2. CASE thread[e] \notin Before \cup {"closing"}
    BY <2>2
  <2> QED
    BY <2>1, <2>2
<1> QED
  BY <1>7, <1>8, <1>10, <1>11, <1>13, <1>14

\* The stream of the first send() becomes the text of the response.
LEMMA EndsBody ==
  ASSUME BodyInv, Shape, NotYet, OneSession, NEW c \in Calls, BodyEnds(c) PROVE BodyInv'
<1> USE DEF BodyInv
<1>1. /\ thread[c] = "body" /\ thread' = [thread EXCEPT ![c] = "closing"]
      /\ ended' = [ended EXCEPT ![c] = "whole"]
      /\ responseText' = IF outstream \notin {None, <<>>} THEN outstream ELSE responseText
      /\ UNCHANGED <<calls, how, dirty, outstream, outputHandler, got, handed, disturbed>>
  BY DEF BodyEnds, At, Go, scriptVars, streams
<1>2. /\ thread'[c] = "closing" /\ ended'[c] = "whole"
      /\ \A e \in Calls \ {c} : thread'[e] = thread[e] /\ ended'[e] = ended[e] /\ ~InSession(e)
  BY <1>1 DEF Shape, OneSession, InSession
<1>3. BodyTypes'
  BY <1>1 DEF BodyTypes
<1>4. Fresh'
  BY <1>1 DEF Fresh, NotYet, Calls
<1>5. Unread'
  BY <1>1, <1>2 DEF Unread, From, Before
<1>6. Streaming'
  BY <1>1, <1>2 DEF Streaming, InSession
<1>7. Receives'
  BY <1>1 DEF Receives, Received, From
<1>8. Sends'
  <2> SUFFICES ASSUME NEW e \in Calls \ disturbed, how[e] = "send", e = 1
               PROVE  /\ thread'[e] \in Before => outstream = Chunks(e) /\ responseText' = None
                      /\ thread'[e] = "closing" /\ ended'[e] = "whole" =>
                           responseText' = IF got[e] = 0 THEN None ELSE Chunks(e)
    BY <1>1 DEF Sends, Chunks
  <2>1. CASE e # c
    BY <1>2, <2>1 DEF InSession, Before
  <2>2. CASE e = c
    <3>1. outstream = Chunks(c) /\ responseText = None /\ thread'[e] = "closing"
      BY <1>1, <1>2, <2>2 DEF Sends, Before
    <3>2. got[c] \in Nat
      BY DEF BodyTypes
    <3>3. CASE got[c] = 0
      <4>1. Chunks(c) = <<>>
        <5>1. 1 .. 0 = {}
          OBVIOUS
        <5>2. Chunks(c) = [i \in {} |-> <<c, i>>]
          BY <3>3, <5>1 DEF Chunks
        <5> QED
          BY <5>2
      <4>2. responseText' = None
        BY <1>1, <3>1, <4>1
      <4> QED
        BY <2>2, <3>1, <3>3, <4>2 DEF Before
    <3>4. CASE got[c] # 0
      <4>1. 1 \in DOMAIN Chunks(c) /\ Chunks(c)[1] = <<c, 1>> /\ None[1] = <<0, 0>> /\ DOMAIN <<>> = {}
        BY <3>2, <3>4 DEF Chunks, None
      <4>2. <<c, 1>>[2] = 1 /\ <<0, 0>>[2] = 0
        OBVIOUS
      <4>3. Chunks(c) # None
        BY <4>1, <4>2
      <4>4. Chunks(c) # <<>>
        BY <4>1
      <4>5. responseText' = Chunks(c)
        BY <1>1, <3>1, <4>3, <4>4
      <4> QED
        BY <2>2, <3>1, <3>4, <4>5 DEF Before
    <3> QED
      BY <3>3, <3>4
  <2> QED
    BY <2>1, <2>2
<1> QED
  BY <1>3, <1>4, <1>5, <1>6, <1>7, <1>8

\* A thread that goes on from one place to another.
LEMMA MovesBody ==
  ASSUME BodyInv, Shape, UNCHANGED <<calls, how, dirty, responseText, streams, got, handed, disturbed>>,
         NEW c \in Calls, thread[c] # "none",
         NEW to \in Places \ {"none"}, thread' = [thread EXCEPT ![c] = to],
         to \in Before => thread[c] \in Before,
         to \in Before \cup {"closing"} => InSession(c),
         \A e \in Calls \ {c} : ended'[e] = ended[e],
         ended'[c] = ended[c] \/ (to = "closing" /\ ended'[c] # "whole"),
         to = "closing" => thread[c] \in Before
  PROVE  BodyInv'
<1>1. thread'[c] = to /\ \A e \in Calls \ {c} : thread'[e] = thread[e]
  BY DEF Shape
<1>2. to = "closing" => ended'[c] # "whole"
  BY DEF BodyInv, Unread
<1>3. "closing" \notin Before /\ "none" \notin Before
  BY DEF Before
<1>4. \A e \in Calls :
           /\ thread'[e] \in Before \cup {"none"} => ended'[e] = ended[e]
           /\ thread'[e] = "none" => thread[e] = "none"
           /\ thread'[e] \in Before => thread[e] \in Before
           /\ InSession(e)' => InSession(e)
           /\ thread'[e] = "closing" /\ ended'[e] = "whole" =>
                thread[e] = "closing" /\ ended[e] = "whole"
  <2> TAKE e \in Calls
  <2>1. CASE e = c
    BY <1>1, <1>2, <1>3, <2>1 DEF InSession, Before
  <2>2. CASE e # c
    BY <1>1, <2>2 DEF InSession
  <2> QED
    BY <2>1, <2>2
<1> QED
  BY <1>4, BodyKeeps

LEMMA RequestBody ==
  ASSUME BodyInv, Shape, NotYet, OneSession, NEW c \in Calls, ExecuteRequest(c) PROVE BodyInv'
<1> USE DEF httpProps, streams, requests, scriptVars, httpHistory, At, Go
<1>1. ASSUME UNCHANGED <<calls, how, dirty, responseText, streams, got, handed, disturbed, thread, ended>>
      PROVE  BodyInv'
  BY <1>1, BodyKeeps DEF InSession
<1>2. CASE Redirected(c) \/ \E place \in {"headers", "loading", "closed"}, state \in 2 .. 4 :
             ChangeState(c, place, state)
  <2>1. UNCHANGED <<calls, how, dirty, responseText, streams, got, handed, disturbed, thread, ended>>
    BY <1>2 DEF Redirected, ChangeState
  <2> QED
    BY <1>1, <2>1
<1>3. CASE RedirectEnds(c) \/ Answered(c) \/ BodyAborted(c) \/ Fails(c) \/ CloseSession(c)
  <2>1. UNCHANGED <<calls, how, dirty, responseText, streams, got, handed, disturbed>>
    BY <1>3 DEF RedirectEnds, Answered, BodyAborted, Fails, CloseSession
  <2>2. CASE RedirectEnds(c) \/ Answered(c)
    <3>1. PICK to \in {"closing", "headers"} :
            thread[c] = "connect" /\ thread' = [thread EXCEPT ![c] = to] /\ UNCHANGED ended
      BY <2>2 DEF RedirectEnds, Answered, Asks
    <3> QED
      BY <2>1, <3>1, MovesBody DEF InSession, Before, Places
  <2>3. CASE BodyAborted(c) \/ Fails(c)
    <3>1. PICK how_ \in {"aborted", "failed"} :
            /\ thread[c] \in {"connect", "body"} /\ thread' = [thread EXCEPT ![c] = "closing"]
            /\ ended' = [ended EXCEPT ![c] = how_]
      BY <2>3 DEF BodyAborted, Fails
    <3>2. ended'[c] # "whole" /\ \A e \in Calls \ {c} : ended'[e] = ended[e]
      BY <3>1 DEF Shape
    <3> QED
      BY <2>1, <3>1, <3>2, MovesBody DEF InSession, Before, Places
  <2>4. CASE CloseSession(c)
    <3>1. thread[c] = "closing" /\ thread' = [thread EXCEPT ![c] = "closed"] /\ UNCHANGED ended
      BY <2>4 DEF CloseSession
    <3> QED
      BY <2>1, <3>1, MovesBody DEF InSession, Before, Places
  <2> QED
    BY <1>3, <2>2, <2>3, <2>4
<1> QED
  BY <1>2, <1>3, ChunkBody, EndsBody DEF ExecuteRequest

LEMMA HandlerBody ==
  ASSUME BodyInv, Shape, NEW c \in Calls, HandlerReturns(c) PROVE BodyInv'
<1> USE DEF httpProps, streams, requests, scriptVars, httpHistory, Go
<1>0. thread[c] \in {"headers", "loading", "closed"}
  BY DEF HandlerReturns, HandlerCalled, Shape
<1>1. UNCHANGED <<calls, how, dirty, responseText, streams, got, handed, disturbed, ended>>
  BY DEF HandlerReturns
<1>2. PICK to \in {"loading", "body", "ended"} :
        /\ thread' = [thread EXCEPT ![c] = to]
        /\ to # "ended" => thread[c] \in {"headers", "loading"}
  BY <1>0 DEF HandlerReturns
<1> QED
  BY <1>0, <1>1, <1>2, MovesBody DEF InSession, Before, Places

LEMMA ThrowBody ==
  ASSUME BodyInv, Shape, NEW c \in Calls, HandlerThrows(c) PROVE BodyInv'
<1> USE DEF httpProps, streams, requests, scriptVars, httpHistory, Go
<1>0. thread[c] \in {"headers", "loading", "closed"}
  BY DEF HandlerThrows, HandlerCalled, Shape
<1>1. UNCHANGED <<calls, how, dirty, responseText, streams, got, handed, disturbed>>
  BY DEF HandlerThrows
<1>2. CASE thread[c] = "closed"
  <2>1. thread' = [thread EXCEPT ![c] = "ended"] /\ UNCHANGED ended
    BY <1>2 DEF HandlerThrows
  <2> QED
    BY <1>1, <1>2, <2>1, MovesBody DEF InSession, Before, Places
<1>3. CASE thread[c] # "closed"
  <2>1. /\ thread[c] \in {"headers", "loading"} /\ thread' = [thread EXCEPT ![c] = "closing"]
        /\ ended' = [ended EXCEPT ![c] = "failed"]
    BY <1>0, <1>3 DEF HandlerThrows
  <2>2. ended'[c] # "whole" /\ \A e \in Calls \ {c} : ended'[e] = ended[e]
    BY <2>1 DEF Shape
  <2> QED
    BY <1>1, <2>1, <2>2, MovesBody DEF InSession, Before, Places
<1> QED
  BY <1>2, <1>3

LEMMA BodyStep == BodyInv /\ AbortInv /\ OneSession /\ [HttpNext]_httpVars => BodyInv'
<1> SUFFICES ASSUME BodyInv, AbortInv, OneSession, [HttpNext]_httpVars PROVE BodyInv'
  OBVIOUS
<1>1. Shape /\ NotYet
  BY DEF AbortInv
<1>2. CASE UNCHANGED httpVars
  <2>1. UNCHANGED <<calls, how, dirty, responseText, streams, got, handed, disturbed, thread, ended>>
    BY <1>2 DEF httpVars, scriptVars, httpProps, streams, requests, httpHistory
  <2> QED
    BY <2>1, BodyKeeps DEF InSession
<1> QED
  BY <1>1, <1>2, ScriptBody, RequestBody, HandlerBody, ThrowBody DEF HttpNext, RequestGoesOn

\* What was read of a response reaches the handler of its receive(), or the text of
\* the first send(), all of it in order and nothing anywhere else, however send and
\* receive are called meanwhile, as long as none of them is refused while the request
\* runs: connected keeps other requests away from the streams.
THEOREM BodiesAreTheirOwn == NetworkSpec => []BodyIsItsOwn
<1> DEFINE Inv == BodyInv /\ AbortInv /\ OneSession
<1>1. Inv => BodyIsItsOwn
  BY DEF BodyInv, Receives, Received, Sends, BodyIsItsOwn
<1>2. NetworkInit => Inv
  BY HttpInitially, BodyInitially DEF NetworkInit, NetworkStart
<1>3. Inv /\ [NetworkNext]_<<part, httpVars, tcpVars>> => Inv'
  <2>1. AbortInv => Shape
    BY DEF AbortInv
  <2> QED
    BY <2>1, BodyStep, SessionStep, HttpStepInv, NetworkStep
<1> QED
  BY <1>1, <1>2, <1>3, PTL DEF NetworkSpec

=============================================================================
