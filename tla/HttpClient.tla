----------------------------- MODULE HttpClient -----------------------------
(***************************************************************************)
(* One Network.HTTPClient (http_client_binding.cpp).  send() and receive() *)
(* run on the main thread and start a thread that executes the request; it *)
(* waits for the main thread each time it calls a handler of the script.   *)
(* What the script does meanwhile (abort, open, another send or receive)   *)
(* it does between two steps of that thread.  A synchronous request is one *)
(* during which the script acts in handlers only, so it is not told apart. *)
(*                                                                         *)
(* The calls of send and receive are numbered; the request a call begins   *)
(* and the output handler it gives have its number.                        *)
(***************************************************************************)
EXTENDS Naturals, Sequences

CONSTANTS MaxCalls,     \* calls of send and receive, at most
          MaxChunks,    \* buffers a response body fills, at most
          MaxRedirects  \* the property maxRedirects

ASSUME HttpAssumption == {MaxCalls, MaxChunks, MaxRedirects} \subseteq Nat

Calls == 1 .. MaxCalls
None == <<<<0, 0>>>>     \* a null stream or property

VARIABLES
  calls,          \* how many calls of send and receive there were
  how,            \* how[c]: "send", "receive", or "refused" when c began no request
  opened,         \* open() was called: there are a URL and the handlers
  emptyHeader,    \* a request header has an empty value
  readyState,     \* the property readyState
  connected,      \* the property connected
  dirty,          \* dirty
  abort,          \* abort, an event that resets when it is noticed
  outstream,      \* outstream: what it holds, or None
  outputHandler,  \* outputHandler, 0 when there is none
  responseText,   \* the property responseText
  thread,         \* thread[c]: where the thread of request c is
  telling,        \* telling[c]: it waits for onreadystatechange to return
  hops,           \* hops[c]: redirects it followed
  got,            \* got[c]: how many buffers of the response's body it read
  handed,         \* history: handed[c], what the handler of call c was given
  told,           \* history: requests whose handler saw readyState 4
  ended,          \* history: "whole", "aborted" or "failed" (timedOut) for each request
  disturbed,      \* history: requests during which another call was refused
  stopAsked,      \* history: requests abort() was called for
  overtaken,      \* history: requests overtaken by an open or a request at the end
  crashed         \* a null handler was called

httpProps == <<readyState, connected, responseText>>
streams == <<outstream, outputHandler>>
requests == <<thread, telling, hops, got>>
httpHistory == <<handed, told, ended, disturbed, stopAsked, overtaken>>
scriptVars == <<calls, how, opened, emptyHeader, dirty>>
httpVars == <<scriptVars, httpProps, abort, streams, requests, httpHistory, crashed>>

HttpInit ==
  /\ calls = 0 /\ how = [c \in Calls |-> "none"]
  /\ opened = FALSE /\ emptyHeader = FALSE /\ dirty = FALSE /\ abort = FALSE
  /\ readyState = 0 /\ connected = FALSE /\ responseText = None
  /\ outstream = None /\ outputHandler = 0
  /\ thread = [c \in Calls |-> "none"] /\ telling = [c \in Calls |-> FALSE]
  /\ hops = [c \in Calls |-> 0] /\ got = [c \in Calls |-> 0]
  /\ handed = [c \in Calls |-> <<>>] /\ told = {}
  /\ ended = [c \in Calls |-> "no"]
  /\ disturbed = {} /\ stopAsked = {} /\ overtaken = {} /\ crashed = FALSE

-----------------------------------------------------------------------------
(* The script, on the main thread.                                         *)

Running == {c \in Calls : thread[c] \notin {"none", "ended"}}
\* Requests that ended but for the last change of state.
Leaving == {c \in Calls : thread[c] = "closed"}

\* The call of onreadystatechange that open makes returns before open does.
Open ==
  /\ opened' = TRUE /\ readyState' = 1
  /\ overtaken' = overtaken \cup Leaving
  /\ UNCHANGED <<calls, how, emptyHeader, dirty, connected, responseText,
                 abort, streams, requests, handed, told, ended, disturbed, stopAsked,
                 crashed>>

SetRequestHeader ==
  /\ emptyHeader' \in BOOLEAN
  /\ UNCHANGED <<calls, how, opened, dirty, httpProps, abort, streams, requests,
                 httpHistory, crashed>>

Abort ==
  /\ abort' = TRUE
  /\ stopAsked' = stopAsked \cup Running
  /\ UNCHANGED <<scriptVars, httpProps, streams, requests, handed, told, ended,
                 disturbed, overtaken, crashed>>

\* Mutant: the abort of an earlier request is kept.
Mutant_AbortKept(out) ==
  /\ outstream' = IF dirty THEN None ELSE out
  /\ responseText' = IF dirty THEN None ELSE responseText
  /\ UNCHANGED abort

\* What an earlier request left is reset, the stream that send has just made
\* with it.
Reset(out) ==
  IF dirty
    THEN /\ abort' = FALSE /\ outstream' = None
         /\ responseText' = None
    ELSE /\ outstream' = out
         /\ UNCHANGED <<abort, responseText>>

\* Mutant: a request begins while another runs.
Mutant_BeginWhileConnected(kind, out, data) ==
  /\ Reset(out)
  /\ how' = [how EXCEPT ![calls'] = kind]
  /\ dirty' = TRUE /\ connected' = TRUE
  /\ thread' = [thread EXCEPT ![calls'] = "connect"]
  /\ overtaken' = overtaken \cup Leaving
  /\ UNCHANGED disturbed

\* Nothing is begun while another request runs; what send and receive did to the
\* streams before stays done.  Data it cannot send makes it throw after the reset.
BeginRequest(kind, out, data) ==
  \/ /\ connected
     /\ outstream' = out
     /\ how' = [how EXCEPT ![calls'] = "refused"]
     /\ disturbed' = disturbed \cup Running
     /\ UNCHANGED <<dirty, connected, abort, responseText, thread, overtaken>>
  \/ /\ ~connected /\ data = "unsupported"
     /\ Reset(out)
     /\ how' = [how EXCEPT ![calls'] = "refused"]
     /\ UNCHANGED <<dirty, connected, thread, disturbed, overtaken>>
  \/ /\ ~connected /\ data = "supported"
     /\ Reset(out)
     /\ how' = [how EXCEPT ![calls'] = kind]
     /\ dirty' = TRUE /\ connected' = TRUE
     /\ thread' = [thread EXCEPT ![calls'] = "connect"]
     /\ overtaken' = overtaken \cup Leaving
     /\ UNCHANGED disturbed

Calling ==
  /\ calls < MaxCalls /\ calls' = calls + 1
  /\ UNCHANGED <<opened, emptyHeader, readyState, telling, hops, got, handed, told,
                 ended, stopAsked, crashed>>

Send ==
  /\ Calling
  /\ \E data \in {"supported", "unsupported"} : BeginRequest("send", <<>>, data)
  /\ UNCHANGED outputHandler

Receive ==
  /\ Calling
  /\ \E data \in {"supported", "unsupported"} : BeginRequest("receive", None, data)
  /\ outputHandler' = calls'

\* An object without a write method: the request uses the handler there was.
ReceiveNoWrite ==
  /\ Calling
  /\ BeginRequest("noWrite", None, "supported")
  /\ UNCHANGED outputHandler

\* Neither a method nor an object: only the stream is gone.
ReceiveInvalid ==
  /\ Calling
  /\ outstream' = None
  /\ how' = [how EXCEPT ![calls'] = "refused"]
  /\ disturbed' = disturbed \cup Running
  /\ UNCHANGED <<dirty, connected, abort, responseText, thread, overtaken,
                 outputHandler>>

Script == Open \/ SetRequestHeader \/ Abort \/ Send \/ Receive \/ ReceiveNoWrite \/ ReceiveInvalid

-----------------------------------------------------------------------------
(* ExecuteRequest, on the thread of request c.                             *)

Go(c, to) == thread' = [thread EXCEPT ![c] = to]
At(c, where) == thread[c] = where /\ ~telling[c]

\* The loop over redirects sends a request; the loop over headers in it never ends
\* when a value is empty.
Asks(c) == At(c, "connect") /\ hops[c] < MaxRedirects /\ opened /\ ~emptyHeader

Redirected(c) ==
  /\ Asks(c)
  /\ hops' = [hops EXCEPT ![c] = @ + 1]
  /\ UNCHANGED <<scriptVars, httpProps, abort, streams, thread, telling, got, httpHistory, crashed>>

\* No redirect is left, or one goes nowhere.
RedirectEnds(c) ==
  /\ At(c, "connect") /\ (hops[c] = MaxRedirects \/ Asks(c))
  /\ hops' = [hops EXCEPT ![c] = 0] /\ Go(c, "closing")
  /\ UNCHANGED <<scriptVars, httpProps, abort, streams, telling, got, httpHistory, crashed>>

Answered(c) ==
  /\ Asks(c)
  /\ hops' = [hops EXCEPT ![c] = 0] /\ Go(c, "headers")
  /\ UNCHANGED <<scriptVars, httpProps, abort, streams, telling, got, httpHistory, crashed>>

\* ChangeState: the property first, then the handler on the main thread.
ChangeState(c, where, state) ==
  /\ At(c, where)
  /\ readyState' = state
  /\ telling' = [telling EXCEPT ![c] = TRUE]
  /\ UNCHANGED <<scriptVars, connected, responseText, abort, streams, thread, hops,
                 got, httpHistory, crashed>>

\* The main thread has called onreadystatechange, ...
HandlerCalled(c) ==
  /\ telling[c]
  /\ telling' = [telling EXCEPT ![c] = FALSE]
  /\ told' = IF opened /\ readyState = 4 THEN told \cup {c} ELSE told

\* ... and the thread goes on ...
HandlerReturns(c) ==
  /\ HandlerCalled(c)
  /\ Go(c, CASE thread[c] = "headers" -> "loading"
             [] thread[c] = "loading" -> "body"
             [] thread[c] = "closed" -> "ended")
  /\ UNCHANGED <<scriptVars, httpProps, abort, streams, hops, got, handed, ended,
                 disturbed, stopAsked, overtaken, crashed>>

\* ... or gets the exception of the script, which ends the request as a timeout does, or,
\* when all is over, the thread.
HandlerThrows(c) ==
  /\ HandlerCalled(c)
  /\ IF thread[c] = "closed"
       THEN Go(c, "ended") /\ UNCHANGED ended
       ELSE Go(c, "closing") /\ ended' = [ended EXCEPT ![c] = "failed"]
  /\ UNCHANGED <<scriptVars, httpProps, abort, streams, hops, got, handed, disturbed,
                 stopAsked, overtaken, crashed>>

ReceiveChunk(c) ==
  /\ At(c, "body") /\ got[c] < MaxChunks /\ ~abort
  /\ got' = [got EXCEPT ![c] = @ + 1]
  /\ LET chunk == <<c, got'[c]>>
     IN IF outstream # None
          THEN outstream' = Append(outstream, chunk) /\ UNCHANGED <<handed, crashed>>
        ELSE IF outputHandler # 0
          THEN /\ handed' = [handed EXCEPT ![outputHandler] = Append(@, chunk)]
               /\ UNCHANGED <<outstream, crashed>>
        ELSE crashed' = TRUE /\ UNCHANGED <<outstream, handed>>
  /\ UNCHANGED <<scriptVars, httpProps, abort, outputHandler, thread, telling, hops,
                 told, ended, disturbed, stopAsked, overtaken>>

\* Noticed when there is more to read.
BodyAborted(c) ==
  /\ At(c, "body") /\ abort
  /\ abort' = FALSE
  /\ ended' = [ended EXCEPT ![c] = "aborted"]
  /\ Go(c, "closing")
  /\ UNCHANGED <<scriptVars, httpProps, streams, telling, hops, got, handed, told,
                 disturbed, stopAsked, overtaken, crashed>>

\* All was read, or the server closed the connection early.
BodyEnds(c) ==
  /\ At(c, "body")
  /\ ended' = [ended EXCEPT ![c] = "whole"]
  /\ responseText' = IF outstream \notin {None, <<>>} THEN outstream ELSE responseText
  /\ Go(c, "closing")
  /\ UNCHANGED <<scriptVars, readyState, connected, abort, streams, telling, hops,
                 got, handed, told, disturbed, stopAsked, overtaken, crashed>>

\* Mutant: an exception ends the thread at once.
Mutant_EndsAtOnce(c) ==
  /\ \/ At(c, "connect") /\ hops[c] < MaxRedirects /\ ~(opened /\ emptyHeader)
     \/ At(c, "body")
  /\ ended' = [ended EXCEPT ![c] = "failed"]
  /\ hops' = [hops EXCEPT ![c] = 0] /\ Go(c, "ended")
  /\ UNCHANGED <<scriptVars, httpProps, abort, streams, telling, got, handed, told,
                 disturbed, stopAsked, overtaken, crashed>>

\* A timeout or another exception, of the connection (without a URL at once), of the body
\* (an abort may come between the look at it and the read) or of its handler.
Fails(c) ==
  /\ \/ At(c, "connect") /\ hops[c] < MaxRedirects /\ ~(opened /\ emptyHeader)
     \/ At(c, "body")
  /\ ended' = [ended EXCEPT ![c] = "failed"]
  /\ hops' = [hops EXCEPT ![c] = 0] /\ Go(c, "closing")
  /\ UNCHANGED <<scriptVars, httpProps, abort, streams, telling, got, handed, told,
                 disturbed, stopAsked, overtaken, crashed>>

CloseSession(c) ==
  /\ At(c, "closing")
  /\ connected' = FALSE
  /\ Go(c, "closed")
  /\ UNCHANGED <<scriptVars, readyState, responseText, abort, streams, telling,
                 hops, got, httpHistory, crashed>>

ExecuteRequest(c) ==
  \/ Redirected(c) \/ RedirectEnds(c) \/ Answered(c)
  \/ ChangeState(c, "headers", 2) \/ ChangeState(c, "loading", 3)
  \/ ReceiveChunk(c) \/ BodyAborted(c) \/ BodyEnds(c) \/ Fails(c)
  \/ CloseSession(c) \/ ChangeState(c, "closed", 4)

\* What happens to request c: its thread does the next thing, or the main thread does
\* what it waits for.
RequestGoesOn(c) ==
  ~crashed /\ (ExecuteRequest(c) \/ HandlerReturns(c) \/ HandlerThrows(c))

HttpNext ==
  \/ ~crashed /\ Script
  \/ \E c \in Calls : RequestGoesOn(c)

\* The threads of the requests and the main thread go on; a server that does not
\* answer is met by the timeout.
HttpFairness == \A c \in Calls : WF_httpVars(RequestGoesOn(c))

-----------------------------------------------------------------------------
(* Properties.                                                             *)

Chunks(c) == [i \in 1 .. got[c] |-> <<c, i>>]
\* The places in list of what the request c read.
From(list, c) == {j \in DOMAIN list : list[j][1] = c}

\* The body of a response reaches the handler that its receive() gave, or the
\* responseText of its send(), complete as far as it was read, in order and no
\* other handler or text.  Two things break this: a send or receive that
\* is refused swaps the streams of the request that runs, and BeginRequest's reset
\* takes the stream from every send() but the first request.
BodyIsItsOwn ==
  \A c \in Calls \ disturbed :
    /\ how[c] = "receive" =>
         /\ \A d \in Calls \ {c} : From(handed[d], c) = {}
         /\ {handed[c][j] : j \in From(handed[c], c)} = {<<c, i>> : i \in 1 .. got[c]}
         /\ \A j, k \in From(handed[c], c) : j < k => handed[c][j][2] < handed[c][k][2]
    /\ (how[c] = "send" /\ c = 1 /\ thread[c] = "closing" /\ ended[c] = "whole")
         => responseText = IF got[c] = 0 THEN None ELSE Chunks(c)

\* abort() ends the request that runs and not a later one: an abort that came too
\* late for its request is forgotten when the next begins.  Before the first
\* request there is nothing that forgets it.
AbortIsForThis ==
  \A c \in Calls :
    ended[c] = "aborted" => c \in stopAsked \/ \A d \in 1 .. c - 1 : how[d] = "refused"

\* Every request ends, whatever the server and the script do, and its handler sees
\* readyState 4, unless an open() or a request slipped in before.  The loop over the
\* request headers never ends when one has an empty value.
RequestsEnd ==
  \A c \in Calls :
    c \in Running ~>
      \/ emptyHeader \/ crashed
      \/ thread[c] = "ended" /\ (c \in told \/ c \in overtaken \/ ~opened)
=============================================================================
