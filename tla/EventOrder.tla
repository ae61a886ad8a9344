----------------------------- MODULE EventOrder -----------------------------
(***************************************************************************)
(* What the event machinery of Process.Pipe promises to the listeners of   *)
(* the pipes, whatever queues, rounds and threads it is made of:           *)
(*   - READs show what was written to a pipe, all of it in order;          *)
(*   - a CLOSE answers one call of Close, after the READs of everything    *)
(*     written to the pipe before that call;                               *)
(*   - other events (EXIT) are fired in the order in which they were       *)
(*     asked for, each after the READs of everything written to any pipe,  *)
(*     and the CLOSEs of every Close called, before it was asked for.      *)
(***************************************************************************)
EXTENDS Naturals, Sequences

CONSTANTS Pipes, Blobs, Others

VARIABLES
  written,      \* what was written to each pipe
  delivered,    \* what its listeners have read
  closesAsked,  \* how often Close was called
  closesFired,  \* the calls of Close that were answered by a CLOSE
  owedCloses,   \* the calls of Close that have had no CLOSE yet
  owedOthers    \* the other events that have not been fired yet

vars == <<written, delivered, closesAsked, closesFired, owedCloses, owedOthers>>

Init ==
  /\ written = [p \in Pipes |-> <<>>] /\ delivered = [p \in Pipes |-> <<>>]
  /\ closesAsked = [p \in Pipes |-> 0] /\ closesFired = [p \in Pipes |-> {}]
  /\ owedCloses = {} /\ owedOthers = <<>>

Write(p, b) ==
  /\ written' = [written EXCEPT ![p] = Append(@, b)]
  /\ UNCHANGED <<delivered, closesAsked, closesFired, owedCloses, owedOthers>>

Close(p) ==
  /\ closesAsked' = [closesAsked EXCEPT ![p] = @ + 1]
  /\ owedCloses' = owedCloses \cup {[pipe |-> p, nth |-> closesAsked[p] + 1,
                                     after |-> Len(written[p])]}
  /\ UNCHANGED <<written, delivered, closesFired, owedOthers>>

Ask(e) ==
  /\ owedOthers' = Append(owedOthers,
       [event |-> e, after |-> [p \in Pipes |-> Len(written[p])], closes |-> closesAsked])
  /\ UNCHANGED <<written, delivered, closesAsked, closesFired, owedCloses>>

\* The listeners of p read n blobs more.
Read(p, n) ==
  /\ n \in 1 .. Len(written[p]) - Len(delivered[p])
  /\ delivered' = [delivered EXCEPT ![p] = SubSeq(written[p], 1, Len(@) + n)]
  /\ UNCHANGED <<written, closesAsked, closesFired, owedCloses, owedOthers>>

FireClose(c) ==
  /\ c \in owedCloses
  /\ c.nth \notin closesFired[c.pipe]
  /\ c.after <= Len(delivered[c.pipe])
  /\ closesFired' = [closesFired EXCEPT ![c.pipe] = @ \cup {c.nth}]
  /\ owedCloses' = owedCloses \ {c}
  /\ UNCHANGED <<written, delivered, closesAsked, owedOthers>>

FireOther ==
  /\ owedOthers # <<>>
  /\ LET e == Head(owedOthers) IN
       /\ \A p \in Pipes : e.after[p] <= Len(delivered[p])
       /\ \A c \in owedCloses : c.nth > e.closes[c.pipe]
  /\ owedOthers' = Tail(owedOthers)
  /\ UNCHANGED <<written, delivered, closesAsked, closesFired, owedCloses>>

Next ==
  \/ \E p \in Pipes, b \in Blobs : Write(p, b)
  \/ \E p \in Pipes : Close(p) \/ \E n \in 1 .. Len(written[p]) : Read(p, n)
  \/ \E e \in Others : Ask(e)
  \/ \E c \in owedCloses : FireClose(c)
  \/ FireOther

Spec == Init /\ [][Next]_vars
=============================================================================
