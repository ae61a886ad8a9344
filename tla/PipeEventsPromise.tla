-------------------------- MODULE PipeEventsPromise --------------------------
(* PipeEvents keeps the promise of EventOrder: what is owed is what is      *)
(* queued, or collected and not fired yet.                                  *)
EXTENDS PipeEvents

ElementsOf(q) == {q[i] : i \in DOMAIN q}

Promise == INSTANCE EventOrder WITH
  owedCloses <- ElementsOf(closeEvents) \cup ElementsOf(closeQueue),
  owedOthers <- otherCopy \o otherEvents

\* Every step of the calls and of the FireEvents loop is a step of EventOrder
\* or changes nothing a listener can tell: the queues, the copies and the
\* rounds of pipe.cpp lose, repeat and reorder no event.
PromiseKept == Promise!Spec
===============================================================================
