----------------------------- MODULE PromiseProofs -----------------------------
(***************************************************************************)
(* What PipeEvents promises, for every set of pipes, threads, blobs and    *)
(* events.  To attached objects: what a pipe has detached is not called    *)
(* any more.  To listeners: PipeEvents implements EventOrder, no step of   *)
(* the calls and of the loop shows them anything EventOrder does not allow. *)
(***************************************************************************)
EXTENDS PipeEventsPromise, PipeEventsProofs

-----------------------------------------------------------------------------
(* Calls go to what is attached.                                           *)

\* The steps left of a call: one unlock for each mutex it holds, after the calls made
\* under the mutex; Detach's loop comes first, and only its unlock comes after.
GoodTodo(s) ==
  /\ \A i, j \in DOMAIN s :
       s[i].do = "unlock" /\ s[j].do = "unlock" /\ s[i].pipe = s[j].pipe => i = j
  /\ \A i \in DOMAIN s : s[i].do = "call" =>
       \E j \in DOMAIN s : j > i /\ s[j].do = "unlock" /\ s[j].pipe = s[i].via
  /\ \A i \in DOMAIN s : s[i].do = "erase" =>
       i = 1 /\ Len(s) = 2 /\ s[2].do = "unlock" /\ s[2].pipe = s[1].pipe

\* A thread that is to unlock a mutex holds it.
Unlocks(t, p) == \E i \in DOMAIN todo[t] : todo[t][i].do = "unlock" /\ todo[t][i].pipe = p
HoldsLocks == \A t \in Threads, p \in Pipes : Unlocks(t, p) => holder[p] = t

CallsInv == HoldsLocks /\ (\A t \in Threads : GoodTodo(todo[t])) /\ NoCallAfterDetach

-----------------------------------------------------------------------------
(* Lemmas about the steps left of a call.                                  *)

LEMMA TailGood ==
  ASSUME NEW s \in Seq(Task), s # <<>>, GoodTodo(s)
  PROVE  GoodTodo(Tail(s))
<1>1. /\ Len(Tail(s)) = Len(s) - 1 /\ DOMAIN Tail(s) = 1 .. Len(s) - 1
      /\ DOMAIN s = 1 .. Len(s) /\ Len(s) \in Nat
      /\ \A i \in 1 .. Len(s) - 1 : Tail(s)[i] = s[i + 1]
  BY TailFacts
<1>2. \A i \in DOMAIN Tail(s) : i + 1 \in DOMAIN s /\ Tail(s)[i] = s[i + 1]
  BY <1>1
<1>3. ASSUME NEW i \in DOMAIN Tail(s), NEW j \in DOMAIN Tail(s),
             Tail(s)[i].do = "unlock", Tail(s)[j].do = "unlock", Tail(s)[i].pipe = Tail(s)[j].pipe
      PROVE  i = j
  <2>1. i + 1 = j + 1
    BY <1>2, <1>3 DEF GoodTodo
  <2> QED
    BY <1>1, <2>1
<1>4. ASSUME NEW i \in DOMAIN Tail(s), Tail(s)[i].do = "call"
      PROVE  \E j \in DOMAIN Tail(s) :
               j > i /\ Tail(s)[j].do = "unlock" /\ Tail(s)[j].pipe = Tail(s)[i].via
  <2>1. PICK k \in DOMAIN s : k > i + 1 /\ s[k].do = "unlock" /\ s[k].pipe = Tail(s)[i].via
    BY <1>2, <1>4 DEF GoodTodo
  <2>2. k - 1 \in DOMAIN Tail(s) /\ k - 1 > i /\ Tail(s)[k - 1] = s[k]
    BY <1>1, <2>1
  <2> QED
    BY <2>1, <2>2
<1>5. ASSUME NEW i \in DOMAIN Tail(s), Tail(s)[i].do = "erase" PROVE FALSE
  BY <1>1, <1>2, <1>5 DEF GoodTodo
<1> QED
  BY <1>3, <1>4, <1>5 DEF GoodTodo

LEMMA Indices == \A s \in Seq(Task) : DOMAIN s = 1 .. Len(s) /\ Len(s) \in Nat
OBVIOUS

LEMMA ShortSequences ==
  \A a, b \in Task :
    /\ <<a>> \in Seq(Task) /\ Len(<<a>>) = 1 /\ DOMAIN <<a>> = 1 .. 1 /\ <<a>>[1] = a
    /\ <<a, b>> \in Seq(Task) /\ Len(<<a, b>>) = 2 /\ DOMAIN <<a, b>> = 1 .. 2
    /\ <<a, b>>[1] = a /\ <<a, b>>[2] = b
OBVIOUS

\* The place of everything when a call goes on to attached objects.
LEMMA ForwardIndices ==
  ASSUME NEW s \in Seq(Task), NEW c \in Seq(Task), NEW u \in Task, s # <<>>,
         NEW r, r = c \o <<u>> \o Tail(s)
  PROVE  /\ r \in Seq(Task) /\ Len(r) = Len(c) + Len(s) /\ DOMAIN r = 1 .. Len(r)
         /\ \A i \in 1 .. Len(c) : r[i] = c[i]
         /\ r[Len(c) + 1] = u
         /\ \A i \in 2 .. Len(s) : r[Len(c) + i] = s[i]
<1>1. /\ Tail(s) \in Seq(Task) /\ Len(Tail(s)) = Len(s) - 1 /\ Len(s) \in Nat /\ Len(s) >= 1
      /\ \A i \in 1 .. Len(s) - 1 : Tail(s)[i] = s[i + 1]
  BY TailFacts
<1>2. c \o <<u>> = Append(c, u) /\ Append(c, u) \in Seq(Task) /\ Len(c) \in Nat
      /\ Len(Append(c, u)) = Len(c) + 1
  OBVIOUS
<1>3. r = Append(c, u) \o Tail(s)
  BY <1>2
<1>4. r \in Seq(Task) /\ Len(r) = Len(c) + Len(s) /\ DOMAIN r = 1 .. Len(r)
  BY <1>1, <1>2, <1>3
<1>5. \A i \in 1 .. Len(c) + 1 : r[i] = Append(c, u)[i]
  BY <1>1, <1>2, <1>3
<1>6. \A i \in 1 .. Len(s) - 1 : r[Len(c) + 1 + i] = Tail(s)[i]
  BY <1>1, <1>2, <1>3
<1>7. \A i \in 2 .. Len(s) : r[Len(c) + i] = s[i]
  <2> TAKE i \in 2 .. Len(s)
  <2>1. i - 1 \in 1 .. Len(s) - 1 /\ Len(c) + 1 + (i - 1) = Len(c) + i /\ (i - 1) + 1 = i
    BY <1>1, <1>2
  <2> QED
    BY <1>1, <1>6, <2>1
<1>8. (\A i \in 1 .. Len(c) : Append(c, u)[i] = c[i]) /\ Append(c, u)[Len(c) + 1] = u
  BY AppendFacts
<1> QED
  BY <1>2, <1>4, <1>5, <1>7, <1>8

LEMMA ForwardGood ==
  ASSUME NEW s \in Seq(Task), NEW c \in Seq(Task), NEW p \in Pipes, s # <<>>, GoodTodo(s),
         s[1].do # "erase",
         \A i \in DOMAIN s : ~(s[i].do = "unlock" /\ s[i].pipe = p),
         \A i \in DOMAIN c : c[i].do = "call" /\ c[i].via = p
  PROVE  GoodTodo(c \o <<[do |-> "unlock", pipe |-> p]>> \o Tail(s))
<1> DEFINE u == [do |-> "unlock", pipe |-> p]
           r == c \o <<u>> \o Tail(s)
<1>0. u \in Task /\ u.do = "unlock" /\ u.pipe = p
  BY DEF Task
<1> HIDE DEF u
<1>1. /\ Len(r) = Len(c) + Len(s) /\ DOMAIN r = 1 .. Len(r)
      /\ \A i \in 1 .. Len(c) : r[i] = c[i]
      /\ r[Len(c) + 1] = u
      /\ \A i \in 2 .. Len(s) : r[Len(c) + i] = s[i]
  BY <1>0, ForwardIndices
<1>2. Len(c) \in Nat /\ Len(s) \in Nat /\ Len(s) >= 1 /\ DOMAIN s = 1 .. Len(s)
      /\ DOMAIN c = 1 .. Len(c)
  OBVIOUS
<1> HIDE DEF r
<1>3. \A i \in DOMAIN r :
        \/ i \in 1 .. Len(c) /\ r[i].do = "call" /\ r[i].via = p
        \/ i = Len(c) + 1 /\ r[i] = u
        \/ i - Len(c) \in 2 .. Len(s) /\ r[i] = s[i - Len(c)]
  <2> TAKE i \in DOMAIN r
  <2>1. CASE i \in 1 .. Len(c)
    BY <1>1, <1>2, <2>1
  <2>2. CASE i = Len(c) + 1
    BY <1>1, <2>2
  <2>3. CASE i > Len(c) + 1
    <3>1. i - Len(c) \in 2 .. Len(s) /\ Len(c) + (i - Len(c)) = i
      BY <1>1, <1>2, <2>3
    <3> QED
      BY <1>1, <3>1
  <2> QED
    BY <1>1, <1>2, <2>1, <2>2, <2>3
<1>4. ASSUME NEW i \in DOMAIN r, NEW j \in DOMAIN r,
             r[i].do = "unlock", r[j].do = "unlock", r[i].pipe = r[j].pipe
      PROVE  i = j
  <2>1. \A k \in DOMAIN r : r[k].do = "unlock" =>
          \/ k = Len(c) + 1
          \/ k - Len(c) \in DOMAIN s /\ r[k] = s[k - Len(c)] /\ r[k].pipe # p
    BY <1>2, <1>3
  <2>2. CASE i = Len(c) + 1 \/ j = Len(c) + 1
    BY <1>0, <1>1, <1>4, <2>1, <2>2
  <2>3. CASE i # Len(c) + 1 /\ j # Len(c) + 1
    <3>1. i - Len(c) = j - Len(c)
      BY <1>4, <2>1, <2>3 DEF GoodTodo
    <3> QED
      BY <1>1, <1>2, <3>1
  <2> QED
    BY <2>2, <2>3
<1>5. ASSUME NEW i \in DOMAIN r, r[i].do = "call"
      PROVE  \E j \in DOMAIN r : j > i /\ r[j].do = "unlock" /\ r[j].pipe = r[i].via
  <2>1. CASE i \in 1 .. Len(c) /\ r[i].via = p
    <3>1. Len(c) + 1 \in DOMAIN r /\ Len(c) + 1 > i
      BY <1>1, <1>2, <2>1
    <3> QED
      BY <1>0, <1>1, <2>1, <3>1
  <2>2. CASE i - Len(c) \in 2 .. Len(s) /\ r[i] = s[i - Len(c)]
    <3>1. PICK k \in DOMAIN s : k > i - Len(c) /\ s[k].do = "unlock" /\ s[k].pipe = r[i].via
      BY <1>2, <1>5, <2>2 DEF GoodTodo
    <3>2. k \in 2 .. Len(s) /\ Len(c) + k \in DOMAIN r /\ Len(c) + k > i
      BY <1>1, <1>2, <2>2, <3>1
    <3> QED
      BY <1>1, <3>1, <3>2
  <2> QED
    BY <1>0, <1>3, <1>5, <2>1, <2>2
<1>6. ASSUME NEW i \in DOMAIN r, r[i].do = "erase" PROVE FALSE
  <2>1. i - Len(c) \in DOMAIN s /\ i - Len(c) # 1 /\ s[i - Len(c)].do = "erase"
    BY <1>0, <1>2, <1>3, <1>6
  <2> QED
    BY <2>1 DEF GoodTodo
<1>7. GoodTodo(r)
  BY <1>4, <1>5, <1>6 DEF GoodTodo
<1> QED
  BY <1>7 DEF r, u

\* The steps of a thread that has reached another pipe.
LEMMA ReachedGood ==
  ASSUME NEW s \in Seq(Task), NEW f \in Task, s # <<>>, GoodTodo(s), s[1].do = "call",
         f.do = "forward"
  PROVE  /\ <<f>> \o Tail(s) \in Seq(Task) /\ GoodTodo(<<f>> \o Tail(s))
         /\ DOMAIN (<<f>> \o Tail(s)) = DOMAIN s
         /\ \A i \in DOMAIN s : i # 1 => (<<f>> \o Tail(s))[i] = s[i]
         /\ (<<f>> \o Tail(s))[1] = f
<1> DEFINE r == <<f>> \o Tail(s)
<1>1. <<>> \in Seq(Task) /\ Len(<<>>) = 0 /\ <<>> \o <<f>> = <<f>>
  OBVIOUS
<1>2. r = <<>> \o <<f>> \o Tail(s)
  BY <1>1
<1> HIDE DEF r
<1>3. /\ r \in Seq(Task) /\ Len(r) = Len(s) /\ DOMAIN r = 1 .. Len(r) /\ r[1] = f
      /\ \A i \in 2 .. Len(s) : r[i] = s[i]
  <2>1. /\ r \in Seq(Task) /\ Len(r) = Len(<<>>) + Len(s) /\ DOMAIN r = 1 .. Len(r)
        /\ r[Len(<<>>) + 1] = f /\ \A i \in 2 .. Len(s) : r[Len(<<>>) + i] = s[i]
    BY <1>1, <1>2, ForwardIndices
  <2>2. Len(s) \in Nat /\ \A i \in 2 .. Len(s) : 0 + i = i
    BY Indices
  <2> QED
    BY <1>1, <2>1, <2>2
<1>4. DOMAIN r = DOMAIN s /\ \A i \in DOMAIN s : i # 1 => r[i] = s[i]
  BY <1>3, Indices
<1>5. \A i \in DOMAIN s : r[i].do \in {"unlock", "call", "erase"} => i # 1 /\ r[i] = s[i]
  BY <1>3, <1>4
<1>6. \A i \in DOMAIN r : r[i].do # "erase"
  BY <1>4, <1>5 DEF GoodTodo
<1>7. ASSUME NEW i \in DOMAIN r, r[i].do = "call"
      PROVE  \E j \in DOMAIN r : j > i /\ r[j].do = "unlock" /\ r[j].pipe = r[i].via
  <2>1. i # 1 /\ r[i] = s[i] /\ i \in DOMAIN s
    BY <1>4, <1>5, <1>7
  <2>2. PICK j \in DOMAIN s : j > i /\ s[j].do = "unlock" /\ s[j].pipe = s[i].via
    BY <1>7, <2>1 DEF GoodTodo
  <2>3. j # 1
    BY <2>1, <2>2, Indices
  <2> QED
    BY <1>4, <2>1, <2>2, <2>3
<1>8. GoodTodo(r)
  BY <1>4, <1>5, <1>6, <1>7 DEF GoodTodo
<1> QED
  BY <1>3, <1>4, <1>8 DEF r

-----------------------------------------------------------------------------
(* Every step keeps the invariant.                                         *)

\* The thread t has s left to do, and holds the mutexes it is to unlock.
LEMMA OneThread ==
  ASSUME PipeTypeOK, CallsInv, NEW t \in Threads, NEW s,
         todo' = [todo EXCEPT ![t] = s], attached' = attached, GoodTodo(s),
         \A i \in DOMAIN s : s[i].do = "call" =>
           \E j \in DOMAIN attached[s[i].via] : attached[s[i].via][j] = s[i].pipe,
         \A p \in Pipes : (\E i \in DOMAIN s : s[i].do = "unlock" /\ s[i].pipe = p)
                             => holder'[p] = t,
         \A p \in Pipes, u \in Threads \ {t} : holder[p] = u => holder'[p] = u
  PROVE  CallsInv'
<1>1. todo'[t] = s /\ \A u \in Threads \ {t} : todo'[u] = todo[u]
  BY DEF PipeTypeOK
<1>2. HoldsLocks'
  <2> SUFFICES ASSUME NEW u \in Threads, NEW p \in Pipes, Unlocks(u, p)' PROVE holder'[p] = u
    BY DEF HoldsLocks
  <2>1. CASE u = t
    BY <1>1, <2>1 DEF Unlocks
  <2>2. CASE u # t
    BY <1>1, <2>2 DEF CallsInv, HoldsLocks, Unlocks
  <2> QED
    BY <2>1, <2>2
<1>3. \A u \in Threads : GoodTodo(todo[u])'
  <2> TAKE u \in Threads
  <2>1. GoodTodo(todo'[u])
    BY <1>1 DEF CallsInv
  <2> QED
    BY <2>1 DEF GoodTodo
<1>4. NoCallAfterDetach'
  <2> SUFFICES ASSUME NEW u \in Threads, NEW i \in DOMAIN todo'[u], todo'[u][i].do = "call"
               PROVE  \E j \in DOMAIN attached[todo'[u][i].via] :
                         attached[todo'[u][i].via][j] = todo'[u][i].pipe
    BY DEF NoCallAfterDetach
  <2>1. CASE u = t
    BY <1>1, <2>1
  <2>2. CASE u # t
    BY <1>1, <2>2 DEF CallsInv, NoCallAfterDetach
  <2> QED
    BY <2>1, <2>2
<1> QED
  BY <1>2, <1>3, <1>4 DEF CallsInv

LEMMA EnterCalls ==
  ASSUME PipeTypeOK, CallsInv, NEW t \in Threads, NEW p \in Pipes,
         NEW what \in Blobs \cup {CloseCall}, Enter(t, p, what)
  PROVE  CallsInv'
<1> DEFINE f == [do |-> "forward", pipe |-> p]
<1>1. f \in Task /\ f.do = "forward"
  BY DEF Task
<1> HIDE DEF f
<1>2. todo' = [todo EXCEPT ![t] = <<f>>] /\ UNCHANGED <<attached, holder>>
  BY DEF Enter, f
<1>3. DOMAIN <<f>> = 1 .. 1 /\ <<f>>[1] = f /\ Len(<<f>>) = 1
  BY <1>1, ShortSequences
<1>4. \A i \in DOMAIN <<f>> : <<f>>[i].do \notin {"call", "unlock", "erase"}
  BY <1>1, <1>3
<1>5. GoodTodo(<<f>>)
  BY <1>4 DEF GoodTodo
<1> QED
  BY <1>2, <1>4, <1>5, OneThread

LEMMA EnterAttachedCalls ==
  ASSUME PipeTypeOK, CallsInv, NEW t \in Threads, EnterAttached(t)
  PROVE  CallsInv'
<1> DEFINE s == todo[t]
           f == [do |-> "forward", pipe |-> Head(s).pipe]
           r == <<f>> \o Tail(s)
<1>1. s \in Seq(Task) /\ s # <<>> /\ Head(s) = s[1] /\ Head(s) \in Task /\ s[1].do = "call"
      /\ GoodTodo(s)
  BY TailFacts DEF PipeTypeOK, EnterAttached, Idle, CallsInv
<1>2. f \in Task /\ f.do = "forward"
  BY <1>1, TaskPipe DEF Task
<1>3. todo' = [todo EXCEPT ![t] = r] /\ UNCHANGED <<attached, holder>>
  BY DEF EnterAttached
<1> HIDE DEF f
<1>4. /\ GoodTodo(r) /\ DOMAIN r = DOMAIN s /\ r[1] = f
      /\ \A i \in DOMAIN s : i # 1 => r[i] = s[i]
  BY <1>1, <1>2, ReachedGood
<1> HIDE DEF r
<1>5. \A i \in DOMAIN r : r[i].do \in {"call", "unlock"} => r[i] = s[i] /\ i \in DOMAIN s
  BY <1>2, <1>4
<1>6. \A i \in DOMAIN r : r[i].do = "call" =>
        \E j \in DOMAIN attached[r[i].via] : attached[r[i].via][j] = r[i].pipe
  BY <1>5 DEF CallsInv, NoCallAfterDetach
<1>7. \A p \in Pipes : (\E i \in DOMAIN r : r[i].do = "unlock" /\ r[i].pipe = p) => holder[p] = t
  BY <1>5 DEF CallsInv, HoldsLocks, Unlocks
<1> QED
  BY <1>3, <1>4, <1>6, <1>7, OneThread

LEMMA ForwardCalls ==
  ASSUME PipeTypeOK, CallsInv, NEW t \in Threads, Forward(t)
  PROVE  CallsInv'
<1> DEFINE s == todo[t]
           p == Head(s).pipe
           c == CallsOf(p)
           u == [do |-> "unlock", pipe |-> p]
           r == c \o <<u>> \o Tail(s)
<1>1. s \in Seq(Task) /\ s # <<>> /\ Head(s) = s[1] /\ Head(s) \in Task /\ s[1].do = "forward"
      /\ GoodTodo(s) /\ holder[p] = NoThread
  BY TailFacts DEF PipeTypeOK, Forward, Idle, CallsInv
<1>2. p \in Pipes /\ u \in Task /\ u.do = "unlock" /\ u.pipe = p
  BY <1>1, TaskPipe DEF Task
<1>3. todo' = [todo EXCEPT ![t] = r] /\ attached' = attached
      /\ holder' = [holder EXCEPT ![p] = t]
  BY DEF Forward
<1>4. c \in Seq(Task) /\ DOMAIN c = DOMAIN attached[p] /\ DOMAIN c = 1 .. Len(c)
      /\ \A i \in DOMAIN c : c[i].do = "call" /\ c[i].via = p /\ c[i].pipe = attached[p][i]
  BY <1>2, CallsType, Indices DEF CallsOf
<1>5. \A i \in DOMAIN s : ~(s[i].do = "unlock" /\ s[i].pipe = p)
  BY <1>1, <1>2, PipesAssumption DEF CallsInv, HoldsLocks, Unlocks
<1> HIDE DEF c, p
<1>6. GoodTodo(r)
  BY <1>1, <1>2, <1>4, <1>5, ForwardGood
<1> HIDE DEF u, s
<1>7. /\ Len(r) = Len(c) + Len(s) /\ DOMAIN r = 1 .. Len(r)
      /\ \A i \in 1 .. Len(c) : r[i] = c[i]
      /\ r[Len(c) + 1] = u
      /\ \A i \in 2 .. Len(s) : r[Len(c) + i] = s[i]
  BY <1>1, <1>2, <1>4, ForwardIndices
<1> HIDE DEF r
<1>8. \A i \in DOMAIN r :
        \/ i \in DOMAIN c /\ r[i] = c[i]
        \/ r[i] = u
        \/ \E k \in DOMAIN s : r[i] = s[k]
  <2> TAKE i \in DOMAIN r
  <2>0. Len(c) \in Nat /\ Len(s) \in Nat /\ DOMAIN s = 1 .. Len(s) /\ i \in 1 .. Len(c) + Len(s)
    BY <1>1, <1>4, <1>7, Indices
  <2>1. CASE i \in 1 .. Len(c)
    BY <1>4, <1>7, <2>1
  <2>2. CASE i = Len(c) + 1
    BY <1>7, <2>2
  <2>3. CASE i > Len(c) + 1
    <3>1. i - Len(c) \in 2 .. Len(s) /\ i - Len(c) \in DOMAIN s /\ Len(c) + (i - Len(c)) = i
      BY <2>0, <2>3
    <3> QED
      BY <1>7, <3>1
  <2> QED
    BY <2>0, <2>1, <2>2, <2>3
<1>9. \A i \in DOMAIN r : r[i].do = "call" =>
        \E j \in DOMAIN attached[r[i].via] : attached[r[i].via][j] = r[i].pipe
  <2> SUFFICES ASSUME NEW i \in DOMAIN r, r[i].do = "call"
               PROVE  \E j \in DOMAIN attached[r[i].via] : attached[r[i].via][j] = r[i].pipe
    OBVIOUS
  <2>1. CASE i \in DOMAIN c /\ r[i] = c[i]
    BY <1>4, <2>1
  <2>2. CASE \E k \in DOMAIN s : r[i] = s[k]
    BY <2>2 DEF s, CallsInv, NoCallAfterDetach
  <2> QED
    BY <1>2, <1>8, <2>1, <2>2
<1>10. ASSUME NEW q \in Pipes, NEW i \in DOMAIN r, r[i].do = "unlock", r[i].pipe = q
       PROVE  holder'[q] = t
  <2>1. CASE q = p
    BY <1>2, <1>3, <2>1 DEF PipeTypeOK
  <2>2. CASE q # p
    <3>1. PICK k \in DOMAIN s : r[i] = s[k]
      BY <1>2, <1>4, <1>8, <1>10, <2>2
    <3>2. holder[q] = t
      BY <1>10, <3>1 DEF s, CallsInv, HoldsLocks, Unlocks
    <3> QED
      BY <1>3, <2>2, <3>2 DEF PipeTypeOK
  <2> QED
    BY <2>1, <2>2
<1>11. \A q \in Pipes, v \in Threads \ {t} : holder[q] = v => holder'[q] = v
  BY <1>1, <1>3, PipesAssumption DEF PipeTypeOK
<1> QED
  BY <1>3, <1>6, <1>9, <1>10, <1>11, OneThread

LEMMA UnlockCalls ==
  ASSUME PipeTypeOK, CallsInv, NEW t \in Threads, Unlock(t)
  PROVE  CallsInv'
<1> DEFINE s == todo[t]
           p == s[1].pipe
           r == Tail(s)
<1>1. s \in Seq(Task) /\ s # <<>> /\ Head(s) = s[1] /\ s[1].do = "unlock" /\ GoodTodo(s)
      /\ 1 \in DOMAIN s /\ p \in Pipes
  BY TailFacts, TaskPipe DEF PipeTypeOK, Unlock, Idle, CallsInv
<1>2. todo' = [todo EXCEPT ![t] = r] /\ attached' = attached
      /\ holder' = [holder EXCEPT ![p] = NoThread]
  BY <1>1 DEF Unlock
<1>3. \A i \in DOMAIN r : i + 1 \in DOMAIN s /\ r[i] = s[i + 1] /\ i + 1 # 1
  BY <1>1, TailFacts, Indices
<1>4. GoodTodo(r)
  BY <1>1, TailGood
<1> HIDE DEF r
<1>5. holder[p] = t
  BY <1>1 DEF CallsInv, HoldsLocks, Unlocks
<1>6. \A i \in DOMAIN r : r[i].do = "call" =>
        \E j \in DOMAIN attached[r[i].via] : attached[r[i].via][j] = r[i].pipe
  BY <1>3 DEF CallsInv, NoCallAfterDetach
<1>7. ASSUME NEW q \in Pipes, NEW i \in DOMAIN r, r[i].do = "unlock", r[i].pipe = q
      PROVE  holder'[q] = t
  <2>1. q # p
    BY <1>1, <1>3, <1>7 DEF GoodTodo
  <2>2. holder[q] = t
    BY <1>3, <1>7 DEF CallsInv, HoldsLocks, Unlocks
  <2> QED
    BY <1>2, <2>1, <2>2 DEF PipeTypeOK
<1>8. \A q \in Pipes, v \in Threads \ {t} : holder[q] = v => holder'[q] = v
  BY <1>2, <1>5 DEF PipeTypeOK
<1> QED
  BY <1>2, <1>4, <1>6, <1>7, <1>8, OneThread

LEMMA AttachCalls ==
  ASSUME PipeTypeOK, CallsInv, NEW p \in Pipes, NEW q \in Pipes, Attach(p, q)
  PROVE  CallsInv'
<1>1. UNCHANGED <<holder, todo>> /\ attached' = [attached EXCEPT ![p] = Append(attached[p], q)]
  BY DEF Attach
<1>2. /\ attached[p] \in Seq(Pipes) /\ DOMAIN attached[p] = 1 .. Len(attached[p])
      /\ DOMAIN attached'[p] = 1 .. Len(attached[p]) + 1 /\ Len(attached[p]) \in Nat
      /\ \A i \in DOMAIN attached[p] : attached'[p][i] = attached[p][i]
  <2>1. attached[p] \in Seq(Pipes) /\ attached'[p] = Append(attached[p], q)
    BY <1>1 DEF PipeTypeOK
  <2>2. Append(attached[p], q) \in Seq(Pipes)
    BY <2>1
  <2>3. /\ DOMAIN attached[p] = 1 .. Len(attached[p]) /\ Len(attached[p]) \in Nat
        /\ DOMAIN Append(attached[p], q) = 1 .. Len(attached[p]) + 1
        /\ \A i \in 1 .. Len(attached[p]) : Append(attached[p], q)[i] = attached[p][i]
    BY <2>1, AppendFacts
  <2> QED
    BY <2>1, <2>3
<1>3. ASSUME NEW r \in Pipes, NEW j \in DOMAIN attached[r]
      PROVE  j \in DOMAIN attached'[r] /\ attached'[r][j] = attached[r][j]
  <2>1. CASE r = p
    BY <1>2, <1>3, <2>1
  <2>2. CASE r # p
    <3>1. attached'[r] = attached[r]
      BY <1>1, <2>2 DEF PipeTypeOK
    <3> QED
      BY <1>3, <3>1
  <2> QED
    BY <2>1, <2>2
<1>4. NoCallAfterDetach'
  <2> SUFFICES ASSUME NEW t \in Threads, NEW i \in DOMAIN todo[t], todo[t][i].do = "call"
               PROVE  \E j \in DOMAIN attached'[todo[t][i].via] :
                         attached'[todo[t][i].via][j] = todo[t][i].pipe
    BY <1>1 DEF NoCallAfterDetach
  <2>1. todo[t][i].via \in Pipes
    <3>1. todo[t][i] \in Task
      BY ElementType DEF PipeTypeOK
    <3> QED
      BY <3>1 DEF Task
  <2> QED
    BY <1>3, <2>1 DEF CallsInv, NoCallAfterDetach
<1>5. HoldsLocks' /\ \A t \in Threads : GoodTodo(todo[t])'
  BY <1>1 DEF CallsInv, HoldsLocks, Unlocks, GoodTodo
<1> QED
  BY <1>4, <1>5 DEF CallsInv

LEMMA DetachCalls ==
  ASSUME PipeTypeOK, CallsInv, NEW t \in Threads, NEW p \in Pipes, NEW q \in Pipes, Detach(t, p, q)
  PROVE  CallsInv'
<1> DEFINE e == [do |-> "erase", pipe |-> p, via |-> q]
           u == [do |-> "unlock", pipe |-> p]
<1>1. e \in Task /\ u \in Task /\ e.do = "erase" /\ u.do = "unlock" /\ e.pipe = p /\ u.pipe = p
  BY DEF Task
<1>2. /\ todo' = [todo EXCEPT ![t] = <<e, u>>] /\ attached' = attached
      /\ holder[p] = NoThread /\ holder' = [holder EXCEPT ![p] = t]
  BY DEF Detach
<1> HIDE DEF e, u
<1>3. Len(<<e, u>>) = 2 /\ DOMAIN <<e, u>> = 1 .. 2 /\ <<e, u>>[1] = e /\ <<e, u>>[2] = u
  BY <1>1, ShortSequences
<1>4. GoodTodo(<<e, u>>) /\ \A i \in DOMAIN <<e, u>> : <<e, u>>[i].do # "call"
  BY <1>1, <1>3 DEF GoodTodo
<1>5. ASSUME NEW r \in Pipes, NEW i \in DOMAIN <<e, u>>, <<e, u>>[i].do = "unlock",
             <<e, u>>[i].pipe = r
      PROVE  holder'[r] = t
  <2>1. r = p
    BY <1>1, <1>3, <1>5
  <2> QED
    BY <1>2, <2>1 DEF PipeTypeOK
<1>6. \A r \in Pipes, v \in Threads \ {t} : holder[r] = v => holder'[r] = v
  BY <1>2, PipesAssumption DEF PipeTypeOK
<1> QED
  BY <1>2, <1>4, <1>5, <1>6, OneThread

\* What t erases nobody is about to call: the calls of p are made with p's mutex, and
\* t, which has it, is to make none.
LEMMA EraseCalls ==
  ASSUME PipeTypeOK, CallsInv, NEW t \in Threads, Erase(t)
  PROVE  CallsInv'
<1> DEFINE s == todo[t]
           p == s[1].pipe
<1>1. s \in Seq(Task) /\ s # <<>> /\ Head(s) = s[1] /\ s[1].do = "erase" /\ GoodTodo(s)
      /\ 1 \in DOMAIN s /\ p \in Pipes /\ holder' = holder
  <2>1. s \in Seq(Task) /\ GoodTodo(s)
    BY DEF PipeTypeOK, CallsInv
  <2>2. s # <<>> /\ Head(s).do = "erase" /\ holder' = holder
    BY DEF Erase, Idle
  <2>3. Head(s) = s[1] /\ Head(s) \in Task /\ 1 \in DOMAIN s
    BY <2>1, <2>2, TailFacts
  <2> QED
    BY <2>1, <2>2, <2>3, TaskPipe
<1>2. Len(s) = 2 /\ DOMAIN s = 1 .. 2 /\ s[2].do = "unlock" /\ s[2].pipe = p
  BY <1>1, Indices DEF GoodTodo
<1>3. CASE todo' = [todo EXCEPT ![t] = Tail(s)] /\ attached' = attached
  <2>1. \A i \in DOMAIN Tail(s) : i + 1 \in DOMAIN s /\ Tail(s)[i] = s[i + 1]
    BY <1>1, TailFacts, Indices
  <2>2. GoodTodo(Tail(s))
    BY <1>1, TailGood
  <2>3. \A i \in DOMAIN Tail(s) : Tail(s)[i].do = "call" =>
          \E j \in DOMAIN attached[Tail(s)[i].via] : attached[Tail(s)[i].via][j] = Tail(s)[i].pipe
    BY <2>1 DEF CallsInv, NoCallAfterDetach
  <2>4. \A q \in Pipes : (\E i \in DOMAIN Tail(s) : Tail(s)[i].do = "unlock" /\ Tail(s)[i].pipe = q)
                           => holder'[q] = t
    BY <1>1, <2>1 DEF CallsInv, HoldsLocks, Unlocks
  <2> QED
    BY <1>1, <1>3, <2>2, <2>3, <2>4, OneThread
<1>4. CASE todo' = todo /\ \A q \in Pipes \ {p} : attached'[q] = attached[q]
  <2>1. holder[p] = t
    BY <1>1, <1>2 DEF CallsInv, HoldsLocks, Unlocks
  <2>2. ASSUME NEW v \in Threads, NEW i \in DOMAIN todo[v], todo[v][i].do = "call"
        PROVE  todo[v][i].via \in Pipes \ {p}
    <3>1. todo[v][i].via \in Pipes
      <4>1. todo[v][i] \in Task
        BY ElementType DEF PipeTypeOK
      <4> QED
        BY <2>2, <4>1 DEF Task
    <3>2. Unlocks(v, todo[v][i].via)
      BY <2>2 DEF CallsInv, GoodTodo, Unlocks
    <3>3. CASE todo[v][i].via = p
      <4>1. v = t
        BY <2>1, <3>1, <3>2, <3>3 DEF CallsInv, HoldsLocks
      <4> QED
        BY <1>1, <1>2, <2>2, <4>1
    <3> QED
      BY <3>1, <3>3
  <2>3. NoCallAfterDetach'
    BY <1>4, <2>2 DEF CallsInv, NoCallAfterDetach
  <2> QED
    BY <1>1, <1>4, <2>3 DEF CallsInv, HoldsLocks, Unlocks, GoodTodo
<1> QED
  BY <1>1, <1>3, <1>4 DEF Erase, PipeTypeOK

\* The FireEvents loop, and who asks it for an event, make no calls.
LEMMA OthersCalls ==
  ASSUME CallsInv, UNCHANGED callVars
  PROVE  CallsInv'
BY DEF CallsInv, HoldsLocks, Unlocks, GoodTodo, NoCallAfterDetach, callVars

LEMMA CallsStep == PipeTypeOK /\ CallsInv /\ [PipeNext]_pipeVars => CallsInv'
<1> SUFFICES ASSUME PipeTypeOK, CallsInv, [PipeNext]_pipeVars PROVE CallsInv'
  OBVIOUS
<1>1. CASE UNCHANGED pipeVars
  BY <1>1, OthersCalls DEF pipeVars
<1>2. CASE FireEvents
  <2>1. UNCHANGED callVars
    BY <1>2 DEF FireEvents, Collect, Fire, CollectOthers, CollectCloses, LockReads, CollectRead,
       UnlockReads, FireRead, ReadsFired, FireClose, ClosesFired, FireOther, OthersFired
  <2> QED
    BY <2>1, OthersCalls
<1>3. ASSUME NEW e \in Others, FireEventAsynchronously(e) PROVE CallsInv'
  BY <1>3, OthersCalls DEF FireEventAsynchronously
<1>4. ASSUME NEW t \in Threads, CallStep(t) PROVE CallsInv'
  BY <1>4, EnterAttachedCalls, ForwardCalls, UnlockCalls, EraseCalls DEF CallStep
<1> QED
  BY <1>1, <1>2, <1>3, <1>4, EnterCalls, AttachCalls, DetachCalls DEF PipeNext, Request

\* Once Detach has returned, nobody calls what it detached: neither a Write or Close
\* that was under way, nor one of another thread.
THEOREM DetachedIsNotCalled == PipeSpec => []NoCallAfterDetach
<1>1. PipeInit => CallsInv
  BY DEF PipeInit, Unused, CallsInv, HoldsLocks, Unlocks, GoodTodo, NoCallAfterDetach
<1>2. CallsInv => NoCallAfterDetach
  BY DEF CallsInv
<1> QED
  BY <1>1, <1>2, CallsStep, PipeTypeCorrect, PTL DEF PipeSpec

-----------------------------------------------------------------------------
(* Every call of Close is in one place: queued, collected or fired.        *)

Unfired(c) == c.nth \in 1 .. closesAsked[c.pipe] /\ c.nth \notin closesFired[c.pipe]
Same(c, d) == c.pipe = d.pipe /\ c.nth = d.nth
NoneTwice(q) == \A i, j \in DOMAIN q : Same(q[i], q[j]) => i = j

SingleInv ==
  /\ \A p \in Pipes : closesFired[p] \subseteq 1 .. closesAsked[p]
  /\ \A i \in DOMAIN closeQueue : Unfired(closeQueue[i])
  /\ \A i \in DOMAIN closeEvents : Unfired(closeEvents[i])
  /\ NoneTwice(closeQueue) /\ NoneTwice(closeEvents)
  /\ \A i \in DOMAIN closeEvents, j \in DOMAIN closeQueue : ~Same(closeEvents[i], closeQueue[j])

\* A step that asks for, moves and fires no CLOSE.
LEMMA SingleStays ==
  ASSUME SingleInv, UNCHANGED <<closeQueue, closeEvents, closesAsked, closesFired>>
  PROVE  SingleInv'
BY DEF SingleInv, Unfired, Same, NoneTwice

\* A call of Close is numbered after all earlier ones.
LEMMA QueueCloseSingle ==
  ASSUME PipeTypeOK, SingleInv, NEW p \in Pipes, QueueClose(p),
         UNCHANGED <<closeEvents, closesFired>>
  PROVE  SingleInv'
<1> DEFINE n == Len(closeQueue)
<1>1. /\ closeQueue \in Seq(CloseEntry) /\ closeEvents \in Seq(CloseEntry)
      /\ closesAsked \in [Pipes -> Nat] /\ Len(written[p]) \in Nat
      /\ closesAsked' = [closesAsked EXCEPT ![p] = @ + 1]
  BY DEF PipeTypeOK, QueueClose
<1>2. PICK e \in CloseEntry : /\ e.pipe = p /\ e.nth = closesAsked[p] + 1
                              /\ closeQueue' = Append(closeQueue, e)
  BY <1>1, SMTT(30) DEF CloseEntry, QueueClose
<1>3. /\ n \in Nat /\ DOMAIN closeQueue = 1 .. n /\ DOMAIN closeQueue' = 1 .. n + 1
      /\ closeQueue'[n + 1] = e /\ \A i \in 1 .. n : closeQueue'[i] = closeQueue[i]
  BY <1>1, <1>2, AppendFacts
<1>4. \A i \in DOMAIN closeQueue : closeQueue[i].pipe \in Pipes
  BY <1>1, ElementType, CloseEntryFields
<1>5. \A i \in DOMAIN closeEvents : closeEvents[i].pipe \in Pipes
  BY <1>1, ElementType, CloseEntryFields
<1>6. /\ \A q \in Pipes : 1 .. closesAsked[q] \subseteq 1 .. closesAsked'[q]
      /\ closesAsked[p] + 1 \in 1 .. closesAsked'[p]
      /\ closesAsked[p] + 1 \notin 1 .. closesAsked[p]
  BY <1>1
<1> HIDE DEF n
<1>7. \A i \in 1 .. n + 1 : i \in 1 .. n \/ i = n + 1
  BY <1>3
<1>8. /\ \A i \in DOMAIN closeQueue : Unfired(closeQueue[i]) /\ ~Same(closeQueue[i], e)
      /\ \A i \in DOMAIN closeEvents : Unfired(closeEvents[i]) /\ ~Same(closeEvents[i], e)
  BY <1>2, <1>4, <1>5, <1>6 DEF SingleInv, Unfired, Same
<1>9. \A q \in Pipes : closesFired'[q] \subseteq 1 .. closesAsked'[q]
  BY <1>6 DEF SingleInv
<1>10. \A i \in DOMAIN closeEvents' : Unfired(closeEvents[i])'
  BY <1>5, <1>6, <1>8 DEF Unfired
<1>11. e.nth \in 1 .. closesAsked'[p] /\ e.nth \notin closesFired'[p]
  BY <1>2, <1>6 DEF SingleInv
<1>12. \A i \in DOMAIN closeQueue' : Unfired(closeQueue[i])'
  BY <1>2, <1>3, <1>4, <1>6, <1>7, <1>8, <1>11 DEF Unfired
<1>13. NoneTwice(closeQueue)'
  BY <1>3, <1>7, <1>8 DEF SingleInv, NoneTwice, Same
<1>14. \A i \in DOMAIN closeEvents', j \in DOMAIN closeQueue' :
         ~Same(closeEvents'[i], closeQueue'[j])
  BY <1>3, <1>7, <1>8 DEF SingleInv
<1> QED
  BY <1>9, <1>10, <1>12, <1>13, <1>14 DEF SingleInv, NoneTwice

\* The collected CLOSEs leave the queue.
LEMMA CollectClosesSingle ==
  ASSUME ClosesInv, SingleInv, CollectCloses
  PROVE  SingleInv'
<1>1. /\ closeEvents' = closeQueue /\ closeQueue' = <<>> /\ closeEvents = <<>>
      /\ UNCHANGED <<closesAsked, closesFired>>
  BY DEF CollectCloses, Leave, ClosesInv, askedVars, firedVars
<1> QED
  BY <1>1 DEF SingleInv, Unfired, NoneTwice, Same

\* What is fired leaves the collected CLOSEs.
LEMMA FireCloseSingle ==
  ASSUME PipeTypeOK, SingleInv, FireClose
  PROVE  /\ SingleInv' /\ Unfired(Head(closeEvents)) /\ Head(closeEvents) = closeEvents[1]
         /\ \A i \in DOMAIN closeEvents' : closeEvents'[i] # Head(closeEvents)
<1> DEFINE n == Len(closeEvents)
<1>1. /\ closeEvents # <<>> /\ closeEvents' = Tail(closeEvents)
      /\ closesFired' = [closesFired EXCEPT ![Head(closeEvents).pipe] =
                                               @ \cup {Head(closeEvents).nth}]
      /\ UNCHANGED <<closesAsked, closeQueue>>
      /\ closeEvents \in Seq(CloseEntry) /\ closeQueue \in Seq(CloseEntry)
      /\ closesFired \in [Pipes -> SUBSET Nat]
  BY DEF FireClose, queueVars, askedVars, PipeTypeOK
<1>2. PICK h \in CloseEntry : h = Head(closeEvents) /\ h = closeEvents[1]
  BY <1>1, TailFacts
<1>3. /\ n \in Nat /\ DOMAIN closeEvents = 1 .. n /\ DOMAIN closeEvents' = 1 .. n - 1
      /\ \A i \in 1 .. n - 1 : closeEvents'[i] = closeEvents[i + 1]
      /\ 1 \in DOMAIN closeEvents
  BY <1>1, TailFacts
<1> HIDE DEF n
<1>4. \A i \in 1 .. n - 1 : i + 1 \in DOMAIN closeEvents /\ i + 1 # 1
  BY <1>3
<1>5. h.pipe \in Pipes /\ Unfired(h)
  BY <1>2, <1>3, CloseEntryFields DEF SingleInv
<1>6. /\ \A i \in DOMAIN closeEvents' : ~Same(closeEvents'[i], h)
      /\ \A j \in DOMAIN closeQueue : ~Same(closeQueue[j], h)
  BY <1>2, <1>3, <1>4 DEF SingleInv, NoneTwice, Same
<1>7. \A q \in Pipes : closesFired'[q] = IF q = h.pipe THEN closesFired[q] \cup {h.nth}
                                         ELSE closesFired[q]
  BY <1>1, <1>2, <1>5
<1>8. \A q \in Pipes : closesFired'[q] \subseteq 1 .. closesAsked'[q]
  BY <1>1, <1>5, <1>7 DEF SingleInv, Unfired
<1>9. /\ \A i \in DOMAIN closeEvents : closeEvents[i].pipe \in Pipes
      /\ \A i \in DOMAIN closeQueue : closeQueue[i].pipe \in Pipes
  BY <1>1, ElementType, CloseEntryFields
<1>10. \A i \in DOMAIN closeEvents' : Unfired(closeEvents[i])'
  <2> SUFFICES ASSUME NEW i \in DOMAIN closeEvents' PROVE Unfired(closeEvents[i])'
    OBVIOUS
  <2>1. PICK c : c = closeEvents'[i] /\ c = closeEvents[i + 1] /\ i + 1 \in DOMAIN closeEvents
    BY <1>3, <1>4
  <2>2. Unfired(c) /\ c.pipe \in Pipes /\ ~Same(c, h)
    BY <1>6, <1>9, <2>1 DEF SingleInv
  <2>3. c.nth \in 1 .. closesAsked'[c.pipe] /\ c.nth \notin closesFired'[c.pipe]
    BY <1>1, <1>7, <2>2 DEF Unfired, Same
  <2> QED
    BY <2>1, <2>3 DEF Unfired
<1>11. \A i \in DOMAIN closeQueue' : Unfired(closeQueue[i])'
  BY <1>1, <1>6, <1>7, <1>9 DEF SingleInv, Unfired, Same
<1>12. NoneTwice(closeQueue)'
  BY <1>1 DEF SingleInv, NoneTwice, Same
<1>13. NoneTwice(closeEvents)'
  <2> SUFFICES ASSUME NEW i \in DOMAIN closeEvents', NEW j \in DOMAIN closeEvents',
                      Same(closeEvents'[i], closeEvents'[j])
               PROVE  i = j
    BY DEF NoneTwice, Same
  <2>1. i + 1 = j + 1
    BY <1>3, <1>4 DEF SingleInv, NoneTwice
  <2> QED
    BY <2>1, <1>3
<1>14. \A i \in DOMAIN closeEvents', j \in DOMAIN closeQueue' :
         ~Same(closeEvents'[i], closeQueue'[j])
  BY <1>1, <1>3, <1>4 DEF SingleInv
<1>15. \A i \in DOMAIN closeEvents' : closeEvents'[i] # h
  BY <1>6 DEF Same
<1> QED
  BY <1>2, <1>5, <1>8, <1>10, <1>11, <1>12, <1>13, <1>14, <1>15 DEF SingleInv, NoneTwice

LEMMA SingleStep ==
  PipeTypeOK /\ ClosesInv /\ SingleInv /\ [PipeNext]_pipeVars => SingleInv'
<1> SUFFICES ASSUME PipeTypeOK, ClosesInv, SingleInv, [PipeNext]_pipeVars PROVE SingleInv'
  OBVIOUS
<1> USE DEF queueVars, askedVars, firedVars, loopVars
<1>1. CASE QueueStep
  <2>1. UNCHANGED <<closeEvents, closesFired>>
    BY <1>1 DEF QueueStep
  <2>2. ASSUME NEW p \in Pipes, NEW b \in Blobs, QueueRead(p, b) PROVE SingleInv'
    BY <2>1, <2>2, SingleStays DEF QueueRead
  <2>3. CASE UNCHANGED <<closeQueue, askedVars>>
    BY <2>1, <2>3, SingleStays
  <2> QED
    BY <1>1, <2>1, <2>2, <2>3, QueueCloseSingle DEF QueueStep
<1>2. CASE CollectOthers \/ LockReads \/ CollectRead \/ UnlockReads \/ FireRead \/ ReadsFired
           \/ ClosesFired \/ FireOther \/ OthersFired
  BY <1>2, SingleStays DEF CollectOthers, LockReads, CollectRead, UnlockReads, FireRead,
     ReadsFired, ClosesFired, FireOther, OthersFired
<1> QED
  BY <1>1, <1>2, StepCases, CollectClosesSingle, FireCloseSingle DEF FireEvents, Collect, Fire

LEMMA SingleAlways == PipeSpec => [](PipeTypeOK /\ PipeInv /\ SingleInv)
<1>1. PipeInit => SingleInv
  BY DEF PipeInit, Unused, SingleInv, NoneTwice
<1>2. PipeInit => PipeInv
  BY InitInv DEF PipeInit
<1>3. PipeTypeOK /\ PipeInv /\ SingleInv /\ [PipeNext]_pipeVars => PipeInv' /\ SingleInv'
  BY StepInv, SingleStep DEF PipeInv
<1> QED
  BY <1>1, <1>2, <1>3, PipeTypeCorrect, PTL DEF PipeSpec

\* Whatever the threads do meanwhile: a CLOSE that is fired answers a call of Close that
\* had none.
THEOREM ClosesAreOnce == PipeSpec => CloseOnce
<1>1. ASSUME PipeTypeOK, SingleInv, FireClose PROVE closesFired' # closesFired
  <2>1. Unfired(Head(closeEvents)) /\ Head(closeEvents).pipe \in Pipes
    <3>1. closeEvents \in Seq(CloseEntry) /\ closeEvents # <<>>
      BY <1>1 DEF PipeTypeOK, FireClose
    <3> QED
      BY <1>1, <3>1, FireCloseSingle, TailFacts, CloseEntryFields
  <2>2. Head(closeEvents).nth \in closesFired'[Head(closeEvents).pipe]
    BY <1>1, <2>1 DEF FireClose, PipeTypeOK
  <2> QED
    BY <2>1, <2>2 DEF Unfired
<1>2. PipeTypeOK /\ PipeInv /\ SingleInv /\ [PipeNext]_pipeVars
        => [FireClose => closesFired' # closesFired]_pipeVars
  BY <1>1
<1> QED
  BY <1>2, SingleAlways, PTL DEF PipeSpec, CloseOnce

-----------------------------------------------------------------------------
(* The refinement.                                                         *)

LEMMA ElementsOfAppend ==
  ASSUME NEW S, NEW q \in Seq(S), NEW e \in S
  PROVE  ElementsOf(Append(q, e)) = ElementsOf(q) \cup {e}
<1>1. /\ DOMAIN Append(q, e) = 1 .. Len(q) + 1 /\ DOMAIN q = 1 .. Len(q) /\ Len(q) \in Nat
      /\ \A i \in 1 .. Len(q) : Append(q, e)[i] = q[i]
      /\ Append(q, e)[Len(q) + 1] = e
  BY AppendFacts
<1>2. /\ \A i \in 1 .. Len(q) + 1 : i \in 1 .. Len(q) \/ i = Len(q) + 1
      /\ \A i \in 1 .. Len(q) : i \in 1 .. Len(q) + 1
      /\ Len(q) + 1 \in 1 .. Len(q) + 1
  BY <1>1
<1> QED
  BY <1>1, <1>2 DEF ElementsOf

LEMMA OthersAlgebra ==
  ASSUME NEW s \in Seq(OtherEntry), NEW t \in Seq(OtherEntry)
  PROVE  /\ s \o t \in Seq(OtherEntry) /\ <<>> \o t = t /\ s \o <<>> = s
         /\ \A e \in OtherEntry : Append(s \o t, e) = s \o Append(t, e)
         /\ s # <<>> => /\ s \o t # <<>> /\ Head(s \o t) = Head(s)
                        /\ Tail(s \o t) = Tail(s) \o t
<1>1. /\ s \o t \in Seq(OtherEntry) /\ <<>> \o t = t /\ s \o <<>> = s
  OBVIOUS
<1>2. \A e \in OtherEntry : Append(s \o t, e) = s \o Append(t, e)
  OBVIOUS
<1>3. ASSUME s # <<>>
      PROVE  s \o t # <<>> /\ Head(s \o t) = Head(s) /\ Tail(s \o t) = Tail(s) \o t
  BY <1>3
<1> QED
  BY <1>1, <1>2, <1>3

LEMMA FirstPart ==
  ASSUME NEW s \in Seq(Blobs), NEW t \in Seq(Blobs)
  PROVE  SubSeq(s \o t, 1, Len(s)) = s
OBVIOUS

\* What the listeners can tell.
Told == <<written, delivered, closesAsked, closesFired>>
owedCloses == ElementsOf(closeEvents) \cup ElementsOf(closeQueue)
owedOthers == otherCopy \o otherEvents

PromiseStep == [Promise!Next]_(Promise!vars)

LEMMA Stutters ==
  ASSUME UNCHANGED Told, owedCloses' = owedCloses, owedOthers' = owedOthers
  PROVE  PromiseStep
BY DEF PromiseStep, Promise!vars, Told, owedCloses, owedOthers

LEMMA InitiallyPromised == PipeInit => Promise!Init
<1> SUFFICES ASSUME PipeInit PROVE Promise!Init
  OBVIOUS
<1>1. ElementsOf(<<>>) = {}
  BY DEF ElementsOf
<1> QED
  BY <1>1, ConcatEmpty DEF PipeInit, Unused, Promise!Init

\* A call of Write or Close and an event that is asked for.
LEMMA QueuePromised == PipeTypeOK /\ QueueStep => PromiseStep
<1> SUFFICES ASSUME PipeTypeOK, QueueStep PROVE PromiseStep
  OBVIOUS
<1>1. UNCHANGED <<closeEvents, otherCopy, delivered, closesFired>>
  BY DEF QueueStep, loopVars, firedVars
<1>2. ASSUME NEW p \in Pipes, NEW b \in Blobs, QueueRead(p, b) PROVE PromiseStep
  <2>1. Promise!Write(p, b)
    BY <1>1, <1>2 DEF QueueRead, Promise!Write
  <2> QED
    BY <2>1 DEF PromiseStep, Promise!Next
<1>3. ASSUME NEW p \in Pipes, QueueClose(p) PROVE PromiseStep
  <2> DEFINE e == [pipe |-> p, nth |-> closesAsked[p] + 1, after |-> Len(written[p])]
  <2>1. e \in CloseEntry /\ closeQueue \in Seq(CloseEntry)
    BY DEF CloseEntry, PipeTypeOK
  <2>2. closeQueue' = Append(closeQueue, e)
    BY <1>3 DEF QueueClose
  <2>3. ElementsOf(closeQueue') = ElementsOf(closeQueue) \cup {e}
    BY <2>1, <2>2, ElementsOfAppend
  <2>4. Promise!Close(p)
    BY <1>1, <1>3, <2>3 DEF QueueClose, Promise!Close
  <2> QED
    BY <2>4 DEF PromiseStep, Promise!Next
<1>4. ASSUME NEW e \in Others, otherEvents' = Append(otherEvents, OtherStamp(e)),
             UNCHANGED <<closeQueue, askedVars>>
      PROVE  PromiseStep
  <2>1. OtherStamp(e) \in OtherEntry
    BY DEF OtherStamp, OtherEntry, PipeTypeOK
  <2>2. owedOthers' = Append(owedOthers, OtherStamp(e))
    BY <1>1, <1>4, <2>1, OthersAlgebra, SMTT(30) DEF owedOthers, PipeTypeOK
  <2>3. Promise!Ask(e)
    BY <1>1, <1>4, <2>2 DEF Promise!Ask, owedOthers, OtherStamp, askedVars
  <2> QED
    BY <2>3 DEF PromiseStep, Promise!Next
<1>5. CASE UNCHANGED <<queueVars, askedVars>>
  BY <1>1, <1>5, Stutters DEF queueVars, askedVars, owedCloses, owedOthers, Told
<1> QED
  BY <1>2, <1>3, <1>4, <1>5 DEF QueueStep

\* A READ shows the next blobs, all of which were written.
LEMMA ReadPromised ==
  ASSUME PipeTypeOK, ReadsInv, FireRead
  PROVE  PromiseStep
<1> DEFINE p == Head(readEvents).pipe
           glob == Head(readEvents).glob
<1>1. /\ readEvents \in Seq(ReadEntry) /\ readEvents # <<>>
      /\ delivered' = [delivered EXCEPT ![p] = @ \o glob]
      /\ UNCHANGED <<closeEvents, closeQueue, otherCopy, otherEvents, written, closesAsked,
                     closesFired>>
  BY DEF FireRead, PipeTypeOK, queueVars, askedVars
<1>2. p \in Pipes /\ glob \in Seq(Blobs) /\ 1 \in Pending(readEvents, p)
      /\ glob = readEvents[1].glob
  BY <1>1, TailFacts, ReadEntryFields DEF Pending
<1> HIDE DEF p, glob
<1>3. /\ written[p] \in Seq(Blobs) /\ delivered[p] \in Seq(Blobs) /\ readData[p] \in Seq(Blobs)
      /\ delivered \in [Pipes -> Seq(Blobs)]
  BY <1>2 DEF PipeTypeOK
<1>4. written[p] = (delivered[p] \o glob) \o readData[p]
  BY <1>2 DEF ReadsInv, DataInOrder
<1>5. /\ Len(glob) \in Nat /\ Len(delivered[p] \o glob) = Len(delivered[p]) + Len(glob)
      /\ Len(written[p]) = (Len(delivered[p]) + Len(glob)) + Len(readData[p])
      /\ Len(readData[p]) \in Nat /\ Len(delivered[p]) \in Nat
  BY <1>2, <1>3, <1>4
<1>6. SubSeq(written[p], 1, Len(delivered[p]) + Len(glob)) = delivered[p] \o glob
  <2>1. delivered[p] \o glob \in Seq(Blobs)
    BY <1>2, <1>3
  <2> QED
    BY <1>3, <1>4, <1>5, <2>1, FirstPart
<1>7. CASE Len(glob) = 0
  <2>1. delivered' = delivered
    BY <1>1, <1>2, <1>3, <1>7
  <2> QED
    BY <1>1, <2>1, Stutters DEF Told, owedCloses, owedOthers
<1>8. CASE Len(glob) # 0
  <2>1. /\ Len(glob) \in 1 .. Len(written[p]) - Len(delivered[p])
        /\ Len(glob) \in 1 .. Len(written[p])
    <3>1. \A d, g, r, w \in Nat : w = (d + g) + r /\ g # 0 => g \in 1 .. w - d /\ g \in 1 .. w
      OBVIOUS
    <3>2. Len(written[p]) \in Nat
      BY <1>3
    <3> QED
      BY <1>5, <1>8, <3>1, <3>2
  <2>2. Promise!Read(p, Len(glob))
    BY <1>1, <1>6, <2>1 DEF Promise!Read
  <2> QED
    BY <1>2, <2>1, <2>2 DEF PromiseStep, Promise!Next
<1> QED
  BY <1>7, <1>8

\* A CLOSE answers a call of Close whose data has been read.
LEMMA ClosePromised ==
  ASSUME PipeTypeOK, SingleInv, CloseAfterData, FireClose
  PROVE  PromiseStep
<1>1. /\ closeEvents \in Seq(CloseEntry) /\ closeEvents # <<>> /\ pc = "fireCloses"
      /\ closeEvents' = Tail(closeEvents)
      /\ closesFired' = [closesFired EXCEPT ![Head(closeEvents).pipe] =
                                               @ \cup {Head(closeEvents).nth}]
      /\ UNCHANGED <<closeQueue, otherCopy, otherEvents, written, closesAsked, delivered>>
  BY DEF FireClose, PipeTypeOK, queueVars, askedVars
<1>2. PICK c \in CloseEntry : c = Head(closeEvents) /\ c = closeEvents[1]
  BY <1>1, TailFacts
<1>3. /\ 1 \in DOMAIN closeEvents /\ DOMAIN closeEvents = 1 .. Len(closeEvents)
      /\ Len(closeEvents) \in Nat /\ DOMAIN closeEvents' = 1 .. Len(closeEvents) - 1
      /\ \A i \in DOMAIN closeEvents' : closeEvents'[i] = closeEvents[i + 1]
  BY <1>1, TailFacts
<1>4. /\ \A i \in DOMAIN closeEvents' : i + 1 \in DOMAIN closeEvents
      /\ \A i \in DOMAIN closeEvents : i # 1 => i - 1 \in DOMAIN closeEvents' /\ (i - 1) + 1 = i
  BY <1>3
<1>5. Unfired(c) /\ \A i \in DOMAIN closeEvents' : closeEvents'[i] # c
  BY <1>2, FireCloseSingle
<1>6. \A j \in DOMAIN closeQueue : closeQueue[j] # c
  BY <1>2, <1>3 DEF SingleInv, Same
<1>7. owedCloses' = owedCloses \ {c} /\ c \in owedCloses
  <2>1. ElementsOf(closeEvents) = ElementsOf(closeEvents') \cup {c}
    BY <1>2, <1>3, <1>4 DEF ElementsOf
  <2>2. c \notin ElementsOf(closeEvents') /\ c \notin ElementsOf(closeQueue)
    BY <1>5, <1>6 DEF ElementsOf
  <2> QED
    BY <1>1, <2>1, <2>2 DEF owedCloses
<1>8. c.after <= Len(delivered[c.pipe])
  BY <1>1, <1>2, <1>3 DEF CloseAfterData
<1>9. Promise!FireClose(c)
  BY <1>1, <1>2, <1>5, <1>7, <1>8 DEF Promise!FireClose, Unfired, owedCloses
<1> QED
  BY <1>7, <1>9 DEF PromiseStep, Promise!Next, owedCloses

\* Another event comes after the READs and CLOSEs it waits for.
LEMMA OtherPromised ==
  ASSUME PipeTypeOK, SingleInv, OtherAfterAll, FireOther
  PROVE  PromiseStep
<1>1. /\ otherCopy \in Seq(OtherEntry) /\ otherCopy # <<>> /\ pc = "fireOthers"
      /\ otherEvents \in Seq(OtherEntry) /\ otherCopy' = Tail(otherCopy)
      /\ UNCHANGED <<closeEvents, closeQueue, otherEvents, written, closesAsked, delivered,
                     closesFired>>
  BY DEF FireOther, PipeTypeOK, queueVars, askedVars, firedVars
<1>2. PICK e \in OtherEntry : e = Head(otherCopy) /\ e = otherCopy[1] /\ 1 \in DOMAIN otherCopy
  BY <1>1, TailFacts
<1>3. owedOthers # <<>> /\ Head(owedOthers) = e /\ owedOthers' = Tail(owedOthers)
  BY <1>1, <1>2, OthersAlgebra DEF owedOthers
<1>4. \A p \in Pipes : /\ e.after[p] <= Len(delivered[p])
                       /\ 1 .. e.closes[p] \subseteq closesFired[p]
  BY <1>1, <1>2 DEF OtherAfterAll
<1>5. ASSUME NEW c \in owedCloses PROVE c.nth > e.closes[c.pipe]
  <2>1. c \in CloseEntry /\ Unfired(c)
    <3>1. CASE c \in ElementsOf(closeEvents)
      BY <3>1, ElementType DEF ElementsOf, SingleInv, PipeTypeOK
    <3>2. CASE c \in ElementsOf(closeQueue)
      BY <3>2, ElementType DEF ElementsOf, SingleInv, PipeTypeOK
    <3> QED
      BY <3>1, <3>2 DEF owedCloses
  <2>2. c.pipe \in Pipes /\ c.nth \in Nat /\ e.closes[c.pipe] \in Nat
    BY <2>1, CloseEntryFields, OtherEntryFields
  <2>3. c.nth \notin 1 .. e.closes[c.pipe] /\ 1 <= c.nth
    BY <1>4, <2>1, <2>2 DEF Unfired
  <2> QED
    BY <2>2, <2>3
<1>6. Promise!FireOther
  BY <1>1, <1>3, <1>4, <1>5 DEF Promise!FireOther, owedOthers, owedCloses
<1> QED
  BY <1>6 DEF PromiseStep, Promise!Next

LEMMA LoopPromised ==
  ASSUME PipeTypeOK, PipeInv, SingleInv, CloseAfterData, OtherAfterAll, FireEvents
  PROVE  PromiseStep
<1> USE DEF queueVars, askedVars, firedVars
<1>1. CASE CollectOthers
  <2>1. otherCopy = <<>> /\ otherCopy' = otherEvents /\ otherEvents' = <<>>
    BY <1>1 DEF CollectOthers, Leave, PipeInv, OthersInv
  <2>2. owedOthers' = owedOthers
    BY <2>1, OthersAlgebra DEF owedOthers, PipeTypeOK
  <2> QED
    BY <1>1, <2>2, Stutters DEF CollectOthers, Told, owedCloses
<1>2. CASE CollectCloses
  <2>1. closeEvents = <<>> /\ closeEvents' = closeQueue /\ closeQueue' = <<>>
    BY <1>2 DEF CollectCloses, Leave, PipeInv, ClosesInv
  <2>2. owedCloses' = owedCloses
    BY <2>1 DEF owedCloses, ElementsOf
  <2> QED
    BY <1>2, <2>2, Stutters DEF CollectCloses, Told, owedOthers
<1>3. CASE LockReads \/ CollectRead \/ UnlockReads \/ ReadsFired \/ ClosesFired \/ OthersFired
  BY <1>3, Stutters DEF LockReads, CollectRead, UnlockReads, ReadsFired, ClosesFired,
     OthersFired, Told, owedCloses, owedOthers
<1> QED
  BY <1>1, <1>2, <1>3, ReadPromised, ClosePromised, OtherPromised
  DEF FireEvents, Collect, Fire, PipeInv

\* For any pipes, threads, blobs and events: what pipe.cpp does with its queues, copies
\* and rounds shows the listeners what EventOrder allows, and nothing else.
THEOREM EventsAsPromised == PipeSpec => PromiseKept
<1>1. PipeTypeOK /\ PipeInv /\ SingleInv /\ CloseAfterData /\ OtherAfterAll
        /\ [PipeNext]_pipeVars => [Promise!Next]_(Promise!vars)
  BY StepCases, QueuePromised, LoopPromised DEF PromiseStep
<1> QED
  BY <1>1, InitiallyPromised, SingleAlways, CloseComesAfterData, OthersComeLast, PTL
  DEF PipeSpec, PromiseKept, Promise!Spec
===============================================================================
