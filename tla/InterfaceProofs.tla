---------------------------- MODULE InterfaceProofs ----------------------------
(***************************************************************************)
(* Theorems about the windows of ti.UI: their lists and how they close     *)
(* (Windows), for any windows and any depth of listeners, their limits     *)
(* (WindowSizes), for any windows, sizes and events, and their menu bars   *)
(* (Menus), for any menus and items and however these are put together.    *)
(***************************************************************************)
EXTENDS Windows, WindowSizes, Menus, Induction, FiniteSetTheorems

-----------------------------------------------------------------------------
(* The lists of windows.                                                   *)

LEMMA NotTwiceAppended ==
  ASSUME NEW S, NEW s \in Seq(S), NEW x \in S, NoTwice(s), x \notin Range(s)
  PROVE  NoTwice(Append(s, x))
<1>1. \A y : OnceIn(s, y)
  BY DEF NoTwice, OnceIn
<1>2. \A y : OnceIn(Append(s, x), y)
  BY <1>1, Appended
<1> QED
  BY <1>2 DEF NoTwice, OnceIn

Keeps(f, list, w) ==
  /\ f[0] = <<>>
  /\ \A i \in 1 .. Len(list) :
       f[i] = IF list[i] = w THEN f[i - 1] ELSE Append(f[i - 1], list[i])

LEMMA KeptExists ==
  ASSUME NEW S, NEW list \in Seq(S), NEW w
  PROVE  \E f \in [0 .. Len(list) -> Seq(S)] : Keeps(f, list, w)
<1>1. PICK n \in Nat : n = Len(list)
  OBVIOUS
<1>2. \A i \in 1 .. n : list[i] \in S
  BY <1>1
<1>3. <<>> \in Seq(S)
  OBVIOUS
<1>4. PICK T : T = Seq(S)
  OBVIOUS
<1>5. PICK e \in T : e = <<>>
  BY <1>3, <1>4
<1>6. PICK g : g = [p \in (1 .. n) \X T |->
                     IF list[p[1]] = w THEN p[2] ELSE Append(p[2], list[p[1]])]
  OBVIOUS
<1>7. g \in [(1 .. n) \X T -> T]
  BY <1>2, <1>4, <1>6
<1>8. \A i \in 1 .. n, s \in T :
        g[<<i, s>>] = IF list[i] = w THEN s ELSE Append(s, list[i])
  BY <1>6
<1>9. PICK f \in [0 .. n -> T] : Recursion(f, n, e, g)
  BY <1>7, RecursionExists
<1>10. \A i \in 1 .. n : i - 1 \in 0 .. n
  BY <1>1
<1>11. \A i \in 1 .. n : f[i - 1] \in T
  BY <1>9, <1>10
<1>12. Keeps(f, list, w)
  BY <1>1, <1>5, <1>8, <1>9, <1>11 DEF Keeps, Recursion
<1> QED
  BY <1>1, <1>4, <1>9, <1>12

LEMMA ChildRemoved ==
  ASSUME NEW S, NEW list \in Seq(S), NEW w
  PROVE  /\ RemoveChild(list, w) \in Seq(S)
         /\ Range(RemoveChild(list, w)) = Range(list) \ {w}
         /\ NoTwice(list) => NoTwice(RemoveChild(list, w))
<1>0. PICK n \in Nat : n = Len(list)
  OBVIOUS
<1> DEFINE kept[i \in 0 .. Len(list)] ==
             IF i = 0 THEN <<>>
             ELSE IF list[i] = w THEN kept[i - 1] ELSE Append(kept[i - 1], list[i])
           UpTo(i) == {list[j] : j \in 1 .. i}
           Good(i, k) == /\ k \in Seq(S) /\ Range(k) = UpTo(i) \ {w}
                         /\ NoTwice(list) => NoTwice(k)
<1>1. n = Len(list) /\ n \in Nat /\ DOMAIN list = 1 .. n /\ \A i \in 1 .. n : list[i] \in S
  BY <1>0
<1>2. RemoveChild(list, w) = kept[n]
  BY <1>0 DEF RemoveChild
<1>3. PICK f \in [0 .. n -> Seq(S)] : Keeps(f, list, w)
  BY <1>0, KeptExists
<1>4. \E k : k = [i \in 0 .. Len(list) |->
                   IF i = 0 THEN <<>>
                   ELSE IF list[i] = w THEN k[i - 1] ELSE Append(k[i - 1], list[i])]
  <2>1. \A i \in 0 .. n : i = 0 \/ i \in 1 .. n
    BY <1>1
  <2>2. f = [i \in 0 .. Len(list) |->
               IF i = 0 THEN <<>>
               ELSE IF list[i] = w THEN f[i - 1] ELSE Append(f[i - 1], list[i])]
    BY <1>1, <1>3, <2>1 DEF Keeps
  <2> QED
    BY <2>2
<1>5. kept = [i \in 0 .. Len(list) |->
                IF i = 0 THEN <<>>
                ELSE IF list[i] = w THEN kept[i - 1] ELSE Append(kept[i - 1], list[i])]
  BY <1>4, Zenon
<1> HIDE DEF kept
<1>6. /\ kept[0] = <<>>
      /\ \A i \in 0 .. n - 1 : kept[i + 1] = IF list[i + 1] = w THEN kept[i]
                                             ELSE Append(kept[i], list[i + 1])
  <2>1. 0 \in 0 .. n
    BY <1>1
  <2>2. ASSUME NEW i \in 0 .. n - 1
        PROVE  i + 1 \in 0 .. Len(list) /\ i + 1 # 0 /\ (i + 1) - 1 = i
    BY <1>1
  <2> QED
    BY <1>1, <1>5, <2>1, <2>2
<1> DEFINE D == {i \in 0 .. n : Good(i, kept[i])}
<1>7. 0 \in D
  <2>1. 1 .. 0 = {} /\ <<>> \in Seq(S) /\ DOMAIN <<>> = {} /\ 0 \in 0 .. n
    BY <1>1
  <2> QED
    BY <1>6, <2>1 DEF Range, NoTwice
<1>8. ASSUME NEW i \in 0 .. n - 1, i \in D PROVE i + 1 \in D
  <2>1. PICK k : k = kept[i]
    OBVIOUS
  <2>2. Good(i, k)
    BY <1>8, <2>1
  <2>3. i + 1 \in 0 .. n /\ i + 1 \in 1 .. n /\ list[i + 1] \in S
    BY <1>1
  <2>4. UpTo(i + 1) = UpTo(i) \cup {list[i + 1]}
    <3>1. \A j \in 1 .. i + 1 : j \in 1 .. i \/ j = i + 1
      OBVIOUS
    <3>2. i + 1 \in 1 .. i + 1 /\ \A j \in 1 .. i : j \in 1 .. i + 1
      OBVIOUS
    <3> QED
      BY <3>1, <3>2
  <2>5. CASE list[i + 1] = w
    <3>1. Good(i + 1, k)
      BY <2>2, <2>4, <2>5
    <3> QED
      BY <1>6, <2>1, <2>3, <2>5, <3>1
  <2>6. CASE list[i + 1] # w
    <3>1. /\ Append(k, list[i + 1]) \in Seq(S)
          /\ Range(Append(k, list[i + 1])) = Range(k) \cup {list[i + 1]}
      BY <2>2, <2>3, Appended
    <3>2. ASSUME NoTwice(list) PROVE list[i + 1] \notin Range(k)
      <4>1. \A j \in 1 .. i : j \in 1 .. n /\ j # i + 1
        BY <1>1
      <4>2. list[i + 1] \notin UpTo(i)
        BY <1>1, <2>3, <3>2, <4>1 DEF NoTwice
      <4> QED
        BY <2>2, <4>2
    <3>3. ASSUME NoTwice(list) PROVE NoTwice(Append(k, list[i + 1]))
      BY <2>2, <2>3, <3>2, <3>3, NotTwiceAppended
    <3>4. Good(i + 1, Append(k, list[i + 1]))
      BY <2>2, <2>4, <2>6, <3>1, <3>3
    <3> QED
      BY <1>6, <2>1, <2>3, <2>6, <3>4
  <2> QED
    BY <2>5, <2>6
<1>9. n \in D
  <2> HIDE DEF D
  <2>1. 0 .. n \subseteq D /\ n \in 0 .. n
    <3>1. \A i \in 0 .. n - 1 : i \in D => i + 1 \in D
      BY <1>8
    <3>2. 0 .. n \subseteq D
      BY <1>7, <3>1, UpToInduction, Zenon
    <3> QED
      BY <3>2
  <2> QED
    BY <2>1
<1>10. UpTo(n) = Range(list)
  BY <1>1 DEF Range
<1> QED
  BY <1>2, <1>9, <1>10

LEMMA OpenRemoved ==
  ASSUME NEW S, NEW list \in Seq(S), NEW w, NoTwice(list)
  PROVE  /\ RemoveFromOpenWindows(list, w) \in Seq(S)
         /\ Range(RemoveFromOpenWindows(list, w)) = Range(list) \ {w}
         /\ NoTwice(RemoveFromOpenWindows(list, w))
<1>1. CASE w \notin Range(list)
  BY <1>1 DEF RemoveFromOpenWindows
<1>2. CASE w \in Range(list)
  <2> DEFINE n == Len(list)
             I == {i \in 1 .. Len(list) : list[i] = w}
             i == SelectInSeq(list, LAMBDA v : v = w)
  <2>1. n \in Nat /\ DOMAIN list = 1 .. n
    OBVIOUS
  <2>2. PICK k \in 1 .. n : list[k] = w
    BY <1>2, <2>1 DEF Range
  <2>3. i = IF I # {} THEN Min(I) ELSE 0
    BY DEF SelectInSeq
  <2>4. RemoveFromOpenWindows(list, w) = RemoveAt(list, i)
    BY <1>2, <2>2 DEF RemoveFromOpenWindows, RemoveFirst
  <2> HIDE DEF i
  <2>5. i \in I
    <3>1. I \subseteq Nat /\ I # {}
      BY <2>1, <2>2
    <3> QED
      BY <2>3, <3>1, MinIsIn
  <2>6. i = k
    BY <2>1, <2>2, <2>5 DEF NoTwice
  <2>7. PICK t : t = RemoveAt(list, k)
    OBVIOUS
  <2>8. /\ t \in Seq(S) /\ DOMAIN t = 1 .. n - 1
        /\ \A j \in 1 .. n - 1 : t[j] = IF j < k THEN list[j] ELSE list[j + 1]
    BY <2>1, <2>2, <2>7, TakenOut
  <2>9. NoTwice(t)
    <3> SUFFICES ASSUME NEW a \in 1 .. n - 1, NEW b \in 1 .. n - 1, t[a] = t[b] PROVE a = b
      BY <2>8 DEF NoTwice
    <3>1. PICK x \in 1 .. n : x = IF a < k THEN a ELSE a + 1
      BY <2>1, <2>2
    <3>2. PICK y \in 1 .. n : y = IF b < k THEN b ELSE b + 1
      BY <2>1, <2>2
    <3>3. t[a] = list[x] /\ t[b] = list[y]
      BY <2>8, <3>1, <3>2
    <3>4. x = y
      BY <2>1, <3>3 DEF NoTwice
    <3> QED
      BY <2>2, <3>1, <3>2, <3>4
  <2>10. ASSUME NEW j \in 1 .. n - 1 PROVE t[j] \in Range(list) \ {w}
    <3>1. PICK x \in 1 .. n : x = IF j < k THEN j ELSE j + 1
      BY <2>1, <2>2
    <3>2. t[j] = list[x] /\ x # k
      BY <2>2, <2>8, <3>1
    <3> QED
      BY <2>1, <2>2, <3>2 DEF NoTwice, Range
  <2>11. ASSUME NEW j \in 1 .. n, list[j] # w PROVE list[j] \in Range(t)
    <3>1. j # k
      BY <2>2, <2>11
    <3>2. PICK x \in 1 .. n - 1 : j = IF x < k THEN x ELSE x + 1
      <4>1. CASE j < k
        BY <2>1, <2>2, <4>1
      <4>2. CASE j > k
        <5>1. j - 1 \in 1 .. n - 1 /\ ~ (j - 1 < k) /\ (j - 1) + 1 = j
          BY <2>1, <2>2, <4>2
        <5> QED
          BY <5>1
      <4> QED
        BY <2>1, <2>2, <3>1, <4>1, <4>2
    <3> QED
      BY <2>8, <3>2 DEF Range
  <2>12. Range(t) = Range(list) \ {w}
    BY <2>1, <2>8, <2>10, <2>11 DEF Range
  <2> QED
    BY <2>4, <2>6, <2>7, <2>8, <2>9, <2>12
<1> QED
  BY <1>1, <1>2
-----------------------------------------------------------------------------
(* The calls that wait for listeners.                                      *)

Places == {"open", "opened", "close", "closed", "children"}
WaitingCalls == [at : Places, win : Windows]

OnceWaiting(at, w) == OnceIn(stack, Call(at, w))

LEMMA CallType == \A at \in Places, w \in Windows : Call(at, w) \in WaitingCalls
BY DEF Call, WaitingCalls

LEMMA CallsDiffer ==
  \A at, at2, w, w2 : Call(at, w) = Call(at2, w2) <=> at = at2 /\ w = w2
BY DEF Call

LEMMA NowWaits ==
  ASSUME stack \in Seq(WaitingCalls), NEW at, NEW w, Now(at, w)
  PROVE  Waits(at, w)
<1>1. stack # <<>> /\ Last(stack) = Call(at, w)
  BY DEF Now
<1>2. Range(stack) = Range(Front(stack)) \cup {Last(stack)}
  BY <1>1, Dropped
<1> QED
  BY <1>1, <1>2 DEF Waits

LEMMA Pushed ==
  ASSUME stack \in Seq(WaitingCalls), NEW at \in Places, NEW w \in Windows,
         stack' = Append(stack, Call(at, w))
  PROVE  /\ (stack \in Seq(WaitingCalls))' /\ stack' # <<>>
         /\ \A x, v : Waits(x, v)' <=> Waits(x, v) \/ (x = at /\ v = w)
         /\ \A x, v : OnceWaiting(x, v) /\ (x = at /\ v = w => ~Waits(x, v)) => OnceWaiting(x, v)'
<1>1. PICK s : s = stack
  OBVIOUS
<1>2. PICK c \in WaitingCalls : c = Call(at, w)
  BY CallType
<1>3. /\ Append(s, c) \in Seq(WaitingCalls) /\ Append(s, c) # <<>>
      /\ Range(Append(s, c)) = Range(s) \cup {c}
      /\ \A y : OnceIn(s, y) /\ (y = c => c \notin Range(s)) => OnceIn(Append(s, c), y)
  <2>1. s \in Seq(WaitingCalls)
    BY <1>1
  <2> QED
    BY <2>1, Appended
<1>4. stack' = Append(s, c)
  BY <1>1, <1>2
<1>5. \A x, v : Waits(x, v)' <=> Waits(x, v) \/ (x = at /\ v = w)
  BY <1>1, <1>2, <1>3, <1>4, CallsDiffer DEF Waits
<1>6. \A x, v : OnceWaiting(x, v) /\ (x = at /\ v = w => ~Waits(x, v)) => OnceWaiting(x, v)'
  BY <1>1, <1>2, <1>3, <1>4, CallsDiffer DEF Waits, OnceWaiting
<1> QED
  BY <1>3, <1>4, <1>5, <1>6

LEMMA GoesOn ==
  ASSUME stack \in Seq(WaitingCalls), NEW at \in Places, NEW at2 \in Places, NEW w \in Windows,
         Now(at, w), Next_(at2, w), at # at2
  PROVE  /\ (stack \in Seq(WaitingCalls))' /\ stack' # <<>>
         /\ Waits(at, w) /\ Waits(at2, w)'
         /\ \A x, v : Waits(x, v) => Waits(x, v)' \/ (x = at /\ v = w)
         /\ \A x, v : Waits(x, v)' => Waits(x, v) \/ (x = at2 /\ v = w)
         /\ OnceWaiting(at, w) => ~Waits(at, w)'
         /\ \A x, v : OnceWaiting(x, v) /\ (x = at2 /\ v = w => ~Waits(x, v)) => OnceWaiting(x, v)'
<1>1. PICK s : s = stack
  OBVIOUS
<1>2. PICK d \in WaitingCalls : d = Call(at2, w)
  BY CallType
<1>3. PICK c \in WaitingCalls : c = Call(at, w)
  BY CallType
<1>4. s \in Seq(WaitingCalls) /\ s # <<>> /\ Last(s) = c /\ stack' = Append(Front(s), d)
  BY <1>1, <1>2, <1>3 DEF Now, Next_
<1>5. PICK t : t = Append(Front(s), d)
  OBVIOUS
<1>6. /\ t \in Seq(WaitingCalls)
      /\ Range(s) \subseteq Range(t) \cup {c}
      /\ Range(t) \subseteq Range(s) \cup {d} /\ d \in Range(t) /\ c \in Range(s)
      /\ OnceIn(s, c) /\ d # c => c \notin Range(t)
      /\ \A x : OnceIn(s, x) /\ (x = d => d \notin Range(s)) => OnceIn(t, x)
  BY <1>4, <1>5, Replaced
<1>7. c # d
  BY <1>2, <1>3, CallsDiffer
<1>8. t # <<>>
  <2>1. Front(s) \in Seq(WaitingCalls)
    BY <1>4, FrontAndLast
  <2> QED
    BY <1>5, <2>1
<1>9. stack' = t
  BY <1>4, <1>5
<1>10. \A x, v : Waits(x, v) => Waits(x, v)' \/ (x = at /\ v = w)
  BY <1>1, <1>3, <1>6, <1>9, CallsDiffer DEF Waits
<1>11. \A x, v : Waits(x, v)' => Waits(x, v) \/ (x = at2 /\ v = w)
  BY <1>1, <1>2, <1>6, <1>9, CallsDiffer DEF Waits
<1>12. OnceWaiting(at, w) => ~Waits(at, w)'
  BY <1>1, <1>3, <1>6, <1>7, <1>9 DEF Waits, OnceWaiting
<1>13. \A x, v : OnceWaiting(x, v) /\ (x = at2 /\ v = w => ~Waits(x, v)) => OnceWaiting(x, v)'
  BY <1>1, <1>2, <1>6, <1>9, CallsDiffer DEF Waits, OnceWaiting
<1>14. Waits(at, w) /\ Waits(at2, w)'
  BY <1>1, <1>2, <1>3, <1>6, <1>9 DEF Waits
<1> QED
  BY <1>6, <1>8, <1>9, <1>10, <1>11, <1>12, <1>13, <1>14

LEMMA Returned ==
  ASSUME stack \in Seq(WaitingCalls), NEW at \in Places, NEW w \in Windows, Now(at, w), Returns
  PROVE  /\ (stack \in Seq(WaitingCalls))'
         /\ Waits(at, w)
         /\ \A x, v : Waits(x, v) => Waits(x, v)' \/ (x = at /\ v = w)
         /\ \A x, v : Waits(x, v)' => Waits(x, v)
         /\ OnceWaiting(at, w) => ~Waits(at, w)'
         /\ \A x, v : OnceWaiting(x, v) => OnceWaiting(x, v)'
<1>1. PICK s : s = stack
  OBVIOUS
<1>2. PICK c \in WaitingCalls : c = Call(at, w)
  BY CallType
<1>3. s \in Seq(WaitingCalls) /\ s # <<>> /\ Last(s) = c /\ stack' = Front(s)
  BY <1>1, <1>2 DEF Now, Returns
<1>4. PICK t : t = Front(s)
  OBVIOUS
<1>5. /\ t \in Seq(WaitingCalls)
      /\ Range(s) = Range(t) \cup {c}
      /\ OnceIn(s, c) => c \notin Range(t)
      /\ \A x : OnceIn(s, x) => OnceIn(t, x)
  BY <1>3, <1>4, Dropped
<1>6. stack' = t
  BY <1>3, <1>4
<1>7. \A x, v : Waits(x, v) => Waits(x, v)' \/ (x = at /\ v = w)
  BY <1>1, <1>2, <1>5, <1>6, CallsDiffer DEF Waits
<1>8. \A x, v : Waits(x, v)' => Waits(x, v)
  BY <1>1, <1>5, <1>6 DEF Waits
<1>9. OnceWaiting(at, w) => ~Waits(at, w)'
  BY <1>1, <1>2, <1>5, <1>6 DEF Waits, OnceWaiting
<1>10. \A x, v : OnceWaiting(x, v) => OnceWaiting(x, v)'
  BY <1>1, <1>5, <1>6 DEF OnceWaiting
<1>11. Waits(at, w)
  BY <1>1, <1>2, <1>5 DEF Waits
<1> QED
  BY <1>5, <1>6, <1>7, <1>8, <1>9, <1>10, <1>11
-----------------------------------------------------------------------------
(* Windows: the inductive invariant.                                       *)

WindowsTypeOK ==
  /\ parent \in [Others -> Windows]
  /\ active \in [Windows -> BOOLEAN] /\ initialized \in [Windows -> BOOLEAN]
  /\ gtkWindow \in [Windows -> BOOLEAN]
  /\ childWindows \in [Windows -> Seq(Windows)] /\ openWindows \in Seq(Windows)
  /\ stack \in Seq(WaitingCalls)
  /\ exited \in BOOLEAN /\ closedFired \in [Windows -> 0 .. 2]
  /\ again \in SUBSET Windows /\ spared \in SUBSET Windows /\ late \in SUBSET Windows

\* The window is closed, and will tell its children, its parent and the binding.
Ending(w) == Waits("closed", w) \/ Waits("children", w)

\* A window opens once, and is closed from a call that waits no longer for listeners.
Stacked(w) ==
  /\ Waits("open", w) => gtkWindow[w] /\ ~initialized[w] /\ w # Main
  /\ Waits("opened", w) \/ Waits("close", w) => initialized[w]
  /\ Ending(w) => initialized[w] /\ ~active[w]
  /\ OnceWaiting("open", w)
  /\ w \notin again => OnceWaiting("close", w) /\ (Waits("close", w) => active[w])

OpenIsListed(w) == active[w] => initialized[w] /\ gtkWindow[w] /\ w \in Range(openWindows)

\* What is in the list of open windows is open, or about to leave it.
Listed ==
  /\ NoTwice(openWindows)
  /\ \A w \in Range(openWindows) : initialized[w] /\ (active[w] \/ Ending(w))
  /\ openWindows = <<>> => exited

ChildrenListed(p) ==
  /\ NoTwice(childWindows[p])
  /\ \A c \in Range(childWindows[p]) :
       c \in ChildrenOf(p) /\ initialized[c] /\ (active[c] \/ Ending(c))

\* An open window is among its parent's children or about to be closed; one whose parent
\* is closed is about to be.
ChildIsClosed(c) ==
  active[c] /\ c \notin spared =>
    /\ c \in Range(childWindows[parent[c]]) \/ Waits("close", c)
    /\ ~active[parent[c]] /\ c \notin late => Ending(parent[c]) \/ Waits("close", c)

FiredOnce(w) == w \notin again => closedFired[w] = IF initialized[w] /\ ~active[w] THEN 1 ELSE 0

WindowsInv ==
  /\ WindowsTypeOK /\ initialized[Main]
  /\ \A w \in Windows : Stacked(w) /\ OpenIsListed(w) /\ FiredOnce(w)
  /\ Listed
  /\ \A p \in Windows : ChildrenListed(p)
  /\ \A c \in Others : ChildIsClosed(c)

LEMMA InvImpliesListed == WindowsInv => WindowsListed
<1> SUFFICES ASSUME WindowsInv PROVE WindowsListed
  OBVIOUS
<1>1. \A w \in Windows : active[w] => w \in Range(openWindows) /\ gtkWindow[w]
  BY DEF WindowsInv, OpenIsListed
<1>2. NoTwice(openWindows) /\ \A p \in Windows : NoTwice(childWindows[p])
  BY DEF WindowsInv, Listed, ChildrenListed
<1>3. ASSUME AtRest PROVE \A x, v : ~Waits(x, v)
  BY <1>3 DEF AtRest, Waits, Range
<1>4. ASSUME AtRest PROVE Range(openWindows) = {w \in Windows : active[w]}
  <2>1. \A w \in Range(openWindows) : active[w]
    BY <1>3, <1>4 DEF WindowsInv, Listed, Ending
  <2>2. \A w \in Range(openWindows) : w \in Windows
    BY DEF WindowsInv, WindowsTypeOK, Range
  <2> QED
    BY <1>1, <2>1, <2>2
<1>5. ASSUME AtRest, NEW p \in Windows, NEW c \in Range(childWindows[p])
      PROVE  c \in ChildrenOf(p) /\ active[c]
  BY <1>3, <1>5 DEF WindowsInv, ChildrenListed, Ending
<1>6. ASSUME AtRest, NEW p \in Windows, NEW c \in ChildrenOf(p) \ spared, active[c]
      PROVE  c \in Range(childWindows[p])
  BY <1>3, <1>6 DEF WindowsInv, ChildIsClosed, ChildrenOf
<1> QED
  BY <1>1, <1>2, <1>4, <1>5, <1>6 DEF WindowsListed

LEMMA InvImpliesComplete == WindowsInv => ClosingIsComplete
<1> SUFFICES ASSUME WindowsInv, AtRest PROVE ClosingIsComplete
  BY DEF ClosingIsComplete
<1>1. \A x, v : ~Waits(x, v)
  BY DEF AtRest, Waits, Range
<1>2. \A c \in Others : active[c] /\ ~active[parent[c]] => c \in spared \cup late
  BY <1>1 DEF WindowsInv, ChildIsClosed, Ending
<1>3. \A w \in Windows \ again : closedFired[w] = IF initialized[w] /\ ~active[w] THEN 1 ELSE 0
  BY DEF WindowsInv, FiredOnce
<1>4. ASSUME \A w \in Windows : ~active[w] PROVE exited
  <2>1. Range(openWindows) = {}
    <3>1. \A w \in Range(openWindows) : w \in Windows
      BY DEF WindowsInv, WindowsTypeOK, Range
    <3> QED
      BY <1>1, <1>4, <3>1 DEF WindowsInv, Listed, Ending
  <2>2. openWindows = <<>>
    <3>1. openWindows \in Seq(Windows)
      BY DEF WindowsInv, WindowsTypeOK
    <3>2. DOMAIN openWindows = {}
      BY <2>1 DEF Range
    <3> QED
      BY <3>1, <3>2
  <2> QED
    BY <2>2 DEF WindowsInv, Listed
<1> QED
  BY <1>2, <1>3, <1>4 DEF ClosingIsComplete

LEMMA WindowsInitially == WindowsInit => WindowsInv
<1> SUFFICES ASSUME WindowsInit PROVE WindowsInv
  OBVIOUS
<1>1. /\ parent \in Families /\ active = [w \in Windows |-> w = Main]
      /\ initialized = active /\ gtkWindow = active
      /\ childWindows = [w \in Windows |-> <<>>] /\ openWindows = <<Main>> /\ stack = <<>>
      /\ exited = FALSE /\ closedFired = [w \in Windows |-> 0]
      /\ again = {} /\ spared = {} /\ late = {}
  BY DEF WindowsInit
<1>2. Main \in Windows
  BY WindowsAssumption
<1>3. Range(openWindows) = {Main} /\ NoTwice(openWindows) /\ openWindows # <<>>
  BY <1>1 DEF Range, NoTwice
<1>4. Range(<<>>) = {} /\ NoTwice(<<>>) /\ \A y : OnceIn(<<>>, y)
  BY DEF Range, NoTwice, OnceIn
<1>5. \A x, v : ~Waits(x, v) /\ OnceWaiting(x, v)
  BY <1>1, <1>4 DEF Waits, OnceWaiting
<1>6. WindowsTypeOK
  <2>1. parent \in [Others -> Windows]
    BY <1>1 DEF Families
  <2>2. <<>> \in Seq(Windows) /\ <<>> \in Seq(WaitingCalls) /\ <<Main>> \in Seq(Windows)
    BY <1>2
  <2>3. active \in [Windows -> BOOLEAN] /\ initialized \in [Windows -> BOOLEAN]
        /\ gtkWindow \in [Windows -> BOOLEAN]
    BY <1>1
  <2>4. childWindows \in [Windows -> Seq(Windows)]
    BY <1>1, <2>2
  <2>5. openWindows \in Seq(Windows) /\ stack \in Seq(WaitingCalls)
    BY <1>1, <2>2
  <2>6. exited \in BOOLEAN /\ closedFired \in [Windows -> 0 .. 2]
    <3>1. 0 \in 0 .. 2
      OBVIOUS
    <3>2. closedFired \in [Windows -> 0 .. 2]
      BY <1>1, <3>1
    <3> QED
      BY <1>1, <3>2
  <2>7. again \in SUBSET Windows /\ spared \in SUBSET Windows /\ late \in SUBSET Windows
    BY <1>1
  <2> QED
    BY <2>1, <2>3, <2>4, <2>5, <2>6, <2>7 DEF WindowsTypeOK
<1>7. initialized[Main]
  BY <1>1, <1>2
<1>8. \A w \in Windows : Stacked(w) /\ OpenIsListed(w) /\ FiredOnce(w)
  BY <1>1, <1>3, <1>5 DEF Stacked, OpenIsListed, FiredOnce, Ending
<1>9. Listed
  BY <1>1, <1>2, <1>3 DEF Listed
<1>10. \A p \in Windows : ChildrenListed(p)
  BY <1>1, <1>4 DEF ChildrenListed
<1>11. \A c \in Others : ChildIsClosed(c)
  BY <1>1 DEF ChildIsClosed, Others
<1> QED
  BY <1>6, <1>7, <1>8, <1>9, <1>10, <1>11 DEF WindowsInv
-----------------------------------------------------------------------------
(* Every step keeps it.                                                    *)

\* Steps after which the same windows are open, the lists are the same and the same
\* calls wait, but for one that only opens.
LEMMA NothingCloses ==
  ASSUME WindowsInv, (stack \in Seq(WaitingCalls))',
         UNCHANGED <<parent, active, initialized, childWindows, openWindows, exited, closedFired,
                     again, spared, late>>,
         gtkWindow' \in [Windows -> BOOLEAN], \A v \in Windows : gtkWindow[v] => gtkWindow'[v],
         \A x, v : x # "open" /\ x # "opened" => (Waits(x, v)' <=> Waits(x, v)),
         \A v : Waits("opened", v)' => Waits("opened", v),
         \A v \in Windows :
           OnceWaiting("open", v)' /\ (OnceWaiting("close", v) => OnceWaiting("close", v)'),
         \A v \in Windows : Waits("open", v)' => gtkWindow'[v] /\ ~initialized[v] /\ v # Main
  PROVE  WindowsInv'
<1>1. WindowsTypeOK' /\ initialized'[Main]
  BY DEF WindowsInv, WindowsTypeOK
<1>2. \A v : Ending(v)' <=> Ending(v)
  BY DEF Ending
<1>3. ASSUME NEW v \in Windows PROVE Stacked(v)'
  <2>1. Stacked(v)
    BY DEF WindowsInv
  <2> QED
    BY <1>2, <2>1 DEF Stacked
<1>4. ASSUME NEW v \in Windows PROVE OpenIsListed(v)' /\ FiredOnce(v)'
  BY DEF WindowsInv, OpenIsListed, FiredOnce
<1>5. Listed'
  BY <1>2 DEF WindowsInv, Listed
<1>6. ASSUME NEW p \in Windows PROVE ChildrenListed(p)'
  BY <1>2 DEF WindowsInv, ChildrenListed, ChildrenOf
<1>7. ASSUME NEW c \in Others PROVE ChildIsClosed(c)'
  BY <1>2 DEF WindowsInv, ChildIsClosed
<1> QED
  BY <1>1, <1>3, <1>4, <1>5, <1>6, <1>7 DEF WindowsInv

LEMMA OpenKeepsWindows ==
  ASSUME WindowsInv, NEW w \in Windows, Open_(w)
  PROVE  WindowsInv'
<1>1. /\ ~initialized[w] /\ ~gtkWindow[w] /\ gtkWindow' = [gtkWindow EXCEPT ![w] = TRUE]
      /\ stack' = Append(stack, Call("open", w))
      /\ UNCHANGED <<parent, active, initialized, childWindows, openWindows, exited, closedFired,
                     again, spared, late>>
  BY DEF Open_, windowHistory
<1>2. WindowsTypeOK /\ initialized[Main]
  BY DEF WindowsInv
<1>3. stack \in Seq(WaitingCalls) /\ gtkWindow \in [Windows -> BOOLEAN] /\ "open" \in Places
  BY <1>2 DEF WindowsTypeOK, Places
<1>4. /\ (stack \in Seq(WaitingCalls))'
      /\ \A x, v : Waits(x, v)' <=> Waits(x, v) \/ (x = "open" /\ v = w)
      /\ \A x, v : OnceWaiting(x, v) /\ (x = "open" /\ v = w => ~Waits(x, v)) => OnceWaiting(x, v)'
  BY <1>1, <1>3, Pushed
<1>5. ~Waits("open", w)
  BY <1>1 DEF WindowsInv, Stacked
<1>6. \A v \in Windows :
        OnceWaiting("open", v)' /\ (OnceWaiting("close", v) => OnceWaiting("close", v)')
  BY <1>4, <1>5 DEF WindowsInv, Stacked
<1>7. \A v \in Windows : Waits("open", v)' => gtkWindow'[v] /\ ~initialized[v] /\ v # Main
  BY <1>1, <1>2, <1>3, <1>4 DEF WindowsInv, Stacked
<1>8. gtkWindow' \in [Windows -> BOOLEAN] /\ \A v \in Windows : gtkWindow[v] => gtkWindow'[v]
  BY <1>1, <1>3
<1> QED
  BY <1>1, <1>4, <1>6, <1>7, <1>8, NothingCloses

LEMMA OpenedKeepsWindows ==
  ASSUME WindowsInv, NEW w \in Windows, Opened(w)
  PROVE  WindowsInv'
<1>1. /\ Now("opened", w) /\ Returns
      /\ UNCHANGED <<parent, active, initialized, childWindows, openWindows, exited, closedFired,
                     again, spared, late>> /\ gtkWindow' = gtkWindow
  BY DEF Opened, windowHistory, flags
<1>2. stack \in Seq(WaitingCalls) /\ gtkWindow \in [Windows -> BOOLEAN] /\ "opened" \in Places
  BY DEF WindowsInv, WindowsTypeOK, Places
<1>3. /\ (stack \in Seq(WaitingCalls))'
      /\ \A x, v : Waits(x, v) => Waits(x, v)' \/ (x = "opened" /\ v = w)
      /\ \A x, v : Waits(x, v)' => Waits(x, v)
      /\ \A x, v : OnceWaiting(x, v) => OnceWaiting(x, v)'
  BY <1>1, <1>2, Returned
<1>4. \A v \in Windows :
        OnceWaiting("open", v)' /\ (OnceWaiting("close", v) => OnceWaiting("close", v)')
  BY <1>3 DEF WindowsInv, Stacked
<1>5. \A v \in Windows : Waits("open", v)' => gtkWindow'[v] /\ ~initialized[v] /\ v # Main
  BY <1>1, <1>3 DEF WindowsInv, Stacked
<1> QED
  BY <1>1, <1>2, <1>3, <1>4, <1>5, NothingCloses

LEMMA CloseKeepsWindows ==
  ASSUME WindowsInv, NEW w \in Windows, active[w],
         stack' = Append(stack, Call("close", w)),
         again' = IF Waits("close", w) THEN again \cup {w} ELSE again,
         UNCHANGED <<flags, openWindows, exited, closedFired, spared, late>>,
         childWindows' \in [Windows -> Seq(Windows)],
         \A p \in Windows : /\ NoTwice(childWindows[p]) => NoTwice(childWindows'[p])
                            /\ Range(childWindows'[p]) \subseteq Range(childWindows[p])
                            /\ Range(childWindows[p]) \subseteq Range(childWindows'[p]) \cup {w}
  PROVE  WindowsInv'
<1>1. UNCHANGED <<parent, active, initialized, gtkWindow, openWindows, exited, closedFired,
                  spared, late>>
  BY DEF flags
<1>2. WindowsTypeOK /\ initialized[Main]
  BY DEF WindowsInv
<1>3. stack \in Seq(WaitingCalls) /\ "close" \in Places /\ again \in SUBSET Windows
  BY <1>2 DEF WindowsTypeOK, Places
<1>4. /\ (stack \in Seq(WaitingCalls))'
      /\ \A x, v : Waits(x, v)' <=> Waits(x, v) \/ (x = "close" /\ v = w)
      /\ \A x, v : OnceWaiting(x, v) /\ (x = "close" /\ v = w => ~Waits(x, v)) => OnceWaiting(x, v)'
  BY <1>3, Pushed
<1>5. WindowsTypeOK' /\ initialized'[Main]
  BY <1>1, <1>2, <1>3, <1>4 DEF WindowsTypeOK
<1>6. \A v : Ending(v)' <=> Ending(v)
  BY <1>4 DEF Ending
<1>7. ASSUME NEW v \in Windows PROVE Stacked(v)'
  <2>1. Stacked(v) /\ OpenIsListed(w)
    BY DEF WindowsInv
  <2>2. again \subseteq again'
    OBVIOUS
  <2>3. v \notin again' => OnceWaiting("close", v)' /\ (Waits("close", v)' => active'[v])
    BY <1>1, <1>4, <2>1, <2>2 DEF Stacked
  <2> QED
    BY <1>1, <1>4, <1>6, <2>1, <2>3 DEF Stacked, OpenIsListed
<1>8. ASSUME NEW v \in Windows PROVE OpenIsListed(v)' /\ FiredOnce(v)'
  <2>1. OpenIsListed(v) /\ FiredOnce(v)
    BY DEF WindowsInv
  <2> QED
    BY <1>1, <2>1 DEF OpenIsListed, FiredOnce
<1>9. Listed'
  BY <1>1, <1>6 DEF WindowsInv, Listed
<1>10. ASSUME NEW p \in Windows PROVE ChildrenListed(p)'
  <2>1. ChildrenListed(p)
    BY DEF WindowsInv
  <2> QED
    BY <1>1, <1>6, <2>1 DEF ChildrenListed, ChildrenOf
<1>11. ASSUME NEW c \in Others PROVE ChildIsClosed(c)'
  <2>1. ChildIsClosed(c) /\ parent[c] \in Windows
    BY <1>2 DEF WindowsInv, WindowsTypeOK
  <2> QED
    BY <1>1, <1>4, <1>6, <2>1 DEF ChildIsClosed
<1> QED
  BY <1>5, <1>7, <1>8, <1>9, <1>10, <1>11 DEF WindowsInv
LEMMA OpensKeepsWindows ==
  ASSUME WindowsInv, NEW w \in Windows, Opens(w)
  PROVE  WindowsInv'
<1>1. /\ Now("open", w) /\ Next_("opened", w)
      /\ openWindows' = Append(openWindows, w)
      /\ childWindows' = [childWindows EXCEPT ![parent[w]] = Append(@, w)]
      /\ initialized' = [initialized EXCEPT ![w] = TRUE]
      /\ active' = [active EXCEPT ![w] = TRUE]
      /\ late' = IF active[parent[w]] \/ Ending(parent[w]) THEN late ELSE late \cup {w}
      /\ UNCHANGED <<parent, gtkWindow, exited, closedFired, again, spared>>
  BY DEF Opens, Ending
<1>2. WindowsTypeOK /\ initialized[Main]
  BY DEF WindowsInv
<1>3. stack \in Seq(WaitingCalls) /\ "open" \in Places /\ "opened" \in Places
  BY <1>2 DEF WindowsTypeOK, Places
<1>4. /\ (stack \in Seq(WaitingCalls))'
      /\ Waits("open", w) /\ Waits("opened", w)'
      /\ \A x, v : Waits(x, v) => Waits(x, v)' \/ (x = "open" /\ v = w)
      /\ \A x, v : Waits(x, v)' => Waits(x, v) \/ (x = "opened" /\ v = w)
      /\ OnceWaiting("open", w) => ~Waits("open", w)'
      /\ \A x, v :
           OnceWaiting(x, v) /\ (x = "opened" /\ v = w => ~Waits(x, v)) => OnceWaiting(x, v)'
  BY <1>1, <1>3, GoesOn
<1>5. gtkWindow[w] /\ ~initialized[w] /\ w # Main /\ ~Waits("open", w)'
  BY <1>4 DEF WindowsInv, Stacked
<1>6. w \in Others /\ parent[w] \in Windows /\ ~active[w]
  BY <1>2, <1>5 DEF Others, WindowsTypeOK, WindowsInv, OpenIsListed
<1>7. /\ \A v \in Windows : active'[v] = (active[v] \/ v = w)
      /\ \A v \in Windows : initialized'[v] = (initialized[v] \/ v = w)
  BY <1>1, <1>2 DEF WindowsTypeOK
<1>8. /\ openWindows' \in Seq(Windows) /\ openWindows' # <<>>
      /\ Range(openWindows') = Range(openWindows) \cup {w}
  <2>1. openWindows \in Seq(Windows)
    BY <1>2 DEF WindowsTypeOK
  <2> QED
    BY <1>1, <2>1, Appended
<1>9. PICK kids \in Seq(Windows) : kids = childWindows[parent[w]]
  BY <1>2, <1>6 DEF WindowsTypeOK
<1>10. /\ Append(kids, w) \in Seq(Windows)
       /\ Range(Append(kids, w)) = Range(kids) \cup {w}
  BY <1>9, Appended
<1>11. /\ childWindows' \in [Windows -> Seq(Windows)]
       /\ childWindows'[parent[w]] = Append(kids, w)
       /\ \A p \in Windows : p # parent[w] => childWindows'[p] = childWindows[p]
  BY <1>1, <1>2, <1>6, <1>9, <1>10 DEF WindowsTypeOK
<1>12. WindowsTypeOK' /\ initialized'[Main]
  <2>1. Main \in Windows
    BY WindowsAssumption
  <2>2. active' \in [Windows -> BOOLEAN] /\ initialized' \in [Windows -> BOOLEAN]
    BY <1>1, <1>2 DEF WindowsTypeOK
  <2>3. late' \in SUBSET Windows
    BY <1>1, <1>2 DEF WindowsTypeOK
  <2>4. initialized'[Main]
    BY <1>2, <1>7, <2>1
  <2> QED
    BY <1>1, <1>2, <1>4, <1>8, <1>11, <2>2, <2>3, <2>4 DEF WindowsTypeOK
<1>13. \A v : Ending(v)' <=> Ending(v)
  BY <1>4 DEF Ending
<1>14. ASSUME NEW v \in Windows PROVE Stacked(v)'
  <2>1. Stacked(v)
    BY DEF WindowsInv
  <2>2. CASE v = w
    <3>1. ~Ending(v) /\ ~Waits("close", v)
      BY <1>5, <2>1, <2>2 DEF Stacked
    <3>2. Waits("close", v)' => Waits("close", v)
      BY <1>4
    <3>3. (v \notin again => OnceWaiting("close", v))' /\ OnceWaiting("open", v)'
      BY <1>1, <1>4, <2>1 DEF Stacked
    <3> QED
      BY <1>1, <1>5, <1>7, <1>13, <2>2, <3>1, <3>2, <3>3 DEF Stacked
  <2>3. CASE v # w
    <3>1. (v \notin again => OnceWaiting("close", v))' /\ OnceWaiting("open", v)'
      BY <1>1, <1>4, <2>1 DEF Stacked
    <3> QED
      BY <1>1, <1>4, <1>7, <1>13, <2>1, <2>3, <3>1 DEF Stacked
  <2> QED
    BY <2>2, <2>3
<1>15. ASSUME NEW v \in Windows PROVE OpenIsListed(v)' /\ FiredOnce(v)'
  <2>1. OpenIsListed(v) /\ FiredOnce(v)
    BY DEF WindowsInv
  <2>2. OpenIsListed(v)'
    BY <1>1, <1>5, <1>7, <1>8, <2>1 DEF OpenIsListed
  <2>3. FiredOnce(v)'
    BY <1>1, <1>5, <1>7, <2>1 DEF FiredOnce
  <2> QED
    BY <2>2, <2>3
<1>16. Listed'
  <2>1. Listed /\ openWindows \in Seq(Windows)
    BY <1>2 DEF WindowsInv, WindowsTypeOK
  <2>2. w \notin Range(openWindows)
    BY <1>5, <2>1 DEF Listed
  <2>3. NoTwice(openWindows')
    BY <1>1, <2>1, <2>2, NotTwiceAppended DEF Listed
  <2>4. \A v \in Range(openWindows) : v \in Windows
    BY <2>1 DEF Range
  <2> QED
    BY <1>7, <1>8, <1>13, <2>1, <2>3, <2>4 DEF Listed
<1>17. ASSUME NEW p \in Windows PROVE ChildrenListed(p)'
  <2>1. ChildrenListed(p) /\ childWindows[p] \in Seq(Windows)
    BY <1>2 DEF WindowsInv, WindowsTypeOK
  <2>2. \A v \in Range(childWindows[p]) : v \in Windows
    BY <2>1 DEF Range
  <2>3. CASE p = parent[w]
    <3>1. w \notin Range(kids)
      BY <1>5, <1>9, <2>1, <2>3 DEF ChildrenListed
    <3>2. NoTwice(Append(kids, w))
      BY <1>9, <2>1, <2>3, <3>1, NotTwiceAppended DEF ChildrenListed
    <3>3. \A c : (c \in ChildrenOf(p))' <=> c \in ChildrenOf(p)
      BY <1>1 DEF ChildrenOf
    <3>4. w \in ChildrenOf(p)
      BY <1>6, <2>3 DEF ChildrenOf
    <3> QED
      BY <1>6, <1>7, <1>9, <1>10, <1>11, <1>13, <2>1, <2>2, <2>3, <3>2, <3>3, <3>4
         DEF ChildrenListed
  <2>4. CASE p # parent[w]
    BY <1>1, <1>7, <1>11, <1>13, <2>1, <2>2, <2>4 DEF ChildrenListed, ChildrenOf
  <2> QED
    BY <2>3, <2>4
<1>18. ASSUME NEW c \in Others PROVE ChildIsClosed(c)'
  <2>1. ChildIsClosed(c) /\ c \in Windows /\ parent[c] \in Windows
    BY <1>2 DEF WindowsInv, WindowsTypeOK, Others
  <2>2. late \subseteq late'
    BY <1>1
  <2>3. CASE c = w
    <3>1. ~active[parent[c]] /\ c \notin late' => Ending(parent[c])
      BY <1>1, <2>3
    <3>2. active[parent[c]] => active'[parent[c]]
      BY <1>7, <2>1
    <3>3. c \in Range(childWindows'[parent[c]])
      BY <1>10, <1>11, <2>3
    <3> QED
      BY <1>1, <1>13, <3>1, <3>2, <3>3 DEF ChildIsClosed
  <2>4. CASE c # w
    <3>1. Range(childWindows[parent[c]]) \subseteq Range(childWindows'[parent[c]])
      BY <1>9, <1>10, <1>11, <2>1
    <3>2. Waits("close", c) => Waits("close", c)'
      BY <1>4
    <3> QED
      BY <1>1, <1>7, <1>13, <2>1, <2>2, <2>4, <3>1, <3>2 DEF ChildIsClosed
  <2> QED
    BY <2>3, <2>4
<1> QED
  BY <1>12, <1>14, <1>15, <1>16, <1>17, <1>18 DEF WindowsInv

LEMMA PreventedKeepsWindows ==
  ASSUME WindowsInv, NEW w \in Windows, Prevented(w)
  PROVE  WindowsInv'
<1>1. /\ Now("close", w) /\ Returns /\ spared' = spared \cup {w}
      /\ UNCHANGED <<parent, active, initialized, gtkWindow, childWindows, openWindows, exited,
                     closedFired, again, late>>
  BY DEF Prevented, flags
<1>2. WindowsTypeOK /\ initialized[Main]
  BY DEF WindowsInv
<1>3. stack \in Seq(WaitingCalls) /\ "close" \in Places
  BY <1>2 DEF WindowsTypeOK, Places
<1>4. /\ (stack \in Seq(WaitingCalls))'
      /\ \A x, v : Waits(x, v) => Waits(x, v)' \/ (x = "close" /\ v = w)
      /\ \A x, v : Waits(x, v)' => Waits(x, v)
      /\ \A x, v : OnceWaiting(x, v) => OnceWaiting(x, v)'
  BY <1>1, <1>3, Returned
<1>5. WindowsTypeOK' /\ initialized'[Main]
  BY <1>1, <1>2, <1>4 DEF WindowsTypeOK
<1>6. \A v : Ending(v)' <=> Ending(v)
  BY <1>4 DEF Ending
<1>7. ASSUME NEW v \in Windows PROVE Stacked(v)' /\ OpenIsListed(v)' /\ FiredOnce(v)'
  <2>1. Stacked(v) /\ OpenIsListed(v) /\ FiredOnce(v)
    BY DEF WindowsInv
  <2>2. Stacked(v)'
    BY <1>1, <1>4, <1>6, <2>1 DEF Stacked
  <2> QED
    BY <1>1, <2>1, <2>2 DEF OpenIsListed, FiredOnce
<1>8. Listed' /\ \A p \in Windows : ChildrenListed(p)'
  BY <1>1, <1>6 DEF WindowsInv, Listed, ChildrenListed, ChildrenOf
<1>9. ASSUME NEW c \in Others PROVE ChildIsClosed(c)'
  <2>1. ChildIsClosed(c)
    BY DEF WindowsInv
  <2>2. CASE c = w
    BY <1>1, <2>2 DEF ChildIsClosed
  <2>3. CASE c # w
    BY <1>1, <1>4, <1>6, <2>1, <2>3 DEF ChildIsClosed
  <2> QED
    BY <2>2, <2>3
<1> QED
  BY <1>5, <1>7, <1>8, <1>9 DEF WindowsInv
LEMMA ClosesKeepsWindows ==
  ASSUME WindowsInv, NEW w \in Windows, Closes(w)
  PROVE  WindowsInv'
<1>1. /\ Now("close", w) /\ Next_("closed", w)
      /\ active' = [active EXCEPT ![w] = FALSE]
      /\ gtkWindow' = [gtkWindow EXCEPT ![w] = FALSE]
      /\ closedFired' = [closedFired EXCEPT ![w] = IF @ < 2 THEN @ + 1 ELSE 2]
      /\ UNCHANGED <<parent, initialized, childWindows, openWindows, exited, again, spared, late>>
  BY DEF Closes
<1>2. WindowsTypeOK /\ initialized[Main]
  BY DEF WindowsInv
<1>3. stack \in Seq(WaitingCalls) /\ "close" \in Places /\ "closed" \in Places
  BY <1>2 DEF WindowsTypeOK, Places
<1>4. /\ (stack \in Seq(WaitingCalls))'
      /\ Waits("close", w) /\ Waits("closed", w)'
      /\ \A x, v : Waits(x, v) => Waits(x, v)' \/ (x = "close" /\ v = w)
      /\ \A x, v : Waits(x, v)' => Waits(x, v) \/ (x = "closed" /\ v = w)
      /\ OnceWaiting("close", w) => ~Waits("close", w)'
      /\ \A x, v :
           OnceWaiting(x, v) /\ (x = "closed" /\ v = w => ~Waits(x, v)) => OnceWaiting(x, v)'
  BY <1>1, <1>3, GoesOn
<1>5. initialized[w] /\ ~Waits("open", w) /\ (w \notin again => active[w])
  BY <1>4 DEF WindowsInv, Stacked
<1>6. /\ \A v \in Windows : active'[v] = (active[v] /\ v # w)
      /\ \A v \in Windows : v # w => gtkWindow'[v] = gtkWindow[v]
      /\ \A v \in Windows : v # w => closedFired'[v] = closedFired[v]
  BY <1>1, <1>2 DEF WindowsTypeOK
<1>7. closedFired' \in [Windows -> 0 .. 2] /\ (closedFired[w] = 0 => closedFired'[w] = 1)
  <2>1. PICK n \in 0 .. 2 : n = closedFired[w]
    BY <1>2 DEF WindowsTypeOK
  <2>2. PICK m \in 0 .. 2 : m = IF n < 2 THEN n + 1 ELSE 2
    OBVIOUS
  <2>3. closedFired' = [closedFired EXCEPT ![w] = m]
    BY <1>1, <2>1, <2>2
  <2>4. n = 0 => m = 1
    BY <2>2
  <2> QED
    BY <1>2, <2>1, <2>3, <2>4 DEF WindowsTypeOK
<1>8. WindowsTypeOK' /\ initialized'[Main]
  BY <1>1, <1>2, <1>4, <1>7 DEF WindowsTypeOK
<1>9. \A v : Ending(v)' <=> Ending(v) \/ v = w
  BY <1>4 DEF Ending
<1>10. ASSUME NEW v \in Windows PROVE Stacked(v)'
  <2>1. Stacked(v)
    BY DEF WindowsInv
  <2>2. /\ v \notin again => OnceWaiting("close", v)'
        /\ OnceWaiting("open", v)'
    BY <1>4, <2>1 DEF Stacked
  <2>3. CASE v = w
    <3>1. ~Waits("open", v)' /\ (v \notin again => ~Waits("close", v)')
      BY <1>4, <1>5, <2>1, <2>3 DEF Stacked
    <3> QED
      BY <1>1, <1>5, <1>6, <1>9, <2>2, <2>3, <3>1 DEF Stacked
  <2>4. CASE v # w
    BY <1>1, <1>4, <1>6, <1>9, <2>1, <2>2, <2>4 DEF Stacked
  <2> QED
    BY <2>3, <2>4
<1>11. ASSUME NEW v \in Windows PROVE OpenIsListed(v)' /\ FiredOnce(v)'
  <2>1. OpenIsListed(v) /\ FiredOnce(v)
    BY DEF WindowsInv
  <2>2. OpenIsListed(v)'
    BY <1>1, <1>6, <2>1 DEF OpenIsListed
  <2>3. CASE v = w
    <3>1. v \notin again => closedFired'[v] = 1
      BY <1>5, <1>7, <2>1, <2>3 DEF FiredOnce
    <3> QED
      BY <1>1, <1>5, <1>6, <2>2, <2>3, <3>1 DEF FiredOnce
  <2>4. CASE v # w
    BY <1>1, <1>6, <2>1, <2>2, <2>4 DEF FiredOnce
  <2> QED
    BY <2>3, <2>4
<1>12. Listed'
  <2>1. Listed /\ \A v \in Range(openWindows) : v \in Windows
    BY <1>2 DEF WindowsInv, WindowsTypeOK, Range
  <2> QED
    BY <1>1, <1>6, <1>9, <2>1 DEF Listed
<1>13. ASSUME NEW p \in Windows PROVE ChildrenListed(p)'
  <2>1. ChildrenListed(p) /\ childWindows[p] \in Seq(Windows)
    BY <1>2 DEF WindowsInv, WindowsTypeOK
  <2>2. \A v \in Range(childWindows[p]) : v \in Windows
    BY <2>1 DEF Range
  <2> QED
    BY <1>1, <1>6, <1>9, <2>1, <2>2 DEF ChildrenListed, ChildrenOf
<1>14. ASSUME NEW c \in Others PROVE ChildIsClosed(c)'
  <2>1. ChildIsClosed(c) /\ c \in Windows /\ parent[c] \in Windows
    BY <1>2 DEF WindowsInv, WindowsTypeOK, Others
  <2>2. CASE c = w
    BY <1>6, <2>1, <2>2 DEF ChildIsClosed
  <2>3. CASE c # w
    BY <1>1, <1>4, <1>6, <1>9, <2>1, <2>3 DEF ChildIsClosed
  <2> QED
    BY <2>2, <2>3
<1> QED
  BY <1>8, <1>10, <1>11, <1>12, <1>13, <1>14 DEF WindowsInv

LEMMA ClosedKeepsWindows ==
  ASSUME WindowsInv, NEW w \in Windows, Closed(w)
  PROVE  WindowsInv'
<1>1. /\ Now("closed", w) /\ Next_("children", w)
      /\ UNCHANGED <<parent, active, initialized, gtkWindow, childWindows, openWindows, exited,
                     closedFired, again, spared, late>>
  BY DEF Closed, flags, windowHistory
<1>2. WindowsTypeOK /\ initialized[Main]
  BY DEF WindowsInv
<1>3. stack \in Seq(WaitingCalls) /\ "closed" \in Places /\ "children" \in Places
  BY <1>2 DEF WindowsTypeOK, Places
<1>4. /\ (stack \in Seq(WaitingCalls))'
      /\ Waits("closed", w) /\ Waits("children", w)'
      /\ \A x, v : Waits(x, v) => Waits(x, v)' \/ (x = "closed" /\ v = w)
      /\ \A x, v : Waits(x, v)' => Waits(x, v) \/ (x = "children" /\ v = w)
      /\ \A x, v :
           OnceWaiting(x, v) /\ (x = "children" /\ v = w => ~Waits(x, v)) => OnceWaiting(x, v)'
  BY <1>1, <1>3, GoesOn
<1>5. WindowsTypeOK' /\ initialized'[Main]
  BY <1>1, <1>2, <1>4 DEF WindowsTypeOK
<1>6. \A v : Ending(v)' <=> Ending(v)
  BY <1>4 DEF Ending
<1>7. ASSUME NEW v \in Windows PROVE Stacked(v)' /\ OpenIsListed(v)' /\ FiredOnce(v)'
  <2>1. Stacked(v) /\ OpenIsListed(v) /\ FiredOnce(v)
    BY DEF WindowsInv
  <2>2. Stacked(v)'
    BY <1>1, <1>4, <1>6, <2>1 DEF Stacked
  <2> QED
    BY <1>1, <2>1, <2>2 DEF OpenIsListed, FiredOnce
<1>8. Listed' /\ \A p \in Windows : ChildrenListed(p)'
  BY <1>1, <1>6 DEF WindowsInv, Listed, ChildrenListed, ChildrenOf
<1>9. ASSUME NEW c \in Others PROVE ChildIsClosed(c)'
  BY <1>1, <1>4, <1>6 DEF ChildIsClosed, WindowsInv
<1> QED
  BY <1>5, <1>7, <1>8, <1>9 DEF WindowsInv

LEMMA CloseChildKeepsWindows ==
  ASSUME WindowsInv, NEW w \in Windows, CloseChild(w)
  PROVE  WindowsInv'
<1>1. PICK kids \in Seq(Windows) : kids = childWindows[w]
  BY DEF WindowsInv, WindowsTypeOK
<1>2. PICK c : c = Head(kids)
  OBVIOUS
<1>3. /\ kids # <<>>
      /\ childWindows' = [childWindows EXCEPT ![w] = Tail(kids)]
      /\ stack' = IF active[c] THEN Append(stack, Call("close", c)) ELSE stack
      /\ again' = IF active[c] /\ Waits("close", c) THEN again \cup {c} ELSE again
      /\ UNCHANGED <<flags, openWindows, exited, closedFired, spared, late>>
  BY <1>1, <1>2 DEF CloseChild
<1>4. /\ c \in Windows /\ Tail(kids) \in Seq(Windows)
      /\ Range(kids) = Range(Tail(kids)) \cup {c}
      /\ \A x : OnceIn(kids, x) => OnceIn(Tail(kids), x)
  BY <1>1, <1>2, <1>3, HeadAndTail
<1>5. childWindows \in [Windows -> Seq(Windows)]
  BY DEF WindowsInv, WindowsTypeOK
<1>6. /\ childWindows' \in [Windows -> Seq(Windows)]
      /\ childWindows'[w] = Tail(kids)
      /\ \A p \in Windows : p # w => childWindows'[p] = childWindows[p]
  BY <1>3, <1>4, <1>5
<1>7. NoTwice(kids) => NoTwice(Tail(kids))
  BY <1>4 DEF NoTwice, OnceIn
<1>8. ASSUME NEW p \in Windows
      PROVE  /\ NoTwice(childWindows[p]) => NoTwice(childWindows'[p])
             /\ Range(childWindows'[p]) \subseteq Range(childWindows[p])
             /\ Range(childWindows[p]) \subseteq Range(childWindows'[p]) \cup {c}
  <2>1. CASE p = w
    BY <1>1, <1>4, <1>6, <1>7, <2>1
  <2>2. CASE p # w
    BY <1>6, <2>2
  <2> QED
    BY <2>1, <2>2
<1>9. CASE active[c]
  BY <1>3, <1>4, <1>6, <1>8, <1>9, CloseKeepsWindows
<1>10. CASE ~active[c]
  <2>1. /\ stack' = stack /\ again' = again
        /\ UNCHANGED <<parent, active, initialized, gtkWindow, openWindows, exited, closedFired,
                       spared, late>>
    BY <1>3, <1>10 DEF flags
  <2>2. \A x, v : (Waits(x, v)' <=> Waits(x, v)) /\ (OnceWaiting(x, v)' <=> OnceWaiting(x, v))
    BY <2>1 DEF Waits, OnceWaiting
  <2>3. \A v : Ending(v)' <=> Ending(v)
    BY <2>2 DEF Ending
  <2>4. WindowsTypeOK' /\ initialized'[Main]
    BY <1>6, <2>1 DEF WindowsInv, WindowsTypeOK
  <2>5. ASSUME NEW v \in Windows PROVE Stacked(v)' /\ OpenIsListed(v)' /\ FiredOnce(v)'
    <3>1. Stacked(v) /\ OpenIsListed(v) /\ FiredOnce(v)
      BY DEF WindowsInv
    <3>2. Stacked(v)'
      BY <2>1, <2>2, <2>3, <3>1 DEF Stacked
    <3> QED
      BY <2>1, <3>1, <3>2 DEF OpenIsListed, FiredOnce
  <2>6. Listed'
    BY <2>1, <2>3 DEF WindowsInv, Listed
  <2>7. ASSUME NEW p \in Windows PROVE ChildrenListed(p)'
    <3>1. ChildrenListed(p)
      BY DEF WindowsInv
    <3> QED
      BY <1>8, <2>1, <2>3, <3>1 DEF ChildrenListed, ChildrenOf
  <2>8. ASSUME NEW v \in Others PROVE ChildIsClosed(v)'
    <3>1. ChildIsClosed(v) /\ parent[v] \in Windows
      BY DEF WindowsInv, WindowsTypeOK
    <3> QED
      BY <1>8, <1>10, <2>1, <2>2, <2>3, <3>1 DEF ChildIsClosed
  <2> QED
    BY <2>4, <2>5, <2>6, <2>7, <2>8 DEF WindowsInv
<1> QED
  BY <1>9, <1>10

LEMMA ClosedAllKeepsWindows ==
  ASSUME WindowsInv, NEW w \in Windows, ClosedAll(w)
  PROVE  WindowsInv'
<1>1. /\ Now("children", w) /\ childWindows[w] = <<>> /\ Returns
      /\ childWindows' = IF w = Main THEN childWindows
                         ELSE [childWindows EXCEPT ![parent[w]] = RemoveChild(@, w)]
      /\ openWindows' = RemoveFromOpenWindows(openWindows, w)
      /\ exited' = (exited \/ openWindows' = <<>>)
      /\ UNCHANGED <<parent, active, initialized, gtkWindow, closedFired, again, spared, late>>
  BY DEF ClosedAll, flags
<1>2. WindowsTypeOK /\ initialized[Main]
  BY DEF WindowsInv
<1>3. stack \in Seq(WaitingCalls) /\ "children" \in Places
  BY <1>2 DEF WindowsTypeOK, Places
<1>4. /\ (stack \in Seq(WaitingCalls))'
      /\ Waits("children", w)
      /\ \A x, v : Waits(x, v) => Waits(x, v)' \/ (x = "children" /\ v = w)
      /\ \A x, v : Waits(x, v)' => Waits(x, v)
      /\ \A x, v : OnceWaiting(x, v) => OnceWaiting(x, v)'
  BY <1>1, <1>3, Returned
<1>5. ~active[w]
  BY <1>4 DEF WindowsInv, Stacked, Ending
<1>6. /\ \A v : Ending(v)' => Ending(v)
      /\ \A v : v # w => (Ending(v) => Ending(v)')
  BY <1>4 DEF Ending
<1>7. /\ openWindows' \in Seq(Windows) /\ NoTwice(openWindows')
      /\ Range(openWindows') = Range(openWindows) \ {w}
  <2>1. openWindows \in Seq(Windows) /\ NoTwice(openWindows)
    BY <1>2 DEF WindowsInv, WindowsTypeOK, Listed
  <2> QED
    BY <1>1, <2>1, OpenRemoved
<1>8. /\ childWindows' \in [Windows -> Seq(Windows)]
      /\ \A p \in Windows :
           /\ NoTwice(childWindows'[p])
           /\ Range(childWindows'[p]) = Range(childWindows[p]) \ {w}
  <2>1. childWindows \in [Windows -> Seq(Windows)]
    BY <1>2 DEF WindowsTypeOK
  <2>2. ASSUME NEW p \in Windows PROVE NoTwice(childWindows[p])
    BY DEF WindowsInv, ChildrenListed
  <2>3. ASSUME NEW p \in Windows, w \in Range(childWindows[p])
        PROVE  w \in Others /\ parent[w] = p
    BY <2>3 DEF WindowsInv, ChildrenListed, ChildrenOf
  <2>4. CASE w = Main
    BY <1>1, <2>1, <2>2, <2>3, <2>4 DEF Others
  <2>5. CASE w # Main
    <3>1. parent[w] \in Windows
      BY <1>2, <2>5 DEF WindowsTypeOK, Others
    <3>2. PICK kids \in Seq(Windows) : kids = childWindows[parent[w]]
      BY <2>1, <3>1
    <3>3. NoTwice(kids)
      BY <2>2, <3>1, <3>2
    <3>4. /\ RemoveChild(kids, w) \in Seq(Windows) /\ NoTwice(RemoveChild(kids, w))
          /\ Range(RemoveChild(kids, w)) = Range(kids) \ {w}
      BY <3>3, ChildRemoved
    <3>5. childWindows' = [childWindows EXCEPT ![parent[w]] = RemoveChild(kids, w)]
      BY <1>1, <2>5, <3>2
    <3>6. /\ childWindows' \in [Windows -> Seq(Windows)]
          /\ childWindows'[parent[w]] = RemoveChild(kids, w)
          /\ \A p \in Windows : p # parent[w] => childWindows'[p] = childWindows[p]
      BY <2>1, <3>1, <3>4, <3>5
    <3>7. ASSUME NEW p \in Windows
          PROVE  /\ NoTwice(childWindows'[p])
                 /\ Range(childWindows'[p]) = Range(childWindows[p]) \ {w}
      <4>1. CASE p = parent[w]
        BY <3>2, <3>4, <3>6, <4>1
      <4>2. CASE p # parent[w]
        BY <2>2, <2>3, <3>6, <4>2
      <4> QED
        BY <4>1, <4>2
    <3> QED
      BY <3>6, <3>7
  <2> QED
    BY <2>4, <2>5
<1>9. WindowsTypeOK' /\ initialized'[Main]
  <2>1. exited' \in BOOLEAN
    BY <1>1, <1>2 DEF WindowsTypeOK
  <2> QED
    BY <1>1, <1>2, <1>4, <1>7, <1>8, <2>1 DEF WindowsTypeOK
<1>10. ASSUME NEW v \in Windows PROVE Stacked(v)' /\ OpenIsListed(v)' /\ FiredOnce(v)'
  <2>1. Stacked(v) /\ OpenIsListed(v) /\ FiredOnce(v)
    BY DEF WindowsInv
  <2>2. Stacked(v)'
    BY <1>1, <1>4, <1>6, <2>1 DEF Stacked
  <2>3. OpenIsListed(v)'
    BY <1>1, <1>5, <1>7, <2>1 DEF OpenIsListed
  <2> QED
    BY <1>1, <2>1, <2>2, <2>3 DEF FiredOnce
<1>11. Listed'
  <2>1. Listed
    BY DEF WindowsInv
  <2> QED
    BY <1>1, <1>6, <1>7, <2>1 DEF Listed
<1>12. ASSUME NEW p \in Windows PROVE ChildrenListed(p)'
  <2>1. ChildrenListed(p)
    BY DEF WindowsInv
  <2>2. \A c : (c \in ChildrenOf(p))' <=> c \in ChildrenOf(p)
    BY <1>1 DEF ChildrenOf
  <2>3. NoTwice(childWindows'[p]) /\ Range(childWindows'[p]) = Range(childWindows[p]) \ {w}
    BY <1>8
  <2> QED
    BY <1>1, <1>6, <2>1, <2>2, <2>3 DEF ChildrenListed
<1>13. ASSUME NEW c \in Others PROVE ChildIsClosed(c)'
  <2>1. ChildIsClosed(c) /\ c \in Windows /\ parent[c] \in Windows
    BY <1>2 DEF WindowsInv, WindowsTypeOK, Others
  <2>2. Waits("close", c) => Waits("close", c)'
    BY <1>4
  <2>3. CASE ~active[c] \/ c \in spared
    BY <1>1, <2>3 DEF ChildIsClosed
  <2>4. CASE active[c] /\ c \notin spared
    <3>1. c # w
      BY <1>5, <2>4
    <3>2. c \in Range(childWindows'[parent[c]]) \/ Waits("close", c)'
      BY <1>8, <2>1, <2>2, <2>4, <3>1 DEF ChildIsClosed
    <3>3. CASE parent[c] = w
      <4>1. c \notin Range(childWindows[w])
        BY <1>1 DEF Range
      <4> QED
        BY <1>1, <2>1, <2>2, <2>4, <3>2, <3>3, <4>1 DEF ChildIsClosed
    <3>4. CASE parent[c] # w
      BY <1>1, <1>6, <2>1, <2>2, <2>4, <3>2, <3>4 DEF ChildIsClosed
    <3> QED
      BY <3>3, <3>4
  <2> QED
    BY <2>3, <2>4
<1> QED
  BY <1>9, <1>10, <1>11, <1>12, <1>13 DEF WindowsInv

LEMMA WindowsStay ==
  ASSUME WindowsInv, UNCHANGED windowVars
  PROVE  WindowsInv'
<1>1. UNCHANGED <<parent, active, initialized, gtkWindow, childWindows, openWindows, stack, exited,
                  closedFired, again, spared, late>>
  BY DEF windowVars, flags, windowHistory
<1>2. \A x, v : (Waits(x, v)' <=> Waits(x, v)) /\ (OnceWaiting(x, v)' <=> OnceWaiting(x, v))
  BY <1>1 DEF Waits, OnceWaiting
<1>3. \A v : Ending(v)' <=> Ending(v)
  BY <1>2 DEF Ending
<1>4. WindowsTypeOK' /\ initialized'[Main] /\ Listed' /\ \A p \in Windows : ChildrenListed(p)'
  BY <1>1, <1>3 DEF WindowsInv, WindowsTypeOK, Listed, ChildrenListed, ChildrenOf
<1>5. ASSUME NEW v \in Windows PROVE Stacked(v)' /\ OpenIsListed(v)' /\ FiredOnce(v)'
  BY <1>1, <1>2, <1>3 DEF WindowsInv, Stacked, OpenIsListed, FiredOnce
<1>6. ASSUME NEW c \in Others PROVE ChildIsClosed(c)'
  BY <1>1, <1>2, <1>3 DEF WindowsInv, ChildIsClosed
<1> QED
  BY <1>4, <1>5, <1>6 DEF WindowsInv

LEMMA WindowsStep == WindowsInv /\ [WindowsNext]_windowVars => WindowsInv'
<1> SUFFICES ASSUME WindowsInv, [WindowsNext]_windowVars PROVE WindowsInv'
  OBVIOUS
<1>1. CASE UNCHANGED windowVars
  BY <1>1, WindowsStay
<1>2. ASSUME NEW w \in Windows, Close_(w) PROVE WindowsInv'
  <2>1. /\ active[w] /\ stack' = Append(stack, Call("close", w))
        /\ again' = IF Waits("close", w) THEN again \cup {w} ELSE again
        /\ UNCHANGED <<flags, childWindows, openWindows, exited, closedFired, spared, late>>
    BY <1>2 DEF Close_
  <2>2. childWindows' \in [Windows -> Seq(Windows)]
    BY <2>1 DEF WindowsInv, WindowsTypeOK
  <2> QED
    BY <2>1, <2>2, CloseKeepsWindows
<1> QED
  BY <1>1, <1>2, OpenKeepsWindows, OpensKeepsWindows, OpenedKeepsWindows, PreventedKeepsWindows,
     ClosesKeepsWindows, ClosedKeepsWindows, CloseChildKeepsWindows, ClosedAllKeepsWindows
     DEF WindowsNext

\* However listeners open and close windows, in whatever depth: the lists of open windows
\* and of children hold the windows that are open, each once.
THEOREM WindowsAreListed == WindowsSpec => []WindowsListed
<1>1. WindowsInit => WindowsInv
  BY WindowsInitially
<1>2. WindowsInv /\ [WindowsNext]_windowVars => WindowsInv'
  BY WindowsStep
<1>3. WindowsInv => WindowsListed
  BY InvImpliesListed
<1> QED
  BY <1>1, <1>2, <1>3, PTL DEF WindowsSpec

\* A close that has returned has closed the children, fired CLOSED once and, with the last
\* window, asked the program to exit.
THEOREM ClosesAreComplete == WindowsSpec => []ClosingIsComplete
<1>1. WindowsInit => WindowsInv
  BY WindowsInitially
<1>2. WindowsInv /\ [WindowsNext]_windowVars => WindowsInv'
  BY WindowsStep
<1>3. WindowsInv => ClosingIsComplete
  BY InvImpliesComplete
<1> QED
  BY <1>1, <1>2, <1>3, PTL DEF WindowsSpec

-----------------------------------------------------------------------------
(* Sizes and limits: the inductive invariant.                              *)

Limits == [Axes -> (1 .. MaxSize) \cup {NoLimit}]
Configs == [size : NewSizes, min : Limits, max : Limits, resizable : BOOLEAN]
Natives == [hints : [min : NewSizes, max : NewSizes], asked : NewSizes \cup {All(0)},
            unsettled : BOOLEAN, target : NewSizes \cup {All(NoLimit)}]

SizesTypeOK ==
  /\ life \in [SizedWindows -> {"new", "open", "closed"}]
  /\ config \in [SizedWindows -> Configs]
  /\ native \in [SizedWindows -> Natives]
  /\ oldSize \in NewSizes \cup {All(NoLimit)}
  /\ real \in [SizedWindows -> NewSizes \cup {All(0)}]
  /\ events \in Seq([win : SizedWindows, size : NewSizes])

\* The configured size is in the limits, which do not clash.
Fits(c) ==
  /\ ~Clashes(c)
  /\ \A a \in Axes : /\ c.min[a] = NoLimit \/ c.min[a] <= c.size[a]
                     /\ c.max[a] = NoLimit \/ c.size[a] <= c.max[a]

\* GTK knows the limits, and when it has settled the window is within them.
Known(w) ==
  Active(w) => /\ native[w].hints = SizeLimits(config[w])
               /\ ~native[w].unsettled => Within(real[w], native[w].hints)
                                          /\ native[w].asked = All(0)

Unused == events = <<>> /\ oldSize = All(NoLimit)

FirstOne ==
  /\ \A w \in SizedWindows : life[w] = "new" => real[w] = All(0) /\ ~native[w].unsettled
  /\ (\A w \in SizedWindows : life[w] = "new") => Unused

\* Of the only window: each event tells another size than the one before, and the
\* last one the size it has.
Chain(w) ==
  /\ \A i \in DOMAIN events : events[i].win = w
  /\ IF events = <<>> THEN oldSize = real[w]
     ELSE /\ events[Len(events)].size = real[w]
          /\ events[1].size # oldSize
          /\ \A i \in 1 .. Len(events) - 1 : events[i].size # events[i + 1].size

\* What the script is told when the events under way have been handled; the first
\* event of all is only compared with.
End(w) ==
  IF events = <<>> \/ (oldSize = All(NoLimit) /\ Len(events) = 1) THEN native[w].target
  ELSE real[w]

\* The window will have the size the script is told.
Wanted(n, c) ==
  /\ n.unsettled /\ n.target \in NewSizes /\ Within(n.target, n.hints)
  /\ IF c.resizable THEN n.asked = n.target ELSE n.target = c.size

Told(w) ==
  Alone(w) /\ Active(w) =>
    /\ IF real[w] = All(0) THEN Unused /\ Wanted(native[w], config[w]) ELSE Chain(w)
    /\ End(w) = real[w] \/ Wanted(native[w], config[w])

SizesInv ==
  /\ SizesTypeOK /\ FirstOne
  /\ \A w \in SizedWindows : Fits(config[w]) /\ Known(w) /\ Told(w)

-----------------------------------------------------------------------------
(* Setters.                                                                *)

LEMMA NoSize ==
  /\ All(0) \notin NewSizes /\ All(NoLimit) \notin NewSizes /\ All(0) # All(NoLimit)
  /\ MaxSize \in Int /\ 1 <= MaxSize /\ NoLimit \in Int /\ NoLimit < 0
  /\ All(1) \in NewSizes /\ All(MaxSize) \in NewSizes
<1>1. PICK a \in Axes : TRUE
  BY SizesAssumption
<1>2. All(0)[a] = 0 /\ All(NoLimit)[a] = -1
  BY DEF All, NoLimit
<1>3. \A s \in NewSizes : s[a] >= 1
  BY DEF NewSizes
<1> QED
  BY <1>2, <1>3, SizesAssumption DEF All, NoLimit, NewSizes

LEMMA LimitsType == ASSUME NEW c \in Configs PROVE SizeLimits(c) \in [min : NewSizes, max : NewSizes]
<1>1. /\ c.size \in NewSizes /\ c.min \in Limits /\ c.max \in Limits /\ c.resizable \in BOOLEAN
  BY DEF Configs
<1>2. \A a \in Axes : (IF c.min[a] = NoLimit THEN 1 ELSE c.min[a]) \in 1 .. MaxSize
  BY <1>1, NoSize DEF Limits
<1>3. \A a \in Axes : (IF c.max[a] = NoLimit THEN MaxSize ELSE c.max[a]) \in 1 .. MaxSize
  BY <1>1, NoSize DEF Limits
<1>4. [a \in Axes |-> IF c.min[a] = NoLimit THEN 1 ELSE c.min[a]] \in NewSizes
  BY <1>2 DEF NewSizes
<1>5. [a \in Axes |-> IF c.max[a] = NoLimit THEN MaxSize ELSE c.max[a]] \in NewSizes
  BY <1>3 DEF NewSizes
<1> QED
  BY <1>1, <1>4, <1>5 DEF SizeLimits

\* A size within the hints is in the limits.
LEMMA HintsAreLimits ==
  ASSUME NEW c \in Configs, Fits(c), NEW size \in NewSizes
  PROVE  /\ Within(c.size, SizeLimits(c))
         /\ Within(size, SizeLimits(c)) =>
              \A a \in Axes : size[a] = Constrain(size[a], c.min[a], c.max[a])
<1>1. /\ c.size \in NewSizes /\ c.min \in Limits /\ c.max \in Limits /\ c.resizable \in BOOLEAN
  BY DEF Configs
<1>2. \A a \in Axes : /\ c.size[a] \in 1 .. MaxSize /\ size[a] \in 1 .. MaxSize
                      /\ c.min[a] \in (1 .. MaxSize) \cup {NoLimit}
                      /\ c.max[a] \in (1 .. MaxSize) \cup {NoLimit}
  BY <1>1 DEF NewSizes, Limits
<1>3. CASE c.resizable
  <2>1. \A a \in Axes :
          /\ SizeLimits(c).min[a] = IF c.min[a] = NoLimit THEN 1 ELSE c.min[a]
          /\ SizeLimits(c).max[a] = IF c.max[a] = NoLimit THEN MaxSize ELSE c.max[a]
    BY <1>3 DEF SizeLimits
  <2> QED
    BY <1>2, <2>1, NoSize DEF Within, Fits, Constrain
<1>4. CASE ~c.resizable
  <2>1. SizeLimits(c).min = c.size /\ SizeLimits(c).max = c.size
    BY <1>4 DEF SizeLimits
  <2>2. ASSUME NEW a \in Axes, c.size[a] <= size[a], size[a] <= c.size[a]
        PROVE  size[a] = Constrain(size[a], c.min[a], c.max[a])
    <3>1. size[a] = c.size[a]
      BY <1>2, <2>2
    <3> QED
      BY <1>2, <3>1, NoSize DEF Fits, Constrain
  <2> QED
    BY <1>2, <2>1, <2>2 DEF Within
<1> QED
  BY <1>1, <1>3, <1>4

\* A setter keeps the invariant when the size the script is told is wanted then, or
\* is what it was and wanted if it was wanted.
LEMMA SetterKeeps ==
  ASSUME SizesInv, NEW w \in SizedWindows, NEW c \in Configs, NEW n \in Natives, Fits(c),
         Sets(w, c, n), n.unsettled, n.hints = SizeLimits(c),
         \/ Wanted(n, c)
         \/ /\ n.target = native[w].target
            /\ Wanted(native[w], config[w]) => Wanted(n, c)
  PROVE  SizesInv'
<1>1. /\ config' = [config EXCEPT ![w] = c]
      /\ native' = [native EXCEPT ![w] = IF Active(w) THEN n ELSE native[w]]
      /\ UNCHANGED <<life, oldSize, real, events>>
  BY DEF Sets, external
<1>2. SizesTypeOK /\ FirstOne /\ \A v \in SizedWindows : Fits(config[v]) /\ Known(v) /\ Told(v)
  BY DEF SizesInv
<1>3. SizesTypeOK'
  BY <1>1, <1>2 DEF SizesTypeOK
<1>4. \A v \in SizedWindows \ {w} : config'[v] = config[v] /\ native'[v] = native[v]
  BY <1>1, <1>2 DEF SizesTypeOK
<1>5. config'[w] = c /\ native'[w] = IF Active(w) THEN n ELSE native[w]
  BY <1>1, <1>2 DEF SizesTypeOK
<1>6. \A v \in SizedWindows : Active(v)' = Active(v) /\ Alone(v)' = Alone(v)
  BY <1>1 DEF Active, Alone
<1>7. FirstOne'
  BY <1>1, <1>2, <1>4, <1>5 DEF FirstOne, Unused, Active
<1>8. \A v \in SizedWindows : Fits(config[v])'
  BY <1>2, <1>4, <1>5 DEF Fits, Clashes
<1>9. \A v \in SizedWindows : Known(v)'
  BY <1>1, <1>2, <1>4, <1>5, <1>6 DEF Known
<1>10. ASSUME NEW v \in SizedWindows PROVE Told(v)'
  <2>1. CASE v # w
    <3>1. End(v)' = End(v) /\ Chain(v)' = Chain(v) /\ Unused' = Unused
      BY <1>1, <1>4, <2>1 DEF End, Chain, Unused
    <3> QED
      BY <1>1, <1>2, <1>4, <1>6, <2>1, <3>1 DEF Told
  <2>2. CASE v = w
    <3> SUFFICES ASSUME Alone(w), Active(w) PROVE Told(w)'
      BY <1>6, <2>2 DEF Told
    <3>1. Chain(w)' = Chain(w) /\ Unused' = Unused
      BY <1>1 DEF Chain, Unused
    <3>2. native'[w] = n /\ config'[w] = c
      BY <1>5
    <3>3. n.target = native[w].target => End(w)' = End(w)
      BY <1>1, <3>2 DEF End
    <3>4. /\ IF real[w] = All(0) THEN Unused /\ Wanted(native[w], config[w]) ELSE Chain(w)
          /\ End(w) = real[w] \/ Wanted(native[w], config[w])
      BY <1>2 DEF Told
    <3>5. /\ IF real[w] = All(0) THEN Unused' /\ Wanted(n, c) ELSE Chain(w)'
          /\ End(w)' = real[w] \/ Wanted(n, c)
      BY <3>1, <3>3, <3>4
    <3> QED
      BY <1>1, <3>2, <3>5 DEF Told
  <2> QED
    BY <2>1, <2>2
<1> QED
  BY <1>3, <1>7, <1>8, <1>9, <1>10 DEF SizesInv

\* SetupSize and SetupSizeLimits of a window with configuration c.
LEMMA SetupKeeps ==
  ASSUME NEW c \in Configs, Fits(c), NEW n \in Natives
  PROVE  /\ SetupSizeLimits(n, c) \in Natives /\ SetupSizeLimits(n, c).unsettled
         /\ SetupSizeLimits(n, c).hints = SizeLimits(c)
         /\ SetupSizeLimits(n, c).target = n.target /\ SetupSizeLimits(n, c).asked = n.asked
         /\ SetupSize(n, c) \in Natives /\ SetupSize(n, c).unsettled
         /\ n.hints = SizeLimits(c) =>
              SetupSize(n, c).hints = SizeLimits(c) /\ Wanted(SetupSize(n, c), c)
<1>1. /\ SizeLimits(c) \in [min : NewSizes, max : NewSizes] /\ Within(c.size, SizeLimits(c))
      /\ c.size \in NewSizes /\ c.resizable \in BOOLEAN
  <2>1. c.size \in NewSizes /\ c.resizable \in BOOLEAN
    BY DEF Configs
  <2> QED
    BY <2>1, LimitsType, HintsAreLimits
<1>2. /\ n.hints \in [min : NewSizes, max : NewSizes] /\ n.asked \in NewSizes \cup {All(0)}
      /\ n.target \in NewSizes \cup {All(NoLimit)} /\ n.unsettled \in BOOLEAN
  BY DEF Natives
<1> DEFINE m == SetupSizeLimits(n, c)
<1>3. m = [hints |-> SizeLimits(c), asked |-> n.asked, unsettled |-> TRUE, target |-> n.target]
  BY DEF SetupSizeLimits, AskSize
<1>4. SetupSize(n, c) =
        [hints |-> IF c.resizable THEN n.hints ELSE SizeLimits(c),
         asked |-> IF c.resizable THEN c.size ELSE n.asked,
         unsettled |-> TRUE, target |-> c.size]
  BY <1>1 DEF SetupSize, AskSize
<1>5. m \in Natives
  BY <1>1, <1>2, <1>3 DEF Natives
<1>6. SetupSize(n, c) \in Natives
  BY <1>1, <1>2, <1>4 DEF Natives
<1> QED
  BY <1>1, <1>3, <1>4, <1>5, <1>6 DEF Wanted

\* A value put between limits that do not clash is between them.
LEMMA ConstrainFits ==
  ASSUME NEW v \in 1 .. MaxSize, NEW min \in (1 .. MaxSize) \cup {NoLimit},
         NEW max \in (1 .. MaxSize) \cup {NoLimit},
         ~(min # NoLimit /\ max # NoLimit /\ min > max)
  PROVE  /\ Constrain(v, min, max) \in 1 .. MaxSize
         /\ min = NoLimit \/ min <= Constrain(v, min, max)
         /\ max = NoLimit \/ Constrain(v, min, max) <= max
BY NoSize DEF Constrain

\* What is known of a window before a setter.
LEMMA Before ==
  ASSUME SizesInv, NEW w \in SizedWindows
  PROVE  /\ config[w] \in Configs /\ native[w] \in Natives /\ Fits(config[w])
         /\ Active(w) => native[w].hints = SizeLimits(config[w])
         /\ config[w].size \in NewSizes /\ config[w].min \in Limits /\ config[w].max \in Limits
         /\ config[w].resizable \in BOOLEAN
         /\ \A a \in Axes : /\ config[w].size[a] \in 1 .. MaxSize
                            /\ config[w].min[a] \in (1 .. MaxSize) \cup {NoLimit}
                            /\ config[w].max[a] \in (1 .. MaxSize) \cup {NoLimit}
<1>1. config[w] \in Configs /\ native[w] \in Natives
  BY DEF SizesInv, SizesTypeOK
<1>2. Fits(config[w]) /\ (Active(w) => native[w].hints = SizeLimits(config[w]))
  BY DEF SizesInv, Known
<1>3. config[w].size \in NewSizes /\ config[w].min \in Limits /\ config[w].max \in Limits
      /\ config[w].resizable \in BOOLEAN
  BY <1>1 DEF Configs
<1> QED
  BY <1>1, <1>2, <1>3 DEF NewSizes, Limits

\* A window that is not active: only its configuration changes.
LEMMA ConfigKeeps ==
  ASSUME SizesInv, NEW w \in SizedWindows, ~Active(w), NEW c \in Configs, NEW n, Fits(c),
         Sets(w, c, n)
  PROVE  SizesInv'
<1>1. /\ config' = [config EXCEPT ![w] = c] /\ native' = [native EXCEPT ![w] = native[w]]
      /\ UNCHANGED <<life, oldSize, real, events>>
  BY DEF Sets, external
<1>2. SizesTypeOK /\ FirstOne /\ \A v \in SizedWindows : Fits(config[v]) /\ Known(v) /\ Told(v)
  BY DEF SizesInv
<1>3. SizesTypeOK' /\ native' = native /\ config'[w] = c
      /\ \A v \in SizedWindows \ {w} : config'[v] = config[v]
  BY <1>1, <1>2 DEF SizesTypeOK
<1>4. \A v \in SizedWindows :
        /\ Active(v)' = Active(v) /\ Alone(v)' = Alone(v) /\ End(v)' = End(v)
        /\ Chain(v)' = Chain(v) /\ Unused' = Unused
  BY <1>1, <1>3 DEF Active, Alone, End, Chain, Unused
<1>5. FirstOne'
  BY <1>1, <1>2, <1>3 DEF FirstOne, Unused
<1>6. \A v \in SizedWindows : Fits(config[v])'
  BY <1>2, <1>3 DEF Fits, Clashes
<1>7. \A v \in SizedWindows : Known(v)' /\ Told(v)'
  BY <1>1, <1>2, <1>3, <1>4 DEF Known, Told
<1> QED
  BY <1>3, <1>5, <1>6, <1>7 DEF SizesInv

\* A setter that changes the size: SetupSize makes it the one that is wanted.
LEMMA SizeKeeps ==
  ASSUME SizesInv, NEW w \in SizedWindows, NEW size \in NewSizes,
         Sets(w, [config[w] EXCEPT !.size = size],
                 SetupSize(native[w], [config[w] EXCEPT !.size = size])),
         Fits([config[w] EXCEPT !.size = size])
  PROVE  SizesInv'
<1> DEFINE c == [config[w] EXCEPT !.size = size]
           n == SetupSize(native[w], c)
<1>1. /\ config[w] \in Configs /\ native[w] \in Natives
      /\ Active(w) => native[w].hints = SizeLimits(config[w])
  BY Before
<1>2. /\ c \in Configs
      /\ config[w].resizable => SizeLimits(c) = SizeLimits(config[w])
      /\ c.resizable = config[w].resizable
  BY <1>1 DEF Configs, SizeLimits
<1>3. n \in Natives /\ n.unsettled
  BY <1>1, <1>2, SetupKeeps
<1>4. CASE Active(w)
  <2>1. n.hints = SizeLimits(c) /\ Wanted(n, c)
    <3>1. CASE c.resizable
      BY <1>1, <1>2, <1>4, <3>1, SetupKeeps
    <3>2. CASE ~c.resizable
      <4>2. n.hints = SizeLimits(c) /\ n.target = c.size
        BY <3>2 DEF SetupSize, AskSize
      <4>3. c.size \in NewSizes /\ Within(c.size, SizeLimits(c))
        BY <1>2, HintsAreLimits DEF Configs
      <4> QED
        BY <1>3, <3>2, <4>2, <4>3 DEF Wanted
    <3> QED
      BY <3>1, <3>2
  <2> HIDE DEF c, n
  <2> QED
    BY <1>2, <1>3, <2>1, SetterKeeps DEF c, n
<1>5. CASE ~Active(w)
  BY <1>2, <1>5, ConfigKeeps
<1> QED
  BY <1>4, <1>5

\* A setter of limits: the window is only resized when it has to be.
LEMMA LimitKeeps ==
  ASSUME SizesInv, NEW w \in SizedWindows, NEW c \in Configs, Fits(c),
         c.resizable = config[w].resizable, NEW b \in BOOLEAN,
         Sets(w, c, IF b THEN SetupSize(SetupSizeLimits(native[w], c), c)
                    ELSE SetupSizeLimits(native[w], c)),
         /\ ~b /\ native[w].target \in NewSizes
         /\ Within(native[w].target, SizeLimits(config[w]))
         /\ ~c.resizable => native[w].target = config[w].size
         => Within(native[w].target, SizeLimits(c)) /\ (~c.resizable => c.size = config[w].size)
  PROVE  SizesInv'
<1> DEFINE m == SetupSizeLimits(native[w], c)
           n == IF b THEN SetupSize(m, c) ELSE m
<1>1. /\ config[w] \in Configs /\ native[w] \in Natives
      /\ Active(w) => native[w].hints = SizeLimits(config[w])
  BY Before
<1>2. /\ m \in Natives /\ m.unsettled /\ m.hints = SizeLimits(c)
      /\ m.target = native[w].target /\ m.asked = native[w].asked
  BY <1>1, SetupKeeps
<1>3. SetupSize(m, c) \in Natives /\ SetupSize(m, c).unsettled
      /\ SetupSize(m, c).hints = SizeLimits(c) /\ Wanted(SetupSize(m, c), c)
  <2> HIDE DEF m
  <2> QED
    BY <1>2, SetupKeeps
<1>4. n \in Natives /\ n.unsettled /\ n.hints = SizeLimits(c)
  BY <1>2, <1>3
<1>5. CASE Active(w)
  <2>1. ASSUME ~b, Wanted(native[w], config[w]) PROVE Wanted(m, c)
    <3>1. /\ native[w].target \in NewSizes /\ Within(native[w].target, SizeLimits(config[w]))
          /\ IF c.resizable THEN native[w].asked = native[w].target
             ELSE native[w].target = config[w].size
      BY <1>1, <1>5, <2>1 DEF Wanted
    <3>2. c.resizable \in BOOLEAN
      BY DEF Configs
    <3> HIDE DEF m
    <3> QED
      BY <1>2, <2>1, <3>1, <3>2 DEF Wanted
  <2>2. Wanted(n, c) \/ (n.target = native[w].target /\ (Wanted(native[w], config[w]) => Wanted(n, c)))
    BY <1>2, <1>3, <2>1
  <2>3. Sets(w, c, n)
    OBVIOUS
  <2> HIDE DEF n
  <2> QED
    BY <1>4, <2>2, <2>3, SetterKeeps
<1>6. CASE ~Active(w)
  BY <1>6, ConfigKeeps
<1> QED
  BY <1>5, <1>6

LEMMA SetSizeKeeps ==
  ASSUME SizesInv, NEW w \in SizedWindows, NEW a \in Axes, NEW v \in 1 .. MaxSize, SetSize(w, a, v)
  PROVE  SizesInv'
<1> DEFINE x == Constrain(v, config[w].min[a], config[w].max[a])
           size == [config[w].size EXCEPT ![a] = x]
           c == [config[w] EXCEPT !.size = size]
<1>1. /\ config[w] \in Configs /\ Fits(config[w]) /\ config[w].size \in NewSizes
      /\ config[w].min[a] \in (1 .. MaxSize) \cup {NoLimit}
      /\ config[w].max[a] \in (1 .. MaxSize) \cup {NoLimit}
  BY Before
<1>2. /\ x \in 1 .. MaxSize
      /\ config[w].min[a] = NoLimit \/ config[w].min[a] <= x
      /\ config[w].max[a] = NoLimit \/ x <= config[w].max[a]
  <2>1. ~(config[w].min[a] # NoLimit /\ config[w].max[a] # NoLimit /\ config[w].min[a] > config[w].max[a])
    BY <1>1 DEF Fits, Clashes
  <2> QED
    BY <1>1, <2>1, ConstrainFits
<1>3. Sets(w, c, SetupSize(native[w], c))
  BY DEF SetSize
<1> HIDE DEF x
<1>4. /\ size \in NewSizes /\ size[a] = x
      /\ \A o \in Axes \ {a} : size[o] = config[w].size[o]
  BY <1>1, <1>2 DEF NewSizes
<1> HIDE DEF size
<1>5. c.size = size /\ c.min = config[w].min /\ c.max = config[w].max
  BY <1>1 DEF Configs
<1>6. Fits(c)
  BY <1>1, <1>2, <1>4, <1>5 DEF Fits, Clashes
<1> QED
  BY <1>3, <1>4, <1>6, SizeKeeps

LEMMA SetBoundsKeeps ==
  ASSUME SizesInv, NEW w \in SizedWindows, NEW s \in NewSizes, SetBounds(w, s)
  PROVE  SizesInv'
<1> DEFINE x(a) == Constrain(s[a], config[w].min[a], config[w].max[a])
           size == [a \in Axes |-> x(a)]
           c == [config[w] EXCEPT !.size = size]
<1>1. /\ config[w] \in Configs /\ Fits(config[w])
      /\ \A a \in Axes : /\ config[w].min[a] \in (1 .. MaxSize) \cup {NoLimit}
                         /\ config[w].max[a] \in (1 .. MaxSize) \cup {NoLimit}
                         /\ s[a] \in 1 .. MaxSize
  BY Before DEF NewSizes
<1>2. \A a \in Axes : /\ x(a) \in 1 .. MaxSize
                      /\ config[w].min[a] = NoLimit \/ config[w].min[a] <= x(a)
                      /\ config[w].max[a] = NoLimit \/ x(a) <= config[w].max[a]
  <2>1. \A a \in Axes : ~(/\ config[w].min[a] # NoLimit /\ config[w].max[a] # NoLimit
                         /\ config[w].min[a] > config[w].max[a])
    BY <1>1 DEF Fits, Clashes
  <2> QED
    BY <1>1, <2>1, ConstrainFits
<1>3. Sets(w, c, SetupSize(native[w], c))
  BY DEF SetBounds
<1> HIDE DEF x
<1>4. size \in NewSizes /\ \A a \in Axes : size[a] = x(a)
  BY <1>2 DEF NewSizes
<1> HIDE DEF size
<1>5. c.size = size /\ c.min = config[w].min /\ c.max = config[w].max
  BY <1>1 DEF Configs
<1>6. Fits(c)
  BY <1>1, <1>2, <1>4, <1>5 DEF Fits, Clashes
<1> QED
  BY <1>3, <1>4, <1>6, SizeKeeps

LEMMA SetResizableKeeps ==
  ASSUME SizesInv, NEW w \in SizedWindows, NEW b \in BOOLEAN, SetResizable(w, b)
  PROVE  SizesInv'
<1> DEFINE c == [config[w] EXCEPT !.resizable = b]
           n == SetupSizeLimits(native[w], c)
<1>1. config[w] \in Configs /\ native[w] \in Natives /\ Fits(config[w])
  BY Before
<1>2. /\ c \in Configs /\ c.size = config[w].size /\ c.min = config[w].min
      /\ c.max = config[w].max
  BY <1>1 DEF Configs
<1>3. Fits(c)
  BY <1>1, <1>2 DEF Fits, Clashes
<1>4. Sets(w, c, n) /\ ~native[w].unsettled
  BY DEF SetResizable
<1> HIDE DEF c
<1>5. n \in Natives /\ n.unsettled /\ n.hints = SizeLimits(c) /\ n.target = native[w].target
  BY <1>1, <1>2, <1>3, SetupKeeps
<1>6. ~Wanted(native[w], config[w])
  BY <1>4 DEF Wanted
<1> HIDE DEF n
<1> QED
  BY <1>2, <1>3, <1>4, <1>5, <1>6, SetterKeeps

LEMMA SetMinKeeps ==
  ASSUME SizesInv, NEW w \in SizedWindows, NEW a \in Axes, NEW m \in 0 .. MaxSize, SetMinSize(w, a, m)
  PROVE  SizesInv'
<1> DEFINE l == Limit(m)
           low(s) == l # NoLimit /\ s < l
           c == [config[w] EXCEPT !.min[a] = l, !.size[a] = IF low(@) THEN l ELSE @]
           n == SetupSizeLimits(native[w], c)
           b == low(native[w].target[a])
           old == config[w]
           t == native[w].target
<1>1. /\ old \in Configs /\ native[w] \in Natives /\ Fits(old)
      /\ old.size \in NewSizes /\ old.min \in Limits /\ old.max \in Limits
      /\ old.resizable \in BOOLEAN
      /\ \A o \in Axes : /\ old.size[o] \in 1 .. MaxSize
                         /\ old.min[o] \in (1 .. MaxSize) \cup {NoLimit}
                         /\ old.max[o] \in (1 .. MaxSize) \cup {NoLimit}
  BY Before
<1>2. l \in (1 .. MaxSize) \cup {NoLimit} /\ MaxSize \in Nat
  BY SizesAssumption DEF Limit
<1>3. Sets(w, c, IF b THEN SetupSize(n, c) ELSE n)
  <2>1. n.target = native[w].target
    BY DEF SetupSizeLimits, AskSize
  <2>2. Sets(w, c, IF low(n.target[a]) THEN SetupSize(n, c) ELSE n)
    BY DEF SetMinSize
  <2> QED
    BY <2>1, <2>2
<1> HIDE DEF l
<1>4. /\ c.min = [old.min EXCEPT ![a] = l] /\ c.max = old.max
      /\ c.size = [old.size EXCEPT ![a] = IF low(old.size[a]) THEN l ELSE old.size[a]]
      /\ c.resizable = old.resizable
      /\ c = [size |-> c.size, min |-> c.min, max |-> c.max, resizable |-> c.resizable]
  <2>1. PICK x : x = IF low(old.size[a]) THEN l ELSE old.size[a]
    OBVIOUS
  <2>2. c = [old EXCEPT !.min[a] = l, !.size[a] = x]
    BY <2>1
  <2> HIDE DEF c, old
  <2>3. PICK sz, mi, ma, re :
          old = [size |-> sz, min |-> mi, max |-> ma, resizable |-> re]
    BY <1>1 DEF Configs
  <2>4. c = [[old EXCEPT !.min = [old.min EXCEPT ![a] = l]]
               EXCEPT !.size = [old.size EXCEPT ![a] = x]]
    BY <2>2, <2>3
  <2> QED
    BY <2>1, <2>3, <2>4
<1>5. /\ c.min \in Limits /\ c.size \in NewSizes /\ c.min[a] = l
      /\ c.size[a] = IF low(old.size[a]) THEN l ELSE old.size[a]
      /\ \A o \in Axes \ {a} : c.min[o] = old.min[o] /\ c.size[o] = old.size[o]
  BY <1>1, <1>2, <1>4, NoSize DEF Limits, NewSizes
<1>6. c \in Configs
  BY <1>1, <1>4, <1>5 DEF Configs
<1>7. ~Clashes(c)
  BY <1>3 DEF Sets
<1> HIDE DEF c
<1>8. Fits(c)
  <2>1. ASSUME NEW o \in Axes, o # a
        PROVE  /\ c.min[o] = NoLimit \/ c.min[o] <= c.size[o]
               /\ c.max[o] = NoLimit \/ c.size[o] <= c.max[o]
    BY <1>1, <1>4, <1>5, <2>1 DEF Fits
  <2>2. c.min[a] = NoLimit \/ c.max[a] = NoLimit \/ c.min[a] <= c.max[a]
    <3>1. c.min[a] \in (1 .. MaxSize) \cup {NoLimit} /\ c.max[a] \in (1 .. MaxSize) \cup {NoLimit}
      BY <1>1, <1>2, <1>4, <1>5
    <3> QED
      BY <1>2, <1>7, <3>1, NoSize DEF Clashes
  <2>3. old.size[a] \in 1 .. MaxSize /\ (old.max[a] = NoLimit \/ old.size[a] <= old.max[a])
        /\ old.max[a] \in (1 .. MaxSize) \cup {NoLimit} /\ c.max[a] = old.max[a]
    BY <1>1, <1>4 DEF Fits
  <2>4. CASE low(old.size[a])
    <3>1. c.size[a] = l /\ c.min[a] = l
      BY <1>5, <2>4
    <3> QED
      BY <1>2, <1>7, <2>1, <2>2, <2>3, <2>4, <3>1, NoSize DEF Fits
  <2>5. CASE ~low(old.size[a])
    <3>1. c.size[a] = old.size[a] /\ c.min[a] = l
      BY <1>5, <2>5
    <3> QED
      BY <1>2, <1>7, <2>1, <2>3, <2>5, <3>1, NoSize DEF Fits
  <2> QED
    BY <2>4, <2>5
<1>9. ASSUME ~b, t \in NewSizes, Within(t, SizeLimits(old)),
             ~c.resizable => t = old.size
      PROVE  Within(t, SizeLimits(c)) /\ (~c.resizable => c.size = old.size)
  <2>1. \A o \in Axes : t[o] \in 1 .. MaxSize
    BY <1>9 DEF NewSizes
  <2>2. CASE c.resizable
    <3>1. \A o \in Axes :
            /\ SizeLimits(c).min[o] = IF c.min[o] = NoLimit THEN 1 ELSE c.min[o]
            /\ SizeLimits(c).max[o] = IF c.max[o] = NoLimit THEN MaxSize ELSE c.max[o]
            /\ SizeLimits(old).min[o] = IF old.min[o] = NoLimit THEN 1 ELSE old.min[o]
            /\ SizeLimits(old).max[o] = IF old.max[o] = NoLimit THEN MaxSize ELSE old.max[o]
      BY <1>4, <2>2 DEF SizeLimits
    <3>2. \A o \in Axes : SizeLimits(old).min[o] <= t[o] /\ t[o] <= SizeLimits(old).max[o]
      BY <1>9 DEF Within
    <3>3. l # NoLimit => ~(t[a] < l)
      BY <1>9
    <3>4. ASSUME NEW o \in Axes PROVE SizeLimits(c).min[o] <= t[o] /\ t[o] <= SizeLimits(c).max[o]
      BY <1>1, <1>2, <1>4, <1>5, <2>1, <3>1, <3>2, <3>3, NoSize
    <3> QED
      BY <2>2, <3>4 DEF Within
  <2>3. CASE ~c.resizable
    <3>1. t = old.size /\ ~low(old.size[a])
      BY <1>9, <2>3
    <3>2. c.size = old.size
      BY <1>1, <1>4, <3>1 DEF NewSizes
    <3>3. SizeLimits(c) = SizeLimits(old)
      BY <1>4, <2>3, <3>2 DEF SizeLimits
    <3> QED
      BY <1>9, <3>2, <3>3
  <2> QED
    BY <2>2, <2>3
<1>10. b \in BOOLEAN
  OBVIOUS
<1> HIDE DEF b
<1> QED
  BY <1>3, <1>4, <1>6, <1>8, <1>9, <1>10, LimitKeeps

LEMMA SetMaxKeeps ==
  ASSUME SizesInv, NEW w \in SizedWindows, NEW a \in Axes, NEW m \in 0 .. MaxSize, SetMaxSize(w, a, m)
  PROVE  SizesInv'
<1> DEFINE l == Limit(m)
           high(s) == l # NoLimit /\ s > l
           c == [config[w] EXCEPT !.max[a] = l, !.size[a] = IF high(@) THEN l ELSE @]
           n == SetupSizeLimits(native[w], c)
           b == high(native[w].target[a])
           old == config[w]
           t == native[w].target
<1>1. /\ old \in Configs /\ native[w] \in Natives /\ Fits(old)
      /\ old.size \in NewSizes /\ old.min \in Limits /\ old.max \in Limits
      /\ old.resizable \in BOOLEAN
      /\ \A o \in Axes : /\ old.size[o] \in 1 .. MaxSize
                         /\ old.min[o] \in (1 .. MaxSize) \cup {NoLimit}
                         /\ old.max[o] \in (1 .. MaxSize) \cup {NoLimit}
  BY Before
<1>2. l \in (1 .. MaxSize) \cup {NoLimit} /\ MaxSize \in Nat
  BY SizesAssumption DEF Limit
<1>3. Sets(w, c, IF b THEN SetupSize(n, c) ELSE n)
  <2>1. n.target = native[w].target
    BY DEF SetupSizeLimits, AskSize
  <2>2. Sets(w, c, IF high(n.target[a]) THEN SetupSize(n, c) ELSE n)
    BY DEF SetMaxSize
  <2> QED
    BY <2>1, <2>2
<1> HIDE DEF l
<1>4. /\ c.max = [old.max EXCEPT ![a] = l] /\ c.min = old.min
      /\ c.size = [old.size EXCEPT ![a] = IF high(old.size[a]) THEN l ELSE old.size[a]]
      /\ c.resizable = old.resizable
      /\ c = [size |-> c.size, min |-> c.min, max |-> c.max, resizable |-> c.resizable]
  <2>1. PICK x : x = IF high(old.size[a]) THEN l ELSE old.size[a]
    OBVIOUS
  <2>2. c = [old EXCEPT !.max[a] = l, !.size[a] = x]
    BY <2>1
  <2> HIDE DEF c, old
  <2>3. PICK sz, mi, ma, re :
          old = [size |-> sz, min |-> mi, max |-> ma, resizable |-> re]
    BY <1>1 DEF Configs
  <2>4. c = [[old EXCEPT !.max = [old.max EXCEPT ![a] = l]]
               EXCEPT !.size = [old.size EXCEPT ![a] = x]]
    BY <2>2, <2>3
  <2> QED
    BY <2>1, <2>3, <2>4
<1>5. /\ c.max \in Limits /\ c.size \in NewSizes /\ c.max[a] = l
      /\ c.size[a] = IF high(old.size[a]) THEN l ELSE old.size[a]
      /\ \A o \in Axes \ {a} : c.max[o] = old.max[o] /\ c.size[o] = old.size[o]
  BY <1>1, <1>2, <1>4, NoSize DEF Limits, NewSizes
<1>6. c \in Configs
  BY <1>1, <1>4, <1>5 DEF Configs
<1>7. ~Clashes(c)
  BY <1>3 DEF Sets
<1> HIDE DEF c
<1>8. Fits(c)
  <2>1. ASSUME NEW o \in Axes, o # a
        PROVE  /\ c.min[o] = NoLimit \/ c.min[o] <= c.size[o]
               /\ c.max[o] = NoLimit \/ c.size[o] <= c.max[o]
    BY <1>1, <1>4, <1>5, <2>1 DEF Fits
  <2>2. c.min[a] = NoLimit \/ c.max[a] = NoLimit \/ c.min[a] <= c.max[a]
    <3>1. c.min[a] \in (1 .. MaxSize) \cup {NoLimit} /\ c.max[a] \in (1 .. MaxSize) \cup {NoLimit}
      BY <1>1, <1>2, <1>4, <1>5
    <3> QED
      BY <1>2, <1>7, <3>1, NoSize DEF Clashes
  <2>3. old.size[a] \in 1 .. MaxSize /\ (old.min[a] = NoLimit \/ old.min[a] <= old.size[a])
        /\ old.min[a] \in (1 .. MaxSize) \cup {NoLimit} /\ c.min[a] = old.min[a]
    BY <1>1, <1>4 DEF Fits
  <2>4. CASE high(old.size[a])
    <3>1. c.size[a] = l /\ c.max[a] = l
      BY <1>5, <2>4
    <3> QED
      BY <1>2, <1>7, <2>1, <2>2, <2>3, <2>4, <3>1, NoSize DEF Fits
  <2>5. CASE ~high(old.size[a])
    <3>1. c.size[a] = old.size[a] /\ c.max[a] = l
      BY <1>5, <2>5
    <3> QED
      BY <1>2, <1>7, <2>1, <2>3, <2>5, <3>1, NoSize DEF Fits
  <2> QED
    BY <2>4, <2>5
<1>9. ASSUME ~b, t \in NewSizes, Within(t, SizeLimits(old)),
             ~c.resizable => t = old.size
      PROVE  Within(t, SizeLimits(c)) /\ (~c.resizable => c.size = old.size)
  <2>1. \A o \in Axes : t[o] \in 1 .. MaxSize
    BY <1>9 DEF NewSizes
  <2>2. CASE c.resizable
    <3>1. \A o \in Axes :
            /\ SizeLimits(c).min[o] = IF c.min[o] = NoLimit THEN 1 ELSE c.min[o]
            /\ SizeLimits(c).max[o] = IF c.max[o] = NoLimit THEN MaxSize ELSE c.max[o]
            /\ SizeLimits(old).min[o] = IF old.min[o] = NoLimit THEN 1 ELSE old.min[o]
            /\ SizeLimits(old).max[o] = IF old.max[o] = NoLimit THEN MaxSize ELSE old.max[o]
      BY <1>4, <2>2 DEF SizeLimits
    <3>2. \A o \in Axes : SizeLimits(old).min[o] <= t[o] /\ t[o] <= SizeLimits(old).max[o]
      BY <1>9 DEF Within
    <3>3. l # NoLimit => ~(t[a] > l)
      BY <1>9
    <3>4. ASSUME NEW o \in Axes PROVE SizeLimits(c).min[o] <= t[o] /\ t[o] <= SizeLimits(c).max[o]
      BY <1>1, <1>2, <1>4, <1>5, <2>1, <3>1, <3>2, <3>3, NoSize
    <3> QED
      BY <2>2, <3>4 DEF Within
  <2>3. CASE ~c.resizable
    <3>1. t = old.size /\ ~high(old.size[a])
      BY <1>9, <2>3
    <3>2. c.size = old.size
      BY <1>1, <1>4, <3>1 DEF NewSizes
    <3>3. SizeLimits(c) = SizeLimits(old)
      BY <1>4, <2>3, <3>2 DEF SizeLimits
    <3> QED
      BY <1>9, <3>2, <3>3
  <2> QED
    BY <2>2, <2>3
<1>10. b \in BOOLEAN
  OBVIOUS
<1> HIDE DEF b
<1> QED
  BY <1>3, <1>4, <1>6, <1>8, <1>9, <1>10, LimitKeeps

-----------------------------------------------------------------------------
(* Windows open, close and are resized, and events are handled.            *)

LEMMA OpenKeeps == ASSUME SizesInv, NEW w \in SizedWindows, OpenSized(w) PROVE SizesInv'
<1> DEFINE c == config[w]
           m == SetupSize(native[w], c)
           n == SetupSizeLimits(m, c)
<1>1. /\ life[w] = "new" /\ life' = [life EXCEPT ![w] = "open"]
      /\ native' = [native EXCEPT ![w] = n]
      /\ UNCHANGED <<config, oldSize, real, events>>
  BY DEF OpenSized, external
<1>2. SizesTypeOK /\ FirstOne /\ \A v \in SizedWindows : Fits(config[v]) /\ Known(v) /\ Told(v)
  BY DEF SizesInv
<1>3. c \in Configs /\ native[w] \in Natives /\ Fits(c)
  BY Before
<1>4. m \in Natives /\ m.target = c.size /\ (c.resizable => m.asked = c.size)
  BY <1>3, SetupKeeps DEF SetupSize, AskSize
<1>5. c.size \in NewSizes /\ Within(c.size, SizeLimits(c))
  BY <1>3, HintsAreLimits DEF Configs
<1> HIDE DEF m
<1>6. /\ n \in Natives /\ n.unsettled /\ n.hints = SizeLimits(c) /\ n.target = c.size
      /\ c.resizable => n.asked = c.size
  BY <1>3, <1>4, SetupKeeps
<1> HIDE DEF n
<1>7. Wanted(n, c)
  BY <1>5, <1>6 DEF Wanted
<1>8. /\ native'[w] = n /\ life'[w] = "open" /\ config' = config
      /\ \A v \in SizedWindows \ {w} : native'[v] = native[v] /\ life'[v] = life[v]
  BY <1>1, <1>2 DEF SizesTypeOK
<1>9. SizesTypeOK'
  BY <1>1, <1>2, <1>6 DEF SizesTypeOK
<1>10. FirstOne'
  BY <1>1, <1>2, <1>8 DEF FirstOne, Unused
<1>11. \A v \in SizedWindows : Fits(config[v])'
  BY <1>1, <1>2
<1>12. \A v \in SizedWindows : Known(v)'
  BY <1>1, <1>2, <1>6, <1>8 DEF Known, Active
<1>13. ASSUME NEW v \in SizedWindows, Alone(v)', Active(v)' PROVE v = w
  BY <1>8, <1>13 DEF Alone
<1>14. Alone(w)' => Unused /\ real[w] = All(0)
  BY <1>1, <1>2, <1>8 DEF Alone, FirstOne
<1>15. Told(w)'
  BY <1>1, <1>7, <1>8, <1>14 DEF Told, Unused
<1> QED
  BY <1>9, <1>10, <1>11, <1>12, <1>13, <1>15 DEF SizesInv, Told

LEMMA CloseKeeps == ASSUME SizesInv, NEW w \in SizedWindows, CloseSized(w) PROVE SizesInv'
<1>1. /\ life[w] = "open" /\ life' = [life EXCEPT ![w] = "closed"]
      /\ UNCHANGED <<config, native, oldSize, real, events>>
  BY DEF CloseSized, Active, external
<1>2. SizesTypeOK /\ FirstOne /\ \A v \in SizedWindows : Fits(config[v]) /\ Known(v) /\ Told(v)
  BY DEF SizesInv
<1>3. life'[w] = "closed" /\ \A v \in SizedWindows \ {w} : life'[v] = life[v]
  BY <1>1, <1>2 DEF SizesTypeOK
<1>4. SizesTypeOK' /\ FirstOne'
  BY <1>1, <1>2, <1>3 DEF SizesTypeOK, FirstOne, Unused
<1>5. \A v \in SizedWindows : ~(Alone(v)' /\ Active(v)')
  BY <1>3 DEF Alone, Active
<1>6. \A v \in SizedWindows : Fits(config[v])' /\ Known(v)' /\ Told(v)'
  BY <1>1, <1>2, <1>3, <1>5 DEF Known, Told, Active
<1> QED
  BY <1>4, <1>6 DEF SizesInv

\* The only window is resized: the event tells another size than the one before.
LEMMA ChainGrows ==
  ASSUME SizesTypeOK, NEW w \in SizedWindows, NEW size \in NewSizes, Resized(w, size),
         oldSize' = oldSize,
         IF real[w] = All(0) THEN Unused ELSE Chain(w)
  PROVE  Chain(w)' /\ (size # real[w] => events' # <<>> /\ (real[w] # All(0) =>
                         ~(oldSize = All(NoLimit) /\ Len(events') = 1)))
<1> DEFINE e == [win |-> w, size |-> size]
<1>1. /\ real'[w] = size /\ events \in Seq([win : SizedWindows, size : NewSizes])
      /\ events' = IF size = real[w] THEN events ELSE Append(events, e)
  BY DEF Resized, SizesTypeOK
<1>2. CASE size = real[w]
  BY <1>1, <1>2, NoSize DEF Chain
<1>3. CASE size # real[w]
  <2>1. /\ events' = Append(events, e) /\ Len(events') = Len(events) + 1
        /\ events'[Len(events) + 1] = e /\ e.size = size /\ e.win = w
        /\ \A i \in 1 .. Len(events) : events'[i] = events[i]
        /\ Len(events) \in Nat /\ DOMAIN events' = 1 .. Len(events) + 1
        /\ DOMAIN events = 1 .. Len(events)
    BY <1>1, <1>3
  <2>2. CASE events = <<>>
    <3>1. oldSize # size /\ (real[w] # All(0) => oldSize # All(NoLimit))
      <4>1. CASE real[w] = All(0)
        BY <4>1, NoSize DEF Unused
      <4>2. CASE real[w] # All(0)
        <5>1. oldSize = real[w] /\ real[w] \in NewSizes
          BY <2>2, <4>2 DEF Chain, SizesTypeOK
        <5> QED
          BY <1>3, <5>1, NoSize
      <4> QED
        BY <4>1, <4>2
    <3>2. Len(events) = 0
      BY <2>2
    <3> HIDE DEF e
    <3> QED
      BY <1>1, <2>1, <3>1, <3>2 DEF Chain
  <2>3. CASE events # <<>>
    <3>1. /\ real[w] # All(0) /\ Chain(w) /\ Len(events) >= 1
      BY <2>1, <2>3 DEF Unused
    <3> HIDE DEF e
    <3>2. \A i \in DOMAIN events' : events'[i].win = w
      BY <2>1, <3>1 DEF Chain
    <3>3. \A i \in 1 .. Len(events') - 1 : events'[i].size # events'[i + 1].size
      <4> SUFFICES ASSUME NEW i \in 1 .. Len(events) PROVE events'[i].size # events'[i + 1].size
        BY <2>1
      <4>1. CASE i = Len(events)
        BY <1>3, <2>1, <2>3, <3>1, <4>1 DEF Chain
      <4>2. CASE i # Len(events)
        <5>1. i \in 1 .. Len(events) - 1 /\ i + 1 \in 1 .. Len(events)
          <6>1. Len(events) \in Nat
            BY <2>1
          <6> QED
            BY <4>2, <6>1
        <5>2. events'[i] = events[i] /\ events'[i + 1] = events[i + 1]
          BY <2>1, <5>1
        <5>3. events[i].size # events[i + 1].size
          BY <2>3, <3>1, <5>1 DEF Chain
        <5> QED
          BY <5>2, <5>3
      <4> QED
        BY <4>1, <4>2
    <3>4. events'[1].size # oldSize /\ events'[Len(events')].size = size /\ events' # <<>>
      BY <2>1, <2>3, <3>1 DEF Chain
    <3> QED
      BY <1>1, <2>1, <3>1, <3>2, <3>3, <3>4 DEF Chain
  <2> QED
    BY <2>2, <2>3
<1> QED
  BY <1>2, <1>3

\* The only window is resized, and the size its script is told follows, or it is wanted.
LEMMA TargetFollows ==
  ASSUME SizesTypeOK, NEW w \in SizedWindows, NEW size \in NewSizes, Resized(w, size),
         oldSize' = oldSize, Told(w), Alone(w), Active(w), native'[w].target = native[w].target,
         \/ native' = native /\ config' = config /\ real[w] # All(0)
         \/ Wanted(native[w], config[w]) => size = native[w].target
  PROVE  /\ Chain(w)'
         /\ End(w)' = size \/ (Wanted(native[w], config[w]) /\ native' = native)
<1>1. /\ real'[w] = size /\ real[w] \in NewSizes \cup {All(0)}
      /\ size = real[w] => events' = events
  BY DEF Resized, SizesTypeOK
<1>2. /\ IF real[w] = All(0) THEN Unused ELSE Chain(w)
      /\ End(w) = real[w] \/ Wanted(native[w], config[w])
      /\ real[w] = All(0) => Wanted(native[w], config[w])
  BY DEF Told
<1>3. Chain(w)' /\ (size # real[w] => events' # <<>> /\ (real[w] # All(0) =>
                      ~(oldSize = All(NoLimit) /\ Len(events') = 1)))
  BY <1>2, ChainGrows
<1>4. CASE size = real[w]
  <2>1. End(w)' = End(w)
    BY <1>1, <1>4 DEF End
  <2>2. real[w] # All(0)
    BY <1>4, NoSize
  <2>3. CASE End(w) = real[w]
    BY <1>3, <1>4, <2>1, <2>3
  <2>4. CASE Wanted(native[w], config[w]) /\ size = native[w].target
    BY <1>1, <1>3, <1>4, <2>1, <2>4 DEF End
  <2> QED
    BY <1>2, <1>3, <2>3, <2>4, <2>2
<1>5. CASE size # real[w] /\ real[w] # All(0)
  <2>1. End(w)' = real'[w]
    BY <1>3, <1>5 DEF End
  <2> QED
    BY <1>1, <1>3, <2>1
<1>6. CASE size # real[w] /\ real[w] = All(0)
  <2>1. size = native'[w].target
    BY <1>2, <1>6
  <2> QED
    BY <1>1, <1>3, <2>1 DEF End
<1> QED
  BY <1>4, <1>5, <1>6

\* A resize keeps the invariant: by GTK, which gives the size that is wanted, or by the
\* user, who cannot leave the limits once GTK has settled.
LEMMA ResizeKeeps ==
  ASSUME SizesInv, NEW w \in SizedWindows, NEW size \in NewSizes, NEW n \in Natives,
         Active(w), Resized(w, size), UNCHANGED <<life, config, oldSize>>,
         native' = [native EXCEPT ![w] = n],
         n.hints = native[w].hints, n.target = native[w].target,
         ~n.unsettled => Within(size, n.hints) /\ n.asked = All(0),
         \/ n = native[w] /\ real[w] # All(0)
         \/ Wanted(native[w], config[w]) => size = native[w].target
  PROVE  SizesInv'
<1>1. /\ native'[w] = n /\ \A v \in SizedWindows \ {w} : native'[v] = native[v]
      /\ real'[w] = size /\ \A v \in SizedWindows \ {w} : real'[v] = real[v]
      /\ \A v \in SizedWindows : Active(v)' = Active(v) /\ Alone(v)' = Alone(v)
      /\ life[w] = "open"
  BY DEF SizesInv, SizesTypeOK, Resized, Active, Alone
<1>2. SizesTypeOK'
  <2>1. native' \in [SizedWindows -> Natives] /\ real' \in [SizedWindows -> NewSizes \cup {All(0)}]
    BY DEF SizesInv, SizesTypeOK, Resized
  <2>2. [win |-> w, size |-> size] \in [win : SizedWindows, size : NewSizes]
    OBVIOUS
  <2> DEFINE e == [win |-> w, size |-> size]
             E == [win : SizedWindows, size : NewSizes]
  <2>3. events \in Seq(E) /\ (events' = events \/ events' = Append(events, e)) /\ e \in E
    BY <2>2 DEF SizesInv, SizesTypeOK, Resized
  <2>4. events' \in Seq(E)
    <3> HIDE DEF e, E
    <3> QED
      BY <2>3
  <2> QED
    BY <2>1, <2>4 DEF SizesInv, SizesTypeOK
<1>3. FirstOne'
  <2>1. \A v \in SizedWindows : life'[v] = "new" => v # w /\ real'[v] = All(0) /\ ~native'[v].unsettled
    BY <1>1 DEF SizesInv, FirstOne
  <2> QED
    BY <1>1, <2>1 DEF FirstOne
<1>4. \A v \in SizedWindows : Fits(config[v])'
  BY DEF SizesInv
<1>5. \A v \in SizedWindows : Known(v)'
  BY <1>1 DEF SizesInv, Known
<1>6. \A v \in SizedWindows : Told(v)'
  <2> SUFFICES ASSUME NEW v \in SizedWindows, Alone(v), Active(v) PROVE Told(v)'
    BY <1>1 DEF Told
  <2>1. v = w
    BY <1>1, "new" # "open" DEF Alone
  <2>2. /\ SizesTypeOK /\ Told(w) /\ Alone(w) /\ native'[w].target = native[w].target
    BY <1>1, <2>1 DEF SizesInv
  <2>3. \/ native' = native /\ config' = config /\ real[w] # All(0)
        \/ Wanted(native[w], config[w]) => size = native[w].target
    <3>1. n = native[w] => native' = native
      BY DEF SizesInv, SizesTypeOK
    <3> QED
      BY <3>1
  <2>4. /\ Chain(w)'
        /\ End(w)' = size \/ (Wanted(native[w], config[w]) /\ native' = native)
    BY <2>2, <2>3, TargetFollows
  <2>5. real'[w] # All(0)
    BY <1>1, NoSize
  <2> QED
    BY <1>1, <2>1, <2>4, <2>5 DEF Told
<1> QED
  BY <1>2, <1>3, <1>4, <1>5, <1>6 DEF SizesInv

-----------------------------------------------------------------------------
(* The toolkit, the user and the events.                                   *)

LEMMA SettlesKeeps == ASSUME SizesInv, NEW w \in SizedWindows, Settles(w) PROVE SizesInv'
<1> DEFINE m == native[w]
           wish(a) == IF m.asked[a] > 0 THEN m.asked[a] ELSE real[w][a]
           size == [a \in Axes |-> IF wish(a) > m.hints.max[a] THEN m.hints.max[a]
                                   ELSE IF wish(a) < m.hints.min[a] THEN m.hints.min[a]
                                   ELSE wish(a)]
           n == [hints |-> m.hints, asked |-> All(0), unsettled |-> FALSE, target |-> m.target]
<1>1. /\ Active(w) /\ m.unsettled /\ UNCHANGED <<life, config, oldSize>>
      /\ Resized(w, size) /\ native' = [native EXCEPT ![w] = n]
  BY DEF Settles
<1>2. /\ m \in Natives /\ config[w] \in Configs /\ Fits(config[w])
      /\ m.hints = SizeLimits(config[w]) /\ real[w] \in NewSizes \cup {All(0)}
  BY <1>1 DEF SizesInv, SizesTypeOK, Known
<1>3. config[w].size \in NewSizes /\ Within(config[w].size, m.hints)
  <2>1. config[w].size \in NewSizes
    BY <1>2 DEF Configs
  <2> QED
    BY <1>2, <2>1, HintsAreLimits
<1>4. /\ m.hints \in [min : NewSizes, max : NewSizes] /\ m.asked \in NewSizes \cup {All(0)}
      /\ m.target \in NewSizes \cup {All(NoLimit)}
  BY <1>2 DEF Natives
<1>5. \A a \in Axes : /\ m.hints.min[a] \in 1 .. MaxSize /\ m.hints.max[a] \in 1 .. MaxSize
                      /\ m.hints.min[a] <= m.hints.max[a]
                      /\ m.asked[a] \in 0 .. MaxSize /\ real[w][a] \in 0 .. MaxSize
  <2>1. \A s \in NewSizes : \A a \in Axes : s[a] \in 1 .. MaxSize
    BY DEF NewSizes
  <2>2. \A a \in Axes : m.hints.min[a] \in 1 .. MaxSize /\ m.hints.max[a] \in 1 .. MaxSize
    BY <1>4, <2>1
  <2>3. \A a \in Axes : m.hints.min[a] <= m.hints.max[a]
    BY <1>3, <2>1, <2>2, NoSize DEF Within
  <2>4. \A s \in NewSizes \cup {All(0)} : \A a \in Axes : s[a] \in 0 .. MaxSize
    BY <2>1, NoSize DEF All
  <2> QED
    BY <1>2, <1>4, <2>2, <2>3, <2>4
<1>6. \A a \in Axes : size[a] \in 1 .. MaxSize
                      /\ m.hints.min[a] <= size[a] /\ size[a] <= m.hints.max[a]
  <2> TAKE a \in Axes
  <2>1. size[a] = IF wish(a) > m.hints.max[a] THEN m.hints.max[a]
                  ELSE IF wish(a) < m.hints.min[a] THEN m.hints.min[a] ELSE wish(a)
    OBVIOUS
  <2>2. wish(a) \in 0 .. MaxSize
    BY <1>5
  <2> HIDE DEF size, wish
  <2> QED
    BY <1>5, <2>1, <2>2, NoSize
<1>7. size \in NewSizes /\ Within(size, m.hints)
  BY <1>6 DEF NewSizes, Within
<1>8. n \in Natives
  BY <1>4 DEF Natives
<1>9. Wanted(m, config[w]) => size = m.target
  <2> SUFFICES ASSUME Wanted(m, config[w]) PROVE size = m.target
    OBVIOUS
  <2>1. /\ m.target \in NewSizes /\ Within(m.target, m.hints)
        /\ IF config[w].resizable THEN m.asked = m.target ELSE m.target = config[w].size
    BY DEF Wanted
  <2>2. ASSUME NEW a \in Axes PROVE size[a] = m.target[a]
    <3>1. m.target[a] \in 1 .. MaxSize /\ m.hints.min[a] <= m.target[a] /\ m.target[a] <= m.hints.max[a]
      BY <2>1 DEF NewSizes, Within
    <3>2. CASE config[w].resizable
      <4>1. wish(a) = m.target[a]
        BY <2>1, <3>1, <3>2, NoSize
      <4>2. size[a] = IF wish(a) > m.hints.max[a] THEN m.hints.max[a]
                      ELSE IF wish(a) < m.hints.min[a] THEN m.hints.min[a] ELSE wish(a)
        OBVIOUS
      <4> HIDE DEF size, wish
      <4> QED
        BY <1>5, <3>1, <4>1, <4>2, NoSize
    <3>3. CASE ~config[w].resizable
      <4>1. m.hints.min[a] = m.target[a] /\ m.hints.max[a] = m.target[a]
        BY <1>2, <2>1, <3>3 DEF SizeLimits
      <4> HIDE DEF size
      <4> QED
        BY <1>6, <3>1, <4>1, NoSize
    <3> QED
      BY <3>2, <3>3
  <2> HIDE DEF size
  <2> QED
    BY <1>7, <2>1, <2>2 DEF NewSizes
<1>10. n.hints = m.hints /\ n.target = m.target /\ ~n.unsettled /\ n.asked = All(0)
  OBVIOUS
<1> HIDE DEF size, n
<1> QED
  BY <1>1, <1>7, <1>8, <1>9, <1>10, ResizeKeeps

LEMMA UserKeeps == ASSUME SizesInv, NEW w \in SizedWindows, UserResizes(w) PROVE SizesInv'
<1>1. PICK size \in NewSizes : /\ Within(size, native[w].hints) \/ native[w].unsettled
                               /\ Resized(w, size)
  BY DEF UserResizes
<1>2. /\ Active(w) /\ real[w] # All(0) /\ UNCHANGED <<life, config, oldSize>>
      /\ native[w] \in Natives /\ native' = [native EXCEPT ![w] = native[w]]
      /\ ~native[w].unsettled => native[w].asked = All(0)
  BY DEF UserResizes, SizesInv, SizesTypeOK, Known
<1> QED
  BY <1>1, <1>2, ResizeKeeps

\* The rest of one element is empty.
LEMMA OneLeft ==
  ASSUME NEW S, NEW s \in Seq(S), s # <<>> PROVE Tail(s) = <<>> <=> Len(s) = 1
<1>1. Tail(s) \in Seq(S) /\ Len(Tail(s)) = Len(s) - 1 /\ Len(s) \in Nat
  OBVIOUS
<1>2. \A t \in Seq(S) : t = <<>> <=> Len(t) = 0
  OBVIOUS
<1>3. Tail(s) = <<>> <=> Len(Tail(s)) = 0
  BY <1>1, <1>2
<1> QED
  BY <1>1, <1>3

\* The first event of the only window is handled, the rest of the chain is left.
LEMMA ChainShrinks ==
  ASSUME SizesTypeOK, NEW w \in SizedWindows, Chain(w), events # <<>>, events' = Tail(events),
         oldSize' = events[1].size, real' = real
  PROVE  Chain(w)'
<1> DEFINE L == Len(events)
<1>1. /\ L \in Nat /\ L >= 1 /\ DOMAIN events = 1 .. L
      /\ Len(events') = L - 1 /\ DOMAIN events' = 1 .. L - 1
      /\ \A i \in 1 .. L - 1 : events'[i] = events[i + 1]
      /\ events' = <<>> <=> L = 1
  <2> DEFINE E == [win : SizedWindows, size : NewSizes]
  <2>1. events \in Seq(E)
    BY DEF SizesTypeOK
  <2> HIDE DEF E
  <2>2. L \in Nat /\ L >= 1 /\ DOMAIN events = 1 .. L
    BY <2>1
  <2>3. Tail(events) \in Seq(E) /\ Len(Tail(events)) = L - 1
    BY <2>1
  <2>4. Len(events') = L - 1 /\ DOMAIN events' = 1 .. L - 1
    BY <2>2, <2>3
  <2>5. \A i \in 1 .. L - 1 : events'[i] = events[i + 1]
    BY <2>1, <2>2
  <2>6. events' = <<>> <=> L = 1
    BY <2>1, OneLeft
  <2> QED
    BY <2>2, <2>4, <2>5, <2>6
<1> HIDE DEF L
<1>2. /\ \A i \in 1 .. L : events[i].win = w
      /\ events[L].size = real[w]
      /\ \A i \in 1 .. L - 1 : events[i].size # events[i + 1].size
  BY <1>1 DEF Chain, L
<1>3. \A i \in DOMAIN events' : events'[i].win = w
  BY <1>1, <1>2
<1>4. CASE L = 1
  BY <1>1, <1>2, <1>3, <1>4 DEF Chain
<1>5. CASE L # 1
  <2>1. events'[L - 1] = events[L] /\ events'[1] = events[2] /\ L - 1 >= 1
    BY <1>1, <1>5
  <2>2. events[1].size # events[2].size
    <3>1. 1 \in 1 .. L - 1 /\ 1 + 1 = 2
      BY <1>1, <1>5
    <3> QED
      BY <1>2, <3>1
  <2>3. ASSUME NEW i \in 1 .. L - 2 PROVE events'[i].size # events'[i + 1].size
    <3>1. i \in 1 .. L - 1 /\ i + 1 \in 1 .. L - 1 /\ (i + 1) + 1 = i + 2
      BY <1>1, <1>5
    <3>2. events'[i] = events[i + 1] /\ events'[i + 1] = events[(i + 1) + 1]
      BY <1>1, <3>1
    <3> QED
      BY <1>2, <3>1, <3>2
  <2>4. Len(events') - 1 = L - 2 /\ events' # <<>>
    BY <1>1, <1>5
  <2> QED
    BY <1>1, <1>2, <1>3, <2>1, <2>2, <2>3, <2>4 DEF Chain
<1> QED
  BY <1>4, <1>5

LEMMA EventKeeps == ASSUME SizesInv, ConfigureEvent PROVE SizesInv'
<1> DEFINE e == Head(events)
           E == [win : SizedWindows, size : NewSizes]
<1>1. /\ events # <<>> /\ events' = Tail(events) /\ UNCHANGED <<life, config, real>>
      /\ IF Active(e.win)
         THEN /\ native' = IF \E a \in Axes : oldSize[a] # NoLimit /\ e.size[a] # oldSize[a]
                           THEN [native EXCEPT ![e.win].target = e.size] ELSE native
              /\ oldSize' = e.size
         ELSE UNCHANGED <<native, oldSize>>
  BY DEF ConfigureEvent
<1>2. events \in Seq(E) /\ e \in E /\ e = events[1] /\ Tail(events) \in Seq(E)
  <2>1. events \in Seq(E)
    BY DEF SizesInv, SizesTypeOK
  <2> HIDE DEF E
  <2> QED
    BY <1>1, <2>1
<1>3. e.win \in SizedWindows /\ e.size \in NewSizes
  BY <1>2
<1> HIDE DEF e, E
<1>4. \A v \in SizedWindows :
        /\ native'[v] \in Natives
        /\ native'[v].hints = native[v].hints /\ native'[v].asked = native[v].asked
        /\ native'[v].unsettled = native[v].unsettled
  <2> TAKE v \in SizedWindows
  <2>1. native[v] \in Natives /\ native \in [SizedWindows -> Natives]
    BY DEF SizesInv, SizesTypeOK
  <2>2. CASE native' = native
    BY <2>1, <2>2
  <2>3. CASE native' = [native EXCEPT ![e.win].target = e.size]
    <3>1. native'[v] = IF v = e.win THEN [native[v] EXCEPT !.target = e.size] ELSE native[v]
      BY <1>3, <2>1, <2>3
    <3> QED
      BY <1>3, <2>1, <3>1 DEF Natives
  <2> QED
    BY <1>1, <2>2, <2>3
<1>5. native' \in [SizedWindows -> Natives]
  <2>1. DOMAIN native' = SizedWindows /\ native' = [v \in SizedWindows |-> native'[v]]
    BY <1>1 DEF SizesInv, SizesTypeOK
  <2> QED
    BY <1>4, <2>1
<1>6. SizesTypeOK'
  BY <1>1, <1>2, <1>3, <1>5 DEF SizesInv, SizesTypeOK, E
<1>7. FirstOne'
  BY <1>1, <1>4 DEF SizesInv, FirstOne, Unused
<1>8. \A v \in SizedWindows : (Fits(config[v]) /\ Known(v))'
  BY <1>1, <1>4 DEF SizesInv, Known, Active
<1>9. \A v \in SizedWindows : Told(v)'
  <2> SUFFICES ASSUME NEW v \in SizedWindows, Alone(v), Active(v) PROVE Told(v)'
    BY <1>1 DEF Told, Alone, Active
  <2>1. real[v] # All(0) /\ Chain(v) /\ (End(v) = real[v] \/ Wanted(native[v], config[v]))
    BY <1>1 DEF SizesInv, Told, Unused
  <2>2. DOMAIN events = 1 .. Len(events) /\ Len(events) \in Nat /\ Len(events) >= 1
    BY <1>1, <1>2
  <2>3. e.win = v /\ e.size # oldSize /\ oldSize' = e.size
    BY <1>1, <1>2, <2>1, <2>2 DEF Chain
  <2>4. Chain(v)'
    BY <1>1, <1>2, <2>1, <2>3, ChainShrinks DEF SizesInv
  <2>5. CASE events' # <<>>
    <3>1. oldSize' # All(NoLimit)
      BY <1>3, <2>3, NoSize
    <3>2. End(v)' = real'[v]
      BY <2>5, <3>1 DEF End
    <3> QED
      BY <1>1, <2>1, <2>4, <3>2 DEF Told
  <2>6. CASE events' = <<>>
    <3>1. End(v)' = native'[v].target /\ Len(events) = 1
      <4>1. Len(events) = 1
        BY <1>1, <1>2, <2>6, OneLeft
      <4> QED
        BY <2>6, <4>1 DEF End
    <3>2. CASE oldSize = All(NoLimit)
      <4>1. native' = native
        BY <1>1, <2>3, <3>2 DEF All
      <4>2. End(v) = native[v].target
        BY <1>1, <3>1, <3>2 DEF End
      <4> QED
        BY <1>1, <2>1, <2>4, <3>1, <4>1, <4>2 DEF Told
    <3>3. CASE oldSize # All(NoLimit)
      <4>1. oldSize \in NewSizes
        BY <3>3 DEF SizesInv, SizesTypeOK
      <4>2. PICK a \in Axes : e.size[a] # oldSize[a]
        BY <1>3, <2>3, <4>1 DEF NewSizes
      <4>3. oldSize[a] # NoLimit
        BY <4>1, NoSize DEF NewSizes
      <4>4. native' = [native EXCEPT ![v].target = e.size]
        BY <1>1, <2>3, <4>2, <4>3
      <4>5. native'[v].target = e.size
        BY <4>4 DEF SizesInv, SizesTypeOK, Natives
      <4>6. e.size = real'[v]
        BY <1>1, <1>2, <2>1, <3>1 DEF Chain
      <4> QED
        BY <1>1, <2>1, <2>4, <3>1, <4>5, <4>6 DEF Told
    <3> QED
      BY <3>2, <3>3
  <2> QED
    BY <2>5, <2>6
<1> QED
  BY <1>6, <1>7, <1>8, <1>9 DEF SizesInv

-----------------------------------------------------------------------------
(* The invariant, and the property.                                        *)

LEMMA SizesStart == SizesInit => SizesInv
<1> SUFFICES ASSUME SizesInit PROVE SizesInv
  OBVIOUS
<1>1. \A w \in SizedWindows :
        /\ life[w] = "new" /\ real[w] = All(0) /\ ~native[w].unsettled
        /\ native[w] = [hints |-> [min |-> All(1), max |-> All(MaxSize)], asked |-> All(0),
                        unsettled |-> FALSE, target |-> All(NoLimit)]
  BY DEF SizesInit
<1>2. \A s \in 1 .. MaxSize : All(s) \in NewSizes
  BY DEF All, NewSizes
<1>3. All(NoLimit) \in Limits
  BY DEF All, Limits
<1>4. config \in [SizedWindows -> Configs]
  <2> DEFINE Fresh == [size : {All(s) : s \in 1 .. MaxSize}, min : {All(NoLimit)},
                       max : {All(NoLimit)}, resizable : {TRUE}]
  <2>1. ASSUME NEW c \in Fresh PROVE c \in Configs
    <3>1. PICK s \in 1 .. MaxSize : c.size = All(s)
      OBVIOUS
    <3>2. c.size \in NewSizes /\ c.min \in Limits /\ c.max \in Limits /\ c.resizable \in BOOLEAN
      BY <1>2, <1>3, <3>1
    <3>3. c = [size |-> c.size, min |-> c.min, max |-> c.max, resizable |-> c.resizable]
      OBVIOUS
    <3> QED
      BY <3>2, <3>3 DEF Configs
  <2>2. config \in [SizedWindows -> Fresh]
    BY DEF SizesInit
  <2> HIDE DEF Fresh
  <2> QED
    BY <2>1, <2>2
<1>5. native \in [SizedWindows -> Natives]
  BY NoSize DEF SizesInit, Natives
<1>6. SizesTypeOK
  <2>1. /\ life \in [SizedWindows -> {"new", "open", "closed"}]
        /\ oldSize \in NewSizes \cup {All(NoLimit)}
        /\ real \in [SizedWindows -> NewSizes \cup {All(0)}]
    BY DEF SizesInit
  <2>2. events = <<>>
    BY DEF SizesInit
  <2>3. events \in Seq([win : SizedWindows, size : NewSizes])
    BY <2>2
  <2> QED
    BY <1>4, <1>5, <2>1, <2>3 DEF SizesTypeOK
<1>7. \A w \in SizedWindows : Fits(config[w])
  BY ZenonT(30) DEF SizesInit, Fits, Clashes, All
<1>8. \A w \in SizedWindows : ~Active(w)
  BY <1>1 DEF Active
<1> QED
  BY <1>1, <1>6, <1>7, <1>8 DEF SizesInit, SizesInv, FirstOne, Unused, Known, Told

LEMMA SizesSteps == SizesInv /\ [SizesNext]_sizeVars => SizesInv'
<1> SUFFICES ASSUME SizesInv, [SizesNext]_sizeVars PROVE SizesInv'
  OBVIOUS
<1>1. CASE UNCHANGED sizeVars
  BY <1>1 DEF sizeVars, external, SizesInv, SizesTypeOK, FirstOne, Unused, Fits, Clashes, Known,
       Active, Told, Alone, Chain, End, Wanted, Within, SizeLimits, NoSize
<1>2. ASSUME NEW w \in SizedWindows, Scripted(w) PROVE SizesInv'
  <2>1. CASE OpenSized(w) \/ CloseSized(w)
    BY <2>1, OpenKeeps, CloseKeeps
  <2>2. CASE \E a \in Axes : \E s \in 1 .. MaxSize : SetSize(w, a, s)
    BY <2>2, SetSizeKeeps
  <2>3. CASE \E a \in Axes : \E m \in 0 .. MaxSize : SetMinSize(w, a, m) \/ SetMaxSize(w, a, m)
    BY <2>3, SetMinKeeps, SetMaxKeeps
  <2>4. CASE \E size \in NewSizes : SetBounds(w, size)
    BY <2>4, SetBoundsKeeps
  <2>5. CASE \E b \in BOOLEAN : SetResizable(w, b)
    BY <2>5, SetResizableKeeps
  <2> QED
    BY <1>2, <2>1, <2>2, <2>3, <2>4, <2>5 DEF Scripted
<1> QED
  BY <1>1, <1>2, SettlesKeeps, UserKeeps, EventKeeps DEF SizesNext

LEMMA InvHolds == SizesInv => LimitsHold
<1> SUFFICES ASSUME SizesInv, NEW w \in SizedWindows
             PROVE  /\ InLimits(w, config[w].size)
                    /\ Still(w) => InLimits(w, real[w]) /\ (Alone(w) => native[w].target = real[w])
  BY DEF LimitsHold
<1>1. /\ config[w] \in Configs /\ Fits(config[w]) /\ real[w] \in NewSizes \cup {All(0)}
      /\ config[w].size \in NewSizes
  BY DEF SizesInv, SizesTypeOK, Configs
<1>2. InLimits(w, config[w].size)
  BY <1>1, HintsAreLimits DEF InLimits
<1>3. ASSUME Still(w) PROVE InLimits(w, real[w])
  <2>1. Within(real[w], SizeLimits(config[w]))
    BY <1>3 DEF Still, SizesInv, Known
  <2>2. real[w] # All(0)
    <3>1. PICK a \in Axes : TRUE
      BY SizesAssumption
    <3>2. All(0)[a] = 0
      BY DEF All
    <3>3. SizeLimits(config[w]).min[a] \in 1 .. MaxSize
      BY <1>1, LimitsType DEF NewSizes
    <3> QED
      BY <2>1, <3>2, <3>3, NoSize DEF Within
  <2> QED
    BY <1>1, <2>1, <2>2, HintsAreLimits DEF InLimits
<1>4. ASSUME Still(w), Alone(w) PROVE native[w].target = real[w]
  <2>1. Active(w) /\ ~Wanted(native[w], config[w])
    BY <1>4 DEF Still, Wanted
  <2>2. Chain(w) /\ End(w) = real[w]
    BY <1>4, <2>1 DEF SizesInv, Told
  <2>3. events = <<>>
    <3>1. events \in Seq([win : SizedWindows, size : NewSizes])
      BY DEF SizesInv, SizesTypeOK
    <3>2. CASE events # <<>>
      <4>1. 1 \in DOMAIN events
        BY <3>1, <3>2
      <4> QED
        BY <1>4, <2>2, <4>1 DEF Still, Chain
    <3> QED
      BY <3>2
  <2> QED
    BY <2>2, <2>3 DEF End
<1> QED
  BY <1>2, <1>3, <1>4

\* Limits hold, for any windows, sizes, axes and events: however a script sets sizes and
\* limits of windows (user_window.cpp, _SetMinWidth to _SetBounds), and however GTK and
\* the user resize them meanwhile (gtk_user_window.cpp, EventCallback).
THEOREM LimitsAlwaysHold == SizesSpec => []LimitsHold
<1>1. SizesInit => SizesInv
  BY SizesStart
<1>2. SizesInv /\ [SizesNext]_sizeVars => SizesInv'
  BY SizesSteps
<1>3. SizesInv => LimitsHold
  BY InvHolds
<1> QED
  BY <1>1, <1>2, <1>3, PTL DEF SizesSpec

-----------------------------------------------------------------------------
(* The graph of menus.                                                     *)

\* What edges reach from m: Under, for any graph.
Reach(graph, m) ==
  {n \in Menus : \A S \in SUBSET Menus :
                   (\A a \in S \cup {m}, b \in Menus : <<a, b>> \in graph => b \in S) => n \in S}

NoCycle(graph) == \A m \in Menus : m \notin Reach(graph, m)

LEMMA ReachGoesOn ==
  ASSUME NEW graph, NEW m \in Menus, NEW a \in {m} \cup Reach(graph, m), NEW b \in Menus,
         <<a, b>> \in graph
  PROVE  b \in Reach(graph, m)
BY DEF Reach

LEMMA ReachIsLeast ==
  ASSUME NEW graph, NEW m, NEW S \in SUBSET Menus,
         \A a \in S \cup {m}, b \in Menus : <<a, b>> \in graph => b \in S
  PROVE  Reach(graph, m) \subseteq S
BY DEF Reach

\* Fewer edges reach less.
LEMMA ReachFewer ==
  ASSUME NEW graph, NEW less, less \subseteq graph, NoCycle(graph)
  PROVE  NoCycle(less)
<1> SUFFICES ASSUME NEW m \in Menus PROVE m \notin Reach(less, m)
  BY DEF NoCycle
<1>1. Reach(graph, m) \in SUBSET Menus
  BY DEF Reach
<1>2. \A a \in Reach(graph, m) \cup {m}, b \in Menus : <<a, b>> \in less => b \in Reach(graph, m)
  BY ReachGoesOn
<1>3. Reach(less, m) \subseteq Reach(graph, m)
  BY <1>1, <1>2, ReachIsLeast
<1> QED
  BY <1>3 DEF NoCycle

\* Edges to s from menus that s does not reach close no cycle: this is what the code asks
\* before it inserts an item, and before it gives an item a submenu.
LEMMA ReachMore ==
  ASSUME NEW graph, NEW more, NEW s \in Menus, NEW Y \in SUBSET Menus,
         \A a, b \in Menus : <<a, b>> \in more => <<a, b>> \in graph \/ (a \in Y /\ b = s),
         \A y \in Y : y # s /\ y \notin Reach(graph, s),
         NoCycle(graph)
  PROVE  NoCycle(more)
<1> SUFFICES ASSUME NEW x \in Menus, x \in Reach(more, x) PROVE FALSE
  BY DEF NoCycle
<1>1. PICK R : R = Reach(graph, x)
  OBVIOUS
<1>2. PICK T : T = {s} \cup Reach(graph, s)
  OBVIOUS
<1>3. R \in SUBSET Menus /\ T \in SUBSET Menus /\ x \notin R /\ s \in T
  BY <1>1, <1>2 DEF Reach, NoCycle
<1>4. \A a \in R \cup {x}, b \in Menus : <<a, b>> \in graph => b \in R
  BY <1>1, ReachGoesOn
<1>5. \A a \in T, b \in Menus : <<a, b>> \in graph => b \in T
  BY <1>2, ReachGoesOn
<1>6. \A y \in Y : y \notin T
  BY <1>2
<1>7. CASE \A y \in Y : y \notin R \cup {x}
  <2>1. \A a \in R \cup {x}, b \in Menus : <<a, b>> \in more => b \in R
    BY <1>3, <1>4, <1>7
  <2>2. Reach(more, x) \subseteq R
    BY <1>3, <2>1, ReachIsLeast
  <2> QED
    BY <1>3, <2>2
<1>8. CASE \E y \in Y : y \in R \cup {x}
  <2>1. \A a \in (R \cup T) \cup {x}, b \in Menus : <<a, b>> \in more => b \in R \cup T
    BY <1>3, <1>4, <1>5, <1>6
  <2>2. R \cup T \in SUBSET Menus
    BY <1>3
  <2>3. Reach(more, x) \subseteq R \cup T
    BY <2>1, <2>2, ReachIsLeast
  <2>4. x \in T
    BY <1>3, <2>3
  <2>5. \A a \in T \cup {x}, b \in Menus : <<a, b>> \in graph => b \in T
    BY <1>5, <2>4
  <2>6. R \subseteq T
    BY <1>1, <1>3, <2>5, ReachIsLeast
  <2> QED
    BY <1>6, <1>8, <2>4, <2>6
<1> QED
  BY <1>7, <1>8

-----------------------------------------------------------------------------
(* Ways through widgets.                                                   *)

\* Any widgets of items.
AnyWidgets == [menu : Menus, place : Nat, item : Items, on : BOOLEAN, sub : Menus \cup {NoMenu}]

\* The ways from m that widgets of V make: NativeMenu, for ways of any length.
Ways(V, m) == {way \in Seq(V) : way # <<>> /\ way[1].menu = m /\ Linked(way)}

\* Each widget of V that opens a menu is an edge.
Follows(V, graph) ==
  /\ V \subseteq AnyWidgets
  /\ \A w \in V : w.sub \in Menus => <<w.menu, w.sub>> \in graph

\* What a widget opens is reached from what is above it.
LEMMA WaysGoDown ==
  ASSUME NEW V, NEW graph, Follows(V, graph), NEW way \in Seq(V), Linked(way),
         NEW j \in 1 .. Len(way), NEW l \in j .. Len(way), way[l].sub \in Menus
  PROVE  way[l].sub \in Reach(graph, way[j].menu)
<1>1. PICK n \in Nat : n = Len(way)
  OBVIOUS
<1>2. \A i \in 1 .. n : way[i] \in V /\ way[i].menu \in Menus
  BY <1>1 DEF Follows, AnyWidgets
<1>3. \A i \in 1 .. n : way[i].sub \in Menus => <<way[i].menu, way[i].sub>> \in graph
  BY <1>2 DEF Follows
<1>4. PICK top \in Menus : top = way[j].menu
  BY <1>1, <1>2
<1> DEFINE S == {i \in 0 .. n - j : way[j + i].sub \in Menus => way[j + i].sub \in Reach(graph, top)}
<1>5. 0 \in S
  <2>1. j + 0 = j /\ 0 \in 0 .. n - j
    BY <1>1
  <2> QED
    BY <1>1, <1>3, <1>4, <2>1, ReachGoesOn
<1>6. ASSUME NEW i \in 0 .. (n - j) - 1, i \in S PROVE i + 1 \in S
  <2>1. /\ i + 1 \in 0 .. n - j /\ j + (i + 1) \in 2 .. n /\ (j + (i + 1)) - 1 = j + i
        /\ j + (i + 1) \in 1 .. n
    BY <1>1
  <2>2. way[j + (i + 1)].menu = way[j + i].sub
    BY <1>1, <2>1 DEF Linked
  <2>3. way[j + (i + 1)].menu \in Reach(graph, top)
    BY <1>2, <1>6, <2>1, <2>2
  <2>4. way[j + (i + 1)].sub \in Menus => way[j + (i + 1)].sub \in Reach(graph, top)
    BY <1>3, <1>4, <2>1, <2>3, ReachGoesOn
  <2> QED
    BY <2>1, <2>4
<1>7. n - j \in Nat /\ l - j \in 0 .. n - j /\ j + (l - j) = l
  BY <1>1
<1> HIDE DEF S
<1>8. 0 .. n - j \subseteq S
  BY <1>5, <1>6, <1>7, UpToInduction
<1> QED
  BY <1>4, <1>7, <1>8 DEF S

\* No widget opens a menu that is above it, so that no menu comes twice.
LEMMA NoReturn ==
  ASSUME NEW V, NEW graph, Follows(V, graph), NoCycle(graph), NEW way \in Seq(V), Linked(way)
  PROVE  /\ \A j, l \in 1 .. Len(way) : j <= l => way[l].sub # way[j].menu
         /\ \A j, l \in 1 .. Len(way) : way[l].menu = way[j].menu => l = j
<1>1. PICK n \in Nat : n = Len(way)
  OBVIOUS
<1>2. \A i \in 1 .. n : way[i].menu \in Menus
  BY <1>1 DEF Follows, AnyWidgets
<1>3. ASSUME NEW j \in 1 .. n, NEW l \in 1 .. n, j <= l PROVE way[l].sub # way[j].menu
  <2>1. l \in j .. Len(way) /\ j \in 1 .. Len(way)
    BY <1>1, <1>3
  <2> QED
    BY <1>2, <2>1, WaysGoDown DEF NoCycle
<1>4. ASSUME NEW j \in 1 .. n, NEW l \in 1 .. n, j < l PROVE way[l].menu # way[j].menu
  <2>1. l \in 2 .. n /\ l - 1 \in 1 .. n /\ j <= l - 1
    BY <1>4
  <2>2. way[l].menu = way[l - 1].sub
    BY <1>1, <2>1 DEF Linked
  <2> QED
    BY <1>3, <2>1, <2>2
<1>5. \A j, l \in 1 .. n : j < l \/ l < j \/ l = j
  OBVIOUS
<1> QED
  BY <1>1, <1>3, <1>4, <1>5

\* A way is not longer than there are menus.
LEMMA WaysAreShort ==
  ASSUME NEW V, NEW graph, Follows(V, graph), NoCycle(graph), NEW way \in Seq(V), Linked(way)
  PROVE  Len(way) <= Cardinality(Menus)
<1>1. PICK n \in Nat : n = Len(way)
  OBVIOUS
<1>2. PICK f : f = [i \in 1 .. n |-> way[i].menu]
  OBVIOUS
<1>3. f \in [1 .. n -> Menus]
  BY <1>1, <1>2 DEF Follows, AnyWidgets
<1>4. \A i, j \in 1 .. n : f[i] = f[j] => i = j
  BY <1>1, <1>2, NoReturn
<1>5. f \in Injection(1 .. n, Menus)
  BY <1>3, <1>4 DEF Injection, IsInjective
<1>6. Cardinality(1 .. n) <= Cardinality(Menus)
  BY <1>5, FS_Injection, MenusAssumption
<1>7. Cardinality(1 .. n) = n
  <2>1. 1 \in Int /\ n \in Int
    OBVIOUS
  <2>2. Cardinality(1 .. n) = IF 1 > n THEN 0 ELSE n - 1 + 1
    BY <2>1, FS_Interval
  <2> QED
    BY <2>2
<1> QED
  BY <1>1, <1>6, <1>7

\* CreateNative makes all ways there are.
LEMMA AllWays ==
  ASSUME NEW V, NEW graph, Follows(V, graph), NoCycle(graph), NEW m
  PROVE  {way \in BoundedSeq(V, Cardinality(Menus)) : way # <<>> /\ way[1].menu = m /\ Linked(way)}
           = Ways(V, m)
<1>1. PICK max \in Nat : max = Cardinality(Menus)
  BY FS_CardinalityType, MenusAssumption
<1>2. ASSUME NEW way \in Ways(V, m) PROVE way \in BoundedSeq(V, max)
  <2>1. way \in Seq(V) /\ Len(way) <= max
    BY <1>1, WaysAreShort DEF Ways
  <2>2. PICK n \in 0 .. max : n = Len(way)
    BY <2>1
  <2>3. way \in [1 .. n -> V]
    BY <2>1, <2>2
  <2> QED
    BY <2>3 DEF BoundedSeq, SeqOf
<1>3. ASSUME NEW way \in BoundedSeq(V, max) PROVE way \in Seq(V)
  BY <1>3 DEF BoundedSeq, SeqOf
<1> QED
  BY <1>1, <1>2, <1>3 DEF Ways

\* The ways from m on which widgets of I come last only.
EndWays(V, I, m) == {way \in Ways(V, m) : \A j \in 1 .. Len(way) : way[j] \in I => j = Len(way)}

\* Widgets that stay in their menus, and below the same ones unless they come last.
StaysLinked(V, U, M, I, J) ==
  /\ M \in [V -> U]
  /\ \A w \in V : M[w].menu = w.menu /\ (w \notin I => M[w].sub = w.sub) /\ (M[w] \in J <=> w \in I)

Mapped(ways, M) == {[j \in DOMAIN way |-> M[way[j]]] : way \in ways}

LEMMA WayMapped ==
  ASSUME NEW V, NEW U, NEW M, NEW I, NEW J, StaysLinked(V, U, M, I, J), NEW m,
         NEW way \in EndWays(V, I, m)
  PROVE  [j \in DOMAIN way |-> M[way[j]]] \in EndWays(U, J, m)
<1>1. PICK n \in Nat : n = Len(way)
  BY DEF EndWays, Ways
<1>2. /\ way \in Seq(V) /\ way # <<>> /\ DOMAIN way = 1 .. n /\ n >= 1 /\ way[1].menu = m
      /\ \A j \in 1 .. n : way[j] \in V /\ (way[j] \in I => j = n)
      /\ \A j \in 2 .. n : way[j].menu = way[j - 1].sub
  BY <1>1 DEF EndWays, Ways, Linked
<1>3. PICK other : other = [j \in 1 .. n |-> M[way[j]]]
  OBVIOUS
<1>4. \A j \in 1 .. n : /\ other[j] \in U /\ other[j].menu = way[j].menu
                        /\ way[j] \notin I => other[j].sub = way[j].sub
                        /\ other[j] \in J <=> way[j] \in I
  BY <1>2, <1>3 DEF StaysLinked
<1>5. other \in Seq(U) /\ Len(other) = n /\ other # <<>>
  <2>1. \A j \in 1 .. n : M[way[j]] \in U
    BY <1>2, <1>3, <1>4
  <2> QED
    BY <1>1, <1>2, <1>3, <2>1
<1>6. ASSUME NEW j \in 2 .. n PROVE other[j].menu = other[j - 1].sub
  <2>1. j \in 1 .. n /\ j - 1 \in 1 .. n /\ j - 1 # n
    BY <1>6
  <2> QED
    BY <1>2, <1>4, <2>1
<1>7. other[1].menu = m /\ \A j \in 1 .. n : other[j] \in J => j = n
  BY <1>2, <1>4
<1> QED
  BY <1>2, <1>3, <1>5, <1>6, <1>7 DEF EndWays, Ways, Linked

LEMMA WaysMapped ==
  ASSUME NEW V, NEW U, NEW M, NEW I, NEW J, StaysLinked(V, U, M, I, J), NEW m,
         \A u \in U : \E w \in V : u = M[w]
  PROVE  EndWays(U, J, m) = Mapped(EndWays(V, I, m), M)
<1>1. PICK N : N = [u \in U |-> CHOOSE w \in V : u = M[w]]
  OBVIOUS
<1>2. \A u \in U : N[u] \in V /\ M[N[u]] = u
  BY <1>1
<1>3. StaysLinked(U, V, N, J, I)
  <2>1. N \in [U -> V]
    BY <1>1, <1>2
  <2>2. ASSUME NEW u \in U
        PROVE  N[u].menu = u.menu /\ (u \notin J => N[u].sub = u.sub) /\ (N[u] \in I <=> u \in J)
    <3>1. PICK w \in V : w = N[u] /\ M[w] = u
      BY <1>2
    <3> QED
      BY <3>1 DEF StaysLinked
  <2> QED
    BY <2>1, <2>2 DEF StaysLinked
<1>4. ASSUME NEW other \in EndWays(U, J, m)
      PROVE  \E way \in EndWays(V, I, m) : other = [j \in DOMAIN way |-> M[way[j]]]
  <2>0. [j \in DOMAIN other |-> N[other[j]]] \in EndWays(V, I, m)
    BY <1>3, <1>4, WayMapped
  <2>1. PICK way \in EndWays(V, I, m) : way = [j \in DOMAIN other |-> N[other[j]]]
    BY <2>0
  <2>2. other \in Seq(U)
    BY DEF EndWays, Ways
  <2>3. PICK n \in Nat : DOMAIN other = 1 .. n /\ \A j \in 1 .. n : other[j] \in U
    BY <2>2
  <2>4. DOMAIN way = 1 .. n /\ \A j \in 1 .. n : M[way[j]] = other[j]
    BY <1>2, <2>1, <2>3
  <2>5. other = [j \in 1 .. n |-> other[j]]
    BY <2>2, <2>3
  <2> QED
    BY <2>4, <2>5
<1>5. \A way \in EndWays(V, I, m) : [j \in DOMAIN way |-> M[way[j]]] \in EndWays(U, J, m)
  BY WayMapped
<1> QED
  BY <1>4, <1>5 DEF Mapped

\* Nothing but what stays linked to the same: the ways are all mapped.
LEMMA AllWaysMapped ==
  ASSUME NEW V, NEW U, NEW M \in [V -> U], NEW m,
         \A w \in V : M[w].menu = w.menu /\ M[w].sub = w.sub,
         \A u \in U : \E w \in V : u = M[w]
  PROVE  Ways(U, m) = Mapped(Ways(V, m), M)
<1>1. StaysLinked(V, U, M, {}, {})
  BY DEF StaysLinked
<1>2. EndWays(V, {}, m) = Ways(V, m) /\ EndWays(U, {}, m) = Ways(U, m)
  BY DEF EndWays
<1>3. EndWays(U, {}, m) = Mapped(EndWays(V, {}, m), M)
  BY <1>1, WaysMapped
<1> QED
  BY <1>2, <1>3

\* Two ways make one.
LEMMA WaysJoined ==
  ASSUME NEW V, NEW a \in Seq(V), NEW d \in Seq(V), Linked(a), Linked(d), a # <<>>,
         d # <<>> => d[1].menu = a[Len(a)].sub
  PROVE  /\ a \o d \in Seq(V) /\ a \o d # <<>> /\ (a \o d)[1] = a[1] /\ Linked(a \o d)
<1>0. PICK q \in Nat : q = Len(d) /\ (q >= 1 => d # <<>>)
  OBVIOUS
<1>1. PICK p \in Nat : p = Len(a) /\ q = Len(d) /\ p >= 1 /\ (q >= 1 => d # <<>>)
  <2>1. PICK p \in Nat : p = Len(a) /\ p >= 1
    OBVIOUS
  <2> QED
    BY <1>0, <2>1
<1>2. PICK way \in Seq(V) : way = a \o d
  <2>1. a \o d \in Seq(V)
    OBVIOUS
  <2> QED
    BY <2>1
<1>3. /\ Len(way) = p + q /\ \A i \in 1 .. p : way[i] = a[i]
      /\ \A i \in p + 1 .. p + q : way[i] = d[i - p]
  BY <1>1, <1>2
<1>4. ASSUME NEW j \in 2 .. p + q PROVE way[j].menu = way[j - 1].sub
  <2>1. CASE j <= p
    <3>1. j \in 2 .. p /\ j \in 1 .. p /\ j - 1 \in 1 .. p
      BY <1>1, <2>1
    <3> QED
      BY <1>1, <1>3, <3>1 DEF Linked
  <2>2. CASE j = p + 1
    <3>1. j \in p + 1 .. p + q /\ j - p = 1 /\ j - 1 = p /\ p \in 1 .. p /\ q >= 1
      BY <1>1, <1>4, <2>2
    <3>2. d[1].menu = a[p].sub
      BY <1>1, <3>1
    <3> QED
      BY <1>3, <3>1, <3>2
  <2>3. CASE j > p + 1
    <3>1. /\ j \in p + 1 .. p + q /\ j - 1 \in p + 1 .. p + q /\ j - p \in 2 .. q
          /\ (j - 1) - p = (j - p) - 1
      BY <1>1, <1>4, <2>3
    <3>2. d[j - p].menu = d[(j - p) - 1].sub
      BY <1>1, <3>1 DEF Linked
    <3> QED
      BY <1>3, <3>1, <3>2
  <2>4. j <= p \/ j = p + 1 \/ j > p + 1
    BY <1>1
  <2> QED
    BY <2>1, <2>2, <2>3, <2>4
<1>5. way[1] = a[1] /\ way # <<>>
  BY <1>1, <1>3
<1> QED
  BY <1>2, <1>3, <1>4, <1>5 DEF Linked

\* a is the first j widgets of a way of n, and d the others.
IsCut(way, n, j, a, d) ==
  /\ way = a \o d /\ Len(a) = j /\ Len(d) = n - j
  /\ \A i \in 1 .. j : a[i] = way[i]
  /\ \A i \in 1 .. n - j : d[i] = way[j + i]
  /\ Linked(a) /\ Linked(d)

\* A way can be cut.
LEMMA WayCut ==
  ASSUME NEW V, NEW way \in Seq(V), Linked(way), NEW n \in Nat, n = Len(way), NEW j \in 0 .. n
  PROVE  \E a \in Seq(V), d \in Seq(V) : IsCut(way, n, j, a, d)
<1>1. n = Len(way) /\ \A i \in 1 .. n : way[i] \in V
  OBVIOUS
<1>2. PICK a : a = [i \in 1 .. j |-> way[i]]
  OBVIOUS
<1>3. PICK d : d = [i \in 1 .. n - j |-> way[j + i]]
  OBVIOUS
<1>4. a \in Seq(V) /\ Len(a) = j /\ \A i \in 1 .. j : a[i] = way[i]
  <2>1. j \in Nat /\ \A i \in 1 .. j : way[i] \in V
    BY <1>1
  <2> QED
    BY <1>2, <2>1
<1>5. d \in Seq(V) /\ Len(d) = n - j /\ \A i \in 1 .. n - j : d[i] = way[j + i]
  <2>1. n - j \in Nat /\ \A i \in 1 .. n - j : way[j + i] \in V
    BY <1>1
  <2> QED
    BY <1>3, <2>1
<1>6. way = a \o d
  <2>0. j \in Nat /\ n - j \in Nat /\ j + (n - j) = n
    OBVIOUS
  <2>1. a \o d \in Seq(V) /\ Len(a \o d) = n
    <3>1. a \o d \in Seq(V) /\ Len(a \o d) = Len(a) + Len(d)
      <4>1. PICK s \in Seq(V) : s = a
        BY <1>4
      <4>2. PICK t \in Seq(V) : t = d
        BY <1>5
      <4>3. s \o t \in Seq(V) /\ Len(s \o t) = Len(s) + Len(t)
        OBVIOUS
      <4> QED
        BY <4>1, <4>2, <4>3
    <3> QED
      BY <1>4, <1>5, <2>0, <3>1
  <2>2. ASSUME NEW i \in 1 .. n PROVE (a \o d)[i] = way[i]
    <3>1. CASE i <= j
      BY <1>1, <1>4, <1>5, <3>1
    <3>3. i <= j \/ i > j
      BY <1>1
    <3>2. CASE i > j
      <4>1. i - j \in 1 .. n - j /\ j + (i - j) = i
        BY <1>1, <3>2
      <4>2. (a \o d)[i] = d[i - j]
        BY <1>1, <1>4, <1>5, <3>2
      <4> QED
        BY <1>5, <4>1, <4>2
    <3> QED
      BY <3>1, <3>2, <3>3
  <2> QED
    BY <1>1, <2>1, <2>2, SameSequence
<1>7. Linked(a)
  <2>1. \A i \in 2 .. j : i \in 1 .. j /\ i - 1 \in 1 .. j /\ i \in 2 .. n
    BY <1>1
  <2> QED
    BY <1>1, <1>4, <2>1 DEF Linked
<1>8. Linked(d)
  <2>1. ASSUME NEW i \in 2 .. n - j PROVE d[i].menu = d[i - 1].sub
    <3>1. i \in 1 .. n - j /\ i - 1 \in 1 .. n - j /\ j + i \in 2 .. n /\ j + (i - 1) = (j + i) - 1
      BY <1>1
    <3>2. way[j + i].menu = way[(j + i) - 1].sub
      BY <1>1, <3>1 DEF Linked
    <3> QED
      BY <1>5, <3>1, <3>2
  <2> QED
    BY <1>5, <2>1 DEF Linked
<1> QED
  BY <1>4, <1>5, <1>6, <1>7, <1>8 DEF IsCut

\* Ways from m, and those that go through a widget more, to what is below it.
Through(ways, below, m, new) ==
  ways \cup {shell \o item : shell \in {way \in ways : Last(way).sub = new.menu} \cup
                                       (IF m = new.menu THEN {<<>>} ELSE {}),
                             item \in {<<new>> \o way : way \in {<<>>} \cup below}}

\* A way goes through a widget at most once.
LEMMA WaysThrough ==
  ASSUME NEW U, NEW graph, Follows(U, graph), NoCycle(graph), NEW new \in U, NEW m
  PROVE  Ways(U, m) = Through(Ways(U \ {new}, m), Ways(U \ {new}, new.sub), m, new)
<1>1. PICK less : less = U \ {new}
  OBVIOUS
<1>2. PICK shells : shells = {way \in Ways(less, m) : Last(way).sub = new.menu} \cup
                             (IF m = new.menu THEN {<<>>} ELSE {})
  OBVIOUS
<1>3. PICK items : items = {<<new>> \o way : way \in {<<>>} \cup Ways(less, new.sub)}
  OBVIOUS
<1>4. \A way \in Seq(less) : way \in Seq(U)
  BY <1>1
<1>5. ASSUME NEW way \in Ways(less, m) PROVE way \in Ways(U, m)
  BY <1>4 DEF Ways
<1>6. ASSUME NEW item \in items
      PROVE  item \in Seq(U) /\ item # <<>> /\ item[1] = new /\ Linked(item)
  <2>1. PICK way \in {<<>>} \cup Ways(less, new.sub) : item = <<new>> \o way
    BY <1>3, <1>6
  <2>2. way \in Seq(U) /\ Linked(way) /\ (way # <<>> => way[1].menu = new.sub)
    <3>1. CASE way = <<>>
      BY <3>1 DEF Linked
    <3> QED
      BY <1>4, <2>1, <3>1 DEF Ways
  <2>3. PICK one \in Seq(U) : one = <<new>>
    <3>1. <<new>> \in Seq(U)
      OBVIOUS
    <3> QED
      BY <3>1
  <2>4. one # <<>> /\ Len(one) = 1 /\ one[1] = new /\ Linked(one)
    BY <2>3 DEF Linked
  <2>5. one \o way \in Seq(U) /\ one \o way # <<>> /\ (one \o way)[1] = one[1] /\ Linked(one \o way)
    BY <2>2, <2>4, WaysJoined
  <2> QED
    BY <2>1, <2>3, <2>4, <2>5
<1>7. ASSUME NEW shell \in shells, NEW item \in items PROVE shell \o item \in Ways(U, m)
  <2>1. item \in Seq(U) /\ item # <<>> /\ item[1] = new /\ Linked(item)
    BY <1>6
  <2>2. CASE shell = <<>> /\ m = new.menu
    <3>1. shell \o item = item
      BY <2>1, <2>2
    <3> QED
      BY <2>1, <2>2, <3>1 DEF Ways
  <2>3. CASE shell \in Ways(less, m) /\ Last(shell).sub = new.menu
    <3>1. shell \in Seq(U) /\ shell # <<>> /\ shell[1].menu = m /\ Linked(shell)
      BY <1>4, <2>3 DEF Ways
    <3>2. item[1].menu = shell[Len(shell)].sub
      BY <2>1, <2>3 DEF Last
    <3>3. /\ shell \o item \in Seq(U) /\ shell \o item # <<>> /\ (shell \o item)[1] = shell[1]
          /\ Linked(shell \o item)
      BY <2>1, <3>1, <3>2, WaysJoined
    <3> QED
      BY <3>1, <3>3 DEF Ways
  <2> QED
    BY <1>2, <2>2, <2>3
<1>8. ASSUME NEW way \in Ways(U, m), way \notin Ways(less, m)
      PROVE  \E shell \in shells, item \in items : way = shell \o item
  <2>1. way \in Seq(U) /\ way # <<>> /\ way[1].menu = m /\ Linked(way)
    BY DEF Ways
  <2>2. PICK n \in Nat : n = Len(way) /\ n >= 1 /\ \A i \in 1 .. n : way[i] \in U
    BY <2>1
  <2>3. PICK j \in 1 .. n : way[j] = new
    <3> SUFFICES ASSUME \A j \in 1 .. n : way[j] # new PROVE FALSE
      OBVIOUS
    <3>1. \A j \in 1 .. n : way[j] \in less
      BY <1>1, <2>2
    <3>2. way \in Seq(less)
      BY <2>1, <2>2, <3>1
    <3> QED
      BY <1>8, <2>1, <3>2 DEF Ways
  <2>4. \A i \in 1 .. n : i # j => way[i] \in less
    <3>1. \A i \in 1 .. n : i # j => way[i].menu # new.menu
      BY <2>1, <2>2, <2>3, NoReturn
    <3> QED
      BY <1>1, <2>2, <3>1
  <2>5. PICK p \in 0 .. n : p = j - 1 /\ p + 1 = j
    BY <2>2
  <2>6. PICK a \in Seq(U), rest \in Seq(U) : IsCut(way, n, p, a, rest)
    BY <2>1, <2>2, WayCut
  <2>7. PICK k \in Nat : k = n - p /\ k = Len(rest) /\ 1 \in 0 .. k /\ 1 \in 1 .. k /\ Linked(rest)
    <3>1. Len(rest) = n - p /\ Linked(rest)
      BY <2>6 DEF IsCut
    <3>2. n - p \in Nat /\ 1 \in 0 .. n - p /\ 1 \in 1 .. n - p
      BY <2>2, <2>5
    <3> QED
      BY <3>1, <3>2
  <2>8. PICK one \in Seq(U), e \in Seq(U) : IsCut(rest, k, 1, one, e)
    BY <2>7, WayCut
  <2>9. one = <<new>>
    <3>0. 1 \in 1 .. 1
      OBVIOUS
    <3>1. one[1] = rest[1] /\ Len(one) = 1
      BY <2>8, <3>0, Zenon DEF IsCut
    <3>2. rest[1] = way[p + 1]
      BY <2>6, <2>7 DEF IsCut
    <3> QED
      BY <2>3, <2>5, <3>1, <3>2
  <2>10. a \in shells
    <3>0. Len(a) = p /\ (\A i \in 1 .. p : a[i] = way[i]) /\ Linked(a)
      BY <2>6 DEF IsCut
    <3>1. \A i \in 1 .. p : a[i] \in less
      BY <2>2, <2>4, <2>5, <3>0
    <3>2. a \in Seq(less)
      BY <2>6, <3>0, <3>1
    <3>3. CASE j = 1
      <4>1. a = <<>>
        BY <2>5, <2>6, <3>0, <3>3
      <4>2. m = new.menu
        BY <2>1, <2>3, <3>3
      <4> QED
        BY <1>2, <4>1, <4>2
    <3>4. CASE j # 1
      <4>1. j \in 2 .. n /\ 1 \in 1 .. p /\ p \in 1 .. p
        BY <2>2, <2>5, <3>4
      <4>2. way[j].menu = way[p].sub
        BY <2>1, <2>2, <2>5, <4>1 DEF Linked
      <4>3. a[1] = way[1] /\ a[p] = way[p] /\ Last(a) = a[p]
        BY <3>0, <4>1 DEF Last
      <4>4. Last(a).sub = new.menu /\ a[1].menu = m /\ a # <<>>
        BY <2>1, <2>3, <3>0, <4>1, <4>2, <4>3
      <4> QED
        BY <1>2, <3>0, <3>2, <4>4 DEF Ways
    <3> QED
      BY <3>3, <3>4
  <2>11. e \in {<<>>} \cup Ways(less, new.sub)
    <3>1. PICK q \in Nat : q = n - j /\ k - 1 = q
      <4>1. n - j \in Nat /\ (n - p) - 1 = n - j
        BY <2>2, <2>5
      <4> QED
        BY <2>7, <4>1
    <3>0. Len(e) = q /\ (\A i \in 1 .. q : e[i] = rest[1 + i]) /\ Linked(e)
      BY <2>8, <3>1 DEF IsCut
    <3>2. ASSUME NEW i \in 1 .. q PROVE e[i] = way[j + i] /\ e[i] \in less
      <4>1. 1 + i \in 1 .. n - p /\ p + (1 + i) = j + i /\ j + i \in 1 .. n /\ j + i # j
        BY <2>2, <2>5, <2>7, <3>1
      <4>2. rest[1 + i] = way[p + (1 + i)]
        BY <2>6, <4>1 DEF IsCut
      <4>3. e[i] = way[j + i]
        BY <3>0, <4>1, <4>2
      <4> QED
        BY <2>4, <4>1, <4>3
    <3>3. e \in Seq(less)
      <4>1. e \in Seq(U) /\ Len(e) = q
        BY <3>0
      <4>2. \A i \in 1 .. q : e[i] \in less
        BY <3>2
      <4> QED
        BY <4>1, <4>2
    <3>4. CASE q >= 1
      <4>1. 1 \in 1 .. q /\ j + 1 \in 2 .. n /\ (j + 1) - 1 = j
        BY <2>2, <3>1, <3>4
      <4>2. way[j + 1].menu = way[(j + 1) - 1].sub
        BY <2>1, <2>2, <4>1 DEF Linked
      <4>3. e[1].menu = new.sub /\ e # <<>>
        BY <2>3, <3>0, <3>1, <3>2, <4>1, <4>2
      <4> QED
        BY <3>0, <3>3, <4>3 DEF Ways
    <3>5. CASE q = 0
      BY <2>8, <3>0, <3>5
    <3> QED
      BY <3>4, <3>5
  <2>12. rest \in items
    BY <1>3, <2>8, <2>9, <2>11 DEF IsCut
  <2> QED
    BY <2>6, <2>10, <2>12 DEF IsCut
<1>9. Ways(U, m) = Ways(less, m) \cup {shell \o item : shell \in shells, item \in items}
  <2> DEFINE through == {shell \o item : shell \in shells, item \in items}
  <2>2. ASSUME NEW way \in through PROVE way \in Ways(U, m)
    <3>1. PICK shell \in shells, item \in items : way = shell \o item
      OBVIOUS
    <3> QED
      BY <1>7, <3>1
  <2>3. \A way \in Ways(U, m) : way \in Ways(less, m) \/ way \in through
    BY <1>8
  <2>4. Ways(less, m) \subseteq Ways(U, m)
    BY <1>5
  <2> HIDE DEF through
  <2>5. Ways(U, m) = Ways(less, m) \cup through
    BY <2>2, <2>3, <2>4
  <2> QED
    BY <2>5 DEF through
<1>10. Through(Ways(less, m), Ways(less, new.sub), m, new) =
         Ways(less, m) \cup {shell \o item : shell \in shells, item \in items}
  BY <1>2, <1>3 DEF Through
<1>11. Ways(U, m) = Through(Ways(less, m), Ways(less, new.sub), m, new)
  BY <1>9, <1>10
<1> QED
  BY <1>1, <1>11

\* Ways, and those that go on from one that ends in J.
Beyond(ways, J, below) ==
  ways \cup {above \o way : above \in {end \in ways : Last(end) \in J}, way \in below}

\* A way comes to widgets that open the same menu at most once.
LEMMA WaysBeyond ==
  ASSUME NEW U, NEW graph, Follows(U, graph), NoCycle(graph), NEW J, NEW m,
         \A u \in U : u \in J => u.sub = m, NEW r
  PROVE  Ways(U, r) = Beyond(EndWays(U, J, r), J, Ways(U, m))
<1>1. PICK ends : ends = {way \in EndWays(U, J, r) : Last(way) \in J}
  OBVIOUS
<1>2. ASSUME NEW above \in ends, NEW below \in Ways(U, m) PROVE above \o below \in Ways(U, r)
  <2>1. /\ above \in Seq(U) /\ above # <<>> /\ above[1].menu = r /\ Linked(above)
        /\ above[Len(above)] \in J
    BY <1>1 DEF EndWays, Ways, Last
  <2>2. below \in Seq(U) /\ below # <<>> /\ below[1].menu = m /\ Linked(below)
    BY DEF Ways
  <2>3. above[Len(above)].sub = m
    BY <2>1
  <2>4. /\ above \o below \in Seq(U) /\ above \o below # <<>> /\ (above \o below)[1] = above[1]
        /\ Linked(above \o below)
    BY <2>1, <2>2, <2>3, WaysJoined
  <2> QED
    BY <2>1, <2>4 DEF Ways
<1>3. ASSUME NEW way \in Ways(U, r), way \notin EndWays(U, J, r)
      PROVE  \E above \in ends, below \in Ways(U, m) : way = above \o below
  <2>1. way \in Seq(U) /\ way # <<>> /\ way[1].menu = r /\ Linked(way)
    BY DEF Ways
  <2>2. PICK n \in Nat : n = Len(way) /\ \A i \in 1 .. n : way[i] \in U
    BY <2>1
  <2>3. PICK j \in 1 .. n : way[j] \in J /\ j # n
    BY <1>3, <2>2 DEF EndWays
  <2>4. j \in 0 .. n /\ 1 \in 1 .. n - j /\ j + 1 \in 2 .. n /\ (j + 1) - 1 = j
    BY <2>2, <2>3
  <2>0. PICK above \in Seq(U), below \in Seq(U) : IsCut(way, n, j, above, below)
    BY <2>1, <2>2, <2>4, WayCut
  <2>5. /\ way = above \o below /\ Len(above) = j /\ Len(below) = n - j
        /\ \A i \in 1 .. j : above[i] = way[i]
        /\ \A i \in 1 .. n - j : below[i] = way[j + i]
        /\ Linked(above) /\ Linked(below)
    BY <2>0 DEF IsCut
  <2>6. below \in Ways(U, m)
    <3>1. way[j + 1].menu = way[j].sub
      BY <2>1, <2>2, <2>4 DEF Linked
    <3>2. below[1].menu = m /\ below # <<>>
      BY <2>2, <2>3, <2>4, <2>5, <3>1
    <3> QED
      BY <2>5, <3>2 DEF Ways
  <2>7. ASSUME NEW i \in 1 .. j, above[i] \in J, i # j PROVE FALSE
    <3>1. i \in 1 .. n /\ i + 1 \in 2 .. n /\ (i + 1) - 1 = i /\ i + 1 \in 1 .. n /\ i + 1 <= j
      BY <2>2, <2>7
    <3>2. way[i + 1].menu = way[i].sub
      BY <2>1, <2>2, <3>1 DEF Linked
    <3>3. way[i].sub = m /\ way[j].sub = m
      BY <2>2, <2>3, <2>5, <2>7, <3>1
    <3>4. way[j].sub # way[i + 1].menu
      BY <2>1, <2>2, <3>1, NoReturn
    <3> QED
      BY <3>2, <3>3, <3>4
  <2>8. above[1].menu = r /\ above # <<>> /\ Last(above) \in J
    <3>1. 1 \in 1 .. j /\ j \in 1 .. j
      OBVIOUS
    <3> QED
      BY <2>1, <2>3, <2>5, <3>1 DEF Last
  <2>9. above \in EndWays(U, J, r)
    BY <2>5, <2>7, <2>8 DEF EndWays, Ways
  <2> QED
    BY <1>1, <2>5, <2>6, <2>8, <2>9
<1>4. EndWays(U, J, r) \subseteq Ways(U, r)
  BY DEF EndWays
<1>5. Ways(U, r) = EndWays(U, J, r) \cup {above \o below : above \in ends, below \in Ways(U, m)}
  <2> DEFINE beyond == {above \o below : above \in ends, below \in Ways(U, m)}
  <2>2. ASSUME NEW way \in beyond PROVE way \in Ways(U, r)
    <3>1. PICK above \in ends, below \in Ways(U, m) : way = above \o below
      OBVIOUS
    <3> QED
      BY <1>2, <3>1
  <2>3. \A way \in Ways(U, r) : way \in EndWays(U, J, r) \/ way \in beyond
    BY <1>3
  <2> HIDE DEF beyond
  <2>4. Ways(U, r) = EndWays(U, J, r) \cup beyond
    BY <1>4, <2>2, <2>3
  <2> QED
    BY <2>4 DEF beyond
<1>6. Beyond(EndWays(U, J, r), J, Ways(U, m)) =
        EndWays(U, J, r) \cup {above \o below : above \in ends, below \in Ways(U, m)}
  BY <1>1 DEF Beyond
<1> QED
  BY <1>5, <1>6

-----------------------------------------------------------------------------
(* Lists of items that grow and shrink.                                    *)

LEMMA Piece ==
  ASSUME NEW S, NEW s \in Seq(S), NEW n \in Nat, n = Len(s), NEW b \in Nat, NEW l \in Nat, b + l <= n
  PROVE  /\ SubSeq(s, b + 1, b + l) \in Seq(S) /\ Len(SubSeq(s, b + 1, b + l)) = l
         /\ \A p \in 1 .. l : SubSeq(s, b + 1, b + l)[p] = s[b + p]
<1>1. PICK r : r = SubSeq(s, b + 1, b + l)
  OBVIOUS
<1>2. r \in Seq(S) /\ Len(r) = l
  BY <1>1
<1>3. ASSUME NEW p \in 1 .. l PROVE r[p] = s[b + p]
  <2>1. (b + 1) + p - 1 = b + p
    OBVIOUS
  <2> QED
    BY <1>1, <2>1
<1> QED
  BY <1>1, <1>2, <1>3

\* u is a, of p elements, and then d, of q.
IsJoined(S, u, a, d, p, q) ==
  /\ u \in Seq(S) /\ Len(u) = p + q
  /\ \A i \in 1 .. p : u[i] = a[i]
  /\ \A i \in p + 1 .. p + q : u[i] = d[i - p]

LEMMA TwoPieces ==
  ASSUME NEW S, NEW a \in Seq(S), NEW d \in Seq(S), NEW p \in Nat, NEW q \in Nat, p = Len(a), q = Len(d)
  PROVE  IsJoined(S, a \o d, a, d, p, q)
BY DEF IsJoined

\* t is s, which has n elements, with one more at k,
IsInserted(S, t, s, n, k, e) ==
  /\ t \in Seq(S) /\ Len(t) = n + 1
  /\ \A p \in 1 .. k - 1 : t[p] = s[p]
  /\ t[k] = e
  /\ \A p \in k + 1 .. n + 1 : t[p] = s[p - 1]

\* or with a gap at k.
IsCutOut(S, t, s, n, k, gap) ==
  /\ t \in Seq(S) /\ Len(t) = n - gap
  /\ \A p \in 1 .. k - 1 : t[p] = s[p]
  /\ \A p \in k .. n - gap : t[p] = s[p + gap]

LEMMA InsertedAt ==
  ASSUME NEW S, NEW s \in Seq(S), NEW e \in S, NEW n \in Nat, n = Len(s), NEW k \in 1 .. n + 1
  PROVE  IsInserted(S, InsertAt(s, k, e), s, n, k, e)
<1>0. PICK b \in 0 .. n : b = k - 1 /\ b + 1 = k
  <2>1. k - 1 \in 0 .. n /\ (k - 1) + 1 = k
    OBVIOUS
  <2> QED
    BY <2>1
<1> DEFINE a == SubSeq(s, 1, b)
           d == SubSeq(s, b + 1, n)
           one == <<e>>
           t == a \o one
           u == t \o d
<1>1. a \in Seq(S) /\ Len(a) = b /\ \A p \in 1 .. b : a[p] = s[p]
  <2>1. b \in Nat /\ 0 + b <= n /\ 0 + 1 = 1 /\ 0 + b = b /\ \A p \in 1 .. b : 0 + p = p
    BY <1>0
  <2>2. /\ SubSeq(s, 0 + 1, 0 + b) \in Seq(S) /\ Len(SubSeq(s, 0 + 1, 0 + b)) = b
        /\ \A p \in 1 .. b : SubSeq(s, 0 + 1, 0 + b)[p] = s[0 + p]
    BY <2>1, Piece
  <2> QED
    BY <2>1, <2>2
<1>2. d \in Seq(S) /\ Len(d) = n - b /\ \A p \in 1 .. n - b : d[p] = s[b + p]
  <2>1. PICK q \in Nat : q = n - b /\ b + q = n /\ b \in Nat /\ b + q <= n
    <3>1. b \in Nat /\ n - b \in Nat /\ b + (n - b) = n /\ b + (n - b) <= n
      BY <1>0
    <3> QED
      BY <3>1
  <2>2. /\ SubSeq(s, b + 1, b + q) \in Seq(S) /\ Len(SubSeq(s, b + 1, b + q)) = q
        /\ \A p \in 1 .. q : SubSeq(s, b + 1, b + q)[p] = s[b + p]
    BY <2>1, Piece
  <2> QED
    BY <2>1, <2>2
<1>3. one \in Seq(S) /\ Len(one) = 1 /\ one[1] = e
  OBVIOUS
<1>4. InsertAt(s, k, e) = u
  BY <1>0 DEF InsertAt
<1> HIDE DEF a, d, one
<1>5. /\ t \in Seq(S) /\ Len(t) = b + 1
      /\ \A i \in 1 .. b : t[i] = a[i]
      /\ \A i \in b + 1 .. b + 1 : t[i] = one[i - b]
  <2>1. b \in Nat /\ 1 \in Nat
    BY <1>0
  <2>2. IsJoined(S, a \o one, a, one, b, 1)
    BY <1>1, <1>3, <2>1, TwoPieces
  <2> QED
    BY <2>2 DEF IsJoined
<1> HIDE DEF t
<1>6. /\ u \in Seq(S) /\ Len(u) = (b + 1) + (n - b)
      /\ \A i \in 1 .. b + 1 : u[i] = t[i]
      /\ \A i \in (b + 1) + 1 .. (b + 1) + (n - b) : u[i] = d[i - (b + 1)]
  <2>1. b + 1 \in Nat /\ n - b \in Nat
    BY <1>0
  <2>2. IsJoined(S, t \o d, t, d, b + 1, n - b)
    BY <1>2, <1>5, <2>1, TwoPieces
  <2> QED
    BY <2>2 DEF IsJoined
<1> HIDE DEF u
<1>7. (b + 1) + (n - b) = n + 1 /\ b + 1 \in b + 1 .. b + 1 /\ b + 1 \in 1 .. b + 1 /\ (b + 1) - b = 1
  BY <1>0
<1>8. ASSUME NEW p \in 1 .. b PROVE u[p] = s[p]
  <2>1. p \in 1 .. b + 1
    BY <1>0
  <2> QED
    BY <1>1, <1>5, <1>6, <2>1
<1>9. u[b + 1] = e
  BY <1>3, <1>5, <1>6, <1>7
<1>10. ASSUME NEW p \in (b + 1) + 1 .. n + 1 PROVE u[p] = s[p - 1]
  <2>1. p - (b + 1) \in 1 .. n - b /\ b + (p - (b + 1)) = p - 1
    BY <1>0
  <2>2. u[p] = d[p - (b + 1)]
    BY <1>6, <1>7
  <2> QED
    BY <1>2, <2>1, <2>2
<1> QED
  BY <1>0, <1>4, <1>6, <1>7, <1>8, <1>9, <1>10 DEF IsInserted

LEMMA CutOut ==
  ASSUME NEW S, NEW s \in Seq(S), NEW n \in Nat, n = Len(s), NEW k \in 1 .. n, NEW l \in k .. n,
         NEW gap \in Nat, gap = l + 1 - k, NEW t, t = SubSeq(s, 1, k - 1) \o SubSeq(s, l + 1, n)
  PROVE  IsCutOut(S, t, s, n, k, gap)
<1>0. PICK b \in 0 .. n : b = k - 1 /\ b + 1 = k
  <2>1. k - 1 \in 0 .. n /\ (k - 1) + 1 = k
    OBVIOUS
  <2> QED
    BY <2>1
<1> DEFINE a == SubSeq(s, 1, b)
           d == SubSeq(s, l + 1, n)
           u == a \o d
<1>1. a \in Seq(S) /\ Len(a) = b /\ \A p \in 1 .. b : a[p] = s[p]
  <2>1. b \in Nat /\ 0 + b <= n /\ 0 + 1 = 1 /\ 0 + b = b /\ \A p \in 1 .. b : 0 + p = p
    BY <1>0
  <2>2. /\ SubSeq(s, 0 + 1, 0 + b) \in Seq(S) /\ Len(SubSeq(s, 0 + 1, 0 + b)) = b
        /\ \A p \in 1 .. b : SubSeq(s, 0 + 1, 0 + b)[p] = s[0 + p]
    BY <2>1, Piece
  <2> QED
    BY <2>1, <2>2
<1>2. d \in Seq(S) /\ Len(d) = n - l /\ \A p \in 1 .. n - l : d[p] = s[l + p]
  <2>1. PICK q \in Nat : q = n - l /\ l + q = n /\ l \in Nat /\ l + q <= n
    <3>1. l \in Nat /\ n - l \in Nat /\ l + (n - l) = n /\ l + (n - l) <= n
      OBVIOUS
    <3> QED
      BY <3>1
  <2>2. /\ SubSeq(s, l + 1, l + q) \in Seq(S) /\ Len(SubSeq(s, l + 1, l + q)) = q
        /\ \A p \in 1 .. q : SubSeq(s, l + 1, l + q)[p] = s[l + p]
    BY <2>1, Piece
  <2> QED
    BY <2>1, <2>2
<1>3. t = u
  BY <1>0
<1> HIDE DEF a, d
<1>4. /\ u \in Seq(S) /\ Len(u) = b + (n - l)
      /\ \A i \in 1 .. b : u[i] = a[i]
      /\ \A i \in b + 1 .. b + (n - l) : u[i] = d[i - b]
  <2>1. b \in Nat /\ n - l \in Nat
    BY <1>0
  <2>2. IsJoined(S, a \o d, a, d, b, n - l)
    BY <1>1, <1>2, <2>1, TwoPieces
  <2> QED
    BY <2>2 DEF IsJoined
<1> HIDE DEF u
<1>5. b + (n - l) = n - gap
  BY <1>0
<1>6. ASSUME NEW p \in b + 1 .. n - gap PROVE u[p] = s[p + gap]
  <2>1. p - b \in 1 .. n - l /\ l + (p - b) = p + gap
    BY <1>0
  <2>2. u[p] = d[p - b]
    BY <1>4, <1>5
  <2> QED
    BY <1>2, <2>1, <2>2
<1> QED
  BY <1>0, <1>1, <1>3, <1>4, <1>5, <1>6 DEF IsCutOut

-----------------------------------------------------------------------------
(* The menus of a state: their items, the submenus and the marks of these. *)

Typed(ch, su, ck) ==
  /\ ch \in [Menus -> Seq(Items)] /\ su \in [Items -> Menus \cup {NoMenu}]
  /\ ck \in [Items -> BOOLEAN]

WidgetsIn(ch, su, ck) ==
  {w \in AnyWidgets : /\ w.place \in 1 .. Len(ch[w.menu]) /\ w.item = ch[w.menu][w.place]
                      /\ w.on = ck[w.item] /\ w.sub = su[w.item]}

GraphIn(ch, su) == {e \in Menus \X Menus : \E k \in 1 .. Len(ch[e[1]]) : su[ch[e[1]][k]] = e[2]}

LEMMA WidgetIsIn ==
  ASSUME NEW ch, NEW su, NEW ck, Typed(ch, su, ck), NEW m \in Menus, NEW k \in 1 .. Len(ch[m])
  PROVE  [menu |-> m, place |-> k, item |-> ch[m][k], on |-> ck[ch[m][k]], sub |-> su[ch[m][k]]]
           \in WidgetsIn(ch, su, ck)
<1>1. PICK i \in Items : i = ch[m][k]
  BY DEF Typed
<1>2. k \in Nat /\ ck[i] \in BOOLEAN /\ su[i] \in Menus \cup {NoMenu}
  BY DEF Typed
<1>3. [menu |-> m, place |-> k, item |-> i, on |-> ck[i], sub |-> su[i]] \in AnyWidgets
  BY <1>2 DEF AnyWidgets
<1> QED
  BY <1>1, <1>3 DEF WidgetsIn

LEMMA WidgetsFollow ==
  ASSUME NEW ch, NEW su, NEW ck, Typed(ch, su, ck)
  PROVE  Follows(WidgetsIn(ch, su, ck), GraphIn(ch, su))
<1>1. ASSUME NEW w \in WidgetsIn(ch, su, ck), w.sub \in Menus
      PROVE  <<w.menu, w.sub>> \in GraphIn(ch, su)
  BY <1>1 DEF WidgetsIn, AnyWidgets, GraphIn
<1> QED
  BY <1>1 DEF Follows, WidgetsIn

LEMMA WidgetsNow ==
  /\ Typed(children, submenu, checked) => Widgets = WidgetsIn(children, submenu, checked)
  /\ Typed(children', submenu', checked') => Widgets' = WidgetsIn(children', submenu', checked')
<1> DEFINE W(ch, su, ck) ==
             UNION {{[menu |-> m, place |-> k, item |-> ch[m][k], on |-> ck[ch[m][k]], sub |-> su[ch[m][k]]]
                       : k \in DOMAIN ch[m]} : m \in Menus}
<1>1. ASSUME NEW ch, NEW su, NEW ck, Typed(ch, su, ck) PROVE W(ch, su, ck) = WidgetsIn(ch, su, ck)
  <2>1. \A m \in Menus : DOMAIN ch[m] = 1 .. Len(ch[m])
    BY <1>1 DEF Typed
  <2>2. ASSUME NEW w \in W(ch, su, ck) PROVE w \in WidgetsIn(ch, su, ck)
    BY <1>1, <2>1, <2>2, WidgetIsIn
  <2>3. ASSUME NEW w \in WidgetsIn(ch, su, ck) PROVE w \in W(ch, su, ck)
    <3>1. /\ w.menu \in Menus /\ w.place \in DOMAIN ch[w.menu] /\ w.item = ch[w.menu][w.place]
          /\ w.on = ck[w.item] /\ w.sub = su[w.item] /\ w \in AnyWidgets
      BY <2>1, <2>3 DEF WidgetsIn, AnyWidgets
    <3>2. w = [menu |-> w.menu, place |-> w.place, item |-> w.item, on |-> w.on, sub |-> w.sub]
      BY <3>1 DEF AnyWidgets
    <3> QED
      BY <3>1, <3>2
  <2> QED
    BY <2>2, <2>3
<1>2. Widgets = W(children, submenu, checked) /\ Widgets' = W(children', submenu', checked')
  BY DEF Widgets, Widget
<1> QED
  BY <1>1, <1>2

LEMMA UnderNow ==
  /\ Typed(children, submenu, checked) =>
       \A m \in Menus : Under(m) = Reach(GraphIn(children, submenu), m)
  /\ Typed(children', submenu', checked') =>
       \A m \in Menus : Under(m)' = Reach(GraphIn(children', submenu'), m)
<1>1. ASSUME Typed(children, submenu, checked), NEW m \in Menus
      PROVE  Under(m) = Reach(GraphIn(children, submenu), m)
  <2>1. \A a, b \in Menus : Holds(a, b) <=> <<a, b>> \in GraphIn(children, submenu)
    BY <1>1 DEF Holds, GraphIn, Typed
  <2>2. \A S \in SUBSET Menus : \A a \in S \cup {m}, b \in Menus :
          Holds(a, b) <=> <<a, b>> \in GraphIn(children, submenu)
    BY <2>1
  <2> QED
    BY <2>2 DEF Under, Reach
<1>2. ASSUME Typed(children', submenu', checked'), NEW m \in Menus
      PROVE  Under(m)' = Reach(GraphIn(children', submenu'), m)
  <2>1. \A a, b \in Menus : Holds(a, b)' <=> <<a, b>> \in GraphIn(children', submenu')
    BY <1>2 DEF Holds, GraphIn, Typed
  <2>2. \A S \in SUBSET Menus : \A a \in S \cup {m}, b \in Menus :
          Holds(a, b)' <=> <<a, b>> \in GraphIn(children', submenu')
    BY <2>1
  <2> QED
    BY <2>2 DEF Under, Reach
<1> QED
  BY <1>1, <1>2

LEMMA NativeNow ==
  /\ Typed(children, submenu, checked) /\ NoCycle(GraphIn(children, submenu)) =>
       \A m : NativeMenu(m) = Ways(WidgetsIn(children, submenu, checked), m)
  /\ Typed(children', submenu', checked') /\ NoCycle(GraphIn(children', submenu')) =>
       \A m : NativeMenu(m)' = Ways(WidgetsIn(children', submenu', checked'), m)
<1>1. ASSUME Typed(children, submenu, checked), NoCycle(GraphIn(children, submenu)), NEW m
      PROVE  NativeMenu(m) = Ways(WidgetsIn(children, submenu, checked), m)
  BY <1>1, WidgetsNow, WidgetsFollow, AllWays DEF NativeMenu
<1>2. ASSUME Typed(children', submenu', checked'), NoCycle(GraphIn(children', submenu')), NEW m
      PROVE  NativeMenu(m)' = Ways(WidgetsIn(children', submenu', checked'), m)
  BY <1>2, WidgetsNow, WidgetsFollow, AllWays DEF NativeMenu
<1> QED
  BY <1>1, <1>2

-----------------------------------------------------------------------------
(* No menu gets below itself.                                              *)

LEMMA EdgeMore ==
  ASSUME NEW graph, NEW more, NEW s \in Menus, NEW m \in Menus, m # s, m \notin Reach(graph, s),
         \A a, b \in Menus : <<a, b>> \in more => <<a, b>> \in graph \/ (a = m /\ b = s),
         NoCycle(graph)
  PROVE  NoCycle(more)
<1>1. PICK Y \in SUBSET Menus : Y = {m}
  OBVIOUS
<1>2. \A y \in Y : y # s /\ y \notin Reach(graph, s)
  BY <1>1
<1>3. \A a, b \in Menus : <<a, b>> \in more => <<a, b>> \in graph \/ (a \in Y /\ b = s)
  BY <1>1
<1> QED
  BY <1>2, <1>3, ReachMore

\* Menu m gets item i at place k, which is safe unless m is below what i opens.
Inserts(ch, ch2, m, k, i) ==
  /\ m \in Menus /\ i \in Items /\ k \in 1 .. Len(ch[m]) + 1
  /\ ch2 = [ch EXCEPT ![m] = InsertAt(ch[m], k, i)]
NotBelow(graph, m, below) == below \in Menus => m # below /\ m \notin Reach(graph, below)

LEMMA InsertedKeepsOrder ==
  ASSUME NEW ch, NEW su, NEW ck, Typed(ch, su, ck), NEW graph, graph = GraphIn(ch, su), NoCycle(graph),
         NEW ch2, NEW m, NEW k, NEW i, Inserts(ch, ch2, m, k, i), NotBelow(graph, m, su[i])
  PROVE  Typed(ch2, su, ck) /\ NoCycle(GraphIn(ch2, su))
<1>0. /\ m \in Menus /\ i \in Items /\ k \in 1 .. Len(ch[m]) + 1
      /\ ch2 = [ch EXCEPT ![m] = InsertAt(ch[m], k, i)]
      /\ su[i] \in Menus => m # su[i] /\ m \notin Reach(graph, su[i])
  BY DEF Inserts, NotBelow
<1>1. PICK s \in Seq(Items) : s = ch[m]
  BY <1>0 DEF Typed
<1>2. PICK n \in Nat : n = Len(s)
  OBVIOUS
<1>3. PICK t : t = InsertAt(s, k, i)
  OBVIOUS
<1>4. /\ t \in Seq(Items) /\ Len(t) = n + 1
      /\ \A p \in 1 .. k - 1 : t[p] = s[p]
      /\ t[k] = i
      /\ \A p \in k + 1 .. n + 1 : t[p] = s[p - 1]
  <2>1. k \in 1 .. n + 1
    BY <1>0, <1>1, <1>2
  <2>2. IsInserted(Items, t, s, n, k, i)
    BY <1>0, <1>2, <1>3, <2>1, InsertedAt
  <2> QED
    BY <2>2 DEF IsInserted
<1>5. ASSUME NEW p \in 1 .. n + 1 PROVE t[p] = i \/ \E q \in 1 .. n : t[p] = s[q]
  <2>1. k \in 1 .. n + 1
    BY <1>0, <1>1, <1>2
  <2>2. CASE p < k
    <3>1. p \in 1 .. k - 1 /\ p \in 1 .. n
      BY <2>1, <2>2
    <3> QED
      BY <1>4, <3>1
  <2>3. CASE p > k
    <3>1. p \in k + 1 .. n + 1 /\ p - 1 \in 1 .. n
      BY <2>1, <2>3
    <3> QED
      BY <1>4, <3>1
  <2>4. p < k \/ p > k \/ p = k
    BY <2>1
  <2> QED
    BY <1>4, <2>2, <2>3, <2>4
<1>6. ch2[m] = t /\ \A a \in Menus : a # m => ch2[a] = ch[a]
  BY <1>0, <1>1, <1>3 DEF Typed
<1>7. Typed(ch2, su, ck)
  BY <1>0, <1>1, <1>3, <1>4 DEF Typed
<1>8. ASSUME NEW a \in Menus, NEW b \in Menus, <<a, b>> \in GraphIn(ch2, su)
      PROVE  <<a, b>> \in graph \/ (a \in {m} /\ b = su[i])
  <2>1. PICK p \in 1 .. Len(ch2[a]) : su[ch2[a][p]] = b
    BY <1>8 DEF GraphIn
  <2>2. CASE a = m
    <3>1. p \in 1 .. n + 1 /\ su[t[p]] = b
      BY <1>4, <1>6, <2>1, <2>2
    <3>2. CASE t[p] = i
      BY <2>2, <3>1, <3>2
    <3>3. CASE t[p] # i
      <4>1. PICK q \in 1 .. n : t[p] = s[q]
        BY <1>5, <3>1, <3>3
      <4>2. q \in 1 .. Len(ch[a]) /\ su[ch[a][q]] = b
        BY <1>1, <1>2, <2>2, <3>1, <4>1
      <4> QED
        BY <4>2 DEF GraphIn
    <3> QED
      BY <3>2, <3>3
  <2>3. CASE a # m
    BY <1>6, <2>1, <2>3 DEF GraphIn
  <2> QED
    BY <2>2, <2>3
<1>9. PICK more : more = GraphIn(ch2, su)
  OBVIOUS
<1>10. CASE su[i] \in Menus
  <2>1. PICK x \in Menus : x = su[i]
    BY <1>10
  <2>2. m # x /\ m \notin Reach(graph, x)
    BY <1>0, <2>1
  <2>3. \A a, b \in Menus : <<a, b>> \in more => <<a, b>> \in graph \/ (a = m /\ b = x)
    BY <1>8, <1>9, <2>1
  <2>4. NoCycle(more)
    BY <1>0, <2>2, <2>3, EdgeMore
  <2> QED
    BY <1>7, <1>9, <2>4
<1>11. CASE su[i] \notin Menus
  <2>1. \A a, b \in Menus : <<a, b>> \in more => <<a, b>> \in graph
    BY <1>8, <1>9, <1>11
  <2>2. more \subseteq Menus \X Menus
    BY <1>9 DEF GraphIn
  <2>3. more \subseteq graph
    BY <2>1, <2>2
  <2>4. NoCycle(more)
    BY <2>3, ReachFewer
  <2> QED
    BY <1>7, <1>9, <2>4
<1> QED
  BY <1>7, <1>10, <1>11

LEMMA CutKeepsOrder ==
  ASSUME NEW ch, NEW su, NEW ck, Typed(ch, su, ck), NoCycle(GraphIn(ch, su)),
         NEW m \in Menus, NEW n \in Nat, n = Len(ch[m]), NEW k \in 1 .. n, NEW l \in k .. n,
         NEW ch2, ch2 = [ch EXCEPT ![m] = SubSeq(ch[m], 1, k - 1) \o SubSeq(ch[m], l + 1, n)]
  PROVE  Typed(ch2, su, ck) /\ NoCycle(GraphIn(ch2, su))
<1>1. PICK s \in Seq(Items) : s = ch[m]
  BY DEF Typed
<1>2. PICK t : t = SubSeq(s, 1, k - 1) \o SubSeq(s, l + 1, n)
  OBVIOUS
<1>3. PICK gap \in Nat : gap = l + 1 - k /\ n - gap \in Nat
  <2>1. l + 1 - k \in Nat /\ n - (l + 1 - k) \in Nat
    OBVIOUS
  <2> QED
    BY <2>1
<1>4. /\ t \in Seq(Items) /\ Len(t) = n - gap
      /\ \A p \in 1 .. k - 1 : t[p] = s[p]
      /\ \A p \in k .. n - gap : t[p] = s[p + gap]
  <2>1. IsCutOut(Items, t, s, n, k, gap)
    BY <1>1, <1>2, <1>3, CutOut
  <2> QED
    BY <2>1 DEF IsCutOut
<1>5. ASSUME NEW p \in 1 .. n - gap PROVE \E q \in 1 .. n : t[p] = s[q]
  <2>1. CASE p < k
    <3>1. p \in 1 .. k - 1 /\ p \in 1 .. n
      BY <2>1
    <3> QED
      BY <1>4, <3>1
  <2>2. CASE p >= k
    <3>1. p \in k .. n - gap /\ p + gap \in 1 .. n
      BY <1>3, <2>2
    <3> QED
      BY <1>4, <3>1
  <2>3. p < k \/ p >= k
    BY <1>3
  <2> QED
    BY <2>1, <2>2, <2>3
<1>6. ch2[m] = t /\ \A a \in Menus : a # m => ch2[a] = ch[a]
  BY <1>1, <1>2 DEF Typed
<1>7. Typed(ch2, su, ck)
  BY <1>1, <1>2, <1>4 DEF Typed
<1>8. ASSUME NEW e \in GraphIn(ch2, su) PROVE e \in GraphIn(ch, su)
  <2>1. PICK a \in Menus, b \in Menus : e = <<a, b>>
    BY DEF GraphIn
  <2>2. PICK p \in 1 .. Len(ch2[a]) : su[ch2[a][p]] = b
    BY <2>1 DEF GraphIn
  <2>3. CASE a = m
    <3>1. p \in 1 .. n - gap /\ su[t[p]] = b
      BY <1>4, <1>6, <2>2, <2>3
    <3>2. PICK q \in 1 .. n : t[p] = s[q]
      BY <1>5, <3>1
    <3>3. q \in 1 .. Len(ch[a]) /\ su[ch[a][q]] = b
      BY <1>1, <2>3, <3>1, <3>2
    <3> QED
      BY <2>1, <3>3 DEF GraphIn
  <2>4. CASE a # m
    BY <1>6, <2>1, <2>2, <2>4 DEF GraphIn
  <2> QED
    BY <2>3, <2>4
<1> QED
  BY <1>7, <1>8, ReachFewer

LEMMA HungKeepsOrder ==
  ASSUME NEW ch, NEW su, NEW ck, Typed(ch, su, ck), NEW graph, graph = GraphIn(ch, su), NoCycle(graph),
         NEW i \in Items, NEW m \in Menus \cup {NoMenu},
         NEW su2, su2 = [su EXCEPT ![i] = m],
         m \in Menus => \A x \in {m} \cup Reach(graph, m) : \A p \in 1 .. Len(ch[x]) : ch[x][p] # i
  PROVE  Typed(ch, su2, ck) /\ NoCycle(GraphIn(ch, su2))
<1>1. Typed(ch, su2, ck)
  BY DEF Typed
<1>2. PICK Y \in SUBSET Menus : Y = {y \in Menus : \E p \in 1 .. Len(ch[y]) : ch[y][p] = i}
  OBVIOUS
<1>3. ASSUME NEW a \in Menus, NEW b \in Menus, <<a, b>> \in GraphIn(ch, su2)
      PROVE  <<a, b>> \in graph \/ (a \in Y /\ b = m)
  <2>1. PICK p \in 1 .. Len(ch[a]) : su2[ch[a][p]] = b
    BY <1>3 DEF GraphIn
  <2>2. PICK x \in Items : x = ch[a][p]
    BY DEF Typed
  <2>3. CASE x = i
    BY <1>2, <2>1, <2>2, <2>3 DEF Typed
  <2>4. CASE x # i
    <3>1. su[x] = b
      BY <2>1, <2>2, <2>4 DEF Typed
    <3> QED
      BY <2>2, <3>1 DEF GraphIn
  <2> QED
    BY <2>3, <2>4
<1>4. PICK more : more = GraphIn(ch, su2)
  OBVIOUS
<1>5. CASE m \in Menus
  <2>1. \A y \in Y : y # m /\ y \notin Reach(graph, m)
    BY <1>2, <1>5
  <2> QED
    <3>1. \A a, b \in Menus : <<a, b>> \in more => <<a, b>> \in graph \/ (a \in Y /\ b = m)
      BY <1>3, <1>4
    <3>2. NoCycle(more)
      BY <1>5, <2>1, <3>1, ReachMore
    <3> QED
      BY <1>1, <1>4, <3>2
<1>6. CASE m \notin Menus
  <2>1. \A a, b \in Menus : <<a, b>> \in more => <<a, b>> \in graph
    BY <1>3, <1>4, <1>6
  <2>2. more \subseteq Menus \X Menus
    BY <1>4 DEF GraphIn
  <2>3. more \subseteq graph
    BY <2>1, <2>2
  <2>4. NoCycle(more)
    BY <2>3, ReachFewer
  <2> QED
    BY <1>1, <1>4, <2>4
<1> QED
  BY <1>5, <1>6

-----------------------------------------------------------------------------
(* What a change does to the ways.                                         *)

\* Ways from s depend on the widgets of what s reaches only.
LEMMA SameWays ==
  ASSUME NEW V, NEW graph, Follows(V, graph), NEW U, U \subseteq AnyWidgets, NEW s \in Menus,
         \A w \in AnyWidgets : w.menu \in {s} \cup Reach(graph, s) => (w \in V <=> w \in U)
  PROVE  Ways(V, s) = Ways(U, s)
<1>1. PICK T : T = {s} \cup Reach(graph, s)
  OBVIOUS
<1>2. s \in T /\ T \subseteq Menus
  BY <1>1 DEF Reach
<1>3. ASSUME NEW w \in V \cup U, w.menu \in T
      PROVE  w \in V /\ w \in U /\ (w.sub \in Menus => w.sub \in T) /\ w.menu \in Menus
  <2>1. w \in AnyWidgets /\ w \in V /\ w \in U
    BY <1>1, <1>3 DEF Follows
  <2>2. w.menu \in Menus
    BY <2>1 DEF AnyWidgets
  <2>3. w.sub \in Menus => <<w.menu, w.sub>> \in graph
    BY <2>1 DEF Follows
  <2> QED
    BY <1>1, <1>3, <2>1, <2>2, <2>3, ReachGoesOn
<1>4. ASSUME NEW way \in Seq(V \cup U), way # <<>>, way[1].menu = s, Linked(way)
      PROVE  \A j \in 1 .. Len(way) : way[j].menu \in T
  <2>1. PICK n \in Nat : n = Len(way) /\ \A j \in 1 .. n : way[j] \in V \cup U /\ way[j].menu \in Menus
    <3>1. \A w \in V \cup U : w.menu \in Menus
      BY DEF Follows, AnyWidgets
    <3> QED
      BY <3>1
  <2> DEFINE S == {j \in 0 .. n : j = 0 \/ way[j].menu \in T}
  <2>2. 0 \in S
    BY <2>1
  <2>3. ASSUME NEW j \in 0 .. n - 1, j \in S PROVE j + 1 \in S
    <3>1. j + 1 \in 0 .. n /\ j + 1 \in 1 .. n /\ (j + 1) - 1 = j
      BY <2>1
    <3>2. CASE j = 0
      BY <1>2, <1>4, <3>1, <3>2
    <3>3. CASE j # 0
      <4>1. j \in 1 .. n /\ j + 1 \in 2 .. n
        BY <2>1, <3>3
      <4>2. way[j + 1].menu = way[j].sub
        BY <1>4, <2>1, <3>1, <4>1 DEF Linked
      <4>3. way[j].sub \in Menus /\ way[j].menu \in T
        BY <2>1, <2>3, <3>1, <3>3, <4>2
      <4> QED
        BY <1>3, <2>1, <3>1, <4>1, <4>2, <4>3
    <3> QED
      BY <3>2, <3>3
  <2> HIDE DEF S
  <2>4. 0 .. n \subseteq S
    BY <2>2, <2>3, UpToInduction
  <2>5. \A j \in 1 .. n : j \in 0 .. n /\ j # 0
    OBVIOUS
  <2> QED
    BY <2>1, <2>4, <2>5 DEF S
<1>5. ASSUME NEW way \in Ways(V, s) PROVE way \in Ways(U, s)
  <2>1. way \in Seq(V) /\ way \in Seq(V \cup U) /\ way # <<>> /\ way[1].menu = s /\ Linked(way)
    BY <1>5 DEF Ways
  <2>2. \A j \in 1 .. Len(way) : way[j] \in V \cup U /\ way[j].menu \in T
    BY <1>4, <2>1
  <2>3. \A j \in 1 .. Len(way) : way[j] \in U
    BY <1>3, <2>2
  <2>4. way \in Seq(U)
    BY <2>1, <2>3
  <2> QED
    BY <2>1, <2>4 DEF Ways
<1>6. ASSUME NEW way \in Ways(U, s) PROVE way \in Ways(V, s)
  <2>1. way \in Seq(U) /\ way \in Seq(V \cup U) /\ way # <<>> /\ way[1].menu = s /\ Linked(way)
    BY <1>6 DEF Ways
  <2>2. \A j \in 1 .. Len(way) : way[j] \in V \cup U /\ way[j].menu \in T
    BY <1>4, <2>1
  <2>3. \A j \in 1 .. Len(way) : way[j] \in V
    BY <1>3, <2>2
  <2>4. way \in Seq(V)
    BY <2>1, <2>3
  <2> QED
    BY <2>1, <2>4 DEF Ways
<1> QED
  BY <1>5, <1>6

LEMMA NoWays ==
  ASSUME NEW V, V \subseteq AnyWidgets, NEW s, s \notin Menus
  PROVE  Ways(V, s) = {}
BY DEF Ways, AnyWidgets

\* Widgets of the same menu, place and so on are one.
LEMMA SameWidget ==
  ASSUME NEW v \in AnyWidgets, NEW w \in AnyWidgets, v.menu = w.menu, v.place = w.place,
         v.item = w.item, v.on = w.on, v.sub = w.sub
  PROVE  v = w
<1>1. v = [menu |-> v.menu, place |-> v.place, item |-> v.item, on |-> v.on, sub |-> v.sub]
  BY DEF AnyWidgets
<1>2. w = [menu |-> w.menu, place |-> w.place, item |-> w.item, on |-> w.on, sub |-> w.sub]
  BY DEF AnyWidgets
<1> QED
  BY <1>1, <1>2

\* A new mark.
Remarked(w, i, on) == IF w.item = i THEN [w EXCEPT !.on = on] ELSE w
AllRemarked(ways, i, on) == {[j \in DOMAIN way |-> Remarked(way[j], i, on)] : way \in ways}

Marks(ck, ck2, i, on) == i \in Items /\ on \in BOOLEAN /\ ck2 = [ck EXCEPT ![i] = on]

LEMMA MarkedWays ==
  ASSUME NEW ch, NEW su, NEW ck, Typed(ch, su, ck), NEW ck2, NEW i, NEW on,
         Marks(ck, ck2, i, on), NEW V, V = WidgetsIn(ch, su, ck),
         NEW U, U = WidgetsIn(ch, su, ck2), NEW r
  PROVE  Ways(U, r) = AllRemarked(Ways(V, r), i, on)
<1>0. i \in Items /\ on \in BOOLEAN /\ ck2 = [ck EXCEPT ![i] = on]
  BY DEF Marks
<1>1. V = WidgetsIn(ch, su, ck)
  OBVIOUS
<1>2. U = WidgetsIn(ch, su, ck2)
  OBVIOUS
<1>3. PICK M : M = [w \in V |-> Remarked(w, i, on)]
  OBVIOUS
<1>4. ASSUME NEW w \in V PROVE M[w] \in U /\ M[w].menu = w.menu /\ M[w].sub = w.sub
  <2>1. w \in AnyWidgets
    BY <1>1 DEF WidgetsIn
  <2>2. M[w] = Remarked(w, i, on)
    BY <1>3
  <2>3. CASE w.item = i
    <3>1. PICK u : u = [w EXCEPT !.on = on]
      OBVIOUS
    <3>2. /\ u \in AnyWidgets /\ u.menu = w.menu /\ u.place = w.place /\ u.item = w.item
          /\ u.on = on /\ u.sub = w.sub
      BY <1>0, <2>1, <3>1 DEF AnyWidgets
    <3>3. ck2[i] = on
      BY <1>0 DEF Typed
    <3>4. u \in U
      BY <1>1, <1>2, <2>3, <3>2, <3>3 DEF WidgetsIn
    <3> QED
      BY <2>2, <2>3, <3>1, <3>2, <3>4 DEF Remarked
  <2>4. CASE w.item # i
    <3>1. w.item \in Items
      BY <2>1 DEF AnyWidgets
    <3>2. ck2[w.item] = ck[w.item]
      BY <1>0, <2>4, <3>1 DEF Typed
    <3> QED
      BY <1>1, <1>2, <2>2, <2>4, <3>2 DEF WidgetsIn, Remarked
  <2> QED
    BY <2>3, <2>4
<1>5. ASSUME NEW u \in U PROVE \E w \in V : u = M[w]
  <2>1. u \in AnyWidgets /\ u.item \in Items /\ u.on = ck2[u.item] /\ ck[u.item] \in BOOLEAN
    BY <1>0, <1>2 DEF WidgetsIn, AnyWidgets, Typed
  <2>2. PICK w : w = [u EXCEPT !.on = ck[u.item]]
    OBVIOUS
  <2>3. /\ w \in AnyWidgets /\ w.menu = u.menu /\ w.place = u.place /\ w.item = u.item
        /\ w.on = ck[u.item] /\ w.sub = u.sub
    BY <2>1, <2>2 DEF AnyWidgets
  <2>4. w \in V
    BY <1>1, <1>2, <2>3 DEF WidgetsIn
  <2>5. M[w] = Remarked(w, i, on) /\ M[w] \in U
    BY <1>3, <1>4, <2>4
  <2>6. M[w].menu = u.menu /\ M[w].place = u.place /\ M[w].item = u.item /\ M[w].sub = u.sub
    BY <2>3, <2>5 DEF Remarked, AnyWidgets
  <2>7. M[w].on = ck2[M[w].item] /\ M[w] \in AnyWidgets
    BY <1>2, <2>5 DEF WidgetsIn
  <2>8. u = M[w]
    BY <2>1, <2>6, <2>7, SameWidget
  <2> QED
    BY <2>4, <2>8
<1>6. M \in [V -> U]
  BY <1>3, <1>4
<1>7. Ways(U, r) = Mapped(Ways(V, r), M)
  BY <1>4, <1>5, <1>6, AllWaysMapped
<1>8. ASSUME NEW way \in Ways(V, r)
      PROVE  [j \in DOMAIN way |-> M[way[j]]] = [j \in DOMAIN way |-> Remarked(way[j], i, on)]
  BY <1>3 DEF Ways
<1> DEFINE one == {[j \in DOMAIN way |-> M[way[j]]] : way \in Ways(V, r)}
           other == {[j \in DOMAIN way |-> Remarked(way[j], i, on)] : way \in Ways(V, r)}
<1>9. one = other
  BY <1>8
<1> HIDE DEF one
<1>10. Ways(U, r) = other
  BY <1>7, <1>9 DEF one, Mapped
<1> QED
  BY <1>10 DEF AllRemarked

\* A widget more in a menu.
Lowered(w, m, k) == IF w.menu = m /\ w.place >= k THEN [w EXCEPT !.place = @ + 1] ELSE w
AllLowered(ways, m, k) == {[j \in DOMAIN way |-> Lowered(way[j], m, k)] : way \in ways}

\* Of V to U, menu m gets the widget new at place k.
WidgetMore(V, U, m, k, new) ==
  /\ new \in U
  /\ \A w \in V : Lowered(w, m, k) \in U \ {new}
  /\ \A u \in U : u # new => \E w \in V : u = Lowered(w, m, k)
  /\ \A w \in AnyWidgets : w.menu # m => (w \in V <=> w \in U \ {new})

LEMMA InsertedWidgets ==
  ASSUME NEW ch, NEW su, NEW ck, Typed(ch, su, ck),
         NEW ch2, NEW m, NEW k, NEW i, Inserts(ch, ch2, m, k, i), Typed(ch2, su, ck),
         NEW new, new = [menu |-> m, place |-> k, item |-> i, on |-> ck[i], sub |-> su[i]],
         NEW V, V = WidgetsIn(ch, su, ck), NEW U, U = WidgetsIn(ch2, su, ck)
  PROVE  WidgetMore(V, U, m, k, new)
<1>0. /\ m \in Menus /\ i \in Items /\ k \in 1 .. Len(ch[m]) + 1
      /\ ch2 = [ch EXCEPT ![m] = InsertAt(ch[m], k, i)]
  BY DEF Inserts
<1>1. PICK s \in Seq(Items) : s = ch[m]
  BY <1>0 DEF Typed
<1>2. PICK n \in Nat : n = Len(s)
  OBVIOUS
<1>3. PICK t : t = InsertAt(s, k, i)
  OBVIOUS
<1>4. /\ t \in Seq(Items) /\ Len(t) = n + 1
      /\ \A p \in 1 .. k - 1 : t[p] = s[p]
      /\ t[k] = i
      /\ \A p \in k + 1 .. n + 1 : t[p] = s[p - 1]
  <2>1. k \in 1 .. n + 1
    BY <1>0, <1>1, <1>2
  <2>2. IsInserted(Items, t, s, n, k, i)
    BY <1>0, <1>2, <1>3, <2>1, InsertedAt
  <2> QED
    BY <2>2 DEF IsInserted
<1>5. ch2[m] = t /\ (\A a \in Menus : a # m => ch2[a] = ch[a]) /\ k \in 1 .. n + 1
  BY <1>0, <1>1, <1>2, <1>3 DEF Typed
<1>6. new.menu = m /\ new.place = k /\ new.item = i /\ new.on = ck[i] /\ new.sub = su[i]
  OBVIOUS
<1>7. new \in U
  <2>1. k \in 1 .. Len(ch2[m]) /\ ch2[m][k] = i
    BY <1>4, <1>5
  <2> QED
    BY <1>0, <2>1, WidgetIsIn
<1>8. ASSUME NEW w \in AnyWidgets, w.menu # m PROVE w \in V <=> w \in U \ {new}
  <2>1. ch2[w.menu] = ch[w.menu] /\ w # new
    BY <1>5, <1>6, <1>8 DEF AnyWidgets
  <2> QED
    BY <1>8, <2>1 DEF WidgetsIn
<1>9. ASSUME NEW w \in V PROVE Lowered(w, m, k) \in U \ {new}
  <2>1. /\ w \in AnyWidgets /\ w.place \in 1 .. Len(ch[w.menu]) /\ w.item = ch[w.menu][w.place]
        /\ w.on = ck[w.item] /\ w.sub = su[w.item]
    BY DEF WidgetsIn
  <2>2. CASE w.menu # m
    BY <1>8, <2>1, <2>2 DEF Lowered
  <2>3. CASE w.menu = m /\ w.place >= k
    <3>1. PICK p \in 1 .. n : p = w.place
      BY <1>1, <1>2, <2>1, <2>3
    <3>2. /\ p + 1 \in k + 1 .. n + 1 /\ (p + 1) - 1 = p /\ p + 1 # k
          /\ p + 1 \in 1 .. n + 1 /\ p + 1 \in Nat
      BY <1>5, <2>3, <3>1
    <3>3. PICK u : u = [w EXCEPT !.place = p + 1]
      OBVIOUS
    <3>4. /\ u \in AnyWidgets /\ u.menu = m /\ u.place = p + 1 /\ u.item = w.item
          /\ u.on = w.on /\ u.sub = w.sub
      BY <2>1, <2>3, <3>2, <3>3 DEF AnyWidgets
    <3>5. t[p + 1] = s[p]
      BY <1>4, <3>2
    <3>6. u.item = ch2[u.menu][u.place] /\ u.place \in 1 .. Len(ch2[u.menu])
      BY <1>1, <1>4, <1>5, <2>1, <2>3, <3>1, <3>2, <3>4, <3>5
    <3>7. u \in U /\ u # new
      BY <1>6, <2>1, <3>2, <3>4, <3>6 DEF WidgetsIn
    <3>8. Lowered(w, m, k) = u
      BY <2>3, <3>1, <3>3 DEF Lowered
    <3> QED
      BY <3>7, <3>8
  <2>4. CASE w.menu = m /\ ~(w.place >= k)
    <3>1. PICK p \in 1 .. n : p = w.place
      BY <1>1, <1>2, <2>1, <2>4
    <3>2. p \in 1 .. k - 1 /\ p # k /\ p \in 1 .. n + 1
      BY <1>5, <2>4, <3>1
    <3>3. t[p] = s[p]
      BY <1>4, <3>2
    <3>4. w.item = ch2[w.menu][w.place] /\ w.place \in 1 .. Len(ch2[w.menu])
      BY <1>1, <1>4, <1>5, <2>1, <2>4, <3>1, <3>2, <3>3
    <3>5. w \in U /\ w # new
      BY <1>6, <2>1, <3>1, <3>2, <3>4 DEF WidgetsIn
    <3> QED
      BY <2>4, <3>5 DEF Lowered
  <2> QED
    BY <2>2, <2>3, <2>4
<1>10. ASSUME NEW u \in U, u # new PROVE \E w \in V : u = Lowered(w, m, k)
  <2>1. /\ u \in AnyWidgets /\ u.place \in 1 .. Len(ch2[u.menu]) /\ u.item = ch2[u.menu][u.place]
        /\ u.on = ck[u.item] /\ u.sub = su[u.item]
    BY DEF WidgetsIn
  <2>2. CASE u.menu # m
    <3>1. u \in V
      BY <1>8, <1>10, <2>1, <2>2
    <3> QED
      BY <2>2, <3>1 DEF Lowered
  <2>3. CASE u.menu = m
    <3>1. PICK p \in 1 .. n + 1 : p = u.place
      BY <1>4, <1>5, <2>1, <2>3
    <3>2. u.item = t[p]
      BY <1>5, <2>1, <2>3, <3>1
    <3>3. CASE p = k
      <4>1. new \in AnyWidgets
        BY <1>7 DEF WidgetsIn
      <4>2. u.menu = new.menu /\ u.place = new.place /\ u.item = new.item
        BY <1>4, <1>6, <2>3, <3>1, <3>2, <3>3
      <4>3. u.on = new.on /\ u.sub = new.sub
        BY <1>6, <2>1, <4>2
      <4>4. u = new
        BY <2>1, <4>1, <4>2, <4>3, SameWidget
      <4> QED
        BY <1>10, <4>4
    <3>4. CASE p < k
      <4>1. p \in 1 .. k - 1 /\ p \in 1 .. n /\ ~(p >= k)
        BY <1>5, <3>4
      <4>2. u.item = s[p]
        BY <1>4, <3>2, <4>1
      <4>3. u \in V
        BY <1>1, <1>2, <2>1, <2>3, <3>1, <4>1, <4>2 DEF WidgetsIn
      <4> QED
        BY <3>1, <4>1, <4>3 DEF Lowered
    <3>5. CASE p > k
      <4>1. p \in k + 1 .. n + 1 /\ p - 1 \in 1 .. n /\ p - 1 \in Nat /\ p - 1 >= k /\ (p - 1) + 1 = p
        BY <1>5, <3>5
      <4>2. u.item = s[p - 1]
        BY <1>4, <3>2, <4>1
      <4>3. PICK w : w = [u EXCEPT !.place = p - 1]
        OBVIOUS
      <4>4. /\ w \in AnyWidgets /\ w.menu = m /\ w.place = p - 1 /\ w.item = u.item
            /\ w.on = u.on /\ w.sub = u.sub
        BY <2>1, <2>3, <4>1, <4>3 DEF AnyWidgets
      <4>5. w \in V
        BY <1>1, <1>2, <2>1, <4>1, <4>2, <4>4 DEF WidgetsIn
      <4>6. Lowered(w, m, k) = [w EXCEPT !.place = p]
        BY <4>1, <4>4 DEF Lowered
      <4>7. Lowered(w, m, k) \in AnyWidgets
        BY <1>9, <4>5 DEF WidgetsIn
      <4>8. /\ Lowered(w, m, k).menu = m /\ Lowered(w, m, k).place = p /\ Lowered(w, m, k).item = u.item
            /\ Lowered(w, m, k).on = u.on /\ Lowered(w, m, k).sub = u.sub
        BY <4>4, <4>6 DEF AnyWidgets
      <4>9. u = Lowered(w, m, k)
        BY <2>1, <2>3, <3>1, <4>7, <4>8, SameWidget
      <4> QED
        BY <4>5, <4>9
    <3>6. p = k \/ p < k \/ p > k
      BY <1>5
    <3> QED
      BY <3>3, <3>4, <3>5, <3>6
  <2> QED
    BY <2>2, <2>3
<1> QED
  BY <1>7, <1>8, <1>9, <1>10 DEF WidgetMore

LEMMA InsertedWays ==
  ASSUME NEW V, NEW graph, Follows(V, graph), NEW U, NEW graph2, Follows(U, graph2), NoCycle(graph2),
         NEW m \in Menus, NEW k, NEW new, WidgetMore(V, U, m, k, new), new.menu = m,
         NotBelow(graph, m, new.sub), NEW r
  PROVE  Ways(U, r) = Through(AllLowered(Ways(V, r), m, k), Ways(V, new.sub), r, new)
<1>1. PICK less : less = U \ {new}
  OBVIOUS
<1>2. /\ new \in U
      /\ \A w \in V : Lowered(w, m, k) \in less
      /\ \A u \in less : \E w \in V : u = Lowered(w, m, k)
      /\ \A w \in AnyWidgets : w.menu # m => (w \in V <=> w \in less)
  BY <1>1 DEF WidgetMore
<1>3. V \subseteq AnyWidgets /\ less \subseteq AnyWidgets
  BY <1>1 DEF Follows
<1> DEFINE moved == {[j \in DOMAIN way |-> Lowered(way[j], m, k)] : way \in Ways(V, r)}
<1>4. moved = Ways(less, r)
  <2>1. PICK M : M = [w \in V |-> Lowered(w, m, k)]
    OBVIOUS
  <2>2. M \in [V -> less] /\ \A u \in less : \E w \in V : u = M[w]
    BY <1>2, <2>1
  <2>3. ASSUME NEW w \in V PROVE M[w].menu = w.menu /\ M[w].sub = w.sub
    BY <1>3, <2>1 DEF Lowered, AnyWidgets
  <2>4. Ways(less, r) = Mapped(Ways(V, r), M)
    BY <2>2, <2>3, AllWaysMapped
  <2>5. ASSUME NEW way \in Ways(V, r)
        PROVE  [j \in DOMAIN way |-> M[way[j]]] = [j \in DOMAIN way |-> Lowered(way[j], m, k)]
    BY <2>1 DEF Ways
  <2> DEFINE one == {[j \in DOMAIN way |-> M[way[j]]] : way \in Ways(V, r)}
  <2>6. one = moved
    BY <2>5
  <2> HIDE DEF one, moved
  <2> QED
    BY <2>4, <2>6 DEF one, Mapped
<1> HIDE DEF moved
<1>5. Ways(V, new.sub) = Ways(less, new.sub)
  <2>1. CASE new.sub \in Menus
    <3>1. \A w \in AnyWidgets :
            w.menu \in {new.sub} \cup Reach(graph, new.sub) => (w \in V <=> w \in less)
      BY <1>2, <2>1 DEF NotBelow
    <3> QED
      BY <1>3, <2>1, <3>1, SameWays
  <2>2. CASE new.sub \notin Menus
    BY <1>3, <2>2, NoWays
  <2> QED
    BY <2>1, <2>2
<1>6. Ways(U, r) = Through(Ways(less, r), Ways(less, new.sub), r, new)
  BY <1>1, <1>2, WaysThrough
<1>7. Ways(U, r) = Through(moved, Ways(V, new.sub), r, new)
  BY <1>4, <1>5, <1>6
<1> QED
  BY <1>7 DEF moved, AllLowered

\* The widgets after a gap that closes in a menu.
Raised(w, m, l, gap) == IF w.menu = m /\ w.place > l THEN [w EXCEPT !.place = @ - gap] ELSE w
AllRaised(ways, m, l, gap) == {[j \in DOMAIN way |-> Raised(way[j], m, l, gap)] : way \in ways}
Cut(w, m, k, l) == w.menu = m /\ w.place \in k .. l

Uncut(ways, m, k, l) == {way \in ways : \A j \in DOMAIN way : ~Cut(way[j], m, k, l)}

\* Of V to U, menu m loses the widgets from k to l.
WidgetsLess(V, U, m, k, l, gap) ==
  /\ \A w \in V : ~Cut(w, m, k, l) => Raised(w, m, l, gap) \in U
  /\ \A u \in U : \E w \in V : ~Cut(w, m, k, l) /\ u = Raised(w, m, l, gap)

LEMMA CutWidgets ==
  ASSUME NEW ch, NEW su, NEW ck, Typed(ch, su, ck),
         NEW m \in Menus, NEW n \in Nat, n = Len(ch[m]), NEW k \in 1 .. n, NEW l \in k .. n,
         NEW gap, gap = l + 1 - k,
         NEW ch2, ch2 = [ch EXCEPT ![m] = SubSeq(ch[m], 1, k - 1) \o SubSeq(ch[m], l + 1, n)],
         NEW V, V = WidgetsIn(ch, su, ck), NEW U, U = WidgetsIn(ch2, su, ck)
  PROVE  WidgetsLess(V, U, m, k, l, gap)
<1>1. PICK s \in Seq(Items) : s = ch[m]
  BY DEF Typed
<1>2. PICK t : t = SubSeq(s, 1, k - 1) \o SubSeq(s, l + 1, n)
  OBVIOUS
<1>3. gap \in Nat /\ n - gap \in Nat /\ gap >= 1
  OBVIOUS
<1>4. /\ t \in Seq(Items) /\ Len(t) = n - gap
      /\ \A p \in 1 .. k - 1 : t[p] = s[p]
      /\ \A p \in k .. n - gap : t[p] = s[p + gap]
  <2>1. IsCutOut(Items, t, s, n, k, gap)
    BY <1>1, <1>2, <1>3, CutOut
  <2> QED
    BY <2>1 DEF IsCutOut
<1>5. ch2[m] = t /\ \A a \in Menus : a # m => ch2[a] = ch[a]
  BY <1>1, <1>2 DEF Typed
<1>6. ASSUME NEW w \in V, ~Cut(w, m, k, l) PROVE Raised(w, m, l, gap) \in U
  <2>1. /\ w \in AnyWidgets /\ w.place \in 1 .. Len(ch[w.menu]) /\ w.item = ch[w.menu][w.place]
        /\ w.on = ck[w.item] /\ w.sub = su[w.item] /\ w.menu \in Menus
    BY DEF WidgetsIn, AnyWidgets
  <2>2. CASE w.menu # m
    BY <1>5, <2>1, <2>2 DEF Raised, WidgetsIn
  <2>3. CASE w.menu = m /\ w.place > l
    <3>1. PICK p \in 1 .. n : p = w.place /\ w.item = s[p]
      BY <1>1, <2>1, <2>3
    <3>2. p - gap \in k .. n - gap /\ p - gap \in 1 .. n - gap /\ p - gap \in Nat /\ (p - gap) + gap = p
      <4>1. p > l
        BY <2>3, <3>1
      <4>2. p - gap >= k /\ p - gap <= n - gap /\ p - gap >= 1
        BY <4>1
      <4> QED
        BY <4>2
    <3>3. PICK u : u = [w EXCEPT !.place = p - gap]
      OBVIOUS
    <3>4. /\ u \in AnyWidgets /\ u.menu = m /\ u.place = p - gap /\ u.item = w.item
          /\ u.on = w.on /\ u.sub = w.sub
      BY <2>1, <2>3, <3>2, <3>3 DEF AnyWidgets
    <3>5. t[p - gap] = s[p]
      BY <1>4, <3>2
    <3>6. u.item = ch2[u.menu][u.place] /\ u.place \in 1 .. Len(ch2[u.menu])
      BY <1>4, <1>5, <3>1, <3>2, <3>4, <3>5
    <3>7. u \in U
      BY <2>1, <3>4, <3>6 DEF WidgetsIn
    <3>8. Raised(w, m, l, gap) = u
      BY <2>3, <3>1, <3>3 DEF Raised
    <3> QED
      BY <3>7, <3>8
  <2>4. CASE w.menu = m /\ ~(w.place > l)
    <3>1. PICK p \in 1 .. n : p = w.place /\ w.item = s[p]
      BY <1>1, <2>1, <2>4
    <3>2. p \in 1 .. k - 1 /\ p \in 1 .. n - gap
      BY <1>6, <2>4, <3>1 DEF Cut
    <3>3. t[p] = s[p]
      BY <1>4, <3>2
    <3>4. w.item = ch2[w.menu][w.place] /\ w.place \in 1 .. Len(ch2[w.menu])
      BY <1>4, <1>5, <2>4, <3>1, <3>2, <3>3
    <3>5. w \in U
      BY <2>1, <3>4 DEF WidgetsIn
    <3> QED
      BY <2>4, <3>5 DEF Raised
  <2> QED
    BY <2>2, <2>3, <2>4
<1>7. ASSUME NEW u \in U PROVE \E w \in V : ~Cut(w, m, k, l) /\ u = Raised(w, m, l, gap)
  <2>1. /\ u \in AnyWidgets /\ u.place \in 1 .. Len(ch2[u.menu]) /\ u.item = ch2[u.menu][u.place]
        /\ u.on = ck[u.item] /\ u.sub = su[u.item] /\ u.menu \in Menus
    BY DEF WidgetsIn, AnyWidgets
  <2>2. CASE u.menu # m
    <3>1. u \in V
      BY <1>5, <2>1, <2>2 DEF WidgetsIn
    <3> QED
      BY <2>2, <3>1 DEF Raised, Cut
  <2>3. CASE u.menu = m
    <3>1. PICK p \in 1 .. n - gap : p = u.place /\ u.item = t[p]
      BY <1>4, <1>5, <2>1, <2>3
    <3>2. CASE p < k
      <4>1. p \in 1 .. k - 1 /\ p \in 1 .. n /\ ~(p > l) /\ p \notin k .. l
        BY <1>3, <3>2
      <4>2. u.item = s[p]
        BY <1>4, <3>1, <4>1
      <4>3. u \in V
        BY <1>1, <2>1, <2>3, <3>1, <4>1, <4>2 DEF WidgetsIn
      <4> QED
        BY <3>1, <4>1, <4>3 DEF Raised, Cut
    <3>3. CASE p >= k
      <4>1. /\ p \in k .. n - gap /\ p + gap \in 1 .. n /\ p + gap \in Nat /\ p + gap > l
            /\ (p + gap) - gap = p /\ p + gap \notin k .. l
        BY <1>3, <3>3
      <4>2. u.item = s[p + gap]
        BY <1>4, <3>1, <4>1
      <4>3. PICK w : w = [u EXCEPT !.place = p + gap]
        OBVIOUS
      <4>4. /\ w \in AnyWidgets /\ w.menu = m /\ w.place = p + gap /\ w.item = u.item
            /\ w.on = u.on /\ w.sub = u.sub
        BY <2>1, <2>3, <4>1, <4>3 DEF AnyWidgets
      <4>5. w \in V /\ ~Cut(w, m, k, l)
        BY <1>1, <2>1, <4>1, <4>2, <4>4 DEF WidgetsIn, Cut
      <4>6. Raised(w, m, l, gap) = [w EXCEPT !.place = p]
        BY <4>1, <4>4 DEF Raised
      <4>7. Raised(w, m, l, gap) \in AnyWidgets
        BY <1>6, <4>5 DEF WidgetsIn
      <4>8. /\ Raised(w, m, l, gap).menu = m /\ Raised(w, m, l, gap).place = p
            /\ Raised(w, m, l, gap).item = u.item /\ Raised(w, m, l, gap).on = u.on
            /\ Raised(w, m, l, gap).sub = u.sub
        BY <4>4, <4>6 DEF AnyWidgets
      <4>9. u = Raised(w, m, l, gap)
        BY <2>1, <2>3, <3>1, <4>7, <4>8, SameWidget
      <4> QED
        BY <4>5, <4>9
    <3>4. p < k \/ p >= k
      OBVIOUS
    <3> QED
      BY <3>2, <3>3, <3>4
  <2> QED
    BY <2>2, <2>3
<1> QED
  BY <1>6, <1>7 DEF WidgetsLess

LEMMA CutWays ==
  ASSUME NEW V, V \subseteq AnyWidgets, NEW U, NEW m, NEW k, NEW l, NEW gap,
         WidgetsLess(V, U, m, k, l, gap), NEW r
  PROVE  Ways(U, r) = AllRaised(Uncut(Ways(V, r), m, k, l), m, l, gap)
<1>1. PICK less : less = {w \in V : ~Cut(w, m, k, l)}
  OBVIOUS
<1>2. PICK M : M = [w \in less |-> Raised(w, m, l, gap)]
  OBVIOUS
<1>3. M \in [less -> U] /\ \A u \in U : \E w \in less : u = M[w]
  BY <1>1, <1>2 DEF WidgetsLess
<1>4. ASSUME NEW w \in less PROVE M[w].menu = w.menu /\ M[w].sub = w.sub
  BY <1>1, <1>2 DEF Raised, AnyWidgets
<1>5. Ways(U, r) = Mapped(Ways(less, r), M)
  BY <1>3, <1>4, AllWaysMapped
<1> DEFINE stay == {w \in Ways(V, r) : \A j \in DOMAIN w : ~Cut(w[j], m, k, l)}
<1>6. stay = Ways(less, r)
  <2>1. ASSUME NEW way \in stay PROVE way \in Ways(less, r)
    <3>1. way \in Seq(V) /\ \A j \in 1 .. Len(way) : way[j] \in less
      BY <1>1 DEF Ways
    <3>2. way \in Seq(less)
      BY <3>1
    <3> QED
      BY <3>2 DEF Ways
  <2>2. ASSUME NEW way \in Ways(less, r) PROVE way \in stay
    <3>1. way \in Seq(less) /\ way \in Seq(V) /\ \A j \in DOMAIN way : way[j] \in less
      BY <1>1 DEF Ways
    <3> QED
      BY <1>1, <3>1 DEF Ways
  <2> QED
    BY <2>1, <2>2
<1>7. ASSUME NEW way \in stay
      PROVE  [j \in DOMAIN way |-> M[way[j]]] = [j \in DOMAIN way |-> Raised(way[j], m, l, gap)]
  BY <1>1, <1>2 DEF Ways
<1> DEFINE one == Mapped(stay, M)
           other == {[j \in DOMAIN way |-> Raised(way[j], m, l, gap)] : way \in stay}
<1>8. one = other
  <2> HIDE DEF stay
  <2> QED
    BY <1>7 DEF Mapped
<1>9. one = Ways(U, r)
  BY <1>5, <1>6
<1>10. stay = Uncut(Ways(V, r), m, k, l)
  BY DEF Uncut
<1> HIDE DEF stay
<1>11. other = AllRaised(stay, m, l, gap)
  BY DEF AllRaised
<1> HIDE DEF one, other
<1> QED
  BY <1>8, <1>9, <1>10, <1>11

\* A new menu below.
Opening(w, i, m) == IF w.item = i THEN [w EXCEPT !.sub = m] ELSE w
AllOpening(ways, i, m) == {[j \in DOMAIN way |-> Opening(way[j], i, m)] : way \in ways}
OfItem(V, i) == {w \in V : w.item = i}

\* Of V to U, the widgets of i open m.
WidgetsOpen(V, U, i, m) ==
  /\ \A w \in V : Opening(w, i, m) \in U
  /\ \A u \in U : \E w \in V : u = Opening(w, i, m)
  /\ \A w \in AnyWidgets : w.item # i => (w \in V <=> w \in U)

LEMMA HungWidgets ==
  ASSUME NEW ch, NEW su, NEW ck, Typed(ch, su, ck), NEW i \in Items, NEW m \in Menus \cup {NoMenu},
         NEW su2, su2 = [su EXCEPT ![i] = m],
         NEW V, V = WidgetsIn(ch, su, ck), NEW U, U = WidgetsIn(ch, su2, ck)
  PROVE  WidgetsOpen(V, U, i, m)
<1>1. ASSUME NEW w \in AnyWidgets, w.item # i PROVE w \in V <=> w \in U
  <2>1. su2[w.item] = su[w.item]
    BY <1>1 DEF AnyWidgets, Typed
  <2> QED
    BY <2>1 DEF WidgetsIn
<1>2. su2[i] = m
  BY DEF Typed
<1>3. ASSUME NEW w \in V PROVE Opening(w, i, m) \in U
  <2>1. w \in AnyWidgets
    BY DEF WidgetsIn
  <2>2. CASE w.item = i
    <3>1. PICK u : u = [w EXCEPT !.sub = m]
      OBVIOUS
    <3>2. /\ u \in AnyWidgets /\ u.menu = w.menu /\ u.place = w.place /\ u.item = w.item
          /\ u.on = w.on /\ u.sub = m
      BY <2>1, <3>1 DEF AnyWidgets
    <3>3. u \in U
      BY <1>2, <2>2, <3>2 DEF WidgetsIn
    <3> QED
      BY <2>2, <3>1, <3>3 DEF Opening
  <2>3. CASE w.item # i
    BY <1>1, <2>1, <2>3 DEF Opening
  <2> QED
    BY <2>2, <2>3
<1>4. ASSUME NEW u \in U PROVE \E w \in V : u = Opening(w, i, m)
  <2>1. u \in AnyWidgets /\ u.item \in Items /\ u.sub = su2[u.item] /\ su[u.item] \in Menus \cup {NoMenu}
    BY DEF WidgetsIn, AnyWidgets, Typed
  <2>2. CASE u.item = i
    <3>1. PICK w : w = [u EXCEPT !.sub = su[u.item]]
      OBVIOUS
    <3>2. /\ w \in AnyWidgets /\ w.menu = u.menu /\ w.place = u.place /\ w.item = u.item
          /\ w.on = u.on /\ w.sub = su[u.item]
      BY <2>1, <3>1 DEF AnyWidgets
    <3>3. w \in V
      BY <3>2 DEF WidgetsIn
    <3>4. Opening(w, i, m) = [w EXCEPT !.sub = m] /\ Opening(w, i, m) \in AnyWidgets
      BY <1>3, <2>2, <3>2, <3>3 DEF Opening, WidgetsIn
    <3>5. /\ Opening(w, i, m).menu = u.menu /\ Opening(w, i, m).place = u.place
          /\ Opening(w, i, m).item = u.item /\ Opening(w, i, m).on = u.on /\ Opening(w, i, m).sub = u.sub
      BY <1>2, <2>1, <2>2, <3>2, <3>4 DEF AnyWidgets
    <3>6. u = Opening(w, i, m)
      BY <2>1, <3>4, <3>5, SameWidget
    <3> QED
      BY <3>3, <3>6
  <2>3. CASE u.item # i
    BY <1>1, <2>1, <2>3 DEF Opening
  <2> QED
    BY <2>2, <2>3
<1> QED
  BY <1>1, <1>3, <1>4 DEF WidgetsOpen

LEMMA HungWays ==
  ASSUME NEW V, NEW graph, Follows(V, graph), NEW U, NEW graph2, Follows(U, graph2), NoCycle(graph2),
         NEW i, NEW m, WidgetsOpen(V, U, i, m),
         m \in Menus => \A w \in V \cup U : w.menu \in {m} \cup Reach(graph, m) => w.item # i, NEW r
  PROVE  Ways(U, r) = Beyond(AllOpening(EndWays(V, OfItem(V, i), r), i, m), OfItem(U, i), Ways(V, m))
<1>1. V \subseteq AnyWidgets /\ U \subseteq AnyWidgets
  BY DEF Follows
<1>2. PICK I : I = OfItem(V, i)
  OBVIOUS
<1>3. PICK J : J = OfItem(U, i)
  OBVIOUS
<1>4. PICK M : M = [w \in V |-> Opening(w, i, m)]
  OBVIOUS
<1>5. ASSUME NEW w \in V
      PROVE  M[w].menu = w.menu /\ (w \notin I => M[w].sub = w.sub) /\ (M[w] \in J <=> w \in I)
  <2>1. w \in AnyWidgets /\ M[w] = Opening(w, i, m) /\ M[w] \in U
    BY <1>1, <1>4 DEF WidgetsOpen
  <2>2. M[w].menu = w.menu /\ M[w].item = w.item /\ (w.item # i => M[w].sub = w.sub)
    BY <2>1 DEF Opening, AnyWidgets
  <2> QED
    BY <1>2, <1>3, <2>1, <2>2 DEF OfItem
<1>6. StaysLinked(V, U, M, I, J) /\ \A u \in U : \E w \in V : u = M[w]
  BY <1>4, <1>5 DEF StaysLinked, WidgetsOpen
<1> DEFINE hung == {[j \in DOMAIN way |-> Opening(way[j], i, m)] : way \in EndWays(V, I, r)}
<1>7. hung = EndWays(U, J, r)
  <2>1. EndWays(U, J, r) = Mapped(EndWays(V, I, r), M)
    BY <1>6, WaysMapped
  <2>2. ASSUME NEW way \in EndWays(V, I, r)
        PROVE  [j \in DOMAIN way |-> M[way[j]]] = [j \in DOMAIN way |-> Opening(way[j], i, m)]
    BY <1>4 DEF EndWays, Ways
  <2> DEFINE one == {[j \in DOMAIN way |-> M[way[j]]] : way \in EndWays(V, I, r)}
  <2>3. one = hung
    BY <2>2
  <2> HIDE DEF one, hung
  <2> QED
    BY <2>1, <2>3 DEF one, Mapped
<1> HIDE DEF hung
<1>8. Ways(V, m) = Ways(U, m)
  <2>1. CASE m \in Menus
    <3>1. ASSUME NEW w \in AnyWidgets, w.menu \in {m} \cup Reach(graph, m) PROVE w \in V <=> w \in U
      BY <2>1, <3>1 DEF WidgetsOpen
    <3> QED
      BY <1>1, <2>1, <3>1, SameWays
  <2>2. CASE m \notin Menus
    BY <1>1, <2>2, NoWays
  <2> QED
    BY <2>1, <2>2
<1>9. ASSUME NEW u \in U, u \in J PROVE u.sub = m
  <2>1. PICK w \in V : u = Opening(w, i, m)
    BY DEF WidgetsOpen
  <2>2. w \in AnyWidgets /\ u.item = i
    BY <1>1, <1>3, <1>9 DEF OfItem
  <2>3. w.item = i
    BY <2>1, <2>2 DEF Opening
  <2> QED
    BY <2>1, <2>2, <2>3 DEF Opening, AnyWidgets
<1>10. Ways(U, r) = Beyond(EndWays(U, J, r), J, Ways(U, m))
  BY <1>9, WaysBeyond
<1>11. Ways(U, r) = Beyond(hung, J, Ways(V, m))
  BY <1>7, <1>8, <1>10
<1> QED
  BY <1>2, <1>3, <1>11 DEF hung, AllOpening

-----------------------------------------------------------------------------
(* What a change does to a menu bar.                                       *)

\* Items in menus that reach no cycle: what the mirroring rests on.
Ordered(ch, su, ck) == Typed(ch, su, ck) /\ NoCycle(GraphIn(ch, su))
Bar(m, ways) == [menu |-> m, widgets |-> ways]
BarsOf(ch, su, ck) == {Bar(m, Ways(WidgetsIn(ch, su, ck), m)) : m \in Menus}

LEMMA BarNow ==
  /\ Ordered(children, submenu, checked) =>
       \A r : NativeBar(r) = Bar(r, Ways(WidgetsIn(children, submenu, checked), r))
  /\ Ordered(children', submenu', checked') =>
       \A r : NativeBar(r)' = Bar(r, Ways(WidgetsIn(children', submenu', checked'), r))
<1>1. ASSUME Ordered(children, submenu, checked), NEW r
      PROVE  NativeBar(r) = Bar(r, Ways(WidgetsIn(children, submenu, checked), r))
  BY <1>1, NativeNow DEF NativeBar, Bar, Ordered
<1>2. ASSUME Ordered(children', submenu', checked'), NEW r
      PROVE  NativeBar(r)' = Bar(r, Ways(WidgetsIn(children', submenu', checked'), r))
  BY <1>2, NativeNow DEF NativeBar, Bar, Ordered
<1> QED
  BY <1>1, <1>2

LEMMA MarkedBar ==
  ASSUME Ordered(children, submenu, checked), NEW i \in Items, NEW on \in BOOLEAN,
         UNCHANGED <<children, submenu>>, checked' = [checked EXCEPT ![i] = on]
  PROVE  /\ Ordered(children, submenu, checked)'
         /\ \A r \in Menus : Marked(NativeBar(r), i, on) = NativeBar(r)'
<1>1. PICK ch, su, ck, ck2 : ch = children /\ su = submenu /\ ck = checked /\ ck2 = checked'
  OBVIOUS
<1>2. Typed(ch, su, ck) /\ NoCycle(GraphIn(ch, su)) /\ ck2 = [ck EXCEPT ![i] = on]
  BY <1>1 DEF Ordered
<1>3. PICK V, U : V = WidgetsIn(ch, su, ck) /\ U = WidgetsIn(ch, su, ck2)
  OBVIOUS
<1>4. Marks(ck, ck2, i, on)
  BY <1>2 DEF Marks
<1>5. ASSUME NEW r PROVE Ways(U, r) = AllRemarked(Ways(V, r), i, on)
  BY <1>2, <1>3, <1>4, MarkedWays
<1>6. Ordered(ch, su, ck2)
  BY <1>2 DEF Ordered, Typed
<1>7. Ordered(children, submenu, checked)' /\ Ordered(children', submenu', checked')
  BY <1>1, <1>6
<1>8. ASSUME NEW r \in Menus PROVE Marked(NativeBar(r), i, on) = NativeBar(r)'
  <2>1. PICK old : old = Ways(V, r)
    OBVIOUS
  <2>2. NativeBar(r) = Bar(r, old)
    BY <1>1, <1>3, <2>1, BarNow
  <2>3. NativeBar(r)' = Bar(r, Ways(U, r))
    BY <1>1, <1>7, <1>3, BarNow
  <2>4. NativeBar(r)' = Bar(r, AllRemarked(old, i, on))
    BY <1>5, <2>1, <2>3
  <2>5. Marked(Bar(r, old), i, on) = Bar(r, AllRemarked(old, i, on))
    <3>1. Marked(Bar(r, old), i, on) =
            [Bar(r, old) EXCEPT !.widgets = AllRemarked(Bar(r, old).widgets, i, on)]
      BY DEF Marked, Remarked, AllRemarked
    <3>2. Bar(r, old).widgets = old
      BY DEF Bar
    <3>3. \A x : [Bar(r, old) EXCEPT !.widgets = x] = Bar(r, x)
      BY DEF Bar
    <3> QED
      BY <3>1, <3>2, <3>3
  <2> QED
    BY <2>2, <2>4, <2>5
<1> QED
  BY <1>7, <1>8

LEMMA InsertedBar ==
  ASSUME Ordered(children, submenu, checked), NEW m \in Menus, NEW i \in Items,
         NEW k \in 1 .. Len(children[m]) + 1, ~ContainsSubmenu(i, m),
         children' = [children EXCEPT ![m] = InsertAt(@, k, i)], UNCHANGED <<submenu, checked>>
  PROVE  /\ Ordered(children, submenu, checked)'
         /\ \A r \in Menus : Inserted(NativeBar(r), m, k, i) = NativeBar(r)'
<1>1. PICK ch, su, ck, ch2 : ch = children /\ su = submenu /\ ck = checked /\ ch2 = children'
  OBVIOUS
<1>2. Typed(ch, su, ck) /\ NoCycle(GraphIn(ch, su)) /\ Inserts(ch, ch2, m, k, i)
  BY <1>1 DEF Ordered, Inserts
<1>3. PICK graph, graph2 : graph = GraphIn(ch, su) /\ graph2 = GraphIn(ch2, su)
  OBVIOUS
<1>4. NotBelow(graph, m, su[i])
  <2>1. \A s \in Menus : Under(s) = Reach(graph, s)
    BY <1>1, <1>2, <1>3, UnderNow
  <2>2. su[i] \in Menus => su[i] # NoMenu
    BY MenusAssumption
  <2> QED
    BY <1>1, <2>1, <2>2 DEF ContainsSubmenu, Shown, NotBelow
<1>5. Typed(ch2, su, ck) /\ NoCycle(graph2)
  <2>1. Typed(ch2, su, ck) /\ NoCycle(GraphIn(ch2, su))
    BY <1>2, <1>3, <1>4, InsertedKeepsOrder
  <2> QED
    BY <1>3, <2>1
<1>6. Ordered(children, submenu, checked)' /\ Ordered(children', submenu', checked')
  BY <1>1, <1>3, <1>5 DEF Ordered
<1>7. PICK V, U : V = WidgetsIn(ch, su, ck) /\ U = WidgetsIn(ch2, su, ck)
  OBVIOUS
<1>8. PICK new : new = [menu |-> m, place |-> k, item |-> i, on |-> ck[i], sub |-> su[i]]
  OBVIOUS
<1>9. new = Widget(m, k, i) /\ new.menu = m /\ new.sub = su[i]
  BY <1>1, <1>8 DEF Widget
<1>10. WidgetMore(V, U, m, k, new)
  BY <1>2, <1>5, <1>7, <1>8, InsertedWidgets
<1>11. Follows(V, graph) /\ Follows(U, graph2)
  BY <1>2, <1>3, <1>5, <1>7, WidgetsFollow
<1>12. NotBelow(graph, m, new.sub)
  BY <1>4, <1>9
<1>13. ASSUME NEW r
       PROVE  Ways(U, r) = Through(AllLowered(Ways(V, r), m, k), Ways(V, new.sub), r, new)
  BY <1>5, <1>9, <1>10, <1>11, <1>12, InsertedWays
<1>14. ASSUME NEW r \in Menus PROVE Inserted(NativeBar(r), m, k, i) = NativeBar(r)'
  <2>1. PICK old, below : old = Ways(V, r) /\ below = Ways(V, new.sub)
    OBVIOUS
  <2>2. NativeBar(r) = Bar(r, old)
    BY <1>1, <1>7, <2>1, BarNow
  <2>3. NativeBar(r)' = Bar(r, Ways(U, r))
    BY <1>1, <1>6, <1>7, BarNow
  <2> DEFINE moved == AllLowered(old, m, k)
  <2>4. Ways(U, r) = Through(moved, below, r, new)
    BY <1>13, <2>1
  <2>5. NativeMenu(submenu[i]) = below
    BY <1>1, <1>7, <1>9, <2>1, NativeNow DEF Ordered
  <2>6. NativeItem(m, k, i) = {<<new>> \o way : way \in {<<>>} \cup below}
    BY <1>9, <2>5 DEF NativeItem
  <2>7. PICK item : item = NativeItem(m, k, i)
    OBVIOUS
  <2> DEFINE shown == moved \cup {shell \o x : shell \in ShellsOf(Bar(r, old), m, moved), x \in item}
  <2>8. Inserted(Bar(r, old), m, k, i) = Bar(r, shown)
    <3> DEFINE bar == Bar(r, old)
               all == AllLowered(bar.widgets, m, k)
    <3>1. Inserted(bar, m, k, i) =
            [bar EXCEPT !.widgets =
               all \cup {shell \o x : shell \in ShellsOf(bar, m, all), x \in NativeItem(m, k, i)}]
      <4> HIDE DEF bar
      <4> QED
        BY DEF Inserted, Lowered, AllLowered
    <3>2. bar.widgets = old
      BY DEF Bar
    <3>3. \A x : [bar EXCEPT !.widgets = x] = Bar(r, x)
      BY DEF Bar
    <3>4. all = moved
      BY <3>2
    <3> DEFINE more == moved \cup {shell \o x : shell \in ShellsOf(bar, m, moved), x \in item}
    <3> HIDE DEF all, moved
    <3>6. more = moved \cup {shell \o x : shell \in ShellsOf(bar, m, moved), x \in NativeItem(m, k, i)}
      BY <2>7
    <3>7. Inserted(bar, m, k, i) = [bar EXCEPT !.widgets = more]
      BY <2>7, <3>1, <3>4
    <3> HIDE DEF more
    <3>8. [bar EXCEPT !.widgets = more] = Bar(r, more)
      BY <3>3
    <3>5. Inserted(bar, m, k, i) =
            Bar(r, moved \cup {shell \o x : shell \in ShellsOf(bar, m, moved), x \in item})
      BY <3>7, <3>8 DEF more
    <3> QED
      BY <3>5
  <2>9. ShellsOf(Bar(r, old), m, moved) =
          {way \in moved : Last(way).sub = new.menu} \cup (IF r = new.menu THEN {<<>>} ELSE {})
    BY <1>9 DEF ShellsOf, Bar
  <2> HIDE DEF moved
  <2>10. shown = Through(moved, below, r, new)
    BY <2>6, <2>7, <2>9 DEF Through
  <2>11. shown = Ways(U, r)
    BY <2>4, <2>10
  <2> HIDE DEF shown
  <2>12. Inserted(Bar(r, old), m, k, i) = Bar(r, Ways(U, r))
    BY <2>8, <2>11
  <2> QED
    BY <2>2, <2>3, <2>12
<1> QED
  BY <1>6, <1>14

LEMMA RemovedBar ==
  ASSUME Ordered(children, submenu, checked), NEW m \in Menus,
         NEW k \in 1 .. Len(children[m]), NEW l \in k .. Len(children[m]),
         children' = [children EXCEPT ![m] = SubSeq(@, 1, k - 1) \o SubSeq(@, l + 1, Len(@))],
         UNCHANGED <<submenu, checked>>
  PROVE  /\ Ordered(children, submenu, checked)'
         /\ \A r \in Menus : Removed(NativeBar(r), m, k, l) = NativeBar(r)'
<1>1. PICK ch, su, ck, ch2 : ch = children /\ su = submenu /\ ck = checked /\ ch2 = children'
  OBVIOUS
<1>2. Typed(ch, su, ck) /\ NoCycle(GraphIn(ch, su))
  BY <1>1 DEF Ordered
<1>3. PICK n \in Nat : n = Len(ch[m])
  BY <1>2 DEF Typed
<1>4. /\ k \in 1 .. n /\ l \in k .. n
      /\ ch2 = [ch EXCEPT ![m] = SubSeq(ch[m], 1, k - 1) \o SubSeq(ch[m], l + 1, n)]
  BY <1>1, <1>3
<1>5. Typed(ch2, su, ck) /\ NoCycle(GraphIn(ch2, su))
  BY <1>2, <1>3, <1>4, CutKeepsOrder
<1>6. Ordered(children, submenu, checked)' /\ Ordered(children', submenu', checked')
  BY <1>1, <1>5 DEF Ordered
<1>7. PICK V, U, gap : V = WidgetsIn(ch, su, ck) /\ U = WidgetsIn(ch2, su, ck) /\ gap = l + 1 - k
  OBVIOUS
<1>8. WidgetsLess(V, U, m, k, l, gap)
  BY <1>2, <1>3, <1>4, <1>7, CutWidgets
<1>9. V \subseteq AnyWidgets
  BY <1>7 DEF WidgetsIn
<1>10. ASSUME NEW r PROVE Ways(U, r) = AllRaised(Uncut(Ways(V, r), m, k, l), m, l, gap)
  BY <1>8, <1>9, CutWays
<1>11. ASSUME NEW r \in Menus PROVE Removed(NativeBar(r), m, k, l) = NativeBar(r)'
  <2>1. PICK old : old = Ways(V, r)
    OBVIOUS
  <2>2. NativeBar(r) = Bar(r, old)
    BY <1>1, <1>7, <2>1, BarNow
  <2>3. NativeBar(r)' = Bar(r, Ways(U, r))
    BY <1>1, <1>6, <1>7, BarNow
  <2>4. NativeBar(r)' = Bar(r, AllRaised(Uncut(old, m, k, l), m, l, gap))
    BY <1>10, <2>1, <2>3
  <2>5. Removed(Bar(r, old), m, k, l) = Bar(r, AllRaised(Uncut(old, m, k, l), m, l, gap))
    <3> DEFINE bar == Bar(r, old)
    <3>1. Removed(bar, m, k, l) =
            [bar EXCEPT !.widgets = AllRaised(Uncut(bar.widgets, m, k, l), m, l, gap)]
      <4> HIDE DEF bar
      <4> QED
        BY <1>7 DEF Removed, Raised, AllRaised, Uncut, Cut
    <3>2. bar.widgets = old
      BY DEF Bar
    <3>3. \A x : [bar EXCEPT !.widgets = x] = Bar(r, x)
      BY DEF Bar
    <3> QED
      BY <3>1, <3>2, <3>3
  <2> QED
    BY <2>2, <2>4, <2>5
<1> QED
  BY <1>6, <1>11

LEMMA HungBar ==
  ASSUME Ordered(children, submenu, checked), NEW i \in Items, NEW m \in Menus \cup {NoMenu},
         m # NoMenu => ~ContainsItem(m, i),
         submenu' = [submenu EXCEPT ![i] = m], UNCHANGED <<children, checked>>
  PROVE  /\ Ordered(children, submenu, checked)'
         /\ \A r \in Menus : Hung(NativeBar(r), i, m) = NativeBar(r)'
<1>1. PICK ch, su, ck, su2 : ch = children /\ su = submenu /\ ck = checked /\ su2 = submenu'
  OBVIOUS
<1>2. Typed(ch, su, ck) /\ NoCycle(GraphIn(ch, su)) /\ su2 = [su EXCEPT ![i] = m]
  BY <1>1 DEF Ordered
<1>3. PICK graph, graph2 : graph = GraphIn(ch, su) /\ graph2 = GraphIn(ch, su2)
  OBVIOUS
<1>4. ASSUME m \in Menus, NEW x \in {m} \cup Reach(graph, m), NEW p \in 1 .. Len(ch[x])
      PROVE  ch[x][p] # i
  <2>1. \A s \in Menus : Under(s) = Reach(graph, s)
    BY <1>1, <1>2, <1>3, UnderNow
  <2>2. m # NoMenu
    BY <1>4, MenusAssumption
  <2>3. x \in Shown(m) /\ x \in Menus
    BY <1>4, <2>1, <2>2 DEF Shown, Under
  <2>4. ch[x] \in Seq(Items)
    BY <1>2, <2>3 DEF Typed
  <2>5. ch[x][p] \in ItemsOf(Shown(m))
    BY <1>1, <2>3, <2>4 DEF ItemsOf, Range
  <2> QED
    BY <2>2, <2>5 DEF ContainsItem
<1>5. Typed(ch, su2, ck) /\ NoCycle(GraphIn(ch, su2))
  <2>1. m \in Menus => \A x \in {m} \cup Reach(graph, m) : \A p \in 1 .. Len(ch[x]) : ch[x][p] # i
    BY <1>4
  <2> QED
    BY <1>2, <1>3, <2>1, HungKeepsOrder
<1>6. Ordered(children, submenu, checked)' /\ Ordered(children', submenu', checked')
  BY <1>1, <1>5 DEF Ordered
<1>7. PICK V, U : V = WidgetsIn(ch, su, ck) /\ U = WidgetsIn(ch, su2, ck)
  OBVIOUS
<1>8. WidgetsOpen(V, U, i, m)
  BY <1>2, <1>7, HungWidgets
<1>9. Follows(V, graph) /\ Follows(U, graph2) /\ NoCycle(graph2)
  BY <1>2, <1>3, <1>5, <1>7, WidgetsFollow
<1>10. ASSUME m \in Menus, NEW w \in V \cup U, w.menu \in {m} \cup Reach(graph, m) PROVE w.item # i
  <2>1. w.place \in 1 .. Len(ch[w.menu]) /\ w.item = ch[w.menu][w.place]
    BY <1>7, <1>10 DEF WidgetsIn
  <2> QED
    BY <1>4, <1>10, <2>1
<1>11. m \in Menus => \A w \in V \cup U : w.menu \in {m} \cup Reach(graph, m) => w.item # i
  BY <1>10
<1>12. ASSUME NEW r
       PROVE  Ways(U, r) = Beyond(AllOpening(EndWays(V, OfItem(V, i), r), i, m), OfItem(U, i), Ways(V, m))
  BY <1>8, <1>9, <1>11, HungWays
<1>13. ASSUME NEW r \in Menus PROVE Hung(NativeBar(r), i, m) = NativeBar(r)'
  <2>1. PICK old, below : old = Ways(V, r) /\ below = Ways(V, m)
    OBVIOUS
  <2>2. NativeBar(r) = Bar(r, old)
    BY <1>1, <1>7, <2>1, BarNow
  <2>3. NativeBar(r)' = Bar(r, Ways(U, r))
    BY <1>1, <1>6, <1>7, BarNow
  <2>4. PICK above : above = {way \in old : \A j \in DOMAIN way : way[j].item = i => j = Len(way)}
    OBVIOUS
  <2>5. above = EndWays(V, OfItem(V, i), r)
    <3>1. ASSUME NEW way \in old
          PROVE  /\ DOMAIN way = 1 .. Len(way)
                 /\ \A j \in 1 .. Len(way) : way[j].item = i <=> way[j] \in OfItem(V, i)
      BY <2>1 DEF Ways, OfItem
    <3> QED
      BY <2>1, <2>4, <3>1 DEF EndWays
  <2>6. PICK hung : hung = AllOpening(above, i, m)
    OBVIOUS
  <2>7. Ways(U, r) = Beyond(hung, OfItem(U, i), below)
    BY <1>12, <2>1, <2>5, <2>6
  <2>8. NativeMenu(m) = below
    BY <1>1, <1>2, <1>7, <2>1, NativeNow
  <2> DEFINE of == {w \in hung : Last(w).item = i}
             shown == hung \cup {way \o x : way \in of, x \in below}
  <2>9. shown = Beyond(hung, OfItem(U, i), below)
    <3>1. ASSUME NEW way \in hung PROVE Last(way) \in OfItem(U, i) <=> Last(way).item = i
      <4>1. PICK w \in above : way = [j \in DOMAIN w |-> Opening(w[j], i, m)]
        BY <2>6 DEF AllOpening
      <4>2. w \in Seq(V) /\ w # <<>>
        BY <2>1, <2>4 DEF Ways
      <4>3. PICK n \in Nat : n = Len(w) /\ n \in 1 .. n /\ DOMAIN w = 1 .. n /\ w[n] \in V
        BY <4>2
      <4>4. Len(way) = n /\ way[n] = Opening(w[n], i, m)
        BY <4>1, <4>3
      <4>5. way[n] \in U
        BY <1>8, <4>3, <4>4 DEF WidgetsOpen
      <4> QED
        BY <4>4, <4>5 DEF Last, OfItem
    <3> DEFINE in == {w \in hung : Last(w) \in OfItem(U, i)}
    <3>2. of = in
      BY <3>1
    <3>3. Beyond(hung, OfItem(U, i), below) = hung \cup {way \o x : way \in in, x \in below}
      BY DEF Beyond
    <3> HIDE DEF of, in
    <3> QED
      BY <3>2, <3>3
  <2>10. Hung(Bar(r, old), i, m) = Bar(r, shown)
    <3> DEFINE bar == Bar(r, old)
               ends == {way \in bar.widgets : \A j \in DOMAIN way : way[j].item = i => j = Len(way)}
               ends2 == AllOpening(ends, i, m)
               all == ends2 \cup {way \o x : way \in {w \in ends2 : Last(w).item = i}, x \in NativeMenu(m)}
    <3>1. Hung(bar, i, m) = [bar EXCEPT !.widgets = all]
      <4> HIDE DEF bar
      <4> QED
        BY DEF Hung, Opening, AllOpening
    <3>2. bar.widgets = old
      BY DEF Bar
    <3>3. \A x : [bar EXCEPT !.widgets = x] = Bar(r, x)
      BY DEF Bar
    <3>4. ends = above
      BY <2>4, <3>2
    <3> HIDE DEF ends
    <3>5. ends2 = hung
      BY <2>6, <3>4
    <3> HIDE DEF ends2
    <3>6. all = shown
      BY <2>8, <3>5
    <3> HIDE DEF all, shown
    <3> QED
      BY <3>1, <3>3, <3>6
  <2> HIDE DEF shown
  <2> QED
    BY <2>2, <2>3, <2>7, <2>9, <2>10
<1> QED
  BY <1>6, <1>13

-----------------------------------------------------------------------------
(* The menu bars of the windows.                                           *)

\* Windows and the bars in them, of those in set old.
Packed(bs, old) == bs \in [MenuWindows -> Seq(old)]

Changed(bs, f) == [w \in MenuWindows |-> [b \in DOMAIN bs[w] |-> f[bs[w][b]]]]
NoneLost(bs, bs2) == \A w \in MenuWindows : bs[w] # <<>> => bs2[w] # <<>>

LEMMA EachPacked ==
  ASSUME NEW old, NEW new, NEW f \in [old -> new], NEW bs, Packed(bs, old)
  PROVE  Packed(Changed(bs, f), new) /\ NoneLost(bs, Changed(bs, f))
<1>1. ASSUME NEW w \in MenuWindows
      PROVE  /\ [b \in DOMAIN bs[w] |-> f[bs[w][b]]] \in Seq(new)
             /\ bs[w] # <<>> => [b \in DOMAIN bs[w] |-> f[bs[w][b]]] # <<>>
  <2>1. PICK s \in Seq(old) : s = bs[w]
    BY DEF Packed
  <2>2. PICK n \in Nat : n = Len(s) /\ DOMAIN s = 1 .. n /\ \A b \in 1 .. n : f[s[b]] \in new
    BY <2>1
  <2>3. PICK t : t = [b \in 1 .. n |-> f[s[b]]]
    OBVIOUS
  <2>4. t \in Seq(new) /\ Len(t) = n
    BY <2>2, <2>3
  <2>5. s # <<>> => t # <<>>
    BY <2>2, <2>4
  <2> QED
    BY <2>1, <2>2, <2>3, <2>4, <2>5
<1> QED
  BY <1>1 DEF Packed, Changed, NoneLost

\* The menu bars that show the menus as they are.
BarsNow == {NativeBar(m) : m \in Menus}

ModelInv ==
  /\ Ordered(children, submenu, checked)
  /\ clicked \in Seq(Items \X BOOLEAN) /\ appMenu \in Menus \cup {NoMenu}

WindowInv ==
  /\ ownMenu \in [MenuWindows -> Menus \cup {NoMenu}] /\ hasNative \in [MenuWindows -> BOOLEAN]
  /\ Packed(bars, BarsNow)
  /\ \A w \in MenuWindows : hasNative[w] => bars[w] # <<>>

MenusInv == ModelInv /\ WindowInv

\* Every bar of a state becomes one of the next.
LEMMA BarsChange ==
  ASSUME WindowInv, NEW f, f \in [BarsNow -> BarsNow'], bars' = Changed(bars, f),
         UNCHANGED <<ownMenu, hasNative>>
  PROVE  WindowInv'
<1>1. PICK old, new : old = BarsNow /\ new = BarsNow'
  OBVIOUS
<1>2. PICK bs : bs = bars
  OBVIOUS
<1>3. Packed(bs, old) /\ f \in [old -> new]
  BY <1>1, <1>2 DEF WindowInv
<1>4. Packed(Changed(bs, f), new) /\ NoneLost(bs, Changed(bs, f))
  BY <1>3, EachPacked
<1>5. Packed(bars', new) /\ NoneLost(bars, bars')
  BY <1>2, <1>4
<1>6. Packed(bars, BarsNow)'
  BY <1>1, <1>5
<1> QED
  BY <1>5, <1>6 DEF WindowInv, NoneLost

LEMMA SameBars ==
  ASSUME Ordered(children, submenu, checked), UNCHANGED <<children, submenu, checked>>
  PROVE  Ordered(children, submenu, checked)' /\ BarsNow' = BarsNow
<1>1. Ordered(children', submenu', checked') /\ Ordered(children, submenu, checked)'
  OBVIOUS
<1>2. ASSUME NEW m \in Menus PROVE NativeBar(m)' = NativeBar(m)
  BY <1>1, BarNow
<1> QED
  BY <1>1, <1>2 DEF BarsNow

LEMMA InsertStep ==
  ASSUME MenusInv, NEW m \in Menus, NEW i \in Items, NEW k, InsertItemAt(m, i, k)
  PROVE  MenusInv'
<1>1. /\ Ordered(children, submenu, checked) /\ k \in 1 .. Len(children[m]) + 1 /\ ~ContainsSubmenu(i, m)
      /\ children' = [children EXCEPT ![m] = InsertAt(@, k, i)] /\ UNCHANGED <<submenu, checked>>
  BY DEF MenusInv, ModelInv, InsertItemAt, InsertWidgets
<1>2. /\ Ordered(children, submenu, checked)'
      /\ \A r \in Menus : Inserted(NativeBar(r), m, k, i) = NativeBar(r)'
  BY <1>1, InsertedBar
<1>3. PICK f : f = [b \in BarsNow |-> Inserted(b, m, k, i)]
  OBVIOUS
<1>4. f \in [BarsNow -> BarsNow']
  BY <1>2, <1>3 DEF BarsNow
<1>5. bars' = Changed(bars, f)
  <2>1. bars' = [w \in MenuWindows |-> [b \in DOMAIN bars[w] |-> Inserted(bars[w][b], m, k, i)]]
    BY DEF InsertItemAt, InsertWidgets, EachBar
  <2>2. ASSUME NEW w \in MenuWindows, NEW b \in DOMAIN bars[w]
        PROVE  f[bars[w][b]] = Inserted(bars[w][b], m, k, i)
    BY <1>3 DEF MenusInv, WindowInv, Packed
  <2> QED
    BY <2>1, <2>2 DEF Changed
<1>6. UNCHANGED <<clicked, appMenu, ownMenu, hasNative>>
  BY DEF InsertItemAt
<1>7. WindowInv'
  BY <1>4, <1>5, <1>6, BarsChange DEF MenusInv
<1> QED
  BY <1>2, <1>6, <1>7 DEF MenusInv, ModelInv

LEMMA RemoveStep ==
  ASSUME MenusInv, NEW m \in Menus, NEW k \in 1 .. Len(children[m]), NEW l \in k .. Len(children[m]),
         RemoveWidgets(m, k, l)
  PROVE  MenusInv'
<1>1. /\ Ordered(children, submenu, checked)
      /\ children' = [children EXCEPT ![m] = SubSeq(@, 1, k - 1) \o SubSeq(@, l + 1, Len(@))]
      /\ UNCHANGED <<submenu, checked>>
  BY DEF MenusInv, ModelInv, RemoveWidgets
<1>2. /\ Ordered(children, submenu, checked)'
      /\ \A r \in Menus : Removed(NativeBar(r), m, k, l) = NativeBar(r)'
  BY <1>1, RemovedBar
<1>3. PICK f : f = [b \in BarsNow |-> Removed(b, m, k, l)]
  OBVIOUS
<1>4. f \in [BarsNow -> BarsNow']
  BY <1>2, <1>3 DEF BarsNow
<1>5. bars' = Changed(bars, f)
  <2>1. bars' = [w \in MenuWindows |-> [b \in DOMAIN bars[w] |-> Removed(bars[w][b], m, k, l)]]
    BY DEF RemoveWidgets, EachBar
  <2>2. ASSUME NEW w \in MenuWindows, NEW b \in DOMAIN bars[w]
        PROVE  f[bars[w][b]] = Removed(bars[w][b], m, k, l)
    BY <1>3 DEF MenusInv, WindowInv, Packed
  <2> QED
    BY <2>1, <2>2 DEF Changed
<1>6. UNCHANGED <<clicked, appMenu, ownMenu, hasNative>>
  BY DEF RemoveWidgets
<1>7. WindowInv'
  BY <1>4, <1>5, <1>6, BarsChange DEF MenusInv
<1> QED
  BY <1>2, <1>6, <1>7 DEF MenusInv, ModelInv

LEMMA SubmenuStep ==
  ASSUME MenusInv, NEW i \in Items, NEW m \in Menus \cup {NoMenu}, SetSubmenu(i, m)
  PROVE  MenusInv'
<1>1. /\ Ordered(children, submenu, checked) /\ (m # NoMenu => ~ContainsItem(m, i))
      /\ submenu' = [submenu EXCEPT ![i] = m] /\ UNCHANGED <<children, checked>>
  BY DEF MenusInv, ModelInv, SetSubmenu
<1>2. /\ Ordered(children, submenu, checked)'
      /\ \A r \in Menus : Hung(NativeBar(r), i, m) = NativeBar(r)'
  BY <1>1, HungBar
<1>3. PICK f : f = [b \in BarsNow |-> Hung(b, i, m)]
  OBVIOUS
<1>4. f \in [BarsNow -> BarsNow']
  BY <1>2, <1>3 DEF BarsNow
<1>5. bars' = Changed(bars, f)
  <2>1. bars' = [w \in MenuWindows |-> [b \in DOMAIN bars[w] |-> Hung(bars[w][b], i, m)]]
    BY DEF SetSubmenu, EachBar
  <2>2. ASSUME NEW w \in MenuWindows, NEW b \in DOMAIN bars[w]
        PROVE  f[bars[w][b]] = Hung(bars[w][b], i, m)
    BY <1>3 DEF MenusInv, WindowInv, Packed
  <2> QED
    BY <2>1, <2>2 DEF Changed
<1>6. UNCHANGED <<clicked, appMenu, ownMenu, hasNative>>
  BY DEF SetSubmenu
<1>7. WindowInv'
  BY <1>4, <1>5, <1>6, BarsChange DEF MenusInv
<1> QED
  BY <1>2, <1>6, <1>7 DEF MenusInv, ModelInv

LEMMA MarkStep ==
  ASSUME MenusInv, NEW i \in Items, NEW on \in BOOLEAN, ChangeMark(i, on)
  PROVE  Ordered(children, submenu, checked)' /\ WindowInv' /\ appMenu' = appMenu
<1>1. /\ Ordered(children, submenu, checked)
      /\ checked' = [checked EXCEPT ![i] = on] /\ UNCHANGED <<children, submenu>>
  BY DEF MenusInv, ModelInv, ChangeMark
<1>2. /\ Ordered(children, submenu, checked)'
      /\ \A r \in Menus : Marked(NativeBar(r), i, on) = NativeBar(r)'
  BY <1>1, MarkedBar
<1>3. PICK f : f = [b \in BarsNow |-> Marked(b, i, on)]
  OBVIOUS
<1>4. f \in [BarsNow -> BarsNow']
  BY <1>2, <1>3 DEF BarsNow
<1>5. bars' = Changed(bars, f)
  <2>1. bars' = [w \in MenuWindows |-> [b \in DOMAIN bars[w] |-> Marked(bars[w][b], i, on)]]
    BY DEF ChangeMark, EachBar
  <2>2. ASSUME NEW w \in MenuWindows, NEW b \in DOMAIN bars[w]
        PROVE  f[bars[w][b]] = Marked(bars[w][b], i, on)
    BY <1>3 DEF MenusInv, WindowInv, Packed
  <2> QED
    BY <2>1, <2>2 DEF Changed
<1>6. UNCHANGED <<appMenu, ownMenu, hasNative>>
  BY DEF ChangeMark
<1>7. WindowInv'
  BY <1>4, <1>5, <1>6, BarsChange DEF MenusInv
<1> QED
  BY <1>2, <1>6, <1>7

\* Clicks and the calls they leave behind.
LEMMA ClickStep ==
  ASSUME MenusInv,
         \/ \E i \in Items, on \in BOOLEAN : SetState(i, on)
         \/ \E i \in Items : HandleClickEvent(i)
         \/ Clicked
  PROVE  MenusInv'
<1>1. ASSUME NEW i \in Items, NEW on \in BOOLEAN, SetState(i, on) PROVE MenusInv'
  <2>1. ChangeMark(i, on) /\ clicked' = clicked
    BY <1>1 DEF SetState
  <2> QED
    BY <2>1, MarkStep DEF MenusInv, ModelInv
<1>2. ASSUME NEW i \in Items, HandleClickEvent(i) PROVE MenusInv'
  <2>1. /\ clicked' = Append(clicked, <<i, ~checked[i]>>)
        /\ UNCHANGED <<children, submenu, checked, appMenu, ownMenu, bars, hasNative>>
    BY <1>2 DEF HandleClickEvent, windowMenus
  <2>2. Ordered(children, submenu, checked)' /\ BarsNow' = BarsNow
    BY <2>1, SameBars DEF MenusInv, ModelInv
  <2>3. <<i, ~checked[i]>> \in Items \X BOOLEAN
    OBVIOUS
  <2>4. clicked' \in Seq(Items \X BOOLEAN)
    BY <2>1, <2>3 DEF MenusInv, ModelInv
  <2>5. WindowInv'
    BY <2>1, <2>2 DEF MenusInv, WindowInv, Packed
  <2> QED
    BY <2>1, <2>2, <2>4, <2>5 DEF MenusInv, ModelInv
<1>3. ASSUME Clicked PROVE MenusInv'
  <2>1. clicked # <<>> /\ clicked' = Tail(clicked) /\ ChangeMark(clicked[1][1], clicked[1][2])
    BY <1>3 DEF Clicked
  <2>2. clicked \in Seq(Items \X BOOLEAN)
    BY DEF MenusInv, ModelInv
  <2>3. clicked[1] \in Items \X BOOLEAN /\ clicked' \in Seq(Items \X BOOLEAN)
    BY <2>1, <2>2
  <2>4. PICK i, on : i = clicked[1][1] /\ on = clicked[1][2]
    OBVIOUS
  <2>5. i \in Items /\ on \in BOOLEAN /\ ChangeMark(i, on)
    BY <2>1, <2>3, <2>4
  <2>6. Ordered(children, submenu, checked)' /\ WindowInv' /\ appMenu' = appMenu
    BY <2>5, MarkStep
  <2> QED
    BY <2>3, <2>6 DEF MenusInv, ModelInv
<1> QED
  BY <1>1, <1>2, <1>3

\* Bars come and go, for menus as they are.
LEMMA SetupStep ==
  ASSUME MenusInv, UNCHANGED <<children, submenu, checked>>, NEW ws, NEW own, NEW app,
         own \in [MenuWindows -> Menus \cup {NoMenu}], app \in Menus \cup {NoMenu},
         SetupMenus(ws, own, app)
  PROVE  /\ hasNative' \in [MenuWindows -> BOOLEAN]
         /\ Packed(bars, BarsNow)'
         /\ (\A w \in MenuWindows : hasNative[w] => bars[w] # <<>>)'
<1> DEFINE Chosen(w) == IF own[w] # NoMenu THEN own[w] ELSE app
           same == {w \in ws : Chosen(w) = activeMenu[w]}
           adds == {w \in ws \ same : Chosen(w) # NoMenu}
           gone == {w \in same : hasNative[w]}
<1>1. /\ bars' = [w \in MenuWindows |-> IF w \in adds THEN <<NativeBar(Chosen(w))>> \o bars[w]
                                         ELSE IF w \in gone THEN Tail(bars[w]) ELSE bars[w]]
      /\ hasNative' = [w \in MenuWindows |-> w \in adds \/ (hasNative[w] /\ w \notin gone)]
  BY DEF SetupMenus
<1>2. \A w \in MenuWindows : w \in adds => Chosen(w) \in Menus
  OBVIOUS
<1>3. \A w \in MenuWindows : w \in gone => hasNative[w]
  OBVIOUS
<1> HIDE DEF adds, gone, Chosen
<1>4. BarsNow' = BarsNow
  BY SameBars DEF MenusInv, ModelInv
<1>5. ASSUME NEW w \in MenuWindows
      PROVE  bars'[w] \in Seq(BarsNow) /\ (hasNative'[w] => bars'[w] # <<>>)
  <2>1. PICK s \in Seq(BarsNow) : s = bars[w]
    BY DEF MenusInv, WindowInv, Packed
  <2>2. hasNative[w] => s # <<>>
    BY <2>1 DEF MenusInv, WindowInv
  <2>3. CASE w \in adds
    <3>1. PICK b \in BarsNow : b = NativeBar(Chosen(w))
      BY <1>2, <2>3 DEF BarsNow
    <3>2. bars'[w] = <<b>> \o s
      BY <1>1, <2>1, <2>3, <3>1
    <3>3. <<b>> \o s \in Seq(BarsNow) /\ <<b>> \o s # <<>>
      OBVIOUS
    <3> QED
      BY <3>2, <3>3
  <2>4. CASE w \notin adds /\ w \in gone
    <3>1. s # <<>> /\ bars'[w] = Tail(s) /\ ~hasNative'[w]
      BY <1>1, <1>3, <2>1, <2>2, <2>4
    <3>2. Tail(s) \in Seq(BarsNow)
      BY <3>1
    <3> QED
      BY <3>1, <3>2
  <2>5. CASE w \notin adds /\ w \notin gone
    BY <1>1, <2>1, <2>2, <2>5
  <2> QED
    BY <2>3, <2>4, <2>5
<1>6. DOMAIN bars' = MenuWindows /\ bars' = [w \in MenuWindows |-> bars'[w]]
  BY <1>1
<1>7. hasNative' \in [MenuWindows -> BOOLEAN]
  BY <1>1
<1>8. Packed(bars', BarsNow)
  BY <1>5, <1>6 DEF Packed
<1>9. Packed(bars, BarsNow)'
  BY <1>4, <1>8
<1> QED
  BY <1>5, <1>7, <1>9

LEMMA WindowStep ==
  ASSUME MenusInv,
         \/ \E m \in Menus \cup {NoMenu} : SetAppMenu(m)
         \/ \E w \in MenuWindows, m \in Menus \cup {NoMenu} : SetWindowMenu(w, m)
         \/ \E w \in MenuWindows : OpenWindow(w) \/ CloseWindow(w)
  PROVE  MenusInv'
<1>0. /\ ownMenu \in [MenuWindows -> Menus \cup {NoMenu}] /\ appMenu \in Menus \cup {NoMenu}
      /\ hasNative \in [MenuWindows -> BOOLEAN]
  BY DEF MenusInv, ModelInv, WindowInv
<1>1. ASSUME UNCHANGED <<children, submenu, checked, clicked>>, appMenu' \in Menus \cup {NoMenu},
             ownMenu' \in [MenuWindows -> Menus \cup {NoMenu}], hasNative' \in [MenuWindows -> BOOLEAN],
             Packed(bars, BarsNow)', (\A w \in MenuWindows : hasNative[w] => bars[w] # <<>>)'
      PROVE  MenusInv'
  <2>1. Ordered(children, submenu, checked)'
    BY <1>1, SameBars DEF MenusInv, ModelInv
  <2> QED
    BY <1>1, <2>1 DEF MenusInv, ModelInv, WindowInv
<1>2. ASSUME NEW m \in Menus \cup {NoMenu}, SetAppMenu(m) PROVE MenusInv'
  <2>1. PICK ws, own : ws = {w \in MenuWindows : opened_[w] = "open" /\ ownMenu[w] = NoMenu} /\ own = ownMenu
    OBVIOUS
  <2>2. SetupMenus(ws, own, m) /\ appMenu' = m /\ UNCHANGED <<children, submenu, checked, clicked, ownMenu>>
    BY <1>2, <2>1 DEF SetAppMenu
  <2>3. own \in [MenuWindows -> Menus \cup {NoMenu}]
    BY <1>0, <2>1
  <2>4. /\ hasNative' \in [MenuWindows -> BOOLEAN] /\ Packed(bars, BarsNow)'
        /\ (\A w \in MenuWindows : hasNative[w] => bars[w] # <<>>)'
    BY <2>2, <2>3, SetupStep
  <2> QED
    BY <1>0, <1>1, <2>2, <2>4
<1>3. ASSUME NEW w \in MenuWindows, NEW m \in Menus \cup {NoMenu}, SetWindowMenu(w, m) PROVE MenusInv'
  <2>1. PICK own, app : own = ownMenu' /\ app = appMenu
    OBVIOUS
  <2>2. SetupMenus({w}, own, app) /\ UNCHANGED <<children, submenu, checked, clicked, appMenu>>
    BY <1>3, <2>1 DEF SetWindowMenu, model
  <2>3. ownMenu' \in [MenuWindows -> Menus \cup {NoMenu}] /\ app \in Menus \cup {NoMenu}
    BY <1>0, <1>3, <2>1 DEF SetWindowMenu
  <2>4. /\ hasNative' \in [MenuWindows -> BOOLEAN] /\ Packed(bars, BarsNow)'
        /\ (\A v \in MenuWindows : hasNative[v] => bars[v] # <<>>)'
    BY <2>1, <2>2, <2>3, SetupStep
  <2> QED
    BY <1>0, <1>1, <2>2, <2>3, <2>4
<1>4. ASSUME NEW w \in MenuWindows, OpenWindow(w) PROVE MenusInv'
  <2>1. PICK own, app : own = ownMenu /\ app = appMenu
    OBVIOUS
  <2>2. SetupMenus({w}, own, app) /\ UNCHANGED <<children, submenu, checked, clicked, appMenu, ownMenu>>
    BY <1>4, <2>1 DEF OpenWindow, model
  <2>3. own \in [MenuWindows -> Menus \cup {NoMenu}] /\ app \in Menus \cup {NoMenu}
    BY <1>0, <2>1
  <2>4. /\ hasNative' \in [MenuWindows -> BOOLEAN] /\ Packed(bars, BarsNow)'
        /\ (\A v \in MenuWindows : hasNative[v] => bars[v] # <<>>)'
    BY <2>2, <2>3, SetupStep
  <2> QED
    BY <1>0, <1>1, <2>2, <2>4
<1>5. ASSUME NEW w \in MenuWindows, CloseWindow(w) PROVE MenusInv'
  <2>1. /\ bars' = [bars EXCEPT ![w] = <<>>] /\ hasNative' = [hasNative EXCEPT ![w] = FALSE]
        /\ UNCHANGED <<children, submenu, checked, clicked, appMenu, ownMenu>>
    BY <1>5 DEF CloseWindow, model
  <2>2. BarsNow' = BarsNow
    BY <2>1, SameBars DEF MenusInv, ModelInv
  <2>3. Packed(bars, BarsNow) /\ \A v \in MenuWindows : hasNative[v] => bars[v] # <<>>
    BY DEF MenusInv, WindowInv
  <2>4. Packed(bars', BarsNow)
    BY <2>1, <2>3 DEF Packed
  <2>5. Packed(bars, BarsNow)'
    BY <2>2, <2>4
  <2>6. (\A v \in MenuWindows : hasNative[v] => bars[v] # <<>>)'
    BY <1>0, <2>1, <2>3 DEF Packed
  <2>7. hasNative' \in [MenuWindows -> BOOLEAN]
    BY <1>0, <2>1
  <2> QED
    BY <1>0, <1>1, <2>1, <2>5, <2>6, <2>7
<1> QED
  BY <1>2, <1>3, <1>4, <1>5

LEMMA MenusStart == MenusInit => MenusInv
<1> SUFFICES ASSUME MenusInit PROVE MenusInv
  OBVIOUS
<1>1. Typed(children, submenu, checked)
  BY DEF MenusInit, Typed
<1>2. PICK graph : graph = GraphIn(children, submenu)
  OBVIOUS
<1>3. graph = {}
  BY <1>2 DEF GraphIn, MenusInit
<1>4. NoCycle(graph)
  <2>1. \A m \in Menus : Reach(graph, m) \subseteq {}
    BY <1>3, ReachIsLeast
  <2> QED
    BY <2>1 DEF NoCycle
<1>5. ModelInv
  BY <1>1, <1>2, <1>4 DEF ModelInv, Ordered, MenusInit
<1>6. WindowInv
  BY DEF WindowInv, Packed, MenusInit
<1> QED
  BY <1>5, <1>6 DEF MenusInv

LEMMA MenusStep ==
  ASSUME MenusInv, [MenusNext]_menuVars
  PROVE  MenusInv'
<1>1. CASE UNCHANGED menuVars
  <2>1. UNCHANGED <<children, submenu, checked, clicked, appMenu, ownMenu, bars, hasNative>>
    BY <1>1 DEF menuVars, model, windowMenus
  <2>2. Ordered(children, submenu, checked)' /\ BarsNow' = BarsNow
    BY <2>1, SameBars DEF MenusInv, ModelInv
  <2> QED
    BY <2>1, <2>2 DEF MenusInv, ModelInv, WindowInv, Packed
<1>2. ASSUME NEW m \in Menus, NEW i \in Items, NEW k \in 1 .. MaxEntries, InsertItemAt(m, i, k)
      PROVE  MenusInv'
  BY <1>2, InsertStep
<1>3. ASSUME NEW m \in Menus, NEW k \in 1 .. MaxEntries, RemoveItemAt(m, k) PROVE MenusInv'
  <2>1. children[m] \in Seq(Items)
    BY DEF MenusInv, ModelInv, Ordered, Typed
  <2>2. k \in 1 .. Len(children[m]) /\ k \in k .. Len(children[m]) /\ RemoveWidgets(m, k, k)
    BY <1>3, <2>1 DEF RemoveItemAt
  <2> QED
    BY <2>2, RemoveStep
<1>4. ASSUME NEW m \in Menus, Clear(m) PROVE MenusInv'
  <2>1. children[m] \in Seq(Items)
    BY DEF MenusInv, ModelInv, Ordered, Typed
  <2>2. PICK l : l = Len(children[m])
    OBVIOUS
  <2>3. 1 \in 1 .. Len(children[m]) /\ l \in 1 .. Len(children[m]) /\ RemoveWidgets(m, 1, l)
    BY <1>4, <2>1, <2>2 DEF Clear
  <2> QED
    BY <2>3, RemoveStep
<1>5. ASSUME NEW i \in Items, NEW m \in Menus \cup {NoMenu}, SetSubmenu(i, m) PROVE MenusInv'
  BY <1>5, SubmenuStep
<1>6. CASE \/ \E i \in Items, on \in BOOLEAN : SetState(i, on)
           \/ \E i \in Items : HandleClickEvent(i)
           \/ Clicked
  BY <1>6, ClickStep
<1>7. CASE \/ \E m \in Menus \cup {NoMenu} : SetAppMenu(m)
           \/ \E w \in MenuWindows, m \in Menus \cup {NoMenu} : SetWindowMenu(w, m)
           \/ \E w \in MenuWindows : OpenWindow(w) \/ CloseWindow(w)
  BY <1>7, WindowStep
<1> QED
  BY <1>1, <1>2, <1>3, <1>4, <1>5, <1>6, <1>7 DEF MenusNext

LEMMA MirroredByInv ==
  ASSUME MenusInv
  PROVE  MenusMirrored
<1>1. ASSUME NEW m \in Menus PROVE m \notin Under(m)
  BY UnderNow DEF MenusInv, ModelInv, Ordered, NoCycle
<1>2. ASSUME NEW w \in MenuWindows, NEW b \in DOMAIN bars[w]
      PROVE  bars[w][b] = NativeBar(bars[w][b].menu)
  <2>1. bars[w][b] \in BarsNow
    BY DEF MenusInv, WindowInv, Packed
  <2>2. PICK m \in Menus : bars[w][b] = NativeBar(m)
    BY <2>1 DEF BarsNow
  <2>3. NativeBar(m).menu = m
    BY DEF NativeBar
  <2> QED
    BY <2>2, <2>3
<1> QED
  BY <1>1, <1>2 DEF MenusMirrored

\* No menu shows itself, and each menu bar shows its menu as it is, whatever the script does
\* with menus, items and windows and the user with check items (Menu, MenuItem, GtkMenu,
\* GtkMenuItem, GtkUserWindow::SetupMenu).
THEOREM MenusAreMirrored == MenusSpec => []MenusMirrored
<1>1. MenusInit => MenusInv
  BY MenusStart
<1>2. MenusInv /\ [MenusNext]_menuVars => MenusInv'
  BY MenusStep
<1>3. MenusInv => MenusMirrored
  BY MirroredByInv
<1> QED
  BY <1>1, <1>2, <1>3, PTL DEF MenusSpec
================================================================================
