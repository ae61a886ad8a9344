------------------------------ MODULE ExitProofs ------------------------------
(***************************************************************************)
(* Theorems about the end of a process: what has been read when its EXIT   *)
(* and the CLOSEs of its pipes are fired, how often EXIT is fired, and     *)
(* what a call of the object returns.  For any number of launches,         *)
(* streams, blobs and generations of native pipes, and any script.         *)
(***************************************************************************)
EXTENDS ProcessProofs, PipeEventsProofs, FiniteSetTheorems

-----------------------------------------------------------------------------
(* The order of the steps of a plan.                                       *)

\* What kinds of steps a plan has left, and for which streams.
Kinds(s) == {s[i][1] : i \in DOMAIN s}
For(s, op) == {x \in StreamSet : \E i \in DOMAIN s : s[i][1] = op /\ s[i][2] = x}

Launching == {"attach", "fork", "callbacks", "monitors", "startMonitor"}
Watching == {"wait", "stopIn", "joinIn", "stop", "invoke"}
Closing == {"close", "detachIn", "detach", "recreate"}

\* What no plan does after op.
Spent(op) ==
  CASE op = "attach" -> {}
    [] op = "fork" -> {"attach", "fork"}
    [] op = "callbacks" -> {"attach", "fork", "callbacks"}
    [] op = "monitors" -> {"attach", "fork", "callbacks", "monitors"}
    [] op \in {"wait", "stopIn", "joinIn", "stop"} -> Launching \cup {"wait"}
    [] op \in {"invoke", "fireLater"} -> Launching \cup Watching \cup {"fireLater"}
    [] op \in {"collect", "fireNow"} -> Launching \cup Watching \cup {"fireLater", "collect"}
    [] OTHER -> Launching \cup Watching

Ordered(s) == \A i, j \in DOMAIN s : i < j => s[j][1] \notin Spent(s[i][1])

\* What closes or detaches native pipes makes new ones afterwards.
Renews(s) ==
  \A i \in DOMAIN s : s[i][1] \in Closing \ {"recreate"} =>
    \E j \in DOMAIN s : j > i /\ s[j][1] = "recreate"

Piece(s, ops) == s \in Seq(PlanStep) /\ Ordered(s) /\ Kinds(s) \subseteq ops
MayPrecede(A, B) == \A x \in A, y \in B : y \notin Spent(x)

\* The parts of a concatenation.
LEMMA ConcatParts ==
  ASSUME NEW s \in Seq(PlanStep), NEW t \in Seq(PlanStep)
  PROVE  /\ s \o t \in Seq(PlanStep)
         /\ Len(s) \in Nat /\ Len(t) \in Nat /\ Len(s \o t) = Len(s) + Len(t)
         /\ DOMAIN s = 1 .. Len(s) /\ DOMAIN t = 1 .. Len(t)
         /\ DOMAIN (s \o t) = 1 .. Len(s) + Len(t)
         /\ \A i \in 1 .. Len(s) : (s \o t)[i] = s[i]
         /\ \A i \in 1 .. Len(t) : (s \o t)[Len(s) + i] = t[i]
OBVIOUS

LEMMA ConcatSplit ==
  ASSUME NEW m \in Nat, NEW n \in Nat, NEW j \in 1 .. m + n
  PROVE  j \in 1 .. m \/ \E k \in 1 .. n : j = m + k
<1> SUFFICES ASSUME j \notin 1 .. m PROVE \E k \in 1 .. n : j = m + k
  OBVIOUS
<1>1. j - m \in 1 .. n /\ j = m + (j - m)
  OBVIOUS
<1> QED
  BY <1>1

LEMMA KindsConcat ==
  ASSUME NEW s \in Seq(PlanStep), NEW t \in Seq(PlanStep)
  PROVE  /\ Kinds(s \o t) = Kinds(s) \cup Kinds(t)
         /\ \A op : For(s \o t, op) = For(s, op) \cup For(t, op)
<1> DEFINE w == s \o t
           m == Len(s)
           n == Len(t)
<1>1. /\ m \in Nat /\ n \in Nat /\ DOMAIN s = 1 .. m /\ DOMAIN t = 1 .. n
      /\ DOMAIN w = 1 .. m + n
      /\ \A i \in 1 .. m : w[i] = s[i]
      /\ \A i \in 1 .. n : w[m + i] = t[i]
  BY ConcatParts
<1> HIDE DEF w, m, n
<1>2. /\ \A i \in 1 .. m : i \in 1 .. m + n
      /\ \A i \in 1 .. n : m + i \in 1 .. m + n
  BY <1>1
<1>3. \A j \in 1 .. m + n : j \in 1 .. m \/ \E k \in 1 .. n : j = m + k
  BY <1>1, ConcatSplit
<1>4. Kinds(w) = Kinds(s) \cup Kinds(t)
  <2>1. ASSUME NEW x \in Kinds(w) PROVE x \in Kinds(s) \cup Kinds(t)
    <3>1. PICK j \in 1 .. m + n : w[j][1] = x
      BY <1>1 DEF Kinds
    <3>2. CASE j \in 1 .. m
      BY <1>1, <3>1, <3>2 DEF Kinds
    <3>3. ASSUME NEW k \in 1 .. n, j = m + k PROVE x \in Kinds(t)
      BY <1>1, <3>1, <3>3 DEF Kinds
    <3> QED
      BY <1>3, <3>2, <3>3
  <2>2. ASSUME NEW x \in Kinds(s) PROVE x \in Kinds(w)
    BY <1>1, <1>2 DEF Kinds
  <2>3. ASSUME NEW x \in Kinds(t) PROVE x \in Kinds(w)
    <3>1. PICK k \in 1 .. n : t[k][1] = x
      BY <1>1 DEF Kinds
    <3>2. m + k \in DOMAIN w /\ w[m + k][1] = x
      BY <1>1, <1>2, <3>1
    <3> QED
      BY <3>2 DEF Kinds
  <2> QED
    BY <2>1, <2>2, <2>3
<1>5. ASSUME NEW op
      PROVE  \A x : (\E i \in DOMAIN w : w[i][1] = op /\ w[i][2] = x)
             <=> \/ \E i \in DOMAIN s : s[i][1] = op /\ s[i][2] = x
                 \/ \E i \in DOMAIN t : t[i][1] = op /\ t[i][2] = x
  <2> SUFFICES ASSUME NEW x
               PROVE  (\E i \in DOMAIN w : w[i][1] = op /\ w[i][2] = x)
                        <=> \/ \E i \in DOMAIN s : s[i][1] = op /\ s[i][2] = x
                            \/ \E i \in DOMAIN t : t[i][1] = op /\ t[i][2] = x
    OBVIOUS
  <2>1. ASSUME NEW j \in 1 .. m + n, w[j][1] = op, w[j][2] = x
        PROVE  \/ \E i \in DOMAIN s : s[i][1] = op /\ s[i][2] = x
               \/ \E i \in DOMAIN t : t[i][1] = op /\ t[i][2] = x
    <3>1. CASE j \in 1 .. m
      BY <1>1, <2>1, <3>1
    <3>2. ASSUME NEW k \in 1 .. n, j = m + k PROVE t[k][1] = op /\ t[k][2] = x
      BY <1>1, <2>1, <3>2
    <3> QED
      BY <1>1, <1>3, <3>1, <3>2
  <2>2. ASSUME NEW i \in 1 .. m, s[i][1] = op, s[i][2] = x
        PROVE  w[i][1] = op /\ w[i][2] = x
    BY <1>1, <2>2
  <2>3. ASSUME NEW i \in 1 .. n, t[i][1] = op, t[i][2] = x
        PROVE  w[m + i][1] = op /\ w[m + i][2] = x
    BY <1>1, <2>3
  <2> QED
    BY <1>1, <1>2, <2>1, <2>2, <2>3
<1>6. \A op : For(w, op) = For(s, op) \cup For(t, op)
  <2> TAKE op
  <2>1. \A x \in StreamSet : x \in For(w, op) <=> x \in For(s, op) \/ x \in For(t, op)
    BY <1>5, ZenonT(30) DEF For
  <2>2. For(w, op) \subseteq StreamSet /\ For(s, op) \subseteq StreamSet /\ For(t, op) \subseteq StreamSet
    BY DEF For
  <2> QED
    BY <2>1, <2>2
<1> QED
  BY <1>4, <1>6 DEF w

LEMMA PieceConcat ==
  ASSUME NEW s, NEW t, NEW A, NEW B, Piece(s, A), Piece(t, B), MayPrecede(A, B)
  PROVE  Piece(s \o t, A \cup B)
<1> DEFINE w == s \o t
           m == Len(s)
           n == Len(t)
<1>1. /\ m \in Nat /\ n \in Nat /\ DOMAIN s = 1 .. m /\ DOMAIN t = 1 .. n
      /\ DOMAIN w = 1 .. m + n /\ w \in Seq(PlanStep)
      /\ \A i \in 1 .. m : w[i] = s[i]
      /\ \A i \in 1 .. n : w[m + i] = t[i]
  BY ConcatParts DEF Piece
<1>2. Kinds(w) \subseteq A \cup B
  BY KindsConcat DEF Piece
<1> HIDE DEF w, m, n
<1>3. ASSUME NEW i \in 1 .. m + n, NEW j \in 1 .. m + n, i < j
      PROVE  w[j][1] \notin Spent(w[i][1])
  <2>1. CASE j \in 1 .. m
    <3>1. i \in 1 .. m
      BY <1>1, <1>3, <2>1
    <3> QED
      BY <1>1, <1>3, <2>1, <3>1 DEF Piece, Ordered
  <2>2. CASE i \in 1 .. m /\ j \notin 1 .. m
    <3>1. PICK k \in 1 .. n : j = m + k
      BY <1>1, <2>2, ConcatSplit
    <3>2. s[i][1] \in Kinds(s) /\ t[k][1] \in Kinds(t)
      BY <1>1, <2>2 DEF Kinds
    <3>3. w[i][1] \in A /\ w[j][1] \in B
      BY <1>1, <2>2, <3>1, <3>2 DEF Piece
    <3> QED
      BY <3>3 DEF MayPrecede
  <2>3. CASE i \notin 1 .. m /\ j \notin 1 .. m
    <3>1. PICK k \in 1 .. n : j = m + k
      <4>1. m \in Nat /\ n \in Nat
        BY <1>1
      <4> QED
        BY <2>3, <4>1, ConcatSplit
    <3>2. PICK l \in 1 .. n : i = m + l
      BY <1>1, <2>3, ConcatSplit
    <3>3. l < k
      BY <1>1, <1>3, <3>1, <3>2
    <3> QED
      <4>1. w[i] = t[l] /\ w[j] = t[k]
        BY <1>1, <3>1, <3>2
      <4>2. Ordered(t) /\ k \in DOMAIN t /\ l \in DOMAIN t
        BY <1>1 DEF Piece
      <4>3. t[k][1] \notin Spent(t[l][1])
        BY <3>3, <4>2 DEF Ordered
      <4> QED
        BY <4>1, <4>3
  <2> QED
    BY <2>1, <2>2, <2>3
<1>4. Ordered(w)
  BY <1>1, <1>3 DEF Ordered
<1> QED
  BY <1>1, <1>2, <1>4 DEF Piece, w

LEMMA RenewsConcat ==
  ASSUME NEW s \in Seq(PlanStep), NEW t \in Seq(PlanStep), Renews(t),
         Renews(s) \/ "recreate" \in Kinds(t)
  PROVE  Renews(s \o t)
<1> DEFINE w == s \o t
           m == Len(s)
           n == Len(t)
<1>1. /\ m \in Nat /\ n \in Nat /\ DOMAIN s = 1 .. m /\ DOMAIN t = 1 .. n
      /\ DOMAIN w = 1 .. m + n
      /\ \A i \in 1 .. m : w[i] = s[i]
      /\ \A i \in 1 .. n : w[m + i] = t[i]
  BY ConcatParts
<1> HIDE DEF w, m, n
<1>2. /\ \A i \in 1 .. m : i \in 1 .. m + n
      /\ \A i \in 1 .. n : m + i \in 1 .. m + n
  BY <1>1
<1>3. ASSUME NEW i \in 1 .. m + n, w[i][1] \in Closing \ {"recreate"}
      PROVE  \E j \in 1 .. m + n : j > i /\ w[j][1] = "recreate"
  <2>1. CASE i \in 1 .. m /\ Renews(s)
    <3>1. PICK j \in 1 .. m : j > i /\ s[j][1] = "recreate"
      BY <1>1, <1>3, <2>1 DEF Renews
    <3> QED
      BY <1>1, <1>2, <3>1
  <2>2. CASE i \in 1 .. m /\ "recreate" \in Kinds(t)
    <3>1. PICK j \in 1 .. n : t[j][1] = "recreate"
      BY <1>1, <2>2 DEF Kinds
    <3>2. m + j \in 1 .. m + n /\ m + j > i /\ w[m + j][1] = "recreate"
      BY <1>1, <2>2, <3>1
    <3> QED
      BY <3>2
  <2>3. CASE i \notin 1 .. m
    <3>1. PICK k \in 1 .. n : i = m + k
      BY <1>1, <2>3, ConcatSplit
    <3>2. PICK j \in 1 .. n : j > k /\ t[j][1] = "recreate"
      BY <1>1, <1>3, <3>1 DEF Renews
    <3>3. m + j \in 1 .. m + n /\ m + j > i /\ w[m + j][1] = "recreate"
      BY <1>1, <3>1, <3>2
    <3> QED
      BY <3>3
  <2> QED
    BY <2>1, <2>2, <2>3
<1> QED
  BY <1>1, <1>3 DEF Renews, w

\* What is left after the first step.
LEMMA AfterFirst ==
  ASSUME NEW s \in Seq(PlanStep), s # <<>>
  PROVE  /\ Tail(s) \in Seq(PlanStep)
         /\ Kinds(s) = {Head(s)[1]} \cup Kinds(Tail(s))
         /\ \A op : For(Tail(s), op) \subseteq For(s, op)
         /\ \A op, x : x \in For(s, op) =>
              x \in For(Tail(s), op) \/ (Head(s)[1] = op /\ Head(s)[2] = x)
         /\ Ordered(s) => Ordered(Tail(s)) /\ Kinds(Tail(s)) \cap Spent(Head(s)[1]) = {}
         /\ Renews(s) => /\ Renews(Tail(s))
                         /\ Head(s)[1] \in Closing \ {"recreate"} => "recreate" \in Kinds(Tail(s))
<1> DEFINE n == Len(s)
           r == Tail(s)
<1>1. /\ n \in Nat /\ DOMAIN s = 1 .. n /\ r \in Seq(PlanStep)
      /\ DOMAIN r = 1 .. n - 1 /\ \A i \in 1 .. n - 1 : r[i] = s[i + 1]
      /\ Head(s) = s[1] /\ 1 \in 1 .. n
  OBVIOUS
<1> HIDE DEF n, r
<1>2. \A i \in 1 .. n - 1 : i + 1 \in 1 .. n /\ 1 < i + 1
  BY <1>1
<1>3. \A j \in 1 .. n : j = 1 \/ (j - 1 \in 1 .. n - 1 /\ (j - 1) + 1 = j)
  BY <1>1
<1>4. \A i, j \in 1 .. n - 1 : i < j <=> i + 1 < j + 1
  BY <1>1
<1>5. Kinds(s) = {s[1][1]} \cup Kinds(r)
  <2>1. ASSUME NEW x \in Kinds(s) PROVE x = s[1][1] \/ x \in Kinds(r)
    <3>1. PICK j \in 1 .. n : s[j][1] = x
      BY <1>1 DEF Kinds
    <3>2. ASSUME j # 1 PROVE r[j - 1][1] = x /\ j - 1 \in DOMAIN r
      BY <1>1, <1>3, <3>1, <3>2
    <3> QED
      BY <3>1, <3>2 DEF Kinds
  <2>2. ASSUME NEW x \in Kinds(r) PROVE x \in Kinds(s)
    <3>1. PICK j \in 1 .. n - 1 : r[j][1] = x
      BY <1>1 DEF Kinds
    <3>2. j + 1 \in DOMAIN s /\ s[j + 1][1] = x
      BY <1>1, <1>2, <3>1
    <3> QED
      BY <3>2 DEF Kinds
  <2>3. s[1][1] \in Kinds(s)
    BY <1>1 DEF Kinds
  <2> QED
    BY <2>1, <2>2, <2>3
<1>6. \A op : For(r, op) \subseteq For(s, op)
  <2> SUFFICES ASSUME NEW op, NEW x \in StreamSet, NEW j \in 1 .. n - 1, r[j][1] = op, r[j][2] = x
               PROVE  \E i \in DOMAIN s : s[i][1] = op /\ s[i][2] = x
    BY <1>1 DEF For
  <2>1. j + 1 \in DOMAIN s /\ s[j + 1] = r[j]
    BY <1>1, <1>2
  <2> QED
    BY <2>1
<1>7. \A op, x : x \in For(s, op) => x \in For(r, op) \/ (s[1][1] = op /\ s[1][2] = x)
  <2> SUFFICES ASSUME NEW op, NEW x \in StreamSet, NEW j \in 1 .. n, s[j][1] = op, s[j][2] = x,
                      j # 1
               PROVE  \E i \in DOMAIN r : r[i][1] = op /\ r[i][2] = x
    BY <1>1 DEF For
  <2>1. j - 1 \in DOMAIN r /\ r[j - 1] = s[j]
    BY <1>1, <1>3
  <2> QED
    BY <2>1
<1>8. Ordered(s) => Ordered(r) /\ Kinds(r) \cap Spent(s[1][1]) = {}
  <2> SUFFICES ASSUME Ordered(s) PROVE Ordered(r) /\ Kinds(r) \cap Spent(s[1][1]) = {}
    OBVIOUS
  <2>1. ASSUME NEW i \in 1 .. n - 1, NEW j \in 1 .. n - 1, i < j
        PROVE  r[j][1] \notin Spent(r[i][1])
    BY <1>1, <1>2, <1>4, <2>1 DEF Ordered
  <2>2. ASSUME NEW j \in 1 .. n - 1 PROVE r[j][1] \notin Spent(s[1][1])
    BY <1>1, <1>2 DEF Ordered
  <2> QED
    BY <1>1, <2>1, <2>2 DEF Ordered, Kinds
<1>9. ASSUME Renews(s), NEW i \in 1 .. n, s[i][1] \in Closing \ {"recreate"}
      PROVE  \E k \in 1 .. n - 1 : k + 1 > i /\ r[k][1] = "recreate"
  <2>1. PICK j \in 1 .. n : j > i /\ s[j][1] = "recreate"
    BY <1>1, <1>9 DEF Renews
  <2>2. j - 1 \in 1 .. n - 1 /\ (j - 1) + 1 = j
    BY <1>1, <1>3, <2>1
  <2> QED
    BY <1>1, <2>1, <2>2
<1>10. Renews(s) => /\ Renews(r)
                    /\ s[1][1] \in Closing \ {"recreate"} => "recreate" \in Kinds(r)
  <2> SUFFICES ASSUME Renews(s)
               PROVE  /\ Renews(r)
                      /\ s[1][1] \in Closing \ {"recreate"} => "recreate" \in Kinds(r)
    OBVIOUS
  <2>1. ASSUME NEW i \in 1 .. n - 1, r[i][1] \in Closing \ {"recreate"}
        PROVE  \E k \in 1 .. n - 1 : k > i /\ r[k][1] = "recreate"
    <3>1. PICK k \in 1 .. n - 1 : k + 1 > i + 1 /\ r[k][1] = "recreate"
      BY <1>1, <1>2, <1>9, <2>1
    <3> QED
      BY <1>1, <3>1
  <2>2. s[1][1] \in Closing \ {"recreate"} => "recreate" \in Kinds(r)
    BY <1>1, <1>9 DEF Kinds
  <2> QED
    BY <1>1, <2>1, <2>2 DEF Renews
<1> QED
  BY <1>1, <1>5, <1>6, <1>7, <1>8, <1>10 DEF r

\* The parts that plans are made of.
LEMMA PartKinds ==
  ASSUME NEW op \in Steps
  PROVE  /\ Piece(Do(op), {op}) /\ Kinds(Do(op)) = {op}
         /\ op \notin Spent(op) => Piece(Each(op), {op})
         /\ For(Each(op), op) = StreamSet
         /\ Each(op) \in Seq(PlanStep)
<1>1. /\ Each(op) \in Seq(PlanStep) /\ Do(op) \in Seq(PlanStep)
      /\ DOMAIN Do(op) = {1} /\ Do(op)[1][1] = op
      /\ \A i \in DOMAIN Each(op) : Each(op)[i][1] = op
  BY Parts
<1>2. Kinds(Do(op)) = {op} /\ Kinds(Each(op)) \subseteq {op}
  BY <1>1 DEF Kinds
<1>3. Ordered(Do(op))
  BY <1>1 DEF Ordered
<1>4. op \notin Spent(op) => Ordered(Each(op))
  BY <1>1 DEF Ordered
<1>5. \A x \in StreamSet : \E i \in DOMAIN Each(op) : Each(op)[i][1] = op /\ Each(op)[i][2] = x
  BY DEF Each, StreamSet
<1> QED
  BY <1>1, <1>2, <1>3, <1>4, <1>5 DEF Piece, For

\* What closes nothing has nothing to renew.
LEMMA NothingToRenew ==
  ASSUME NEW s \in Seq(PlanStep), Kinds(s) \cap (Closing \ {"recreate"}) = {}
  PROVE  Renews(s)
BY DEF Renews, Kinds

\* A piece followed by a piece: what kinds of steps it has, and for which streams.
LEMMA PieceKinds ==
  ASSUME NEW s, NEW t, NEW A, NEW B, Piece(s, A), Piece(t, B), MayPrecede(A, B)
  PROVE  Piece(s \o t, A \cup B) /\ Kinds(s \o t) = Kinds(s) \cup Kinds(t)
<1>1. Piece(s \o t, A \cup B)
  BY PieceConcat
<1>2. s \in Seq(PlanStep) /\ t \in Seq(PlanStep)
  BY DEF Piece
<1> QED
  BY <1>1, <1>2, KindsConcat

LEMMA PieceFor ==
  ASSUME NEW s, NEW t, NEW A, NEW B, Piece(s, A), Piece(t, B), NEW op
  PROVE  For(s \o t, op) = For(s, op) \cup For(t, op)
<1>1. s \in Seq(PlanStep) /\ t \in Seq(PlanStep)
  BY DEF Piece
<1> QED
  BY <1>1, KindsConcat

LEMMA PieceForAll ==
  ASSUME NEW s, NEW t, NEW A, NEW B, Piece(s, A), Piece(t, B), NEW op,
         For(s, op) = StreamSet \/ For(t, op) = StreamSet
  PROVE  For(s \o t, op) = StreamSet
<1>1. For(s \o t, op) = For(s, op) \cup For(t, op)
  BY PieceFor
<1>2. For(s, op) \subseteq StreamSet /\ For(t, op) \subseteq StreamSet
  BY DEF For
<1> QED
  BY <1>1, <1>2

LEMMA ExitedShape ==
  ASSUME NEW how \in Fires
  PROVE  /\ Piece(Exited(how), Closing \cup {how}) /\ Renews(Exited(how))
         /\ {"recreate", how} \subseteq Kinds(Exited(how))
<1> DEFINE a == Each("close") \o Do("detachIn")
           b == a \o Each("detach")
           c == b \o Do("recreate")
<1>0. {"close", "detachIn", "detach", "recreate"} \subseteq Steps /\ how \in Steps
  BY DEF Steps, Fires
<1>1. /\ Piece(Each("close"), {"close"}) /\ Piece(Do("detachIn"), {"detachIn"})
      /\ Piece(Each("detach"), {"detach"}) /\ Piece(Do("recreate"), {"recreate"})
      /\ Piece(Do(how), {how})
      /\ Kinds(Do("recreate")) = {"recreate"} /\ Kinds(Do(how)) = {how}
  BY <1>0, PartKinds DEF Spent, Closing, Launching, Watching
<1>2. Piece(a, {"close"} \cup {"detachIn"})
  BY <1>1, PieceConcat DEF MayPrecede, Spent, Launching, Watching
<1> HIDE DEF a
<1>3. Piece(b, {"close"} \cup {"detachIn"} \cup {"detach"})
  BY <1>1, <1>2, PieceConcat DEF MayPrecede, Spent, Launching, Watching
<1> HIDE DEF b
<1>4. MayPrecede({"close"} \cup {"detachIn"} \cup {"detach"}, {"recreate"})
  BY DEF MayPrecede, Spent, Launching, Watching
<1>5. /\ Piece(c, Closing) /\ "recreate" \in Kinds(c) /\ Renews(c)
  <2>1. Piece(c, {"close"} \cup {"detachIn"} \cup {"detach"} \cup {"recreate"})
    BY <1>1, <1>3, <1>4, PieceConcat
  <2>2. b \in Seq(PlanStep) /\ Do("recreate") \in Seq(PlanStep)
    BY <1>1, <1>3 DEF Piece
  <2>3. "recreate" \in Kinds(c)
    BY <1>1, <2>2, KindsConcat
  <2>4. Renews(Do("recreate"))
    BY <1>1, <2>2, NothingToRenew
  <2>5. Renews(c)
    BY <1>1, <2>2, <2>4, RenewsConcat
  <2> QED
    BY <2>1, <2>3, <2>5 DEF Piece, Closing
<1> HIDE DEF c
<1>6. Piece(c \o Do(how), Closing \cup {how})
  <2>1. MayPrecede(Closing, {how})
    BY DEF MayPrecede, Spent, Launching, Watching, Closing, Fires
  <2> QED
    BY <1>1, <1>5, <2>1, PieceConcat
<1>7. Renews(c \o Do(how)) /\ {"recreate", how} \subseteq Kinds(c \o Do(how))
  <2>1. c \in Seq(PlanStep) /\ Do(how) \in Seq(PlanStep)
    BY <1>1, <1>5 DEF Piece
  <2>2. Renews(Do(how))
    BY <1>1, <2>1, NothingToRenew DEF Closing, Fires
  <2>3. Renews(c \o Do(how))
    BY <1>5, <2>1, <2>2, RenewsConcat
  <2>4. Kinds(c \o Do(how)) = Kinds(c) \cup Kinds(Do(how))
    BY <2>1, KindsConcat
  <2> QED
    BY <1>1, <1>5, <2>3, <2>4
<1> QED
  BY <1>6, <1>7 DEF Exited, a, b, c

LEMMA MonitorShape ==
  /\ Piece(ExitMonitor, Watching) /\ {"wait", "invoke"} \subseteq Kinds(ExitMonitor)
  /\ For(ExitMonitor, "stop") = StreamSet
  /\ Piece(ExitMonitor \o Do("await"), Watching \cup {"await"})
  /\ {"wait", "invoke"} \subseteq Kinds(ExitMonitor \o Do("await"))
  /\ For(ExitMonitor \o Do("await"), "stop") = StreamSet
<1> DEFINE a == Do("wait") \o Do("stopIn")
           b == a \o Do("joinIn")
           c == b \o Each("stop")
<1>0. Watching \cup {"await"} \subseteq Steps
  BY DEF Steps, Watching
<1>1. /\ Piece(Do("wait"), {"wait"}) /\ Piece(Do("stopIn"), {"stopIn"})
      /\ Piece(Do("joinIn"), {"joinIn"}) /\ Piece(Each("stop"), {"stop"})
      /\ Piece(Do("invoke"), {"invoke"}) /\ Piece(Do("await"), {"await"})
      /\ Kinds(Do("wait")) = {"wait"} /\ Kinds(Do("invoke")) = {"invoke"}
      /\ For(Each("stop"), "stop") = StreamSet
  BY <1>0, PartKinds DEF Spent, Launching, Watching
<1>2. \A s : For(s, "stop") \subseteq StreamSet
  BY DEF For
<1>3. MayPrecede({"wait"}, {"stopIn"})
  BY DEF MayPrecede, Spent, Launching
<1>4. Piece(a, {"wait"} \cup {"stopIn"}) /\ Kinds(a) = Kinds(Do("wait")) \cup Kinds(Do("stopIn"))
  BY <1>1, <1>3, PieceKinds
<1> HIDE DEF a
<1>5. MayPrecede({"wait"} \cup {"stopIn"}, {"joinIn"})
  BY DEF MayPrecede, Spent, Launching
<1>6. /\ Piece(b, {"wait"} \cup {"stopIn"} \cup {"joinIn"})
      /\ Kinds(b) = Kinds(a) \cup Kinds(Do("joinIn"))
  BY <1>1, <1>4, <1>5, PieceKinds
<1> HIDE DEF b
<1>7. MayPrecede({"wait"} \cup {"stopIn"} \cup {"joinIn"}, {"stop"})
  BY DEF MayPrecede, Spent, Launching
<1>8. /\ Piece(c, {"wait"} \cup {"stopIn"} \cup {"joinIn"} \cup {"stop"})
      /\ Kinds(c) = Kinds(b) \cup Kinds(Each("stop"))
      /\ For(c, "stop") = For(b, "stop") \cup For(Each("stop"), "stop")
  <2>1. For(b \o Each("stop"), "stop") = For(b, "stop") \cup For(Each("stop"), "stop")
    BY <1>1, <1>6, PieceFor
  <2> QED
    BY <1>1, <1>6, <1>7, <2>1, PieceKinds
<1> HIDE DEF c
<1>9. MayPrecede({"wait"} \cup {"stopIn"} \cup {"joinIn"} \cup {"stop"}, {"invoke"})
  BY DEF MayPrecede, Spent, Launching
<1>10. ExitMonitor = c \o Do("invoke")
  BY DEF ExitMonitor, a, b, c
<1>11. /\ Piece(ExitMonitor, {"wait"} \cup {"stopIn"} \cup {"joinIn"} \cup {"stop"} \cup {"invoke"})
       /\ Kinds(ExitMonitor) = Kinds(c) \cup Kinds(Do("invoke"))
       /\ For(ExitMonitor, "stop") = For(c, "stop") \cup For(Do("invoke"), "stop")
  <2>1. For(c \o Do("invoke"), "stop") = For(c, "stop") \cup For(Do("invoke"), "stop")
    BY <1>1, <1>8, PieceFor
  <2> QED
    BY <1>1, <1>8, <1>9, <1>10, <2>1, PieceKinds
<1>12. {"wait"} \cup {"stopIn"} \cup {"joinIn"} \cup {"stop"} \cup {"invoke"} = Watching
  BY DEF Watching
<1>13. MayPrecede(Watching, {"await"})
  BY DEF MayPrecede, Spent, Launching, Watching
<1>14. Piece(ExitMonitor, Watching)
  BY <1>11, <1>12
<1>15. /\ Piece(ExitMonitor \o Do("await"), Watching \cup {"await"})
       /\ Kinds(ExitMonitor \o Do("await")) = Kinds(ExitMonitor) \cup Kinds(Do("await"))
       /\ For(ExitMonitor \o Do("await"), "stop")
            = For(ExitMonitor, "stop") \cup For(Do("await"), "stop")
  <2>1. For(ExitMonitor \o Do("await"), "stop")
          = For(ExitMonitor, "stop") \cup For(Do("await"), "stop")
    BY <1>1, <1>14, PieceFor
  <2> QED
    BY <1>1, <1>13, <1>14, <2>1, PieceKinds
<1>16. {"wait", "invoke"} \subseteq Kinds(ExitMonitor)
  BY <1>1, <1>4, <1>6, <1>8, <1>11
<1>17. For(ExitMonitor, "stop") = StreamSet
  BY <1>1, <1>2, <1>8, <1>11
<1>18. {"wait", "invoke"} \subseteq Kinds(ExitMonitor \o Do("await"))
  BY <1>15, <1>16
<1>19. For(ExitMonitor \o Do("await"), "stop") = StreamSet
  BY <1>2, <1>15, <1>17
<1> QED
  BY <1>14, <1>15, <1>16, <1>17, <1>18, <1>19

\* What else a plan has left when it has some kind of step left.
Whole(k, stops) ==
  /\ "fork" \in k => "monitors" \in k
  /\ "fork" \in k /\ "invoke" \in k => "wait" \in k
  /\ "wait" \in k => "invoke" \in k /\ stops = StreamSet
  /\ "fork" \in k /\ k \cap (Closing \cup Fires) # {} => "invoke" \in k
  /\ "fork" \in k /\ "collect" \in k => "callbacks" \in k
  /\ "fireNow" \in k /\ "invoke" \in k => "collect" \in k
  /\ "collect" \in k => "fireNow" \in k
  /\ "callbacks" \in k => "monitors" \in k

Shaped(s) == s \in Seq(PlanStep) /\ Ordered(s) /\ Renews(s) /\ Whole(Kinds(s), For(s, "stop"))

LEMMA ShapedTail ==
  ASSUME NEW s, Shaped(s), s # <<>>
  PROVE  Shaped(Tail(s))
<1> DEFINE h == Head(s)[1]
           k == Kinds(s)
           r == Kinds(Tail(s))
<1>1. /\ Tail(s) \in Seq(PlanStep) /\ Ordered(Tail(s)) /\ Renews(Tail(s))
      /\ k = {h} \cup r /\ r \cap Spent(h) = {}
      /\ \A x : x \in For(s, "stop") => x \in For(Tail(s), "stop") \/ h = "stop"
      /\ For(Tail(s), "stop") \subseteq StreamSet
      /\ Whole(k, For(s, "stop"))
  <2>1. s \in Seq(PlanStep) /\ Ordered(s) /\ Renews(s) /\ Whole(Kinds(s), For(s, "stop"))
    BY DEF Shaped
  <2>2. /\ Tail(s) \in Seq(PlanStep) /\ Ordered(Tail(s)) /\ Renews(Tail(s))
        /\ k = {h} \cup r /\ r \cap Spent(h) = {}
    BY <2>1, AfterFirst
  <2>3. \A x : x \in For(s, "stop") => x \in For(Tail(s), "stop") \/ h = "stop"
    BY <2>1, AfterFirst
  <2>4. For(Tail(s), "stop") \subseteq StreamSet
    BY DEF For
  <2> QED
    BY <2>1, <2>2, <2>3, <2>4
<1> HIDE DEF h, k, r
<1>2. Whole(r, For(Tail(s), "stop"))
  <2>1. /\ h = "monitors" => "fork" \notin r /\ "callbacks" \notin r
        /\ h = "wait" => "fork" \notin r
        /\ h = "invoke" => "fork" \notin r /\ "wait" \notin r
        /\ h = "stop" => "wait" \notin r
        /\ h = "callbacks" => "fork" \notin r
        /\ h = "collect" => "invoke" \notin r
        /\ h = "fireNow" => "collect" \notin r
    BY <1>1 DEF Spent, Launching, Watching
  <2>2. "wait" \in r => For(Tail(s), "stop") = StreamSet
    BY <1>1, <2>1 DEF Whole
  <2> QED
    BY <1>1, <2>1, <2>2 DEF Whole
<1> QED
  BY <1>1, <1>2 DEF Shaped, r

LEMMA EmptyShaped == Shaped(<<>>) /\ Kinds(<<>>) = {} /\ \A op : For(<<>>, op) = {}
<1>1. <<>> \in Seq(PlanStep) /\ DOMAIN <<>> = {}
  OBVIOUS
<1> QED
  BY <1>1 DEF Shaped, Ordered, Renews, Whole, Kinds, For

LEMMA MonitorPlan ==
  LET s == ExitMonitor \o Do("await") IN
    /\ Shaped(s) /\ Kinds(s) \subseteq Watching \cup {"await"}
    /\ {"wait", "invoke"} \subseteq Kinds(s) /\ For(s, "stop") = StreamSet
<1> DEFINE s == ExitMonitor \o Do("await")
<1>1. /\ Piece(s, Watching \cup {"await"})
      /\ {"wait", "invoke"} \subseteq Kinds(s)
      /\ For(s, "stop") = StreamSet
  BY MonitorShape
<1> HIDE DEF s
<1>2. s \in Seq(PlanStep) /\ Ordered(s) /\ Kinds(s) \subseteq Watching \cup {"await"}
  BY <1>1 DEF Piece
<1>3. Renews(s)
  BY <1>2, NothingToRenew DEF Watching, Closing
<1>4. Whole(Kinds(s), StreamSet)
  BY <1>1, <1>2 DEF Whole, Watching, Closing, Fires
<1> QED
  BY <1>1, <1>2, <1>3, <1>4 DEF Shaped, s

LEMMA LaunchShapes ==
  ASSUME NEW s \in {LaunchAsyncPlan, LaunchSyncPlan}
  PROVE  /\ Shaped(s) /\ "fork" \in Kinds(s) /\ For(s, "attach") = StreamSet
         /\ s # <<>> /\ Head(s)[1] \notin Fires
<1> DEFINE a == Each("attach") \o Do("fork")
           b == a \o Do("monitors")
           c == a \o Do("callbacks")
           d == c \o Do("monitors")
           e == d \o ExitMonitor
           f == e \o Do("collect")
<1>0. {"attach", "fork", "callbacks", "monitors", "startMonitor", "collect"} \subseteq Steps
  BY DEF Steps
<1>1. /\ Piece(Each("attach"), {"attach"}) /\ For(Each("attach"), "attach") = StreamSet
      /\ Piece(Do("fork"), {"fork"}) /\ Kinds(Do("fork")) = {"fork"}
      /\ Piece(Do("callbacks"), {"callbacks"}) /\ Kinds(Do("callbacks")) = {"callbacks"}
      /\ Piece(Do("monitors"), {"monitors"}) /\ Kinds(Do("monitors")) = {"monitors"}
      /\ Piece(Do("startMonitor"), {"startMonitor"})
      /\ Kinds(Do("startMonitor")) = {"startMonitor"}
      /\ Piece(Do("collect"), {"collect"}) /\ Kinds(Do("collect")) = {"collect"}
  BY <1>0, PartKinds DEF Spent
<1>2. Piece(a, {"attach"} \cup {"fork"}) /\ Kinds(a) = Kinds(Each("attach")) \cup Kinds(Do("fork"))
  <2>1. MayPrecede({"attach"}, {"fork"})
    BY DEF MayPrecede, Spent
  <2> QED
    BY <1>1, <2>1, PieceKinds
<1>3. For(a, "attach") = StreamSet
  BY <1>1, PieceForAll
<1> HIDE DEF a
<1>4. ASSUME s = LaunchAsyncPlan
      PROVE  Shaped(s) /\ "fork" \in Kinds(s) /\ For(s, "attach") = StreamSet
  <2>1. MayPrecede({"attach"} \cup {"fork"}, {"monitors"})
    BY DEF MayPrecede, Spent
  <2>2. /\ Piece(b, {"attach"} \cup {"fork"} \cup {"monitors"})
        /\ Kinds(b) = Kinds(a) \cup Kinds(Do("monitors"))
    BY <1>1, <1>2, <2>1, PieceKinds
  <2>3. For(b, "attach") = StreamSet
    BY <1>1, <1>2, <1>3, PieceForAll
  <2> HIDE DEF b
  <2>4. MayPrecede({"attach"} \cup {"fork"} \cup {"monitors"}, {"startMonitor"})
    BY DEF MayPrecede, Spent
  <2>5. s = b \o Do("startMonitor")
    BY <1>4 DEF LaunchAsyncPlan, a, b
  <2>6. /\ Piece(s, {"attach"} \cup {"fork"} \cup {"monitors"} \cup {"startMonitor"})
        /\ Kinds(s) = Kinds(b) \cup Kinds(Do("startMonitor"))
    BY <1>1, <2>2, <2>4, <2>5, PieceKinds
  <2>7. For(s, "attach") = StreamSet
    BY <1>1, <2>2, <2>3, <2>5, PieceForAll
  <2>8. {"fork", "monitors"} \subseteq Kinds(s)
    BY <1>1, <1>2, <2>2, <2>6
  <2>9. Kinds(s) \subseteq {"attach", "fork", "monitors", "startMonitor"}
    BY <2>6 DEF Piece
  <2>10. Whole(Kinds(s), For(s, "stop"))
    BY <2>8, <2>9 DEF Whole, Closing, Fires
  <2>11. s \in Seq(PlanStep) /\ Ordered(s)
    BY <2>6 DEF Piece
  <2>12. Renews(s)
    BY <2>9, <2>11, NothingToRenew DEF Closing
  <2> QED
    BY <2>7, <2>8, <2>10, <2>11, <2>12 DEF Shaped
<1>5. ASSUME s = LaunchSyncPlan
      PROVE  Shaped(s) /\ "fork" \in Kinds(s) /\ For(s, "attach") = StreamSet
  <2>1. MayPrecede({"attach"} \cup {"fork"}, {"callbacks"})
    BY DEF MayPrecede, Spent
  <2>2. /\ Piece(c, {"attach"} \cup {"fork"} \cup {"callbacks"})
        /\ Kinds(c) = Kinds(a) \cup Kinds(Do("callbacks"))
    BY <1>1, <1>2, <2>1, PieceKinds
  <2>3. For(c, "attach") = StreamSet
    BY <1>1, <1>2, <1>3, PieceForAll
  <2> HIDE DEF c
  <2>4. MayPrecede({"attach"} \cup {"fork"} \cup {"callbacks"}, {"monitors"})
    BY DEF MayPrecede, Spent
  <2>5. /\ Piece(d, {"attach"} \cup {"fork"} \cup {"callbacks"} \cup {"monitors"})
        /\ Kinds(d) = Kinds(c) \cup Kinds(Do("monitors"))
    BY <1>1, <2>2, <2>4, PieceKinds
  <2>6. For(d, "attach") = StreamSet
    BY <1>1, <2>2, <2>3, PieceForAll
  <2> HIDE DEF d
  <2>7. Piece(d, {"attach"} \cup {"fork"} \cup {"callbacks"} \cup {"monitors"})
    BY <2>5
  <2>8. MayPrecede({"attach"} \cup {"fork"} \cup {"callbacks"} \cup {"monitors"}, Watching)
    BY DEF MayPrecede, Spent, Watching
  <2>9. /\ Piece(e, Launching \cup Watching)
        /\ Kinds(e) = Kinds(d) \cup Kinds(ExitMonitor)
    <3>1. /\ Piece(e, {"attach"} \cup {"fork"} \cup {"callbacks"} \cup {"monitors"} \cup Watching)
          /\ Kinds(e) = Kinds(d) \cup Kinds(ExitMonitor)
      BY <2>7, <2>8, MonitorShape, PieceKinds
    <3> QED
      BY <3>1 DEF Piece, Launching
  <2>10. For(e, "attach") = StreamSet
    BY <2>6, <2>7, MonitorShape, PieceForAll
  <2>11. For(e, "stop") = StreamSet
    BY <2>7, MonitorShape, PieceForAll
  <2> HIDE DEF e
  <2>12. MayPrecede(Launching \cup Watching, {"collect"})
    BY DEF MayPrecede, Spent, Launching, Watching
  <2>13. /\ Piece(f, Launching \cup Watching \cup {"collect"})
         /\ Kinds(f) = Kinds(e) \cup Kinds(Do("collect"))
    BY <1>1, <2>9, <2>12, PieceKinds
  <2>14. For(f, "attach") = StreamSet
    BY <1>1, <2>9, <2>10, PieceForAll
  <2>15. For(f, "stop") = StreamSet
    BY <1>1, <2>9, <2>11, PieceForAll
  <2> HIDE DEF f
  <2>16. MayPrecede(Launching \cup Watching \cup {"collect"}, Closing \cup {"fireNow"})
    BY DEF MayPrecede, Spent, Launching, Watching, Closing
  <2>17. s = f \o Exited("fireNow")
    BY <1>5 DEF LaunchSyncPlan, a, c, d, e, f
  <2>18. /\ Piece(Exited("fireNow"), Closing \cup {"fireNow"}) /\ Renews(Exited("fireNow"))
         /\ {"recreate", "fireNow"} \subseteq Kinds(Exited("fireNow"))
    BY ExitedShape DEF Fires
  <2>19. /\ Piece(s, (Launching \cup Watching \cup {"collect"}) \cup (Closing \cup {"fireNow"}))
         /\ Kinds(s) = Kinds(f) \cup Kinds(Exited("fireNow"))
    BY <2>13, <2>16, <2>17, <2>18, PieceKinds
  <2>20. For(s, "attach") = StreamSet /\ For(s, "stop") = StreamSet
    BY <2>13, <2>14, <2>15, <2>17, <2>18, PieceForAll
  <2>21. {"fork", "callbacks", "monitors", "wait", "invoke", "collect", "fireNow"} \subseteq Kinds(s)
    BY <1>1, <1>2, <2>2, <2>5, <2>9, <2>13, <2>18, <2>19, MonitorShape
  <2>22. Whole(Kinds(s), For(s, "stop"))
    BY <2>20, <2>21 DEF Whole
  <2>23. s \in Seq(PlanStep) /\ Ordered(s)
    BY <2>19 DEF Piece
  <2>24. Renews(s)
    <3>1. f \in Seq(PlanStep) /\ Exited("fireNow") \in Seq(PlanStep)
      BY <2>13, <2>18 DEF Piece
    <3> QED
      BY <2>17, <2>18, <3>1, RenewsConcat
  <2> QED
    BY <2>20, <2>21, <2>22, <2>23, <2>24 DEF Shaped
<1>6. Shaped(s) /\ "fork" \in Kinds(s) /\ For(s, "attach") = StreamSet
  BY <1>4, <1>5
<1>7. s # <<>>
  BY <1>6, EmptyShaped
<1>8. Head(s) = s[1]
  BY <1>6, <1>7 DEF Shaped
<1>9. s[1][1] \notin Fires
  BY <1>7, LaunchPlans DEF Sound
<1> QED
  BY <1>6, <1>7, <1>8, <1>9

-----------------------------------------------------------------------------
(* The life of an object: how the plans, the native pipes, the children    *)
(* and their pipes' threads go together.                                   *)

Left(a) == Kinds(plan[a])

\* The child of launch n has been waited for and its output has been read to the end.
Over(n) ==
  /\ home[n] # 0 /\ child[n] = "reaped"
  /\ \A s \in StreamSet : polling[Out(s, home[n])] = "ended"

\* Nothing has been done yet with the native pipes of generation h.
Untouched(h) ==
  /\ \A n \in 1 .. Launches : home[n] # h
  /\ \A s \in StreamSet : polling[Out(s, h)] = "off" /\ closesAsked[Out(s, h)] = 0

\* The native pipes of the object are there for the next fork.
Ready ==
  \/ "fork" \in Left(Main)
  \/ plan[Main] # <<>> /\ Head(plan[Main])[1] \in Fires
  \/ ~running /\ "recreate" \notin Left(Main)

LifeTypes ==
  /\ gen \in 1 .. Generations /\ pid \in 0 .. Launches /\ running \in BOOLEAN
  /\ home \in [1 .. Launches -> 0 .. Generations]
  /\ child \in [1 .. Launches -> {"none", "alive", "ended", "reaped"}]
  /\ polling \in [Outs \cup Ins -> {"off", "on", "ended"}]

Shapes ==
  /\ Shaped(plan[Main]) /\ Shaped(plan[Monitor])
  /\ Left(Monitor) \subseteq Watching \cup {"await"}

NewPipes ==
  /\ Ready => Untouched(gen)
  /\ \A h \in 1 .. Generations : h > gen => Untouched(h)

Homes ==
  /\ \A n \in 1 .. Launches : home[n] # 0 <=> n <= pid
  /\ \A n \in 1 .. Launches : n < pid => Over(n)
  /\ \A m, n \in 1 .. Launches : home[m] = home[n] /\ home[m] # 0 => m = n

\* Where the main thread is.
MainRuns == Left(Main) \cap (Launching \cup Watching) # {} => running
HasRoom == "fork" \in Left(Main) => pid < Launches
NoneLeft == ~running \/ "fork" \in Left(Main) => pid = 0 \/ Over(pid)
Unstarted ==
  "monitors" \in Left(Main) =>
    \A s \in StreamSet : polling[Out(s, gen)] = "off" /\ closesAsked[Out(s, gen)] = 0
Forked ==
  Left(Main) \cap {"monitors", "startMonitor"} # {} /\ "fork" \notin Left(Main) =>
    pid # 0 /\ home[pid] = gen
Ending ==
  Left(Main) \cap (Closing \cup Fires) # {} /\ "invoke" \notin Left(Main) =>
    /\ pid # 0 /\ Over(pid)
    /\ \A s \in StreamSet : polling[Out(s, gen)] # "on"
Returning == "fireNow" \in Left(Main) => "collect" \in Left(Main) \/ Synchronous(pid)

\* Where the watch over the child is, on the thread a.
Watched(a) ==
  "invoke" \in Left(a) /\ "fork" \notin Left(a) =>
    /\ pid # 0 /\ home[pid] = gen
    /\ "wait" \in Left(a) \/ child[pid] = "reaped"
    /\ \A s \in StreamSet : s \in For(plan[a], "stop") \/ polling[Out(s, gen)] = "ended"
Started ==
  "invoke" \in Left(Monitor)
    \/ ("monitors" \notin Left(Main) /\ Left(Main) \cap {"startMonitor", "invoke"} # {}) =>
    \A s \in StreamSet : polling[Out(s, gen)] # "off"
MonitorAlone == "invoke" \in Left(Monitor) \/ job = "sent" => plan[Main] = <<>> /\ running
Sent ==
  job = "sent" => pid # 0 /\ home[pid] = gen /\ Over(pid) /\ "invoke" \notin Left(Monitor)

LifeInv ==
  /\ LifeTypes /\ Shapes /\ NewPipes /\ Homes
  /\ MainRuns /\ HasRoom /\ NoneLeft /\ Unstarted /\ Forked /\ Ending /\ Returning
  /\ Watched(Main) /\ Watched(Monitor) /\ Started /\ MonitorAlone /\ Sent

\* What a step of a plan leaves.
LEMMA StepLeaves ==
  ASSUME PlanInv, Shapes, NEW a \in {Main, Monitor}, NEW op, Step(a, op)
  PROVE  /\ plan' \in [{Main, Monitor} -> Seq(PlanStep)] /\ Shapes'
         /\ plan[a] # <<>> /\ plan'[a] = Tail(plan[a])
         /\ Left(a) = {op} \cup Left(a)' /\ Left(a)' \cap Spent(op) = {}
         /\ \A x : x \in For(plan[a], "stop") =>
              x \in For(plan'[a], "stop") \/ (op = "stop" /\ Stream(a) = x)
         /\ \A b \in {Main, Monitor} \ {a} : plan'[b] = plan[b] /\ Left(b)' = Left(b)
         /\ op \in Closing \ {"recreate"} => "recreate" \in Left(a)'
         /\ a = Main /\ op # "recreate" => ~(plan'[Main] # <<>> /\ Head(plan'[Main])[1] \in Fires)
<1>1. /\ plan[a] # <<>> /\ Head(plan[a])[1] = op /\ plan' = [plan EXCEPT ![a] = Tail(plan[a])]
      /\ plan \in [{Main, Monitor} -> Seq(PlanStep)]
  BY DEF Step, At, PlanInv
<1>2. plan[a] \in Seq(PlanStep) /\ Tail(plan[a]) \in Seq(PlanStep)
  BY <1>1
<1>3. /\ plan' \in [{Main, Monitor} -> Seq(PlanStep)] /\ plan'[a] = Tail(plan[a])
      /\ \A b \in {Main, Monitor} \ {a} : plan'[b] = plan[b]
  BY <1>1, <1>2
<1>4. Shaped(plan[a]) /\ Shaped(plan'[a])
  BY <1>1, <1>3, ShapedTail DEF Shapes
<1>5. Left(a) = {op} \cup Left(a)'
  <2>1. Kinds(plan[a]) = {op} \cup Kinds(Tail(plan[a]))
    BY <1>1, <1>2, AfterFirst
  <2> QED
    BY <1>3, <2>1 DEF Left
<1>6. /\ Left(a)' \cap Spent(op) = {}
      /\ op \in Closing \ {"recreate"} => "recreate" \in Left(a)'
  BY <1>1, <1>2, <1>3, <1>4, AfterFirst DEF Left, Shaped
<1>7. \A x : x \in For(plan[a], "stop") =>
        x \in For(plan'[a], "stop") \/ (op = "stop" /\ Stream(a) = x)
  BY <1>1, <1>2, <1>3, AfterFirst DEF Stream
<1>8. \A b \in {Main, Monitor} \ {a} : plan'[b] = plan[b] /\ Left(b)' = Left(b)
  BY <1>3 DEF Left
<1>9. Shapes'
  BY <1>3, <1>4, <1>5, <1>8 DEF Shapes
<1>10. a = Main /\ op # "recreate" => ~(plan'[Main] # <<>> /\ Head(plan'[Main])[1] \in Fires)
  <2> SUFFICES ASSUME a = Main, op # "recreate", plan'[Main] # <<>> PROVE Head(plan'[Main])[1] \notin Fires
    OBVIOUS
  <2>1. PlanOK(plan[Main])
    BY DEF PlanInv, PlanGood
  <2>2. Tail(plan[Main])[1][1] \notin Fires
    BY <1>1, <1>2, <1>3, <2>1, PlanTail
  <2>3. Head(plan'[Main]) = Tail(plan[Main])[1]
    BY <1>2, <1>3
  <2> QED
    BY <2>2, <2>3
<1> QED
  BY <1>1, <1>3, <1>5, <1>6, <1>7, <1>8, <1>9, <1>10

LEMMA OutIsOut ==
  /\ \A s \in StreamSet, h \in 1 .. Generations : Out(s, h) \in Outs
  /\ \A p \in Outs : p[1] \in StreamSet /\ p[2] \in 1 .. Generations /\ p = Out(p[1], p[2])
BY ProcessAssumption DEF Out

\* The children and the threads of the reader pipes go on.
Mild ==
  /\ child' \in [1 .. Launches -> {"none", "alive", "ended", "reaped"}]
  /\ polling' \in [Outs \cup Ins -> {"off", "on", "ended"}]
  /\ \A n \in 1 .. Launches : child[n] = "reaped" => child'[n] = "reaped"
  /\ \A p \in Outs : polling'[p] = polling[p] \/ (polling[p] = "on" /\ polling'[p] = "ended")

LEMMA OverStays ==
  ASSUME LifeTypes, Mild, UNCHANGED home, NEW n \in 1 .. Launches, Over(n)
  PROVE  Over(n)'
<1>1. home[n] \in 1 .. Generations
  BY ChildAssumption DEF Over, LifeTypes
<1>2. \A s \in StreamSet : Out(s, home[n]) \in Outs
  BY <1>1, OutIsOut
<1> QED
  BY <1>2 DEF Over, Mild

LEMMA UntouchedStays ==
  ASSUME LifeTypes, Mild, UNCHANGED home, NEW h \in 1 .. Generations, Untouched(h),
         \A p \in Outs : closesAsked'[p] = closesAsked[p]
  PROVE  Untouched(h)'
<1>1. \A s \in StreamSet : Out(s, h) \in Outs
  BY OutIsOut
<1> QED
  BY <1>1 DEF Untouched, Mild

\* The parts of LifeInv that are kept by a step that leaves most of the plans.
LEMMA LifeKeeps ==
  ASSUME LifeInv, Mild, UNCHANGED <<gen, pid, running, home>>,
         job' = job \/ job' # "sent",
         Left(Main)' \subseteq Left(Main), Left(Monitor)' \subseteq Left(Monitor),
         plan[Main] = <<>> => plan'[Main] = <<>>,
         (Left(Main) \ Left(Main)') \cap {"invoke", "fork", "monitors"} = {},
         Synchronous(pid) => Synchronous(pid)',
         "collect" \in Left(Main) => "collect" \in Left(Main)' \/ Synchronous(pid)'
  PROVE  /\ LifeTypes' /\ Homes' /\ MainRuns' /\ HasRoom' /\ NoneLeft' /\ Forked' /\ Ending'
         /\ Returning' /\ Started' /\ MonitorAlone' /\ Sent'
<1> USE DEF LifeInv
<1>1. LifeTypes'
  BY DEF LifeTypes, Mild
<1>2. \A n \in 1 .. Launches : Over(n) => Over(n)'
  BY OverStays
<1>3. Homes'
  BY <1>2 DEF Homes
<1>4. MainRuns' /\ HasRoom' /\ MonitorAlone' /\ Forked'
  BY DEF MainRuns, HasRoom, MonitorAlone, Forked
<1>5. pid # 0 => pid \in 1 .. Launches
  BY ChildAssumption DEF LifeTypes
<1>6. NoneLeft'
  BY <1>2, <1>5 DEF NoneLeft
<1>7. Sent'
  BY <1>2, <1>5 DEF Sent
<1>8. \A s \in StreamSet : Out(s, gen) \in Outs
  BY OutIsOut DEF LifeTypes
<1>9. Ending'
  BY <1>2, <1>5, <1>8 DEF Ending, Mild
<1>10. Started'
  BY <1>8 DEF Started, Mild
<1>11. Returning'
  BY DEF Returning
<1> QED
  BY <1>1, <1>3, <1>4, <1>6, <1>7, <1>9, <1>10, <1>11

LEMMA PipesKeep ==
  ASSUME LifeInv, Mild, UNCHANGED <<gen, home>>, Ready' => Ready, Left(Main)' \subseteq Left(Main),
         \A p \in Outs : closesAsked'[p] = closesAsked[p]
  PROVE  NewPipes' /\ Unstarted'
<1> USE DEF LifeInv
<1>1. \A h \in 1 .. Generations : Untouched(h) => Untouched(h)'
  BY UntouchedStays
<1>2. gen \in 1 .. Generations /\ \A s \in StreamSet : Out(s, gen) \in Outs
  BY OutIsOut DEF LifeTypes
<1>3. NewPipes'
  BY <1>1, <1>2 DEF NewPipes
<1>4. Unstarted'
  BY <1>2 DEF Unstarted, Mild
<1> QED
  BY <1>3, <1>4

LEMMA WatchKeeps ==
  ASSUME LifeInv, Mild, UNCHANGED <<gen, pid, home>>, NEW b \in {Main, Monitor},
         Left(b)' \subseteq Left(b), "fork" \in Left(b) => "fork" \in Left(b)',
         "wait" \in Left(b) => "wait" \in Left(b)' \/ child'[pid] = "reaped",
         \A s \in StreamSet : s \in For(plan[b], "stop") =>
           \/ s \in For(plan'[b], "stop")
           \/ "invoke" \in Left(b)' /\ "fork" \notin Left(b)' => polling'[Out(s, gen)] = "ended"
  PROVE  Watched(b)'
<1>1. Watched(b) /\ gen \in 1 .. Generations
  BY DEF LifeInv, LifeTypes
<1>2. \A s \in StreamSet : Out(s, gen) \in Outs
  BY <1>1, OutIsOut
<1>3. pid # 0 => pid \in 1 .. Launches
  BY ChildAssumption DEF LifeInv, LifeTypes
<1> QED
  BY <1>1, <1>2, <1>3 DEF Watched, Mild

\* A step of a plan that starts nothing, invokes nothing and makes no pipes.
LEMMA LifeTail ==
  ASSUME LifeInv, PlanInv, Mild, UNCHANGED <<gen, pid, running, home>>,
         NEW a \in {Main, Monitor}, NEW op \in PlainOps \ {"fork"}, Step(a, op),
         job' = job \/ job' # "sent",
         Synchronous(pid) => Synchronous(pid)',
         op = "collect" => Synchronous(pid)',
         op = "wait" => child'[pid] = "reaped",
         op = "stop" => polling'[Out(Stream(a), gen)] # "on",
         (NewPipes' /\ Unstarted') \/ \A p \in Outs : closesAsked'[p] = closesAsked[p]
  PROVE  LifeInv'
<1>1. /\ plan[a] # <<>> /\ Left(a) = {op} \cup Left(a)' /\ Left(a)' \cap Spent(op) = {}
      /\ \A x : x \in For(plan[a], "stop") =>
           x \in For(plan'[a], "stop") \/ (op = "stop" /\ Stream(a) = x)
      /\ \A b \in {Main, Monitor} \ {a} : plan'[b] = plan[b] /\ Left(b)' = Left(b)
      /\ a = Main => ~(plan'[Main] # <<>> /\ Head(plan'[Main])[1] \in Fires)
      /\ Shapes'
  <2>1. op # "recreate"
    BY DEF PlainOps
  <2> QED
    BY <2>1, StepLeaves DEF LifeInv
<1>2. op \notin {"invoke", "fork", "monitors", "recreate"}
  BY DEF PlainOps
<1>3. \A b \in {Main, Monitor} :
        /\ Left(b)' \subseteq Left(b) /\ Left(b) \ Left(b)' \subseteq {op}
        /\ b # a => Left(b)' = Left(b) /\ plan'[b] = plan[b]
  BY <1>1
<1>4. /\ LifeTypes' /\ Homes' /\ MainRuns' /\ HasRoom' /\ NoneLeft' /\ Forked' /\ Ending'
      /\ Returning' /\ Started' /\ MonitorAlone' /\ Sent'
  <2>1. plan[Main] = <<>> => plan'[Main] = <<>>
    BY <1>1
  <2>2. "collect" \in Left(Main) => "collect" \in Left(Main)' \/ Synchronous(pid)'
    BY <1>3
  <2>3. /\ Left(Main)' \subseteq Left(Main) /\ Left(Monitor)' \subseteq Left(Monitor)
        /\ (Left(Main) \ Left(Main)') \cap {"invoke", "fork", "monitors"} = {}
    BY <1>2, <1>3
  <2> QED
    BY <2>1, <2>2, <2>3, LifeKeeps
<1>5. NewPipes' /\ Unstarted'
  <2>1. Left(Main)' \subseteq Left(Main) /\ ("recreate" \in Left(Main) => "recreate" \in Left(Main)')
    BY <1>2, <1>3
  <2>2. Ready' => Ready
    BY <1>1, <2>1 DEF Ready
  <2> QED
    BY <2>1, <2>2, PipesKeep
<1>6. ASSUME NEW b \in {Main, Monitor} PROVE Watched(b)'
  <2>1. ASSUME NEW s \in StreamSet, s \in For(plan[b], "stop"), s \notin For(plan'[b], "stop"),
               "invoke" \in Left(b)'
        PROVE  polling'[Out(s, gen)] = "ended"
    <3>1. b = a /\ op = "stop" /\ Stream(a) = s
      BY <1>1, <1>3, <2>1
    <3>2. "monitors" \notin Left(a)
      BY <1>1, <3>1 DEF Spent, Launching
    <3>3. polling[Out(s, gen)] # "off"
      BY <1>3, <2>1, <3>1, <3>2 DEF LifeInv, Started
    <3>4. Out(s, gen) \in Outs
      BY OutIsOut DEF LifeInv, LifeTypes
    <3> QED
      BY <3>1, <3>3, <3>4 DEF LifeInv, LifeTypes, Mild
  <2>2. Left(b)' \subseteq Left(b) /\ ("fork" \in Left(b) => "fork" \in Left(b)')
    BY <1>3
  <2>3. "wait" \in Left(b) => "wait" \in Left(b)' \/ child'[pid] = "reaped"
    BY <1>3
  <2> QED
    BY <2>1, <2>2, <2>3, WatchKeeps
<1> QED
  BY <1>1, <1>4, <1>5, <1>6 DEF LifeInv

\* A step that no plan has.
LEMMA LifeSame ==
  ASSUME LifeInv, Mild, UNCHANGED <<plan, gen, pid, running, home, job, returned>>,
         \A p \in Outs : closesAsked'[p] = closesAsked[p]
  PROVE  LifeInv'
<1>1. /\ \A b \in {Main, Monitor} : Left(b)' = Left(b) /\ plan'[b] = plan[b]
      /\ Synchronous(pid)' = Synchronous(pid) /\ (Ready' <=> Ready)
  BY DEF Left, Synchronous, Ready
<1>2. Shapes'
  BY <1>1 DEF LifeInv, Shapes
<1>3. /\ LifeTypes' /\ Homes' /\ MainRuns' /\ HasRoom' /\ NoneLeft' /\ Forked' /\ Ending'
      /\ Returning' /\ Started' /\ MonitorAlone' /\ Sent'
  BY <1>1, LifeKeeps
<1>4. NewPipes' /\ Unstarted'
  BY <1>1, PipesKeep
<1>5. \A b \in {Main, Monitor} : Watched(b)'
  BY <1>1, WatchKeeps
<1> QED
  BY <1>2, <1>3, <1>4, <1>5 DEF LifeInv

LEMMA MildSame ==
  ASSUME LifeTypes, UNCHANGED <<child, polling>>
  PROVE  Mild
BY DEF LifeTypes, Mild

\* The launches so far are 1 .. pid.
LEMMA CountIsPid == LifeTypes /\ Homes => Count = pid
<1> SUFFICES ASSUME LifeTypes, Homes PROVE Count = pid
  OBVIOUS
<1>1. pid \in Nat /\ 1 \in Int /\ pid \in Int
  BY ChildAssumption DEF LifeTypes
<1>2. {n \in 1 .. Launches : home[n] # 0} = 1 .. pid
  BY ChildAssumption DEF LifeTypes, Homes
<1>3. Cardinality(1 .. pid) = IF 1 > pid THEN 0 ELSE pid - 1 + 1
  BY <1>1, FS_Interval
<1>4. Count = Cardinality(1 .. pid)
  BY <1>2 DEF Count
<1> QED
  BY <1>1, <1>3, <1>4

LEMMA LifeLaunch ==
  ASSUME LifeInv, PlanInv, LaunchAsync \/ LaunchSync
  PROVE  LifeInv'
<1>1. PICK t \in {LaunchAsyncPlan, LaunchSyncPlan} : Launch(t)
  BY DEF LaunchAsync, LaunchSync
<1>2. /\ plan[Main] = <<>> /\ ~running /\ running' /\ Count < Launches
      /\ plan' = [plan EXCEPT ![Main] = t]
      /\ UNCHANGED <<child, polling, gen, pid, home, job, returned, closesAsked>>
  BY <1>1 DEF Launch, MainFree, NativesSame, nativeVars, NobodyCalls, pipeVars, askedVars,
              childVars, saidVars
<1>3. plan'[Main] = t /\ plan'[Monitor] = plan[Monitor]
  BY <1>2, Different DEF PlanInv
<1>4. /\ Shaped(t) /\ "fork" \in Kinds(t) /\ t # <<>> /\ Head(t)[1] \notin Fires
      /\ Whole(Kinds(t), For(t, "stop"))
  BY LaunchShapes DEF Shaped
<1>5. Left(Main)' = Kinds(t) /\ Left(Monitor)' = Left(Monitor) /\ Left(Main) = {}
  BY <1>2, <1>3, EmptyShaped DEF Left
<1>6. "invoke" \notin Left(Monitor) /\ job # "sent"
  BY <1>2 DEF LifeInv, MonitorAlone
<1>7. Untouched(gen) /\ (pid = 0 \/ Over(pid))
  BY <1>2, <1>5 DEF LifeInv, NewPipes, Ready, NoneLeft
<1>8. /\ \A n \in 1 .. Launches : Over(n) => Over(n)'
      /\ \A h \in 1 .. Generations : Untouched(h) => Untouched(h)'
      /\ pid # 0 => pid \in 1 .. Launches
      /\ gen \in 1 .. Generations
  BY <1>2, MildSame, OverStays, UntouchedStays, ChildAssumption DEF LifeInv, LifeTypes
<1>9. "monitors" \in Kinds(t) /\ ("fireNow" \in Kinds(t) => "collect" \in Kinds(t))
      /\ (Kinds(t) \cap (Closing \cup Fires) # {} => "invoke" \in Kinds(t))
  BY <1>4 DEF Whole, Fires
<1>10. LifeTypes' /\ Shapes' /\ Homes'
  <2>1. LifeTypes'
    BY <1>2 DEF LifeInv, LifeTypes
  <2>2. Shapes'
    BY <1>3, <1>4, <1>5 DEF LifeInv, Shapes
  <2> QED
    BY <1>2, <1>8, <2>1, <2>2 DEF LifeInv, Homes
<1>11. NewPipes'
  BY <1>2, <1>7, <1>8 DEF LifeInv, NewPipes
<1>12. MainRuns' /\ MonitorAlone' /\ Sent' /\ Started' /\ Forked' /\ Ending' /\ Returning'
  BY <1>2, <1>4, <1>5, <1>6, <1>9
     DEF MainRuns, MonitorAlone, Sent, Started, Forked, Ending, Returning
<1>13. HasRoom' /\ NoneLeft'
  BY <1>2, <1>7, <1>8, CountIsPid DEF LifeInv, HasRoom, NoneLeft
<1>14. Unstarted'
  BY <1>2, <1>7 DEF Unstarted, Untouched
<1>15. Watched(Main)' /\ Watched(Monitor)'
  BY <1>4, <1>5, <1>6 DEF Watched
<1> QED
  BY <1>10, <1>11, <1>12, <1>13, <1>14, <1>15 DEF LifeInv

\* Steps that change nothing but the plans.
LEMMA OnlyPlans ==
  ASSUME LifeInv, UNCHANGED <<child, polling, home, pid, gen, running, closesAsked>>
  PROVE  /\ LifeTypes' /\ Homes'
         /\ \A n : Over(n)' = Over(n)
         /\ \A h : Untouched(h)' = Untouched(h)
<1>1. \A n : Over(n)' = Over(n)
  BY DEF Over
<1>2. \A h : Untouched(h)' = Untouched(h)
  BY DEF Untouched
<1>3. LifeTypes'
  BY DEF LifeInv, LifeTypes
<1>4. Homes'
  BY <1>1 DEF LifeInv, Homes
<1> QED
  BY <1>1, <1>2, <1>3, <1>4

LEMMA LifeForkFails ==
  ASSUME LifeInv, PlanInv, ForkFails
  PROVE  LifeInv'
<1>1. /\ plan[Main] # <<>> /\ plan' = [plan EXCEPT ![Main] = <<>>]
      /\ Head(plan[Main])[1] = "fork"
      /\ UNCHANGED <<child, polling, gen, pid, home, job, returned, closesAsked, running>>
  BY DEF ForkFails, At, NativesSame, nativeVars, NobodyCalls, pipeVars, askedVars,
              childVars, saidVars, objectVars
<1>2. plan'[Main] = <<>> /\ plan'[Monitor] = plan[Monitor]
  BY <1>1, Different DEF PlanInv
<1>3. Shaped(<<>>) /\ Left(Main)' = {} /\ Left(Monitor)' = Left(Monitor)
  BY <1>2, EmptyShaped DEF Left
<1>4. "fork" \in Left(Main)
  BY <1>1, AfterFirst DEF Left, PlanInv
<1>5. running /\ "invoke" \notin Left(Monitor) /\ job # "sent"
  BY <1>1, <1>4 DEF LifeInv, MainRuns, MonitorAlone, Launching
<1>6. LifeTypes' /\ Homes' /\ \A h : Untouched(h)' = Untouched(h)
  BY <1>1, OnlyPlans
<1>7. Shapes'
  BY <1>2, <1>3 DEF LifeInv, Shapes
<1>8. NewPipes'
  BY <1>1, <1>2, <1>3, <1>5, <1>6 DEF LifeInv, NewPipes, Ready
<1> QED
  BY <1>1, <1>3, <1>5, <1>6, <1>7, <1>8
     DEF LifeInv, MainRuns, HasRoom, NoneLeft, Unstarted, Forked, Ending, Returning, Watched,
         Started, MonitorAlone, Sent

LEMMA LifeStartExitMonitor ==
  ASSUME LifeInv, PlanInv, StartExitMonitor
  PROVE  LifeInv'
<1> DEFINE m == IF plan[Monitor] = <<>> THEN ExitMonitor \o Do("await") ELSE plan[Monitor]
<1>1. /\ plan[Main] # <<>> /\ plan' = [plan EXCEPT ![Main] = <<>>, ![Monitor] = m]
      /\ Head(plan[Main])[1] = "startMonitor"
      /\ UNCHANGED <<child, polling, gen, pid, home, job, returned, closesAsked, running>>
  BY DEF StartExitMonitor, At, NativesSame, nativeVars, NobodyCalls, pipeVars, askedVars,
              childVars, saidVars
<1>2. Shaped(m) /\ Kinds(m) \subseteq Watching \cup {"await"}
  BY MonitorPlan DEF LifeInv, Shapes, Left
<1>3. /\ "startMonitor" \in Left(Main)
      /\ \A op \in Launching \cup Watching : op # "startMonitor" => op \notin Left(Main)
  <2>1. /\ Left(Main) = {"startMonitor"} \cup Kinds(Tail(plan[Main]))
        /\ Kinds(Tail(plan[Main])) \cap Spent("startMonitor") = {}
    BY <1>1, AfterFirst DEF Left, LifeInv, Shapes, Shaped
  <2> QED
    BY <2>1 DEF Spent
<1>4. running /\ "invoke" \notin Left(Monitor) /\ job # "sent"
  BY <1>1, <1>3 DEF LifeInv, MainRuns, MonitorAlone, Launching
<1>5. /\ pid # 0 /\ home[pid] = gen
      /\ \A s \in StreamSet : polling[Out(s, gen)] # "off"
  BY <1>3 DEF LifeInv, Forked, Started, Launching
<1>6. plan[Monitor] = <<>> =>
        "wait" \in Kinds(m) /\ For(m, "stop") = StreamSet
  BY MonitorPlan
<1>7. plan[Monitor] # <<>> => "invoke" \notin Kinds(m)
  BY <1>4 DEF Left
<1>8. Shaped(m) /\ m \in Seq(PlanStep)
  BY <1>2 DEF Shaped
<1> HIDE DEF m
<1>9. plan'[Main] = <<>> /\ plan'[Monitor] = m
  BY <1>1, Different DEF PlanInv
<1>10. Shaped(<<>>) /\ Left(Main)' = {} /\ Left(Monitor)' = Kinds(m)
  BY <1>9, EmptyShaped DEF Left
<1>11. LifeTypes' /\ Homes' /\ \A h : Untouched(h)' = Untouched(h)
  BY <1>1, OnlyPlans
<1>12. Shapes'
  BY <1>2, <1>9, <1>10 DEF Shapes
<1>13. NewPipes'
  BY <1>1, <1>4, <1>9, <1>10, <1>11 DEF LifeInv, NewPipes, Ready
<1>14. Watched(Monitor)'
  BY <1>1, <1>5, <1>6, <1>7, <1>9, <1>10 DEF Watched
<1>15. Started' /\ MonitorAlone'
  BY <1>1, <1>4, <1>5, <1>9, <1>10 DEF Started, MonitorAlone
<1> QED
  BY <1>1, <1>4, <1>10, <1>11, <1>12, <1>13, <1>14, <1>15
     DEF LifeInv, MainRuns, HasRoom, NoneLeft, Unstarted, Forked, Ending, Returning, Watched, Sent

\* The plan of Exited, with what is left of another one behind it.
LEMMA ExitedThen ==
  ASSUME NEW t, Shaped(t), Kinds(t) \cap (Launching \cup Watching \cup {"fireLater"}) = {}
  PROVE  LET s == Exited("fireLater") \o t IN
           /\ Shaped(s) /\ Kinds(s) = Kinds(Exited("fireLater")) \cup Kinds(t)
           /\ Kinds(Exited("fireLater")) \subseteq Closing \cup {"fireLater"}
           /\ "recreate" \in Kinds(s) /\ s # <<>>
<1> DEFINE e == Exited("fireLater")
<1>1. /\ Piece(e, Closing \cup {"fireLater"}) /\ Renews(e)
      /\ {"recreate", "fireLater"} \subseteq Kinds(e)
  BY ExitedShape DEF Fires
<1> HIDE DEF e
<1> DEFINE s == e \o t
<1>2. Piece(t, Kinds(t)) /\ Renews(t) /\ Whole(Kinds(t), For(t, "stop"))
  BY DEF Shaped, Piece
<1>3. MayPrecede(Closing \cup {"fireLater"}, Kinds(t))
  BY DEF MayPrecede, Spent, Closing
<1>4. Piece(s, Closing \cup {"fireLater"} \cup Kinds(t)) /\ Kinds(s) = Kinds(e) \cup Kinds(t)
  BY <1>1, <1>2, <1>3, PieceKinds
<1>5. s \in Seq(PlanStep) /\ Ordered(s) /\ Kinds(e) \subseteq Closing \cup {"fireLater"}
  BY <1>1, <1>4 DEF Piece
<1>6. Renews(s)
  BY <1>1, <1>2, RenewsConcat DEF Piece
<1>7. "recreate" \in Kinds(s)
  BY <1>1, <1>4
<1> HIDE DEF s
<1>8. Whole(Kinds(s), For(s, "stop"))
  BY <1>2, <1>4, <1>5 DEF Whole, Launching, Watching, Closing
<1>9. s # <<>>
  BY <1>7, EmptyShaped
<1> QED
  BY <1>4, <1>5, <1>6, <1>7, <1>8, <1>9 DEF Shaped, s, e

\* What begins with Exited does not begin by saying that the process has ended.
LEMMA ExitedHead ==
  ASSUME NEW t \in Seq(PlanStep), Exited("fireLater") # <<>>
  PROVE  Head(Exited("fireLater") \o t)[1] \notin Fires
<1> DEFINE e == Exited("fireLater")
<1>1. Sound(e)
  BY ExitedSound DEF Fires
<1> HIDE DEF e
<1>2. e \in Seq(PlanStep) /\ e # <<>> /\ e[1][1] \notin Fires
  BY <1>1 DEF Sound, e
<1>3. Head(e \o t) = e[1]
  BY <1>2
<1> QED
  BY <1>2, <1>3 DEF e

LEMMA ExitedSome == Exited("fireLater") # <<>>
<1>1. {"recreate", "fireLater"} \subseteq Kinds(Exited("fireLater"))
  BY ExitedShape DEF Fires
<1> QED
  BY <1>1, EmptyShaped

LEMMA LifeExitCallback ==
  ASSUME LifeInv, PlanInv, ExitCallback
  PROVE  LifeInv'
<1> DEFINE d == Do("signal")
           t == Exited("fireLater") \o d
<1>1. /\ plan[Main] = <<>> /\ job = "sent" /\ job' = "taken"
      /\ plan' = [plan EXCEPT ![Main] = t]
      /\ UNCHANGED <<child, polling, gen, pid, home, returned, closesAsked, running>>
  BY DEF ExitCallback, MainFree, NativesSame, nativeVars, NobodyCalls, pipeVars, askedVars,
              childVars, saidVars, objectVars
<1>2. /\ pid # 0 /\ home[pid] = gen /\ Over(pid) /\ "invoke" \notin Left(Monitor) /\ running
      /\ \A s \in StreamSet : polling[Out(s, gen)] = "ended"
  BY <1>1 DEF LifeInv, Sent, MonitorAlone, Over
<1>3. Kinds(d) = {"signal"} /\ d \in Seq(PlanStep) /\ Ordered(d) /\ Shaped(d)
  <2>1. Piece(d, {"signal"}) /\ Kinds(d) = {"signal"}
    BY PartKinds DEF Steps
  <2>2. Renews(d)
    BY <2>1, NothingToRenew DEF Piece, Closing
  <2> QED
    BY <2>1, <2>2 DEF Piece, Shaped, Whole, Closing, Fires
<1>4. /\ Shaped(t) /\ Kinds(t) = Kinds(Exited("fireLater")) \cup {"signal"}
      /\ Kinds(Exited("fireLater")) \subseteq Closing \cup {"fireLater"}
      /\ "recreate" \in Kinds(t) /\ t # <<>>
  BY <1>3, ExitedThen DEF Launching, Watching
<1>5. Head(t)[1] \notin Fires
  BY <1>3, ExitedHead, ExitedSome
<1> HIDE DEF t
<1>6. plan'[Main] = t /\ plan'[Monitor] = plan[Monitor]
  BY <1>1, Different DEF PlanInv
<1>7. Left(Main)' = Kinds(t) /\ Left(Monitor)' = Left(Monitor)
  BY <1>6 DEF Left
<1>8. /\ Kinds(t) \cap (Launching \cup Watching) = {}
      /\ "fireNow" \notin Kinds(t)
  BY <1>4 DEF Closing, Launching, Watching
<1>9. /\ LifeTypes' /\ Homes' /\ \A h : Untouched(h)' = Untouched(h)
      /\ \A n : Over(n)' = Over(n)
  BY <1>1, OnlyPlans
<1>10. Shapes'
  BY <1>4, <1>6, <1>7 DEF LifeInv, Shapes
<1>11. ~Ready'
  BY <1>1, <1>2, <1>5, <1>6, <1>7, <1>8 DEF Ready, Launching
<1>12. NewPipes'
  BY <1>1, <1>9, <1>11 DEF LifeInv, NewPipes
<1>13. /\ MainRuns' /\ HasRoom' /\ NoneLeft' /\ Unstarted' /\ Forked'
  BY <1>1, <1>2, <1>7, <1>8
     DEF MainRuns, HasRoom, NoneLeft, Unstarted, Forked, Launching, Watching
<1>14. Ending' /\ Returning' /\ Watched(Main)' /\ Watched(Monitor)'
  BY <1>1, <1>2, <1>7, <1>8, <1>9 DEF Ending, Returning, Watched, Watching
<1>15. Started' /\ MonitorAlone' /\ Sent'
  BY <1>1, <1>2, <1>7, <1>8 DEF Started, MonitorAlone, Sent, Launching, Watching
<1> QED
  BY <1>9, <1>10, <1>12, <1>13, <1>14, <1>15 DEF LifeInv

\* When the watch has got to its end, the child is over.
LEMMA WatchOver ==
  ASSUME LifeInv, NEW a \in {Main, Monitor}, "invoke" \in Left(a), "fork" \notin Left(a),
         "wait" \notin Left(a), For(plan[a], "stop") = {}
  PROVE  pid # 0 /\ home[pid] = gen /\ Over(pid) /\ \A s \in StreamSet : polling[Out(s, gen)] = "ended"
<1>1. Watched(a)
  BY DEF LifeInv
<1> QED
  BY <1>1, ChildAssumption DEF Watched, Over, LifeInv, LifeTypes

LEMMA KindsFor == \A s, op : op \notin Kinds(s) => For(s, op) = {}
BY DEF Kinds, For

LEMMA LifeInvoke ==
  ASSUME LifeInv, PlanInv, NEW a \in {Main, Monitor}, Invoke(a)
  PROVE  LifeInv'
<1> DEFINE r == Tail(plan[a])
           t == Exited("fireLater") \o r
<1>1. /\ plan[a] # <<>> /\ Head(plan[a])[1] = "invoke"
      /\ UNCHANGED <<child, polling, gen, pid, home, returned, closesAsked, running>>
      /\ \/ a = Monitor /\ job' = "sent" /\ plan' = [plan EXCEPT ![a] = r]
         \/ /\ a = Main /\ job' = job
            /\ plan' = [plan EXCEPT ![a] = t] \/ plan' = [plan EXCEPT ![a] = r]
  BY DEF Invoke, At, NativesSame, nativeVars, NobodyCalls, pipeVars, askedVars,
              childVars, saidVars, objectVars
<1>2. /\ Left(a) = {"invoke"} \cup Kinds(r)
      /\ Kinds(r) \cap (Launching \cup Watching \cup {"fireLater"}) = {}
      /\ Shaped(r) /\ r \in Seq(PlanStep)
      /\ Whole(Left(a), For(plan[a], "stop"))
  BY <1>1, AfterFirst, ShapedTail DEF Left, LifeInv, Shapes, Shaped, Spent
<1>3. /\ "wait" \notin Left(a) /\ "fork" \notin Left(a) /\ "stop" \notin Left(a)
      /\ \A op \in Launching : op \notin Left(a)
      /\ For(plan[a], "stop") = {}
  BY <1>2, KindsFor DEF Launching, Watching, Left
<1>4. /\ pid # 0 /\ home[pid] = gen /\ Over(pid)
      /\ \A s \in StreamSet : polling[Out(s, gen)] = "ended"
  BY <1>2, <1>3, WatchOver
<1>5. /\ LifeTypes' /\ Homes' /\ \A h : Untouched(h)' = Untouched(h)
      /\ \A n : Over(n)' = Over(n)
  BY <1>1, OnlyPlans
<1>6. running
  BY <1>2 DEF LifeInv, MainRuns, MonitorAlone, Watching
<1>7. ASSUME a = Main PROVE LifeInv'
  <2>2. ASSUME NEW u, u = r \/ u = t, plan' = [plan EXCEPT ![Main] = u] PROVE LifeInv'
    <3>1. /\ Shaped(u) /\ Kinds(u) \cap (Launching \cup Watching) = {}
          /\ "fireNow" \in Kinds(u) => "fireNow" \in Kinds(r)
          /\ Kinds(r) \subseteq Kinds(u)
      <4>1. /\ Shaped(t) /\ Kinds(t) = Kinds(Exited("fireLater")) \cup Kinds(r)
            /\ Kinds(Exited("fireLater")) \subseteq Closing \cup {"fireLater"}
        BY <1>2, ExitedThen
      <4> HIDE DEF t, r
      <4>2. Kinds(Exited("fireLater")) \cap (Launching \cup Watching \cup {"fireNow"}) = {}
        BY <4>1 DEF Closing, Launching, Watching
      <4> QED
        BY <1>2, <2>2, <4>1, <4>2
    <3>2. plan'[Main] = u /\ plan'[Monitor] = plan[Monitor]
      BY <2>2, Different DEF PlanInv
    <3>3. Left(Main)' = Kinds(u) /\ Left(Monitor)' = Left(Monitor)
      BY <3>2 DEF Left
    <3>4. Shapes'
      BY <3>1, <3>2, <3>3 DEF LifeInv, Shapes
    <3>5. ~(u # <<>> /\ Head(u)[1] \in Fires)
      <4>1. PlanOK(plan[Main])
        BY DEF PlanInv, PlanGood
      <4>2. r # <<>> => r[1][1] \notin Fires /\ Head(r) = r[1]
        BY <1>1, <1>2, <1>7, <4>1, PlanTail DEF LifeInv, Shapes, Shaped
      <4>3. Head(t)[1] \notin Fires
        BY <1>2, ExitedHead, ExitedSome
      <4> QED
        BY <2>2, <4>2, <4>3
    <3>6. ~Ready'
      BY <1>1, <1>6, <3>1, <3>2, <3>3, <3>5 DEF Ready, Launching
    <3>7. NewPipes'
      BY <1>1, <1>5, <3>6 DEF LifeInv, NewPipes
    <3>8. "invoke" \notin Left(Monitor) /\ job # "sent" /\ job' = job
      BY <1>1, <1>7, Different DEF LifeInv, MonitorAlone
    <3>9. MainRuns' /\ HasRoom' /\ NoneLeft' /\ Unstarted' /\ Forked'
      BY <1>1, <1>6, <3>1, <3>3
         DEF MainRuns, HasRoom, NoneLeft, Unstarted, Forked, Launching, Watching
    <3>10. Ending' /\ Watched(Main)' /\ Watched(Monitor)'
      BY <1>1, <1>4, <1>5, <3>1, <3>3, <3>8 DEF Ending, Watched, Watching
    <3>11. Started' /\ MonitorAlone' /\ Sent'
      BY <1>1, <3>1, <3>3, <3>8 DEF Started, MonitorAlone, Sent, Launching, Watching
    <3>12. Returning'
      <4>1. "fireNow" \in Kinds(u) => "fireNow" \in Left(Main) /\ "invoke" \in Left(Main)
        BY <1>2, <1>7, <3>1
      <4>2. "collect" \in Left(Main) => "collect" \in Kinds(u)
        BY <1>2, <1>7, <3>1
      <4>3. "fireNow" \in Kinds(u) => "collect" \in Kinds(u)
        BY <1>2, <1>7, <4>1, <4>2 DEF Whole
      <4> QED
        BY <3>3, <4>3 DEF Returning
    <3> QED
      BY <1>5, <3>4, <3>7, <3>9, <3>10, <3>11, <3>12 DEF LifeInv
  <2> QED
    BY <1>1, <1>7, <2>2, Different
<1>8. ASSUME a = Monitor PROVE LifeInv'
  <2>1. plan'[Main] = plan[Main] /\ plan'[Monitor] = r /\ job' = "sent"
    BY <1>1, <1>8, Different DEF PlanInv
  <2>2. Left(Main)' = Left(Main) /\ Left(Monitor)' = Kinds(r)
    BY <2>1 DEF Left
  <2>3. Shapes'
    BY <1>2, <1>8, <2>1, <2>2 DEF LifeInv, Shapes
  <2>4. plan[Main] = <<>> /\ Left(Main) = {} /\ "invoke" \notin Kinds(r)
    BY <1>2, <1>8, EmptyShaped DEF LifeInv, MonitorAlone, Left, Watching
  <2>5. NewPipes'
    BY <1>1, <1>5, <1>6, <2>1, <2>2, <2>4 DEF LifeInv, NewPipes, Ready
  <2>6. MainRuns' /\ HasRoom' /\ NoneLeft' /\ Unstarted' /\ Forked'
    BY <1>1, <1>6, <2>2, <2>4 DEF MainRuns, HasRoom, NoneLeft, Unstarted, Forked
  <2>7. Ending' /\ Returning' /\ Watched(Main)' /\ Watched(Monitor)' /\ Started'
    BY <2>2, <2>4 DEF Ending, Returning, Watched, Started
  <2>8. MonitorAlone' /\ Sent'
    BY <1>1, <1>4, <1>5, <1>6, <2>1, <2>2, <2>4 DEF MonitorAlone, Sent
  <2> QED
    BY <1>5, <2>3, <2>5, <2>6, <2>7, <2>8 DEF LifeInv
<1> QED
  BY <1>7, <1>8

LEMMA PipesOf ==
  ASSUME NEW s, NEW g, NEW h, g # h
  PROVE  Out(s, h) \notin NativePipesOf(g) /\ Out(s, g) # Out(s, h)
BY DEF NativePipesOf, In, Out

LEMMA LifeStartMonitors ==
  ASSUME LifeInv, PlanInv, StartMonitors
  PROVE  LifeInv'
<1>1. /\ Step(Main, "monitors")
      /\ polling' = [p \in Outs \cup Ins |->
                       IF p \in NativePipesOf(gen) THEN "on" ELSE polling[p]]
      /\ UNCHANGED <<child, gen, pid, home, job, returned, closesAsked, running>>
  BY DEF StartMonitors, NobodyCalls, pipeVars, askedVars, childVars, saidVars, objectVars
<1>2. /\ plan[Main] # <<>> /\ Left(Main) = {"monitors"} \cup Left(Main)'
      /\ Left(Main)' \cap {"attach", "fork", "callbacks", "monitors"} = {}
      /\ \A x : x \in For(plan[Main], "stop") => x \in For(plan'[Main], "stop")
      /\ plan'[Monitor] = plan[Monitor] /\ Left(Monitor)' = Left(Monitor)
      /\ ~(plan'[Main] # <<>> /\ Head(plan'[Main])[1] \in Fires)
      /\ Shapes'
  BY <1>1, StepLeaves, Different DEF LifeInv, Spent
<1>3. "fork" \notin Left(Main) /\ "monitors" \in Left(Main)
  BY <1>2
<1>4. /\ pid # 0 /\ home[pid] = gen /\ running /\ pid \in 1 .. Launches
      /\ \A s \in StreamSet : polling[Out(s, gen)] = "off"
      /\ "invoke" \notin Left(Monitor) /\ job # "sent"
  <2>1. pid # 0 /\ home[pid] = gen
    BY <1>3 DEF LifeInv, Forked
  <2>2. running /\ "invoke" \notin Left(Monitor) /\ job # "sent"
    BY <1>2, <1>3 DEF LifeInv, MainRuns, MonitorAlone, Launching
  <2>3. \A s \in StreamSet : polling[Out(s, gen)] = "off"
    BY <1>3 DEF LifeInv, Unstarted
  <2>4. pid \in 1 .. Launches
    BY <2>1, ChildAssumption DEF LifeInv, LifeTypes
  <2> QED
    BY <2>1, <2>2, <2>3, <2>4
<1>5. /\ gen \in 1 .. Generations
      /\ \A s \in StreamSet, h \in 1 .. Generations : Out(s, h) \in Outs
      /\ \A s \in StreamSet : Out(s, gen) \in NativePipesOf(gen)
  BY OutIsOut DEF LifeInv, LifeTypes, NativePipesOf
<1>6. /\ \A s \in StreamSet : polling'[Out(s, gen)] = "on"
      /\ \A s \in StreamSet, h \in 1 .. Generations : h # gen =>
           polling'[Out(s, h)] = polling[Out(s, h)]
  BY <1>1, <1>5, PipesOf
<1>7. \A n \in 1 .. Launches : Over(n) => Over(n)'
  <2> SUFFICES ASSUME NEW n \in 1 .. Launches, Over(n) PROVE Over(n)'
    OBVIOUS
  <2>1. home[n] \in 1 .. Generations
    BY ChildAssumption DEF Over, LifeInv, LifeTypes
  <2>2. ASSUME NEW s \in StreamSet PROVE polling'[Out(s, home[n])] = "ended"
    <3>1. polling[Out(s, home[n])] = "ended"
      BY DEF Over
    <3>2. home[n] # gen
      BY <1>4, <3>1
    <3> QED
      BY <1>6, <2>1, <3>1, <3>2
  <2> QED
    BY <1>1, <2>2 DEF Over
<1>8. \A h \in 1 .. Generations : h # gen /\ Untouched(h) => Untouched(h)'
  BY <1>1, <1>6 DEF Untouched
<1>9. LifeTypes' /\ Homes'
  <2>1. LifeTypes'
    BY <1>1 DEF LifeInv, LifeTypes
  <2> QED
    BY <1>1, <1>7, <2>1 DEF LifeInv, Homes
<1>10. NewPipes'
  <2>1. ~Ready'
    BY <1>1, <1>2, <1>4 DEF Ready
  <2>2. \A h \in 1 .. Generations : h > gen => h # gen
    BY <1>5
  <2> QED
    BY <1>1, <1>8, <2>1, <2>2 DEF LifeInv, NewPipes
<1>11. MainRuns' /\ HasRoom' /\ NoneLeft' /\ Unstarted' /\ Forked'
  BY <1>1, <1>2, <1>4 DEF MainRuns, HasRoom, NoneLeft, Unstarted, Forked
<1>12. Ending'
  BY <1>1, <1>2, <1>3, <1>4, <1>7 DEF LifeInv, Ending, Over
<1>13. Returning'
  <2>1. Synchronous(pid)' = Synchronous(pid)
    BY <1>1 DEF Synchronous
  <2> QED
    BY <1>1, <1>2, <2>1 DEF LifeInv, Returning
<1>14. Watched(Main)' /\ Watched(Monitor)'
  BY <1>1, <1>2, <1>3, <1>4, <1>6 DEF LifeInv, Watched
<1>15. Started' /\ MonitorAlone' /\ Sent'
  BY <1>1, <1>2, <1>4, <1>6 DEF Started, MonitorAlone, Sent
<1> QED
  BY <1>2, <1>9, <1>10, <1>11, <1>12, <1>13, <1>14, <1>15 DEF LifeInv

LEMMA LifeRecreate ==
  ASSUME LifeInv, PlanInv, RecreateNativePipes
  PROVE  LifeInv'
<1>1. /\ Step(Main, "recreate") /\ gen' = gen + 1 /\ gen < Generations
      /\ UNCHANGED <<child, polling, pid, home, job, returned, closesAsked, running>>
  BY DEF RecreateNativePipes, Attach, NativesSame, nativeVars, askedVars, childVars, saidVars
<1>2. /\ plan[Main] # <<>> /\ Left(Main) = {"recreate"} \cup Left(Main)'
      /\ Left(Main)' \cap (Launching \cup Watching) = {}
      /\ plan'[Monitor] = plan[Monitor] /\ Left(Monitor)' = Left(Monitor)
      /\ Shapes'
  BY <1>1, StepLeaves, Different DEF LifeInv, Spent
<1>3. /\ "fork" \notin Left(Main) /\ "invoke" \notin Left(Main)
      /\ \A op \in Launching \cup Watching : op \notin Left(Main)'
  BY <1>2 DEF Launching, Watching
<1>4. /\ pid # 0 /\ Over(pid)
      /\ "invoke" \notin Left(Monitor) /\ job # "sent"
  BY <1>2, <1>3 DEF LifeInv, Ending, MonitorAlone, Closing
<1>5. gen \in 1 .. Generations /\ gen + 1 \in 1 .. Generations /\ gen + 1 > gen
  BY <1>1, ChildAssumption DEF LifeInv, LifeTypes
<1>6. /\ \A n : Over(n)' = Over(n)
      /\ \A h : Untouched(h)' = Untouched(h)
  BY <1>1 DEF Over, Untouched
<1>7. LifeTypes' /\ Homes'
  <2>1. LifeTypes'
    BY <1>1, <1>5 DEF LifeInv, LifeTypes
  <2> QED
    BY <1>1, <1>6, <2>1 DEF LifeInv, Homes
<1>8. Untouched(gen + 1) /\ NewPipes'
  <2>1. Untouched(gen + 1)
    BY <1>5 DEF LifeInv, NewPipes
  <2>2. \A h \in 1 .. Generations : h > gen + 1 => h > gen
    BY <1>5
  <2> QED
    BY <1>1, <1>6, <2>1, <2>2 DEF LifeInv, NewPipes
<1>9. MainRuns' /\ HasRoom' /\ NoneLeft' /\ Unstarted' /\ Forked'
  BY <1>1, <1>2, <1>3, <1>4, <1>6
     DEF LifeInv, MainRuns, HasRoom, NoneLeft, Unstarted, Forked, Launching, Watching
<1>10. Ending'
  BY <1>1, <1>4, <1>6, <1>8 DEF Ending, Untouched
<1>11. Returning'
  <2>1. Synchronous(pid)' = Synchronous(pid)
    BY <1>1 DEF Synchronous
  <2> QED
    BY <1>1, <1>2, <2>1 DEF LifeInv, Returning
<1>12. Watched(Main)' /\ Watched(Monitor)' /\ Started'
  BY <1>1, <1>2, <1>3, <1>4 DEF Watched, Started, Launching, Watching
<1>13. MonitorAlone' /\ Sent'
  BY <1>1, <1>2, <1>4 DEF MonitorAlone, Sent
<1> QED
  BY <1>2, <1>7, <1>8, <1>9, <1>10, <1>11, <1>12, <1>13 DEF LifeInv

LEMMA LifeFire ==
  ASSUME LifeInv, PlanInv, ExitLater \/ ExitNow
  PROVE  LifeInv'
<1>1. PICK op \in Fires : Step(Main, op)
  BY DEF ExitLater, ExitNow, Fires
<1>2. /\ running' = FALSE
      /\ UNCHANGED <<child, polling, gen, pid, home, job, returned, closesAsked>>
  <2>1. CASE ExitLater
    BY <2>1 DEF ExitLater, FireEventAsynchronously, NativesSame, nativeVars, askedVars,
                childVars, saidVars
  <2>2. CASE ExitNow
    BY <2>2 DEF ExitNow, NativesSame, nativeVars, NobodyCalls, pipeVars, askedVars, childVars
  <2> QED
    BY <2>1, <2>2
<1>3. /\ plan[Main] # <<>> /\ Left(Main) = {op} \cup Left(Main)'
      /\ Left(Main)' \cap (Launching \cup Watching) = {}
      /\ plan'[Monitor] = plan[Monitor] /\ Left(Monitor)' = Left(Monitor)
      /\ Shapes' /\ Head(plan[Main])[1] = op
  BY <1>1, StepLeaves, Different DEF LifeInv, Spent, Fires, Step, At
<1>4. /\ "fork" \notin Left(Main) /\ "invoke" \notin Left(Main)
      /\ \A o \in Launching \cup Watching : o \notin Left(Main)'
  BY <1>3 DEF Launching, Watching, Fires
<1>5. /\ pid # 0 /\ Over(pid)
      /\ \A s \in StreamSet : polling[Out(s, gen)] # "on"
      /\ "invoke" \notin Left(Monitor) /\ job # "sent"
  BY <1>3, <1>4 DEF LifeInv, Ending, MonitorAlone
<1>6. /\ \A n : Over(n)' = Over(n)
      /\ \A h : Untouched(h)' = Untouched(h)
  BY <1>2 DEF Over, Untouched
<1>7. LifeTypes' /\ Homes'
  <2>1. LifeTypes'
    BY <1>2 DEF LifeInv, LifeTypes
  <2> QED
    BY <1>2, <1>6, <2>1 DEF LifeInv, Homes
<1>8. NewPipes'
  <2>1. Ready
    BY <1>3 DEF Ready
  <2> QED
    BY <1>2, <1>6, <2>1 DEF LifeInv, NewPipes
<1>9. MainRuns' /\ HasRoom' /\ NoneLeft' /\ Unstarted' /\ Forked'
  BY <1>2, <1>3, <1>4, <1>5, <1>6
     DEF LifeInv, MainRuns, HasRoom, NoneLeft, Unstarted, Forked, Launching, Watching
<1>10. Ending'
  BY <1>2, <1>5, <1>6 DEF Ending
<1>11. Returning'
  <2>1. Synchronous(pid)' = Synchronous(pid)
    BY <1>2 DEF Synchronous
  <2>2. op # "collect"
    BY DEF Fires
  <2> QED
    BY <1>2, <1>3, <2>1, <2>2 DEF LifeInv, Returning
<1>12. Watched(Main)' /\ Watched(Monitor)' /\ Started'
  BY <1>2, <1>3, <1>4, <1>5 DEF Watched, Started, Launching, Watching
<1>13. MonitorAlone' /\ Sent'
  BY <1>2, <1>3, <1>5 DEF MonitorAlone, Sent
<1> QED
  BY <1>3, <1>7, <1>8, <1>9, <1>10, <1>11, <1>12, <1>13 DEF LifeInv

LEMMA LifeFork ==
  ASSUME LifeInv, PlanInv, ForkAndExec
  PROVE  LifeInv'
<1> DEFINE n == Count + 1
<1>1. /\ Step(Main, "fork") /\ pid' = n
      /\ child' = [child EXCEPT ![n] = "alive"]
      /\ home' = [home EXCEPT ![n] = gen]
      /\ UNCHANGED <<polling, gen, running, job, returned, closesAsked>>
  BY DEF ForkAndExec, NobodyCalls, pipeVars, askedVars, saidVars
<1>2. /\ plan[Main] # <<>> /\ Left(Main) = {"fork"} \cup Left(Main)'
      /\ Left(Main)' \cap {"attach", "fork"} = {}
      /\ \A x : x \in For(plan[Main], "stop") => x \in For(plan'[Main], "stop")
      /\ plan'[Monitor] = plan[Monitor] /\ Left(Monitor)' = Left(Monitor)
      /\ ~(plan'[Main] # <<>> /\ Head(plan'[Main])[1] \in Fires)
      /\ Shapes' /\ Whole(Left(Main), For(plan[Main], "stop"))
  BY <1>1, StepLeaves, Different DEF LifeInv, Spent, Shapes, Shaped, Left
<1>3. /\ pid \in 0 .. Launches /\ pid < Launches /\ Count = pid /\ gen \in 1 .. Generations
      /\ pid = 0 \/ Over(pid)
      /\ Untouched(gen) /\ running
  BY <1>2, CountIsPid DEF LifeInv, LifeTypes, HasRoom, NoneLeft, NewPipes, Ready, MainRuns,
                          Launching
<1>4. n = pid + 1 /\ n \in 1 .. Launches /\ n # 0 /\ n # pid /\ n > pid
  BY <1>3, ChildAssumption
<1>5. "invoke" \notin Left(Monitor) /\ job # "sent"
  BY <1>2 DEF LifeInv, MonitorAlone
<1> HIDE DEF n
<1>6. /\ home'[n] = gen /\ child'[n] = "alive"
      /\ \A m \in 1 .. Launches \ {n} : home'[m] = home[m] /\ child'[m] = child[m]
      /\ home' \in [1 .. Launches -> 0 .. Generations]
      /\ child' \in [1 .. Launches -> {"none", "alive", "ended", "reaped"}]
  BY <1>1, <1>3, <1>4 DEF LifeInv, LifeTypes
<1>7. \A m \in 1 .. Launches \ {n} : Over(m) => Over(m)'
  BY <1>1, <1>6 DEF Over
<1>8. \A h \in 1 .. Generations : h # gen /\ Untouched(h) => Untouched(h)'
  BY <1>1, <1>6 DEF Untouched
<1>9. LifeTypes'
  BY <1>1, <1>4, <1>6 DEF LifeInv, LifeTypes
<1>10. Homes'
  <2>1. \A m \in 1 .. Launches : home'[m] # 0 <=> m <= pid'
    BY <1>1, <1>3, <1>4, <1>6 DEF LifeInv, Homes
  <2>2. \A m \in 1 .. Launches : m < n => m # n /\ Over(m)
    BY <1>3, <1>4 DEF LifeInv, Homes
  <2>3. \A m \in 1 .. Launches : home[m] # gen
    BY <1>3 DEF Untouched
  <2>4. \A l, m \in 1 .. Launches : home'[l] = home'[m] /\ home'[l] # 0 => l = m
    BY <1>6, <2>3 DEF LifeInv, Homes
  <2> QED
    BY <1>1, <1>7, <2>1, <2>2, <2>4 DEF Homes
<1>11. NewPipes'
  <2>1. ~Ready'
    BY <1>1, <1>2, <1>3 DEF Ready
  <2>2. \A h \in 1 .. Generations : h > gen => h # gen
    BY <1>3
  <2> QED
    BY <1>1, <1>8, <2>1, <2>2 DEF LifeInv, NewPipes
<1>12. MainRuns' /\ HasRoom' /\ NoneLeft' /\ Forked'
  BY <1>1, <1>2, <1>3, <1>4, <1>6 DEF MainRuns, HasRoom, NoneLeft, Forked
<1>13. Unstarted'
  BY <1>1, <1>3 DEF Unstarted, Untouched
<1>14. Ending' /\ Returning'
  <2>1. Left(Main)' \cap (Closing \cup Fires) # {} => "invoke" \in Left(Main)'
    BY <1>2 DEF Whole
  <2>2. "fireNow" \in Left(Main)' => "collect" \in Left(Main)'
    BY <1>2 DEF Whole, Fires
  <2> QED
    BY <2>1, <2>2 DEF Ending, Returning
<1>15. Watched(Main)'
  <2>1. "invoke" \in Left(Main)' => "wait" \in Left(Main)' /\ For(plan[Main], "stop") = StreamSet
    BY <1>2 DEF Whole
  <2> QED
    BY <1>1, <1>2, <1>4, <1>6, <2>1 DEF Watched
<1>16. Watched(Monitor)' /\ Started' /\ MonitorAlone' /\ Sent'
  BY <1>1, <1>2, <1>5 DEF Watched, Started, MonitorAlone, Sent, Whole
<1> QED
  BY <1>2, <1>9, <1>10, <1>11, <1>12, <1>13, <1>14, <1>15, <1>16 DEF LifeInv

LEMMA LifeClose ==
  ASSUME LifeInv, PlanInv, PipeTypeOK, CloseOut
  PROVE  LifeInv'
<1> DEFINE x == Stream(Main)
<1>1. /\ Step(Main, "close")
      /\ closesAsked' = [closesAsked EXCEPT ![Out(x, gen)] = @ + 1]
      /\ UNCHANGED <<child, polling, gen, pid, home, job, returned, running>>
  BY DEF CloseOut, Enter, QueueFor, QueueClose, NativesSame, nativeVars, childVars, saidVars,
         objectVars
<1>2. /\ Left(Main)' \cap (Launching \cup Watching) = {}
      /\ "recreate" \in Left(Main)'
      /\ ~(plan'[Main] # <<>> /\ Head(plan'[Main])[1] \in Fires)
  BY <1>1, StepLeaves DEF LifeInv, Spent, Closing
<1>3. Mild
  BY <1>1, MildSame DEF LifeInv
<1> HIDE DEF x
<1>4. \A s \in StreamSet, h \in 1 .. Generations : h # gen =>
        closesAsked'[Out(s, h)] = closesAsked[Out(s, h)]
  <2>1. \A s \in StreamSet, h \in 1 .. Generations : Out(s, h) \in Pipes
    BY OutIsOut, NativeAssumption
  <2>2. closesAsked \in [Pipes -> Nat]
    BY DEF PipeTypeOK
  <2>3. \A s \in StreamSet, h \in 1 .. Generations : h # gen => Out(s, h) # Out(x, gen)
    BY DEF Out
  <2> QED
    BY <1>1, <2>1, <2>2, <2>3
<1>5. \A h \in 1 .. Generations : h # gen /\ Untouched(h) => Untouched(h)'
  BY <1>1, <1>4 DEF Untouched
<1>6. NewPipes'
  <2>1. ~Ready'
    <3>1. "fork" \notin Left(Main)'
      BY <1>2 DEF Launching
    <3> QED
      BY <1>2, <3>1 DEF Ready
  <2>2. \A h \in 1 .. Generations : h > gen => h # gen
    BY DEF LifeInv, LifeTypes
  <2> QED
    BY <1>1, <1>5, <2>1, <2>2 DEF LifeInv, NewPipes
<1>7. Unstarted'
  BY <1>2 DEF Unstarted, Launching
<1>8. Synchronous(pid) => Synchronous(pid)'
  BY <1>1 DEF Synchronous
<1> QED
  BY <1>1, <1>3, <1>6, <1>7, <1>8, LifeTail DEF PlainOps

-----------------------------------------------------------------------------
(* The types of what the object owns, and what is never attached or called: *)
(* the native pipes that read from the child.                               *)

\* A step that is made for each stream names one.
StreamStep ==
  {x \in PlanStep : x[1] \in {"attach", "close", "detach", "stop"} => x[2] \in StreamSet}

SafeTask == {x \in Task : x.do = "call" => x.pipe \notin Outs}

OwnTypes ==
  /\ PipeTypeOK
  /\ plan \in [{Main, Monitor} -> Seq(StreamStep)]
  /\ attached \in [Pipes -> Seq(Pipes \ Outs)]
  /\ todo \in [Threads -> Seq(SafeTask)]
  /\ channel \in [Outs -> Seq(Blobs)] /\ fetched \in [Outs -> Seq(Blobs)]
  /\ ends \in [StreamSet \cup {"stdin"} -> Pipes \ (Outs \cup Ins)]
  /\ produced \in [1 .. Launches -> [StreamSet -> 0 .. MaxOutput]]

LEMMA SequenceFacts ==
  ASSUME NEW S
  PROVE  /\ <<>> \in Seq(S)
         /\ \A s, t \in Seq(S) : s \o t \in Seq(S)
         /\ \A s \in Seq(S) : s # <<>> => Head(s) \in S /\ Tail(s) \in Seq(S)
         /\ \A x \in S : <<x>> \in Seq(S)
OBVIOUS

LEMMA StreamParts ==
  /\ \A op \in Steps : Each(op) \in Seq(StreamStep)
  /\ \A op \in Steps \ {"attach", "close", "detach", "stop"} : Do(op) \in Seq(StreamStep)
<1>1. ASSUME NEW op \in Steps PROVE Each(op) \in Seq(StreamStep)
  <2>1. \A x \in StreamSet : <<op, x>> \in StreamStep
    BY DEF StreamStep, PlanStep
  <2>2. Streams \in Seq(StreamSet)
    BY ProcessAssumption
  <2> QED
    BY <2>1, <2>2 DEF Each
<1>2. ASSUME NEW op \in Steps \ {"attach", "close", "detach", "stop"}
      PROVE  Do(op) \in Seq(StreamStep)
  <2>1. <<op, "-">> \in StreamStep
    BY DEF StreamStep, PlanStep
  <2> QED
    BY <2>1 DEF Do
<1> QED
  BY <1>1, <1>2

LEMMA StreamPlans ==
  /\ \A how \in Fires : Exited(how) \in Seq(StreamStep)
  /\ ExitMonitor \in Seq(StreamStep) /\ ExitMonitor \o Do("await") \in Seq(StreamStep)
  /\ LaunchAsyncPlan \in Seq(StreamStep) /\ LaunchSyncPlan \in Seq(StreamStep)
<1>1. /\ \A op \in {"attach", "close", "detach", "stop"} : Each(op) \in Seq(StreamStep)
      /\ \A op \in {"detachIn", "recreate", "wait", "stopIn", "joinIn", "invoke", "await", "fork",
                    "callbacks", "monitors", "startMonitor", "collect"} \cup Fires :
           Do(op) \in Seq(StreamStep)
  BY StreamParts DEF Steps, Fires
<1>2. \A s, t \in Seq(StreamStep) : s \o t \in Seq(StreamStep)
  BY SequenceFacts
<1>3. \A how \in Fires : Exited(how) \in Seq(StreamStep)
  BY <1>1, <1>2 DEF Exited
<1>4. ExitMonitor \in Seq(StreamStep) /\ ExitMonitor \o Do("await") \in Seq(StreamStep)
  BY <1>1, <1>2 DEF ExitMonitor
<1>5. LaunchAsyncPlan \in Seq(StreamStep)
  BY <1>1, <1>2 DEF LaunchAsyncPlan
<1>6. "fireNow" \in Fires
  BY DEF Fires
<1> DEFINE f == Each("attach") \o Do("fork") \o Do("callbacks") \o Do("monitors")
<1>7. f \in Seq(StreamStep)
  BY <1>1, <1>2
<1> HIDE DEF f
<1>8. ((f \o ExitMonitor) \o Do("collect")) \o Exited("fireNow") \in Seq(StreamStep)
  BY <1>1, <1>2, <1>3, <1>4, <1>6, <1>7
<1>9. LaunchSyncPlan \in Seq(StreamStep)
  BY <1>8 DEF LaunchSyncPlan, f
<1> QED
  BY <1>3, <1>4, <1>5, <1>9

\* The stream of a step.
LEMMA StepStream ==
  ASSUME OwnTypes, NEW a \in {Main, Monitor}, NEW op, At(a, op)
  PROVE  /\ plan[a] # <<>> /\ Head(plan[a]) \in StreamStep /\ Tail(plan[a]) \in Seq(StreamStep)
         /\ op \in {"attach", "close", "detach", "stop"} => Stream(a) \in StreamSet
<1>1. plan[a] \in Seq(StreamStep) /\ plan[a] # <<>> /\ Head(plan[a])[1] = op
  BY DEF OwnTypes, At
<1>2. Head(plan[a]) \in StreamStep /\ Tail(plan[a]) \in Seq(StreamStep)
  BY <1>1, SequenceFacts
<1> QED
  BY <1>1, <1>2 DEF StreamStep, Stream

LEMMA PlansStay ==
  ASSUME OwnTypes, ProcNext
  PROVE  plan' \in [{Main, Monitor} -> Seq(StreamStep)]
<1> DEFINE PlanType == [{Main, Monitor} -> Seq(StreamStep)]
<1>1. plan \in PlanType /\ <<>> \in Seq(StreamStep)
  BY DEF OwnTypes
<1>2. \A a \in {Main, Monitor}, s \in Seq(StreamStep) : [plan EXCEPT ![a] = s] \in PlanType
  BY <1>1
<1> HIDE DEF PlanType
<1>3. ASSUME NEW a \in {Main, Monitor}, NEW op, Step(a, op) PROVE plan' \in PlanType
  BY <1>2, <1>3, StepStream DEF Step
<1>4. CASE LaunchAsync \/ LaunchSync \/ ExitCallback \/ ForkFails
  <2>1. Exited("fireLater") \o Do("signal") \in Seq(StreamStep)
    BY StreamPlans, StreamParts, SequenceFacts DEF Fires, Steps
  <2>2. PICK s \in {LaunchAsyncPlan, LaunchSyncPlan, Exited("fireLater") \o Do("signal"), <<>>} :
          plan' = [plan EXCEPT ![Main] = s]
    BY <1>4 DEF LaunchAsync, LaunchSync, Launch, ExitCallback, ForkFails
  <2>3. s \in Seq(StreamStep)
    BY <1>1, <2>1, StreamPlans
  <2> QED
    BY <1>2, <2>2, <2>3 DEF PlanType
<1>5. CASE StartExitMonitor
  <2> DEFINE s == IF plan[Monitor] = <<>> THEN ExitMonitor \o Do("await") ELSE plan[Monitor]
  <2>1. plan' = [plan EXCEPT ![Main] = <<>>, ![Monitor] = s]
    BY <1>1, <1>5, Different DEF StartExitMonitor, PlanType
  <2>2. s \in Seq(StreamStep)
    BY <1>1, StreamPlans DEF PlanType
  <2> HIDE DEF s
  <2> QED
    BY <1>1, <2>1, <2>2 DEF PlanType
<1>6. ASSUME NEW a \in {Main, Monitor}, Invoke(a) PROVE plan' \in PlanType
  <2>1. At(a, "invoke")
    BY <1>6 DEF Invoke
  <2>2. Tail(plan[a]) \in Seq(StreamStep)
    BY <2>1, StepStream
  <2>3. Exited("fireLater") \o Tail(plan[a]) \in Seq(StreamStep)
    BY <2>2, StreamPlans, SequenceFacts DEF Fires
  <2> DEFINE s == IF exitCallback THEN Exited("fireLater") \o Tail(plan[a]) ELSE Tail(plan[a])
  <2>4. s \in Seq(StreamStep)
    BY <2>2, <2>3
  <2>5. plan' = [plan EXCEPT ![a] = Tail(plan[a])] \/ plan' = [plan EXCEPT ![a] = s]
    BY <1>6 DEF Invoke
  <2> HIDE DEF s
  <2> QED
    BY <1>2, <2>2, <2>4, <2>5
<1>7. CASE PlainDoes
  <2>1. PICK a \in {Main, Monitor}, op \in PlainOps : Step(a, op)
    BY <1>7, PlainIsPlain
  <2> QED
    BY <1>3, <2>1 DEF PlanType
<1>8. CASE StartMonitors \/ RecreateNativePipes \/ ExitLater \/ ExitNow
  <2>1. PICK op : Step(Main, op)
    BY <1>8 DEF StartMonitors, RecreateNativePipes, ExitLater, ExitNow
  <2> QED
    BY <1>3, <2>1 DEF PlanType
<1>9. CASE Aside \/ PipeThreads
  <2>1. plan' = plan
    BY <1>9, AsideIsPlain, PipeThreadsPlan
  <2> QED
    BY <1>1, <2>1 DEF PlanType
<1> QED
  BY <1>4, <1>5, <1>6, <1>7, <1>8, <1>9, StepKinds DEF PlanType

\* What the steps are to the pipes and their threads.  Those that only change
\* plans, and what the object says of itself:
Quiet ==
  /\ UNCHANGED <<pipeVars, channel, fetched, output, childHolds, polling, ends, childVars, exits>>
  /\ returned' = returned
       \/ (Step(Main, "collect") /\ returned' = Append(returned, [launch |-> pid, output |-> output]))

\* The pipe that a's next step is about.
Named(a) == Out(Stream(a), gen)

\* The steps of the main thread and the script that call pipes.
Calls ==
  \/ Step(Main, "attach") /\ Attach(Named(Main), ends[Stream(Main)])
  \/ Step(Main, "recreate") /\ gen < Generations /\ Attach(ends["stdin"], In(gen + 1))
  \/ Step(Main, "close") /\ Enter(Main, Named(Main), CloseCall)
  \/ Step(Main, "detachIn") /\ Detach(Main, ends["stdin"], In(gen))
  \/ Step(Main, "detach") /\ Detach(Main, Named(Main), ends[Stream(Main)])
  \/ Step(Main, "fireLater") /\ FireEventAsynchronously(pid)
  \/ MainFree /\ \E what \in ScriptBlobs \cup {CloseCall} : Enter(Main, ends["stdin"], what)

SameNatives == UNCHANGED <<channel, fetched, output, childHolds, polling>>
SameObject == UNCHANGED <<ends, childVars, exits, returned>>

\* The steps of a plan, of a child, of the script and of a pipe's thread that do
\* more than call a pipe.
MoreThanCalls ==
  \/ ForkAndExec \/ StartMonitors \/ ExitNow \/ FireExit
  \/ \E a \in {Main, Monitor} : Wait(a)
  \/ \E p \in UserPipes, s \in StreamSet : SetStdout(s, p)
  \/ \E n \in 1 .. Launches : ChildEnds(n) \/ \E s \in StreamSet : ChildWrites(n, s)
  \/ \E p \in Outs \cup Ins : Polling(p)

Loops == Collect \/ FireRead \/ ReadsFired \/ FireClose \/ ClosesFired \/ OthersFired

LEMMA Footprints ==
  ASSUME ProcNext
  PROVE  \/ Quiet
         \/ Calls /\ SameNatives /\ SameObject
         \/ Loops /\ SameNatives /\ SameObject
         \/ (\E t \in Threads : WriteIn(t) \/ CallStep(t)) /\ SameNatives /\ SameObject
         \/ MoreThanCalls
<1> USE DEF SameNatives, SameObject, childVars, saidVars, objectVars, nativeVars, outVars,
            NativesSame, NobodyCalls, ownVars
<1>1. CASE LaunchAsync \/ LaunchSync \/ ForkFails \/ StartExitMonitor \/ ExitCallback
           \/ (\E a \in {Main, Monitor} : Invoke(a))
  BY <1>1 DEF Quiet, LaunchAsync, LaunchSync, Launch, ForkFails, StartExitMonitor, ExitCallback,
              Invoke
<1>2. CASE StartMonitors \/ ExitNow \/ ForkAndExec
  BY <1>2 DEF MoreThanCalls
<1>3. CASE RecreateNativePipes \/ ExitLater
  BY <1>3 DEF RecreateNativePipes, ExitLater, Calls
<1>4. CASE AttachPipes \/ CloseOut \/ DetachIn \/ DetachOut
  BY <1>4 DEF AttachPipes, CloseOut, DetachIn, DetachOut, Calls, Named
<1>5. CASE SetReadCallbacks \/ CollectOutput \/ SignalMonitor \/ MonitorReturns
  BY <1>5 DEF SetReadCallbacks, CollectOutput, SignalMonitor, MonitorReturns, Quiet
<1>6. ASSUME NEW a \in {Main, Monitor}, Wait(a) \/ StopIn(a) \/ JoinIn(a) \/ StopOut(a)
      PROVE  Quiet \/ MoreThanCalls
  BY <1>6 DEF Quiet, MoreThanCalls, StopIn, JoinIn, StopOut
<1>7. CASE PlainDoes
  BY <1>2, <1>4, <1>5, <1>6, <1>7 DEF PlainDoes
<1>8. ASSUME NEW what \in ScriptBlobs \cup {CloseCall}, ScriptCalls(what)
      PROVE  Calls /\ SameNatives /\ SameObject
  BY <1>8 DEF ScriptCalls, Calls
<1>9. CASE SendSignal
  BY <1>9 DEF SendSignal, Quiet
<1>10. CASE EventLoop
  BY <1>10 DEF EventLoop, Loops, MoreThanCalls
<1>11. CASE Aside
  BY <1>8, <1>9, <1>10, <1>11 DEF Aside, MoreThanCalls
<1>12. ASSUME NEW t \in Threads, Calling(t)
       PROVE  (WriteIn(t) \/ CallStep(t)) /\ SameNatives /\ SameObject
  BY <1>12 DEF Calling, NativeCallStep, CallStep, WriteIn, CloseIn, CallPipe
<1>13. CASE PipeThreads
  BY <1>12, <1>13 DEF PipeThreads, MoreThanCalls
<1> QED
  BY <1>1, <1>2, <1>3, <1>7, <1>11, <1>13, StepKinds

LEMMA NativeNames ==
  ASSUME LifeInv
  PROVE  /\ In(gen) \in Ins /\ (gen < Generations => In(gen + 1) \in Ins)
         /\ \A s \in StreamSet : Out(s, gen) \in Outs
         /\ Ins \subseteq Pipes \ Outs /\ Outs \subseteq Pipes \cap Threads /\ Main \in Threads
         /\ Main \notin Outs
<1>1. gen \in 1 .. Generations /\ (gen < Generations => gen + 1 \in 1 .. Generations)
  BY ChildAssumption DEF LifeInv, LifeTypes
<1>2. \A h \in 1 .. Generations : In(h) \in Ins
  BY ProcessAssumption DEF In
<1>3. Main \in Threads
  BY ProcessAssumption
<1>4. Main \notin Outs
  BY ChildAssumption, ProcessAssumption DEF Main
<1> QED
  BY <1>1, <1>2, <1>3, <1>4, OutIsOut, NativeAssumption

\* When EXIT is queued or fired, the child it is about has been waited for.
LEMMA FiresEnded ==
  ASSUME LifeInv, PlanInv, NEW op \in Fires, Step(Main, op)
  PROVE  /\ pid \in 1 .. Launches /\ Over(pid)
         /\ op = "fireNow" => Synchronous(pid)
         /\ "fork" \notin Left(Main) /\ op \in Left(Main)
         /\ "invoke" \notin Left(Monitor) /\ job # "sent"
         /\ Left(Main)' \cap (Launching \cup Watching \cup {"fireLater"}) = {}
         /\ Left(Monitor)' = Left(Monitor)
<1>1. /\ plan[Main] # <<>> /\ Left(Main) = {op} \cup Left(Main)'
      /\ Left(Main)' \cap Spent(op) = {} /\ Left(Monitor)' = Left(Monitor)
  BY StepLeaves, Different DEF LifeInv
<1>2. /\ Launching \cup Watching \cup {"fireLater"} \subseteq Spent(op)
      /\ op = "fireNow" => "collect" \in Spent(op)
      /\ op \notin Launching \cup Watching
  BY DEF Spent, Fires, Launching, Watching
<1>3. "fork" \notin Left(Main) /\ "invoke" \notin Left(Main)
  BY <1>1, <1>2 DEF Launching, Watching
<1>4. pid # 0 /\ Over(pid)
  BY <1>1, <1>3 DEF LifeInv, Ending
<1>5. op = "fireNow" => Synchronous(pid)
  BY <1>1, <1>2 DEF LifeInv, Returning
<1>6. "invoke" \notin Left(Monitor) /\ job # "sent"
  BY <1>1 DEF LifeInv, MonitorAlone
<1>7. pid \in 1 .. Launches
  BY <1>4, ChildAssumption DEF LifeInv, LifeTypes
<1> QED
  BY <1>1, <1>2, <1>3, <1>4, <1>5, <1>6, <1>7

LEMMA CallKinds ==
  ASSUME OwnTypes, LifeInv, PlanInv, Calls
  PROVE  \/ \E p \in Pipes, q \in Pipes \ Outs : Attach(p, q)
         \/ \E p \in Outs : Enter(Main, p, CloseCall)
         \/ \E p \in Pipes \ Outs, what \in Blobs \cup {CloseCall} : Enter(Main, p, what)
         \/ \E p, q \in Pipes : Detach(Main, p, q)
         \/ Step(Main, "fireLater") /\ pid \in Others /\ FireEventAsynchronously(pid)
<1>1. /\ In(gen) \in Ins /\ (gen < Generations => In(gen + 1) \in Ins)
      /\ \A s \in StreamSet : Out(s, gen) \in Outs
      /\ Ins \subseteq Pipes \ Outs /\ Outs \subseteq Pipes
      /\ \A x \in StreamSet \cup {"stdin"} : ends[x] \in Pipes \ Outs
  BY NativeNames DEF OwnTypes
<1>2. \A op \in {"attach", "close", "detach"} : Step(Main, op) =>
        Stream(Main) \in StreamSet /\ Named(Main) \in Outs
  BY <1>1, StepStream DEF Named, Step
<1>3. CASE Step(Main, "attach") /\ Attach(Named(Main), ends[Stream(Main)])
  BY <1>1, <1>2, <1>3
<1>4. CASE Step(Main, "recreate") /\ gen < Generations /\ Attach(ends["stdin"], In(gen + 1))
  BY <1>1, <1>4
<1>5. CASE Step(Main, "close") /\ Enter(Main, Named(Main), CloseCall)
  BY <1>2, <1>5
<1>6. CASE Step(Main, "detachIn") /\ Detach(Main, ends["stdin"], In(gen))
  BY <1>1, <1>6
<1>7. CASE Step(Main, "detach") /\ Detach(Main, Named(Main), ends[Stream(Main)])
  BY <1>1, <1>2, <1>7
<1>8. CASE Step(Main, "fireLater") /\ FireEventAsynchronously(pid)
  BY <1>8, FiresEnded, ProcessAssumption DEF Fires
<1>9. ASSUME NEW what \in ScriptBlobs \cup {CloseCall}, Enter(Main, ends["stdin"], what)
      PROVE  \E p \in Pipes \ Outs, b \in Blobs \cup {CloseCall} : Enter(Main, p, b)
  BY <1>1, <1>9 DEF ScriptBlobs
<1> QED
  BY <1>3, <1>4, <1>5, <1>6, <1>7, <1>8, <1>9 DEF Calls

\* What the other steps leave alone.
LEMMA OtherFrames ==
  ASSUME MoreThanCalls
  PROVE  \/ FireExit
         \/ UNCHANGED pipeVars
         \/ \E p \in Outs : fetched[p] # <<>> /\ Enter(p, p, Head(fetched[p]))
                            /\ fetched' = [fetched EXCEPT ![p] = <<>>]
<1>1. ASSUME NEW p \in Outs \cup Ins, Polling(p)
      PROVE  \/ UNCHANGED pipeVars
             \/ p \in Outs /\ fetched[p] # <<>> /\ Enter(p, p, Head(fetched[p]))
                  /\ fetched' = [fetched EXCEPT ![p] = <<>>]
  BY <1>1 DEF Polling, PollForReads, PollForWrites, ReadBlob, ReadEnd, PassOn, WriteBlob,
              WriteFails, WriteEnd
<1> QED
  BY <1>1 DEF MoreThanCalls, NobodyCalls, ForkAndExec, StartMonitors, ExitNow, Wait, SetStdout,
              ChildEnds, ChildWrites

\* Every step is a step of PipeEvents, or reaches Write of a native writer.
LEMMA PipeMoves ==
  ASSUME OwnTypes, LifeInv, PlanInv, [ProcNext]_procVars
  PROVE  [PipeNext]_pipeVars \/ \E t \in Threads : WriteIn(t)
<1> USE NativeNames
<1>1. CASE Quiet \/ UNCHANGED procVars
  BY <1>1 DEF Quiet, procVars
<1>2. CASE Calls
  <2>1. ASSUME NEW p \in Outs, Enter(Main, p, CloseCall) PROVE PipeNext
    BY <2>1 DEF PipeNext, Request
  <2>2. ASSUME NEW p \in Pipes \ Outs, NEW what \in Blobs \cup {CloseCall}, Enter(Main, p, what)
        PROVE  PipeNext
    BY <2>2 DEF PipeNext, Request
  <2> QED
    BY <1>2, <2>1, <2>2, CallKinds DEF PipeNext, Request
<1>3. CASE Loops
  BY <1>3 DEF Loops, PipeNext, FireEvents, Fire
<1>4. ASSUME NEW t \in Threads, CallStep(t) PROVE PipeNext
  BY <1>4 DEF PipeNext
<1>5. CASE FireExit
  BY <1>5 DEF FireExit, PipeNext, FireEvents, Fire
<1>6. ASSUME NEW p \in Outs, fetched[p] # <<>>, Enter(p, p, Head(fetched[p])) PROVE PipeNext
  <2>1. Head(fetched[p]) \in Blobs
    BY <1>6 DEF OwnTypes
  <2> QED
    BY <1>6, <2>1 DEF PipeNext, Request
<1> QED
  BY <1>1, <1>2, <1>3, <1>4, <1>5, <1>6, Footprints, OtherFrames

LEMMA PipesStep ==
  ASSUME OwnTypes, LifeInv, PlanInv, [ProcNext]_procVars
  PROVE  PipeTypeOK' /\ (PipeInv => PipeInv')
<1>1. ASSUME NEW t \in Threads, WriteIn(t) PROVE PipeTypeOK' /\ (PipeInv => PipeInv')
  <2>1. /\ todo' = [todo EXCEPT ![t] = Tail(@)] /\ todo[t] # <<>>
        /\ UNCHANGED <<attached, holder, carried, queueVars, loopVars, askedVars, firedVars>>
    BY <1>1 DEF WriteIn, Idle
  <2>2. PipeTypeOK
    BY DEF OwnTypes
  <2>3. Tail(todo[t]) \in Seq(Task)
    BY <2>1, <2>2, SequenceFacts DEF PipeTypeOK
  <2>4. PipeTypeOK'
    BY <2>1, <2>2, <2>3 DEF PipeTypeOK, queueVars, loopVars, askedVars, firedVars
  <2>5. PipeInv => PipeInv'
    BY <2>1, <2>2, KindInv DEF QueueStep
  <2> QED
    BY <2>4, <2>5
<1>2. ASSUME [PipeNext]_pipeVars PROVE PipeTypeOK' /\ (PipeInv => PipeInv')
  <2>1. PipeTypeOK
    BY DEF OwnTypes
  <2>2. PipeTypeOK'
    BY <1>2, <2>1, NextType
  <2>3. PipeInv => PipeInv'
    BY <1>2, <2>1, StepInv
  <2> QED
    BY <2>2, <2>3
<1> QED
  BY <1>1, <1>2, PipeMoves

\* The types that no step of PipeEvents knows about.
LEMMA CallsSafe ==
  ASSUME OwnTypes, NEW p \in Pipes
  PROVE  CallsOf(p) \in Seq(SafeTask)
<1>1. attached[p] \in Seq(Pipes \ Outs) /\ Len(attached[p]) \in Nat
  BY DEF OwnTypes
<1>2. DOMAIN attached[p] = 1 .. Len(attached[p])
  BY <1>1
<1>3. \A q \in Pipes \ Outs : [do |-> "call", pipe |-> q, via |-> p] \in SafeTask
  BY DEF SafeTask, Task
<1>4. \A i \in 1 .. Len(attached[p]) : attached[p][i] \in Pipes \ Outs
  BY <1>1
<1> QED
  BY <1>1, <1>2, <1>3, <1>4 DEF CallsOf

LEMMA SafeTasks ==
  \A p, q \in Pipes :
    /\ [do |-> "forward", pipe |-> p] \in SafeTask
    /\ [do |-> "unlock", pipe |-> p] \in SafeTask
    /\ [do |-> "erase", pipe |-> p, via |-> q] \in SafeTask
BY DEF SafeTask, Task

\* How a call, or a step of one, changes what is left to be called.
LEMMA TodoKinds ==
  ASSUME OwnTypes, NEW t \in Threads,
         \/ WriteIn(t) \/ CallStep(t)
         \/ \E p \in Pipes : \E what : Enter(t, p, what)
         \/ \E p, q \in Pipes : Detach(t, p, q)
  PROVE  \E s \in Seq(SafeTask) : todo' = [todo EXCEPT ![t] = s]
<1>1. /\ todo \in [Threads -> Seq(SafeTask)] /\ todo[t] \in Seq(SafeTask)
      /\ \A u, v \in Seq(SafeTask) : u \o v \in Seq(SafeTask)
      /\ \A x, y \in SafeTask : <<x>> \in Seq(SafeTask) /\ <<x, y>> \in Seq(SafeTask)
  BY DEF OwnTypes
<1>2. todo[t] # <<>> => /\ Tail(todo[t]) \in Seq(SafeTask) /\ Head(todo[t]) \in SafeTask
                        /\ Head(todo[t]).pipe \in Pipes
  BY <1>1, SequenceFacts, TaskPipe DEF SafeTask
<1>3. CASE WriteIn(t) \/ Unlock(t)
  BY <1>2, <1>3 DEF WriteIn, Unlock, Idle
<1>4. CASE EnterAttached(t)
  <2> DEFINE q == Head(todo[t]).pipe
  <2>1. q \in Pipes /\ todo' = [todo EXCEPT ![t] = <<[do |-> "forward", pipe |-> q]>> \o Tail(todo[t])]
    BY <1>2, <1>4 DEF EnterAttached, Idle
  <2>2. <<[do |-> "forward", pipe |-> q]>> \o Tail(todo[t]) \in Seq(SafeTask)
    BY <1>1, <1>2, <1>4, <2>1, SafeTasks DEF EnterAttached, Idle
  <2> QED
    BY <2>1, <2>2
<1>5. CASE Forward(t)
  <2> DEFINE q == Head(todo[t]).pipe
             s == CallsOf(q) \o <<[do |-> "unlock", pipe |-> q]>> \o Tail(todo[t])
  <2>1. q \in Pipes /\ todo' = [todo EXCEPT ![t] = s] /\ Tail(todo[t]) \in Seq(SafeTask)
    BY <1>2, <1>5 DEF Forward, Idle
  <2>2. <<[do |-> "unlock", pipe |-> q]>> \in Seq(SafeTask) /\ CallsOf(q) \in Seq(SafeTask)
    BY <1>1, <2>1, SafeTasks, CallsSafe
  <2>3. s \in Seq(SafeTask)
    BY <1>1, <2>1, <2>2
  <2> QED
    BY <2>1, <2>3
<1>6. CASE Erase(t)
  <2>1. todo' = [todo EXCEPT ![t] = Tail(todo[t])] \/ todo' = [todo EXCEPT ![t] = todo[t]]
    BY <1>1, <1>6 DEF Erase
  <2> QED
    BY <1>1, <1>2, <1>6, <2>1 DEF Erase, Idle
<1>7. ASSUME NEW p \in Pipes, NEW what, Enter(t, p, what)
      PROVE  \E s \in Seq(SafeTask) : todo' = [todo EXCEPT ![t] = s]
  BY <1>1, <1>7, SafeTasks DEF Enter
<1>8. ASSUME NEW p \in Pipes, NEW q \in Pipes, Detach(t, p, q)
      PROVE  \E s \in Seq(SafeTask) : todo' = [todo EXCEPT ![t] = s]
  BY <1>1, <1>8, SafeTasks DEF Detach
<1> QED
  BY <1>3, <1>4, <1>5, <1>6, <1>7, <1>8 DEF CallStep

\* Erasing leaves objects that were attached before.
LEMMA EraseKeeps ==
  ASSUME OwnTypes, NEW t \in Threads, Erase(t)
  PROVE  attached' \in [Pipes -> Seq(Pipes \ Outs)]
<1> DEFINE p == Head(todo[t]).pipe
<1>1. todo[t] \in Seq(Task) /\ todo[t] # <<>>
  BY DEF OwnTypes, PipeTypeOK, Erase, Idle
<1>2. p \in Pipes
  BY <1>1, TailFacts, TaskPipe
<1>3. attached \in [Pipes -> Seq(Pipes \ Outs)] /\ attached[p] \in Seq(Pipes \ Outs)
  BY <1>2 DEF OwnTypes
<1>4. CASE UNCHANGED attached
  BY <1>3, <1>4
<1>5. ASSUME NEW i \in DOMAIN attached[p],
             attached' = [attached EXCEPT ![p] =
                            SubSeq(@, 1, i - 1) \o SubSeq(@, i + 1, Len(@))]
      PROVE  attached' \in [Pipes -> Seq(Pipes \ Outs)]
  <2> DEFINE kept == SubSeq(attached[p], 1, i - 1) \o SubSeq(attached[p], i + 1, Len(attached[p]))
  <2>1. kept \in Seq(Pipes \ Outs)
    BY <1>3, RemoveOne
  <2>2. attached' = [attached EXCEPT ![p] = kept]
    BY <1>5
  <2> HIDE DEF kept, p
  <2> QED
    BY <1>2, <1>3, <2>1, <2>2
<1>6. UNCHANGED attached \/ \E i \in DOMAIN attached[p] :
        attached' = [attached EXCEPT ![p] = SubSeq(@, 1, i - 1) \o SubSeq(@, i + 1, Len(@))]
  BY DEF Erase
<1> QED
  BY <1>4, <1>5, <1>6

\* The step of a child or a thread that changes what is on its way to a reader.
LEMMA ReaderMoves ==
  ASSUME MoreThanCalls
  PROVE  \/ UNCHANGED <<channel, fetched, produced>>
         \/ \E n \in 1 .. Launches, s \in StreamSet : ChildWrites(n, s)
         \/ \E p \in Outs : ReadBlob(p) /\ UNCHANGED produced
         \/ \E p \in Outs : PassOn(p) /\ UNCHANGED produced
<1> USE DEF NativesSame, nativeVars, outVars, childVars, ownVars
<1>1. ASSUME NEW p \in Outs \cup Ins, Polling(p)
      PROVE  \/ UNCHANGED <<channel, fetched, produced>>
             \/ p \in Outs /\ (ReadBlob(p) \/ PassOn(p)) /\ UNCHANGED produced
  BY <1>1 DEF Polling, PollForReads, PollForWrites, ReadEnd, WriteBlob, WriteFails, WriteEnd
<1>2. CASE ForkAndExec \/ StartMonitors \/ ExitNow \/ FireExit
  BY <1>2 DEF ForkAndExec, StartMonitors, ExitNow, FireExit
<1>3. ASSUME NEW a \in {Main, Monitor}, Wait(a) PROVE UNCHANGED <<channel, fetched, produced>>
  BY <1>3 DEF Wait
<1>4. ASSUME NEW p \in UserPipes, NEW s \in StreamSet, SetStdout(s, p)
      PROVE  UNCHANGED <<channel, fetched, produced>>
  BY <1>4 DEF SetStdout
<1>5. ASSUME NEW n \in 1 .. Launches, ChildEnds(n) PROVE UNCHANGED <<channel, fetched, produced>>
  BY <1>5 DEF ChildEnds
<1> QED
  BY <1>1, <1>2, <1>3, <1>4, <1>5 DEF MoreThanCalls

LEMMA WritesTyped ==
  ASSUME OwnTypes, NEW n \in 1 .. Launches, NEW s \in StreamSet, ChildWrites(n, s)
  PROVE  /\ channel' \in [Outs -> Seq(Blobs)] /\ UNCHANGED fetched
         /\ produced' \in [1 .. Launches -> [StreamSet -> 0 .. MaxOutput]]
         /\ ChildBlob(s, n, produced[n][s] + 1) \in Blobs
<1>1. /\ produced \in [1 .. Launches -> [StreamSet -> 0 .. MaxOutput]]
      /\ channel \in [Outs -> Seq(Blobs)] /\ MaxOutput \in Nat
      /\ produced[n][s] < MaxOutput
  BY ProcessAssumption DEF OwnTypes, ChildWrites
<1> DEFINE k == produced[n][s] + 1
           b == ChildBlob(s, n, k)
<1>2. k \in 1 .. MaxOutput /\ k \in 0 .. MaxOutput
  BY <1>1
<1>3. b \in Blobs
  BY <1>2, ChildAssumption DEF ChildBlob
<1>4. /\ produced' = [produced EXCEPT ![n][s] = k]
      /\ channel' = [channel EXCEPT ![Out(s, home[n])] = Append(@, b)]
      /\ UNCHANGED fetched
  BY DEF ChildWrites
<1> HIDE DEF k, b
<1>5. \A q \in Outs : Append(channel[q], b) \in Seq(Blobs)
  BY <1>1, <1>3
<1>6. channel' \in [Outs -> Seq(Blobs)]
  BY <1>1, <1>4, <1>5
<1>7. produced' \in [1 .. Launches -> [StreamSet -> 0 .. MaxOutput]]
  BY <1>1, <1>2, <1>4
<1> QED
  BY <1>3, <1>4, <1>6, <1>7 DEF b, k

LEMMA ReadTyped ==
  ASSUME OwnTypes, NEW p \in Outs, ReadBlob(p) \/ PassOn(p)
  PROVE  channel' \in [Outs -> Seq(Blobs)] /\ fetched' \in [Outs -> Seq(Blobs)]
<1>1. channel \in [Outs -> Seq(Blobs)] /\ fetched \in [Outs -> Seq(Blobs)]
  BY DEF OwnTypes
<1>2. CASE ReadBlob(p)
  <2>1. Head(channel[p]) \in Blobs /\ Tail(channel[p]) \in Seq(Blobs)
    BY <1>1, <1>2, SequenceFacts DEF ReadBlob
  <2>2. /\ fetched' = [fetched EXCEPT ![p] = <<Head(channel[p])>>]
        /\ channel' = [channel EXCEPT ![p] = Tail(channel[p])]
    BY <1>2 DEF ReadBlob
  <2> QED
    BY <1>1, <2>1, <2>2
<1>3. CASE PassOn(p)
  <2>1. fetched' = [fetched EXCEPT ![p] = <<>>] /\ UNCHANGED channel
    BY <1>3 DEF PassOn
  <2> QED
    BY <1>1, <2>1
<1> QED
  BY <1>2, <1>3

\* The attached objects of the pipes, and the calls on their way.
LEMMA LinksTyped ==
  ASSUME OwnTypes, LifeInv, PlanInv, [ProcNext]_procVars
  PROVE  attached' \in [Pipes -> Seq(Pipes \ Outs)] /\ todo' \in [Threads -> Seq(SafeTask)]
<1> USE NativeNames
<1>1. attached \in [Pipes -> Seq(Pipes \ Outs)] /\ todo \in [Threads -> Seq(SafeTask)]
  BY DEF OwnTypes
<1>2. ASSUME UNCHANGED <<attached, todo>>
      PROVE  attached' \in [Pipes -> Seq(Pipes \ Outs)] /\ todo' \in [Threads -> Seq(SafeTask)]
  BY <1>1, <1>2
<1>3. ASSUME NEW t \in Threads, NEW s \in Seq(SafeTask), todo' = [todo EXCEPT ![t] = s]
      PROVE  todo' \in [Threads -> Seq(SafeTask)]
  BY <1>1, <1>3
<1>4. ASSUME NEW p \in Pipes, NEW q \in Pipes \ Outs, Attach(p, q)
      PROVE  attached' \in [Pipes -> Seq(Pipes \ Outs)] /\ todo' \in [Threads -> Seq(SafeTask)]
  <2>1. Append(attached[p], q) \in Seq(Pipes \ Outs)
    BY <1>1
  <2> QED
    BY <1>1, <1>4, <2>1 DEF Attach
<1>5. ASSUME NEW t \in Threads, NEW p \in Pipes, NEW what, Enter(t, p, what)
      PROVE  attached' \in [Pipes -> Seq(Pipes \ Outs)] /\ todo' \in [Threads -> Seq(SafeTask)]
  <2>1. UNCHANGED attached
    BY <1>5 DEF Enter
  <2> QED
    BY <1>1, <1>3, <1>5, <2>1, TodoKinds
<1>6. ASSUME NEW p \in Pipes, NEW q \in Pipes, Detach(Main, p, q)
      PROVE  attached' \in [Pipes -> Seq(Pipes \ Outs)] /\ todo' \in [Threads -> Seq(SafeTask)]
  <2>1. UNCHANGED attached
    BY <1>6 DEF Detach
  <2> QED
    BY <1>1, <1>3, <1>6, <2>1, TodoKinds
<1>7. ASSUME NEW t \in Threads, WriteIn(t) \/ CallStep(t)
      PROVE  attached' \in [Pipes -> Seq(Pipes \ Outs)] /\ todo' \in [Threads -> Seq(SafeTask)]
  <2>1. UNCHANGED attached \/ Erase(t)
    BY <1>7 DEF WriteIn, CallStep, EnterAttached, Forward, Unlock
  <2> QED
    BY <1>1, <1>3, <1>7, <2>1, TodoKinds, EraseKeeps
<1>8. CASE Calls
  BY <1>2, <1>4, <1>5, <1>6, <1>8, CallKinds DEF FireEventAsynchronously, callVars
<1>9. CASE Loops
  BY <1>2, <1>9 DEF Loops, Collect, CollectOthers, CollectCloses, LockReads, CollectRead,
                    UnlockReads, FireRead, ReadsFired, FireClose, ClosesFired, OthersFired,
                    callVars
<1>10. CASE FireExit
  BY <1>2, <1>10 DEF FireExit, FireOther, callVars
<1>11. CASE MoreThanCalls
  BY <1>2, <1>5, <1>10, <1>11, OtherFrames DEF pipeVars, callVars
<1>12. CASE Quiet \/ UNCHANGED procVars
  BY <1>2, <1>12 DEF Quiet, procVars, pipeVars, callVars
<1> QED
  BY <1>7, <1>8, <1>9, <1>11, <1>12, Footprints

LEMMA EndsTyped ==
  ASSUME OwnTypes, [ProcNext]_procVars
  PROVE  /\ ends' \in [StreamSet \cup {"stdin"} -> Pipes \ (Outs \cup Ins)]
         /\ UNCHANGED ends \/ \E p \in UserPipes, s \in StreamSet : SetStdout(s, p)
<1>1. ASSUME NEW p \in UserPipes, NEW s \in StreamSet, SetStdout(s, p)
      PROVE  ends' \in [StreamSet \cup {"stdin"} -> Pipes \ (Outs \cup Ins)]
  <2>1. p \in Pipes \ (Outs \cup Ins)
    BY ProcessAssumption, ChildAssumption
  <2> QED
    BY <1>1, <2>1 DEF SetStdout, OwnTypes
<1>2. CASE MoreThanCalls
  <2>1. UNCHANGED ends \/ \E p \in UserPipes, s \in StreamSet : SetStdout(s, p)
    BY <1>2 DEF MoreThanCalls, ForkAndExec, StartMonitors, ExitNow, Wait, ChildEnds, ChildWrites,
                FireExit, Polling, ownVars, objectVars
  <2> QED
    BY <1>1, <2>1 DEF OwnTypes
<1>3. CASE Quiet \/ SameObject \/ UNCHANGED procVars
  BY <1>3 DEF Quiet, SameObject, procVars, ownVars, objectVars, OwnTypes
<1> QED
  BY <1>2, <1>3, Footprints

LEMMA OwnStep ==
  ASSUME OwnTypes, LifeInv, PlanInv, [ProcNext]_procVars
  PROVE  OwnTypes'
<1>1. plan' \in [{Main, Monitor} -> Seq(StreamStep)]
  BY PlansStay DEF procVars, ownVars, OwnTypes
<1>2. /\ channel' \in [Outs -> Seq(Blobs)] /\ fetched' \in [Outs -> Seq(Blobs)]
      /\ produced' \in [1 .. Launches -> [StreamSet -> 0 .. MaxOutput]]
  <2>1. CASE UNCHANGED <<channel, fetched, produced>>
    BY <2>1 DEF OwnTypes
  <2>2. CASE MoreThanCalls
    <3>1. ASSUME NEW n \in 1 .. Launches, NEW s \in StreamSet, ChildWrites(n, s)
          PROVE  /\ channel' \in [Outs -> Seq(Blobs)] /\ fetched' \in [Outs -> Seq(Blobs)]
                 /\ produced' \in [1 .. Launches -> [StreamSet -> 0 .. MaxOutput]]
      BY <3>1, WritesTyped DEF OwnTypes
    <3>2. ASSUME NEW p \in Outs, ReadBlob(p) \/ PassOn(p), UNCHANGED produced
          PROVE  /\ channel' \in [Outs -> Seq(Blobs)] /\ fetched' \in [Outs -> Seq(Blobs)]
                 /\ produced' \in [1 .. Launches -> [StreamSet -> 0 .. MaxOutput]]
      BY <3>2, ReadTyped DEF OwnTypes
    <3> QED
      BY <2>1, <2>2, <3>1, <3>2, ReaderMoves
  <2>3. CASE Quiet \/ (SameNatives /\ SameObject) \/ UNCHANGED procVars
    BY <2>1, <2>3 DEF Quiet, SameNatives, SameObject, procVars, nativeVars, outVars, ownVars,
                      childVars
  <2> QED
    BY <2>2, <2>3, Footprints
<1> QED
  BY <1>1, <1>2, PipesStep, LinksTyped, EndsTyped DEF OwnTypes

-----------------------------------------------------------------------------
(* LifeInv is inductive.                                                   *)

SameCloses == \A p \in Outs : closesAsked'[p] = closesAsked[p]

LEMMA OtherPipesClose ==
  ASSUME OwnTypes, NEW q \in Pipes \ Outs, NEW what, QueueFor(q, what)
  PROVE  SameCloses
<1>1. closesAsked \in [Pipes -> Nat] /\ Outs \subseteq Pipes
  BY NativeAssumption DEF OwnTypes, PipeTypeOK
<1>2. UNCHANGED closesAsked \/ closesAsked' = [closesAsked EXCEPT ![q] = @ + 1]
  BY DEF QueueFor, QueueClose, QueueRead
<1> QED
  BY <1>1, <1>2 DEF SameCloses

LEMMA QueuesRead ==
  ASSUME NEW p, NEW b \in Blobs, QueueFor(p, b)
  PROVE  QueueRead(p, b)
BY PipesAssumption DEF QueueFor

LEMMA CallCloses ==
  ASSUME OwnTypes, NEW t \in Threads, WriteIn(t) \/ CallStep(t)
  PROVE  SameCloses
<1>1. CASE EnterAttached(t)
  <2>1. todo[t] \in Seq(SafeTask) /\ todo[t] # <<>> /\ Head(todo[t]).do = "call"
    BY <1>1 DEF OwnTypes, EnterAttached, Idle
  <2>2. Head(todo[t]) \in SafeTask
    BY <2>1, SequenceFacts
  <2>3. Head(todo[t]).pipe \in Pipes \ Outs
    BY <2>1, <2>2, TaskPipe DEF SafeTask
  <2>4. QueueFor(Head(todo[t]).pipe, carried[t])
    BY <1>1 DEF EnterAttached
  <2> QED
    BY <2>3, <2>4, OtherPipesClose
<1>2. CASE UNCHANGED closesAsked
  BY <1>2 DEF SameCloses
<1> QED
  BY <1>1, <1>2 DEF CallStep, WriteIn, Forward, Unlock, Erase, askedVars

\* The steps that no plan has are mild, and ask no reader to close.
LEMMA AsideMild ==
  ASSUME OwnTypes, LifeInv, Aside
  PROVE  Mild /\ SameCloses /\ UNCHANGED <<plan, gen, pid, running, home, job, returned>>
<1> USE DEF NativesSame, nativeVars, ownVars, objectVars, childVars, saidVars, NobodyCalls,
            pipeVars, askedVars
<1>1. LifeTypes /\ ends["stdin"] \in Pipes \ Outs
  BY DEF LifeInv, OwnTypes
<1>2. CASE SendSignal
  BY <1>1, <1>2, MildSame DEF SendSignal, SameCloses
<1>3. ASSUME NEW what, ScriptCalls(what)
      PROVE  Mild /\ SameCloses /\ UNCHANGED <<plan, gen, pid, running, home, job, returned>>
  <2>1. UNCHANGED <<child, polling>>
    BY <1>3 DEF ScriptCalls
  <2>2. QueueFor(ends["stdin"], what)
    BY <1>3 DEF ScriptCalls, Enter
  <2>3. Mild
    BY <1>1, <2>1, MildSame
  <2>4. SameCloses
    BY <1>1, <2>2, OtherPipesClose
  <2> QED
    BY <1>3, <2>3, <2>4 DEF ScriptCalls
<1>4. ASSUME NEW p, NEW s, SetStdout(s, p)
      PROVE  Mild /\ SameCloses /\ UNCHANGED <<plan, gen, pid, running, home, job, returned>>
  BY <1>1, <1>4, MildSame DEF SetStdout, SameCloses
<1>5. ASSUME NEW n \in 1 .. Launches, ChildEnds(n)
      PROVE  Mild /\ SameCloses /\ UNCHANGED <<plan, gen, pid, running, home, job, returned>>
  <2>1. child[n] = "alive" /\ child' = [child EXCEPT ![n] = "ended"] /\ UNCHANGED polling
    BY <1>5 DEF ChildEnds
  <2>2. Mild
    BY <1>1, <2>1 DEF Mild, LifeTypes
  <2> QED
    BY <1>5, <2>2 DEF ChildEnds, SameCloses
<1>6. ASSUME NEW n \in 1 .. Launches, NEW s \in StreamSet, ChildWrites(n, s)
      PROVE  Mild /\ SameCloses /\ UNCHANGED <<plan, gen, pid, running, home, job, returned>>
  BY <1>1, <1>6, MildSame DEF ChildWrites, SameCloses
<1>7. CASE EventLoop
  <2>1. UNCHANGED closesAsked
    BY <1>7 DEF EventLoop, FireExit, Collect, CollectOthers, CollectCloses, LockReads,
                CollectRead, UnlockReads, FireRead, ReadsFired, FireClose, ClosesFired, FireOther,
                OthersFired
  <2>2. UNCHANGED <<child, polling, plan, gen, pid, running, home, job, returned>>
    BY <1>7 DEF EventLoop, FireExit
  <2> QED
    BY <1>1, <2>1, <2>2, MildSame DEF SameCloses
<1> QED
  BY <1>2, <1>3, <1>4, <1>5, <1>6, <1>7 DEF Aside

LEMMA ThreadsMild ==
  ASSUME OwnTypes, LifeInv, PipeThreads
  PROVE  Mild /\ SameCloses /\ UNCHANGED <<plan, gen, pid, running, home, job, returned>>
<1> USE DEF ownVars, objectVars, childVars, saidVars, nativeVars
<1>1. LifeTypes
  BY DEF LifeInv
<1>2. ASSUME NEW p \in Outs \cup Ins, Polling(p)
      PROVE  Mild /\ SameCloses /\ UNCHANGED <<plan, gen, pid, running, home, job, returned>>
  <2>1. UNCHANGED <<child, plan, gen, pid, running, home, job, returned>>
    BY <1>2 DEF Polling
  <2>2. polling' = polling \/ (polling[p] = "on" /\ polling' = [polling EXCEPT ![p] = "ended"])
    BY <1>2 DEF Polling, PollForReads, PollForWrites, ReadBlob, PassOn, ReadEnd, Reading,
                WriteBlob, WriteFails, WriteEnd
  <2>3. Mild
    BY <1>1, <2>1, <2>2 DEF Mild, LifeTypes
  <2>4. UNCHANGED closesAsked
    <3>1. CASE PassOn(p) /\ p \in Outs
      <4>1. Head(fetched[p]) \in Blobs
        BY <3>1 DEF PassOn, OwnTypes
      <4>2. QueueFor(p, Head(fetched[p]))
        BY <3>1 DEF PassOn, Enter
      <4> QED
        BY <4>1, <4>2, QueuesRead DEF QueueRead
    <3>2. CASE UNCHANGED pipeVars
      BY <3>2 DEF pipeVars, askedVars
    <3>3. (p \in Outs /\ PassOn(p)) \/ UNCHANGED pipeVars
      BY <1>2 DEF Polling, PollForReads, PollForWrites, ReadBlob, ReadEnd, WriteBlob, WriteFails,
                  WriteEnd
    <3> QED
      BY <3>1, <3>2, <3>3
  <2> QED
    BY <2>1, <2>3, <2>4 DEF SameCloses
<1>3. ASSUME NEW t \in Threads, Calling(t)
      PROVE  Mild /\ SameCloses /\ UNCHANGED <<plan, gen, pid, running, home, job, returned>>
  <2>1. UNCHANGED <<child, polling, plan, gen, pid, running, home, job, returned>>
    BY <1>3 DEF Calling, NativeCallStep, WriteIn, CloseIn, CallPipe
  <2>2. WriteIn(t) \/ CallStep(t)
    BY <1>3 DEF Calling, NativeCallStep, CloseIn, CallPipe, CallStep
  <2> QED
    BY <1>1, <2>1, <2>2, MildSame, CallCloses
<1> QED
  BY <1>2, <1>3 DEF PipeThreads

LEMMA LifeWait ==
  ASSUME LifeInv, PlanInv, NEW a \in {Main, Monitor}, Wait(a)
  PROVE  LifeInv'
<1>1. /\ Step(a, "wait") /\ child[pid] = "ended" /\ child' = [child EXCEPT ![pid] = "reaped"]
      /\ UNCHANGED <<polling, gen, pid, home, job, returned, running, closesAsked>>
  BY DEF Wait, NativesSame, nativeVars, NobodyCalls, pipeVars, askedVars, saidVars
<1>2. "wait" \in Left(a) /\ "invoke" \in Left(a) /\ "fork" \notin Left(a)
  <2>1. Left(a) = {"wait"} \cup Left(a)' /\ Left(a)' \cap Spent("wait") = {}
    BY <1>1, StepLeaves DEF LifeInv
  <2>2. Whole(Left(a), For(plan[a], "stop"))
    BY DEF LifeInv, Shapes, Shaped, Left
  <2> QED
    BY <2>1, <2>2 DEF Whole, Spent, Launching
<1>3. pid \in 1 .. Launches
  BY <1>2, ChildAssumption DEF LifeInv, Watched, LifeTypes
<1>4. Mild /\ child'[pid] = "reaped"
  BY <1>1, <1>3 DEF LifeInv, LifeTypes, Mild
<1>5. Synchronous(pid) => Synchronous(pid)'
  BY <1>1 DEF Synchronous
<1> QED
  BY <1>1, <1>4, <1>5, LifeTail DEF PlainOps

LEMMA LifeCollect ==
  ASSUME LifeInv, PlanInv, CollectOutput
  PROVE  LifeInv'
<1>1. /\ Step(Main, "collect")
      /\ returned' = Append(returned, [launch |-> pid, output |-> output])
      /\ UNCHANGED <<child, polling, gen, pid, home, job, running, closesAsked>>
  BY DEF CollectOutput, NobodyCalls, pipeVars, askedVars, objectVars, childVars
<1>2. Mild
  BY <1>1, MildSame DEF LifeInv
<1>3. Synchronous(pid)'
  BY <1>1 DEF Synchronous
<1> QED
  BY <1>1, <1>2, <1>3, LifeTail DEF PlainOps

\* The steps of a plan that only change the plan, for LifeInv.
LEMMA LifeRest ==
  ASSUME LifeInv, PlanInv, NEW a \in {Main, Monitor}, NEW op \in PlainOps \ {"fork", "collect", "wait"},
         Step(a, op), UNCHANGED <<child, polling, gen, pid, home, running, returned, closesAsked>>,
         job' = job \/ job' # "sent",
         op = "stop" => polling[Out(Stream(a), gen)] # "on"
  PROVE  LifeInv'
<1>1. Mild
  BY MildSame DEF LifeInv
<1>2. Synchronous(pid) => Synchronous(pid)'
  BY DEF Synchronous
<1> QED
  BY <1>1, <1>2, LifeTail

LEMMA LifePlain ==
  ASSUME LifeInv, PlanInv, PipeTypeOK, PlainDoes
  PROVE  LifeInv'
<1> USE DEF NativesSame, nativeVars, NobodyCalls, pipeVars, askedVars, objectVars, childVars, saidVars
<1>1. CASE AttachPipes
  <2>1. Step(Main, "attach") /\ UNCHANGED <<child, polling, gen, pid, home, running, returned, closesAsked, job>>
    BY <1>1 DEF AttachPipes, Attach
  <2> QED
    BY <2>1, LifeRest DEF PlainOps
<1>2. CASE SetReadCallbacks
  <2>1. Step(Main, "callbacks") /\ UNCHANGED <<child, polling, gen, pid, home, running, returned, closesAsked, job>>
    BY <1>2 DEF SetReadCallbacks
  <2> QED
    BY <2>1, LifeRest DEF PlainOps
<1>3. CASE DetachIn
  <2>1. Step(Main, "detachIn") /\ UNCHANGED <<child, polling, gen, pid, home, running, returned, closesAsked, job>>
    BY <1>3 DEF DetachIn, Detach
  <2> QED
    BY <2>1, LifeRest DEF PlainOps
<1>4. CASE DetachOut
  <2>1. Step(Main, "detach") /\ UNCHANGED <<child, polling, gen, pid, home, running, returned, closesAsked, job>>
    BY <1>4 DEF DetachOut, Detach
  <2> QED
    BY <2>1, LifeRest DEF PlainOps
<1>5. CASE SignalMonitor
  <2>1. Step(Main, "signal") /\ UNCHANGED <<child, polling, gen, pid, home, running, returned, closesAsked>>
        /\ job' # "sent"
    BY <1>5 DEF SignalMonitor
  <2> QED
    BY <2>1, LifeRest DEF PlainOps
<1>6. CASE MonitorReturns
  <2>1. Step(Monitor, "await") /\ UNCHANGED <<child, polling, gen, pid, home, running, returned, closesAsked>>
        /\ job' # "sent"
    BY <1>6 DEF MonitorReturns
  <2> QED
    BY <2>1, LifeRest DEF PlainOps
<1>7. ASSUME NEW a \in {Main, Monitor}, StopIn(a) \/ JoinIn(a) \/ StopOut(a) PROVE LifeInv'
  <2>1. PICK op \in {"stopIn", "joinIn", "stop"} :
          /\ Step(a, op) /\ (op = "stop" => polling[Out(Stream(a), gen)] # "on")
          /\ UNCHANGED <<child, polling, gen, pid, home, running, returned, closesAsked, job>>
    BY <1>7 DEF StopIn, JoinIn, StopOut
  <2> QED
    BY <2>1, LifeRest DEF PlainOps
<1> QED
  BY <1>1, <1>2, <1>3, <1>4, <1>5, <1>6, <1>7, LifeFork, LifeCollect, LifeClose, LifeWait
     DEF PlainDoes

LEMMA LifeStep ==
  ASSUME LifeInv, PlanInv, OwnTypes, [ProcNext]_procVars
  PROVE  LifeInv'
<1>1. CASE PlainDoes
  BY <1>1, LifePlain DEF OwnTypes
<1>2. CASE Aside
  BY <1>2, AsideMild, LifeSame DEF SameCloses
<1>3. CASE PipeThreads
  BY <1>3, ThreadsMild, LifeSame DEF SameCloses
<1>4. CASE UNCHANGED procVars
  <2>1. UNCHANGED <<child, polling, plan, gen, pid, running, home, job, returned, closesAsked>>
    BY <1>4 DEF procVars, pipeVars, askedVars, nativeVars, ownVars, objectVars, childVars, saidVars
  <2> QED
    BY <2>1, MildSame, LifeSame DEF LifeInv
<1> QED
  BY <1>1, <1>2, <1>3, <1>4, StepKinds, LifeLaunch, LifeForkFails, LifeStartExitMonitor,
     LifeExitCallback, LifeInvoke, LifeStartMonitors, LifeRecreate, LifeFire

-----------------------------------------------------------------------------
(* The initial states.                                                     *)

LEMMA OwnInit == ProcInit => OwnTypes
<1> SUFFICES ASSUME ProcInit PROVE OwnTypes
  OBVIOUS
<1>1. /\ StreamSet \X {0} \subseteq Pipes \ (Outs \cup Ins) /\ <<"stdin", 0>> \in Pipes \ (Outs \cup Ins)
      /\ UserPipes \subseteq Pipes \ (Outs \cup Ins) /\ In(1) \in Pipes \ Outs
  <2>1. 0 \in 0 .. Generations /\ 1 \in 1 .. Generations /\ 1 \in 0 .. Generations /\ 0 \notin 1 .. Generations
    BY ChildAssumption
  <2>2. Outs \cap Ins = {} /\ Ins \subseteq Pipes
    BY NativeAssumption
  <2> QED
    BY <2>1, <2>2, ProcessAssumption, ChildAssumption DEF In
<1>2. attached \in [Pipes -> Seq(Pipes \ Outs)]
  <2>1. \A s \in StreamSet : UserLinks[s] \in Seq(Pipes \ Outs)
    BY <1>1, ProcessAssumption
  <2>2. <<In(1)>> \in Seq(Pipes \ Outs) /\ <<>> \in Seq(Pipes \ Outs)
    BY <1>1
  <2>3. attached = Attachments
    BY DEF ProcInit
  <2> QED
    BY <2>1, <2>2, <2>3 DEF Attachments
<1>3. PipeTypeOK
  <2>1. attached \in [Pipes -> Seq(Pipes)] /\ Unused
    <3>1. \A x \in Seq(Pipes \ Outs) : x \in Seq(Pipes)
      OBVIOUS
    <3> QED
      BY <1>2, <3>1 DEF ProcInit
  <2> QED
    BY <2>1 DEF Unused, PipeTypeOK, LoopSteps
<1>4. /\ plan \in [{Main, Monitor} -> Seq(StreamStep)] /\ todo \in [Threads -> Seq(SafeTask)]
      /\ channel \in [Outs -> Seq(Blobs)] /\ fetched \in [Outs -> Seq(Blobs)]
  BY DEF ProcInit, Unused, NativeInit
<1>5. ends \in [StreamSet \cup {"stdin"} -> Pipes \ (Outs \cup Ins)]
  BY <1>1 DEF ProcInit, ScriptPipe
<1>6. produced \in [1 .. Launches -> [StreamSet -> 0 .. MaxOutput]]
  BY ProcessAssumption DEF ProcInit
<1> QED
  BY <1>2, <1>3, <1>4, <1>5, <1>6 DEF OwnTypes

LEMMA LifeInit == ProcInit => LifeInv
<1> SUFFICES ASSUME ProcInit PROVE LifeInv
  OBVIOUS
<1>1. /\ gen = 1 /\ running = FALSE /\ pid = 0 /\ job = "none"
      /\ plan = [a \in {Main, Monitor} |-> <<>>]
      /\ child = [n \in 1 .. Launches |-> "none"] /\ home = [n \in 1 .. Launches |-> 0]
      /\ polling = [p \in Outs \cup Ins |-> "off"] /\ closesAsked = [p \in Pipes |-> 0]
  BY DEF ProcInit, NativeInit, Unused
<1>2. plan[Main] = <<>> /\ plan[Monitor] = <<>> /\ Left(Main) = {} /\ Left(Monitor) = {}
  BY <1>1, EmptyShaped DEF Left
<1>3. LifeTypes
  <2>1. gen \in 1 .. Generations /\ pid \in 0 .. Launches
    BY <1>1, ChildAssumption
  <2>2. /\ home \in [1 .. Launches -> 0 .. Generations]
        /\ child \in [1 .. Launches -> {"none", "alive", "ended", "reaped"}]
        /\ polling \in [Outs \cup Ins -> {"off", "on", "ended"}]
    BY <1>1, ChildAssumption
  <2>3. running \in BOOLEAN
    BY <1>1
  <2> QED
    BY <2>1, <2>2, <2>3 DEF LifeTypes
<1>4. Shapes
  BY <1>2, EmptyShaped DEF Shapes
<1>5. \A h \in 1 .. Generations : Untouched(h)
  <2>1. \A h \in 1 .. Generations, s \in StreamSet : Out(s, h) \in Outs \cap Pipes
    BY OutIsOut, NativeAssumption
  <2> QED
    BY <1>1, <2>1 DEF Untouched
<1>6. NewPipes /\ Homes
  BY <1>1, <1>3, <1>5, ChildAssumption DEF NewPipes, Homes, LifeTypes
<1> QED
  BY <1>1, <1>2, <1>3, <1>4, <1>6 DEF LifeInv, MainRuns, HasRoom, NoneLeft, Unstarted, Forked,
     Ending, Returning, Watched, Started, MonitorAlone, Sent

-----------------------------------------------------------------------------
(* What is fired, and how often.                                           *)

\* The object is going to fire EXIT for its last launch.
Pends ==
  \/ "invoke" \in Left(Monitor) \/ job = "sent"
  \/ "fork" \notin Left(Main) /\ Left(Main) \cap {"monitors", "startMonitor", "invoke", "fireLater"} # {}

\* The EXIT of launch n has been queued or fired.
Told(n) ==
  \/ \E i \in DOMAIN exits : exits[i] = n
  \/ \E i \in DOMAIN otherEvents : otherEvents[i].event = n
  \/ \E i \in DOMAIN otherCopy : otherCopy[i].event = n

SaidTypes ==
  /\ exits \in Seq(1 .. Launches) /\ output \in Seq(Blobs)
  /\ returned \in Seq([launch : 0 .. Launches, output : Seq(Blobs)])

Same(m, n) == m = n /\ ~Synchronous(n)

\* No launch() is answered twice, wherever the answers are.
OnceInv ==
  /\ \A n \in 1 .. Launches : Told(n) => Over(n)
  /\ Pends => ~Told(pid)
  /\ \A i, j \in DOMAIN exits : Same(exits[i], exits[j]) => i = j
  /\ \A i, j \in DOMAIN otherEvents : Same(otherEvents[i].event, otherEvents[j].event) => i = j
  /\ \A i, j \in DOMAIN otherCopy : Same(otherCopy[i].event, otherCopy[j].event) => i = j
  /\ \A i \in DOMAIN exits, j \in DOMAIN otherEvents : ~Same(exits[i], otherEvents[j].event)
  /\ \A i \in DOMAIN exits, j \in DOMAIN otherCopy : ~Same(exits[i], otherCopy[j].event)
  /\ \A i \in DOMAIN otherEvents, j \in DOMAIN otherCopy :
       ~Same(otherEvents[i].event, otherCopy[j].event)

\* How a step changes them.
NoneFired == UNCHANGED <<exits, otherEvents, otherCopy>>
OthersTaken == otherCopy' = otherEvents /\ otherEvents' = <<>> /\ UNCHANGED exits
OneLater == UNCHANGED <<exits, otherCopy>> /\ otherEvents' = Append(otherEvents, OtherStamp(pid))
OneNow == UNCHANGED <<otherEvents, otherCopy>> /\ exits' = Append(exits, pid)
OneFired ==
  /\ pc = "fireOthers" /\ otherCopy # <<>> /\ exits' = Append(exits, Head(otherCopy).event)
  /\ otherCopy' = Tail(otherCopy) /\ UNCHANGED otherEvents

LEMMA QueueFrame ==
  ASSUME NEW p, NEW what, QueueFor(p, what)
  PROVE  UNCHANGED otherEvents
BY DEF QueueFor, QueueClose, QueueRead

\* What a call on a pipe never touches.
LEMMA CallFrame ==
  ASSUME NEW t, \/ WriteIn(t) \/ CallStep(t)
                \/ \E p, what : Enter(t, p, what)
                \/ \E p, q : Detach(t, p, q)
                \/ \E p, q : Attach(p, q)
  PROVE  UNCHANGED <<otherEvents, loopVars, firedVars>>
BY QueueFrame DEF WriteIn, CallStep, EnterAttached, Forward, Unlock, Erase, Enter, Detach, Attach, queueVars

LEMMA EventMoves ==
  ASSUME [ProcNext]_procVars
  PROVE  \/ NoneFired
         \/ OthersTaken
         \/ Step(Main, "fireLater") /\ OneLater
         \/ Step(Main, "fireNow") /\ OneNow
         \/ OneFired
<1> USE DEF NoneFired, pipeVars, queueVars, loopVars
<1>1. CASE UNCHANGED procVars \/ Quiet
  BY <1>1 DEF procVars, ownVars, saidVars, Quiet
<1>2. CASE Calls /\ SameObject
  BY <1>2, CallFrame DEF Calls, SameObject, OneLater, FireEventAsynchronously
<1>3. CASE Loops /\ SameObject
  BY <1>3 DEF Loops, SameObject, OthersTaken, Collect, CollectOthers, CollectCloses, LockReads,
     CollectRead, UnlockReads, FireRead, ReadsFired, FireClose, ClosesFired, OthersFired
<1>4. CASE (\E t \in Threads : WriteIn(t) \/ CallStep(t)) /\ SameObject
  BY <1>4, CallFrame DEF SameObject
<1>5. CASE FireExit
  BY <1>5 DEF FireExit, FireOther, OneFired
<1>6. CASE ExitNow
  BY <1>6 DEF ExitNow, OneNow, NobodyCalls
<1>7. CASE MoreThanCalls /\ ~FireExit /\ ~ExitNow
  <2>1. UNCHANGED exits
    BY <1>7 DEF MoreThanCalls, ForkAndExec, StartMonitors, Wait, SetStdout, ChildEnds, ChildWrites,
                Polling, ownVars, saidVars
  <2>2. UNCHANGED <<otherEvents, otherCopy>>
    <3>1. CASE UNCHANGED pipeVars
      BY <3>1
    <3>2. ASSUME NEW p \in Outs, Enter(p, p, Head(fetched[p])) PROVE UNCHANGED <<otherEvents, otherCopy>>
      BY <3>2, CallFrame
    <3> QED
      BY <1>7, <3>1, <3>2, OtherFrames
  <2> QED
    BY <2>1, <2>2
<1> QED
  BY <1>1, <1>2, <1>3, <1>4, <1>5, <1>6, <1>7, Footprints

\* What is over stays over.
LEMMA OverLasts ==
  ASSUME OwnTypes, LifeInv, PlanInv, [ProcNext]_procVars, NEW n \in 1 .. Launches, Over(n)
  PROVE  Over(n)'
<1>0. LifeTypes /\ home[n] \in 1 .. Generations /\ \A s \in StreamSet : Out(s, home[n]) \in Outs
  BY OutIsOut, ChildAssumption DEF LifeInv, LifeTypes, Over
<1>1. ASSUME Mild, UNCHANGED home PROVE Over(n)'
  BY <1>0, <1>1, OverStays
<1>2. ASSUME UNCHANGED <<child, polling, home>> PROVE Over(n)'
  BY <1>2 DEF Over
<1>3. CASE Aside
  BY <1>1, <1>3, AsideMild
<1>4. CASE PipeThreads
  BY <1>1, <1>4, ThreadsMild
<1>5. CASE StartMonitors
  <2>1. Step(Main, "monitors") /\ UNCHANGED <<child, home>>
    BY <1>5 DEF StartMonitors, childVars
  <2>2. "monitors" \in Left(Main)
    BY <2>1, StepLeaves DEF LifeInv
  <2>3. \A s \in StreamSet : Out(s, home[n]) \notin NativePipesOf(gen)
    <3>1. ASSUME NEW s \in StreamSet, Out(s, home[n]) \in NativePipesOf(gen) PROVE FALSE
      <4>1. PICK x \in StreamSet : Out(s, home[n]) = Out(x, gen)
        BY <1>0, <3>1, NativeNames, NativeAssumption DEF NativePipesOf
      <4>2. polling[Out(x, gen)] = "off" /\ polling[Out(s, home[n])] = "ended"
        BY <2>2 DEF LifeInv, Unstarted, Over
      <4> QED
        BY <4>1, <4>2
    <3> QED
      BY <3>1
  <2>4. \A s \in StreamSet : polling'[Out(s, home[n])] = polling[Out(s, home[n])]
    BY <1>0, <1>5, <2>3 DEF StartMonitors
  <2> QED
    BY <2>1, <2>4 DEF Over
<1>6. CASE ForkAndExec
  <2>1. Count = pid
    BY CountIsPid DEF LifeInv
  <2>2. /\ child' = [child EXCEPT ![pid + 1] = "alive"] /\ home' = [home EXCEPT ![pid + 1] = gen]
        /\ UNCHANGED polling
    BY <1>6, <2>1 DEF ForkAndExec
  <2>3. n <= pid /\ pid \in Nat
    BY <1>0, ChildAssumption DEF LifeInv, Homes, LifeTypes, Over
  <2>4. n # pid + 1
    BY <2>3, ChildAssumption
  <2> QED
    BY <1>0, <2>2, <2>4 DEF Over, LifeTypes
<1>7. ASSUME NEW a \in {Main, Monitor}, Wait(a) PROVE Over(n)'
  <2>1. child' = [child EXCEPT ![pid] = "reaped"] /\ UNCHANGED <<home, polling>>
    BY <1>7 DEF Wait, NativesSame, nativeVars
  <2> QED
    BY <1>0, <2>1 DEF Over, LifeTypes
<1>8. CASE PlainDoes /\ ~ForkAndExec /\ ~(\E a \in {Main, Monitor} : Wait(a))
  <2>1. UNCHANGED <<child, polling, home>>
    BY <1>8 DEF PlainDoes, AttachPipes, SetReadCallbacks, CollectOutput, CloseOut, DetachIn, DetachOut,
       SignalMonitor, MonitorReturns, StopIn, JoinIn, StopOut, NativesSame, nativeVars, childVars
  <2> QED
    BY <1>2, <2>1
<1>9. CASE \/ LaunchAsync \/ LaunchSync \/ ForkFails \/ StartExitMonitor \/ ExitCallback
           \/ (\E a \in {Main, Monitor} : Invoke(a))
           \/ RecreateNativePipes \/ ExitLater \/ ExitNow
  <2>1. UNCHANGED <<child, polling, home>>
    BY <1>9 DEF LaunchAsync, LaunchSync, Launch, ForkFails, StartExitMonitor, ExitCallback, Invoke,
       RecreateNativePipes, ExitLater, ExitNow, NativesSame, nativeVars, childVars
  <2> QED
    BY <1>2, <2>1
<1>10. CASE UNCHANGED procVars
  BY <1>2, <1>10 DEF procVars, nativeVars, ownVars, childVars
<1> QED
  BY <1>3, <1>4, <1>5, <1>6, <1>7, <1>8, <1>9, <1>10, StepKinds

\* What the object says of itself only grows.
LEMMA ReturnedMoves ==
  ASSUME [ProcNext]_procVars
  PROVE  \/ UNCHANGED returned
         \/ Step(Main, "collect") /\ returned' = Append(returned, [launch |-> pid, output |-> output])
              /\ UNCHANGED output
<1>1. CASE Quiet \/ SameObject \/ UNCHANGED procVars
  BY <1>1 DEF Quiet, SameObject, procVars, ownVars, saidVars
<1>2. CASE MoreThanCalls
  BY <1>2 DEF MoreThanCalls, ForkAndExec, StartMonitors, ExitNow, FireExit, Wait, SetStdout,
     ChildEnds, ChildWrites, Polling, ownVars, saidVars
<1> QED
  BY <1>1, <1>2, Footprints

LEMMA OutputMoves ==
  ASSUME [ProcNext]_procVars
  PROVE  UNCHANGED output \/ \E p \in Outs : ReadBlob(p)
<1>1. CASE Quiet \/ SameNatives \/ UNCHANGED procVars
  BY <1>1 DEF Quiet, SameNatives, procVars, nativeVars, outVars
<1>2. CASE MoreThanCalls
  BY <1>2 DEF MoreThanCalls, ForkAndExec, StartMonitors, ExitNow, FireExit, Wait, SetStdout,
     ChildEnds, ChildWrites, Polling, PollForReads, PollForWrites, PassOn, ReadEnd, WriteBlob,
     WriteFails, WriteEnd, NativesSame, nativeVars, outVars
<1> QED
  BY <1>1, <1>2, Footprints

LEMMA SaidInit == ProcInit => SaidTypes
BY DEF ProcInit, SaidTypes, NativeInit

LEMMA ToldTyped ==
  ASSUME OwnTypes, SaidTypes, NEW n, Told(n)
  PROVE  n \in 1 .. Launches
<1>1. otherEvents \in Seq(OtherEntry) /\ otherCopy \in Seq(OtherEntry) /\ Others = 1 .. Launches
  BY ProcessAssumption DEF OwnTypes, PipeTypeOK
<1>2. \A e \in OtherEntry : e.event \in 1 .. Launches
  BY <1>1 DEF OtherEntry
<1> QED
  BY <1>1, <1>2, ElementType DEF Told, SaidTypes

LEMMA SaidStep ==
  ASSUME OwnTypes, LifeInv, PlanInv, SaidTypes, [ProcNext]_procVars
  PROVE  /\ SaidTypes'
         /\ \A n : Synchronous(n) => Synchronous(n)'
<1>1. returned' \in Seq([launch : 0 .. Launches, output : Seq(Blobs)])
      /\ \A n : Synchronous(n) => Synchronous(n)'
  <2> DEFINE R == [launch : 0 .. Launches, output : Seq(Blobs)]
             r == [launch |-> pid, output |-> output]
  <2>1. CASE UNCHANGED returned
    BY <2>1 DEF SaidTypes, Synchronous
  <2>2. CASE returned' = Append(returned, r)
    <3>1. r \in R /\ returned \in Seq(R)
      BY DEF SaidTypes, LifeInv, LifeTypes
    <3> HIDE DEF r, R
    <3>2. /\ returned' \in Seq(R) /\ DOMAIN returned \subseteq DOMAIN returned'
          /\ \A i \in DOMAIN returned : returned'[i] = returned[i]
      BY <2>2, <3>1
    <3> QED
      BY <3>2 DEF Synchronous, R
  <2> QED
    BY <2>1, <2>2, ReturnedMoves
<1>2. output' \in Seq(Blobs)
  <2>1. ASSUME NEW p \in Outs, ReadBlob(p) PROVE output' \in Seq(Blobs)
    <3>1. Head(channel[p]) \in Blobs
      BY <2>1, SequenceFacts DEF OwnTypes, ReadBlob
    <3> QED
      BY <2>1, <3>1 DEF ReadBlob, SaidTypes
  <2> QED
    BY <2>1, OutputMoves DEF SaidTypes
<1>3. exits' \in Seq(1 .. Launches)
  <2>1. CASE UNCHANGED exits
    BY <2>1 DEF SaidTypes
  <2>2. CASE Step(Main, "fireNow") /\ OneNow
    <3>1. pid \in 1 .. Launches
      BY <2>2, FiresEnded DEF Fires
    <3> QED
      BY <2>2, <3>1 DEF OneNow, SaidTypes
  <2>3. CASE OneFired
    <3>1. otherCopy \in Seq(OtherEntry) /\ otherCopy # <<>>
      BY <2>3 DEF OwnTypes, PipeTypeOK, OneFired
    <3>2. 1 \in DOMAIN otherCopy /\ Head(otherCopy) = otherCopy[1]
      BY <3>1, TailFacts
    <3>3. Told(Head(otherCopy).event)
      BY <3>2 DEF Told
    <3>4. Head(otherCopy).event \in 1 .. Launches
      BY <3>3, ToldTyped
    <3> QED
      BY <2>3, <3>4 DEF OneFired, SaidTypes
  <2> QED
    BY <2>1, <2>2, <2>3, EventMoves DEF NoneFired, OthersTaken, OneLater
<1> QED
  BY <1>1, <1>2, <1>3 DEF SaidTypes

\* What is queued or fired afterwards was before, or is what the step queues or fires.
LEMMA ToldMoves ==
  ASSUME OwnTypes, SaidTypes, [ProcNext]_procVars, NEW n, Told(n)'
  PROVE  Told(n) \/ (n = pid /\ \E op \in Fires : Step(Main, op))
<1>1. /\ exits \in Seq(1 .. Launches)
      /\ otherEvents \in Seq(OtherEntry) /\ otherCopy \in Seq(OtherEntry)
  BY DEF OwnTypes, PipeTypeOK, SaidTypes
<1>2. CASE NoneFired
  BY <1>2 DEF NoneFired, Told
<1>3. CASE OthersTaken
  BY <1>3 DEF OthersTaken, Told
<1>4. CASE Step(Main, "fireLater") /\ OneLater
  <2>1. \A i \in DOMAIN otherEvents' : otherEvents'[i] = OtherStamp(pid) \/
           (i \in DOMAIN otherEvents /\ otherEvents'[i] = otherEvents[i])
    BY <1>1, <1>4 DEF OneLater
  <2>2. OtherStamp(pid).event = pid
    BY DEF OtherStamp
  <2> QED
    BY <1>4, <2>1, <2>2 DEF OneLater, Told, Fires
<1>5. CASE Step(Main, "fireNow") /\ OneNow
  <2>1. \A i \in DOMAIN exits' : exits'[i] = pid \/ (i \in DOMAIN exits /\ exits'[i] = exits[i])
    BY <1>1, <1>5 DEF OneNow
  <2> QED
    BY <1>5, <2>1 DEF OneNow, Told, Fires
<1>6. CASE OneFired
  <2>1. /\ 1 \in DOMAIN otherCopy /\ Head(otherCopy) = otherCopy[1]
        /\ \A i \in DOMAIN otherCopy' : i + 1 \in DOMAIN otherCopy /\ otherCopy'[i] = otherCopy[i + 1]
    BY <1>1, <1>6 DEF OneFired
  <2>2. \A i \in DOMAIN exits' : \/ exits'[i] = otherCopy[1].event
                                 \/ i \in DOMAIN exits /\ exits'[i] = exits[i]
    BY <1>1, <1>6, <2>1 DEF OneFired
  <2> QED
    BY <1>6, <2>1, <2>2 DEF OneFired, Told
<1> QED
  BY <1>2, <1>3, <1>4, <1>5, <1>6, EventMoves

\* Only a new launch makes the object owe an EXIT.
LEMMA PendsBefore ==
  ASSUME OwnTypes, LifeInv, PlanInv, [ProcNext]_procVars, Pends'
  PROVE  (Pends /\ pid' = pid) \/ ForkAndExec
<1>1. CASE LaunchAsync \/ LaunchSync
  <2>1. PICK t \in {LaunchAsyncPlan, LaunchSyncPlan} : Launch(t)
    BY <1>1 DEF LaunchAsync, LaunchSync
  <2>2. plan' = [plan EXCEPT ![Main] = t] /\ UNCHANGED <<job, pid>> /\ plan \in [{Main, Monitor} -> Seq(PlanStep)]
    BY <2>1 DEF Launch, PlanInv
  <2>3. Left(Monitor)' = Left(Monitor) /\ Left(Main)' = Kinds(t)
    BY <2>2, Different DEF Left
  <2>4. "fork" \in Kinds(t)
    BY LaunchShapes
  <2> QED
    BY <2>2, <2>3, <2>4 DEF Pends
<1>2. CASE ForkFails
  <2>1. plan' = [plan EXCEPT ![Main] = <<>>] /\ UNCHANGED <<job, pid>>
    BY <1>2 DEF ForkFails, objectVars
  <2>2. Left(Monitor)' = Left(Monitor) /\ Left(Main)' = {}
    BY <2>1, Different, EmptyShaped DEF Left, PlanInv
  <2> QED
    BY <2>1, <2>2 DEF Pends
<1>3. CASE StartExitMonitor
  <2>1. plan[Main] \in Seq(PlanStep) /\ plan[Main] # <<>> /\ Head(plan[Main])[1] = "startMonitor"
        /\ Ordered(plan[Main])
    BY <1>3 DEF StartExitMonitor, At, PlanInv, LifeInv, Shapes, Shaped
  <2>2. "startMonitor" \in Left(Main) /\ "fork" \notin Left(Main)
    BY <2>1, AfterFirst DEF Left, Spent, Launching
  <2> QED
    BY <1>3, <2>2 DEF Pends, StartExitMonitor
<1>4. CASE ExitCallback
  BY <1>4 DEF Pends, ExitCallback, objectVars
<1>5. ASSUME NEW a \in {Main, Monitor}, Invoke(a) PROVE Pends /\ pid' = pid
  <2>1. plan[a] \in Seq(PlanStep) /\ plan[a] # <<>> /\ Head(plan[a])[1] = "invoke"
        /\ Ordered(plan[a])
    BY <1>5 DEF Invoke, At, PlanInv, LifeInv, Shapes, Shaped
  <2>2. Kinds(plan[a]) = {"invoke"} \cup Kinds(Tail(plan[a]))
        /\ Kinds(Tail(plan[a])) \cap Spent("invoke") = {}
    BY <2>1, AfterFirst
  <2>3. "invoke" \in Left(a) /\ "fork" \notin Left(a)
    BY <2>2 DEF Left, Spent, Launching
  <2> QED
    BY <1>5, <2>3 DEF Pends, Invoke, objectVars
<1>6. ASSUME NEW a \in {Main, Monitor}, NEW op, op # "fork", Step(a, op), UNCHANGED pid,
             job' = job \/ job' # "sent"
      PROVE  Pends
  <2>1. Left(a) = {op} \cup Left(a)' /\ \A b \in {Main, Monitor} \ {a} : Left(b)' = Left(b)
    BY <1>6, StepLeaves DEF LifeInv
  <2>2. /\ Left(Main)' \subseteq Left(Main) /\ Left(Monitor)' \subseteq Left(Monitor)
        /\ "fork" \in Left(Main) => "fork" \in Left(Main)'
    BY <1>6, <2>1
  <2> QED
    BY <1>6, <2>2 DEF Pends
<1>7. CASE StartMonitors \/ RecreateNativePipes \/ ExitLater \/ ExitNow
  <2>1. PICK op \in {"monitors", "recreate", "fireLater", "fireNow"} : Step(Main, op)
    BY <1>7 DEF StartMonitors, RecreateNativePipes, ExitLater, ExitNow
  <2>2. UNCHANGED <<job, pid>>
    BY <1>7 DEF StartMonitors, RecreateNativePipes, ExitLater, ExitNow, objectVars
  <2> QED
    BY <1>6, <2>1, <2>2
<1>8. CASE PlainDoes /\ ~ForkAndExec
  <2>1. PICK a \in {Main, Monitor}, op \in PlainOps : Step(a, op) /\ op # "fork"
    <3>1. ASSUME NEW a \in {Main, Monitor}, Wait(a) \/ StopIn(a) \/ JoinIn(a) \/ StopOut(a)
          PROVE  \E op \in PlainOps : Step(a, op) /\ op # "fork"
      BY <3>1 DEF Wait, StopIn, JoinIn, StopOut, PlainOps
    <3> QED
      BY <1>8, <3>1 DEF PlainDoes, AttachPipes, SetReadCallbacks, CollectOutput, CloseOut, DetachIn,
         DetachOut, SignalMonitor, MonitorReturns, PlainOps
  <2>2. UNCHANGED pid /\ (job' = job \/ job' # "sent")
    BY <1>8 DEF PlainDoes, AttachPipes, SetReadCallbacks, CollectOutput, CloseOut, DetachIn, DetachOut,
       SignalMonitor, MonitorReturns, Wait, StopIn, JoinIn, StopOut, objectVars
  <2> QED
    BY <1>6, <2>1, <2>2
<1>9. ASSUME UNCHANGED <<plan, pid, job>> PROVE Pends /\ pid' = pid
  BY <1>9 DEF Pends, Left
<1>10. CASE Aside
  BY <1>9, <1>10, AsideMild
<1>11. CASE PipeThreads
  BY <1>9, <1>11, ThreadsMild
<1>12. CASE UNCHANGED procVars
  BY <1>9, <1>12 DEF procVars, ownVars, objectVars
<1>13. CASE StartMonitors \/ RecreateNativePipes \/ ExitLater \/ ExitNow \/ (PlainDoes /\ ~ForkAndExec)
  <2>1. UNCHANGED pid
    BY <1>13 DEF StartMonitors, RecreateNativePipes, ExitLater, ExitNow, objectVars,
       PlainDoes, AttachPipes, SetReadCallbacks, CollectOutput, CloseOut, DetachIn, DetachOut,
       SignalMonitor, MonitorReturns, Wait, StopIn, JoinIn, StopOut
  <2> QED
    BY <1>7, <1>8, <1>13, <2>1
<1> QED
  BY <1>1, <1>2, <1>3, <1>4, <1>5, <1>9, <1>10, <1>11, <1>12, <1>13, StepKinds
     DEF ForkFails, StartExitMonitor, objectVars

LEMMA SentMoves ==
  ASSUME OwnTypes, LifeInv, PlanInv, [ProcNext]_procVars, job' = "sent"
  PROVE  job = "sent" \/ "invoke" \in Left(Monitor)
<1>1. CASE \E a \in {Main, Monitor} : Invoke(a)
  <2>1. PICK a \in {Main, Monitor} : Invoke(a)
    BY <1>1
  <2>2. CASE a = Monitor
    <3>1. plan[a] \in Seq(PlanStep) /\ plan[a] # <<>> /\ Head(plan[a])[1] = "invoke"
      BY <2>1 DEF Invoke, At, PlanInv
    <3> QED
      BY <2>2, <3>1, AfterFirst DEF Left
  <2>3. CASE a # Monitor
    BY <2>1, <2>3 DEF Invoke
  <2> QED
    BY <2>2, <2>3
<1>2. CASE \/ LaunchAsync \/ LaunchSync \/ ForkFails \/ StartExitMonitor \/ ExitCallback
           \/ StartMonitors \/ RecreateNativePipes \/ ExitLater \/ ExitNow \/ PlainDoes
  BY <1>2 DEF LaunchAsync, LaunchSync, Launch, ForkFails, StartExitMonitor, ExitCallback,
     StartMonitors, RecreateNativePipes, ExitLater, ExitNow, PlainDoes, AttachPipes, ForkAndExec,
     SetReadCallbacks, CollectOutput, CloseOut, DetachIn, DetachOut,
     SignalMonitor, MonitorReturns, Wait, StopIn, JoinIn, StopOut
<1>3. CASE Aside \/ PipeThreads \/ UNCHANGED procVars
  BY <1>3, AsideMild, ThreadsMild DEF procVars, ownVars
<1> QED
  BY <1>1, <1>2, <1>3, StepKinds

\* The EXIT that the object owes has not been fired yet.
LEMMA PendsStep ==
  ASSUME OwnTypes, LifeInv, PlanInv, SaidTypes, OnceInv, [ProcNext]_procVars
  PROVE  /\ \A n \in 1 .. Launches : Told(n)' => Over(n)'
         /\ Pends' => ~Told(pid)'
<1>1. ASSUME NEW n \in 1 .. Launches, Told(n)' PROVE Over(n)'
  <2>1. CASE Told(n)
    BY <2>1, OverLasts DEF OnceInv
  <2>2. CASE n = pid /\ \E op \in Fires : Step(Main, op)
    <3>1. Over(n)
      BY <2>2, FiresEnded
    <3> QED
      BY <3>1, OverLasts
  <2> QED
    BY <1>1, <2>1, <2>2, ToldMoves
<1>2. ASSUME Pends', Told(pid)' PROVE FALSE
  <2>0. PICK m : m = pid'
    OBVIOUS
  <2>3. Told(m) \/ (m = pid /\ \E op \in Fires : Step(Main, op))
    <3>1. Told(m)'
      BY <1>2, <2>0 DEF Told
    <3> QED
      BY <3>1, ToldMoves
  <2>1. CASE Pends /\ pid' = pid
    <3>1. ~Told(m)
      BY <2>1, <2>0 DEF OnceInv
    <3>2. PICK op \in Fires : Step(Main, op)
      BY <2>3, <3>1
    <3>3. /\ "invoke" \notin Left(Monitor) /\ job # "sent"
          /\ Left(Main)' \cap (Launching \cup Watching \cup {"fireLater"}) = {}
          /\ Left(Monitor)' = Left(Monitor)
      BY <3>2, FiresEnded
    <3>4. job' # "sent"
      BY <3>3, SentMoves
    <3> QED
      BY <1>2, <3>3, <3>4 DEF Pends, Launching, Watching
  <2>2. CASE ForkAndExec
    <3>1. m = pid + 1 /\ pid \in Nat
      BY <2>2, <2>0, CountIsPid, ChildAssumption DEF ForkAndExec, LifeInv, LifeTypes
    <3>2. ASSUME Told(m) PROVE FALSE
      <4>1. m \in 1 .. Launches
        BY <3>2, ToldTyped
      <4>2. home[m] # 0
        BY <3>2, <4>1 DEF OnceInv, Over
      <4>3. m <= pid
        BY <4>1, <4>2 DEF LifeInv, Homes
      <4> QED
        BY <3>1, <4>3
    <3>3. m # pid
      BY <3>1
    <3> QED
      BY <2>3, <3>2, <3>3
  <2> QED
    BY <1>2, <2>1, <2>2, PendsBefore
<1> QED
  BY <1>1, <1>2

LEMMA OnceInit == ProcInit => OnceInv
<1> SUFFICES ASSUME ProcInit PROVE OnceInv
  OBVIOUS
<1>1. exits = <<>> /\ otherEvents = <<>> /\ otherCopy = <<>>
  BY DEF ProcInit, Unused
<1>2. DOMAIN exits = {} /\ DOMAIN otherEvents = {} /\ DOMAIN otherCopy = {}
  BY <1>1
<1> QED
  BY <1>2 DEF OnceInv, Told

LEMMA OnceStep ==
  ASSUME OwnTypes, LifeInv, PlanInv, SaidTypes, OnceInv, [ProcNext]_procVars
  PROVE  OnceInv'
<1>0. /\ exits \in Seq(1 .. Launches)
      /\ otherEvents \in Seq(OtherEntry) /\ otherCopy \in Seq(OtherEntry)
      /\ \A m, n : Same(m, n)' => Same(m, n)
  BY SaidStep DEF OwnTypes, PipeTypeOK, SaidTypes, Same
<1>1. /\ \A n \in 1 .. Launches : Told(n)' => Over(n)'
      /\ Pends' => ~Told(pid)'
  BY PendsStep
<1> DEFINE Unique ==
      /\ \A i, j \in DOMAIN exits : Same(exits[i], exits[j]) => i = j
      /\ \A i, j \in DOMAIN otherEvents : Same(otherEvents[i].event, otherEvents[j].event) => i = j
      /\ \A i, j \in DOMAIN otherCopy : Same(otherCopy[i].event, otherCopy[j].event) => i = j
      /\ \A i \in DOMAIN exits, j \in DOMAIN otherEvents : ~Same(exits[i], otherEvents[j].event)
      /\ \A i \in DOMAIN exits, j \in DOMAIN otherCopy : ~Same(exits[i], otherCopy[j].event)
      /\ \A i \in DOMAIN otherEvents, j \in DOMAIN otherCopy :
           ~Same(otherEvents[i].event, otherCopy[j].event)
<1>2. Unique
  BY DEF OnceInv
<1>3. CASE NoneFired
  <2>1. Unique'
    BY <1>0, <1>2, <1>3 DEF NoneFired
  <2> QED
    BY <1>1, <2>1 DEF OnceInv
<1>4. CASE OthersTaken
  <2>1. Unique'
    BY <1>0, <1>2, <1>4 DEF OthersTaken
  <2> QED
    BY <1>1, <2>1 DEF OnceInv
<1>5. CASE Step(Main, "fireLater") /\ OneLater
  <2>1. ~Told(pid)
    <3>1. "fireLater" \in Left(Main) /\ "fork" \notin Left(Main)
      BY <1>5, FiresEnded DEF Fires
    <3>2. Pends
      BY <3>1 DEF Pends
    <3> QED
      BY <3>2 DEF OnceInv
  <2>2. \A i \in DOMAIN otherEvents' :
          \/ i \in DOMAIN otherEvents /\ otherEvents'[i] = otherEvents[i]
          \/ i = Len(otherEvents) + 1 /\ otherEvents'[i].event = pid
    <3>1. OtherStamp(pid).event = pid
      BY DEF OtherStamp
    <3> QED
      BY <1>0, <1>5, <3>1 DEF OneLater
  <2>3. UNCHANGED <<exits, otherCopy>>
    BY <1>5 DEF OneLater
  <2>4. Unique'
    <3>1. /\ \A i \in DOMAIN exits : exits[i] # pid
          /\ \A i \in DOMAIN otherEvents : otherEvents[i].event # pid
          /\ \A i \in DOMAIN otherCopy : otherCopy[i].event # pid
      BY <2>1 DEF Told
    <3>2. \A i, j \in DOMAIN otherEvents' : Same(otherEvents[i].event, otherEvents[j].event)' => i = j
      BY <1>0, <1>2, <2>2, <3>1 DEF Same
    <3>3. /\ \A i, j \in DOMAIN exits' : Same(exits[i], exits[j])' => i = j
          /\ \A i, j \in DOMAIN otherCopy' : Same(otherCopy[i].event, otherCopy[j].event)' => i = j
          /\ \A i \in DOMAIN exits', j \in DOMAIN otherCopy' : ~Same(exits[i], otherCopy[j].event)'
      BY <1>0, <1>2, <2>3 DEF Same
    <3>4. /\ \A i \in DOMAIN exits', j \in DOMAIN otherEvents' : ~Same(exits[i], otherEvents[j].event)'
          /\ \A i \in DOMAIN otherEvents', j \in DOMAIN otherCopy' :
               ~Same(otherEvents[i].event, otherCopy[j].event)'
      BY <1>0, <1>2, <2>2, <2>3, <3>1 DEF Same
    <3> QED
      BY <3>2, <3>3, <3>4
  <2> QED
    BY <1>1, <2>4 DEF OnceInv
<1>6. CASE Step(Main, "fireNow") /\ OneNow
  <2>0. PICK m : m = pid
    OBVIOUS
  <2>1. Synchronous(m)'
    <3>1. Synchronous(m)
      BY <1>6, <2>0, FiresEnded DEF Fires
    <3> QED
      BY <3>1, SaidStep
  <2>2. \A i \in DOMAIN exits' :
          \/ i \in DOMAIN exits /\ exits'[i] = exits[i]
          \/ exits'[i] = m
    BY <1>0, <1>6, <2>0 DEF OneNow
  <2>3. UNCHANGED <<otherEvents, otherCopy>>
    BY <1>6 DEF OneNow
  <2>4. \A n : ~Same(m, n)' /\ ~Same(n, m)'
    BY <2>1 DEF Same
  <2>5. Unique'
    BY <1>0, <1>2, <2>2, <2>3, <2>4
  <2> QED
    BY <1>1, <2>5 DEF OnceInv
<1>7. CASE OneFired
  <2>1. /\ 1 \in DOMAIN otherCopy
        /\ \A i \in DOMAIN otherCopy' : i + 1 \in DOMAIN otherCopy /\ i + 1 # 1
                                        /\ otherCopy'[i] = otherCopy[i + 1]
        /\ \A i, j \in DOMAIN otherCopy' : i + 1 = j + 1 => i = j
    BY <1>0, <1>7 DEF OneFired
  <2>2. \A i \in DOMAIN exits' :
          \/ i \in DOMAIN exits /\ exits'[i] = exits[i]
          \/ i = Len(exits) + 1 /\ exits'[i] = otherCopy[1].event
    BY <1>0, <1>7 DEF OneFired
  <2>3. UNCHANGED otherEvents
    BY <1>7 DEF OneFired
  <2>4. \A m, n : Same(m, n) => Same(n, m)
    BY DEF Same
  <2>5. Unique'
    <3>1. \A i, j \in DOMAIN exits' : Same(exits'[i], exits'[j]) => i = j
      BY <1>2, <2>1, <2>2, <2>4
    <3>2. \A i, j \in DOMAIN otherCopy' : Same(otherCopy'[i].event, otherCopy'[j].event) => i = j
      BY <1>2, <2>1
    <3>3. \A i \in DOMAIN exits', j \in DOMAIN otherEvents' : ~Same(exits'[i], otherEvents'[j].event)
      BY <1>2, <2>1, <2>2, <2>3, <2>4
    <3>4. \A i \in DOMAIN exits', j \in DOMAIN otherCopy' : ~Same(exits'[i], otherCopy'[j].event)
      BY <1>2, <2>1, <2>2
    <3>5. \A i \in DOMAIN otherEvents', j \in DOMAIN otherCopy' :
           ~Same(otherEvents'[i].event, otherCopy'[j].event)
      BY <1>2, <2>1, <2>3
    <3> QED
      BY <1>0, <1>2, <2>3, <3>1, <3>2, <3>3, <3>4, <3>5
  <2> QED
    BY <1>1, <2>5 DEF OnceInv
<1> QED
  BY <1>3, <1>4, <1>5, <1>6, <1>7, EventMoves

-----------------------------------------------------------------------------
(* What holds in every state, and the first theorem.                       *)

ExitBase == PlanInv /\ OwnTypes /\ PipeInv /\ LifeInv /\ SaidTypes /\ OnceInv

LEMMA BaseInit == ProcInit => ExitBase
<1>1. ProcInit => PipeInv
  BY InitInv DEF ProcInit
<1> QED
  BY <1>1, PlanInvInit, OwnInit, LifeInit, SaidInit, OnceInit DEF ExitBase

LEMMA BaseStep == ExitBase /\ [ProcNext]_procVars => ExitBase'
BY PlanInvStep, OwnStep, PipesStep, LifeStep, SaidStep, OnceStep DEF ExitBase

\* launch() is answered by one EXIT: however the exit monitor, the event loop and
\* later launches interleave, no launch that was not a call of the object has its
\* EXIT fired twice.
THEOREM AnsweredOnce == ProcSpec => []ExitOnce
<1>1. OnceInv => ExitOnce
  BY DEF OnceInv, ExitOnce, Same
<1>2. ExitBase => OnceInv
  BY DEF ExitBase
<1> QED
  BY <1>1, <1>2, BaseInit, BaseStep, PTL DEF ProcSpec

-----------------------------------------------------------------------------
(* What a child wrote is on its way or has been given to its pipe.         *)

\* A reader's thread that has not started, or has ended, has nothing to pass on.
Readers ==
  \A p \in Outs :
    /\ Len(fetched[p]) <= 1
    /\ polling[p] # "on" => fetched[p] = <<>> /\ todo[p] = <<>>
    /\ polling[p] = "off" => written[p] = <<>>
    /\ polling[p] = "ended" => channel[p] = <<>> /\ ~childHolds[p]
    /\ polling[p] # "off" => \E n \in 1 .. Launches : home[n] = p[2]

\* No blob is lost between a child and the pipe that reads from it.
Kept ==
  \A n \in 1 .. Launches, s \in StreamSet :
    /\ home[n] # 0 =>
         LET p == Out(s, home[n]) IN
         Produced(n, s) \subseteq Range(channel[p]) \cup Range(fetched[p]) \cup Range(written[p])
    /\ home[n] = 0 => produced[n][s] = 0
    /\ child[n] = "alive" => home[n] # 0 /\ childHolds[Out(s, home[n])]

FlowInv == Readers /\ Kept

\* How a step changes them.
SamePipes ==
  \A p \in Outs : /\ written'[p] = written[p]
                  /\ todo[p] = <<>> => todo'[p] = <<>>
SameFlow ==
  /\ UNCHANGED <<channel, fetched, home, produced>>
  /\ \A p \in Outs : polling'[p] = polling[p] /\ childHolds'[p] = childHolds[p]
  /\ \A n \in 1 .. Launches : child'[n] = "alive" => child[n] = "alive"
SameLaunches == UNCHANGED <<home, produced, child>>

LEMMA QueueWrites ==
  ASSUME OwnTypes, NEW q \in Pipes, NEW what, QueueFor(q, what), q \notin Outs \/ what = CloseCall
  PROVE  \A p \in Outs : written'[p] = written[p]
<1>1. written \in [Pipes -> Seq(Blobs)] /\ Outs \subseteq Pipes
  BY NativeAssumption DEF OwnTypes, PipeTypeOK
<1>2. CASE what = CloseCall
  BY <1>2 DEF QueueFor, QueueClose
<1>3. CASE what # CloseCall
  <2>1. written' = [written EXCEPT ![q] = Append(@, what)] /\ q \notin Outs
    BY <1>3 DEF QueueFor, QueueRead
  <2> QED
    BY <1>1, <2>1
<1> QED
  BY <1>2, <1>3

LEMMA CallWrites ==
  ASSUME OwnTypes, NEW t \in Threads, WriteIn(t) \/ CallStep(t)
  PROVE  SamePipes
<1>1. \A p \in Outs : written'[p] = written[p]
  <2>1. CASE EnterAttached(t)
    <3>1. todo[t] \in Seq(SafeTask) /\ todo[t] # <<>> /\ Head(todo[t]).do = "call"
      BY <2>1 DEF OwnTypes, EnterAttached, Idle
    <3>2. Head(todo[t]) \in SafeTask
      BY <3>1, SequenceFacts
    <3>3. Head(todo[t]).pipe \in Pipes \ Outs
      BY <3>1, <3>2, TaskPipe DEF SafeTask
    <3>4. QueueFor(Head(todo[t]).pipe, carried[t])
      BY <2>1 DEF EnterAttached
    <3> QED
      BY <3>3, <3>4, QueueWrites
  <2>2. CASE UNCHANGED written
    BY <2>2
  <2> QED
    BY <2>1, <2>2 DEF CallStep, WriteIn, Forward, Unlock, Erase, askedVars
<1>2. todo[t] # <<>>
  BY DEF CallStep, WriteIn, EnterAttached, Forward, Unlock, Erase, Idle
<1>3. PICK s \in Seq(SafeTask) : todo' = [todo EXCEPT ![t] = s]
  BY TodoKinds
<1>4. todo \in [Threads -> Seq(SafeTask)] /\ Outs \subseteq Threads
  BY NativeAssumption DEF OwnTypes
<1> QED
  BY <1>1, <1>2, <1>3, <1>4 DEF SamePipes

LEMMA CallsWrite ==
  ASSUME OwnTypes, LifeInv, PlanInv, Calls
  PROVE  SamePipes
<1>0. todo \in [Threads -> Seq(SafeTask)] /\ Outs \subseteq Threads /\ Main \in Threads /\ Main \notin Outs
      /\ Outs \subseteq Pipes
  BY NativeNames DEF OwnTypes
<1>1. ASSUME NEW p \in Pipes, NEW q \in Pipes, Attach(p, q) PROVE SamePipes
  BY <1>1 DEF Attach, SamePipes, askedVars
<1>2. ASSUME NEW p \in Pipes, NEW what, Enter(Main, p, what), p \notin Outs \/ what = CloseCall
      PROVE  SamePipes
  <2>1. \A q \in Outs : written'[q] = written[q]
    BY <1>2, QueueWrites DEF Enter
  <2>2. \A q \in Outs : todo'[q] = todo[q]
    BY <1>0, <1>2 DEF Enter
  <2> QED
    BY <2>1, <2>2 DEF SamePipes
<1>3. ASSUME NEW p \in Pipes, NEW q \in Pipes, Detach(Main, p, q) PROVE SamePipes
  BY <1>0, <1>3 DEF Detach, SamePipes, askedVars
<1>4. CASE FireEventAsynchronously(pid)
  BY <1>4 DEF FireEventAsynchronously, SamePipes, callVars, askedVars
<1> QED
  BY <1>0, <1>1, <1>2, <1>3, <1>4, CallKinds

LEMMA FlowMoves ==
  ASSUME OwnTypes, LifeInv, PlanInv, [ProcNext]_procVars
  PROVE  \/ SamePipes /\ SameFlow
         \/ SamePipes /\ ForkAndExec
         \/ SamePipes /\ StartMonitors
         \/ SamePipes /\ \E n \in 1 .. Launches : ChildEnds(n) \/ \E s \in StreamSet : ChildWrites(n, s)
         \/ \E p \in Outs : (PassOn(p) \/ (SamePipes /\ (ReadBlob(p) \/ ReadEnd(p)))) /\ SameLaunches
<1>1. CASE Quiet \/ UNCHANGED procVars
  BY <1>1 DEF Quiet, procVars, nativeVars, outVars, ownVars, childVars, pipeVars, callVars, askedVars,
              SamePipes, SameFlow
<1>2. CASE Calls /\ SameNatives /\ SameObject
  BY <1>2, CallsWrite DEF SameNatives, SameObject, SameFlow, childVars
<1>3. CASE Loops /\ SameNatives /\ SameObject
  <2>1. UNCHANGED <<written, todo>>
    BY <1>3 DEF Loops, Collect, CollectOthers, CollectCloses, LockReads, CollectRead, UnlockReads,
       FireRead, ReadsFired, FireClose, ClosesFired, OthersFired, callVars, askedVars
  <2> QED
    BY <1>3, <2>1 DEF SameNatives, SameObject, SameFlow, SamePipes, childVars
<1>4. CASE (\E t \in Threads : WriteIn(t) \/ CallStep(t)) /\ SameNatives /\ SameObject
  BY <1>4, CallWrites DEF SameNatives, SameObject, SameFlow, childVars
<1>5. CASE ForkAndExec \/ StartMonitors \/ (\E n \in 1 .. Launches : ChildEnds(n) \/ \E s \in StreamSet : ChildWrites(n, s))
  <2>1. SamePipes
    BY <1>5 DEF ForkAndExec, StartMonitors, ChildEnds, ChildWrites, NobodyCalls, pipeVars, callVars,
       askedVars, SamePipes
  <2> QED
    BY <1>5, <2>1
<1>6. CASE ExitNow \/ FireExit \/ (\E p \in UserPipes, s \in StreamSet : SetStdout(s, p))
  <2>1. UNCHANGED <<written, todo>>
    BY <1>6 DEF ExitNow, FireExit, SetStdout, FireOther, NobodyCalls, pipeVars, callVars, askedVars
  <2>2. UNCHANGED <<channel, fetched, polling, childHolds, home, produced, child>>
    BY <1>6 DEF ExitNow, FireExit, SetStdout, NativesSame, nativeVars, outVars, childVars
  <2> QED
    BY <2>1, <2>2 DEF SameFlow, SamePipes
<1>7. ASSUME NEW a \in {Main, Monitor}, Wait(a) PROVE SamePipes /\ SameFlow
  <2>1. UNCHANGED <<written, todo>>
    BY <1>7 DEF Wait, NobodyCalls, pipeVars, callVars, askedVars
  <2>2. UNCHANGED <<channel, fetched, polling, childHolds, home, produced>>
    BY <1>7 DEF Wait, NativesSame, nativeVars, outVars
  <2>3. child' = [child EXCEPT ![pid] = "reaped"]
    BY <1>7 DEF Wait
  <2>4. \A n \in 1 .. Launches : child'[n] = "alive" => child[n] = "alive"
    BY <2>3 DEF LifeInv, LifeTypes
  <2> QED
    BY <2>1, <2>2, <2>4 DEF SameFlow, SamePipes
<1>8. ASSUME NEW p \in Outs \cup Ins, Polling(p)
      PROVE  \/ SamePipes /\ SameFlow
             \/ p \in Outs /\ (PassOn(p) \/ (SamePipes /\ (ReadBlob(p) \/ ReadEnd(p)))) /\ SameLaunches
  <2>1. SameLaunches
    BY <1>8 DEF Polling, SameLaunches, ownVars, childVars
  <2>2. CASE p \in Outs /\ PollForReads(p)
    BY <2>1, <2>2 DEF PollForReads, ReadBlob, ReadEnd, SamePipes, pipeVars, callVars, askedVars
  <2>3. CASE p \in Ins /\ PollForWrites(p)
    <3>1. UNCHANGED <<written, todo>>
      BY <2>3 DEF PollForWrites, WriteBlob, WriteFails, WriteEnd, pipeVars, callVars, askedVars
    <3>2. UNCHANGED <<channel, fetched, childHolds>> /\ (polling' = polling \/ polling' = [polling EXCEPT ![p] = "ended"])
      BY <2>3 DEF PollForWrites, WriteBlob, WriteFails, WriteEnd, outVars
    <3>3. \A q \in Outs : polling'[q] = polling[q]
      BY <2>3, <3>2, NativeAssumption DEF LifeInv, LifeTypes
    <3> QED
      BY <2>1, <3>1, <3>2, <3>3 DEF SameFlow, SamePipes, SameLaunches
  <2> QED
    BY <1>8, <2>2, <2>3 DEF Polling
<1>9. CASE MoreThanCalls
  BY <1>5, <1>6, <1>7, <1>8, <1>9 DEF MoreThanCalls
<1> QED
  BY <1>1, <1>2, <1>3, <1>4, <1>9, Footprints

LEMMA RangeFacts ==
  ASSUME NEW S
  PROVE  /\ Range(<<>>) = {}
         /\ \A s \in Seq(S), e \in S : Range(Append(s, e)) = Range(s) \cup {e}
         /\ \A s \in Seq(S) : s # <<>> => Range(s) = {Head(s)} \cup Range(Tail(s))
         /\ \A e \in S : Range(<<e>>) = {e}
<1>1. Range(<<>>) = {}
  BY DEF Range
<1>2. ASSUME NEW s \in Seq(S), NEW e \in S PROVE Range(Append(s, e)) = Range(s) \cup {e}
  <2>1. /\ Len(s) \in Nat /\ DOMAIN s = 1 .. Len(s) /\ DOMAIN Append(s, e) = 1 .. Len(s) + 1
        /\ Append(s, e)[Len(s) + 1] = e /\ \A i \in 1 .. Len(s) : Append(s, e)[i] = s[i]
        /\ \A i \in 1 .. Len(s) + 1 : i \in 1 .. Len(s) \/ i = Len(s) + 1
        /\ Len(s) + 1 \in 1 .. Len(s) + 1
    OBVIOUS
  <2> QED
    BY <2>1 DEF Range
<1>3. ASSUME NEW s \in Seq(S), s # <<>> PROVE Range(s) = {Head(s)} \cup Range(Tail(s))
  <2> DEFINE t == Tail(s)
  <2>0. /\ Len(s) \in Nat /\ DOMAIN s = 1 .. Len(s) /\ 1 \in DOMAIN s /\ Head(s) = s[1]
        /\ t \in Seq(S) /\ Len(t) = Len(s) - 1 /\ \A i \in 1 .. Len(t) : t[i] = s[i + 1]
    BY <1>3, TailFacts
  <2>1. /\ DOMAIN s = 1 .. Len(s) /\ DOMAIN t = 1 .. Len(s) - 1 /\ Head(s) = s[1]
        /\ 1 \in 1 .. Len(s) /\ \A i \in 1 .. Len(s) - 1 : t[i] = s[i + 1] /\ i + 1 \in 1 .. Len(s)
        /\ \A i \in 1 .. Len(s) : i = 1 \/ (i - 1 \in 1 .. Len(s) - 1 /\ (i - 1) + 1 = i)
    BY <2>0
  <2>2. \A i \in 1 .. Len(s) : s[i] = s[1] \/ s[i] \in Range(Tail(s))
    <3> TAKE i \in 1 .. Len(s)
    <3>1. CASE i # 1
      <4>1. i - 1 \in DOMAIN t /\ t[i - 1] = s[i]
        BY <2>1, <3>1
      <4> QED
        BY <4>1 DEF Range
    <3> QED
      BY <3>1
  <2>3. Range(Tail(s)) \subseteq Range(s)
    BY <2>1 DEF Range
  <2> QED
    BY <2>1, <2>2, <2>3 DEF Range
<1>4. ASSUME NEW e \in S PROVE Range(<<e>>) = {e}
  BY DEF Range
<1> QED
  BY <1>1, <1>2, <1>3, <1>4

LEMMA FlowInit == ProcInit => FlowInv
<1> SUFFICES ASSUME ProcInit PROVE FlowInv
  OBVIOUS
<1>1. Outs \subseteq Pipes /\ Outs \subseteq Threads
  BY NativeAssumption
<1>2. Readers
  <2>1. Len(<<>>) = 0
    OBVIOUS
  <2>2. \A p \in Outs : /\ fetched[p] = <<>> /\ todo[p] = <<>> /\ written[p] = <<>>
                       /\ polling[p] = "off"
    BY <1>1 DEF ProcInit, NativeInit, Unused
  <2> QED
    BY <2>1, <2>2 DEF Readers
<1>3. Kept
  BY DEF Kept, ProcInit
<1> QED
  BY <1>2, <1>3 DEF FlowInv

LEMMA FlowSame ==
  ASSUME OwnTypes, LifeInv, FlowInv, SamePipes, SameFlow
  PROVE  FlowInv'
<1>1. Readers'
  BY DEF FlowInv, Readers, SamePipes, SameFlow
<1>2. \A n \in 1 .. Launches, s \in StreamSet : home[n] # 0 => Out(s, home[n]) \in Outs
  BY OutIsOut, ChildAssumption DEF LifeInv, LifeTypes
<1>3. \A n, s : Produced(n, s)' = Produced(n, s)
  BY DEF Produced, SameFlow
<1>4. Kept'
  BY <1>2, <1>3 DEF FlowInv, Kept, SamePipes, SameFlow
<1> QED
  BY <1>1, <1>4 DEF FlowInv

LEMMA FlowFork ==
  ASSUME OwnTypes, LifeInv, PlanInv, FlowInv, SamePipes, ForkAndExec
  PROVE  FlowInv'
<1>1. /\ child' = [child EXCEPT ![pid + 1] = "alive"] /\ home' = [home EXCEPT ![pid + 1] = gen]
      /\ childHolds' = [p \in Outs \cup Ins |-> childHolds[p] \/ p \in NativePipesOf(gen)]
      /\ UNCHANGED <<channel, fetched, polling, produced>>
  BY CountIsPid DEF ForkAndExec, LifeInv, outVars
<1>2. "fork" \in Left(Main)
  <2>1. Step(Main, "fork")
    BY DEF ForkAndExec
  <2> QED
    BY <2>1, StepLeaves DEF LifeInv
<1>3. /\ pid + 1 \in 1 .. Launches /\ home[pid + 1] = 0 /\ gen # 0 /\ gen \in 1 .. Generations
      /\ \A s \in StreamSet : polling[Out(s, gen)] = "off"
      /\ \A n \in 1 .. Launches : home[n] # gen
      /\ home \in [1 .. Launches -> 0 .. Generations]
      /\ child \in [1 .. Launches -> {"none", "alive", "ended", "reaped"}]
  <2>1. pid + 1 \in 1 .. Launches /\ pid \in Nat
    BY <1>2, ChildAssumption DEF LifeInv, HasRoom, LifeTypes
  <2>2. home[pid + 1] = 0
    BY <2>1 DEF LifeInv, Homes
  <2>3. gen \in 1 .. Generations /\ gen # 0
    BY ChildAssumption DEF LifeInv, LifeTypes
  <2>4. Untouched(gen)
    BY <1>2 DEF LifeInv, NewPipes, Ready
  <2> QED
    BY <2>1, <2>2, <2>3, <2>4 DEF Untouched, LifeInv, LifeTypes
<1>4. \A n \in 1 .. Launches : home'[n] = IF n = pid + 1 THEN gen ELSE home[n]
  BY <1>1, <1>3
<1>5. Readers'
  <2>1. ASSUME NEW p \in Outs, polling[p] = "ended" PROVE ~childHolds'[p]
    <3>1. p \notin NativePipesOf(gen)
      BY <1>3, <2>1, NativeNames, NativeAssumption DEF NativePipesOf
    <3> QED
      BY <1>1, <2>1, <3>1 DEF FlowInv, Readers
  <2>2. ASSUME NEW p \in Outs, polling[p] # "off" PROVE \E n \in 1 .. Launches : home'[n] = p[2]
    <3>1. PICK n \in 1 .. Launches : home[n] = p[2]
      BY <2>2 DEF FlowInv, Readers
    <3>2. p[2] # 0
      BY OutIsOut, ChildAssumption
    <3>3. n # pid + 1
      BY <1>3, <3>1, <3>2
    <3> QED
      BY <1>4, <3>1, <3>3
  <2> QED
    BY <1>1, <2>1, <2>2 DEF FlowInv, Readers, SamePipes
<1>6. ASSUME NEW n \in 1 .. Launches, NEW s \in StreamSet
      PROVE  /\ home'[n] # 0 =>
                  Produced(n, s)' \subseteq Range(channel'[Out(s, home'[n])])
                     \cup Range(fetched'[Out(s, home'[n])]) \cup Range(written'[Out(s, home'[n])])
             /\ home'[n] = 0 => produced'[n][s] = 0
             /\ child'[n] = "alive" => home'[n] # 0 /\ childHolds'[Out(s, home'[n])]
  <2>1. Produced(n, s)' = Produced(n, s)
    BY <1>1 DEF Produced
  <2>2. CASE n = pid + 1
    <3>1. produced[n][s] = 0
      BY <1>3, <2>2 DEF FlowInv, Kept
    <3>2. Produced(n, s) = {}
      BY <3>1 DEF Produced
    <3>3. Out(s, gen) \in Outs /\ Out(s, gen) \in NativePipesOf(gen)
      BY NativeNames DEF NativePipesOf
    <3>4. home'[n] = gen /\ gen # 0 /\ childHolds'[Out(s, gen)]
      BY <1>1, <1>3, <1>4, <2>2, <3>3
    <3> QED
      BY <2>1, <3>2, <3>4
  <2>3. CASE n # pid + 1
    <3>1. home'[n] = home[n] /\ child'[n] = child[n]
      BY <1>1, <1>3, <2>3
    <3>2. home[n] # 0 => Out(s, home[n]) \in Outs
      <4>1. home[n] \in 0 .. Generations /\ Generations \in Nat
        BY ChildAssumption DEF LifeInv, LifeTypes
      <4> QED
        BY <4>1, OutIsOut
    <3> QED
      <4>1. /\ home[n] # 0 =>
                 Produced(n, s) \subseteq Range(channel[Out(s, home[n])])
                   \cup Range(fetched[Out(s, home[n])]) \cup Range(written[Out(s, home[n])])
            /\ home[n] = 0 => produced[n][s] = 0
            /\ child[n] = "alive" => home[n] # 0 /\ childHolds[Out(s, home[n])]
        BY DEF FlowInv, Kept
      <4> QED
        BY <1>1, <2>1, <3>1, <3>2, <4>1 DEF SamePipes
  <2> QED
    BY <2>2, <2>3
<1>7. Kept'
  BY <1>6 DEF Kept
<1> QED
  BY <1>5, <1>7 DEF FlowInv

LEMMA FlowStart ==
  ASSUME OwnTypes, LifeInv, PlanInv, FlowInv, SamePipes, StartMonitors
  PROVE  FlowInv'
<1>1. /\ UNCHANGED <<channel, fetched, childHolds, home, child, produced>>
      /\ polling' = [p \in Outs \cup Ins |-> IF p \in NativePipesOf(gen) THEN "on" ELSE polling[p]]
      /\ Step(Main, "monitors")
  BY DEF StartMonitors, outVars, childVars
<1>2. "monitors" \in Left(Main) /\ "fork" \notin Left(Main)
  <2>1. plan[Main] \in Seq(PlanStep) /\ plan[Main] # <<>> /\ Head(plan[Main])[1] = "monitors"
        /\ Ordered(plan[Main])
    BY <1>1 DEF Step, At, PlanInv, LifeInv, Shapes, Shaped
  <2>2. Kinds(plan[Main]) = {"monitors"} \cup Kinds(Tail(plan[Main]))
        /\ Kinds(Tail(plan[Main])) \cap Spent("monitors") = {}
    BY <2>1, AfterFirst
  <2> QED
    BY <2>2 DEF Left, Spent
<1>3. pid \in 1 .. Launches /\ home[pid] = gen
  <2>1. pid # 0 /\ home[pid] = gen
    BY <1>2 DEF LifeInv, Forked
  <2> QED
    BY <2>1, ChildAssumption DEF LifeInv, LifeTypes
<1>4. ASSUME NEW p \in Outs, p \in NativePipesOf(gen) PROVE p[2] = gen /\ polling[p] = "off"
  <2>1. PICK s \in StreamSet : p = Out(s, gen)
    BY <1>4, NativeNames, NativeAssumption DEF NativePipesOf
  <2> QED
    BY <1>2, <2>1 DEF Out, LifeInv, Unstarted
<1>5. Readers'
  <2>1. ASSUME NEW p \in Outs, p \in NativePipesOf(gen)
        PROVE  polling'[p] = "on" /\ \E n \in 1 .. Launches : home'[n] = p[2]
    BY <1>1, <1>3, <1>4, <2>1
  <2>2. \A p \in Outs : p \notin NativePipesOf(gen) => polling'[p] = polling[p]
    BY <1>1
  <2> QED
    BY <1>1, <2>1, <2>2 DEF FlowInv, Readers, SamePipes
<1>6. Kept'
  <2>1. \A n \in 1 .. Launches, s \in StreamSet : home[n] # 0 => Out(s, home[n]) \in Outs
    BY OutIsOut, ChildAssumption DEF LifeInv, LifeTypes
  <2>2. \A n, s : Produced(n, s)' = Produced(n, s)
    BY <1>1 DEF Produced
  <2> QED
    BY <1>1, <2>1, <2>2 DEF FlowInv, Kept, SamePipes
<1> QED
  BY <1>5, <1>6 DEF FlowInv

LEMMA FlowWrites ==
  ASSUME OwnTypes, LifeInv, PlanInv, FlowInv, SamePipes,
         NEW n \in 1 .. Launches, NEW s \in StreamSet, ChildWrites(n, s)
  PROVE  FlowInv'
<1> DEFINE q == Out(s, home[n])
           b == ChildBlob(s, n, produced[n][s] + 1)
<1>1. /\ child[n] = "alive" /\ home[n] # 0 /\ childHolds[q]
      /\ produced' = [produced EXCEPT ![n][s] = @ + 1]
      /\ channel' = [channel EXCEPT ![q] = Append(@, b)]
      /\ UNCHANGED <<fetched, childHolds, polling, child, home>>
  BY DEF ChildWrites, FlowInv, Kept
<1>2. \A m \in 1 .. Launches, x \in StreamSet : home[m] # 0 =>
        Out(x, home[m]) \in Outs /\ (Out(x, home[m]) = q => m = n /\ x = s)
  BY <1>1, OutIsOut, ChildAssumption DEF LifeInv, LifeTypes, Homes, Out
<1>3. channel \in [Outs -> Seq(Blobs)] /\ q \in Outs /\ b \in Blobs
      /\ produced \in [1 .. Launches -> [StreamSet -> 0 .. MaxOutput]] /\ MaxOutput \in Nat
  BY <1>1, <1>2, WritesTyped, ProcessAssumption DEF OwnTypes
<1>4. Range(channel'[q]) = Range(channel[q]) \cup {b} /\ \A p \in Outs : p # q => channel'[p] = channel[p]
  <2>1. channel'[q] = Append(channel[q], b) /\ channel[q] \in Seq(Blobs)
    BY <1>1, <1>3
  <2>2. Range(channel'[q]) = Range(channel[q]) \cup {b}
    BY <1>3, <2>1, RangeFacts
  <2> QED
    BY <1>1, <1>3, <2>2
<1>5. Produced(n, s)' = Produced(n, s) \cup {b}
  <2> DEFINE k == produced[n][s]
  <2>1. k \in Nat /\ produced'[n][s] = k + 1
    BY <1>1, <1>3
  <2>2. 1 .. (k + 1) = (1 .. k) \cup {k + 1}
    BY <2>1
  <2> HIDE DEF k
  <2>3. {ChildBlob(s, n, i) : i \in 1 .. (k + 1)} = {ChildBlob(s, n, i) : i \in 1 .. k} \cup {ChildBlob(s, n, k + 1)}
    BY <2>2
  <2> QED
    BY <2>1, <2>3 DEF Produced, k
<1>6. \A m \in 1 .. Launches, x \in StreamSet : m # n \/ x # s => produced'[m][x] = produced[m][x]
  BY <1>1, <1>3
<1> HIDE DEF q, b
<1>7. Readers'
  BY <1>1, <1>4 DEF FlowInv, Readers, SamePipes
<1>8. ASSUME NEW m \in 1 .. Launches, NEW x \in StreamSet
      PROVE  /\ home'[m] # 0 =>
                  Produced(m, x)' \subseteq Range(channel'[Out(x, home'[m])])
                     \cup Range(fetched'[Out(x, home'[m])]) \cup Range(written'[Out(x, home'[m])])
             /\ home'[m] = 0 => produced'[m][x] = 0
             /\ child'[m] = "alive" => home'[m] # 0 /\ childHolds'[Out(x, home'[m])]
  <2>1. CASE m = n /\ x = s
    <3>1. Produced(n, s) \subseteq Range(channel[q]) \cup Range(fetched[q]) \cup Range(written[q])
      BY <1>1 DEF FlowInv, Kept, q
    <3>2. written'[q] = written[q]
      BY <1>3 DEF SamePipes
    <3>3. Produced(n, s)' \subseteq Range(channel'[q]) \cup Range(fetched'[q]) \cup Range(written'[q])
      BY <1>1, <1>4, <1>5, <3>1, <3>2
    <3> QED
      BY <1>1, <2>1, <3>3 DEF q
  <2>2. CASE m # n \/ x # s
    <3>1. Produced(m, x)' = Produced(m, x)
      BY <1>6, <2>2 DEF Produced
    <3>2. home[m] # 0 => Out(x, home[m]) \in Outs /\ Out(x, home[m]) # q
      BY <1>2, <2>2 DEF q
    <3> QED
      BY <1>1, <1>4, <1>6, <2>2, <3>1, <3>2 DEF FlowInv, Kept, SamePipes
  <2> QED
    BY <2>1, <2>2
<1> QED
  BY <1>7, <1>8 DEF FlowInv, Kept

LEMMA FlowEnds ==
  ASSUME OwnTypes, LifeInv, FlowInv, SamePipes, NEW n \in 1 .. Launches, ChildEnds(n)
  PROVE  FlowInv'
<1>1. /\ child[n] = "alive" /\ child' = [child EXCEPT ![n] = "ended"]
      /\ childHolds' = [p \in Outs \cup Ins |-> childHolds[p] /\ p \notin NativePipesOf(home[n])]
      /\ UNCHANGED <<channel, fetched, polling, home, produced>>
  BY DEF ChildEnds, outVars
<1>2. \A m \in 1 .. Launches, x \in StreamSet : home[m] # 0 => Out(x, home[m]) \in Outs
  BY OutIsOut, ChildAssumption DEF LifeInv, LifeTypes
<1>3. Readers'
  BY <1>1 DEF FlowInv, Readers, SamePipes
<1>4. ASSUME NEW m \in 1 .. Launches, NEW x \in StreamSet, child'[m] = "alive"
      PROVE  home[m] # 0 /\ childHolds'[Out(x, home[m])]
  <2>1. m # n /\ child[m] = "alive"
    BY <1>1, <1>4 DEF LifeInv, LifeTypes
  <2>2. home[m] # 0 /\ childHolds[Out(x, home[m])] /\ home[m] # home[n]
    BY <1>2, <2>1 DEF FlowInv, Kept, LifeInv, Homes
  <2>3. home[n] \in 1 .. Generations
    BY <1>1, ChildAssumption DEF LifeInv, LifeTypes, FlowInv, Kept
  <2>4. Out(x, home[m]) \notin NativePipesOf(home[n])
    <3>1. In(home[n]) \notin Outs
      BY <2>3, ProcessAssumption, NativeAssumption DEF In
    <3> QED
      BY <1>2, <2>2, <3>1 DEF NativePipesOf, Out
  <2> QED
    BY <1>1, <1>2, <2>2, <2>4
<1>5. \A m, x : Produced(m, x)' = Produced(m, x)
  BY <1>1 DEF Produced
<1>6. Kept'
  BY <1>1, <1>2, <1>4, <1>5 DEF FlowInv, Kept, SamePipes
<1> QED
  BY <1>3, <1>6 DEF FlowInv

\* A reader's thread takes a blob, passes it on, or ends.
LEMMA FlowReads ==
  ASSUME OwnTypes, LifeInv, FlowInv, SameLaunches, NEW p \in Outs,
         PassOn(p) \/ (SamePipes /\ (ReadBlob(p) \/ ReadEnd(p)))
  PROVE  FlowInv'
<1>1. /\ channel \in [Outs -> Seq(Blobs)] /\ fetched \in [Outs -> Seq(Blobs)]
      /\ written \in [Pipes -> Seq(Blobs)] /\ todo \in [Threads -> Seq(SafeTask)]
      /\ polling \in [Outs \cup Ins -> {"off", "on", "ended"}]
      /\ Outs \subseteq Pipes \cap Threads
  BY NativeAssumption DEF OwnTypes, PipeTypeOK, LifeInv, LifeTypes
<1>2. polling[p] = "on"
  BY DEF PassOn, ReadBlob, ReadEnd, Reading, FlowInv, Readers
<1>3. /\ polling' = polling \/ (ReadEnd(p) /\ polling' = [polling EXCEPT ![p] = "ended"])
      /\ UNCHANGED childHolds
  BY DEF PassOn, ReadBlob, ReadEnd
<1>4. \A r \in Outs \ {p} : /\ channel'[r] = channel[r] /\ fetched'[r] = fetched[r]
                            /\ written'[r] = written[r]
                            /\ todo[r] = <<>> => todo'[r] = <<>>
                            /\ polling'[r] = polling[r]
  <2>1. CASE PassOn(p)
    <3>1. Head(fetched[p]) \in Blobs
      BY <1>1, <2>1 DEF PassOn
    <3>2. QueueRead(p, Head(fetched[p]))
      BY <2>1, <3>1, QueuesRead DEF PassOn, Enter
    <3> QED
      BY <1>1, <2>1, <3>2 DEF PassOn, Enter, QueueRead
  <2>2. CASE SamePipes /\ (ReadBlob(p) \/ ReadEnd(p))
    BY <1>1, <2>2 DEF ReadBlob, ReadEnd, SamePipes, outVars
  <2> QED
    BY <2>1, <2>2
<1>5. /\ Len(fetched'[p]) <= 1
      /\ Range(channel'[p]) \cup Range(fetched'[p]) \cup Range(written'[p])
           = Range(channel[p]) \cup Range(fetched[p]) \cup Range(written[p])
      /\ polling'[p] # "on" => fetched'[p] = <<>> /\ todo'[p] = <<>>
      /\ polling'[p] # "off"
      /\ polling'[p] = "ended" => channel'[p] = <<>> /\ ~childHolds'[p]
  <2>0. channel[p] \in Seq(Blobs) /\ fetched[p] \in Seq(Blobs) /\ written[p] \in Seq(Blobs)
        /\ Len(fetched[p]) <= 1
    BY <1>1 DEF FlowInv, Readers
  <2>1. CASE PassOn(p)
    <3> DEFINE b == Head(fetched[p])
    <3>1. b \in Blobs /\ fetched[p] # <<>> /\ fetched'[p] = <<>> /\ channel'[p] = channel[p]
          /\ polling' = polling
      BY <1>1, <2>1 DEF PassOn
    <3>2. QueueRead(p, b)
      BY <2>1, <3>1, QueuesRead DEF PassOn, Enter
    <3>3. written'[p] = Append(written[p], b)
      BY <1>1, <3>2 DEF QueueRead
    <3>4. Tail(fetched[p]) = <<>>
      BY <2>0, <3>1
    <3>5. Range(fetched[p]) = {b}
      <4>1. Range(fetched[p]) = {Head(fetched[p])} \cup Range(Tail(fetched[p])) /\ Range(<<>>) = {}
        BY <2>0, <3>1, RangeFacts
      <4> QED
        BY <3>4, <4>1
    <3>7. Range(written'[p]) = Range(written[p]) \cup {b}
      BY <2>0, <3>1, <3>3, RangeFacts
    <3>6. Len(<<>>) = 0
      OBVIOUS
    <3> QED
      BY <1>2, <3>1, <3>4, <3>5, <3>6, <3>7, RangeFacts
  <2>2. CASE SamePipes /\ ReadBlob(p)
    <3> DEFINE b == Head(channel[p])
    <3>1. /\ channel[p] # <<>> /\ fetched[p] = <<>> /\ polling' = polling
          /\ fetched'[p] = <<b>> /\ channel'[p] = Tail(channel[p]) /\ written'[p] = written[p]
      BY <1>1, <2>2 DEF ReadBlob, Reading, SamePipes
    <3>2. b \in Blobs
      BY <2>0, <3>1
    <3>3. Range(channel[p]) = {b} \cup Range(channel'[p]) /\ Range(fetched'[p]) = {b} /\ Range(<<>>) = {}
      BY <2>0, <3>1, <3>2, RangeFacts
    <3>4. Len(fetched'[p]) = 1
      BY <3>1
    <3> QED
      BY <1>2, <3>1, <3>3, <3>4
  <2>3. CASE SamePipes /\ ReadEnd(p)
    <3>1. UNCHANGED <<channel, fetched>> /\ channel[p] = <<>> /\ fetched[p] = <<>> /\ ~childHolds[p]
          /\ todo[p] = <<>> /\ polling'[p] = "ended"
      BY <1>1, <2>3 DEF ReadEnd, Reading, Idle, outVars
    <3> QED
      BY <1>3, <2>0, <2>3, <3>1 DEF SamePipes
  <2> QED
    BY <2>1, <2>2, <2>3
<1>6. \E n \in 1 .. Launches : home[n] = p[2]
  BY <1>2 DEF FlowInv, Readers
<1>7. Readers'
  <2>1. ASSUME NEW r \in Outs, r # p
        PROVE  /\ Len(fetched'[r]) <= 1
               /\ polling'[r] # "on" => fetched'[r] = <<>> /\ todo'[r] = <<>>
               /\ polling'[r] = "off" => written'[r] = <<>>
               /\ polling'[r] = "ended" => channel'[r] = <<>> /\ ~childHolds'[r]
               /\ polling'[r] # "off" => \E n \in 1 .. Launches : home'[n] = r[2]
    BY <1>3, <1>4, <2>1 DEF FlowInv, Readers, SameLaunches
  <2> QED
    BY <1>5, <1>6, <2>1 DEF Readers, SameLaunches
<1>8. Kept'
  <2>1. \A n, s : Produced(n, s)' = Produced(n, s)
    BY DEF Produced, SameLaunches
  <2>2. \A n \in 1 .. Launches, s \in StreamSet : home[n] # 0 => Out(s, home[n]) \in Outs
    BY OutIsOut, ChildAssumption DEF LifeInv, LifeTypes
  <2>3. \A r \in Outs : Range(channel'[r]) \cup Range(fetched'[r]) \cup Range(written'[r])
                        = Range(channel[r]) \cup Range(fetched[r]) \cup Range(written[r])
    BY <1>4, <1>5
  <2> QED
    BY <1>3, <2>1, <2>2, <2>3 DEF FlowInv, Kept, SameLaunches
<1> QED
  BY <1>7, <1>8 DEF FlowInv

LEMMA FlowStep ==
  ASSUME OwnTypes, LifeInv, PlanInv, FlowInv, [ProcNext]_procVars
  PROVE  FlowInv'
BY FlowMoves, FlowSame, FlowFork, FlowStart, FlowWrites, FlowEnds, FlowReads

\* What the child of a launch that is over wrote has all been given to its pipe.
LEMMA OverIsWritten ==
  ASSUME LifeInv, FlowInv, NEW n \in 1 .. Launches, Over(n), NEW s \in StreamSet
  PROVE  Out(s, home[n]) \in Outs /\ Produced(n, s) \subseteq Range(written[Out(s, home[n])])
<1>1. home[n] \in 1 .. Generations
  BY ChildAssumption DEF LifeInv, LifeTypes, Over
<1>2. Out(s, home[n]) \in Outs /\ polling[Out(s, home[n])] = "ended"
  BY <1>1, OutIsOut DEF Over
<1>3. channel[Out(s, home[n])] = <<>> /\ fetched[Out(s, home[n])] = <<>>
  BY <1>2 DEF FlowInv, Readers
<1>4. Range(<<>>) = {}
  BY RangeFacts
<1> QED
  BY <1>2, <1>3, <1>4 DEF FlowInv, Kept, Over

-----------------------------------------------------------------------------
(* What is given to a native pipe is passed on to the script's pipe.       *)

\* The script's pipe that the native pipe p is attached to.
Sink(p) == ends[p[1]]

\* The thread of the native pipe p is still going to write to the script's pipe.
Leads(x, p) == (x.do = "forward" /\ x.pipe = p) \/ (x.do = "call" /\ x.pipe = Sink(p))

Forwarded ==
  \A p \in Outs : \A b \in Range(written[p]) :
    \/ b \in Range(written[Sink(p)])
    \/ b = carried[p] /\ \E x \in Range(todo[p]) : Leads(x, p)

Linked == \A p \in Outs : polling[p] = "on" => Sink(p) \in Range(attached[p])

Linking ==
  "monitors" \in Left(Main) =>
    /\ Idle(Main)
    /\ \A s \in StreamSet :
         s \in For(plan[Main], "attach") \/ ends[s] \in Range(attached[Out(s, gen)])

Erasing ==
  \A t \in Threads : \A x \in Range(todo[t]) :
    x.do = "erase" => t = Main /\ (x.pipe \in Outs => polling[x.pipe] # "on")

LinkInv == Forwarded /\ Linked /\ Linking /\ Erasing

\* Histories grow at their ends.
Extends(s, t) == Len(s) <= Len(t) /\ \A i \in 1 .. Len(s) : t[i] = s[i]

LEMMA WrittenGrows ==
  ASSUME OwnTypes, LifeInv, PlanInv, [ProcNext]_procVars, NEW q \in Pipes
  PROVE  Extends(written[q], written'[q]) /\ Range(written[q]) \subseteq Range(written'[q])
<1>1. PipeTypeOK /\ PipeTypeOK'
  BY PipesStep DEF OwnTypes
<1>2. written[q] \in Seq(Blobs) /\ written'[q] \in Seq(Blobs)
  BY <1>1 DEF PipeTypeOK
<1>3. UNCHANGED written \/ \E p \in Pipes, b \in Blobs : written' = [written EXCEPT ![p] = Append(@, b)]
  <2>1. ASSUME NEW t \in Threads, WriteIn(t) PROVE UNCHANGED written
    BY <2>1 DEF WriteIn, askedVars
  <2>2. CASE [PipeNext]_pipeVars
    <3>1. CASE QueueStep
      BY <3>1 DEF QueueStep, QueueRead, QueueClose, askedVars
    <3>2. CASE FireEvents
      BY <3>2 DEF FireEvents, Collect, CollectOthers, CollectCloses, LockReads, CollectRead,
         UnlockReads, Fire, FireRead, ReadsFired, FireClose, ClosesFired, FireOther, OthersFired, askedVars
    <3> QED
      BY <1>1, <2>2, <3>1, <3>2, StepCases
  <2> QED
    BY <2>1, <2>2, PipeMoves
<1>4. CASE written'[q] = written[q]
  BY <1>2, <1>4 DEF Extends
<1>5. ASSUME NEW b \in Blobs, written'[q] = Append(written[q], b)
      PROVE  Extends(written[q], written'[q]) /\ Range(written[q]) \subseteq Range(written'[q])
  <2>1. Range(written'[q]) = Range(written[q]) \cup {b}
    BY <1>2, <1>5, RangeFacts
  <2>2. Len(written[q]) \in Nat
    BY <1>2
  <2>3. Extends(written[q], written'[q])
    BY <1>2, <1>5, <2>2, AppendFacts DEF Extends
  <2> QED
    BY <2>1, <2>3
<1> QED
  BY <1>1, <1>3, <1>4, <1>5 DEF PipeTypeOK

\* Before the first fork no reader has been used.
LEMMA NoneUsed ==
  ASSUME LifeInv, FlowInv, NEW q, NEW s, SetStdout(q, s) \/ SetStdout(s, q)
  PROVE  /\ plan[Main] = <<>> /\ Left(Main) = {} /\ pid = 0
         /\ \A n \in 1 .. Launches : home[n] = 0
         /\ \A p \in Outs : polling[p] = "off" /\ written[p] = <<>>
<1>1. plan[Main] = <<>> /\ Count = 0
  BY DEF SetStdout, MainFree
<1>2. pid = 0
  BY <1>1, CountIsPid DEF LifeInv
<1>3. \A n \in 1 .. Launches : home[n] = 0
  BY <1>2, ChildAssumption DEF LifeInv, Homes
<1>4. \A p \in Outs : polling[p] = "off"
  <2>1. ASSUME NEW p \in Outs, polling[p] # "off" PROVE FALSE
    <3>1. PICK n \in 1 .. Launches : home[n] = p[2]
      BY <2>1 DEF FlowInv, Readers
    <3>2. p[2] # 0
      BY OutIsOut, ChildAssumption
    <3> QED
      BY <1>3, <3>1, <3>2
  <2> QED
    BY <2>1
<1> QED
  BY <1>1, <1>2, <1>3, <1>4, EmptyShaped DEF Left, FlowInv, Readers

LEMMA RangeConcat ==
  ASSUME NEW S, NEW s \in Seq(S), NEW t \in Seq(S)
  PROVE  s \o t \in Seq(S) /\ Range(s \o t) = Range(s) \cup Range(t)
<1> DEFINE w == s \o t
           m == Len(s)
           n == Len(t)
<1>1. /\ w \in Seq(S) /\ m \in Nat /\ n \in Nat /\ DOMAIN s = 1 .. m /\ DOMAIN t = 1 .. n
      /\ DOMAIN w = 1 .. m + n
      /\ \A i \in 1 .. m : w[i] = s[i]
      /\ \A i \in 1 .. n : w[m + i] = t[i]
  OBVIOUS
<1> HIDE DEF w, m, n
<1>2. /\ \A i \in 1 .. m : i \in 1 .. m + n
      /\ \A i \in 1 .. n : m + i \in 1 .. m + n
  BY <1>1
<1>3. \A j \in 1 .. m + n : j \in 1 .. m \/ \E k \in 1 .. n : j = m + k
  BY <1>1, ConcatSplit
<1>4. Range(w) \subseteq Range(s) \cup Range(t)
  <2>1. ASSUME NEW j \in 1 .. m + n PROVE w[j] \in Range(s) \cup Range(t)
    <3>1. CASE j \in 1 .. m
      BY <1>1, <3>1 DEF Range
    <3>2. ASSUME NEW k \in 1 .. n, j = m + k PROVE w[j] \in Range(t)
      BY <1>1, <3>2 DEF Range
    <3> QED
      BY <1>3, <3>1, <3>2
  <2> QED
    BY <1>1, <2>1 DEF Range
<1>5. Range(s) \subseteq Range(w)
  BY <1>1, <1>2 DEF Range
<1>6. Range(t) \subseteq Range(w)
  <2>1. ASSUME NEW k \in 1 .. n PROVE t[k] \in Range(w)
    <3>1. m + k \in DOMAIN w /\ w[m + k] = t[k]
      BY <1>1, <1>2
    <3> QED
      BY <3>1 DEF Range
  <2> QED
    BY <1>1, <2>1 DEF Range
<1> QED
  BY <1>1, <1>4, <1>5, <1>6 DEF w

\* What is left of a call after a step of it.
CallsTo(p) == {[do |-> "call", pipe |-> q, via |-> p] : q \in Range(attached[p])}

LEMMA CallLeaves ==
  ASSUME OwnTypes, NEW t \in Threads, WriteIn(t) \/ CallStep(t)
  PROVE  /\ UNCHANGED carried /\ \A u \in Threads \ {t} : todo'[u] = todo[u]
         /\ todo[t] # <<>>
         /\ \E h \in SafeTask, R \in SUBSET SafeTask :
              /\ h = Head(todo[t]) /\ h.pipe \in Pipes /\ Range(todo[t]) = {h} \cup R
              /\ \/ h.do = "call" /\ h.pipe \in Ins /\ Range(todo'[t]) = R
                 \/ /\ h.do = "call" /\ QueueFor(h.pipe, carried[t])
                    /\ Range(todo'[t]) = {[do |-> "forward", pipe |-> h.pipe]} \cup R
                 \/ /\ h.do = "forward"
                    /\ Range(todo'[t]) = CallsTo(h.pipe) \cup {[do |-> "unlock", pipe |-> h.pipe]} \cup R
                 \/ h.do \in {"unlock", "erase"} /\ (Range(todo'[t]) = R \/ todo'[t] = todo[t])
<1>1. /\ todo \in [Threads -> Seq(SafeTask)] /\ todo[t] \in Seq(SafeTask) /\ todo[t] # <<>>
  BY DEF OwnTypes, WriteIn, CallStep, EnterAttached, Forward, Unlock, Erase, Idle
<1>2. PICK s \in Seq(SafeTask) : todo' = [todo EXCEPT ![t] = s]
  BY TodoKinds
<1>3. UNCHANGED carried /\ \A u \in Threads \ {t} : todo'[u] = todo[u]
  BY <1>1, <1>2 DEF WriteIn, CallStep, EnterAttached, Forward, Unlock, Erase
<1> DEFINE h == Head(todo[t])
           r == Tail(todo[t])
           R == Range(r)
<1>4. h \in SafeTask /\ r \in Seq(SafeTask) /\ Range(todo[t]) = {h} \cup R
  <2>1. h \in SafeTask /\ r \in Seq(SafeTask)
    BY <1>1, SequenceFacts
  <2>2. Range(todo[t]) = {h} \cup R
    BY <1>1, RangeFacts
  <2> QED
    BY <2>1, <2>2
<1>5. h.pipe \in Pipes /\ R \in SUBSET SafeTask
  <2>1. h.pipe \in Pipes
    BY <1>4, TaskPipe DEF SafeTask
  <2>2. \A i \in DOMAIN r : r[i] \in SafeTask
    BY <1>4, ElementType
  <2> QED
    BY <2>1, <2>2 DEF Range
<1>6. CASE WriteIn(t)
  <2>1. h.do = "call" /\ h.pipe \in Ins /\ todo'[t] = r
    BY <1>1, <1>6 DEF WriteIn
  <2> QED
    BY <1>1, <1>3, <1>4, <1>5, <2>1
<1>7. CASE EnterAttached(t)
  <2> DEFINE f == <<[do |-> "forward", pipe |-> h.pipe]>>
  <2>1. h.do = "call" /\ QueueFor(h.pipe, carried[t]) /\ todo'[t] = f \o r
    BY <1>1, <1>7 DEF EnterAttached
  <2>2. [do |-> "forward", pipe |-> h.pipe] \in SafeTask
    BY <1>5, SafeTasks
  <2>3. f \in Seq(SafeTask) /\ Range(f) = {[do |-> "forward", pipe |-> h.pipe]}
    BY <2>2, RangeFacts
  <2> HIDE DEF f
  <2>4. Range(f \o r) = Range(f) \cup R
    <3>1. f \in Seq(SafeTask) /\ r \in Seq(SafeTask)
      BY <1>4, <2>3
    <3> QED
      BY <3>1, RangeConcat, ZenonT(30)
  <2>5. Range(todo'[t]) = {[do |-> "forward", pipe |-> h.pipe]} \cup R
    BY <2>1, <2>3, <2>4
  <2> QED
    BY <1>1, <1>3, <1>4, <1>5, <2>1, <2>5
<1>8. CASE Forward(t)
  <2> DEFINE u == <<[do |-> "unlock", pipe |-> h.pipe]>>
             c == CallsOf(h.pipe)
  <2>1. h.do = "forward" /\ todo'[t] = c \o u \o r
    BY <1>1, <1>8 DEF Forward
  <2>2. [do |-> "unlock", pipe |-> h.pipe] \in SafeTask
    BY <1>5, SafeTasks
  <2>3. u \in Seq(SafeTask) /\ Range(u) = {[do |-> "unlock", pipe |-> h.pipe]}
    BY <2>2, RangeFacts
  <2>4. c \in Seq(SafeTask)
    BY <1>5, CallsSafe
  <2>5. Range(c) = CallsTo(h.pipe)
    BY DEF Range, CallsTo, CallsOf
  <2> HIDE DEF u, c
  <2>6. u \in Seq(SafeTask) /\ r \in Seq(SafeTask)
    BY <1>4, <2>3
  <2>7. c \o u \in Seq(SafeTask) /\ Range(c \o u) = Range(c) \cup Range(u)
    BY <2>4, <2>6, RangeConcat
  <2> DEFINE v == c \o u
  <2>8. Range(v \o r) = Range(v) \cup R
    <3>1. v \in Seq(SafeTask)
      BY <2>7
    <3>2. r \in Seq(SafeTask)
      BY <2>6
    <3> HIDE DEF v
    <3> QED
      BY <3>1, <3>2, RangeConcat, ZenonT(30)
  <2>9. Range(todo'[t]) = CallsTo(h.pipe) \cup {[do |-> "unlock", pipe |-> h.pipe]} \cup R
    BY <2>1, <2>3, <2>5, <2>7, <2>8
  <2> QED
    BY <1>1, <1>3, <1>4, <1>5, <2>1, <2>9
<1>9. CASE Unlock(t) \/ Erase(t)
  <2>1. h.do \in {"unlock", "erase"} /\ (todo'[t] = r \/ todo'[t] = todo[t])
    BY <1>1, <1>9 DEF Unlock, Erase
  <2> QED
    BY <1>1, <1>3, <1>4, <1>5, <2>1
<1> QED
  BY <1>6, <1>7, <1>8, <1>9 DEF CallStep

\* The step that leaves "monitors" to be done, and the streams left to be attached.
LEMMA MonitorsLeft ==
  ASSUME OwnTypes, LifeInv, PlanInv, [ProcNext]_procVars, "monitors" \in Left(Main)'
  PROVE  \/ MainFree /\ For(plan'[Main], "attach") = StreamSet /\ UNCHANGED pipeVars
         \/ /\ "monitors" \in Left(Main) /\ gen' = gen
            /\ \A x \in For(plan[Main], "attach") :
                 x \in For(plan'[Main], "attach") \/ (AttachPipes /\ Stream(Main) = x)
<1> DEFINE Goal ==
      \/ MainFree /\ For(plan'[Main], "attach") = StreamSet /\ UNCHANGED pipeVars
      \/ /\ "monitors" \in Left(Main) /\ gen' = gen
         /\ \A x \in For(plan[Main], "attach") :
              x \in For(plan'[Main], "attach") \/ (AttachPipes /\ Stream(Main) = x)
<1>0. plan \in [{Main, Monitor} -> Seq(PlanStep)] /\ Main # Monitor
  BY Different DEF PlanInv
<1>1. CASE LaunchAsync \/ LaunchSync
  <2>1. PICK t \in {LaunchAsyncPlan, LaunchSyncPlan} : Launch(t)
    BY <1>1 DEF LaunchAsync, LaunchSync
  <2>2. plan'[Main] = t /\ MainFree /\ UNCHANGED pipeVars
    BY <1>0, <2>1 DEF Launch, NobodyCalls
  <2> QED
    BY <2>2, LaunchShapes
<1>2. CASE ForkFails \/ StartExitMonitor
  <2>1. plan'[Main] = <<>>
    BY <1>0, <1>2 DEF ForkFails, StartExitMonitor
  <2> QED
    BY <2>1, EmptyShaped DEF Left
<1>3. ASSUME NEW t, Shaped(t), Kinds(t) \cap (Launching \cup Watching \cup {"fireLater"}) = {},
             plan'[Main] = Exited("fireLater") \o t
      PROVE  FALSE
  <2>1. /\ Left(Main)' = Kinds(Exited("fireLater")) \cup Kinds(t)
        /\ Kinds(Exited("fireLater")) \subseteq Closing \cup {"fireLater"}
    BY <1>3, ExitedThen DEF Left
  <2> QED
    BY <1>3, <2>1 DEF Closing, Launching
<1>4. CASE ExitCallback
  <2>1. plan'[Main] = Exited("fireLater") \o Do("signal")
    BY <1>0, <1>4 DEF ExitCallback
  <2>2. Piece(Do("signal"), {"signal"}) /\ Kinds(Do("signal")) = {"signal"}
    BY PartKinds DEF Steps
  <2>3. Renews(Do("signal"))
    BY <2>2, NothingToRenew DEF Piece, Closing
  <2>4. Shaped(Do("signal"))
    BY <2>2, <2>3 DEF Piece, Shaped, Whole, Closing, Fires
  <2> QED
    BY <1>3, <2>1, <2>2, <2>4 DEF Launching, Watching
<1>5. ASSUME NEW a \in {Main, Monitor}, Invoke(a) PROVE Goal
  <2>1. plan[a] \in Seq(PlanStep) /\ plan[a] # <<>> /\ Head(plan[a])[1] = "invoke" /\ Shaped(plan[a])
    BY <1>5 DEF Invoke, At, PlanInv, LifeInv, Shapes
  <2>2. CASE a = Monitor
    <3>1. plan'[Main] = plan[Main] /\ gen' = gen
      BY <1>0, <1>5, <2>2 DEF Invoke, objectVars
    <3> QED
      BY <3>1 DEF Left
  <2>3. CASE a = Main
    <3>1. /\ Shaped(Tail(plan[Main])) /\ Kinds(Tail(plan[Main])) \cap Spent("invoke") = {}
      BY <2>1, <2>3, AfterFirst, ShapedTail DEF Shaped
    <3>2. Kinds(Tail(plan[Main])) \cap (Launching \cup Watching \cup {"fireLater"}) = {}
      BY <3>1 DEF Spent
    <3>3. plan'[Main] = Exited("fireLater") \o Tail(plan[Main]) \/ plan'[Main] = Tail(plan[Main])
      BY <1>0, <1>5, <2>3 DEF Invoke
    <3>4. plan'[Main] = Tail(plan[Main])
      BY <1>3, <3>1, <3>2, <3>3
    <3> QED
      BY <3>2, <3>4 DEF Left, Launching
  <2> QED
    BY <2>2, <2>3
<1>6. ASSUME NEW a \in {Main, Monitor}, NEW op, Step(a, op), gen' = gen \/ op = "recreate",
             op = "attach" /\ a = Main => AttachPipes
      PROVE  Goal
  <2>1. Left(a) = {op} \cup Left(a)' /\ Left(a)' \cap Spent(op) = {} /\ plan'[a] = Tail(plan[a])
        /\ (a = Monitor => plan'[Main] = plan[Main] /\ Left(Main)' = Left(Main))
        /\ plan[a] # <<>> /\ plan[a] \in Seq(PlanStep) /\ Head(plan[a])[1] = op
    <3>1. plan[a] # <<>> /\ plan[a] \in Seq(PlanStep) /\ Head(plan[a])[1] = op
      BY <1>0, <1>6 DEF Step, At
    <3> QED
      BY <1>0, <1>6, <3>1, StepLeaves DEF LifeInv
  <2>2. CASE a = Main
    <3>1. op # "recreate"
      BY <2>1, <2>2 DEF Spent, Launching
    <3>2. \A x \in For(plan[Main], "attach") :
            x \in For(plan'[Main], "attach") \/ (op = "attach" /\ Stream(Main) = x)
      BY <2>1, <2>2, AfterFirst DEF Stream
    <3> QED
      BY <1>6, <2>1, <2>2, <3>1, <3>2
  <2>3. CASE a = Monitor
    <3>1. "recreate" \notin Left(Monitor)
      BY DEF LifeInv, Shapes, Watching
    <3> QED
      BY <1>6, <2>1, <2>3, <3>1
  <2> QED
    BY <2>2, <2>3
<1>7. CASE StartMonitors \/ RecreateNativePipes \/ ExitLater \/ ExitNow
  <2>1. PICK op \in {"monitors", "recreate", "fireLater", "fireNow"} : Step(Main, op) /\ (gen' = gen \/ op = "recreate")
    BY <1>7 DEF StartMonitors, RecreateNativePipes, ExitLater, ExitNow, objectVars
  <2> QED
    BY <1>6, <2>1
<1>8. CASE PlainDoes
  <2>1. gen' = gen
    BY <1>8, PlainIsPlain
  <2>2. PICK a \in {Main, Monitor}, op \in PlainOps :
          Step(a, op) /\ (op = "attach" /\ a = Main => AttachPipes)
    <3>1. ASSUME NEW b \in {Main, Monitor}, Wait(b) \/ StopIn(b) \/ JoinIn(b) \/ StopOut(b)
          PROVE  \E op \in PlainOps : Step(b, op) /\ op # "attach"
      BY <3>1 DEF Wait, StopIn, JoinIn, StopOut, PlainOps
    <3> QED
      BY <1>8, <3>1 DEF PlainDoes, ForkAndExec, AttachPipes, SetReadCallbacks, CollectOutput, CloseOut, DetachIn,
         DetachOut, SignalMonitor, MonitorReturns, PlainOps
  <2> QED
    BY <1>6, <2>1, <2>2
<1>9. CASE UNCHANGED <<plan, gen>>
  BY <1>9 DEF Left
<1>10. CASE Aside
  BY <1>9, <1>10, AsideMild
<1>11. CASE PipeThreads
  BY <1>9, <1>11, ThreadsMild
<1>12. CASE UNCHANGED procVars
  BY <1>9, <1>12 DEF procVars, ownVars, objectVars
<1> QED
  BY <1>1, <1>2, <1>3, <1>4, <1>5, <1>7, <1>8, <1>10, <1>11, <1>12, StepKinds

\* A reader's thread is only started by StartMonitors.
LEMMA TurnsOn ==
  ASSUME OwnTypes, LifeInv, PlanInv, [ProcNext]_procVars, NEW p \in Outs, polling'[p] = "on"
  PROVE  polling[p] = "on" \/ (StartMonitors /\ p \in NativePipesOf(gen))
<1>1. ASSUME NEW q \in Outs, PassOn(q) \/ ReadBlob(q) \/ ReadEnd(q) PROVE polling[p] = "on"
  <2>1. polling' = polling \/ polling' = [polling EXCEPT ![q] = "ended"]
    BY <1>1 DEF PassOn, ReadBlob, ReadEnd
  <2> QED
    BY <2>1 DEF LifeInv, LifeTypes
<1>2. CASE StartMonitors
  BY <1>2 DEF StartMonitors
<1>3. CASE ForkAndExec
  BY <1>3 DEF ForkAndExec
<1>4. ASSUME NEW n \in 1 .. Launches, ChildEnds(n) \/ \E s \in StreamSet : ChildWrites(n, s)
      PROVE  polling[p] = "on"
  BY <1>4 DEF ChildEnds, ChildWrites
<1>5. CASE SameFlow
  BY <1>5 DEF SameFlow
<1> QED
  BY <1>1, <1>2, <1>3, <1>4, <1>5, FlowMoves

\* How the calls on their way and the attached objects change.
Passes(p) ==
  fetched[p] # <<>> /\ Enter(p, p, Head(fetched[p])) /\ fetched' = [fetched EXCEPT ![p] = <<>>]

LEMMA CallMoves ==
  ASSUME [ProcNext]_procVars
  PROVE  \/ UNCHANGED <<attached, todo, carried, written>>
         \/ Calls /\ SameNatives /\ SameObject
         \/ \E t \in Threads : WriteIn(t) \/ CallStep(t)
         \/ \E p \in Outs : Passes(p)
<1>1. CASE UNCHANGED pipeVars
  BY <1>1 DEF pipeVars, callVars, askedVars
<1>2. CASE Loops
  BY <1>2 DEF Loops, Collect, CollectOthers, CollectCloses, LockReads, CollectRead, UnlockReads,
     FireRead, ReadsFired, FireClose, ClosesFired, OthersFired, callVars, askedVars
<1>3. CASE FireExit
  BY <1>3 DEF FireExit, FireOther, callVars, askedVars
<1>4. CASE MoreThanCalls
  BY <1>1, <1>3, <1>4, OtherFrames DEF Passes
<1>5. CASE Quiet \/ UNCHANGED procVars
  BY <1>1, <1>5 DEF Quiet, procVars
<1> QED
  BY <1>2, <1>4, <1>5, Footprints

\* Only Main's Detach takes away from what is attached to a reader, and never while
\* the reader's thread runs.
LEMMA LinksKept ==
  ASSUME OwnTypes, LifeInv, PlanInv, Erasing, [ProcNext]_procVars, NEW p \in Outs
  PROVE  \/ Range(attached[p]) \subseteq Range(attached'[p])
         \/ polling[p] # "on" /\ todo[Main] # <<>>
<1>0. attached \in [Pipes -> Seq(Pipes \ Outs)] /\ p \in Pipes /\ attached[p] \in Seq(Pipes \ Outs)
  BY NativeAssumption DEF OwnTypes
<1>1. ASSUME NEW r \in Pipes, NEW q \in Pipes \ Outs, Attach(r, q)
      PROVE  Range(attached[p]) \subseteq Range(attached'[p])
  <2>1. attached'[p] = attached[p] \/ attached'[p] = Append(attached[p], q)
    BY <1>0, <1>1 DEF Attach
  <2>2. \A s \in Seq(Pipes \ Outs), e \in Pipes \ Outs : Range(Append(s, e)) = Range(s) \cup {e}
    BY RangeFacts
  <2> QED
    BY <1>0, <1>1, <2>1, <2>2
<1>2. CASE Calls
  <2>1. \/ \E r \in Pipes, q \in Pipes \ Outs : Attach(r, q)
        \/ UNCHANGED attached
    BY <1>2, CallKinds DEF Enter, Detach, FireEventAsynchronously, callVars
  <2> QED
    BY <1>1, <2>1
<1>3. ASSUME NEW t \in Threads, WriteIn(t) \/ CallStep(t)
      PROVE  \/ Range(attached[p]) \subseteq Range(attached'[p])
             \/ polling[p] # "on" /\ todo[Main] # <<>>
  <2>1. CASE Erase(t)
    <3>1. todo[t] # <<>> /\ Head(todo[t]).do = "erase" /\ todo[t] \in Seq(SafeTask)
      BY <2>1 DEF Erase, Idle, OwnTypes
    <3>2. Head(todo[t]) \in Range(todo[t])
      BY <3>1, RangeFacts
    <3>3. t = Main /\ (Head(todo[t]).pipe \in Outs => polling[Head(todo[t]).pipe] # "on")
      BY <3>1, <3>2 DEF Erasing
    <3>4. CASE Head(todo[t]).pipe = p
      BY <3>1, <3>3, <3>4
    <3>5. CASE Head(todo[t]).pipe # p
      <4>1. attached'[p] = attached[p]
        BY <1>0, <2>1, <3>5 DEF Erase
      <4> QED
        BY <4>1
    <3> QED
      BY <3>4, <3>5
  <2>2. CASE UNCHANGED attached
    BY <2>2
  <2> QED
    BY <1>3, <2>1, <2>2 DEF CallStep, WriteIn, EnterAttached, Forward, Unlock
<1>4. CASE UNCHANGED attached \/ \E q \in Outs : Passes(q)
  BY <1>4 DEF Passes, Enter
<1> QED
  BY <1>2, <1>3, <1>4, CallMoves


\* The main thread calls no pipe while it has monitors to start.
LEMMA MainStill ==
  ASSUME OwnTypes, LifeInv, PlanInv, [ProcNext]_procVars, "monitors" \in Left(Main)', Idle(Main)
  PROVE  Idle(Main)'
<1>0. todo \in [Threads -> Seq(SafeTask)] /\ Main \in Threads /\ Main \notin Outs
  BY NativeNames DEF OwnTypes
<1>1. UNCHANGED todo \/ ~MainFree
  <2>1. MainFree => Left(Main) = {}
    BY EmptyShaped DEF MainFree, Left
  <2> QED
    BY <2>1, MonitorsLeft DEF pipeVars, callVars
<1>2. ASSUME NEW op \in Closing \ {"recreate"}, Step(Main, op) PROVE FALSE
  BY <1>2, StepLeaves DEF LifeInv, Spent, Launching, Closing
<1>3. CASE Calls
  <2>1. \/ MainFree
        \/ \E op \in Closing \ {"recreate"} : Step(Main, op)
        \/ UNCHANGED todo
    BY <1>3 DEF Calls, Attach, FireEventAsynchronously, callVars, Closing
  <2> QED
    BY <1>1, <1>2, <2>1 DEF Idle
<1>4. ASSUME NEW t \in Threads, WriteIn(t) \/ CallStep(t) PROVE Idle(Main)'
  <2>1. t # Main
    BY <1>4 DEF CallStep, WriteIn, EnterAttached, Forward, Unlock, Erase
  <2> QED
    BY <1>0, <1>4, <2>1, CallLeaves DEF Idle
<1>5. ASSUME NEW p \in Outs, Passes(p) PROVE Idle(Main)'
  BY <1>0, <1>5 DEF Passes, Enter, Idle
<1> QED
  BY <1>3, <1>4, <1>5, CallMoves DEF Idle

\* The pipes of the script that a process uses are settled before the first fork.
LEMMA SinksStay ==
  ASSUME OwnTypes, LifeInv, FlowInv, [ProcNext]_procVars
  PROVE  \/ UNCHANGED ends
         \/ plan[Main] = <<>> /\ Left(Main) = {} /\ \A p \in Outs : polling[p] = "off" /\ written[p] = <<>>
BY EndsTyped, NoneUsed

LEMMA LinkedStep ==
  ASSUME OwnTypes, LifeInv, PlanInv, FlowInv, LinkInv, [ProcNext]_procVars
  PROVE  Linked'
<1> SUFFICES ASSUME NEW p \in Outs, polling'[p] = "on"
             PROVE  ends'[p[1]] \in Range(attached'[p])
  BY DEF Linked, Sink
<1>1. CASE polling[p] = "on"
  <2>1. ends' = ends
    BY <1>1, SinksStay
  <2>2. Range(attached[p]) \subseteq Range(attached'[p])
    BY <1>1, LinksKept DEF LinkInv
  <2> QED
    BY <1>1, <2>1, <2>2 DEF LinkInv, Linked, Sink
<1>2. CASE StartMonitors /\ p \in NativePipesOf(gen)
  <2>1. UNCHANGED <<attached, ends>> /\ plan[Main] # <<>> /\ Head(plan[Main])[1] = "monitors"
    BY <1>2 DEF StartMonitors, NobodyCalls, pipeVars, callVars, objectVars, Step, At
  <2>2. plan[Main] \in Seq(PlanStep) /\ Ordered(plan[Main])
    BY DEF PlanInv, LifeInv, Shapes, Shaped
  <2>3. "monitors" \in Left(Main) /\ "attach" \notin Left(Main)
    BY <2>1, <2>2, AfterFirst DEF Left, Spent
  <2>4. For(plan[Main], "attach") = {}
    BY <2>3, KindsFor DEF Left
  <2>5. PICK s \in StreamSet : p = Out(s, gen)
    BY <1>2, NativeNames DEF NativePipesOf
  <2>6. ends[s] \in Range(attached[p])
    BY <2>3, <2>4, <2>5 DEF LinkInv, Linking
  <2> QED
    BY <2>1, <2>5, <2>6 DEF Out
<1> QED
  BY <1>1, <1>2, TurnsOn

LEMMA LinkingStep ==
  ASSUME OwnTypes, LifeInv, PlanInv, FlowInv, LinkInv, [ProcNext]_procVars
  PROVE  Linking'
<1> SUFFICES ASSUME "monitors" \in Left(Main)'
             PROVE  /\ Idle(Main)'
                    /\ \A s \in StreamSet :
                         s \in For(plan'[Main], "attach") \/ ends'[s] \in Range(attached'[Out(s, gen')])
  BY DEF Linking
<1>1. CASE MainFree /\ For(plan'[Main], "attach") = StreamSet /\ UNCHANGED pipeVars
  BY <1>1 DEF MainFree, Idle, pipeVars, callVars
<1>2. CASE /\ "monitors" \in Left(Main) /\ gen' = gen
           /\ \A x \in For(plan[Main], "attach") :
                x \in For(plan'[Main], "attach") \/ (AttachPipes /\ Stream(Main) = x)
  <2>1. Idle(Main)
    BY <1>2 DEF LinkInv, Linking
  <2>2. Idle(Main)'
    BY <2>1, MainStill
  <2>3. ends' = ends
    BY <1>2, SinksStay
  <2>4. ASSUME NEW s \in StreamSet
        PROVE  s \in For(plan'[Main], "attach") \/ ends'[s] \in Range(attached'[Out(s, gen')])
    <3>1. Out(s, gen) \in Outs
      BY NativeNames
    <3>2. CASE ends[s] \in Range(attached[Out(s, gen)])
      <4>1. Range(attached[Out(s, gen)]) \subseteq Range(attached'[Out(s, gen)])
        BY <2>1, <3>1, LinksKept DEF LinkInv, Idle
      <4> QED
        BY <1>2, <2>3, <3>2, <4>1
    <3>3. CASE AttachPipes /\ Stream(Main) = s
      <4>1. Attach(Out(s, gen), ends[s])
        BY <3>3 DEF AttachPipes
      <4>2. attached \in [Pipes -> Seq(Pipes \ Outs)] /\ Out(s, gen) \in Pipes /\ ends[s] \in Pipes \ Outs
        BY <3>1, NativeAssumption DEF OwnTypes
      <4>3. attached'[Out(s, gen)] = Append(attached[Out(s, gen)], ends[s])
            /\ attached[Out(s, gen)] \in Seq(Pipes \ Outs)
        BY <4>1, <4>2 DEF Attach
      <4>4. \A u \in Seq(Pipes \ Outs), e \in Pipes \ Outs : Range(Append(u, e)) = Range(u) \cup {e}
        BY RangeFacts
      <4>5. ends[s] \in Range(attached'[Out(s, gen)])
        BY <4>2, <4>3, <4>4
      <4> QED
        BY <1>2, <2>3, <4>5
    <3> QED
      BY <1>2, <3>2, <3>3 DEF LinkInv, Linking
  <2> QED
    BY <2>2, <2>4
<1> QED
  BY <1>1, <1>2, MonitorsLeft

LEMMA ErasingStep ==
  ASSUME OwnTypes, LifeInv, PlanInv, FlowInv, LinkInv, [ProcNext]_procVars
  PROVE  Erasing'
<1>0. todo \in [Threads -> Seq(SafeTask)] /\ Main \in Threads /\ Main \notin Outs /\ Outs \subseteq Threads
  BY NativeNames DEF OwnTypes
<1>1. ASSUME NEW t \in Threads, NEW x \in Range(todo[t]), x.do = "erase"
      PROVE  t = Main /\ (x.pipe \in Outs => polling'[x.pipe] # "on")
  <2>1. t = Main /\ (x.pipe \in Outs => polling[x.pipe] # "on") /\ todo[Main] # <<>>
    <3>1. Range(<<>>) = {}
      BY RangeFacts
    <3> QED
      BY <1>1, <3>1 DEF LinkInv, Erasing
  <2>2. ~StartMonitors
    <3>1. ASSUME StartMonitors PROVE Idle(Main)
      BY <3>1 DEF StartMonitors, Step, At
    <3> QED
      BY <2>1, <3>1 DEF Idle
  <2> QED
    BY <2>1, <2>2, TurnsOn
<1> DEFINE Fine(t, x) ==
      \/ x \in Range(todo[t])
      \/ x.do # "erase"
      \/ t = Main /\ (x.pipe \in Outs => polling'[x.pipe] # "on")
<1>2. ASSUME NEW t \in Threads, WriteIn(t) \/ CallStep(t)
      PROVE  \A u \in Threads : \A x \in Range(todo'[u]) : Fine(u, x)
  <2>1. \A u \in Threads \ {t} : todo'[u] = todo[u]
    BY <1>2, CallLeaves
  <2>2. \A x \in Range(todo'[t]) : x \in Range(todo[t]) \/ x.do # "erase"
    BY <1>2, CallLeaves DEF CallsTo
  <2> QED
    BY <2>1, <2>2
<1>3. ASSUME NEW t \in Threads, NEW p, NEW what, Enter(t, p, what)
      PROVE  \A u \in Threads : \A x \in Range(todo'[u]) : Fine(u, x)
  <2>1. todo'[t] = <<[do |-> "forward", pipe |-> p]>> /\ \A u \in Threads \ {t} : todo'[u] = todo[u]
    BY <1>0, <1>3 DEF Enter
  <2>2. \A x \in Range(todo'[t]) : x.do # "erase"
    BY <2>1 DEF Range
  <2> QED
    BY <2>1, <2>2
<1>4. ASSUME NEW p, NEW q, Detach(Main, p, q), p \in Outs => polling'[p] # "on"
      PROVE  \A u \in Threads : \A x \in Range(todo'[u]) : Fine(u, x)
  <2>1. /\ todo'[Main] = <<[do |-> "erase", pipe |-> p, via |-> q], [do |-> "unlock", pipe |-> p]>>
        /\ \A u \in Threads \ {Main} : todo'[u] = todo[u]
    BY <1>0, <1>4 DEF Detach
  <2>2. \A x \in Range(todo'[Main]) : x.do # "erase" \/ x.pipe = p
    BY <2>1 DEF Range
  <2> QED
    BY <1>4, <2>1, <2>2
<1>5. ASSUME Calls, SameNatives
      PROVE  \A u \in Threads : \A x \in Range(todo'[u]) : Fine(u, x)
  <2>1. polling' = polling
    BY <1>5 DEF SameNatives
  <2>2. ends["stdin"] \notin Outs
    BY DEF OwnTypes
  <2>3. ASSUME Step(Main, "detach") PROVE Named(Main) \in Outs => polling[Named(Main)] # "on"
    <3>1. Step(Main, "detach") => Stream(Main) \in StreamSet
      BY StepStream, <2>3 DEF Step
    <3>2. "detach" \in Left(Main) /\ "invoke" \notin Left(Main)
      BY <2>3, StepLeaves DEF LifeInv, Spent, Watching
    <3> QED
      BY <2>3, <3>1, <3>2 DEF LifeInv, Ending, Closing, Named
  <2>4. \/ \E p, what : Enter(Main, p, what)
        \/ \E p, q : Detach(Main, p, q) /\ (p \in Outs => polling'[p] # "on")
        \/ UNCHANGED todo
    BY <1>5, <2>1, <2>2, <2>3 DEF Calls, Attach, FireEventAsynchronously, callVars
  <2>5. CASE \E p, what : Enter(Main, p, what)
    <3>1. PICK p, what : Enter(Main, p, what)
      BY <2>5
    <3> QED
      BY <1>0, <1>3, <3>1
  <2>6. CASE \E p, q : Detach(Main, p, q) /\ (p \in Outs => polling'[p] # "on")
    <3>1. PICK p, q : Detach(Main, p, q) /\ (p \in Outs => polling'[p] # "on")
      BY <2>6
    <3> QED
      BY <1>4, <3>1
  <2>7. CASE UNCHANGED todo
    BY <2>7
  <2> QED
    BY <2>4, <2>5, <2>6, <2>7
<1>6. ASSUME NEW p \in Outs, Passes(p)
      PROVE  \A u \in Threads : \A x \in Range(todo'[u]) : Fine(u, x)
  BY <1>0, <1>3, <1>6 DEF Passes
<1>7. ASSUME UNCHANGED todo
      PROVE  \A u \in Threads : \A x \in Range(todo'[u]) : Fine(u, x)
  BY <1>7
<1>8. \A u \in Threads : \A x \in Range(todo'[u]) : Fine(u, x)
  BY <1>2, <1>5, <1>6, <1>7, CallMoves
<1> QED
  BY <1>1, <1>8 DEF Erasing

LEMMA ForwardedStep ==
  ASSUME OwnTypes, LifeInv, PlanInv, FlowInv, LinkInv, [ProcNext]_procVars
  PROVE  Forwarded'
<1>0. /\ Outs \subseteq Pipes \cap Threads /\ Main \in Threads /\ Main \notin Outs
      /\ written \in [Pipes -> Seq(Blobs)] /\ todo \in [Threads -> Seq(SafeTask)]
      /\ carried \in [Threads -> Blobs \cup {CloseCall}] /\ CloseCall \notin Blobs
      /\ \A p \in Outs : Sink(p) \in Pipes \ (Outs \cup Ins)
  BY NativeNames, OutIsOut, PipesAssumption DEF OwnTypes, PipeTypeOK, Sink
<1>1. ASSUME NEW p \in UserPipes, NEW s \in StreamSet, SetStdout(p, s) \/ SetStdout(s, p) PROVE Forwarded'
  <2>1. written' = written /\ \A q \in Outs : written[q] = <<>>
    BY <1>1, NoneUsed DEF SetStdout, NobodyCalls, pipeVars, askedVars
  <2>2. Range(<<>>) = {}
    BY RangeFacts
  <2> QED
    BY <2>1, <2>2 DEF Forwarded
<1>2. ASSUME UNCHANGED ends PROVE Forwarded'
  <2> DEFINE Fine(p, b) ==
        \/ b \in Range(written'[Sink(p)])
        \/ b = carried'[p] /\ \E x \in Range(todo'[p]) : Leads(x, p)
  <2>0. /\ \A p \in Outs : Range(written[Sink(p)]) \subseteq Range(written'[Sink(p)])
        /\ \A p : Sink(p)' = Sink(p) /\ \A x : Leads(x, p)' = Leads(x, p)
    BY <1>0, <1>2, WrittenGrows DEF Sink, Leads
  <2>1. ASSUME NEW p \in Outs, written'[p] = written[p], carried'[p] = carried[p], todo'[p] = todo[p],
               NEW b \in Range(written'[p])
        PROVE  Fine(p, b)
    BY <2>0, <2>1 DEF LinkInv, Forwarded
  <2>2. ASSUME Calls, NEW p \in Outs, NEW b \in Range(written'[p]) PROVE Fine(p, b)
    <3>1. todo'[p] = todo[p] /\ carried'[p] = carried[p]
      BY <1>0, <2>2 DEF Calls, Attach, Enter, Detach, FireEventAsynchronously, callVars
    <3>2. written'[p] = written[p]
      BY <2>2, CallsWrite DEF SamePipes
    <3> QED
      BY <2>1, <2>2, <3>1, <3>2
  <2>3. ASSUME NEW q \in Outs, Passes(q), NEW p \in Outs, NEW b \in Range(written'[p]) PROVE Fine(p, b)
    <3> DEFINE c == Head(fetched[q])
    <3>1. c \in Blobs
      BY <2>3, SequenceFacts DEF Passes, OwnTypes
    <3>2. /\ Idle(q) /\ written' = [written EXCEPT ![q] = Append(@, c)]
          /\ carried' = [carried EXCEPT ![q] = c]
          /\ todo' = [todo EXCEPT ![q] = <<[do |-> "forward", pipe |-> q]>>]
      BY <2>3, <3>1, QueuesRead DEF Passes, Enter, QueueRead
    <3> HIDE DEF c
    <3>3. CASE p # q
      BY <1>0, <2>1, <2>3, <3>2, <3>3
    <3>4. CASE p = q
      <4>1. b = c \/ b \in Range(written[q])
        <5>1. Range(Append(written[q], c)) = Range(written[q]) \cup {c}
          BY <1>0, <3>1, RangeFacts
        <5> QED
          BY <1>0, <2>3, <3>2, <3>4, <5>1
      <4>2. [do |-> "forward", pipe |-> q] \in Range(todo'[q]) /\ carried'[q] = c
        <5>1. todo'[q] = <<[do |-> "forward", pipe |-> q]>> /\ carried'[q] = c
          BY <1>0, <3>2
        <5>2. \A e : 1 \in DOMAIN <<e>> /\ <<e>>[1] = e
          OBVIOUS
        <5> QED
          BY <5>1, <5>2 DEF Range
      <4>3. b \in Range(written[q]) => b \in Range(written[Sink(q)])
        <5>1. Range(<<>>) = {}
          BY RangeFacts
        <5> QED
          BY <3>2, <5>1 DEF LinkInv, Forwarded, Idle
      <4> QED
        BY <2>0, <3>4, <4>1, <4>2, <4>3 DEF Leads
    <3> QED
      BY <3>3, <3>4
  <2>4. ASSUME NEW t \in Threads, WriteIn(t) \/ CallStep(t), NEW p \in Outs, NEW b \in Range(written'[p])
        PROVE  Fine(p, b)
    <3>1. written'[p] = written[p] /\ carried' = carried
      BY <2>4, CallWrites, CallLeaves DEF SamePipes
    <3>2. CASE p # t
      <4>1. todo'[p] = todo[p]
        BY <1>0, <2>4, <3>2, CallLeaves
      <4> QED
        BY <2>1, <2>4, <3>1, <4>1
    <3>3. ASSUME p = t, b \notin Range(written[Sink(p)]) PROVE Fine(p, b)
      <4>1. PICK x \in Range(todo[p]) : b = carried[p] /\ Leads(x, p)
        BY <2>4, <3>1, <3>3 DEF LinkInv, Forwarded
      <4>2. b \in Blobs
        <5>1. written[p] \in Seq(Blobs)
          BY <1>0
        <5> QED
          BY <2>4, <3>1, <5>1, ElementType DEF Range
      <4>3. PICK h \in SafeTask, R \in SUBSET SafeTask :
              /\ h = Head(todo[t]) /\ h.pipe \in Pipes /\ Range(todo[t]) = {h} \cup R
              /\ \/ h.do = "call" /\ h.pipe \in Ins /\ Range(todo'[t]) = R
                 \/ /\ h.do = "call" /\ QueueFor(h.pipe, carried[t])
                    /\ Range(todo'[t]) = {[do |-> "forward", pipe |-> h.pipe]} \cup R
                 \/ /\ h.do = "forward"
                    /\ Range(todo'[t]) = CallsTo(h.pipe) \cup {[do |-> "unlock", pipe |-> h.pipe]} \cup R
                 \/ h.do \in {"unlock", "erase"} /\ (Range(todo'[t]) = R \/ todo'[t] = todo[t])
        BY <2>4, CallLeaves
      <4>4. CASE x \in Range(todo'[t])
        BY <3>1, <3>3, <4>1, <4>4
      <4>5. CASE x = h /\ h.do = "forward"
        <5>1. h.pipe = p /\ CallsTo(p) \subseteq Range(todo'[t])
          BY <4>1, <4>3, <4>5 DEF Leads
        <5>2. todo[p] # <<>>
          BY <2>4, <3>3, CallLeaves
        <5>3. Sink(p) \in Range(attached[p])
          BY <5>2 DEF FlowInv, Readers, LinkInv, Linked
        <5>4. [do |-> "call", pipe |-> Sink(p), via |-> p] \in Range(todo'[t])
          BY <5>1, <5>3 DEF CallsTo
        <5> QED
          BY <3>1, <3>3, <4>1, <5>4 DEF Leads
      <4>6. CASE x = h /\ h.do = "call"
        <5>1. h.pipe = Sink(p) /\ h.pipe \notin Ins
          BY <1>0, <4>1, <4>6 DEF Leads
        <5>2. QueueFor(Sink(p), b)
          BY <3>3, <4>1, <4>3, <4>6, <5>1
        <5>3. written'[Sink(p)] = Append(written[Sink(p)], b)
          BY <1>0, <4>2, <5>2, QueuesRead DEF QueueRead
        <5>4. Range(Append(written[Sink(p)], b)) = Range(written[Sink(p)]) \cup {b}
          BY <1>0, <4>2, RangeFacts
        <5> QED
          BY <5>3, <5>4
      <4> QED
        BY <3>3, <4>1, <4>3, <4>4, <4>5, <4>6 DEF Leads
    <3> QED
      BY <2>0, <3>2, <3>3
  <2>5. ASSUME NEW p \in Outs, NEW b \in Range(written'[p]) PROVE Fine(p, b)
    <3>1. CASE UNCHANGED <<attached, todo, carried, written>>
      BY <2>1, <2>5, <3>1
    <3> QED
      BY <2>2, <2>3, <2>4, <2>5, <3>1, CallMoves
  <2> QED
    BY <2>0, <2>5 DEF Forwarded
<1> QED
  BY <1>1, <1>2, EndsTyped

LEMMA LinkInit == ProcInit => LinkInv
<1> SUFFICES ASSUME ProcInit PROVE LinkInv
  OBVIOUS
<1>1. /\ todo = [t \in Threads |-> <<>>] /\ written = [p \in Pipes |-> <<>>]
      /\ polling = [p \in Outs \cup Ins |-> "off"] /\ plan = [a \in {Main, Monitor} |-> <<>>]
  BY DEF ProcInit, Unused, NativeInit
<1>2. Range(<<>>) = {} /\ Left(Main) = {} /\ Outs \subseteq Pipes
  BY <1>1, RangeFacts, EmptyShaped, NativeAssumption DEF Left
<1>3. Forwarded /\ Linked /\ Linking /\ Erasing
  BY <1>1, <1>2 DEF Forwarded, Linked, Linking, Erasing
<1> QED
  BY <1>3 DEF LinkInv

LEMMA LinkStep ==
  ASSUME OwnTypes, LifeInv, PlanInv, FlowInv, LinkInv, [ProcNext]_procVars
  PROVE  LinkInv'
BY ForwardedStep, LinkedStep, LinkingStep, ErasingStep DEF LinkInv

\* What the child of a launch that is over wrote has also been given to the script's pipe.
LEMMA OverIsForwarded ==
  ASSUME OwnTypes, LifeInv, FlowInv, LinkInv, NEW n \in 1 .. Launches, Over(n), NEW s \in StreamSet
  PROVE  /\ Out(s, home[n]) \in Pipes /\ ends[s] \in Pipes
         /\ Produced(n, s) \subseteq Range(written[Out(s, home[n])])
         /\ Produced(n, s) \subseteq Range(written[ends[s]])
<1> DEFINE p == Out(s, home[n])
<1>1. p \in Outs /\ Produced(n, s) \subseteq Range(written[p]) /\ Sink(p) = ends[s]
  BY OverIsWritten DEF Sink, Out
<1>2. polling[p] # "on"
  BY DEF Over
<1>3. todo[p] = <<>> /\ Range(<<>>) = {}
  BY <1>1, <1>2, RangeFacts DEF FlowInv, Readers
<1> HIDE DEF p
<1>4. \A b \in Range(written[p]) : b \in Range(written[ends[s]])
  BY <1>1, <1>3 DEF LinkInv, Forwarded
<1>5. p \in Pipes /\ ends[s] \in Pipes
  BY <1>1, NativeAssumption DEF OwnTypes
<1> QED
  BY <1>1, <1>4, <1>5 DEF p

-----------------------------------------------------------------------------
(* A native pipe is closed when nothing more comes through it.             *)

\* A reader that was asked to close has come to its end.
Shut ==
  \A p \in Outs : closesAsked[p] > 0 =>
    /\ polling[p] # "on"
    /\ \A n \in 1 .. Launches : home[n] = p[2] => Over(n)

\* A CLOSE on its way is stamped with all that its pipe will ever be given.
Stamped(q) ==
  \A i \in DOMAIN q : q[i].pipe \in Outs =>
    closesAsked[q[i].pipe] > 0 /\ q[i].after = Len(written[q[i].pipe])

\* When it has been fired, the listeners have read that much.
ReadOut ==
  \A p \in Outs : closesFired[p] # {} =>
    closesAsked[p] > 0 /\ Len(written[p]) <= Len(delivered[p])

ClosedInv == Shut /\ Stamped(closeQueue) /\ Stamped(closeEvents) /\ ReadOut

\* Only Exited asks a reader to close.
LEMMA CloseAsks ==
  ASSUME OwnTypes, LifeInv, PlanInv, [ProcNext]_procVars, NEW p \in Outs
  PROVE  \/ closesAsked'[p] = closesAsked[p]
         \/ Step(Main, "close") /\ p = Named(Main) /\ SameNatives /\ SameObject
<1>0. Outs \subseteq Pipes /\ ends["stdin"] \in Pipes \ Outs
      /\ closesAsked \in [Pipes -> Nat] /\ CloseCall \notin Blobs
  BY NativeAssumption, PipesAssumption DEF OwnTypes, PipeTypeOK
<1>1. ASSUME NEW r, NEW what, Enter(Main, r, what), r # p
      PROVE  closesAsked'[p] = closesAsked[p]
  <2>1. UNCHANGED closesAsked \/ closesAsked' = [closesAsked EXCEPT ![r] = @ + 1]
    BY <1>1 DEF Enter, QueueFor, QueueClose, QueueRead
  <2> QED
    BY <1>0, <1>1, <2>1
<1>2. CASE Calls /\ SameNatives /\ SameObject
  <2>1. CASE Step(Main, "close") /\ Enter(Main, Named(Main), CloseCall)
    BY <1>1, <1>2, <2>1
  <2>2. CASE MainFree /\ \E what \in ScriptBlobs \cup {CloseCall} : Enter(Main, ends["stdin"], what)
    BY <1>0, <1>1, <2>2
  <2>3. CASE UNCHANGED closesAsked
    BY <2>3
  <2> QED
    BY <1>2, <2>1, <2>2, <2>3 DEF Calls, Attach, Detach, FireEventAsynchronously, callVars, askedVars
<1>3. ASSUME NEW t \in Threads, WriteIn(t) \/ CallStep(t) PROVE closesAsked'[p] = closesAsked[p]
  BY <1>3, CallCloses DEF SameCloses
<1>4. CASE Loops
  BY <1>4 DEF Loops, Collect, CollectOthers, CollectCloses, LockReads, CollectRead, UnlockReads,
     FireRead, ReadsFired, FireClose, ClosesFired, OthersFired, askedVars
<1>5. CASE Quiet \/ UNCHANGED procVars
  BY <1>5 DEF Quiet, procVars, pipeVars, askedVars
<1>6. CASE MoreThanCalls
  <2>1. ASSUME NEW q \in Outs, fetched[q] # <<>>, Enter(q, q, Head(fetched[q]))
        PROVE  closesAsked'[p] = closesAsked[p]
    <3>1. Head(fetched[q]) \in Blobs
      BY <2>1, SequenceFacts DEF OwnTypes
    <3> QED
      BY <2>1, <3>1, QueuesRead DEF Enter, QueueRead
  <2>2. CASE FireExit \/ UNCHANGED pipeVars
    BY <2>2 DEF FireExit, FireOther, pipeVars, askedVars
  <2> QED
    BY <1>6, <2>1, <2>2, OtherFrames
<1> QED
  BY <1>2, <1>3, <1>4, <1>5, <1>6, Footprints

\* Who is over when Exited closes the readers.
LEMMA ClosesOver ==
  ASSUME OwnTypes, LifeInv, PlanInv, Step(Main, "close")
  PROVE  /\ Named(Main) \in Outs /\ polling[Named(Main)] # "on" /\ Named(Main)[2] = gen
         /\ \A n \in 1 .. Launches : home[n] # 0 => Over(n)
<1>1. Stream(Main) \in StreamSet
  BY StepStream DEF Step
<1>2. "close" \in Left(Main) /\ "invoke" \notin Left(Main)
  BY StepLeaves DEF LifeInv, Spent, Watching
<1>3. pid # 0 /\ Over(pid) /\ \A s \in StreamSet : polling[Out(s, gen)] # "on"
  BY <1>2 DEF LifeInv, Ending, Closing
<1>4. pid \in Nat /\ \A n \in 1 .. Launches : home[n] # 0 => n < pid \/ n = pid
  <2>1. pid \in Nat /\ \A n \in 1 .. Launches : n \in Nat
    BY ChildAssumption DEF LifeInv, LifeTypes
  <2>2. \A n \in 1 .. Launches : home[n] # 0 => n <= pid
    BY DEF LifeInv, Homes
  <2> QED
    BY <2>1, <2>2
<1>5. \A n \in 1 .. Launches : n < pid => Over(n)
  BY DEF LifeInv, Homes
<1> QED
  BY <1>1, <1>3, <1>4, <1>5, NativeNames DEF Named, Out

LEMMA ShutStep ==
  ASSUME OwnTypes, LifeInv, PlanInv, FlowInv, Shut, [ProcNext]_procVars
  PROVE  Shut'
<1> SUFFICES ASSUME NEW p \in Outs, closesAsked'[p] > 0
             PROVE  /\ polling'[p] # "on"
                    /\ \A n \in 1 .. Launches : home'[n] = p[2] => Over(n)'
  BY DEF Shut
<1>0. p[2] # 0 /\ p[1] \in StreamSet /\ p = Out(p[1], p[2]) /\ closesAsked[p] \in Nat
  <2>1. p[2] \in 1 .. Generations /\ p[1] \in StreamSet /\ p = Out(p[1], p[2])
    BY OutIsOut
  <2>2. closesAsked[p] \in Nat
    BY NativeAssumption DEF OwnTypes, PipeTypeOK
  <2> QED
    BY <2>1, <2>2, ChildAssumption
<1>1. CASE closesAsked[p] > 0
  <2>1. polling[p] # "on" /\ \A n \in 1 .. Launches : home[n] = p[2] => Over(n)
    BY <1>1 DEF Shut
  <2>2. polling'[p] # "on"
    <3>1. ASSUME StartMonitors, p \in NativePipesOf(gen) PROVE FALSE
      <4>1. "monitors" \in Left(Main)
        BY <3>1, StepLeaves DEF StartMonitors, LifeInv
      <4>2. PICK s \in StreamSet : p = Out(s, gen)
        BY <3>1, NativeNames DEF NativePipesOf
      <4>3. closesAsked[p] = 0
        BY <4>1, <4>2 DEF LifeInv, Unstarted
      <4> QED
        BY <1>1, <4>3
    <3> QED
      BY <2>1, <3>1, TurnsOn
  <2>3. ASSUME NEW n \in 1 .. Launches, home'[n] = p[2] PROVE home[n] = p[2]
    <3>1. CASE UNCHANGED home
      BY <2>3, <3>1
    <3>2. CASE ForkAndExec
      <4>1. "fork" \in Left(Main)
        BY <3>2, StepLeaves DEF ForkAndExec, LifeInv
      <4>2. Untouched(gen)
        BY <4>1 DEF LifeInv, NewPipes, Ready
      <4>3. p[2] # gen
        BY <1>0, <1>1, <4>2 DEF Untouched
      <4>4. home' = [home EXCEPT ![Count + 1] = gen] /\ home \in [1 .. Launches -> 0 .. Generations]
        BY <3>2 DEF ForkAndExec, LifeInv, LifeTypes
      <4> QED
        BY <2>3, <4>3, <4>4
    <3> QED
      BY <3>1, <3>2, FlowMoves DEF SameFlow, StartMonitors, ChildEnds, ChildWrites, SameLaunches,
         childVars
  <2> QED
    BY <2>1, <2>2, <2>3, OverLasts
<1>2. CASE Step(Main, "close") /\ p = Named(Main) /\ SameNatives /\ SameObject
  <2>1. UNCHANGED <<polling, home>>
    BY <1>2 DEF SameNatives, SameObject, childVars
  <2>2. polling[p] # "on" /\ \A n \in 1 .. Launches : home[n] # 0 => Over(n)
    BY <1>2, ClosesOver
  <2> QED
    BY <1>0, <2>1, <2>2, OverLasts
<1> QED
  BY <1>1, <1>2, CloseAsks

\* What has been given to the listeners of a pipe only grows.
LEMMA DeliveredGrows ==
  ASSUME OwnTypes, LifeInv, PlanInv, [ProcNext]_procVars, NEW p \in Pipes
  PROVE  Len(delivered[p]) \in Nat /\ Len(delivered'[p]) \in Nat /\ Len(delivered[p]) <= Len(delivered'[p])
<1>1. PipeTypeOK /\ PipeTypeOK'
  BY PipesStep DEF OwnTypes
<1>2. delivered[p] \in Seq(Blobs) /\ delivered'[p] \in Seq(Blobs)
  BY <1>1 DEF PipeTypeOK
<1>3. CASE UNCHANGED delivered
  BY <1>2, <1>3
<1>4. CASE FireRead
  <2>1. readEvents \in Seq(ReadEntry) /\ readEvents # <<>>
    BY <1>1, <1>4 DEF FireRead, PipeTypeOK
  <2>2. Head(readEvents) \in ReadEntry
    BY <2>1, TailFacts
  <2>3. Head(readEvents).glob \in Seq(Blobs)
    BY <2>2, ReadEntryFields
  <2>4. delivered'[p] = delivered[p] \/ delivered'[p] = delivered[p] \o Head(readEvents).glob
    BY <1>1, <1>4 DEF FireRead, PipeTypeOK
  <2>5. \A s, t \in Seq(Blobs) : Len(s \o t) = Len(s) + Len(t) /\ Len(s) \in Nat /\ Len(t) \in Nat
    OBVIOUS
  <2>6. Len(delivered'[p]) = Len(delivered[p]) \/ Len(delivered'[p]) = Len(delivered[p]) + Len(Head(readEvents).glob)
    BY <1>2, <2>3, <2>4, <2>5
  <2>7. Len(delivered[p]) \in Nat /\ Len(Head(readEvents).glob) \in Nat
    BY <1>2, <2>3, <2>5
  <2>8. \A m, k \in Nat : m + k \in Nat /\ m <= m + k /\ m <= m
    OBVIOUS
  <2> QED
    BY <2>6, <2>7, <2>8
<1>5. ASSUME NEW t \in Threads, WriteIn(t) PROVE UNCHANGED delivered
  BY <1>5 DEF WriteIn, firedVars
<1>6. CASE [PipeNext]_pipeVars
  <2>1. CASE QueueStep
    BY <1>3, <2>1 DEF QueueStep, firedVars
  <2>2. CASE FireEvents
    BY <1>3, <1>4, <2>2 DEF FireEvents, Collect, CollectOthers, CollectCloses, LockReads, CollectRead,
       UnlockReads, Fire, ReadsFired, FireClose, ClosesFired, FireOther, OthersFired, firedVars
  <2> QED
    BY <1>1, <1>6, <2>1, <2>2, StepCases
<1> QED
  BY <1>3, <1>5, <1>6, PipeMoves

\* How the CLOSEs on their way change.
LEMMA CloseMoves ==
  ASSUME OwnTypes, LifeInv, PlanInv, [ProcNext]_procVars
  PROVE  \/ UNCHANGED <<closeQueue, closeEvents, closesAsked, closesFired>>
         \/ (\E p \in Pipes : QueueClose(p)) /\ UNCHANGED <<closeEvents, closesFired>>
         \/ CollectCloses
         \/ FireClose
<1>1. PipeTypeOK
  BY DEF OwnTypes
<1>2. CASE \E t \in Threads : WriteIn(t)
  BY <1>2 DEF WriteIn, queueVars, loopVars, askedVars, firedVars
<1>3. CASE QueueStep
  BY <1>3 DEF QueueStep, QueueRead, queueVars, loopVars, askedVars, firedVars
<1>4. CASE FireEvents
  BY <1>4 DEF FireEvents, Collect, CollectOthers, LockReads, CollectRead, UnlockReads, Fire, FireRead,
     ReadsFired, ClosesFired, FireOther, OthersFired, queueVars, askedVars, firedVars
<1> QED
  BY <1>1, <1>2, <1>3, <1>4, PipeMoves, StepCases

\* Nothing is written to a reader that was asked to close.
LEMMA ShutFrozen ==
  ASSUME OwnTypes, LifeInv, PlanInv, FlowInv, Shut, [ProcNext]_procVars,
         NEW p \in Outs, closesAsked[p] > 0
  PROVE  closesAsked'[p] > 0 /\ written'[p] = written[p]
<1>0. p \in Pipes /\ closesAsked \in [Pipes -> Nat] /\ written \in [Pipes -> Seq(Blobs)]
  BY NativeAssumption DEF OwnTypes, PipeTypeOK
<1>1. closesAsked'[p] > 0
  <2>1. ASSUME NEW q \in Pipes, QueueClose(q) PROVE closesAsked'[p] > 0
    <3>1. closesAsked'[p] = closesAsked[p] \/ closesAsked'[p] = closesAsked[p] + 1
      BY <1>0, <2>1 DEF QueueClose
    <3> QED
      BY <1>0, <3>1
  <2>2. CASE UNCHANGED closesAsked
    BY <2>2
  <2> QED
    BY <2>1, <2>2, CloseMoves DEF CollectCloses, FireClose, askedVars
<1>2. written'[p] = written[p]
  <2>1. CASE SamePipes
    BY <2>1 DEF SamePipes
  <2>2. ASSUME NEW q \in Outs, PassOn(q) PROVE written'[p] = written[p]
    <3>1. q # p
      BY <2>2 DEF PassOn, FlowInv, Readers, Shut
    <3>2. UNCHANGED written \/ \E b : written' = [written EXCEPT ![q] = Append(@, b)]
      BY <2>2 DEF PassOn, Enter, QueueFor, QueueRead, QueueClose
    <3> QED
      BY <1>0, <3>1, <3>2
  <2> QED
    BY <2>1, <2>2, FlowMoves
<1> QED
  BY <1>1, <1>2

LEMMA ClosedStep ==
  ASSUME OwnTypes, LifeInv, PlanInv, PipeInv, FlowInv, ClosedInv, [ProcNext]_procVars
  PROVE  ClosedInv'
<1>0. /\ Outs \subseteq Pipes /\ closesAsked \in [Pipes -> Nat] /\ written \in [Pipes -> Seq(Blobs)]
      /\ closeQueue \in Seq(CloseEntry) /\ closeEvents \in Seq(CloseEntry) /\ PipeTypeOK
      /\ closesFired \in [Pipes -> SUBSET Nat]
  BY NativeAssumption DEF OwnTypes, PipeTypeOK
<1>1. Shut'
  BY ShutStep DEF ClosedInv
<1>2. \A p \in Outs : closesAsked[p] > 0 => closesAsked'[p] > 0 /\ written'[p] = written[p]
  BY ShutFrozen DEF ClosedInv
<1> DEFINE Good(e) == e.pipe \in Outs => closesAsked[e.pipe] > 0 /\ e.after = Len(written[e.pipe])
           Still(e) == e.pipe \in Outs => closesAsked'[e.pipe] > 0 /\ e.after = Len(written'[e.pipe])
<1>3. /\ \A i \in DOMAIN closeQueue : Good(closeQueue[i])
      /\ \A i \in DOMAIN closeEvents : Good(closeEvents[i])
  BY DEF ClosedInv, Stamped
<1>4. \A e : Good(e) => Still(e)
  BY <1>2
<1>5. ASSUME NEW p \in Pipes, QueueClose(p), UNCHANGED <<closeEvents, closesFired>>
      PROVE  Stamped(closeQueue)' /\ Stamped(closeEvents)'
  <2> DEFINE e == [pipe |-> p, nth |-> closesAsked[p] + 1, after |-> Len(written[p])]
  <2>1. /\ closeQueue' = Append(closeQueue, e) /\ closesAsked'[p] = closesAsked[p] + 1
        /\ written' = written
    BY <1>0, <1>5 DEF QueueClose
  <2>2. e \in CloseEntry /\ closesAsked[p] \in Nat
    BY <1>0 DEF CloseEntry
  <2>3. Still(e)
    BY <2>1, <2>2
  <2>4. ASSUME NEW i \in DOMAIN closeQueue' PROVE Still(closeQueue'[i])
    <3>1. DOMAIN closeQueue' = 1 .. Len(closeQueue) + 1 /\ Len(closeQueue) \in Nat
          /\ DOMAIN closeQueue = 1 .. Len(closeQueue)
      BY <1>0, <2>1, <2>2, AppendFacts
    <3>2. i \in DOMAIN closeQueue \/ i = Len(closeQueue) + 1
      BY <3>1
    <3>3. ASSUME i \in DOMAIN closeQueue PROVE closeQueue'[i] = closeQueue[i]
      BY <1>0, <2>1, <2>2, <3>1, <3>3, AppendFacts
    <3>4. ASSUME i = Len(closeQueue) + 1 PROVE closeQueue'[i] = e
      BY <1>0, <2>1, <2>2, <3>4, AppendFacts
    <3> HIDE DEF e
    <3>5. CASE i \in DOMAIN closeQueue
      BY <1>3, <1>4, <3>3, <3>5
    <3>6. CASE i = Len(closeQueue) + 1
      BY <2>3, <3>4, <3>6
    <3> QED
      BY <3>2, <3>5, <3>6
  <2>5. Stamped(closeEvents)'
    BY <1>3, <1>4, <1>5 DEF Stamped
  <2> QED
    BY <2>4, <2>5 DEF Stamped
<1>6. ASSUME CollectCloses PROVE Stamped(closeQueue)' /\ Stamped(closeEvents)'
  <2>1. closeEvents' = closeQueue /\ closeQueue' = <<>> /\ UNCHANGED <<closesAsked, written>>
    BY <1>6 DEF CollectCloses, askedVars
  <2>2. DOMAIN <<>> = {}
    OBVIOUS
  <2> QED
    BY <1>3, <2>1, <2>2 DEF Stamped
<1>7. ASSUME FireClose PROVE Stamped(closeQueue)' /\ Stamped(closeEvents)'
  <2>1. closeEvents' = Tail(closeEvents) /\ closeEvents # <<>> /\ UNCHANGED <<closeQueue, closesAsked, written>>
    BY <1>7 DEF FireClose, queueVars, askedVars
  <2>2. \A i \in DOMAIN closeEvents' : i + 1 \in DOMAIN closeEvents /\ closeEvents'[i] = closeEvents[i + 1]
    <3>1. /\ Tail(closeEvents) \in Seq(CloseEntry) /\ Len(Tail(closeEvents)) = Len(closeEvents) - 1
          /\ \A i \in 1 .. Len(Tail(closeEvents)) : Tail(closeEvents)[i] = closeEvents[i + 1]
          /\ DOMAIN closeEvents = 1 .. Len(closeEvents) /\ Len(closeEvents) \in Nat
      BY <1>0, <2>1, TailFacts
    <3>2. DOMAIN Tail(closeEvents) = 1 .. Len(Tail(closeEvents))
      BY <3>1
    <3> QED
      BY <2>1, <3>1, <3>2
  <2> QED
    BY <1>3, <2>1, <2>2 DEF Stamped
<1>8. ASSUME UNCHANGED <<closeQueue, closeEvents>> PROVE Stamped(closeQueue)' /\ Stamped(closeEvents)'
  BY <1>3, <1>4, <1>8 DEF Stamped
<1>9. ReadOut'
  <2> SUFFICES ASSUME NEW p \in Outs, closesFired'[p] # {}
               PROVE  closesAsked'[p] > 0 /\ Len(written'[p]) <= Len(delivered'[p])
    BY DEF ReadOut
  <2>1. /\ Len(delivered[p]) \in Nat /\ Len(delivered'[p]) \in Nat
        /\ Len(delivered[p]) <= Len(delivered'[p]) /\ Len(written[p]) \in Nat
    BY <1>0, DeliveredGrows
  <2>2. CASE closesAsked[p] > 0 /\ Len(written[p]) <= Len(delivered[p])
    <3>1. closesAsked'[p] > 0 /\ written'[p] = written[p]
      BY <1>2, <2>2
    <3> QED
      BY <2>1, <2>2, <3>1
  <2>3. CASE FireClose
    <3> DEFINE h == Head(closeEvents)
    <3>1. pc = "fireCloses" /\ closeEvents # <<>> /\ UNCHANGED <<closesAsked, written, delivered>>
          /\ closesFired' = [closesFired EXCEPT ![h.pipe] = @ \cup {h.nth}]
      BY <2>3 DEF FireClose, askedVars
    <3>2. h = closeEvents[1] /\ 1 \in DOMAIN closeEvents
      BY <1>0, <3>1, TailFacts
    <3>3. CloseAfterData
      BY <1>0, ReadBeforeClose DEF PipeInv
    <3> HIDE DEF h
    <3>4. CASE h.pipe = p
      <4>1. closesAsked[p] > 0 /\ h.after = Len(written[p]) /\ h.after <= Len(delivered[p])
        BY <1>3, <3>1, <3>2, <3>3, <3>4 DEF CloseAfterData
      <4> QED
        BY <3>1, <4>1
    <3>5. CASE h.pipe # p
      <4>1. closesFired[p] # {}
        BY <1>0, <3>1, <3>5
      <4> QED
        BY <3>1, <4>1 DEF ClosedInv, ReadOut
    <3> QED
      BY <3>4, <3>5
  <2>4. CASE UNCHANGED closesFired
    BY <2>2, <2>4 DEF ClosedInv, ReadOut
  <2> QED
    BY <2>3, <2>4, CloseMoves DEF CollectCloses, firedVars
<1> QED
  BY <1>1, <1>5, <1>6, <1>7, <1>8, <1>9, CloseMoves DEF ClosedInv

LEMMA ClosedInit == ProcInit => ClosedInv
<1> SUFFICES ASSUME ProcInit PROVE ClosedInv
  OBVIOUS
<1>1. /\ closesAsked = [p \in Pipes |-> 0] /\ closesFired = [p \in Pipes |-> {}]
      /\ closeQueue = <<>> /\ closeEvents = <<>>
  BY DEF ProcInit, Unused
<1>2. Outs \subseteq Pipes /\ DOMAIN <<>> = {} /\ ~(0 > 0)
  BY NativeAssumption
<1> QED
  BY <1>1, <1>2 DEF ClosedInv, Shut, Stamped, ReadOut

-----------------------------------------------------------------------------
(* EXIT comes after the output.                                            *)

\* What the child of launch n wrote to s is among the first k blobs given to p.
GivenBy(n, s, p, k) ==
  \A b \in Produced(n, s) : \E i \in DOMAIN written[p] : i <= k /\ written[p][i] = b

\* All the child of launch n wrote had been given to its pipes when the pipes had
\* been given as much as len says.
Within(n, len) ==
  \A s \in StreamSet : GivenBy(n, s, Out(s, home[n]), len[Out(s, home[n])])
                       /\ GivenBy(n, s, ends[s], len[ends[s]])

ReadSoFar == [p \in Pipes |-> Len(delivered[p])]

StampInv ==
  /\ \A i \in DOMAIN otherEvents : Within(otherEvents[i].event, otherEvents[i].after)
  /\ \A i \in DOMAIN otherCopy : Within(otherCopy[i].event, otherCopy[i].after)
  /\ \A i \in DOMAIN exits : Synchronous(exits[i]) \/ Within(exits[i], ReadSoFar)

\* What a pipe's listeners have read is what it was given first.
LEMMA ReadPrefix ==
  ASSUME PipeTypeOK, ReadsInv, NEW p \in Pipes, NEW i \in DOMAIN written[p], i <= Len(delivered[p])
  PROVE  written[p][i] \in Range(delivered[p])
<1>1. /\ delivered[p] \in Seq(Blobs) /\ readData[p] \in Seq(Blobs) /\ written[p] \in Seq(Blobs)
      /\ readEvents \in Seq(ReadEntry)
  BY DEF PipeTypeOK
<1>2. PICK r \in Seq(Blobs) : written[p] = delivered[p] \o r
  <2>1. CASE Pending(readEvents, p) = {}
    BY <1>1, <2>1 DEF ReadsInv, DataInOrder
  <2>2. ASSUME NEW j \in Pending(readEvents, p) PROVE \E r \in Seq(Blobs) : written[p] = delivered[p] \o r
    <3>1. readEvents[j].glob \in Seq(Blobs)
      <4>1. j \in DOMAIN readEvents
        BY DEF Pending
      <4>2. readEvents[j] \in ReadEntry
        BY <1>1, <4>1, ElementType
      <4> QED
        BY <4>2, ReadEntryFields
    <3>2. written[p] = delivered[p] \o readEvents[j].glob \o readData[p]
      BY DEF ReadsInv, DataInOrder
    <3>3. \A s, t, u \in Seq(Blobs) : s \o t \o u = s \o (t \o u) /\ t \o u \in Seq(Blobs)
      OBVIOUS
    <3>4. readEvents[j].glob \o readData[p] \in Seq(Blobs)
      BY <1>1, <3>1, <3>3
    <3>5. written[p] = delivered[p] \o (readEvents[j].glob \o readData[p])
      <4>1. delivered[p] \in Seq(Blobs) /\ readData[p] \in Seq(Blobs)
        BY <1>1
      <4> QED
        BY <3>1, <3>2, <3>3, <4>1
    <3> QED
      BY <3>4, <3>5
  <2> QED
    BY <2>1, <2>2
<1>3. Len(delivered[p]) \in Nat /\ DOMAIN delivered[p] = 1 .. Len(delivered[p])
      /\ DOMAIN written[p] = 1 .. Len(written[p]) /\ Len(written[p]) \in Nat
  BY <1>1
<1>4. i \in 1 .. Len(delivered[p])
  BY <1>3
<1>5. \A s, t \in Seq(Blobs) : \A k \in 1 .. Len(s) : (s \o t)[k] = s[k]
  OBVIOUS
<1>6. written[p][i] = delivered[p][i]
  BY <1>1, <1>2, <1>4, <1>5
<1> QED
  BY <1>3, <1>4, <1>6 DEF Range

LEMMA ReadAll ==
  ASSUME PipeTypeOK, ReadsInv, NEW p \in Pipes, Len(written[p]) <= Len(delivered[p])
  PROVE  Range(written[p]) \subseteq Range(delivered[p])
<1>1. ASSUME NEW i \in DOMAIN written[p] PROVE written[p][i] \in Range(delivered[p])
  <2>1. /\ Len(written[p]) \in Nat /\ Len(delivered[p]) \in Nat /\ DOMAIN written[p] = 1 .. Len(written[p])
    BY DEF PipeTypeOK
  <2>2. i <= Len(delivered[p])
    BY <2>1
  <2> QED
    BY <2>2, ReadPrefix
<1> QED
  BY <1>1 DEF Range

LEMMA CloseIsLast ==
  ASSUME OwnTypes, PipeInv, LifeInv, FlowInv, ClosedInv
  PROVE  NothingAfterClose
<1> SUFFICES ASSUME NEW n \in 1 .. Launches, NEW s \in StreamSet, home[n] # 0,
                    closesFired[Out(s, home[n])] # {}
             PROVE  Produced(n, s) \subseteq Range(delivered[Out(s, home[n])])
  BY DEF NothingAfterClose
<1> DEFINE p == Out(s, home[n])
<1>1. home[n] \in 1 .. Generations
  BY ChildAssumption DEF LifeInv, LifeTypes
<1>2. p \in Outs /\ p[2] = home[n] /\ p \in Pipes
  BY <1>1, OutIsOut, NativeAssumption DEF Out
<1>3. closesAsked[p] > 0 /\ Len(written[p]) <= Len(delivered[p])
  BY <1>2 DEF ClosedInv, ReadOut
<1>4. Over(n)
  BY <1>2, <1>3 DEF ClosedInv, Shut
<1>5. Range(written[p]) \subseteq Range(delivered[p])
  BY <1>2, <1>3, ReadAll DEF OwnTypes, PipeInv
<1> QED
  BY <1>4, <1>5, OverIsWritten

\* A launch keeps its native pipes, and the script's pipes they lead to.
LEMMA HomeStays ==
  ASSUME OwnTypes, LifeInv, PlanInv, FlowInv, [ProcNext]_procVars, NEW n \in 1 .. Launches, home[n] # 0
  PROVE  home'[n] = home[n] /\ ends' = ends
<1>1. home'[n] = home[n]
  <2>1. CASE UNCHANGED home
    BY <2>1
  <2>2. CASE ForkAndExec
    <3>1. Count = pid /\ home' = [home EXCEPT ![Count + 1] = gen]
      BY <2>2, CountIsPid DEF ForkAndExec, LifeInv
    <3>2. pid \in Nat /\ n \in Nat /\ n <= pid
      BY ChildAssumption DEF LifeInv, LifeTypes, Homes
    <3>3. n # pid + 1
      BY <3>2
    <3> QED
      BY <3>1, <3>3 DEF LifeInv, LifeTypes
  <2> QED
    BY <2>1, <2>2, FlowMoves DEF SameFlow, StartMonitors, ChildEnds, ChildWrites, SameLaunches, childVars
<1>2. ends' = ends
  BY EndsTyped, NoneUsed
<1> QED
  BY <1>1, <1>2

\* A child that is over writes no more.
LEMMA OverIsSilent ==
  ASSUME OwnTypes, LifeInv, PlanInv, [ProcNext]_procVars, NEW n \in 1 .. Launches, Over(n)
  PROVE  produced'[n] = produced[n]
<1>1. ASSUME NEW m \in 1 .. Launches, NEW s \in StreamSet, ChildWrites(m, s)
      PROVE  produced'[n] = produced[n]
  <2>1. child[m] = "alive" /\ child[n] = "reaped" /\ produced' = [produced EXCEPT ![m][s] = @ + 1]
    BY <1>1 DEF ChildWrites, Over
  <2> QED
    BY <2>1 DEF OwnTypes
<1>2. CASE UNCHANGED produced
  BY <1>2
<1> QED
  BY <1>1, <1>2, FlowMoves DEF SameFlow, ForkAndExec, StartMonitors, ChildEnds, SameLaunches, childVars

\* Once a child is over, what has been said of its output stays true.
LEMMA GivenLasts ==
  ASSUME OwnTypes, LifeInv, PlanInv, FlowInv, [ProcNext]_procVars,
         NEW n \in 1 .. Launches, Over(n), NEW s \in StreamSet, NEW p \in Pipes,
         NEW k \in Nat, NEW m \in Nat, k <= m, GivenBy(n, s, p, k)
  PROVE  GivenBy(n, s, p, m)'
<1>1. Produced(n, s)' = Produced(n, s)
  BY OverIsSilent DEF Produced
<1>2. Extends(written[p], written'[p])
  BY WrittenGrows
<1>3. written[p] \in Seq(Blobs) /\ written'[p] \in Seq(Blobs)
  <2>1. PipeTypeOK /\ PipeTypeOK'
    BY PipesStep DEF OwnTypes
  <2> QED
    BY <2>1 DEF PipeTypeOK
<1>4. \A i \in DOMAIN written[p] : i \in DOMAIN written'[p] /\ written'[p][i] = written[p][i] /\ i \in Nat
  <2>1. /\ DOMAIN written[p] = 1 .. Len(written[p]) /\ DOMAIN written'[p] = 1 .. Len(written'[p])
        /\ Len(written[p]) \in Nat /\ Len(written'[p]) \in Nat
    BY <1>3
  <2> QED
    BY <1>2, <2>1 DEF Extends
<1>5. ASSUME NEW b \in Produced(n, s) PROVE \E i \in DOMAIN written'[p] : i <= m /\ written'[p][i] = b
  <2>1. PICK i \in DOMAIN written[p] : i <= k /\ written[p][i] = b
    BY DEF GivenBy
  <2>2. i <= m
    BY <1>4, <2>1
  <2> QED
    BY <1>4, <2>1, <2>2
<1> QED
  BY <1>1, <1>5 DEF GivenBy

LEMMA WithinLasts ==
  ASSUME OwnTypes, LifeInv, PlanInv, FlowInv, [ProcNext]_procVars,
         NEW n \in 1 .. Launches, Over(n), NEW len, NEW more,
         \A p \in Pipes : len[p] \in Nat /\ more[p] \in Nat /\ len[p] <= more[p],
         Within(n, len)
  PROVE  Within(n, more)'
<1>1. home'[n] = home[n] /\ ends' = ends
  BY HomeStays DEF Over
<1>2. ASSUME NEW s \in StreamSet
      PROVE  GivenBy(n, s, Out(s, home[n]), more[Out(s, home[n])])' /\ GivenBy(n, s, ends[s], more[ends[s]])'
  <2>1. PICK p, q : p = Out(s, home[n]) /\ q = ends[s]
    OBVIOUS
  <2>2. p \in Pipes /\ q \in Pipes
    <3>1. home[n] \in 1 .. Generations
      BY ChildAssumption DEF LifeInv, LifeTypes, Over
    <3> QED
      BY <2>1, <3>1, OutIsOut, NativeAssumption DEF OwnTypes
  <2>3. GivenBy(n, s, p, len[p]) /\ GivenBy(n, s, q, len[q])
    BY <2>1 DEF Within
  <2>4. PICK kp, kq, mp, mq : kp = len[p] /\ kq = len[q] /\ mp = more[p] /\ mq = more[q]
    OBVIOUS
  <2>5. GivenBy(n, s, p, mp)'
    BY <2>2, <2>3, <2>4, GivenLasts
  <2>6. GivenBy(n, s, q, mq)'
    BY <2>2, <2>3, <2>4, GivenLasts
  <2>7. Out(s, home[n])' = p /\ (ends[s])' = q
    BY <1>1, <2>1 DEF Out
  <2> QED
    BY <2>4, <2>5, <2>6, <2>7 DEF GivenBy
<1> QED
  BY <1>2 DEF Within

\* What has been given when EXIT is queued, and what has been read when it is fired.
LEMMA WithinNow ==
  ASSUME OwnTypes, LifeInv, FlowInv, LinkInv, NEW n \in 1 .. Launches, Over(n)
  PROVE  Within(n, [p \in Pipes |-> Len(written[p])])
<1>1. ASSUME NEW s \in StreamSet, NEW p \in Pipes, Produced(n, s) \subseteq Range(written[p])
      PROVE  GivenBy(n, s, p, Len(written[p]))
  <2>1. written[p] \in Seq(Blobs)
    BY DEF OwnTypes, PipeTypeOK
  <2>2. \A i \in DOMAIN written[p] : i <= Len(written[p])
    BY <2>1
  <2> QED
    BY <1>1, <2>2 DEF GivenBy, Range
<1>2. \A s \in StreamSet : /\ Out(s, home[n]) \in Pipes /\ ends[s] \in Pipes
                           /\ GivenBy(n, s, Out(s, home[n]), Len(written[Out(s, home[n])]))
                           /\ GivenBy(n, s, ends[s], Len(written[ends[s]]))
  BY <1>1, OverIsForwarded
<1> QED
  BY <1>2 DEF Within

LEMMA WithinMore ==
  ASSUME OwnTypes, LifeInv, NEW n \in 1 .. Launches, Over(n), NEW len, NEW more,
         \A p \in Pipes : len[p] \in Nat /\ more[p] \in Nat /\ len[p] <= more[p],
         Within(n, len)
  PROVE  Within(n, more)
<1>1. ASSUME NEW s \in StreamSet, NEW p \in Pipes, GivenBy(n, s, p, len[p])
      PROVE  GivenBy(n, s, p, more[p])
  <2>1. \A i \in DOMAIN written[p] : i \in Nat
    <3>1. written[p] \in Seq(Blobs)
      BY DEF OwnTypes, PipeTypeOK
    <3> QED
      BY <3>1
  <2>2. \A i \in Nat : i <= len[p] => i <= more[p]
    <3>1. len[p] \in Nat /\ more[p] \in Nat /\ len[p] <= more[p]
      OBVIOUS
    <3> QED
      BY <3>1
  <2> QED
    BY <1>1, <2>1, <2>2 DEF GivenBy
<1>2. \A s \in StreamSet : Out(s, home[n]) \in Pipes /\ ends[s] \in Pipes
  <2>1. home[n] \in 1 .. Generations
    BY ChildAssumption DEF LifeInv, LifeTypes, Over
  <2> QED
    BY <2>1, OutIsOut, NativeAssumption DEF OwnTypes
<1> QED
  BY <1>1, <1>2 DEF Within

\* Within in the state after a step.
WithinThen(n, len) ==
  \A s \in StreamSet :
    \A b \in {ChildBlob(s, n, k) : k \in 1 .. produced'[n][s]} :
      /\ \E i \in DOMAIN written'[<<s, home'[n]>>] :
           i <= len[<<s, home'[n]>>] /\ written'[<<s, home'[n]>>][i] = b
      /\ \E i \in DOMAIN written'[ends'[s]] : i <= len[ends'[s]] /\ written'[ends'[s]][i] = b

SynchronousThen(n) == \E i \in DOMAIN returned' : returned'[i].launch = n

LEMMA ThenWithin ==
  ASSUME NEW n, NEW len
  PROVE  Within(n, len)' <=> WithinThen(n, len)
BY DEF Within, WithinThen, GivenBy, Produced, Out

LEMMA StampedThen ==
  ASSUME \A i \in DOMAIN otherEvents' : WithinThen(otherEvents'[i].event, otherEvents'[i].after),
         \A i \in DOMAIN otherCopy' : WithinThen(otherCopy'[i].event, otherCopy'[i].after),
         \A i \in DOMAIN exits' : SynchronousThen(exits'[i]) \/ WithinThen(exits'[i], ReadSoFar')
  PROVE  StampInv'
<1>1. ASSUME NEW i \in DOMAIN otherEvents'
      PROVE  Within(otherEvents[i].event, otherEvents[i].after)'
  <2>1. WithinThen(otherEvents'[i].event, otherEvents'[i].after)
    OBVIOUS
  <2> QED
    BY <2>1 DEF Within, WithinThen, GivenBy, Produced, Out
<1>2. ASSUME NEW i \in DOMAIN otherCopy'
      PROVE  Within(otherCopy[i].event, otherCopy[i].after)'
  <2>1. WithinThen(otherCopy'[i].event, otherCopy'[i].after)
    OBVIOUS
  <2> QED
    BY <2>1 DEF Within, WithinThen, GivenBy, Produced, Out
<1>3. ASSUME NEW i \in DOMAIN exits'
      PROVE  Synchronous(exits[i])' \/ Within(exits[i], ReadSoFar)'
  <2>1. CASE SynchronousThen(exits'[i])
    BY <2>1 DEF Synchronous, SynchronousThen
  <2>2. CASE WithinThen(exits'[i], ReadSoFar')
    BY <2>2 DEF Within, WithinThen, GivenBy, Produced, Out
  <2> QED
    BY <2>1, <2>2
<1> QED
  BY <1>1, <1>2, <1>3 DEF StampInv

\* All the events of a step are about launches that are over.
LEMMA StampStep ==
  ASSUME OwnTypes, LifeInv, PlanInv, PipeInv, SaidTypes, OnceInv, FlowInv, LinkInv, StampInv,
         [ProcNext]_procVars
  PROVE  StampInv'
<1>1. /\ exits \in Seq(1 .. Launches) /\ otherEvents \in Seq(OtherEntry) /\ otherCopy \in Seq(OtherEntry)
      /\ written \in [Pipes -> Seq(Blobs)] /\ PipeTypeOK
  BY DEF SaidTypes, OwnTypes, PipeTypeOK
<1>2. \A n : Synchronous(n) => Synchronous(n)'
  BY SaidStep
<1>3. \A p \in Pipes : /\ Len(delivered[p]) \in Nat /\ Len(delivered'[p]) \in Nat
                       /\ Len(delivered[p]) <= Len(delivered'[p]) /\ Len(written[p]) \in Nat
  BY <1>1, DeliveredGrows
<1> DEFINE Fine(e) == Within(e.event, e.after) /\ e.event \in 1 .. Launches /\ Over(e.event)
                      /\ \A p \in Pipes : e.after[p] \in Nat
<1>4. /\ \A i \in DOMAIN otherEvents : Fine(otherEvents[i])
      /\ \A i \in DOMAIN otherCopy : Fine(otherCopy[i])
  <2>1. \A i \in DOMAIN otherEvents : otherEvents[i] \in OtherEntry /\ otherEvents[i].event \in 1 .. Launches
                                      /\ Over(otherEvents[i].event)
    BY <1>1, ElementType, ToldTyped DEF Told, OnceInv
  <2>2. \A i \in DOMAIN otherCopy : otherCopy[i] \in OtherEntry /\ otherCopy[i].event \in 1 .. Launches
                                    /\ Over(otherCopy[i].event)
    BY <1>1, ElementType, ToldTyped DEF Told, OnceInv
  <2> QED
    BY <2>1, <2>2, OtherEntryFields DEF StampInv
<1>5. ASSUME NEW e, Fine(e) PROVE WithinThen(e.event, e.after)
  <2>1. PICK n, len : n = e.event /\ len = e.after
    OBVIOUS
  <2>2. \A p \in Pipes : len[p] \in Nat /\ len[p] <= len[p]
    BY <1>5, <2>1
  <2>3. WithinThen(n, len)
    BY <1>5, <2>1, <2>2, WithinLasts, ThenWithin
  <2> QED
    BY <2>1, <2>3
<1>6. ASSUME NEW n \in 1 .. Launches, Over(n), NEW len, Within(n, len),
             \A p \in Pipes : len[p] \in Nat /\ len[p] <= Len(delivered[p])
      PROVE  WithinThen(n, ReadSoFar')
  <2>1. PICK more : more = ReadSoFar'
    OBVIOUS
  <2>2. \A p \in Pipes : len[p] \in Nat /\ more[p] \in Nat /\ len[p] <= more[p]
    <3>1. \A p \in Pipes : more[p] = Len(delivered'[p])
      BY <2>1 DEF ReadSoFar
    <3> QED
      BY <1>3, <1>6, <3>1
  <2>3. WithinThen(n, more)
    BY <1>6, <2>2, WithinLasts, ThenWithin
  <2> QED
    BY <2>1, <2>3
<1>7. \A i \in DOMAIN exits : SynchronousThen(exits[i]) \/ WithinThen(exits[i], ReadSoFar')
  <2>1. ASSUME NEW i \in DOMAIN exits, Synchronous(exits[i]) PROVE SynchronousThen(exits[i])
    <3>1. PICK n : n = exits[i]
      OBVIOUS
    <3>2. Synchronous(n)'
      BY <1>2, <2>1, <3>1
    <3> QED
      BY <3>1, <3>2 DEF Synchronous, SynchronousThen
  <2>2. ASSUME NEW i \in DOMAIN exits, Within(exits[i], ReadSoFar)
        PROVE  WithinThen(exits[i], ReadSoFar')
    <3>1. exits[i] \in 1 .. Launches /\ Over(exits[i])
      BY <1>1, ElementType DEF Told, OnceInv
    <3>2. \A p \in Pipes : ReadSoFar[p] \in Nat /\ ReadSoFar[p] <= Len(delivered[p])
      BY <1>3 DEF ReadSoFar
    <3> QED
      BY <1>6, <2>2, <3>1, <3>2
  <2> QED
    BY <2>1, <2>2 DEF StampInv
<1> DEFINE Then(e) == WithinThen(e.event, e.after)
<1>8. (\A i \in DOMAIN otherEvents : Then(otherEvents[i])) /\ (\A i \in DOMAIN otherCopy : Then(otherCopy[i]))
  BY <1>4, <1>5
<1> HIDE DEF Fine
<1>9. CASE NoneFired
  BY <1>7, <1>8, <1>9, StampedThen DEF NoneFired
<1>10. CASE OthersTaken
  <2>1. otherCopy' = otherEvents /\ otherEvents' = <<>> /\ exits' = exits /\ DOMAIN <<>> = {}
    BY <1>10 DEF OthersTaken
  <2> QED
    BY <1>7, <1>8, <2>1, StampedThen
<1>11. CASE Step(Main, "fireLater") /\ OneLater
  <2>1. PICK e : e = OtherStamp(pid)
    OBVIOUS
  <2>2. UNCHANGED <<exits, otherCopy>> /\ otherEvents' = Append(otherEvents, e)
    BY <1>11, <2>1 DEF OneLater
  <2>3. e.event = pid /\ e.after = [p \in Pipes |-> Len(written[p])]
    BY <2>1 DEF OtherStamp
  <2>4. pid \in 1 .. Launches /\ Over(pid)
    BY <1>11, FiresEnded DEF Fires
  <2>5. Within(pid, [p \in Pipes |-> Len(written[p])])
    BY <2>4, WithinNow
  <2>6. Fine(e)
    BY <1>3, <2>3, <2>4, <2>5 DEF Fine
  <2>7. Then(e)
    BY <1>5, <2>6
  <2>8. \A i \in DOMAIN otherEvents' : (i \in DOMAIN otherEvents /\ otherEvents'[i] = otherEvents[i])
                                        \/ otherEvents'[i] = e
    BY <1>1, <2>2
  <2> HIDE DEF Then
  <2>9. \A i \in DOMAIN otherEvents' : Then(otherEvents'[i])
    BY <1>8, <2>7, <2>8
  <2>10. \A i \in DOMAIN otherCopy' : Then(otherCopy'[i])
    BY <1>8, <2>2
  <2>11. \A i \in DOMAIN exits' : SynchronousThen(exits'[i]) \/ WithinThen(exits'[i], ReadSoFar')
    BY <1>7, <2>2
  <2> QED
    BY <2>9, <2>10, <2>11, StampedThen DEF Then
<1>12. CASE Step(Main, "fireNow") /\ OneNow
  <2>1. PICK m : m = pid
    OBVIOUS
  <2>2. SynchronousThen(m)
    <3>1. Synchronous(m)
      BY <1>12, <2>1, FiresEnded DEF Fires
    <3>2. Synchronous(m)'
      BY <1>2, <3>1
    <3> QED
      BY <3>2 DEF Synchronous, SynchronousThen
  <2>3. UNCHANGED <<otherEvents, otherCopy>> /\ exits' = Append(exits, m)
    BY <1>12, <2>1 DEF OneNow
  <2>4. \A i \in DOMAIN exits' : (i \in DOMAIN exits /\ exits'[i] = exits[i]) \/ exits'[i] = m
    BY <1>1, <2>3
  <2>5. \A i \in DOMAIN exits' : SynchronousThen(exits'[i]) \/ WithinThen(exits'[i], ReadSoFar')
    BY <1>7, <2>2, <2>4
  <2> QED
    BY <1>8, <2>3, <2>5, StampedThen
<1>13. CASE OneFired
  <2>1. PICK e : e = otherCopy[1]
    OBVIOUS
  <2>2. /\ 1 \in DOMAIN otherCopy /\ Head(otherCopy) = e
        /\ \A i \in DOMAIN otherCopy' : i + 1 \in DOMAIN otherCopy /\ otherCopy'[i] = otherCopy[i + 1]
    BY <1>1, <1>13, <2>1 DEF OneFired
  <2>3. UNCHANGED otherEvents /\ pc = "fireOthers"
        /\ \A i \in DOMAIN exits' : (i \in DOMAIN exits /\ exits'[i] = exits[i]) \/ exits'[i] = e.event
    BY <1>1, <1>13, <2>2 DEF OneFired
  <2>4. Fine(e)
    BY <1>4, <2>1, <2>2
  <2>5. \A p \in Pipes : e.after[p] <= Len(delivered[p])
    <3>1. OtherAfterAll
      BY <1>1, AllBeforeOther DEF PipeInv
    <3> QED
      BY <2>1, <2>2, <2>3, <3>1 DEF OtherAfterAll
  <2>6. WithinThen(e.event, ReadSoFar')
    <3>1. PICK n, len : n = e.event /\ len = e.after
      OBVIOUS
    <3>2. n \in 1 .. Launches /\ Over(n) /\ Within(n, len) /\ \A p \in Pipes : len[p] \in Nat /\ len[p] <= Len(delivered[p])
      BY <2>4, <2>5, <3>1 DEF Fine
    <3>3. WithinThen(n, ReadSoFar')
      BY <1>6, <3>2
    <3> QED
      BY <3>1, <3>3
  <2> HIDE DEF Then
  <2>7. \A i \in DOMAIN otherCopy' : Then(otherCopy'[i])
    BY <1>8, <2>2
  <2>8. \A i \in DOMAIN otherEvents' : Then(otherEvents'[i])
    BY <1>8, <2>3
  <2>9. \A i \in DOMAIN exits' : SynchronousThen(exits'[i]) \/ WithinThen(exits'[i], ReadSoFar')
    BY <1>7, <2>3, <2>6
  <2> QED
    BY <2>7, <2>8, <2>9, StampedThen DEF Then
<1> QED
  BY <1>9, <1>10, <1>11, <1>12, <1>13, EventMoves

LEMMA StampInit == ProcInit => StampInv
<1> SUFFICES ASSUME ProcInit PROVE StampInv
  OBVIOUS
<1>1. otherEvents = <<>> /\ otherCopy = <<>> /\ exits = <<>> /\ DOMAIN <<>> = {}
  BY DEF ProcInit, Unused
<1> QED
  BY <1>1 DEF StampInv

LEMMA ExitIsLast ==
  ASSUME OwnTypes, PipeInv, LifeInv, SaidTypes, OnceInv, StampInv
  PROVE  ExitAfterOutput
<1> SUFFICES ASSUME NEW i \in DOMAIN exits, ~Synchronous(exits[i])
             PROVE  /\ child[exits[i]] = "reaped"
                    /\ \A s \in StreamSet :
                         /\ Produced(exits[i], s) \subseteq Range(delivered[Out(s, home[exits[i]])])
                         /\ Produced(exits[i], s) \subseteq Range(delivered[ends[s]])
  BY DEF ExitAfterOutput
<1>1. PICK n : n = exits[i]
  OBVIOUS
<1>2. n \in 1 .. Launches /\ Over(n)
  BY <1>1, ElementType DEF SaidTypes, Told, OnceInv
<1>3. Within(n, ReadSoFar)
  BY <1>1 DEF StampInv
<1>4. ASSUME NEW s \in StreamSet, NEW p \in Pipes, GivenBy(n, s, p, ReadSoFar[p])
      PROVE  Produced(n, s) \subseteq Range(delivered[p])
  <2> SUFFICES ASSUME NEW b \in Produced(n, s) PROVE b \in Range(delivered[p])
    OBVIOUS
  <2>1. PICK j \in DOMAIN written[p] : j <= Len(delivered[p]) /\ written[p][j] = b
    BY <1>4 DEF GivenBy, ReadSoFar
  <2> QED
    BY <2>1, ReadPrefix DEF OwnTypes, PipeInv
<1>5. \A s \in StreamSet : Out(s, home[n]) \in Pipes /\ ends[s] \in Pipes
  <2>1. home[n] \in 1 .. Generations
    BY <1>2, ChildAssumption DEF LifeInv, LifeTypes, Over
  <2> QED
    BY <2>1, OutIsOut, NativeAssumption DEF OwnTypes
<1>6. \A s \in StreamSet : /\ Produced(n, s) \subseteq Range(delivered[Out(s, home[n])])
                           /\ Produced(n, s) \subseteq Range(delivered[ends[s]])
  BY <1>3, <1>4, <1>5 DEF Within
<1> QED
  BY <1>1, <1>2, <1>6 DEF Over

-----------------------------------------------------------------------------
(* The inductive invariant, and the theorems about the output.             *)

ExitInv == ExitBase /\ FlowInv /\ LinkInv /\ ClosedInv /\ StampInv

LEMMA ExitInit == ProcInit => ExitInv
BY BaseInit, FlowInit, LinkInit, ClosedInit, StampInit DEF ExitInv

LEMMA ExitStep == ExitInv /\ [ProcNext]_procVars => ExitInv'
<1> SUFFICES ASSUME ExitInv, [ProcNext]_procVars PROVE ExitInv'
  OBVIOUS
<1>1. /\ PlanInv /\ OwnTypes /\ PipeInv /\ LifeInv /\ SaidTypes /\ OnceInv
      /\ FlowInv /\ LinkInv /\ ClosedInv /\ StampInv
  BY DEF ExitInv, ExitBase
<1>2. ExitBase'
  BY BaseStep DEF ExitInv
<1>3. FlowInv'
  BY <1>1, FlowStep
<1>4. LinkInv'
  BY <1>1, LinkStep
<1>5. ClosedInv'
  BY <1>1, ClosedStep
<1>6. StampInv'
  BY <1>1, StampStep
<1> QED
  BY <1>2, <1>3, <1>4, <1>5, <1>6 DEF ExitInv

\* When the listeners of a native pipe have been told of its CLOSE, they have read
\* all the child wrote to it: Exited closes the pipe after the exit monitor has
\* joined the thread that reads it (posix_process.cpp, process.cpp).
THEOREM ClosedAfterOutput == ProcSpec => []NothingAfterClose
<1>1. ExitInv => NothingAfterClose
  BY CloseIsLast DEF ExitInv, ExitBase
<1> QED
  BY <1>1, ExitInit, ExitStep, PTL DEF ProcSpec

\* The EXIT of an asynchronous launch is fired when the child is gone and all it
\* wrote, to stdout and to stderr, has been read by the listeners of its native
\* pipes and of the script's pipes: the monitor joins the readers, Exited queues the
\* EXIT behind their events, and Process::Exited leaves it to the event loop.
THEOREM OutputBeforeExit == ProcSpec => []ExitAfterOutput
<1>1. ExitInv => ExitAfterOutput
  BY ExitIsLast DEF ExitInv, ExitBase
<1> QED
  BY <1>1, ExitInit, ExitStep, PTL DEF ProcSpec

-----------------------------------------------------------------------------
(* What the calls of the object return.                                    *)

\* How much of what the child of launch n wrote to s has been read from the
\* operating system's pipe.
Taken(n, s) == produced[n][s] - Len(channel[Out(s, home[n])])

\* The operating system's pipes hold what was not read yet, in order.
Queued ==
  /\ \A n \in 1 .. Launches, s \in StreamSet :
       home[n] # 0 =>
         /\ Taken(n, s) \in Nat
         /\ \A i \in DOMAIN channel[Out(s, home[n])] :
              channel[Out(s, home[n])][i] = ChildBlob(s, n, Taken(n, s) + i)
         /\ polling[Out(s, home[n])] = "off" => Taken(n, s) = 0
  /\ \A p \in Outs : (\A n \in 1 .. Launches : home[n] # p[2]) => channel[p] = <<>>

\* The output is in the order of each stream, and all of it was read.
WasTaken(b) ==
  \E n \in 1 .. Launches, s \in StreamSet :
    home[n] # 0 /\ \E k \in 1 .. Taken(n, s) : b = ChildBlob(s, n, k)
Sorted(out) == \A n \in 1 .. Launches, s \in StreamSet : InOrder(out, n, s)
OutputTaken == Sorted(output) /\ \A i \in DOMAIN output : WasTaken(output[i])

\* Until a call collects the output, its read callbacks are about to be set or
\* have been given all that was read.
Gathering ==
  "collect" \in Left(Main) /\ "fork" \notin Left(Main) =>
    \A s \in StreamSet :
      /\ "callbacks" \in Left(Main) \/ callback[Out(s, home[pid])]
      /\ \A k \in 1 .. Taken(pid, s) : \E i \in DOMAIN output : output[i] = ChildBlob(s, pid, k)

\* What a call returned is all of it.
Complete(r) ==
  /\ r.launch \in 1 .. Launches /\ Over(r.launch) /\ Sorted(r.output)
  /\ \A s \in StreamSet :
       {r.output[j] : j \in Own(r.output, r.launch, s)} = Produced(r.launch, s)
Answers == \A i \in DOMAIN returned : Complete(returned[i])

OutputInv == Queued /\ OutputTaken /\ Gathering /\ Answers

\* How a step changes what there is to return.
LEMMA DataMoves ==
  ASSUME LifeTypes, [ProcNext]_procVars
  PROVE  \/ UNCHANGED <<channel, output, home, produced>>
              /\ \A p \in Outs : polling'[p] = "off" => polling[p] = "off"
         \/ ForkAndExec
         \/ \E n \in 1 .. Launches, s \in StreamSet : ChildWrites(n, s)
         \/ \E p \in Outs : ReadBlob(p) /\ UNCHANGED ownVars
<1>1. CASE Quiet \/ (SameNatives /\ SameObject) \/ UNCHANGED procVars
  BY <1>1 DEF Quiet, SameNatives, SameObject, procVars, nativeVars, outVars, ownVars, childVars
<1>2. CASE StartMonitors
  BY <1>2 DEF StartMonitors, outVars, childVars
<1>3. CASE ExitNow \/ FireExit \/ (\E a \in {Main, Monitor} : Wait(a))
           \/ (\E p \in UserPipes, s \in StreamSet : SetStdout(s, p))
           \/ (\E n \in 1 .. Launches : ChildEnds(n))
  BY <1>3 DEF ExitNow, FireExit, Wait, SetStdout, ChildEnds, NativesSame, nativeVars, outVars, childVars
<1>4. ASSUME NEW p \in Outs \cup Ins, Polling(p)
      PROVE  \/ UNCHANGED <<channel, output, home, produced>>
                  /\ \A q \in Outs : polling'[q] = "off" => polling[q] = "off"
             \/ p \in Outs /\ ReadBlob(p) /\ UNCHANGED ownVars
  <2>1. CASE p \in Outs /\ ReadBlob(p)
    BY <1>4, <2>1 DEF Polling
  <2>2. CASE p \in Outs /\ PassOn(p)
    BY <1>4, <2>2 DEF PassOn, Polling, ownVars, childVars
  <2>3. ASSUME UNCHANGED <<channel, output>>, UNCHANGED polling \/ polling' = [polling EXCEPT ![p] = "ended"],
               UNCHANGED ownVars
        PROVE  UNCHANGED <<channel, output, home, produced>>
                  /\ \A q \in Outs : polling'[q] = "off" => polling[q] = "off"
    BY <2>3 DEF ownVars, childVars, LifeTypes
  <2>4. UNCHANGED ownVars
    BY <1>4 DEF Polling
  <2>5. CASE p \in Outs /\ ReadEnd(p)
    BY <2>3, <2>4, <2>5 DEF ReadEnd, outVars
  <2>6. CASE p \in Ins /\ PollForWrites(p)
    BY <2>3, <2>4, <2>6 DEF PollForWrites, WriteBlob, WriteFails, WriteEnd, outVars
  <2> QED
    BY <1>4, <2>1, <2>2, <2>5, <2>6 DEF Polling, PollForReads
<1>5. CASE MoreThanCalls
  BY <1>2, <1>3, <1>4, <1>5 DEF MoreThanCalls
<1> QED
  BY <1>1, <1>5, Footprints

\* The pipes of a launch are its own.
LEMMA OwnPipes ==
  ASSUME LifeInv, NEW n \in 1 .. Launches, home[n] # 0, NEW s \in StreamSet
  PROVE  /\ Out(s, home[n]) \in Outs /\ Out(s, home[n])[2] = home[n]
         /\ \A m \in 1 .. Launches, x \in StreamSet :
              home[m] # 0 /\ Out(x, home[m]) = Out(s, home[n]) => m = n /\ x = s
<1>1. home[n] \in 1 .. Generations
  BY ChildAssumption DEF LifeInv, LifeTypes
<1> QED
  BY <1>1, OutIsOut DEF LifeInv, Homes, Out

LEMMA OutputInit == ProcInit => OutputInv
<1> SUFFICES ASSUME ProcInit PROVE OutputInv
  OBVIOUS
<1>1. /\ channel = [p \in Outs |-> <<>>] /\ output = <<>> /\ returned = <<>> /\ plan[Main] = <<>>
      /\ \A n \in 1 .. Launches : home[n] = 0
  BY DEF ProcInit, NativeInit
<1>2. Left(Main) = {} /\ DOMAIN <<>> = {}
  BY <1>1, EmptyShaped DEF Left
<1> QED
  BY <1>1, <1>2 DEF OutputInv, Queued, OutputTaken, Sorted, InOrder, Own, Gathering, Answers
\* What is in the operating system's pipes: the first part of the invariant.
LEMMA QueuedForks ==
  ASSUME OwnTypes, LifeInv, PlanInv, FlowInv, OutputInv, ForkAndExec
  PROVE  /\ Queued' /\ \A s \in StreamSet : Taken(pid, s)' = 0
         /\ pid' = pid + 1 /\ pid' \in 1 .. Launches /\ home[pid'] = 0
         /\ \A n \in 1 .. Launches : home'[n] = IF n = pid' THEN gen ELSE home[n]
         /\ UNCHANGED <<channel, produced, output>>
<1>1. /\ pid' = pid + 1 /\ home' = [home EXCEPT ![pid + 1] = gen]
      /\ UNCHANGED <<channel, fetched, polling, produced, output>>
  BY CountIsPid DEF ForkAndExec, LifeInv, outVars
<1>2. "fork" \in Left(Main)
  <2>1. Step(Main, "fork")
    BY DEF ForkAndExec
  <2> QED
    BY <2>1, StepLeaves DEF LifeInv
<1>3. pid + 1 \in 1 .. Launches /\ pid \in Nat
  BY <1>2, ChildAssumption DEF LifeInv, HasRoom, LifeTypes
<1>4. home[pid + 1] = 0 /\ \A s \in StreamSet : produced[pid + 1][s] = 0
  <2>1. home[pid + 1] = 0
    BY <1>3 DEF LifeInv, Homes
  <2> QED
    BY <1>3, <2>1 DEF FlowInv, Kept
<1>5. gen \in 1 .. Generations /\ \A n \in 1 .. Launches : home[n] # gen
  BY <1>2 DEF LifeInv, LifeTypes, NewPipes, Ready, Untouched
<1>6. \A n \in 1 .. Launches : home'[n] = IF n = pid + 1 THEN gen ELSE home[n]
  BY <1>1, <1>3 DEF LifeInv, LifeTypes
<1>7. \A s \in StreamSet : channel[Out(s, gen)] = <<>> /\ Len(<<>>) = 0 /\ DOMAIN <<>> = {}
  BY <1>5, OutIsOut DEF OutputInv, Queued, Out
<1>8. ASSUME NEW n \in 1 .. Launches, NEW s \in StreamSet, home'[n] # 0
      PROVE  /\ Taken(n, s)' \in Nat
             /\ \A i \in DOMAIN channel'[Out(s, home'[n])] :
                  channel'[Out(s, home'[n])][i] = ChildBlob(s, n, Taken(n, s)' + i)
             /\ polling'[Out(s, home'[n])] = "off" => Taken(n, s)' = 0
  <2>1. CASE n = pid + 1
    BY <1>1, <1>4, <1>6, <1>7, <2>1 DEF Taken
  <2>2. CASE n # pid + 1
    <3>1. home'[n] = home[n] /\ Taken(n, s)' = Taken(n, s)
      BY <1>1, <1>6, <2>2 DEF Taken
    <3> QED
      BY <1>1, <1>8, <3>1 DEF OutputInv, Queued
  <2> QED
    BY <2>1, <2>2
<1>9. ASSUME NEW p \in Outs, \A n \in 1 .. Launches : home'[n] # p[2] PROVE channel'[p] = <<>>
  <2>1. p[2] # 0
    BY OutIsOut, ChildAssumption
  <2>2. \A n \in 1 .. Launches : home[n] # p[2]
    BY <1>4, <1>6, <1>9, <2>1
  <2> QED
    BY <1>1, <2>2 DEF OutputInv, Queued
<1>10. \A s \in StreamSet : Taken(pid, s)' = 0
  <2> TAKE s \in StreamSet
  <2>1. Taken(pid, s)' = produced'[pid'][s] - Len(channel'[Out(s, home'[pid'])])
    BY DEF Taken, Out
  <2> QED
    BY <1>1, <1>3, <1>4, <1>6, <1>7, <2>1
<1> QED
  BY <1>1, <1>3, <1>4, <1>6, <1>8, <1>9, <1>10 DEF Queued, Out
\* The child of launch n writes: nothing more is taken.
LEMMA QueuedWrites ==
  ASSUME OwnTypes, LifeInv, FlowInv, OutputInv, NEW n \in 1 .. Launches, NEW s \in StreamSet, ChildWrites(n, s)
  PROVE  /\ Queued' /\ UNCHANGED <<home, output>>
         /\ \A m \in 1 .. Launches, x \in StreamSet : home[m] # 0 => Taken(m, x)' = Taken(m, x)
<1> DEFINE q == Out(s, home[n])
           k == produced[n][s]
           b == ChildBlob(s, n, k + 1)
<1>1. /\ home[n] # 0
      /\ produced' = [produced EXCEPT ![n][s] = k + 1]
      /\ channel' = [channel EXCEPT ![q] = Append(@, b)]
      /\ UNCHANGED <<polling, home, output>>
  BY DEF ChildWrites, FlowInv, Kept
<1>2. q \in Outs /\ q[2] = home[n]
      /\ \A m \in 1 .. Launches, x \in StreamSet : home[m] # 0 /\ Out(x, home[m]) = q => m = n /\ x = s
  BY <1>1, OwnPipes
<1>3. \A m \in 1 .. Launches, x \in StreamSet : home[m] # 0 => Out(x, home[m]) \in Outs
  BY OwnPipes
<1>4. channel \in [Outs -> Seq(Blobs)] /\ k \in Nat /\ b \in Blobs
      /\ produced \in [1 .. Launches -> [StreamSet -> 0 .. MaxOutput]]
  <2>1. channel \in [Outs -> Seq(Blobs)] /\ produced \in [1 .. Launches -> [StreamSet -> 0 .. MaxOutput]]
    BY DEF OwnTypes
  <2>2. k \in 0 .. MaxOutput /\ MaxOutput \in Nat
    BY <2>1, ProcessAssumption
  <2>3. b \in Blobs
    BY WritesTyped
  <2> HIDE DEF k
  <2> QED
    BY <2>1, <2>2, <2>3
<1>5. produced'[n][s] = k + 1 /\ \A m \in 1 .. Launches, x \in StreamSet : m # n \/ x # s => produced'[m][x] = produced[m][x]
  BY <1>1, <1>4
<1> DEFINE c == channel[q]
<1>6. channel'[q] = Append(c, b) /\ c \in Seq(Blobs) /\ \A p \in Outs : p # q => channel'[p] = channel[p]
  BY <1>1, <1>2, <1>4
<1> HIDE DEF q, k, b, c
<1>7. /\ Len(channel'[q]) = Len(c) + 1 /\ Len(c) \in Nat /\ DOMAIN channel'[q] = 1 .. Len(c) + 1
      /\ \A i \in 1 .. Len(c) : channel'[q][i] = c[i]
      /\ channel'[q][Len(c) + 1] = b
  BY <1>4, <1>6, AppendFacts
<1>8. Taken(n, s) = k - Len(c) /\ Taken(n, s)' = (k + 1) - Len(channel'[q])
  <2>1. Taken(n, s) = k - Len(c)
    BY DEF Taken, q, k, c
  <2>2. Taken(n, s)' = produced'[n][s] - Len(channel'[q])
    BY <1>1 DEF Taken, q, Out
  <2>3. produced'[n][s] = k + 1
    BY <1>5
  <2> QED
    BY <2>1, <2>2, <2>3
<1>9. Taken(n, s)' = Taken(n, s)
  BY <1>4, <1>7, <1>8
<1>10. ASSUME NEW m \in 1 .. Launches, NEW x \in StreamSet, home[m] # 0, m # n \/ x # s
       PROVE  Taken(m, x)' = Taken(m, x) /\ channel'[Out(x, home[m])] = channel[Out(x, home[m])]
  <2>1. Out(x, home[m]) \in Outs /\ Out(x, home[m]) # q
    BY <1>2, <1>3, <1>10
  <2>2. channel'[Out(x, home[m])] = channel[Out(x, home[m])] /\ produced'[m][x] = produced[m][x] /\ home' = home
    BY <1>1, <1>5, <1>6, <1>10, <2>1
  <2> QED
    BY <2>2 DEF Taken, Out
<1>11. \A m \in 1 .. Launches, x \in StreamSet : home[m] # 0 => Taken(m, x)' = Taken(m, x)
  BY <1>9, <1>10
<1>12. \A i \in DOMAIN channel'[q] : channel'[q][i] = ChildBlob(s, n, Taken(n, s) + i)
  <2>1. \A i \in DOMAIN c : c[i] = ChildBlob(s, n, Taken(n, s) + i)
    BY <1>1 DEF OutputInv, Queued, q, c
  <2>2. DOMAIN c = 1 .. Len(c)
    BY <1>6
  <2>3. Taken(n, s) + (Len(c) + 1) = k + 1
    BY <1>4, <1>7, <1>8
  <2>4. channel'[q][Len(c) + 1] = ChildBlob(s, n, Taken(n, s) + (Len(c) + 1))
    BY <1>7, <2>3 DEF b
  <2>5. ASSUME NEW i \in DOMAIN channel'[q] PROVE i \in DOMAIN c \/ i = Len(c) + 1
    BY <1>7, <2>2
  <2> QED
    BY <1>7, <2>1, <2>2, <2>4, <2>5
<1>13. ASSUME NEW m \in 1 .. Launches, NEW x \in StreamSet, home'[m] # 0
       PROVE  /\ Taken(m, x)' \in Nat
              /\ \A i \in DOMAIN channel'[Out(x, home'[m])] :
                   channel'[Out(x, home'[m])][i] = ChildBlob(x, m, Taken(m, x)' + i)
              /\ polling'[Out(x, home'[m])] = "off" => Taken(m, x)' = 0
  <2>1. home' = home /\ polling' = polling /\ home[m] # 0 /\ Taken(m, x)' = Taken(m, x)
    BY <1>1, <1>11, <1>13
  <2>2. /\ Taken(m, x) \in Nat
        /\ \A i \in DOMAIN channel[Out(x, home[m])] :
             channel[Out(x, home[m])][i] = ChildBlob(x, m, Taken(m, x) + i)
        /\ polling[Out(x, home[m])] = "off" => Taken(m, x) = 0
    BY <2>1 DEF OutputInv, Queued
  <2>3. CASE m = n /\ x = s
    BY <1>12, <2>1, <2>2, <2>3 DEF q
  <2>4. CASE m # n \/ x # s
    BY <1>10, <2>1, <2>2, <2>4
  <2> QED
    BY <2>3, <2>4
<1>14. ASSUME NEW p \in Outs, \A m \in 1 .. Launches : home'[m] # p[2] PROVE channel'[p] = <<>>
  <2>1. p # q
    BY <1>1, <1>2, <1>14
  <2> QED
    BY <1>1, <1>6, <1>14, <2>1 DEF OutputInv, Queued
<1> QED
  BY <1>1, <1>11, <1>13, <1>14 DEF Queued, Out

\* The thread of a reader reads: one more is taken, the next one.
LEMMA QueuedReads ==
  ASSUME OwnTypes, LifeInv, FlowInv, OutputInv, NEW p \in Outs, ReadBlob(p), UNCHANGED <<home, produced>>
  PROVE  \E n \in 1 .. Launches, s \in StreamSet :
           /\ Queued' /\ home[n] # 0 /\ p = Out(s, home[n]) /\ polling[p] = "on"
           /\ Head(channel[p]) = ChildBlob(s, n, Taken(n, s) + 1)
           /\ Taken(n, s) \in Nat /\ Taken(n, s)' = Taken(n, s) + 1
           /\ \A m \in 1 .. Launches, x \in StreamSet :
                home[m] # 0 /\ (m # n \/ x # s) => Taken(m, x)' = Taken(m, x)
<1>1. /\ channel[p] # <<>> /\ polling[p] = "on" /\ channel' = [channel EXCEPT ![p] = Tail(@)]
      /\ UNCHANGED polling
  BY DEF ReadBlob, Reading
<1>2. PICK n \in 1 .. Launches : home[n] = p[2]
  BY <1>1 DEF FlowInv, Readers
<1>3. PICK s \in StreamSet : p = Out(s, home[n]) /\ home[n] # 0
  BY <1>2, OutIsOut, ChildAssumption
<1>4. \A m \in 1 .. Launches, x \in StreamSet : home[m] # 0 =>
        Out(x, home[m]) \in Outs /\ (Out(x, home[m]) = p => m = n /\ x = s)
  BY <1>3, OwnPipes
<1> DEFINE c == channel[p]
           t == Taken(n, s)
<1>5. channel \in [Outs -> Seq(Blobs)] /\ c \in Seq(Blobs) /\ c # <<>> /\ channel'[p] = Tail(c)
      /\ \A q \in Outs : q # p => channel'[q] = channel[q]
  BY <1>1 DEF OwnTypes
<1>6. t \in Nat /\ \A i \in DOMAIN c : c[i] = ChildBlob(s, n, t + i)
  BY <1>3 DEF OutputInv, Queued
<1>7. /\ Head(c) = c[1] /\ 1 \in DOMAIN c /\ Len(Tail(c)) = Len(c) - 1 /\ Len(c) \in Nat
      /\ \A i \in DOMAIN Tail(c) : i + 1 \in DOMAIN c /\ Tail(c)[i] = c[i + 1] /\ i \in Nat
  BY <1>5
<1>8. Taken(n, s)' = t + 1
  <2>1. t = produced[n][s] - Len(c) /\ Taken(n, s)' = produced[n][s] - Len(channel'[p])
    BY <1>3 DEF Taken, Out
  <2>2. produced[n][s] \in Nat
    <3>1. produced[n][s] \in 0 .. MaxOutput
      <4>1. produced \in [1 .. Launches -> [StreamSet -> 0 .. MaxOutput]]
        BY DEF OwnTypes
      <4> HIDE DEF t
      <4> QED
        BY <4>1
    <3>2. MaxOutput \in Nat
      BY ProcessAssumption
    <3> QED
      BY <3>1, <3>2
  <2> QED
    BY <1>5, <1>7, <2>1, <2>2
<1>9. ASSUME NEW m \in 1 .. Launches, NEW x \in StreamSet, home[m] # 0, m # n \/ x # s
      PROVE  Taken(m, x)' = Taken(m, x) /\ channel'[Out(x, home[m])] = channel[Out(x, home[m])]
  <2>1. channel'[Out(x, home[m])] = channel[Out(x, home[m])]
    BY <1>4, <1>5, <1>9
  <2> QED
    BY <2>1 DEF Taken, Out
<1> HIDE DEF c, t
<1>10. \A i \in DOMAIN channel'[p] : channel'[p][i] = ChildBlob(s, n, (t + 1) + i)
  <2> SUFFICES ASSUME NEW i \in DOMAIN Tail(c) PROVE Tail(c)[i] = ChildBlob(s, n, (t + 1) + i)
    BY <1>5
  <2>1. i \in Nat /\ i + 1 \in DOMAIN c /\ Tail(c)[i] = c[i + 1]
    BY <1>7
  <2>2. c[i + 1] = ChildBlob(s, n, t + (i + 1))
    BY <1>6, <2>1
  <2>3. t + (i + 1) = (t + 1) + i
    BY <1>6, <2>1
  <2> QED
    BY <2>1, <2>2, <2>3
<1>11. Head(channel[p]) = ChildBlob(s, n, t + 1)
  BY <1>6, <1>7 DEF c
<1>12. ASSUME NEW m \in 1 .. Launches, NEW x \in StreamSet, home'[m] # 0
       PROVE  /\ Taken(m, x)' \in Nat
              /\ \A i \in DOMAIN channel'[Out(x, home'[m])] :
                   channel'[Out(x, home'[m])][i] = ChildBlob(x, m, Taken(m, x)' + i)
              /\ polling'[Out(x, home'[m])] = "off" => Taken(m, x)' = 0
  <2>1. CASE m = n /\ x = s
    <3>1. Taken(m, x)' = t + 1 /\ t + 1 \in Nat /\ Out(x, home'[m]) = p
      BY <1>3, <1>6, <1>8, <2>1
    <3> QED
      BY <1>1, <1>10, <2>1, <3>1
  <2>2. CASE m # n \/ x # s
    <3>1. home' = home /\ polling' = polling /\ home[m] # 0
      BY <1>1, <1>12
    <3>2. Taken(m, x)' = Taken(m, x) /\ channel'[Out(x, home[m])] = channel[Out(x, home[m])]
      BY <1>9, <2>2, <3>1
    <3> QED
      BY <3>1, <3>2 DEF OutputInv, Queued
  <2> QED
    BY <2>1, <2>2
<1>13. ASSUME NEW q \in Outs, \A m \in 1 .. Launches : home'[m] # q[2] PROVE channel'[q] = <<>>
  <2>1. q # p
    BY <1>2, <1>13
  <2> QED
    BY <1>5, <1>13, <2>1 DEF OutputInv, Queued
<1>14. Queued'
  BY <1>12, <1>13 DEF Queued, Out
<1> QED
  BY <1>1, <1>3, <1>6, <1>8, <1>9, <1>11, <1>14 DEF t
\* A step takes nothing, or the next blob of one stream.
StillTaken ==
  /\ UNCHANGED output
  /\ \A m \in 1 .. Launches, x \in StreamSet :
       home[m] # 0 => home'[m] = home[m] /\ Taken(m, x)' = Taken(m, x)
OneTaken(n, s) ==
  /\ UNCHANGED <<home, ownVars>> /\ home[n] # 0 /\ polling[Out(s, home[n])] = "on"
  /\ Taken(n, s) \in Nat /\ Taken(n, s)' = Taken(n, s) + 1
  /\ \A m \in 1 .. Launches, x \in StreamSet :
       home[m] # 0 /\ (m # n \/ x # s) => Taken(m, x)' = Taken(m, x)
  /\ output' = IF callback[Out(s, home[n])] THEN Append(output, ChildBlob(s, n, Taken(n, s) + 1))
               ELSE output
  /\ UNCHANGED callback

LEMMA TakenMoves ==
  ASSUME OwnTypes, LifeInv, PlanInv, FlowInv, OutputInv, [ProcNext]_procVars
  PROVE  Queued' /\ (StillTaken \/ \E n \in 1 .. Launches, s \in StreamSet : OneTaken(n, s))
<1>1. CASE UNCHANGED <<channel, output, home, produced>>
            /\ \A p \in Outs : polling'[p] = "off" => polling[p] = "off"
  <2>1. \A m, x : Taken(m, x)' = Taken(m, x)
    BY <1>1 DEF Taken, Out
  <2>2. \A n \in 1 .. Launches, s \in StreamSet : home[n] # 0 => Out(s, home[n]) \in Outs
    BY OwnPipes
  <2>3. ASSUME NEW n \in 1 .. Launches, NEW s \in StreamSet, home'[n] # 0
        PROVE  /\ Taken(n, s)' \in Nat
               /\ \A i \in DOMAIN channel'[Out(s, home'[n])] :
                    channel'[Out(s, home'[n])][i] = ChildBlob(s, n, Taken(n, s)' + i)
               /\ polling'[Out(s, home'[n])] = "off" => Taken(n, s)' = 0
    BY <1>1, <2>1, <2>2, <2>3 DEF OutputInv, Queued
  <2>4. \A p \in Outs : (\A n \in 1 .. Launches : home'[n] # p[2]) => channel'[p] = <<>>
    BY <1>1 DEF OutputInv, Queued
  <2>5. Queued'
    BY <2>3, <2>4 DEF Queued, Out
  <2>6. StillTaken
    BY <1>1, <2>1 DEF StillTaken
  <2> QED
    BY <2>5, <2>6
<1>2. CASE ForkAndExec
  <2>1. /\ Queued' /\ home[pid'] = 0 /\ UNCHANGED <<channel, produced, output>>
        /\ \A n \in 1 .. Launches : home'[n] = IF n = pid' THEN gen ELSE home[n]
    BY <1>2, QueuedForks
  <2>2. ASSUME NEW m \in 1 .. Launches, NEW x \in StreamSet, home[m] # 0
        PROVE  home'[m] = home[m] /\ Taken(m, x)' = Taken(m, x)
    <3>1. home'[m] = home[m]
      BY <2>1, <2>2
    <3> QED
      BY <2>1, <3>1 DEF Taken, Out
  <2>3. StillTaken
    BY <2>1, <2>2 DEF StillTaken
  <2> QED
    BY <2>1, <2>3
<1>3. ASSUME NEW n \in 1 .. Launches, NEW s \in StreamSet, ChildWrites(n, s)
      PROVE  Queued' /\ StillTaken
  BY <1>3, QueuedWrites DEF StillTaken
<1>4. ASSUME NEW p \in Outs, ReadBlob(p), UNCHANGED ownVars
      PROVE  Queued' /\ \E n \in 1 .. Launches, s \in StreamSet : OneTaken(n, s)
  <2>2. UNCHANGED <<home, produced>>
    BY <1>4 DEF ownVars, childVars
  <2>3. PICK n \in 1 .. Launches, s \in StreamSet :
           /\ Queued' /\ home[n] # 0 /\ p = Out(s, home[n]) /\ polling[p] = "on"
           /\ Head(channel[p]) = ChildBlob(s, n, Taken(n, s) + 1)
           /\ Taken(n, s) \in Nat /\ Taken(n, s)' = Taken(n, s) + 1
           /\ \A m \in 1 .. Launches, x \in StreamSet :
                home[m] # 0 /\ (m # n \/ x # s) => Taken(m, x)' = Taken(m, x)
    BY <1>4, <2>2, QueuedReads
  <2>4. OneTaken(n, s)
    BY <1>4, <2>2, <2>3 DEF OneTaken, ReadBlob
  <2> QED
    BY <2>3, <2>4
<1> QED
  BY <1>1, <1>2, <1>3, <1>4, DataMoves DEF LifeInv

\* Blobs taken in the order of their stream make the output in that order.
LEMMA SortedAppend ==
  ASSUME NEW out \in Seq(Blobs), Sorted(out), NEW b,
         \A j \in DOMAIN out : out[j][1] = b[1] /\ out[j][2] = b[2] => out[j][3] < b[3]
  PROVE  Sorted(Append(out, b))
<1> DEFINE more == Append(out, b)
<1>1. /\ DOMAIN out = 1 .. Len(out) /\ DOMAIN more = 1 .. Len(out) + 1 /\ Len(out) \in Nat
      /\ more[Len(out) + 1] = b /\ \A j \in 1 .. Len(out) : more[j] = out[j]
  OBVIOUS
<1> HIDE DEF more
<1>2. ASSUME NEW n \in 1 .. Launches, NEW s \in StreamSet,
             NEW j \in Own(more, n, s), NEW k \in Own(more, n, s), j < k
      PROVE  more[j][3] < more[k][3]
  <2>1. /\ j \in 1 .. Len(out) /\ more[j] = out[j] /\ out[j][1] = s /\ out[j][2] = n
        /\ k \in 1 .. Len(out) + 1 /\ more[k][1] = s /\ more[k][2] = n
    <3>1. j \in DOMAIN more /\ k \in DOMAIN more
      BY DEF Own
    <3>2. j \in 1 .. Len(out) /\ k \in 1 .. Len(out) + 1
      BY <1>1, <1>2, <3>1
    <3> QED
      BY <1>1, <3>2 DEF Own
  <2>2. CASE k = Len(out) + 1
    BY <1>1, <2>1, <2>2
  <2>3. CASE k # Len(out) + 1
    <3>1. k \in 1 .. Len(out)
      BY <1>1, <2>1, <2>3
    <3>2. j \in Own(out, n, s) /\ k \in Own(out, n, s)
      BY <1>1, <2>1, <3>1 DEF Own
    <3> QED
      BY <1>1, <1>2, <2>1, <3>1, <3>2 DEF Sorted, InOrder
  <2> QED
    BY <2>2, <2>3
<1> QED
  BY <1>2 DEF Sorted, InOrder, more

LEMMA OutputTakenStep ==
  ASSUME OwnTypes, SaidTypes, OutputInv, StillTaken \/ \E n \in 1 .. Launches, s \in StreamSet : OneTaken(n, s)
  PROVE  OutputTaken'
<1>1. ASSUME NEW b, WasTaken(b), StillTaken PROVE WasTaken(b)'
  <2>1. PICK n \in 1 .. Launches, s \in StreamSet :
          home[n] # 0 /\ \E k \in 1 .. Taken(n, s) : b = ChildBlob(s, n, k)
    BY <1>1 DEF WasTaken
  <2>2. home'[n] = home[n] /\ Taken(n, s)' = Taken(n, s)
    BY <1>1, <2>1 DEF StillTaken
  <2> QED
    BY <2>1, <2>2 DEF WasTaken
<1>2. CASE StillTaken
  <2>1. output' = output
    BY <1>2 DEF StillTaken
  <2>2. ASSUME NEW i \in DOMAIN output' PROVE WasTaken(output[i])'
    <3>1. PICK c : c = output[i]
      OBVIOUS
    <3>2. WasTaken(c)
      BY <2>1, <3>1 DEF OutputInv, OutputTaken
    <3>3. WasTaken(c)' /\ output'[i] = c
      BY <1>1, <1>2, <2>1, <3>1, <3>2
    <3> QED
      BY <3>3 DEF WasTaken
  <2>3. Sorted(output)'
    BY <2>1 DEF OutputInv, OutputTaken, Sorted, InOrder, Own
  <2> QED
    BY <2>2, <2>3 DEF OutputTaken
<1>3. ASSUME NEW n \in 1 .. Launches, NEW s \in StreamSet, OneTaken(n, s) PROVE OutputTaken'
  <2>0. PICK b : b = ChildBlob(s, n, Taken(n, s) + 1)
    OBVIOUS
  <2>1. /\ home' = home /\ home[n] # 0 /\ Taken(n, s) \in Nat /\ Taken(n, s)' = Taken(n, s) + 1
        /\ output' = Append(output, b) \/ output' = output
    BY <1>3, <2>0 DEF OneTaken
  <2>2. ASSUME NEW c, WasTaken(c) PROVE WasTaken(c)'
    <3>1. PICK m \in 1 .. Launches, x \in StreamSet :
            home[m] # 0 /\ \E k \in 1 .. Taken(m, x) : c = ChildBlob(x, m, k)
      BY <2>2 DEF WasTaken
    <3>2. PICK k \in 1 .. Taken(m, x) : c = ChildBlob(x, m, k)
      BY <3>1
    <3>3. k \in 1 .. Taken(m, x)'
      <4>1. CASE m = n /\ x = s
        BY <2>1, <4>1
      <4>2. CASE m # n \/ x # s
        BY <1>3, <3>1, <4>2 DEF OneTaken
      <4> QED
        BY <4>1, <4>2
    <3> QED
      BY <2>1, <3>1, <3>2, <3>3 DEF WasTaken
  <2>3. WasTaken(b)'
    <3>1. Taken(n, s) + 1 \in 1 .. Taken(n, s)'
      BY <2>1
    <3> QED
      BY <2>0, <2>1, <3>1 DEF WasTaken
  <2>4. output \in Seq(Blobs) /\ Sorted(output) /\ \A i \in DOMAIN output : WasTaken(output[i])
    BY DEF OutputInv, OutputTaken, SaidTypes
  <2>5. ASSUME NEW j \in DOMAIN output, output[j][1] = b[1], output[j][2] = b[2]
        PROVE  output[j][3] < b[3]
    <3>1. PICK m \in 1 .. Launches, x \in StreamSet :
            home[m] # 0 /\ \E k \in 1 .. Taken(m, x) : output[j] = ChildBlob(x, m, k)
      BY <2>4 DEF WasTaken
    <3>2. PICK k \in 1 .. Taken(m, x) : output[j] = ChildBlob(x, m, k)
      BY <3>1
    <3>3. x = s /\ m = n /\ output[j][3] = k /\ b[3] = Taken(n, s) + 1
      BY <2>0, <2>5, <3>2 DEF ChildBlob
    <3> QED
      BY <2>1, <3>2, <3>3
  <2>6. Sorted(Append(output, b))
    BY <2>4, <2>5, SortedAppend
  <2>7. Sorted(output)'
    BY <2>1, <2>4, <2>6 DEF Sorted, InOrder, Own
  <2>8. ASSUME NEW i \in DOMAIN output' PROVE WasTaken(output[i])'
    <3>1. output'[i] = b \/ \E j \in DOMAIN output : output'[i] = output[j]
      <4>1. CASE output' = output
        BY <4>1
      <4>2. CASE output' = Append(output, b)
        BY <2>4, <4>2, AppendFacts
      <4> QED
        BY <2>1, <4>1, <4>2
    <3>2. PICK c : c = output'[i] /\ (c = b \/ \E j \in DOMAIN output : c = output[j])
      BY <3>1
    <3>3. WasTaken(c)'
      BY <2>2, <2>3, <2>4, <3>2
    <3> QED
      BY <3>2, <3>3 DEF WasTaken
  <2> QED
    BY <2>7, <2>8 DEF OutputTaken
<1> QED
  BY <1>2, <1>3

\* The read callbacks, and the launch at hand, change in two places only.
LEMMA CallbackMoves ==
  ASSUME [ProcNext]_procVars
  PROVE  /\ UNCHANGED callback \/ SetReadCallbacks \/ CollectOutput
         /\ UNCHANGED pid \/ ForkAndExec
<1> USE DEF NativesSame, nativeVars, outVars, ownVars, objectVars
<1>1. CASE UNCHANGED procVars
  BY <1>1 DEF procVars
<1>2. CASE LaunchAsync \/ LaunchSync \/ ForkFails \/ StartExitMonitor \/ ExitCallback
  BY <1>2 DEF LaunchAsync, LaunchSync, Launch, ForkFails, StartExitMonitor, ExitCallback
<1>3. ASSUME NEW a \in {Main, Monitor}, Invoke(a) PROVE UNCHANGED <<callback, pid>>
  BY <1>3 DEF Invoke
<1>4. CASE StartMonitors \/ RecreateNativePipes \/ ExitLater \/ ExitNow
  BY <1>4 DEF StartMonitors, RecreateNativePipes, ExitLater, ExitNow
<1>5. ASSUME NEW a \in {Main, Monitor}, Wait(a) \/ StopIn(a) \/ JoinIn(a) \/ StopOut(a)
      PROVE  UNCHANGED <<callback, pid>>
  BY <1>5 DEF Wait, StopIn, JoinIn, StopOut
<1>6. CASE PlainDoes
  BY <1>5, <1>6 DEF PlainDoes, AttachPipes, ForkAndExec, SetReadCallbacks, CollectOutput, CloseOut,
     DetachIn, DetachOut, SignalMonitor, MonitorReturns
<1>7. ASSUME NEW n \in 1 .. Launches, ChildEnds(n) \/ \E s \in StreamSet : ChildWrites(n, s)
      PROVE  UNCHANGED <<callback, pid>>
  BY <1>7 DEF ChildEnds, ChildWrites
<1>8. CASE Aside
  BY <1>7, <1>8 DEF Aside, SendSignal, ScriptCalls, SetStdout, EventLoop, FireExit
<1>9. ASSUME NEW p \in Outs \cup Ins, Polling(p) PROVE UNCHANGED <<callback, pid>>
  BY <1>9 DEF Polling, PollForReads, ReadBlob, PassOn, ReadEnd, PollForWrites, WriteBlob, WriteFails, WriteEnd
<1>10. ASSUME NEW t \in Threads, Calling(t) PROVE UNCHANGED <<callback, pid>>
  BY <1>10 DEF Calling, NativeCallStep, WriteIn, CloseIn, CallPipe
<1>11. CASE PipeThreads
  BY <1>9, <1>10, <1>11 DEF PipeThreads
<1> QED
  BY <1>1, <1>2, <1>3, <1>4, <1>6, <1>8, <1>11, StepKinds

\* A call that has forked and has still to collect the output was that far before,
\* or forks now.
LEMMA GatherBefore ==
  ASSUME OwnTypes, LifeInv, PlanInv, [ProcNext]_procVars,
         "collect" \in Left(Main)', "fork" \notin Left(Main)'
  PROVE  \/ ForkAndExec /\ "callbacks" \in Left(Main)'
         \/ /\ "collect" \in Left(Main) /\ "fork" \notin Left(Main)
            /\ "callbacks" \in Left(Main) => "callbacks" \in Left(Main)' \/ SetReadCallbacks
<1> DEFINE Goal ==
      /\ "collect" \in Left(Main) /\ "fork" \notin Left(Main)
      /\ "callbacks" \in Left(Main) => "callbacks" \in Left(Main)' \/ SetReadCallbacks
<1>0. plan \in [{Main, Monitor} -> Seq(PlanStep)] /\ Main # Monitor
  BY Different DEF PlanInv
<1>1. CASE LaunchAsync \/ LaunchSync
  <2>1. PICK t \in {LaunchAsyncPlan, LaunchSyncPlan} : Launch(t)
    BY <1>1 DEF LaunchAsync, LaunchSync
  <2>2. plan'[Main] = t
    BY <1>0, <2>1 DEF Launch
  <2>3. "fork" \in Left(Main)'
    BY <2>2, LaunchShapes DEF Left
  <2> QED
    BY <2>3
<1>2. CASE ForkFails \/ StartExitMonitor
  <2>1. plan'[Main] = <<>>
    BY <1>0, <1>2 DEF ForkFails, StartExitMonitor
  <2> QED
    BY <2>1, EmptyShaped DEF Left
<1>3. ASSUME NEW t, Shaped(t), Kinds(t) \cap (Launching \cup Watching \cup {"fireLater"}) = {},
             plan'[Main] = Exited("fireLater") \o t
      PROVE  "collect" \in Kinds(t)
  <2>1. /\ Left(Main)' = Kinds(Exited("fireLater")) \cup Kinds(t)
        /\ Kinds(Exited("fireLater")) \subseteq Closing \cup {"fireLater"}
    BY <1>3, ExitedThen DEF Left
  <2> QED
    BY <1>3, <2>1 DEF Closing
<1>4. CASE ExitCallback
  <2>1. plan'[Main] = Exited("fireLater") \o Do("signal")
    BY <1>0, <1>4 DEF ExitCallback
  <2>2. Piece(Do("signal"), {"signal"}) /\ Kinds(Do("signal")) = {"signal"}
    BY PartKinds DEF Steps
  <2>3. Renews(Do("signal"))
    BY <2>2, NothingToRenew DEF Piece, Closing
  <2>4. Shaped(Do("signal"))
    BY <2>2, <2>3 DEF Piece, Shaped, Whole, Closing, Fires
  <2>5. "collect" \in Kinds(Do("signal"))
    BY <1>3, <2>1, <2>2, <2>4 DEF Launching, Watching
  <2> QED
    BY <2>2, <2>5
<1>5. ASSUME NEW a \in {Main, Monitor}, Invoke(a) PROVE Goal
  <2>1. plan[a] \in Seq(PlanStep) /\ plan[a] # <<>> /\ Head(plan[a])[1] = "invoke" /\ Shaped(plan[a])
    BY <1>5 DEF Invoke, At, PlanInv, LifeInv, Shapes
  <2>2. CASE a = Monitor
    <3>1. plan'[Main] = plan[Main]
      BY <1>0, <1>5, <2>2 DEF Invoke
    <3> QED
      BY <3>1 DEF Left
  <2>3. CASE a = Main
    <3>1. /\ Shaped(Tail(plan[Main])) /\ Kinds(Tail(plan[Main])) \cap Spent("invoke") = {}
          /\ Kinds(plan[Main]) = {"invoke"} \cup Kinds(Tail(plan[Main]))
      BY <2>1, <2>3, AfterFirst, ShapedTail DEF Shaped
    <3>2. Kinds(Tail(plan[Main])) \cap (Launching \cup Watching \cup {"fireLater"}) = {}
      BY <3>1 DEF Spent
    <3>3. plan'[Main] = Exited("fireLater") \o Tail(plan[Main]) \/ plan'[Main] = Tail(plan[Main])
      BY <1>0, <1>5, <2>3 DEF Invoke
    <3>4. "collect" \in Kinds(Tail(plan[Main]))
      BY <1>3, <3>1, <3>2, <3>3 DEF Left
    <3> QED
      BY <3>1, <3>2, <3>4 DEF Left, Launching
  <2> QED
    BY <2>2, <2>3
<1>6. ASSUME NEW a \in {Main, Monitor}, NEW op, Step(a, op), op # "fork" \/ a = Monitor,
             op = "callbacks" /\ a = Main => SetReadCallbacks
      PROVE  Goal
  <2>1. Left(a) = {op} \cup Left(a)' /\ (a = Monitor => Left(Main)' = Left(Main))
    BY <1>0, <1>6, StepLeaves DEF LifeInv
  <2> QED
    BY <1>6, <2>1
<1>7. CASE StartMonitors \/ RecreateNativePipes \/ ExitLater \/ ExitNow
  <2>1. PICK op \in {"monitors", "recreate", "fireLater", "fireNow"} : Step(Main, op)
    BY <1>7 DEF StartMonitors, RecreateNativePipes, ExitLater, ExitNow
  <2> QED
    BY <1>6, <2>1
<1>8. CASE ForkAndExec
  <2>1. Left(Main) = {"fork"} \cup Left(Main)' /\ Left(Main)' \cap Spent("fork") = {}
    BY <1>8, StepLeaves DEF ForkAndExec, LifeInv
  <2>2. "callbacks" \in Left(Main)
    BY <2>1 DEF LifeInv, Shapes, Shaped, Whole, Left
  <2> QED
    BY <1>8, <2>1, <2>2
<1>9. CASE PlainDoes /\ ~ForkAndExec
  <2>1. PICK a \in {Main, Monitor}, op \in PlainOps :
          Step(a, op) /\ op # "fork" /\ (op = "callbacks" /\ a = Main => SetReadCallbacks)
    <3>1. ASSUME NEW b \in {Main, Monitor}, Wait(b) \/ StopIn(b) \/ JoinIn(b) \/ StopOut(b)
          PROVE  \E op \in PlainOps : Step(b, op) /\ op \notin {"fork", "callbacks"}
      BY <3>1 DEF Wait, StopIn, JoinIn, StopOut, PlainOps
    <3> QED
      BY <1>9, <3>1 DEF PlainDoes, AttachPipes, SetReadCallbacks, CollectOutput, CloseOut, DetachIn,
         DetachOut, SignalMonitor, MonitorReturns, PlainOps
  <2> QED
    BY <1>6, <2>1
<1>10. CASE UNCHANGED plan
  BY <1>10 DEF Left
<1>11. CASE Aside
  BY <1>10, <1>11, AsideMild
<1>12. CASE PipeThreads
  BY <1>10, <1>12, ThreadsMild
<1>13. CASE UNCHANGED procVars
  BY <1>10, <1>13 DEF procVars, ownVars
<1> QED
  BY <1>1, <1>2, <1>4, <1>5, <1>7, <1>8, <1>9, <1>11, <1>12, <1>13, StepKinds

\* A call that has forked has a launch of its own.
LEMMA CallHasForked ==
  ASSUME LifeInv, "collect" \in Left(Main), "fork" \notin Left(Main)
  PROVE  /\ pid \in 1 .. Launches /\ home[pid] # 0
         /\ "callbacks" \in Left(Main) =>
              home[pid] = gen /\ \A s \in StreamSet : polling[Out(s, gen)] = "off"
<1>1. "fireNow" \in Left(Main) /\ ("callbacks" \in Left(Main) => "monitors" \in Left(Main))
  BY DEF LifeInv, Shapes, Shaped, Whole, Left
<1>2. gen # 0 /\ (pid # 0 => pid \in 1 .. Launches)
  BY ChildAssumption DEF LifeInv, LifeTypes
<1>3. CASE "invoke" \in Left(Main)
  BY <1>1, <1>2, <1>3 DEF LifeInv, Watched, Unstarted
<1>4. CASE "invoke" \notin Left(Main)
  <2>1. pid # 0 /\ Over(pid)
    BY <1>1, <1>4 DEF LifeInv, Ending, Fires
  <2>2. "callbacks" \in Left(Main) => home[pid] = gen /\ \A s \in StreamSet : polling[Out(s, gen)] = "off"
    BY <1>1 DEF LifeInv, Forked, Unstarted
  <2> QED
    BY <1>2, <2>1, <2>2 DEF Over
<1> QED
  BY <1>3, <1>4

LEMMA GatheringStep ==
  ASSUME OwnTypes, LifeInv, PlanInv, FlowInv, SaidTypes, OutputInv, [ProcNext]_procVars
  PROVE  Gathering'
<1> SUFFICES ASSUME "collect" \in Left(Main)', "fork" \notin Left(Main)', NEW s \in StreamSet
             PROVE  /\ "callbacks" \in Left(Main)' \/ callback'[Out(s, home'[pid'])]
                    /\ \A k \in 1 .. Taken(pid, s)' :
                         \E i \in DOMAIN output' : output'[i] = ChildBlob(s, pid', k)
  BY DEF Gathering, Out, ChildBlob
<1>1. CASE ForkAndExec /\ "callbacks" \in Left(Main)'
  <2>1. Taken(pid, s)' = 0
    BY <1>1, QueuedForks
  <2> QED
    BY <1>1, <2>1
<1>2. ASSUME "collect" \in Left(Main), "fork" \notin Left(Main),
             "callbacks" \in Left(Main) => "callbacks" \in Left(Main)' \/ SetReadCallbacks
      PROVE  /\ "callbacks" \in Left(Main)' \/ callback'[Out(s, home'[pid'])]
             /\ \A k \in 1 .. Taken(pid, s)' :
                  \E i \in DOMAIN output' : output'[i] = ChildBlob(s, pid', k)
  <2>1. /\ pid \in 1 .. Launches /\ home[pid] # 0
        /\ "callbacks" \in Left(Main) =>
             home[pid] = gen /\ \A x \in StreamSet : polling[Out(x, gen)] = "off"
    BY <1>2, CallHasForked
  <2>2. ~ForkAndExec /\ ~CollectOutput
    <3>1. ASSUME NEW op, Step(Main, op), op \in {"fork", "collect"} PROVE op = "collect" /\ FALSE
      <4>1. Left(Main) = {op} \cup Left(Main)' /\ Left(Main)' \cap Spent(op) = {}
        BY <3>1, StepLeaves DEF LifeInv
      <4> QED
        BY <1>2, <3>1, <4>1 DEF Spent
    <3> QED
      BY <3>1 DEF ForkAndExec, CollectOutput
  <2>3. PICK m \in 1 .. Launches : m = pid
    BY <2>1
  <2>4. pid' = m /\ home'[m] = home[m] /\ (UNCHANGED callback \/ SetReadCallbacks)
    BY <2>1, <2>2, <2>3, CallbackMoves, HomeStays
  <2>5. /\ "callbacks" \in Left(Main) \/ callback[Out(s, home[m])]
        /\ \A k \in 1 .. Taken(m, s) : \E i \in DOMAIN output : output[i] = ChildBlob(s, m, k)
    BY <1>2, <2>3 DEF OutputInv, Gathering
  <2>6. Out(s, home[m]) \in Outs /\ Out(s, gen) \in Outs /\ Out(s, gen) \in NativePipesOf(gen)
    BY <2>1, <2>3, OwnPipes, NativeNames DEF NativePipesOf
  <2>7. "callbacks" \in Left(Main)' \/ callback'[Out(s, home[m])]
    BY <1>2, <2>1, <2>3, <2>4, <2>5, <2>6 DEF SetReadCallbacks
  <2>8. Taken(pid, s)' = Taken(m, s)' /\ output \in Seq(Blobs)
    BY <2>4 DEF Taken, SaidTypes
  <2>9. CASE StillTaken
    <3>1. Taken(m, s)' = Taken(m, s) /\ output' = output
      BY <2>1, <2>3, <2>9 DEF StillTaken
    <3> QED
      BY <2>4, <2>5, <2>7, <2>8, <3>1
  <2>10. ASSUME NEW n \in 1 .. Launches, NEW x \in StreamSet, OneTaken(n, x)
         PROVE  \A k \in 1 .. Taken(m, s)' :
                  \E i \in DOMAIN output' : output'[i] = ChildBlob(s, m, k)
    <3>1. CASE n # m \/ x # s
      <4>1. Taken(m, s)' = Taken(m, s)
        BY <2>1, <2>3, <2>10, <3>1 DEF OneTaken
      <4>2. output' = output \/ \E b : output' = Append(output, b)
        BY <2>10 DEF OneTaken
      <4>3. \A i \in DOMAIN output : i \in DOMAIN output' /\ output'[i] = output[i]
        BY <2>8, <4>2
      <4> QED
        BY <2>5, <4>1, <4>3
    <3>2. CASE n = m /\ x = s
      <4>1. /\ Taken(m, s) \in Nat /\ Taken(m, s)' = Taken(m, s) + 1
            /\ polling[Out(s, home[m])] = "on"
        BY <2>10, <3>2 DEF OneTaken
      <4>2. callback[Out(s, home[m])]
        BY <2>1, <2>3, <2>5, <4>1
      <4>3. PICK b : b = ChildBlob(s, m, Taken(m, s) + 1)
        OBVIOUS
      <4>4. output' = Append(output, b)
        BY <2>10, <3>2, <4>2, <4>3 DEF OneTaken
      <4>5. /\ \A i \in DOMAIN output : i \in DOMAIN output' /\ output'[i] = output[i]
            /\ Len(output) + 1 \in DOMAIN output' /\ output'[Len(output) + 1] = b
        BY <2>8, <4>4
      <4>6. ASSUME NEW k \in 1 .. Taken(m, s)'
            PROVE  \E i \in DOMAIN output' : output'[i] = ChildBlob(s, m, k)
        <5>1. k \in 1 .. Taken(m, s) \/ k = Taken(m, s) + 1
          BY <4>1
        <5> QED
          BY <2>5, <4>3, <4>5, <5>1
      <4> QED
        BY <4>6
    <3> QED
      BY <3>1, <3>2
  <2> QED
    BY <2>4, <2>7, <2>8, <2>9, <2>10, TakenMoves
<1> QED
  BY <1>1, <1>2, GatherBefore

\* What a call returned stays all of it: its child writes no more.
LEMMA CompleteLasts ==
  ASSUME OwnTypes, LifeInv, PlanInv, [ProcNext]_procVars, NEW r, Complete(r)
  PROVE  Complete(r)'
<1>1. r.launch \in 1 .. Launches /\ Over(r.launch) /\ Sorted(r.output)
  BY DEF Complete
<1>2. Over(r.launch)' /\ produced'[r.launch] = produced[r.launch]
  BY <1>1, OverLasts, OverIsSilent
<1>3. \A s \in StreamSet : Produced(r.launch, s)' = Produced(r.launch, s)
  BY <1>2 DEF Produced
<1> QED
  BY <1>1, <1>2, <1>3 DEF Complete, Sorted, InOrder, Own

\* When a call collects the output, the reader's threads have ended.
LEMMA CollectComplete ==
  ASSUME OwnTypes, LifeInv, PlanInv, FlowInv, OutputInv, Step(Main, "collect")
  PROVE  Complete([launch |-> pid, output |-> output])
<1>1. Left(Main) = {"collect"} \cup Left(Main)' /\ Left(Main)' \cap Spent("collect") = {}
  BY StepLeaves DEF LifeInv
<1>2. "collect" \in Left(Main) /\ Left(Main) \cap (Launching \cup Watching) = {}
  BY <1>1 DEF Spent, Launching, Watching
<1>3. "fireNow" \in Left(Main)
  BY <1>2 DEF LifeInv, Shapes, Shaped, Whole, Left
<1>4. pid \in 1 .. Launches /\ Over(pid)
  BY <1>2, <1>3, ChildAssumption DEF LifeInv, LifeTypes, Ending, Fires, Watching
<1>5. Sorted(output) /\ \A i \in DOMAIN output : WasTaken(output[i])
  BY DEF OutputInv, OutputTaken
<1>6. ASSUME NEW s \in StreamSet
      PROVE  {output[j] : j \in Own(output, pid, s)} = Produced(pid, s)
  <2>1. home[pid] # 0 /\ polling[Out(s, home[pid])] = "ended"
    BY <1>4 DEF Over
  <2>2. Out(s, home[pid]) \in Outs
    BY <1>4, <2>1, OwnPipes
  <2>3. channel[Out(s, home[pid])] = <<>>
    BY <2>1, <2>2 DEF FlowInv, Readers
  <2>4. produced[pid][s] \in 0 .. MaxOutput
    <3>1. produced \in [1 .. Launches -> [StreamSet -> 0 .. MaxOutput]]
      BY DEF OwnTypes
    <3>2. pid \in 1 .. Launches
      BY <1>4
    <3> QED
      BY <3>1, <3>2
  <2>5. produced[pid][s] \in Int
    BY <2>4, ProcessAssumption
  <2>6. Taken(pid, s) = produced[pid][s]
    BY <2>3, <2>5 DEF Taken
  <2>7. ASSUME NEW j \in Own(output, pid, s) PROVE output[j] \in Produced(pid, s)
    <3>1. j \in DOMAIN output /\ output[j][1] = s /\ output[j][2] = pid
      BY DEF Own
    <3>2. PICK m \in 1 .. Launches, x \in StreamSet :
            home[m] # 0 /\ \E k \in 1 .. Taken(m, x) : output[j] = ChildBlob(x, m, k)
      BY <1>5, <3>1 DEF WasTaken
    <3>3. PICK k \in 1 .. Taken(m, x) : output[j] = ChildBlob(x, m, k)
      BY <3>2
    <3>4. x = s /\ m = pid
      BY <3>1, <3>3 DEF ChildBlob
    <3> QED
      BY <2>6, <3>3, <3>4 DEF Produced
  <2>8. ASSUME NEW b \in Produced(pid, s) PROVE \E j \in Own(output, pid, s) : output[j] = b
    <3>1. PICK k \in 1 .. Taken(pid, s) : b = ChildBlob(s, pid, k)
      BY <2>6 DEF Produced
    <3>2. PICK j \in DOMAIN output : output[j] = ChildBlob(s, pid, k)
      BY <1>2 DEF OutputInv, Gathering, Launching
    <3> QED
      BY <3>1, <3>2 DEF Own, ChildBlob
  <2> QED
    BY <2>7, <2>8
<1> QED
  BY <1>4, <1>5, <1>6 DEF Complete

LEMMA AnswersStep ==
  ASSUME OwnTypes, LifeInv, PlanInv, FlowInv, SaidTypes, OutputInv, [ProcNext]_procVars
  PROVE  Answers'
<1> SUFFICES ASSUME NEW i \in DOMAIN returned' PROVE Complete(returned[i])'
  BY DEF Answers
<1>1. PICK r : r = returned'[i]
  OBVIOUS
<1>2. Complete(r)
  <2>1. \A j \in DOMAIN returned : Complete(returned[j])
    BY DEF OutputInv, Answers
  <2>2. CASE UNCHANGED returned
    BY <1>1, <2>1, <2>2
  <2>3. CASE Step(Main, "collect") /\ returned' = Append(returned, [launch |-> pid, output |-> output])
    <3>1. PICK c : c = [launch |-> pid, output |-> output]
      OBVIOUS
    <3>2. Complete(c)
      BY <2>3, <3>1, CollectComplete
    <3>3. returned \in Seq([launch : 0 .. Launches, output : Seq(Blobs)]) /\ returned' = Append(returned, c)
      BY <2>3, <3>1 DEF SaidTypes
    <3>4. returned'[i] = c \/ (i \in DOMAIN returned /\ returned'[i] = returned[i])
      BY <3>3
    <3> QED
      BY <1>1, <2>1, <3>2, <3>4
  <2> QED
    BY <2>2, <2>3, ReturnedMoves
<1>3. Complete(r)'
  BY <1>2, CompleteLasts
<1> QED
  BY <1>1, <1>3 DEF Complete, Sorted, InOrder, Own

LEMMA OutputStep ==
  ASSUME OwnTypes, LifeInv, PlanInv, FlowInv, SaidTypes, OutputInv, [ProcNext]_procVars
  PROVE  OutputInv'
<1>1. Queued' /\ (StillTaken \/ \E n \in 1 .. Launches, s \in StreamSet : OneTaken(n, s))
  BY TakenMoves
<1>2. OutputTaken'
  BY <1>1, OutputTakenStep
<1> QED
  BY <1>1, <1>2, GatheringStep, AnswersStep DEF OutputInv

\* A call of the object returns all its child wrote, in the order of each stream:
\* it sets its read callbacks before the monitors start (MonitorSync), and collects
\* the output when the exit monitor has joined the threads that read
\* (posix_process.cpp, LaunchSync).
THEOREM CallsReturnOutput == ProcSpec => []OutputReturned
<1> DEFINE Inv == ExitInv /\ OutputInv
<1>1. ProcInit => Inv
  BY ExitInit, OutputInit
<1>2. Inv /\ [ProcNext]_procVars => Inv'
  <2> SUFFICES ASSUME Inv, [ProcNext]_procVars PROVE Inv'
    OBVIOUS
  <2>1. OwnTypes /\ LifeInv /\ PlanInv /\ FlowInv /\ SaidTypes
    BY DEF ExitInv, ExitBase
  <2> QED
    BY <2>1, ExitStep, OutputStep
<1>3. Inv => OutputReturned
  BY DEF OutputInv, Answers, Complete, Sorted, OutputReturned
<1> QED
  BY <1>1, <1>2, <1>3, PTL DEF ProcSpec
===============================================================================
