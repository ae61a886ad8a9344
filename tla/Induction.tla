------------------------------ MODULE Induction ------------------------------
(***************************************************************************)
(* Lemmas for the proofs about what the model computes by recursion along  *)
(* a sequence.  Induction is used in the form in which the provers can use *)
(* it: over the elements of a set.  It rests on < being well-founded.      *)
(***************************************************************************)
EXTENDS Naturals, Sequences, SequencesExt, WellFoundedInduction, TLAPS

LEMMA LessIsWellFounded ==
  \E R : IsWellFoundedOn(R, Nat) /\ \A x, y \in Nat : <<x, y>> \in R <=> x < y
<1>1. PICK R : R = OpToRel(<, Nat)
  OBVIOUS
<1>2. IsWellFoundedOn(R, Nat)
  BY <1>1, NatLessThanWellFounded
<1>3. ASSUME NEW x \in Nat, NEW y \in Nat PROVE <<x, y>> \in R <=> x < y
  BY <1>1, Zenon DEF OpToRel
<1> QED
  BY <1>2, <1>3

\* A set of natural numbers has a least element.
LEMMA Least ==
  ASSUME NEW T, T \subseteq Nat, T # {}
  PROVE  \E x \in T : \A y \in T : x <= y
<1>1. PICK R : IsWellFoundedOn(R, Nat) /\ \A x, y \in Nat : <<x, y>> \in R <=> x < y
  BY LessIsWellFounded
<1>2. IsWellFoundedOn(R, Nat)
  BY <1>1
<1>3. PICK x \in T : \A y \in T : ~ (<<y, x>> \in R)
  BY <1>2, WFMin
<1>4. \A y \in T : ~ (y < x)
  BY <1>1, <1>3
<1> QED
  BY <1>3, <1>4

\* What holds of 0, and of i + 1 whenever of i, holds up to n.
LEMMA UpToInduction ==
  ASSUME NEW n \in Nat, NEW S, 0 \in S, \A i \in 0 .. n - 1 : i \in S => i + 1 \in S
  PROVE  0 .. n \subseteq S
<1> SUFFICES ASSUME NEW m \in 0 .. n, m \notin S PROVE FALSE
  OBVIOUS
<1> DEFINE T == {i \in 0 .. n : i \notin S}
<1>1. PICK x \in T : \A y \in T : x <= y
  <2>1. T \subseteq Nat /\ T # {}
    OBVIOUS
  <2> HIDE DEF T
  <2> QED
    BY <2>1, Least
<1>2. x # 0 /\ x - 1 \in 0 .. n - 1 /\ x = (x - 1) + 1 /\ x \notin S /\ x - 1 \in 0 .. n
  OBVIOUS
<1>3. x - 1 \in S
  <2>1. CASE x - 1 \in T
    BY <1>1, <1>2, <2>1
  <2> QED
    BY <1>2, <2>1
<1> QED
  BY <1>2, <1>3

\* f starts with b, and g takes it from each index to the next.
Recursion(f, n, b, g) == f[0] = b /\ \A i \in 1 .. n : f[i] = g[<<i, f[i - 1]>>]

\* A recursion along 1 .. n has a function that obeys it.
LEMMA RecursionExists ==
  ASSUME NEW n \in Nat, NEW S, NEW b \in S, NEW g \in [(1 .. n) \X S -> S]
  PROVE  \E f \in [0 .. n -> S] : Recursion(f, n, b, g)
<1> DEFINE Obeys(k, f) == f[0] = b /\ \A i \in 1 .. k : f[i] = g[<<i, f[i - 1]>>]
           D == {k \in 0 .. n : \E f \in [0 .. n -> S] : Obeys(k, f)}
<1>1. 0 \in D
  <2>1. [i \in 0 .. n |-> b] \in [0 .. n -> S] /\ 0 \in 0 .. n /\ 1 .. 0 = {}
    OBVIOUS
  <2>2. Obeys(0, [i \in 0 .. n |-> b])
    BY <2>1
  <2> QED
    BY <2>1, <2>2
<1>2. ASSUME NEW k \in 0 .. n - 1, k \in D PROVE k + 1 \in D
  <2>1. PICK f \in [0 .. n -> S] : Obeys(k, f)
    BY <1>2
  <2>2. k \in 0 .. n /\ k + 1 \in 1 .. n /\ k + 1 \in 0 .. n /\ 0 \in 0 .. n /\ (k + 1) - 1 = k
    OBVIOUS
  <2>3. PICK v \in S : v = g[<<k + 1, f[k]>>]
    BY <2>1, <2>2
  <2>4. PICK h \in [0 .. n -> S] : h = [f EXCEPT ![k + 1] = v]
    BY <2>1, <2>3
  <2>5. h[0] = b
    BY <2>1, <2>2, <2>4
  <2>6. ASSUME NEW i \in 1 .. k + 1 PROVE h[i] = g[<<i, h[i - 1]>>]
    <3>1. CASE i = k + 1
      BY <2>1, <2>2, <2>3, <2>4, <3>1
    <3>2. CASE i # k + 1
      <4>1. i \in 1 .. k /\ i \in 0 .. n /\ i - 1 \in 0 .. n /\ i - 1 # k + 1
        BY <3>2
      <4> QED
        BY <2>1, <2>4, <3>2, <4>1
    <3> QED
      BY <3>1, <3>2
  <2>7. Obeys(k + 1, h)
    BY <2>5, <2>6
  <2> QED
    BY <2>2, <2>7
<1>3. n \in D
  <2> HIDE DEF D
  <2>1. 0 .. n \subseteq D
    BY <1>1, <1>2, UpToInduction
  <2> QED
    BY <2>1
<1> QED
  BY <1>3 DEF Recursion

-----------------------------------------------------------------------------
(* Sequences and what occurs in them.                                      *)

\* An element occurs at most once.
OnceIn(s, x) == \A i, j \in DOMAIN s : s[i] = x /\ s[j] = x => i = j

LEMMA Appended ==
  ASSUME NEW S, NEW s \in Seq(S), NEW x \in S
  PROVE  /\ Append(s, x) \in Seq(S) /\ Append(s, x) # <<>>
         /\ Range(Append(s, x)) = Range(s) \cup {x}
         /\ \A y : OnceIn(s, y) /\ (y = x => x \notin Range(s)) => OnceIn(Append(s, x), y)
         /\ OnceIn(Append(s, x), x) => x \notin Range(s)
<1> DEFINE t == Append(s, x)
<1>1. /\ t \in Seq(S) /\ DOMAIN t = 1 .. Len(s) + 1 /\ DOMAIN s = 1 .. Len(s) /\ Len(s) \in Nat
      /\ \A i \in 1 .. Len(s) : t[i] = s[i]
      /\ t[Len(s) + 1] = x
  OBVIOUS
<1>2. t # <<>>
  BY <1>1
<1> HIDE DEF t
<1>3. \A i \in 1 .. Len(s) + 1 : i \in 1 .. Len(s) \/ i = Len(s) + 1
  BY <1>1
<1>4. \A i \in 1 .. Len(s) : i \in 1 .. Len(s) + 1 /\ i # Len(s) + 1
  BY <1>1
<1>5. Len(s) + 1 \in 1 .. Len(s) + 1
  BY <1>1
<1>6. Range(t) = Range(s) \cup {x}
  BY <1>1, <1>3, <1>4, <1>5 DEF Range
<1>7. ASSUME NEW y, OnceIn(s, y), y = x => x \notin Range(s) PROVE OnceIn(t, y)
  <2> SUFFICES ASSUME NEW i \in DOMAIN t, NEW j \in DOMAIN t, t[i] = y, t[j] = y PROVE i = j
    BY DEF OnceIn
  <2>1. CASE i \in 1 .. Len(s) /\ j \in 1 .. Len(s)
    BY <1>1, <1>7, <2>1 DEF OnceIn
  <2>2. CASE i = Len(s) + 1 /\ j = Len(s) + 1
    BY <2>2
  <2>3. CASE y = x /\ (i \in 1 .. Len(s) \/ j \in 1 .. Len(s))
    BY <1>1, <1>7, <2>3 DEF Range
  <2> QED
    BY <1>1, <1>3, <2>1, <2>2, <2>3
<1>8. ASSUME OnceIn(t, x), x \in Range(s) PROVE FALSE
  <2>1. PICK k \in 1 .. Len(s) : s[k] = x
    BY <1>1, <1>8 DEF Range
  <2> QED
    BY <1>1, <1>4, <1>5, <1>8, <2>1 DEF OnceIn
<1> QED
  BY <1>1, <1>2, <1>6, <1>7, <1>8 DEF t

LEMMA FrontAndLast ==
  ASSUME NEW S, NEW s \in Seq(S), s # <<>>
  PROVE  Front(s) \in Seq(S) /\ Last(s) \in S /\ Append(Front(s), Last(s)) = s
<1>1. Len(s) \in Nat \ {0} /\ DOMAIN s = 1 .. Len(s)
  OBVIOUS
<1>2. PICK f : f = Front(s)
  OBVIOUS
<1>3. f \in Seq(S) /\ Len(f) = Len(s) - 1 /\ \A i \in 1 .. Len(s) - 1 : f[i] = s[i]
  BY <1>1, <1>2 DEF Front
<1>4. Last(s) \in S
  BY <1>1 DEF Last
<1>5. PICK c : c = Last(s)
  OBVIOUS
<1>6. c \in S /\ c = s[Len(s)]
  BY <1>4, <1>5 DEF Last
<1>7. PICK t : t = Append(f, c)
  OBVIOUS
<1>8. t \in Seq(S) /\ Len(t) = Len(s)
  <2>1. f \in Seq(S) /\ c \in S
    BY <1>3, <1>6
  <2>2. t \in Seq(S) /\ Len(t) = Len(f) + 1
    BY <1>7, <2>1
  <2> QED
    BY <1>1, <1>3, <2>2
<1>9. ASSUME NEW i \in 1 .. Len(s) PROVE t[i] = s[i]
  BY <1>1, <1>3, <1>6, <1>7
<1>10. t = s
  BY <1>8, <1>9
<1> QED
  BY <1>2, <1>3, <1>4, <1>5, <1>7, <1>10

LEMMA HeadAndTail ==
  ASSUME NEW S, NEW s \in Seq(S), s # <<>>
  PROVE  /\ Head(s) \in S /\ Tail(s) \in Seq(S)
         /\ Range(s) = Range(Tail(s)) \cup {Head(s)}
         /\ \A x : OnceIn(s, x) => OnceIn(Tail(s), x)
         /\ OnceIn(s, Head(s)) => Head(s) \notin Range(Tail(s))
<1>1. Len(s) \in Nat \ {0} /\ DOMAIN s = 1 .. Len(s)
  OBVIOUS
<1>2. PICK t : t = Tail(s)
  OBVIOUS
<1>3. /\ t \in Seq(S) /\ DOMAIN t = 1 .. Len(s) - 1
      /\ \A i \in 1 .. Len(s) - 1 : t[i] = s[i + 1]
  BY <1>1, <1>2
<1>4. Head(s) = s[1] /\ s[1] \in S
  BY <1>1
<1>5. \A i \in 1 .. Len(s) - 1 : i + 1 \in 1 .. Len(s) /\ i + 1 # 1
  BY <1>1
<1>6. \A i \in 1 .. Len(s) : i = 1 \/ (i - 1 \in 1 .. Len(s) - 1 /\ (i - 1) + 1 = i)
  BY <1>1
<1>7. 1 \in 1 .. Len(s)
  BY <1>1
<1>8. Range(s) = Range(t) \cup {s[1]}
  <2>1. ASSUME NEW i \in 1 .. Len(s) PROVE s[i] \in Range(t) \cup {s[1]}
    <3>1. CASE i = 1
      BY <3>1
    <3>2. CASE i - 1 \in 1 .. Len(s) - 1 /\ (i - 1) + 1 = i
      BY <1>3, <3>2 DEF Range
    <3> QED
      BY <1>6, <3>1, <3>2
  <2>2. ASSUME NEW i \in 1 .. Len(s) - 1 PROVE t[i] \in Range(s)
    BY <1>1, <1>3, <1>5 DEF Range
  <2>3. s[1] \in Range(s)
    BY <1>1, <1>7 DEF Range
  <2> QED
    BY <1>1, <1>3, <2>1, <2>2, <2>3 DEF Range
<1>9. ASSUME NEW x, OnceIn(s, x) PROVE OnceIn(t, x)
  <2> SUFFICES ASSUME NEW i \in 1 .. Len(s) - 1, NEW j \in 1 .. Len(s) - 1, t[i] = x, t[j] = x
               PROVE i = j
    BY <1>3 DEF OnceIn
  <2>1. i + 1 = j + 1
    BY <1>1, <1>3, <1>5, <1>9 DEF OnceIn
  <2> QED
    BY <2>1
<1>10. ASSUME OnceIn(s, s[1]), s[1] \in Range(t) PROVE FALSE
  <2>1. PICK k \in 1 .. Len(s) - 1 : t[k] = s[1]
    BY <1>3, <1>10 DEF Range
  <2> QED
    BY <1>1, <1>3, <1>5, <1>7, <1>10, <2>1 DEF OnceIn
<1> QED
  BY <1>2, <1>3, <1>4, <1>8, <1>9, <1>10

LEMMA FrontOnce ==
  ASSUME NEW S, NEW f \in Seq(S), NEW c \in S, NEW x, OnceIn(Append(f, c), x)
  PROVE  OnceIn(f, x)
<1>1. /\ DOMAIN f = 1 .. Len(f) /\ DOMAIN Append(f, c) = 1 .. Len(f) + 1 /\ Len(f) \in Nat
      /\ \A i \in 1 .. Len(f) : Append(f, c)[i] = f[i]
  OBVIOUS
<1>2. \A i \in 1 .. Len(f) : i \in 1 .. Len(f) + 1
  BY <1>1
<1> QED
  BY <1>1, <1>2 DEF OnceIn

\* The last element is replaced.
LEMMA Replaced ==
  ASSUME NEW S, NEW s \in Seq(S), s # <<>>, NEW d \in S
  PROVE  LET t == Append(Front(s), d)
         IN /\ t \in Seq(S)
            /\ Range(s) \subseteq Range(t) \cup {Last(s)}
            /\ Range(t) \subseteq Range(s) \cup {d} /\ d \in Range(t) /\ Last(s) \in Range(s)
            /\ OnceIn(s, Last(s)) /\ d # Last(s) => Last(s) \notin Range(t)
            /\ \A x : OnceIn(s, x) /\ (x = d => d \notin Range(s)) => OnceIn(t, x)
<1>1. PICK f : f = Front(s)
  OBVIOUS
<1>2. PICK c : c = Last(s)
  OBVIOUS
<1>3. f \in Seq(S) /\ c \in S /\ Append(f, c) = s
  BY <1>1, <1>2, FrontAndLast
<1>4. /\ Range(s) = Range(f) \cup {c}
      /\ OnceIn(s, c) => c \notin Range(f)
  <2>1. /\ Range(Append(f, c)) = Range(f) \cup {c}
        /\ OnceIn(Append(f, c), c) => c \notin Range(f)
    <3>1. f \in Seq(S) /\ c \in S
      BY <1>3
    <3> QED
      BY <3>1, Appended
  <2> QED
    BY <1>3, <2>1
<1>5. /\ Append(f, d) \in Seq(S)
      /\ Range(Append(f, d)) = Range(f) \cup {d}
      /\ \A x : OnceIn(f, x) /\ (x = d => d \notin Range(f)) => OnceIn(Append(f, d), x)
  BY <1>3, Appended
<1>6. ASSUME NEW x, OnceIn(s, x) PROVE OnceIn(f, x)
  BY <1>3, <1>6, FrontOnce
<1> QED
  BY <1>1, <1>2, <1>4, <1>5, <1>6

\* The last element is dropped.
LEMMA Dropped ==
  ASSUME NEW S, NEW s \in Seq(S), s # <<>>
  PROVE  /\ Front(s) \in Seq(S)
         /\ Range(s) = Range(Front(s)) \cup {Last(s)}
         /\ OnceIn(s, Last(s)) => Last(s) \notin Range(Front(s))
         /\ \A x : OnceIn(s, x) => OnceIn(Front(s), x)
<1>1. PICK f : f = Front(s)
  OBVIOUS
<1>2. PICK c : c = Last(s)
  OBVIOUS
<1>3. f \in Seq(S) /\ c \in S /\ Append(f, c) = s
  BY <1>1, <1>2, FrontAndLast
<1>4. /\ Range(s) = Range(f) \cup {c}
      /\ OnceIn(s, c) => c \notin Range(f)
  <2>1. /\ Range(Append(f, c)) = Range(f) \cup {c}
        /\ OnceIn(Append(f, c), c) => c \notin Range(f)
    <3>1. f \in Seq(S) /\ c \in S
      BY <1>3
    <3> QED
      BY <3>1, Appended
  <2> QED
    BY <1>3, <2>1
<1>5. ASSUME NEW x, OnceIn(s, x) PROVE OnceIn(f, x)
  BY <1>3, <1>5, FrontOnce
<1> QED
  BY <1>1, <1>2, <1>3, <1>4, <1>5

LEMMA MinIsIn ==
  ASSUME NEW I, I \subseteq Nat, I # {}
  PROVE  Min(I) \in I /\ \A y \in I : Min(I) <= y
<1>1. PICK x \in I : \A y \in I : x <= y
  BY Least
<1> QED
  BY <1>1 DEF Min

\* An element is taken out of a sequence.
LEMMA TakenOut ==
  ASSUME NEW S, NEW s \in Seq(S), NEW k \in 1 .. Len(s)
  PROVE  /\ RemoveAt(s, k) \in Seq(S) /\ DOMAIN RemoveAt(s, k) = 1 .. Len(s) - 1
         /\ \A j \in 1 .. Len(s) - 1 :
              RemoveAt(s, k)[j] = IF j < k THEN s[j] ELSE s[j + 1]
<1>0. PICK n \in Nat : n = Len(s)
  OBVIOUS
<1>1. PICK a : a = SubSeq(s, 1, k - 1)
  OBVIOUS
<1>2. PICK b : b = SubSeq(s, k + 1, n)
  OBVIOUS
<1>3. n = Len(s) /\ k \in Nat /\ 1 <= k /\ k <= n
  BY <1>0
<1>4. a \in Seq(S) /\ Len(a) = k - 1 /\ \A j \in 1 .. k - 1 : a[j] = s[j]
  BY <1>1, <1>3
<1>5. b \in Seq(S) /\ Len(b) = n - k /\ \A j \in 1 .. n - k : b[j] = s[k + j]
  <2>1. \A j \in 1 .. n - k : (k + 1) + j - 1 = k + j
    BY <1>3
  <2> QED
    BY <1>2, <1>3, <2>1
<1>6. PICK t : t = a \o b
  OBVIOUS
<1>7. t \in Seq(S) /\ Len(t) = n - 1 /\ DOMAIN t = 1 .. n - 1
  <2>1. t \in Seq(S)
    BY <1>4, <1>5, <1>6
  <2>2. Len(t) = Len(a) + Len(b)
    <3>1. a \in Seq(S) /\ b \in Seq(S)
      BY <1>4, <1>5
    <3> QED
      BY <1>6, <3>1
  <2>3. Len(t) = n - 1
    BY <1>3, <1>4, <1>5, <2>2
  <2> QED
    BY <2>1, <2>3
<1>8. ASSUME NEW j \in 1 .. n - 1 PROVE t[j] = IF j < k THEN s[j] ELSE s[j + 1]
  <2>1. CASE j < k
    <3>1. j \in 1 .. k - 1
      BY <1>3, <2>1
    <3>2. t[j] = a[j]
      BY <1>3, <1>4, <1>5, <1>6, <2>1, <3>1
    <3> QED
      BY <1>4, <2>1, <3>1, <3>2
  <2>2. CASE ~ (j < k)
    <3>1. j - (k - 1) \in 1 .. n - k /\ k + (j - (k - 1)) = j + 1 /\ (k - 1) + (j - (k - 1)) = j
      BY <1>3, <2>2
    <3>2. t[j] = b[j - (k - 1)]
      BY <1>3, <1>4, <1>5, <1>6, <2>2, <3>1
    <3> QED
      BY <1>5, <2>2, <3>1, <3>2
  <2> QED
    BY <2>1, <2>2
<1> QED
  BY <1>0, <1>1, <1>2, <1>6, <1>7, <1>8 DEF RemoveAt

\* What is not taken out stays.
LEMMA OthersStay ==
  ASSUME NEW S, NEW s \in Seq(S), NEW k \in 1 .. Len(s), NEW c \in Range(s), c # s[k]
  PROVE  c \in Range(RemoveAt(s, k))
<1>1. PICK n \in Nat : n = Len(s)
  OBVIOUS
<1>2. PICK t : t = RemoveAt(s, k)
  OBVIOUS
<1>3. /\ DOMAIN t = 1 .. n - 1
      /\ \A j \in 1 .. n - 1 : t[j] = IF j < k THEN s[j] ELSE s[j + 1]
  BY <1>1, <1>2, TakenOut
<1>4. PICK i \in 1 .. n : s[i] = c
  BY <1>1 DEF Range
<1>5. i # k /\ k \in 1 .. n
  BY <1>1, <1>4
<1>6. PICK j \in 1 .. n - 1 : i = IF j < k THEN j ELSE j + 1
  <2>1. CASE i < k
    <3>1. i \in 1 .. n - 1
      BY <1>5, <2>1
    <3> QED
      BY <2>1, <3>1
  <2>2. CASE i > k
    <3>1. i - 1 \in 1 .. n - 1 /\ ~ (i - 1 < k) /\ (i - 1) + 1 = i
      BY <1>5, <2>2
    <3> QED
      BY <3>1
  <2> QED
    BY <1>5, <2>1, <2>2
<1>7. t[j] = c
  BY <1>3, <1>4, <1>6
<1> QED
  BY <1>2, <1>3, <1>7 DEF Range

-----------------------------------------------------------------------------
(* The algebra of concatenation.                                           *)

LEMMA Concatenated ==
  ASSUME NEW S, NEW s \in Seq(S), NEW t \in Seq(S)
  PROVE  /\ s \o t \in Seq(S) /\ Len(s \o t) = Len(s) + Len(t)
         /\ Len(s) \in Nat /\ Len(t) \in Nat
         /\ \A i \in 1 .. Len(s) : (s \o t)[i] = s[i]
         /\ \A i \in 1 .. Len(t) : (s \o t)[Len(s) + i] = t[i]
         /\ s \o <<>> = s /\ <<>> \o s = s
<1>1. s \o t \in Seq(S) /\ Len(s \o t) = Len(s) + Len(t) /\ Len(s) \in Nat /\ Len(t) \in Nat
  OBVIOUS
<1>2. \A i \in 1 .. Len(s) : (s \o t)[i] = s[i]
  OBVIOUS
<1>3. ASSUME NEW i \in 1 .. Len(t) PROVE (s \o t)[Len(s) + i] = t[i]
  <2>1. Len(s) + i \in 1 .. Len(s) + Len(t) /\ ~ (Len(s) + i <= Len(s))
        /\ (Len(s) + i) - Len(s) = i
    BY <1>1
  <2> QED
    BY <2>1
<1>4. s \o <<>> = s /\ <<>> \o s = s
  OBVIOUS
<1> QED
  BY <1>1, <1>2, <1>3, <1>4

LEMMA ConcatAppend ==
  ASSUME NEW S, NEW s \in Seq(S), NEW t \in Seq(S), NEW e \in S
  PROVE  s \o Append(t, e) = Append(s \o t, e)
OBVIOUS

LEMMA ConcatAssoc ==
  ASSUME NEW S, NEW s \in Seq(S), NEW t \in Seq(S), NEW u \in Seq(S)
  PROVE  (s \o t) \o u = s \o (t \o u)
OBVIOUS

-----------------------------------------------------------------------------
(* Recursion and induction along a sequence.                               *)

\* What starts alike and goes on alike is alike.
LEMMA Agree ==
  ASSUME NEW n \in Nat, NEW f, NEW h, f[0] = h[0],
         \A i \in 0 .. n - 1 : f[i] = h[i] => f[i + 1] = h[i + 1]
  PROVE  \A i \in 0 .. n : f[i] = h[i]
<1> DEFINE D == {i \in 0 .. n : f[i] = h[i]}
<1>1. 0 \in D /\ \A i \in 0 .. n - 1 : i \in D => i + 1 \in D
  <2>1. 0 \in 0 .. n /\ \A i \in 0 .. n - 1 : i + 1 \in 0 .. n
    OBVIOUS
  <2> QED
    BY <2>1
<1>2. 0 .. n \subseteq D
  <2> HIDE DEF D
  <2> QED
    BY <1>1, UpToInduction
<1> QED
  BY <1>2

\* What holds of the empty sequence, and of one more element whenever of the rest,
\* holds of every sequence.
LEMMA SequenceInduction ==
  ASSUME NEW S, NEW P, <<>> \in P,
         \A s \in Seq(S), e \in S : s \in P => Append(s, e) \in P
  PROVE  Seq(S) \subseteq P
<1> SUFFICES ASSUME NEW s \in Seq(S) PROVE s \in P
  OBVIOUS
<1>1. PICK n \in Nat : n = Len(s)
  OBVIOUS
<1>2. PICK part : part = [i \in 0 .. n |-> SubSeq(s, 1, i)]
  OBVIOUS
<1>3. part[0] = <<>> /\ part[n] = s /\ \A i \in 0 .. n : part[i] \in Seq(S)
  <2>1. SubSeq(s, 1, 0) = <<>> /\ SubSeq(s, 1, n) = s
    BY <1>1
  <2>2. 0 \in 0 .. n /\ n \in 0 .. n
    OBVIOUS
  <2>3. ASSUME NEW i \in 0 .. n PROVE SubSeq(s, 1, i) \in Seq(S)
    BY <1>1
  <2> QED
    BY <1>2, <2>1, <2>2, <2>3
<1>4. ASSUME NEW i \in 0 .. n - 1
      PROVE  part[i + 1] = Append(part[i], s[i + 1]) /\ s[i + 1] \in S /\ i \in 0 .. n
  <2>1. i + 1 \in 0 .. n /\ i \in 0 .. n /\ i + 1 \in 1 .. n
    OBVIOUS
  <2>2. s[i + 1] \in S
    BY <1>1, <2>1
  <2>3. SubSeq(s, 1, i + 1) = Append(SubSeq(s, 1, i), s[i + 1])
    BY <1>1, <2>1
  <2> QED
    BY <1>2, <2>1, <2>2, <2>3
<1> DEFINE D == {i \in 0 .. n : part[i] \in P}
<1>5. 0 \in D
  <2>1. 0 \in 0 .. n
    OBVIOUS
  <2> QED
    BY <1>3, <2>1
<1>6. ASSUME NEW i \in 0 .. n - 1, i \in D PROVE i + 1 \in D
  <2>1. part[i] \in Seq(S) /\ part[i] \in P
    BY <1>3, <1>6
  <2>2. Append(part[i], s[i + 1]) \in P
    BY <1>4, <2>1
  <2>3. i + 1 \in 0 .. n
    OBVIOUS
  <2> QED
    BY <1>4, <2>2, <2>3
<1>7. n \in D
  <2> HIDE DEF D
  <2>1. 0 .. n \subseteq D
    BY <1>5, <1>6, UpToInduction
  <2> QED
    BY <2>1
<1> QED
  BY <1>3, <1>7

\* f joins the parts of ss, one after the other.
Joins(f, ss) == f[0] = <<>> /\ \A i \in 1 .. Len(ss) : f[i] = f[i - 1] \o ss[i]

LEMMA JoinExists ==
  ASSUME NEW S, NEW ss \in Seq(Seq(S))
  PROVE  \E f \in [0 .. Len(ss) -> Seq(S)] : Joins(f, ss)
<1>1. PICK n \in Nat : n = Len(ss)
  OBVIOUS
<1>2. PICK T : T = Seq(S)
  OBVIOUS
<1>3. PICK e \in T : e = <<>>
  <2>1. <<>> \in Seq(S)
    OBVIOUS
  <2> QED
    BY <1>2, <2>1
<1>4. \A i \in 1 .. n : ss[i] \in T
  BY <1>1, <1>2
<1>5. \A s, t \in T : s \o t \in T
  BY <1>2
<1>6. PICK g : g = [p \in (1 .. n) \X T |-> p[2] \o ss[p[1]]]
  OBVIOUS
<1>7. g \in [(1 .. n) \X T -> T]
  BY <1>4, <1>5, <1>6
<1>8. \A i \in 1 .. n, s \in T : g[<<i, s>>] = s \o ss[i]
  BY <1>6
<1>9. PICK f \in [0 .. n -> T] : Recursion(f, n, e, g)
  BY <1>7, RecursionExists
<1>10. \A i \in 1 .. n : i - 1 \in 0 .. n
  BY <1>1
<1>11. \A i \in 1 .. n : f[i - 1] \in T
  BY <1>9, <1>10
<1>12. Joins(f, ss)
  BY <1>1, <1>3, <1>8, <1>9, <1>11 DEF Joins, Recursion
<1> QED
  BY <1>1, <1>2, <1>9, <1>12

LEMMA NothingIn ==
  ASSUME NEW S, NEW s \in Seq(S), Len(s) = 0
  PROVE  s = <<>>
OBVIOUS

LEMMA SameSequence ==
  ASSUME NEW S, NEW s \in Seq(S), NEW t \in Seq(S), Len(s) = Len(t),
         \A i \in 1 .. Len(s) : s[i] = t[i]
  PROVE  s = t
OBVIOUS

LEMMA OneMore ==
  ASSUME NEW S, NEW s \in Seq(S), NEW e \in S
  PROVE  /\ Append(s, e) \in Seq(S) /\ Len(Append(s, e)) = Len(s) + 1
         /\ Append(s, e)[Len(s) + 1] = e /\ \A i \in 1 .. Len(s) : Append(s, e)[i] = s[i]
OBVIOUS

LEMMA FlattenJoins ==
  ASSUME NEW S, NEW ss \in Seq(Seq(S)), NEW f \in [0 .. Len(ss) -> Seq(S)], Joins(f, ss)
  PROVE  FlattenSeq(ss) = f[Len(ss)]
<1>1. PICK n \in Nat : n = Len(ss)
  OBVIOUS
<1>2. f[0] = <<>> /\ \A i \in 1 .. n : f[i] = f[i - 1] \o ss[i]
  BY <1>1 DEF Joins
<1>3. CASE n = 0
  <2>1. ss = <<>>
    BY <1>1, <1>3, NothingIn
  <2>2. FlattenSeq(ss) = ss
    BY <1>1, <1>3 DEF FlattenSeq
  <2> QED
    BY <1>1, <1>2, <1>3, <2>1, <2>2
<1>4. CASE n # 0
  <2> DEFINE flatten[i \in 1 .. Len(ss)] ==
               IF i = 1 THEN ss[i] ELSE flatten[i - 1] \o ss[i]
  <2>1. FlattenSeq(ss) = flatten[n]
    BY <1>1, <1>4 DEF FlattenSeq
  <2>2. \E k : k = [i \in 1 .. Len(ss) |-> IF i = 1 THEN ss[i] ELSE k[i - 1] \o ss[i]]
    <3>1. PICK k : k = [i \in 1 .. n |-> f[i]]
      OBVIOUS
    <3>2. ASSUME NEW i \in 1 .. n
          PROVE  k[i] = IF i = 1 THEN ss[i] ELSE k[i - 1] \o ss[i]
      <4>0. ss[i] \in Seq(S)
        BY <1>1
      <4>1. k[i] = f[i - 1] \o ss[i] /\ ss[i] \in Seq(S)
        BY <1>2, <3>1, <4>0
      <4>2. CASE i = 1
        <5>1. i - 1 = 0 /\ <<>> \o ss[i] = ss[i]
          BY <4>1, <4>2
        <5> QED
          BY <1>2, <4>1, <4>2, <5>1
      <4>3. CASE i # 1
        <5>1. i - 1 \in 1 .. n
          BY <4>3
        <5> QED
          BY <3>1, <4>1, <4>3, <5>1
      <4> QED
        BY <4>2, <4>3
    <3>3. k = [i \in 1 .. Len(ss) |-> IF i = 1 THEN ss[i] ELSE k[i - 1] \o ss[i]]
      BY <1>1, <3>1, <3>2
    <3> QED
      BY <3>3
  <2>3. flatten = [i \in 1 .. Len(ss) |-> IF i = 1 THEN ss[i] ELSE flatten[i - 1] \o ss[i]]
    BY <2>2, Zenon
  <2> HIDE DEF flatten
  <2> DEFINE D == {i \in 0 .. n - 1 : flatten[i + 1] = f[i + 1]}
  <2>4. 0 \in D
    <3>1. 1 \in 1 .. n /\ 0 \in 0 .. n - 1 /\ 1 - 1 = 0 /\ 0 + 1 = 1
      BY <1>1, <1>4
    <3>2. ss[1] \in Seq(S) /\ flatten[1] = ss[1]
      BY <1>1, <2>3, <3>1
    <3>3. f[1] = f[0] \o ss[1]
      BY <1>2, <3>1
    <3>4. f[1] = ss[1]
      BY <1>2, <3>2, <3>3
    <3> QED
      BY <3>1, <3>2, <3>4
  <2>5. ASSUME NEW i \in 0 .. (n - 1) - 1, i \in D PROVE i + 1 \in D
    <3>1. /\ i + 1 \in 0 .. n - 1 /\ (i + 1) + 1 \in 1 .. n /\ (i + 1) + 1 # 1
          /\ ((i + 1) + 1) - 1 = i + 1
      BY <1>1
    <3>2. flatten[(i + 1) + 1] = flatten[i + 1] \o ss[(i + 1) + 1]
      BY <1>1, <2>3, <3>1
    <3>3. f[(i + 1) + 1] = f[i + 1] \o ss[(i + 1) + 1]
      BY <1>2, <3>1
    <3> QED
      BY <2>5, <3>1, <3>2, <3>3
  <2>6. n - 1 \in Nat
    BY <1>1, <1>4
  <2>7. n - 1 \in D
    <3> HIDE DEF D
    <3>1. 0 .. n - 1 \subseteq D
      BY <2>4, <2>5, <2>6, UpToInduction
    <3> QED
      BY <2>6, <3>1
  <2>8. flatten[n] = f[n]
    BY <1>1, <2>7
  <2> QED
    BY <1>1, <2>1, <2>8
<1> QED
  BY <1>3, <1>4

\* What FlattenSeq makes of nothing, of one more part and of two sequences of parts.
LEMMA FlattenEmpty == FlattenSeq(<<>>) = <<>>
BY DEF FlattenSeq

LEMMA FlattenAppend ==
  ASSUME NEW S, NEW ss \in Seq(Seq(S)), NEW s \in Seq(S)
  PROVE  /\ FlattenSeq(ss) \in Seq(S)
         /\ FlattenSeq(Append(ss, s)) = FlattenSeq(ss) \o s
<1>1. PICK n \in Nat : n = Len(ss)
  OBVIOUS
<1>2. PICK f \in [0 .. n -> Seq(S)] : Joins(f, ss)
  BY <1>1, JoinExists
<1>3. FlattenSeq(ss) = f[n] /\ n \in 0 .. n
  BY <1>1, <1>2, FlattenJoins
<1>4. PICK tt \in Seq(Seq(S)) : tt = Append(ss, s)
  BY OneMore
<1>5. Len(tt) = n + 1 /\ tt[n + 1] = s /\ \A i \in 1 .. n : tt[i] = ss[i]
  BY <1>1, <1>4, OneMore
<1>6. PICK h \in [0 .. n + 1 -> Seq(S)] : Joins(h, tt)
  BY <1>5, JoinExists
<1>7. FlattenSeq(tt) = h[n + 1]
  BY <1>5, <1>6, FlattenJoins
<1>8. f[0] = h[0]
  BY <1>2, <1>6 DEF Joins
<1>9. ASSUME NEW i \in 0 .. n - 1, f[i] = h[i] PROVE f[i + 1] = h[i + 1]
  <2>1. i + 1 \in 1 .. n /\ i + 1 \in 1 .. n + 1 /\ (i + 1) - 1 = i
    OBVIOUS
  <2> QED
    BY <1>1, <1>2, <1>5, <1>6, <1>9, <2>1 DEF Joins
<1>10. f[n] = h[n]
  <2>1. \A i \in 0 .. n : f[i] = h[i]
    BY <1>8, <1>9, Agree
  <2> QED
    BY <1>3, <2>1
<1>11. h[n + 1] = h[n] \o tt[n + 1]
  <2>1. n + 1 \in 1 .. n + 1 /\ (n + 1) - 1 = n
    OBVIOUS
  <2> QED
    BY <1>5, <1>6, <2>1 DEF Joins
<1> QED
  BY <1>2, <1>3, <1>4, <1>5, <1>7, <1>10, <1>11

LEMMA FlattenConcat ==
  ASSUME NEW S, NEW ss \in Seq(Seq(S)), NEW tt \in Seq(Seq(S))
  PROVE  FlattenSeq(ss \o tt) = FlattenSeq(ss) \o FlattenSeq(tt)
<1> DEFINE P == {t \in Seq(Seq(S)) : FlattenSeq(ss \o t) = FlattenSeq(ss) \o FlattenSeq(t)}
<1>1. <<>> \in P
  <2>1. FlattenSeq(ss) \in Seq(S)
    <3>1. <<>> \in Seq(S)
      OBVIOUS
    <3> QED
      BY <3>1, FlattenAppend
  <2>2. ss \o <<>> = ss /\ FlattenSeq(ss) \o <<>> = FlattenSeq(ss) /\ <<>> \in Seq(Seq(S))
    BY <2>1
  <2> QED
    BY <2>2, FlattenEmpty
<1>2. ASSUME NEW t \in Seq(Seq(S)), NEW e \in Seq(S), t \in P PROVE Append(t, e) \in P
  <2>1. ss \o Append(t, e) = Append(ss \o t, e) /\ ss \o t \in Seq(Seq(S)) /\ Append(t, e) \in Seq(Seq(S))
    OBVIOUS
  <2>2. PICK a \in Seq(S) : a = FlattenSeq(ss)
    BY FlattenAppend
  <2>3. PICK b \in Seq(S) : b = FlattenSeq(t)
    BY FlattenAppend
  <2>4. FlattenSeq(Append(ss \o t, e)) = FlattenSeq(ss \o t) \o e
    BY <2>1, FlattenAppend
  <2>5. FlattenSeq(Append(t, e)) = b \o e
    BY <2>3, FlattenAppend
  <2>6. FlattenSeq(ss \o t) = a \o b
    BY <1>2, <2>2, <2>3
  <2>7. (a \o b) \o e = a \o (b \o e)
    OBVIOUS
  <2> QED
    BY <2>1, <2>2, <2>4, <2>5, <2>6, <2>7
<1>3. Seq(Seq(S)) \subseteq P
  <2> HIDE DEF P
  <2> QED
    BY <1>1, <1>2, SequenceInduction
<1> QED
  BY <1>3
===============================================================================
