----------------------------- MODULE ProcessProofs -----------------------------
(***************************************************************************)
(* Theorems about Process, for any number of launches, streams, blobs and  *)
(* generations of native pipes, and any script.                            *)
(***************************************************************************)
EXTENDS Process, TLAPS

-----------------------------------------------------------------------------
(* The plans of the main thread: the monitors are started before anything  *)
(* is waited for, and a process object says that it runs no more only when *)
(* it has just made new native pipes.                                      *)

\* The names of the steps of a plan.
Steps == {"attach", "fork", "callbacks", "monitors", "startMonitor", "collect", "close",
          "detachIn", "detach", "recreate", "fireLater", "fireNow", "signal",
          "wait", "stopIn", "joinIn", "stop", "invoke", "await"}
PlanStep == Steps \X (StreamSet \cup {"-"})
Early == {"attach", "fork", "callbacks"}
Fires == {"fireLater", "fireNow"}

PlanOK(s) ==
  \A j \in DOMAIN s :
    /\ s[j][1] = "monitors" => \A i \in 1 .. j - 1 : s[i][1] \in Early
    /\ s[j][1] \in Fires => j = 1 \/ s[j - 1][1] = "recreate"

\* No step of s is one of these.
Without(s, ops) == \A i \in DOMAIN s : s[i][1] \notin ops

LEMMA PlanConcat ==
  ASSUME NEW s \in Seq(PlanStep), NEW t \in Seq(PlanStep), PlanOK(s), PlanOK(t),
         Without(t, {"monitors"}) \/ \A i \in DOMAIN s : s[i][1] \in Early,
         (t # <<>> => t[1][1] \notin Fires) \/ (s # <<>> /\ s[Len(s)][1] = "recreate")
  PROVE  s \o t \in Seq(PlanStep) /\ PlanOK(s \o t)
<1> DEFINE w == s \o t
           m == Len(s)
           n == Len(t)
<1>1. /\ m \in Nat /\ n \in Nat /\ DOMAIN s = 1 .. m /\ DOMAIN t = 1 .. n
      /\ w \in Seq(PlanStep) /\ DOMAIN w = 1 .. m + n
      /\ \A i \in 1 .. m : w[i] = s[i]
      /\ \A i \in 1 .. n : w[m + i] = t[i]
      /\ t = <<>> => n = 0
  OBVIOUS
<1>2. s # <<>> => m \in 1 .. m
  OBVIOUS
<1> HIDE DEF w, m, n
<1>3. ASSUME NEW j \in 1 .. m
      PROVE  /\ w[j][1] = "monitors" => \A i \in 1 .. j - 1 : w[i][1] \in Early
             /\ w[j][1] \in Fires => j = 1 \/ w[j - 1][1] = "recreate"
  <2>1. w[j] = s[j] /\ \A i \in 1 .. j - 1 : i \in 1 .. m /\ w[i] = s[i]
    BY <1>1
  <2>2. j # 1 => j - 1 \in 1 .. j - 1
    BY <1>1
  <2> QED
    BY <1>1, <2>1, <2>2 DEF PlanOK
<1>4. ASSUME NEW k \in 1 .. n
      PROVE  /\ w[m + k][1] = "monitors" => \A i \in 1 .. (m + k) - 1 : w[i][1] \in Early
             /\ w[m + k][1] \in Fires => m + k = 1 \/ w[(m + k) - 1][1] = "recreate"
  <2>1. w[m + k] = t[k]
    BY <1>1
  <2>2. ASSUME t[k][1] = "monitors", NEW i \in 1 .. (m + k) - 1 PROVE w[i][1] \in Early
    <3>1. \A l \in DOMAIN s : s[l][1] \in Early
      BY <1>1, <2>2 DEF Without
    <3>2. CASE i \in 1 .. m
      BY <1>1, <3>1, <3>2
    <3>3. CASE i \notin 1 .. m
      <4>1. i - m \in 1 .. k - 1 /\ i - m \in 1 .. n /\ m + (i - m) = i
        BY <1>1, <3>3
      <4>2. t[i - m][1] \in Early /\ w[i] = t[i - m]
        BY <1>1, <2>2, <4>1 DEF PlanOK
      <4> QED
        BY <4>2
    <3> QED
      BY <3>2, <3>3
  <2>3. ASSUME t[k][1] \in Fires PROVE m + k = 1 \/ w[(m + k) - 1][1] = "recreate"
    <3>1. CASE k = 1
      <4>1. s # <<>> /\ s[m][1] = "recreate"
        BY <1>1, <2>3, <3>1 DEF m
      <4>2. (m + k) - 1 = m /\ w[m] = s[m]
        BY <1>1, <1>2, <3>1, <4>1
      <4> QED
        BY <4>1, <4>2
    <3>2. CASE k # 1
      <4>1. k - 1 \in 1 .. n /\ m + (k - 1) = (m + k) - 1
        BY <1>1, <3>2
      <4>2. t[k - 1][1] = "recreate" /\ w[(m + k) - 1] = t[k - 1]
        BY <1>1, <2>3, <3>2, <4>1 DEF PlanOK
      <4> QED
        BY <4>2
    <3> QED
      BY <3>1, <3>2
  <2> QED
    BY <2>1, <2>2, <2>3
<1>5. \A j \in 1 .. m + n : j \in 1 .. m \/ \E k \in 1 .. n : j = m + k
  <2> SUFFICES ASSUME NEW j \in 1 .. m + n, j \notin 1 .. m PROVE \E k \in 1 .. n : j = m + k
    OBVIOUS
  <2>1. j - m \in 1 .. n /\ j = m + (j - m)
    BY <1>1
  <2> QED
    BY <2>1
<1>6. PlanOK(w)
  <2> SUFFICES ASSUME NEW j \in 1 .. m + n
               PROVE  /\ w[j][1] = "monitors" => \A i \in 1 .. j - 1 : w[i][1] \in Early
                      /\ w[j][1] \in Fires => j = 1 \/ w[j - 1][1] = "recreate"
    BY <1>1 DEF PlanOK
  <2>1. CASE j \in 1 .. m
    BY <1>3, <2>1
  <2>2. ASSUME NEW k \in 1 .. n, j = m + k
        PROVE  /\ w[j][1] = "monitors" => \A i \in 1 .. j - 1 : w[i][1] \in Early
               /\ w[j][1] \in Fires => j = 1 \/ w[j - 1][1] = "recreate"
    BY <1>4, <2>2
  <2> QED
    BY <1>5, <2>1, <2>2
<1> QED
  BY <1>1, <1>6 DEF w

LEMMA WithoutConcat ==
  ASSUME NEW s \in Seq(PlanStep), NEW t \in Seq(PlanStep), NEW ops,
         Without(s, ops), Without(t, ops)
  PROVE  Without(s \o t, ops)
<1>1. \A i \in DOMAIN (s \o t) : (\E j \in DOMAIN s : (s \o t)[i] = s[j])
                              \/ (\E j \in DOMAIN t : (s \o t)[i] = t[j])
  OBVIOUS
<1> QED
  BY <1>1 DEF Without

\* What is left of a plan after its first step.
LEMMA PlanTail ==
  ASSUME NEW s \in Seq(PlanStep), s # <<>>, PlanOK(s)
  PROVE  /\ Tail(s) \in Seq(PlanStep) /\ PlanOK(Tail(s)) /\ Head(s) = s[1]
         /\ Tail(s) # <<>> /\ Tail(s)[1][1] \in Fires => Head(s)[1] = "recreate"
         /\ Head(s)[1] \notin Early => Without(Tail(s), {"monitors"})
         /\ Without(s, {"monitors"}) => Without(Tail(s), {"monitors"})
<1> DEFINE n == Len(s)
<1>1. /\ n \in Nat /\ DOMAIN s = 1 .. n /\ Tail(s) \in Seq(PlanStep)
      /\ DOMAIN Tail(s) = 1 .. n - 1 /\ \A i \in 1 .. n - 1 : Tail(s)[i] = s[i + 1]
      /\ Head(s) = s[1] /\ 1 \in 1 .. n
      /\ Tail(s) # <<>> => 1 \in 1 .. n - 1
  OBVIOUS
<1> HIDE DEF n
<1>2. \A j \in 1 .. n - 1 : j + 1 \in 1 .. n /\ (j + 1) - 1 = j /\ j + 1 # 1
  BY <1>1
<1>3. \A j \in 1 .. n - 1 : \A i \in 1 .. j - 1 :
        i + 1 \in 1 .. (j + 1) - 1 /\ i \in 1 .. n - 1
  BY <1>1
<1>4. \A j \in 1 .. n - 1 : j # 1 => j - 1 \in 1 .. n - 1 /\ (j - 1) + 1 = j
  BY <1>1
<1>5. ASSUME NEW j \in 1 .. n - 1
      PROVE  /\ Tail(s)[j][1] = "monitors" =>
                  /\ \A i \in 1 .. j - 1 : Tail(s)[i][1] \in Early
                  /\ Head(s)[1] \in Early
             /\ Tail(s)[j][1] \in Fires => j = 1 \/ Tail(s)[j - 1][1] = "recreate"
  <2>1. 1 \in 1 .. (j + 1) - 1
    BY <1>1
  <2> QED
    BY <1>1, <1>2, <1>3, <1>4, <2>1 DEF PlanOK
<1>6. Tail(s) # <<>> /\ Tail(s)[1][1] \in Fires => Head(s)[1] = "recreate"
  <2>1. 1 \in 1 .. n - 1 => 2 \in 1 .. n /\ 2 - 1 = 1 /\ 1 + 1 = 2
    BY <1>1
  <2> QED
    BY <1>1, <2>1 DEF PlanOK
<1> QED
  BY <1>1, <1>2, <1>5, <1>6 DEF PlanOK, Without

\* The parts that plans are made of.
LEMMA Parts ==
  ASSUME NEW op \in Steps
  PROVE  /\ Each(op) \in Seq(PlanStep) /\ \A i \in DOMAIN Each(op) : Each(op)[i][1] = op
         /\ Do(op) \in Seq(PlanStep) /\ DOMAIN Do(op) = {1} /\ Do(op)[1][1] = op
         /\ Len(Do(op)) = 1 /\ Do(op) # <<>>
<1>1. Streams \in Seq(StreamSet)
  BY ProcessAssumption
<1>2. Each(op) \in Seq(PlanStep)
  BY <1>1 DEF Each, PlanStep
<1>3. Do(op) \in Seq(PlanStep) /\ DOMAIN Do(op) = {1} /\ Len(Do(op)) = 1
      /\ Do(op) # <<>>
  BY DEF Do, PlanStep
<1> QED
  BY <1>2, <1>3 DEF Each, Do

\* A plan, or a part of one, that does not begin by saying that the process has ended.
Sound(s) == s \in Seq(PlanStep) /\ PlanOK(s) /\ (s # <<>> => s[1][1] \notin Fires)
\* One that neither starts monitors nor says so at all.
Simple(s) == s \in Seq(PlanStep) /\ Without(s, {"monitors"} \cup Fires)
AllEarly(s) == \A i \in DOMAIN s : s[i][1] \in Early

LEMMA SimpleIsSound == \A s : Simple(s) => Sound(s) /\ Without(s, {"monitors"})
<1> SUFFICES ASSUME NEW s, Simple(s) PROVE Sound(s) /\ Without(s, {"monitors"})
  OBVIOUS
<1>1. s # <<>> => 1 \in DOMAIN s
  BY DEF Simple
<1> QED
  BY <1>1 DEF Simple, Sound, Without, PlanOK

LEMMA SoundConcat ==
  ASSUME NEW s, NEW t, Sound(s), Sound(t), Without(t, {"monitors"}) \/ AllEarly(s)
  PROVE  Sound(s \o t)
<1>1. s \o t \in Seq(PlanStep) /\ PlanOK(s \o t)
  BY PlanConcat DEF Sound, AllEarly
<1>2. CASE s = <<>>
  <2>1. s \o t = t
    BY <1>2 DEF Sound
  <2> QED
    BY <2>1
<1>3. CASE s # <<>>
  <2>1. (s \o t)[1] = s[1]
    BY <1>3 DEF Sound
  <2> QED
    BY <1>1, <1>3, <2>1 DEF Sound
<1> QED
  BY <1>2, <1>3

LEMMA SimpleConcat == \A s, t : Simple(s) /\ Simple(t) => Simple(s \o t)
<1> SUFFICES ASSUME NEW s, NEW t, Simple(s), Simple(t) PROVE Simple(s \o t)
  OBVIOUS
<1>1. s \o t \in Seq(PlanStep)
  BY DEF Simple
<1> QED
  BY <1>1, WithoutConcat DEF Simple

LEMMA EarlyConcat ==
  ASSUME NEW s, NEW t, Simple(s), Simple(t), AllEarly(s), AllEarly(t)
  PROVE  AllEarly(s \o t)
<1>1. Without(s, Steps \ Early) /\ Without(t, Steps \ Early)
  BY DEF AllEarly, Without
<1>2. Without(s \o t, Steps \ Early) /\ s \o t \in Seq(PlanStep)
  BY <1>1, WithoutConcat DEF Simple
<1>3. \A i \in DOMAIN (s \o t) : (s \o t)[i][1] \in Steps
  BY <1>2 DEF PlanStep
<1> QED
  BY <1>2, <1>3 DEF AllEarly, Without

LEMMA SimpleParts ==
  ASSUME NEW op \in Steps \ ({"monitors"} \cup Fires)
  PROVE  /\ Simple(Each(op)) /\ Simple(Do(op))
         /\ op \in Early => AllEarly(Each(op)) /\ AllEarly(Do(op))
BY Parts DEF Simple, Without, AllEarly

LEMMA ConcatAt ==
  ASSUME NEW s \in Seq(PlanStep), NEW r \in Seq(PlanStep), r # <<>>
  PROVE  /\ s \o r \in Seq(PlanStep) /\ Len(s) \in Nat /\ Len(r) \in Nat
         /\ Len(s \o r) = Len(s) + Len(r) /\ (s \o r)[Len(s) + 1] = r[1]
OBVIOUS

LEMMA AddOne ==
  ASSUME NEW s \in Seq(PlanStep), NEW r \in Seq(PlanStep), NEW n,
         n = Len(r), n = 1, r # <<>>
  PROVE  Len(s \o r) = Len(s) + 1 /\ (s \o r)[Len(s) + 1] = r[1] /\ s \o r # <<>>
<1> DEFINE w == s \o r
<1>2. w \in Seq(PlanStep) /\ Len(w) = Len(s) + 1 /\ Len(s) \in Nat /\ w[Len(s) + 1] = r[1]
  <2>1. w \in Seq(PlanStep) /\ Len(w) = Len(s) + n /\ Len(s) \in Nat /\ w[Len(s) + 1] = r[1]
    BY ConcatAt, ZenonT(30)
  <2> QED
    BY <2>1
<1> HIDE DEF w
<1>3. w # <<>>
  BY <1>2
<1> QED
  BY <1>2, <1>3 DEF w

LEMMA ExitedSound ==
  ASSUME NEW how \in Fires
  PROVE  Sound(Exited(how)) /\ Without(Exited(how), {"monitors"})
<1> DEFINE a == Each("close") \o Do("detachIn") \o Each("detach")
           b == a \o Do("recreate")
<1>1. /\ Simple(Each("close")) /\ Simple(Do("detachIn")) /\ Simple(Each("detach"))
      /\ Simple(Do("recreate"))
  BY SimpleParts DEF Steps, Fires
<1>2. Simple(a)
  BY <1>1, SimpleConcat
<1>3. how \in Steps /\ how # "monitors"
  BY DEF Fires, Steps
<1>4. /\ Do(how) \in Seq(PlanStep) /\ DOMAIN Do(how) = {1} /\ Do(how)[1][1] = how
  BY <1>3, Parts
<1> HIDE DEF a
<1>5. Simple(b)
  BY <1>1, <1>2, SimpleConcat
<1>6. Len(b) = Len(a) + 1 /\ b[Len(b)] = Do("recreate")[1] /\ b # <<>>
  <2>1. /\ Do("recreate") \in Seq(PlanStep) /\ Len(Do("recreate")) = 1 /\ Do("recreate") # <<>>
        /\ a \in Seq(PlanStep)
    BY <1>2, Parts DEF Steps, Simple
  <2> HIDE DEF b
  <2> QED
    BY <2>1, AddOne DEF b
<1>7. Do("recreate")[1][1] = "recreate"
  BY Parts DEF Steps
<1>8. PlanOK(Do(how))
  BY <1>3, <1>4 DEF PlanOK
<1>9. Without(Do(how), {"monitors"})
  BY <1>3, <1>4 DEF Without
<1> HIDE DEF b
<1>10. Sound(b) /\ Without(b, {"monitors"})
  BY <1>5, SimpleIsSound
<1>11. Exited(how) = b \o Do(how)
  BY DEF Exited, a, b
<1>12. b \o Do(how) \in Seq(PlanStep) /\ PlanOK(b \o Do(how))
  BY <1>4, <1>6, <1>7, <1>8, <1>9, <1>10, PlanConcat DEF Sound
<1>13. (b \o Do(how))[1] = b[1]
  BY <1>4, <1>6, <1>10 DEF Sound
<1>14. Without(b \o Do(how), {"monitors"})
  BY <1>4, <1>9, <1>10, WithoutConcat DEF Sound
<1> QED
  BY <1>6, <1>10, <1>11, <1>12, <1>13, <1>14 DEF Sound

LEMMA MonitorSimple == Simple(ExitMonitor)
<1>1. /\ Simple(Do("wait")) /\ Simple(Do("stopIn")) /\ Simple(Do("joinIn"))
      /\ Simple(Each("stop")) /\ Simple(Do("invoke"))
  BY SimpleParts DEF Steps, Fires
<1> QED
  BY <1>1, SimpleConcat DEF ExitMonitor

LEMMA MonitorsSound ==
  ASSUME NEW s, Simple(s), AllEarly(s)
  PROVE  Sound(s \o Do("monitors"))
<1>1. Sound(Do("monitors"))
  <2>1. "monitors" \in Steps /\ "monitors" \notin Fires
    BY DEF Steps, Fires
  <2> QED
    BY <2>1, Parts DEF Sound, PlanOK
<1> QED
  BY <1>1, SoundConcat, SimpleIsSound

LEMMA LaunchPlans == Sound(LaunchAsyncPlan) /\ Sound(LaunchSyncPlan)
<1>1. /\ Simple(Each("attach")) /\ AllEarly(Each("attach"))
      /\ Simple(Do("fork")) /\ AllEarly(Do("fork"))
      /\ Simple(Do("callbacks")) /\ AllEarly(Do("callbacks"))
      /\ Simple(Do("startMonitor")) /\ Simple(Do("collect"))
  BY SimpleParts DEF Steps, Fires, Early
<1> DEFINE f == Each("attach") \o Do("fork")
           c == f \o Do("callbacks")
<1>2. Simple(f) /\ AllEarly(f)
  BY <1>1, SimpleConcat, EarlyConcat
<1> HIDE DEF f
<1>3. Simple(c) /\ AllEarly(c)
  BY <1>1, <1>2, SimpleConcat, EarlyConcat
<1> HIDE DEF c
<1>4. Sound(LaunchAsyncPlan)
  <2>1. Sound(f \o Do("monitors"))
    BY <1>2, MonitorsSound
  <2>2. Sound((f \o Do("monitors")) \o Do("startMonitor"))
    BY <1>1, <2>1, SoundConcat, SimpleIsSound
  <2> QED
    BY <2>2 DEF LaunchAsyncPlan, f
<1>5. Sound(LaunchSyncPlan)
  <2>1. Sound(c \o Do("monitors"))
    BY <1>3, MonitorsSound
  <2>2. Sound((c \o Do("monitors")) \o ExitMonitor)
    BY <2>1, SoundConcat, SimpleIsSound, MonitorSimple
  <2>3. Sound(((c \o Do("monitors")) \o ExitMonitor) \o Do("collect"))
    BY <1>1, <2>2, SoundConcat, SimpleIsSound
  <2>4. Sound(Exited("fireNow")) /\ Without(Exited("fireNow"), {"monitors"})
    BY ExitedSound DEF Fires
  <2>5. Sound((((c \o Do("monitors")) \o ExitMonitor) \o Do("collect")) \o Exited("fireNow"))
    BY <2>3, <2>4, SoundConcat
  <2> QED
    BY <2>5 DEF LaunchSyncPlan, c, f
<1> QED
  BY <1>4, <1>5
-----------------------------------------------------------------------------
(* A native pipe that is not in use yet has no thread: those of the next   *)
(* generations, and that of this one until the monitors are started.       *)

Fresh(s, run) ==
  ~run \/ ~Without(s, {"monitors"}) \/ (s # <<>> /\ s[1][1] \in Fires)

PlanGood(s, run, g, pol) ==
  /\ s \in Seq(PlanStep) /\ PlanOK(s)
  /\ ~Without(s, {"monitors"}) => run
  /\ \A h \in 1 .. Generations : h > g \/ (h = g /\ Fresh(s, run)) => pol[In(h)] = "off"

LEMMA GoodTail ==
  ASSUME NEW s, NEW run, NEW g, NEW pol, PlanGood(s, run, g, pol), s # <<>>,
         Head(s)[1] # "recreate"
  PROVE  PlanGood(Tail(s), run, g, pol)
<1>1. s \in Seq(PlanStep) /\ PlanOK(s)
  BY DEF PlanGood
<1>2. Fresh(Tail(s), run) => Fresh(s, run)
  BY <1>1, PlanTail DEF Fresh
<1> QED
  BY <1>1, <1>2, PlanTail DEF PlanGood

LEMMA GoodFire ==
  ASSUME NEW s, NEW run, NEW g, NEW pol, PlanGood(s, run, g, pol), s # <<>>,
         Head(s)[1] \in Fires
  PROVE  PlanGood(Tail(s), FALSE, g, pol)
<1>1. s \in Seq(PlanStep) /\ PlanOK(s)
  BY DEF PlanGood
<1>2. Fresh(s, run)
  BY <1>1, PlanTail DEF Fresh
<1>3. Without(Tail(s), {"monitors"}) /\ Tail(s) \in Seq(PlanStep) /\ PlanOK(Tail(s))
  BY <1>1, PlanTail DEF Fires, Early
<1> QED
  BY <1>2, <1>3 DEF PlanGood

LEMMA GoodMonitors ==
  ASSUME NEW s, NEW run, NEW g \in Nat, NEW pol, NEW q, PlanGood(s, run, g, pol), s # <<>>,
         Head(s)[1] = "monitors",
         \A h \in 1 .. Generations : h # g => q[In(h)] = pol[In(h)]
  PROVE  PlanGood(Tail(s), run, g, q)
<1>1. s \in Seq(PlanStep) /\ PlanOK(s)
  BY DEF PlanGood
<1>2. /\ Without(Tail(s), {"monitors"}) /\ Tail(s) \in Seq(PlanStep) /\ PlanOK(Tail(s))
      /\ ~(Tail(s) # <<>> /\ Tail(s)[1][1] \in Fires)
  BY <1>1, PlanTail DEF Early
<1>3. ~Without(s, {"monitors"})
  <2>1. 1 \in DOMAIN s /\ Head(s) = s[1]
    BY <1>1
  <2> QED
    BY <2>1 DEF Without
<1>4. run /\ ~Fresh(Tail(s), run)
  BY <1>2, <1>3 DEF PlanGood, Fresh
<1>5. \A h \in 1 .. Generations : h > g => h # g
  OBVIOUS
<1> QED
  BY <1>2, <1>4, <1>5 DEF PlanGood

LEMMA GoodRecreate ==
  ASSUME NEW s, NEW run, NEW g \in Nat, NEW pol, PlanGood(s, run, g, pol), s # <<>>,
         Head(s)[1] = "recreate"
  PROVE  PlanGood(Tail(s), run, g + 1, pol)
<1>1. s \in Seq(PlanStep) /\ PlanOK(s)
  BY DEF PlanGood
<1>2. Without(Tail(s), {"monitors"}) /\ Tail(s) \in Seq(PlanStep) /\ PlanOK(Tail(s))
  BY <1>1, PlanTail DEF Early
<1>3. \A h \in 1 .. Generations : h > g + 1 \/ h = g + 1 => h > g
  OBVIOUS
<1> QED
  BY <1>2, <1>3 DEF PlanGood

LEMMA GoodNew ==
  ASSUME NEW s, NEW t, NEW run, NEW g, NEW pol, PlanGood(s, run, g, pol), Sound(t),
         Without(t, {"monitors"})
  PROVE  PlanGood(t, run, g, pol)
<1>1. Fresh(t, run) => Fresh(s, run)
  BY DEF Fresh, Sound
<1> QED
  BY <1>1 DEF PlanGood, Sound

LEMMA EmptySound == Sound(<<>>) /\ Without(<<>>, {"monitors"})
<1>1. <<>> \in Seq(PlanStep) /\ DOMAIN <<>> = {}
  OBVIOUS
<1> QED
  BY <1>1 DEF Sound, Without, PlanOK

LEMMA GoodLaunch ==
  ASSUME NEW s, NEW t, NEW g, NEW pol, PlanGood(s, FALSE, g, pol), Sound(t)
  PROVE  PlanGood(t, TRUE, g, pol)
BY DEF PlanGood, Sound, Fresh

LEMMA GoodInvoke ==
  ASSUME NEW s, NEW run, NEW g, NEW pol, PlanGood(s, run, g, pol), s # <<>>,
         Head(s)[1] = "invoke"
  PROVE  PlanGood(Exited("fireLater") \o Tail(s), run, g, pol)
<1>1. s \in Seq(PlanStep) /\ PlanOK(s)
  BY DEF PlanGood
<1>2. Sound(Tail(s)) /\ Without(Tail(s), {"monitors"})
  BY <1>1, PlanTail DEF Early, Sound
<1>3. Sound(Exited("fireLater")) /\ Without(Exited("fireLater"), {"monitors"})
  BY ExitedSound DEF Fires
<1>4. Sound(Exited("fireLater") \o Tail(s))
  BY <1>2, <1>3, SoundConcat
<1>5. Without(Exited("fireLater") \o Tail(s), {"monitors"})
  BY <1>2, <1>3, WithoutConcat DEF Sound
<1> QED
  BY <1>4, <1>5, GoodNew

LEMMA GoodPolling ==
  ASSUME NEW s, NEW run, NEW g, NEW pol, NEW q, PlanGood(s, run, g, pol),
         \A h \in 1 .. Generations : pol[In(h)] = "off" => q[In(h)] = "off"
  PROVE  PlanGood(s, run, g, q)
BY DEF PlanGood

PlanInv ==
  /\ plan \in [{Main, Monitor} -> Seq(PlanStep)]
  /\ gen \in Nat
  /\ PlanGood(plan[Main], running, gen, polling)

LEMMA Different == Main # Monitor
BY DEF Main, Monitor

\* What Step(a, op) does to the plans.
LEMMA StepPlans ==
  ASSUME PlanInv, NEW a \in {Main, Monitor}, NEW op, Step(a, op)
  PROVE  /\ plan' \in [{Main, Monitor} -> Seq(PlanStep)]
         /\ a = Main => /\ plan[Main] # <<>> /\ Head(plan[Main])[1] = op
                        /\ plan'[Main] = Tail(plan[Main])
         /\ a = Monitor => plan'[Main] = plan[Main]
<1>1. plan[a] # <<>> /\ Head(plan[a])[1] = op /\ plan' = [plan EXCEPT ![a] = Tail(plan[a])]
  BY DEF Step, At
<1>2. plan[a] \in Seq(PlanStep) /\ plan \in [{Main, Monitor} -> Seq(PlanStep)]
  BY DEF PlanInv
<1>3. Tail(plan[a]) \in Seq(PlanStep)
  BY <1>1, <1>2
<1> QED
  BY <1>1, <1>2, <1>3, Different

\* A step that is not one of the special ones.
LEMMA PlainStep ==
  ASSUME PlanInv, NEW a \in {Main, Monitor}, NEW op, Step(a, op), op # "recreate",
         UNCHANGED <<running, gen, polling>>
  PROVE  PlanInv'
<1>1. CASE a = Main
  <2>1. PlanGood(plan'[Main], running, gen, polling)
    BY <1>1, StepPlans, GoodTail DEF PlanInv
  <2> QED
    BY <2>1, StepPlans DEF PlanInv
<1>2. CASE a = Monitor
  <2>1. PlanGood(plan'[Main], running, gen, polling)
    BY <1>2, StepPlans DEF PlanInv
  <2> QED
    BY <2>1, StepPlans DEF PlanInv
<1> QED
  BY <1>1, <1>2

\* The main thread takes a plan, or gives up the one it has.
LEMMA NewPlan ==
  ASSUME PlanInv, NEW t, Sound(t),
         \/ Without(t, {"monitors"}) /\ running' = running
         \/ ~running /\ running' = TRUE,
         plan'[Main] = t, plan' \in [{Main, Monitor} -> Seq(PlanStep)],
         UNCHANGED <<gen, polling>>
  PROVE  PlanInv'
<1>1. CASE Without(t, {"monitors"}) /\ running' = running
  <2>1. PlanGood(t, running, gen, polling)
    BY <1>1, GoodNew DEF PlanInv
  <2> QED
    BY <1>1, <2>1 DEF PlanInv
<1>2. CASE ~running /\ running' = TRUE
  <2>1. PlanGood(plan[Main], FALSE, gen, polling)
    BY <1>2 DEF PlanInv, PlanGood, Fresh
  <2>2. PlanGood(t, TRUE, gen, polling)
    BY <2>1, GoodLaunch
  <2> QED
    BY <1>2, <2>2 DEF PlanInv
<1> QED
  BY <1>1, <1>2

LEMMA LaunchKeeps == PlanInv /\ (LaunchAsync \/ LaunchSync) => PlanInv'
<1> SUFFICES ASSUME PlanInv, NEW t \in {LaunchAsyncPlan, LaunchSyncPlan}, Launch(t)
             PROVE  PlanInv'
  BY DEF LaunchAsync, LaunchSync
<1>1. Sound(t)
  BY LaunchPlans
<1>2. ~running /\ running' = TRUE /\ plan' = [plan EXCEPT ![Main] = t]
      /\ UNCHANGED <<gen, polling>>
  BY DEF Launch, NativesSame, nativeVars
<1>3. plan'[Main] = t /\ plan' \in [{Main, Monitor} -> Seq(PlanStep)]
  BY <1>1, <1>2 DEF PlanInv, Sound
<1> QED
  BY <1>1, <1>2, <1>3, NewPlan

LEMMA ForkFailsKeeps == PlanInv /\ ForkFails => PlanInv'
<1> SUFFICES ASSUME PlanInv, ForkFails PROVE PlanInv'
  OBVIOUS
<1>1. plan' = [plan EXCEPT ![Main] = <<>>] /\ UNCHANGED <<running, gen, polling>>
  BY DEF ForkFails, NativesSame, nativeVars, objectVars
<1>2. plan'[Main] = <<>> /\ plan' \in [{Main, Monitor} -> Seq(PlanStep)]
  BY <1>1 DEF PlanInv
<1> QED
  BY <1>1, <1>2, NewPlan, EmptySound

LEMMA StartExitMonitorKeeps == PlanInv /\ StartExitMonitor => PlanInv'
<1> SUFFICES ASSUME PlanInv, StartExitMonitor PROVE PlanInv'
  OBVIOUS
<1> DEFINE m == IF plan[Monitor] = <<>> THEN ExitMonitor \o Do("await") ELSE plan[Monitor]
<1>1. plan' = [plan EXCEPT ![Main] = <<>>, ![Monitor] = m] /\ UNCHANGED <<running, gen, polling>>
  BY DEF StartExitMonitor, NativesSame, nativeVars
<1>2. m \in Seq(PlanStep)
  <2>1. Simple(Do("await"))
    BY SimpleParts DEF Steps, Fires
  <2>2. ExitMonitor \o Do("await") \in Seq(PlanStep)
    BY <2>1, MonitorSimple, SimpleConcat DEF Simple
  <2> QED
    BY <2>2 DEF PlanInv
<1> HIDE DEF m
<1>3. plan \in [{Main, Monitor} -> Seq(PlanStep)] /\ <<>> \in Seq(PlanStep)
  BY DEF PlanInv
<1>4. plan'[Main] = <<>> /\ plan'[Monitor] = m
  BY <1>1, <1>3, Different
<1>5. plan' \in [{Main, Monitor} -> Seq(PlanStep)]
  BY <1>1, <1>2, <1>3, <1>4
<1> QED
  BY <1>1, <1>4, <1>5, NewPlan, EmptySound

LEMMA ExitCallbackKeeps == PlanInv /\ ExitCallback => PlanInv'
<1> SUFFICES ASSUME PlanInv, ExitCallback PROVE PlanInv'
  OBVIOUS
<1> DEFINE t == Exited("fireLater") \o Do("signal")
<1>1. plan' = [plan EXCEPT ![Main] = t] /\ UNCHANGED <<running, gen, polling>>
  BY DEF ExitCallback, NativesSame, nativeVars, objectVars
<1>2. Sound(Exited("fireLater")) /\ Without(Exited("fireLater"), {"monitors"})
  BY ExitedSound DEF Fires
<1>3. Sound(Do("signal")) /\ Without(Do("signal"), {"monitors"})
  BY SimpleParts, SimpleIsSound DEF Steps, Fires
<1>4. Sound(t) /\ Without(t, {"monitors"})
  BY <1>2, <1>3, SoundConcat, WithoutConcat DEF Sound
<1> HIDE DEF t
<1>5. plan'[Main] = t /\ plan' \in [{Main, Monitor} -> Seq(PlanStep)]
  BY <1>1, <1>4 DEF PlanInv, Sound
<1> QED
  BY <1>1, <1>4, <1>5, NewPlan

LEMMA InvokeKeeps == ASSUME PlanInv, NEW a \in {Main, Monitor}, Invoke(a) PROVE PlanInv'
<1>1. UNCHANGED <<running, gen, polling>> /\ plan[a] # <<>> /\ Head(plan[a])[1] = "invoke"
  BY DEF Invoke, NativesSame, nativeVars, objectVars, At
<1>2. CASE plan' = [plan EXCEPT ![a] = Tail(plan[a])]
  <2>1. Step(a, "invoke")
    BY <1>2 DEF Step, Invoke
  <2> QED
    BY <1>1, <2>1, PlainStep
<1>3. CASE a = Main /\ plan' = [plan EXCEPT ![Main] = Exited("fireLater") \o Tail(plan[Main])]
  <2> DEFINE t == Exited("fireLater") \o Tail(plan[Main])
  <2>1. PlanGood(t, running, gen, polling)
    BY <1>1, <1>3, GoodInvoke DEF PlanInv
  <2>2. t \in Seq(PlanStep)
    BY <2>1 DEF PlanGood
  <2>3. plan' = [plan EXCEPT ![Main] = t]
    BY <1>3
  <2> HIDE DEF t
  <2>4. plan'[Main] = t /\ plan' \in [{Main, Monitor} -> Seq(PlanStep)]
    BY <2>2, <2>3 DEF PlanInv
  <2> QED
    BY <1>1, <2>1, <2>4 DEF PlanInv
<1> QED
  BY <1>2, <1>3 DEF Invoke

LEMMA StartMonitorsKeeps == PlanInv /\ StartMonitors => PlanInv'
<1> SUFFICES ASSUME PlanInv, StartMonitors PROVE PlanInv'
  OBVIOUS
<1>1. /\ Step(Main, "monitors") /\ UNCHANGED <<running, gen>>
      /\ polling' = [p \in Outs \cup Ins |->
                       IF p \in NativePipesOf(gen) THEN "on" ELSE polling[p]]
  BY DEF StartMonitors, objectVars
<1>2. \A h \in 1 .. Generations : h # gen => polling'[In(h)] = polling[In(h)]
  <2>1. \A h \in 1 .. Generations : In(h) \in Ins
    BY ProcessAssumption DEF In
  <2>2. \A h : h # gen => In(h) \notin NativePipesOf(gen)
    BY DEF NativePipesOf, In, Out
  <2> QED
    BY <1>1, <2>1, <2>2
<1>3. /\ plan[Main] # <<>> /\ Head(plan[Main])[1] = "monitors"
      /\ plan'[Main] = Tail(plan[Main])
  BY <1>1, StepPlans
<1>4. gen \in Nat /\ PlanGood(plan[Main], running, gen, polling)
  BY DEF PlanInv
<1>5. PlanGood(Tail(plan[Main]), running, gen, polling')
  BY <1>2, <1>3, <1>4, GoodMonitors
<1> QED
  BY <1>1, <1>3, <1>4, <1>5, StepPlans DEF PlanInv

LEMMA RecreateKeeps == PlanInv /\ RecreateNativePipes => PlanInv'
<1> SUFFICES ASSUME PlanInv, RecreateNativePipes PROVE PlanInv'
  OBVIOUS
<1>1. Step(Main, "recreate") /\ gen' = gen + 1 /\ UNCHANGED <<running, polling>>
  BY DEF RecreateNativePipes, NativesSame, nativeVars
<1>2. /\ plan[Main] # <<>> /\ Head(plan[Main])[1] = "recreate"
      /\ plan'[Main] = Tail(plan[Main])
  BY <1>1, StepPlans
<1>3. gen \in Nat /\ PlanGood(plan[Main], running, gen, polling)
  BY DEF PlanInv
<1>4. PlanGood(Tail(plan[Main]), running, gen + 1, polling)
  BY <1>2, <1>3, GoodRecreate
<1>5. gen + 1 \in Nat
  BY <1>3
<1> QED
  BY <1>1, <1>2, <1>4, <1>5, StepPlans DEF PlanInv

LEMMA ExitKeeps == PlanInv /\ (ExitLater \/ ExitNow) => PlanInv'
<1> SUFFICES ASSUME PlanInv, ExitLater \/ ExitNow PROVE PlanInv'
  OBVIOUS
<1>1. PICK op \in Fires : Step(Main, op)
  BY DEF ExitLater, ExitNow, Fires
<1>2. running' = FALSE /\ UNCHANGED <<gen, polling>>
  BY DEF ExitLater, ExitNow, NativesSame, nativeVars
<1>3. /\ plan[Main] # <<>> /\ Head(plan[Main])[1] \in Fires
      /\ plan'[Main] = Tail(plan[Main])
  BY <1>1, StepPlans
<1>4. PlanGood(Tail(plan[Main]), FALSE, gen, polling)
  BY <1>3, GoodFire DEF PlanInv
<1> QED
  BY <1>1, <1>2, <1>3, <1>4, StepPlans DEF PlanInv

\* The other steps of the two threads.
PlainDoes ==
  \/ AttachPipes \/ ForkAndExec \/ SetReadCallbacks \/ CollectOutput \/ CloseOut
  \/ DetachIn \/ DetachOut \/ SignalMonitor \/ MonitorReturns
  \/ \E a \in {Main, Monitor} : Wait(a) \/ StopIn(a) \/ JoinIn(a) \/ StopOut(a)

PlainOps == {"attach", "fork", "callbacks", "collect", "close", "detachIn", "detach",
             "signal", "await", "wait", "stopIn", "joinIn", "stop"}

LEMMA PlainIsPlain ==
  ASSUME PlainDoes
  PROVE  /\ \E a \in {Main, Monitor}, op \in PlainOps : Step(a, op)
         /\ UNCHANGED <<running, gen, polling>>
         /\ UNCHANGED <<buffers, received, eof, sent, closedAt>>
<1> USE DEF NativesSame, nativeVars, outVars, inVars, objectVars, PlainOps
<1>1. CASE AttachPipes \/ ForkAndExec
  BY <1>1 DEF AttachPipes, ForkAndExec
<1>2. CASE SetReadCallbacks \/ CollectOutput
  BY <1>2 DEF SetReadCallbacks, CollectOutput
<1>3. CASE CloseOut \/ DetachIn \/ DetachOut
  BY <1>3 DEF CloseOut, DetachIn, DetachOut
<1>4. CASE SignalMonitor \/ MonitorReturns
  BY <1>4 DEF SignalMonitor, MonitorReturns
<1>5. ASSUME NEW a \in {Main, Monitor}, Wait(a) \/ StopIn(a)
      PROVE  /\ \E op \in PlainOps : Step(a, op)
             /\ UNCHANGED <<running, gen, polling>>
             /\ UNCHANGED <<buffers, received, eof, sent, closedAt>>
  BY <1>5 DEF Wait, StopIn
<1>6. ASSUME NEW a \in {Main, Monitor}, JoinIn(a) \/ StopOut(a)
      PROVE  /\ \E op \in PlainOps : Step(a, op)
             /\ UNCHANGED <<running, gen, polling>>
             /\ UNCHANGED <<buffers, received, eof, sent, closedAt>>
  BY <1>6 DEF JoinIn, StopOut
<1> QED
  BY <1>1, <1>2, <1>3, <1>4, <1>5, <1>6 DEF PlainDoes

LEMMA PlainKeeps == PlanInv /\ PlainDoes => PlanInv'
<1> SUFFICES ASSUME PlanInv, PlainDoes PROVE PlanInv'
  OBVIOUS
<1>1. PICK a \in {Main, Monitor}, op \in PlainOps : Step(a, op)
  BY PlainIsPlain
<1>2. op # "recreate"
  BY DEF PlainOps
<1> QED
  BY <1>1, <1>2, PlainIsPlain, PlainStep

\* The steps that no plan has.
Aside ==
  \/ SendSignal
  \/ \E what \in ScriptBlobs \cup {CloseCall} : ScriptCalls(what)
  \/ \E p \in UserPipes, s \in StreamSet : SetStdout(s, p)
  \/ \E n \in 1 .. Launches : ChildEnds(n) \/ \E s \in StreamSet : ChildWrites(n, s)
  \/ EventLoop

LEMMA AsideIsPlain ==
  ASSUME Aside
  PROVE  UNCHANGED <<plan, running, gen, polling, buffers, received, eof, sent, closedAt>>
<1> USE DEF NativesSame, nativeVars, outVars, inVars, ownVars, objectVars
<1>1. CASE SendSignal \/ EventLoop
  BY <1>1 DEF SendSignal, EventLoop, FireExit
<1>2. ASSUME NEW what, ScriptCalls(what)
      PROVE  UNCHANGED <<plan, running, gen, polling, buffers, received, eof, sent, closedAt>>
  BY <1>2 DEF ScriptCalls
<1>3. ASSUME NEW p, NEW s, SetStdout(s, p)
      PROVE  UNCHANGED <<plan, running, gen, polling, buffers, received, eof, sent, closedAt>>
  BY <1>3 DEF SetStdout
<1>4. ASSUME NEW n, NEW s, ChildEnds(n) \/ ChildWrites(n, s)
      PROVE  UNCHANGED <<plan, running, gen, polling, buffers, received, eof, sent, closedAt>>
  BY <1>4 DEF ChildEnds, ChildWrites
<1> QED
  BY <1>1, <1>2, <1>3, <1>4 DEF Aside

\* What is left: the threads of the pipes, and the calls through pipes.
PipeThreads ==
  \/ \E p \in Outs \cup Ins : Polling(p)
  \/ \E t \in Threads : Calling(t)

LEMMA StepKinds ==
  ASSUME ProcNext
  PROVE  \/ LaunchAsync \/ LaunchSync \/ ForkFails \/ StartExitMonitor \/ ExitCallback
         \/ (\E a \in {Main, Monitor} : Invoke(a))
         \/ StartMonitors \/ RecreateNativePipes \/ ExitLater \/ ExitNow
         \/ PlainDoes \/ Aside \/ PipeThreads
<1>1. CASE Script
  BY <1>1 DEF Script, Aside
<1>2. CASE MainDoes \/ MonitorReturns
  BY <1>2 DEF MainDoes, PlainDoes
<1>3. CASE \E a \in {Main, Monitor} : ExitMonitors(a)
  BY <1>3 DEF ExitMonitors, PlainDoes
<1>4. CASE (\E n \in 1 .. Launches : ChildEnds(n) \/ \E s \in StreamSet : ChildWrites(n, s))
           \/ EventLoop
  BY <1>4 DEF Aside
<1>5. CASE (\E p \in Outs \cup Ins : Polling(p)) \/ \E t \in Threads : Calling(t)
  BY <1>5 DEF PipeThreads
<1> QED
  BY <1>1, <1>2, <1>3, <1>4, <1>5 DEF ProcNext, Running

\* A thread that ends was running: no pipe that is not in use yet gets one.
LEMMA ThreadsKeep ==
  ASSUME PlanInv, UNCHANGED <<plan, running, gen>>,
         \A p \in Ins : polling[p] = "off" => polling'[p] = "off"
  PROVE  PlanInv'
<1>1. \A h \in 1 .. Generations : In(h) \in Ins
  BY ProcessAssumption DEF In
<1>2. PlanGood(plan[Main], running, gen, polling')
  BY <1>1, GoodPolling DEF PlanInv
<1> QED
  BY <1>2 DEF PlanInv

LEMMA PipeThreadsPlan ==
  ASSUME PipeThreads
  PROVE  /\ UNCHANGED <<plan, running, gen>>
         /\ \A p \in Ins : polling[p] = "off" => polling'[p] = "off"
<1>1. ASSUME NEW p \in Outs \cup Ins, Polling(p)
      PROVE  /\ UNCHANGED <<plan, running, gen>>
             /\ polling' = polling
                  \/ (polling[p] = "on" /\ polling' = [polling EXCEPT ![p] = "ended"])
  <2>1. UNCHANGED <<plan, running, gen>>
    BY <1>1 DEF Polling, ownVars, objectVars
  <2>2. CASE PollForReads(p)
    BY <2>1, <2>2 DEF PollForReads, ReadBlob, PassOn, ReadEnd, Reading
  <2>3. CASE PollForWrites(p)
    BY <2>1, <2>3 DEF PollForWrites, WriteBlob, WriteFails, WriteEnd
  <2> QED
    BY <1>1, <2>1, <2>2, <2>3 DEF Polling
<1>2. ASSUME NEW t \in Threads, Calling(t)
      PROVE  UNCHANGED <<plan, running, gen, polling>>
  BY <1>2 DEF Calling, NativeCallStep, WriteIn, CloseIn, CallPipe, nativeVars, ownVars,
              objectVars
<1>3. \A p \in Outs \cup Ins, q \in Ins :
        polling[p] = "on" /\ polling' = [polling EXCEPT ![p] = "ended"]
          /\ polling[q] = "off" => polling'[q] = "off"
  OBVIOUS
<1> QED
  BY <1>1, <1>2, <1>3 DEF PipeThreads

LEMMA PlanInvInit == ProcInit => PlanInv
<1> SUFFICES ASSUME ProcInit PROVE PlanInv
  OBVIOUS
<1>1. /\ gen = 1 /\ running = FALSE /\ plan = [a \in {Main, Monitor} |-> <<>>]
      /\ polling = [p \in Outs \cup Ins |-> "off"]
  BY DEF ProcInit, NativeInit
<1>2. \A h \in 1 .. Generations : In(h) \in Ins
  BY ProcessAssumption DEF In
<1>3. PlanGood(<<>>, FALSE, 1, polling)
  BY <1>1, <1>2, EmptySound DEF PlanGood, Sound
<1>4. <<>> \in Seq(PlanStep) /\ 1 \in Nat
  OBVIOUS
<1> QED
  BY <1>1, <1>3, <1>4 DEF PlanInv

LEMMA PlanInvStep == PlanInv /\ [ProcNext]_procVars => PlanInv'
<1> SUFFICES ASSUME PlanInv, [ProcNext]_procVars PROVE PlanInv'
  OBVIOUS
<1>1. CASE ProcNext
  <2>1. CASE Aside
    BY <2>1, AsideIsPlain DEF PlanInv
  <2>2. CASE PipeThreads
    BY <2>2, PipeThreadsPlan, ThreadsKeep
  <2> QED
    BY <1>1, <2>1, <2>2, StepKinds, LaunchKeeps, ForkFailsKeeps, StartExitMonitorKeeps,
       ExitCallbackKeeps, InvokeKeeps, StartMonitorsKeeps, RecreateKeeps, ExitKeeps,
       PlainKeeps
<1>2. CASE UNCHANGED procVars
  BY <1>2 DEF procVars, ownVars, objectVars, nativeVars, PlanInv
<1> QED
  BY <1>1, <1>2

-----------------------------------------------------------------------------
(* Standard input: what was written is what the child was given followed   *)
(* by rest, and as long as the thread of the pipe has not ended rest is    *)
(* what is queued; S is whatever was ever written.                         *)

PipeGood(b, r, w, e, c, po, S) ==
  /\ \E rest \in Seq(S) : w = r \o rest /\ (po # "ended" => rest = b)
  /\ \A n \in c : n <= Len(w)
  /\ e => po = "ended" /\ \A n \in c : n <= Len(r)

InGood(p, S) ==
  PipeGood(buffers[p], received[p], sent[p], eof[p], closedAt[p], polling[p], S)

InInv(S) ==
  /\ buffers \in [Ins -> Seq(S)] /\ received \in [Ins -> Seq(S)] /\ sent \in [Ins -> Seq(S)]
  /\ eof \in [Ins -> BOOLEAN] /\ closedAt \in [Ins -> SUBSET Nat]
  /\ polling \in [Outs \cup Ins -> {"off", "on", "ended"}]
  /\ \A p \in Ins : InGood(p, S)

LEMMA SeqFacts ==
  ASSUME NEW S, NEW r \in Seq(S), NEW b \in Seq(S)
  PROVE  /\ r \o b \in Seq(S) /\ Len(r \o b) \in Nat /\ Len(r) \in Nat
         /\ Len(r) <= Len(r \o b) /\ r = SubSeq(r \o b, 1, Len(r))
<1>1. /\ r \o b \in Seq(S) /\ Len(r \o b) = Len(r) + Len(b)
      /\ Len(r) \in Nat /\ Len(b) \in Nat
      /\ \A i \in 1 .. Len(r) : (r \o b)[i] = r[i]
  OBVIOUS
<1> DEFINE w == r \o b
<1>2. SubSeq(w, 1, Len(r)) = [i \in 1 .. Len(r) |-> w[i]]
  BY <1>1
<1>3. r = [i \in 1 .. Len(r) |-> r[i]]
  OBVIOUS
<1> HIDE DEF w
<1>4. r = SubSeq(w, 1, Len(r))
  BY <1>1, <1>2, <1>3 DEF w
<1> QED
  BY <1>1, <1>4 DEF w

LEMMA AppendRest ==
  ASSUME NEW S, NEW r \in Seq(S), NEW b \in Seq(S), NEW x \in S
  PROVE  /\ Append(b, x) \in Seq(S)
         /\ Len(Append(b, x)) = Len(b) + 1 /\ Len(b) \in Nat
OBVIOUS

LEMMA MoveHead ==
  ASSUME NEW S, NEW r \in Seq(S), NEW b \in Seq(S), b # <<>>
  PROVE  /\ r \o b = Append(r, Head(b)) \o Tail(b)
         /\ Append(r, Head(b)) \in Seq(S) /\ Tail(b) \in Seq(S)
         /\ Len(Append(r, Head(b))) = Len(r) + 1
OBVIOUS

LEMMA NoRest ==
  ASSUME NEW S, NEW r \in Seq(S)
  PROVE  r \o <<>> = r /\ <<>> \in Seq(S)
OBVIOUS

LEMMA Wider == ASSUME NEW S, NEW x PROVE Seq(S) \subseteq Seq(S \cup {x}) /\ x \in S \cup {x}
OBVIOUS

\* More values may be written.
LEMMA InInvWider == ASSUME NEW S, NEW x, InInv(S) PROVE InInv(S \cup {x})
<1> DEFINE T == S \cup {x}
<1>1. Seq(S) \subseteq Seq(T)
  BY Wider
<1> HIDE DEF T
<1>2. \A p \in Ins : InGood(p, T)
  BY <1>1 DEF InInv, InGood, PipeGood
<1> QED
  BY <1>1, <1>2 DEF InInv, T

\* Steps that leave the writer pipes alone.
LEMMA InSame ==
  ASSUME NEW S, InInv(S), UNCHANGED <<buffers, received, eof, sent, closedAt, polling>>
  PROVE  InInv(S)'
BY DEF InInv, InGood

\* The threads are started: only where there was none.
LEMMA StartMonitorsIn ==
  ASSUME NEW S, InInv(S), PlanInv, StartMonitors
  PROVE  InInv(S)'
<1>1. /\ Step(Main, "monitors") /\ UNCHANGED <<buffers, received, eof, sent, closedAt>>
      /\ polling' = [p \in Outs \cup Ins |->
                       IF p \in NativePipesOf(gen) THEN "on" ELSE polling[p]]
  BY DEF StartMonitors, inVars
<1>2. Fresh(plan[Main], running) /\ PlanGood(plan[Main], running, gen, polling)
  <2>1. /\ plan[Main] # <<>> /\ Head(plan[Main])[1] = "monitors"
        /\ plan[Main] \in Seq(PlanStep)
    BY <1>1, StepPlans DEF PlanInv
  <2>2. 1 \in DOMAIN plan[Main] /\ plan[Main][1] = Head(plan[Main])
    BY <2>1
  <2> QED
    BY <2>1, <2>2 DEF Fresh, Without, PlanInv
<1>3. \A p \in Ins : p \in NativePipesOf(gen) => polling[p] = "off"
  <2>1. SUFFICES ASSUME NEW p \in Ins, p \in NativePipesOf(gen) PROVE polling[p] = "off"
    OBVIOUS
  <2>2. PICK h \in 1 .. Generations : p = In(h)
    BY ProcessAssumption DEF In
  <2>3. h = gen
    BY <2>1, <2>2 DEF NativePipesOf, In, Out
  <2> QED
    BY <1>2, <2>2, <2>3 DEF PlanGood
<1>4. polling' \in [Outs \cup Ins -> {"off", "on", "ended"}]
  BY <1>1 DEF InInv
<1>5. \A p \in Ins : polling'[p] = polling[p] \/ (polling[p] = "off" /\ polling'[p] = "on")
  BY <1>1, <1>3
<1>6. \A p \in Ins : InGood(p, S)'
  BY <1>1, <1>5 DEF InInv, InGood, PipeGood
<1> QED
  BY <1>1, <1>4, <1>6 DEF InInv

\* A write queues at the end.
LEMMA WriteInKeeps ==
  ASSUME NEW S, InInv(S), NEW t \in Threads, WriteIn(t), carried[t] \in S
  PROVE  InInv(S)'
<1>0. PICK q, x : q = Head(todo[t]).pipe /\ x = carried[t]
  OBVIOUS
<1>1. /\ q \in Ins
      /\ buffers' = [buffers EXCEPT ![q] = Append(buffers[q], x)]
      /\ sent' = [sent EXCEPT ![q] = Append(sent[q], x)]
      /\ UNCHANGED <<received, eof, closedAt, polling>>
  BY <1>0 DEF WriteIn
<1>2. x \in S
  BY <1>0
<1>3. /\ buffers[q] \in Seq(S) /\ received[q] \in Seq(S) /\ sent[q] \in Seq(S)
      /\ closedAt[q] \subseteq Nat /\ InGood(q, S)
  BY <1>1 DEF InInv
<1>4. /\ Append(buffers[q], x) \in Seq(S) /\ Append(sent[q], x) \in Seq(S)
      /\ Len(Append(sent[q], x)) = Len(sent[q]) + 1 /\ Len(sent[q]) \in Nat
  BY <1>2, <1>3, AppendRest
<1>5. /\ buffers' \in [Ins -> Seq(S)] /\ sent' \in [Ins -> Seq(S)]
      /\ buffers'[q] = Append(buffers[q], x) /\ sent'[q] = Append(sent[q], x)
      /\ \A p \in Ins \ {q} : buffers'[p] = buffers[p] /\ sent'[p] = sent[p]
  BY <1>1, <1>4 DEF InInv
<1>6. PICK rest \in Seq(S) : /\ sent[q] = received[q] \o rest
                             /\ polling[q] # "ended" => rest = buffers[q]
  BY <1>3 DEF InGood, PipeGood
<1>7. /\ sent'[q] = received[q] \o Append(rest, x) /\ Append(rest, x) \in Seq(S)
      /\ polling[q] # "ended" => Append(rest, x) = buffers'[q]
  <2>1. ASSUME NEW r \in Seq(S), NEW y \in S PROVE Append(r \o rest, y) = r \o Append(rest, y)
    OBVIOUS
  <2>3. received[q] \in Seq(S)
    BY <1>3
  <2>2. Append(rest, x) \in Seq(S)
    BY <1>2, AppendRest
  <2> QED
    BY <1>2, <1>5, <1>6, <2>1, <2>2, <2>3
<1>8. \A n \in closedAt[q] : n <= Len(sent'[q])
  <2>1. \A n \in closedAt[q] : n \in Nat /\ n <= Len(sent[q])
    BY <1>3 DEF InGood, PipeGood
  <2>2. Len(sent'[q]) = Len(sent[q]) + 1
    BY <1>4, <1>5
  <2> QED
    BY <1>4, <2>1, <2>2
<1>9. InGood(q, S)'
  BY <1>1, <1>3, <1>7, <1>8 DEF InGood, PipeGood
<1>10. ASSUME NEW p \in Ins \ {q} PROVE InGood(p, S)'
  BY <1>1, <1>5 DEF InInv, InGood
<1> QED
  BY <1>1, <1>5, <1>9, <1>10 DEF InInv

\* A Close notes how much has been written.
LEMMA CloseInKeeps ==
  ASSUME NEW S, InInv(S), NEW t \in Threads, CloseIn(t)
  PROVE  InInv(S)'
<1>0. PICK q : q = Head(todo[t]).pipe
  OBVIOUS
<1>1. /\ q \in Ins
      /\ closedAt' = [closedAt EXCEPT ![q] =
                        IF closedAt[q] = {} /\ polling[q] # "ended" THEN {Len(sent[q])}
                        ELSE closedAt[q]]
      /\ UNCHANGED <<buffers, sent, received, eof, polling>>
  BY <1>0 DEF CloseIn
<1>2. sent[q] \in Seq(S) /\ closedAt[q] \in SUBSET Nat /\ InGood(q, S)
  BY <1>1 DEF InInv
<1>3. Len(sent[q]) \in Nat
  BY <1>2
<1>4. /\ closedAt' \in [Ins -> SUBSET Nat]
      /\ \A p \in Ins \ {q} : closedAt'[p] = closedAt[p]
      /\ closedAt'[q] = closedAt[q] \/ (polling[q] # "ended" /\ closedAt'[q] = {Len(sent[q])})
  BY <1>1, <1>2, <1>3 DEF InInv
<1>5. \A n \in closedAt'[q] : n <= Len(sent[q])
  <2>1. Len(sent[q]) <= Len(sent[q])
    BY <1>3
  <2> QED
    BY <1>2, <1>4, <2>1 DEF InGood, PipeGood
<1>6. InGood(q, S)'
  BY <1>1, <1>2, <1>4, <1>5 DEF InGood, PipeGood
<1>7. ASSUME NEW p \in Ins \ {q} PROVE InGood(p, S)'
  BY <1>1, <1>4 DEF InInv, InGood
<1> QED
  BY <1>1, <1>4, <1>6, <1>7 DEF InInv

\* The front of the queue is handed to the child.
LEMMA WriteBlobKeeps ==
  ASSUME NEW S, InInv(S), NEW q \in Ins, WriteBlob(q)
  PROVE  InInv(S)'
<1>1. /\ polling[q] = "on" /\ buffers[q] # <<>>
      /\ received' = [received EXCEPT ![q] = Append(received[q], Head(buffers[q]))]
      /\ buffers' = [buffers EXCEPT ![q] = Tail(buffers[q])]
      /\ UNCHANGED <<sent, eof, closedAt, polling>>
  BY DEF WriteBlob
<1>2. /\ buffers[q] \in Seq(S) /\ received[q] \in Seq(S) /\ InGood(q, S)
  BY DEF InInv
<1>3. /\ received[q] \o buffers[q] = Append(received[q], Head(buffers[q])) \o Tail(buffers[q])
      /\ Append(received[q], Head(buffers[q])) \in Seq(S) /\ Tail(buffers[q]) \in Seq(S)
  BY <1>1, <1>2, MoveHead
<1>4. /\ buffers' \in [Ins -> Seq(S)] /\ received' \in [Ins -> Seq(S)]
      /\ buffers'[q] = Tail(buffers[q])
      /\ received'[q] = Append(received[q], Head(buffers[q]))
      /\ \A p \in Ins \ {q} : buffers'[p] = buffers[p] /\ received'[p] = received[p]
  BY <1>1, <1>3 DEF InInv
<1>5. sent[q] = received[q] \o buffers[q] /\ ~eof[q] /\ \A n \in closedAt[q] : n <= Len(sent[q])
  BY <1>1, <1>2 DEF InGood, PipeGood
<1>6. sent[q] = received'[q] \o buffers'[q]
  BY <1>3, <1>4, <1>5
<1>7. InGood(q, S)'
  BY <1>1, <1>3, <1>4, <1>5, <1>6 DEF InGood, PipeGood
<1>8. ASSUME NEW p \in Ins \ {q} PROVE InGood(p, S)'
  BY <1>1, <1>4 DEF InInv, InGood
<1> QED
  BY <1>1, <1>4, <1>7, <1>8 DEF InInv

\* The thread of a pipe dies of a failed write.
LEMMA WriteFailsKeeps ==
  ASSUME NEW S, InInv(S), NEW q \in Ins, WriteFails(q)
  PROVE  InInv(S)'
<1>1. /\ polling[q] = "on" /\ buffers[q] # <<>>
      /\ buffers' = [buffers EXCEPT ![q] = Tail(buffers[q])]
      /\ polling' = [polling EXCEPT ![q] = "ended"]
      /\ UNCHANGED <<sent, received, eof, closedAt>>
  BY DEF WriteFails
<1>2. buffers[q] \in Seq(S) /\ received[q] \in Seq(S) /\ InGood(q, S)
  BY DEF InInv
<1>3. Tail(buffers[q]) \in Seq(S)
  BY <1>1, <1>2, MoveHead
<1>4. /\ buffers' \in [Ins -> Seq(S)] /\ polling' \in [Outs \cup Ins -> {"off", "on", "ended"}]
      /\ polling'[q] = "ended"
      /\ \A p \in Ins \ {q} : buffers'[p] = buffers[p] /\ polling'[p] = polling[p]
  BY <1>1, <1>3 DEF InInv
<1>5. InGood(q, S)'
  BY <1>1, <1>2, <1>4 DEF InGood, PipeGood
<1>6. ASSUME NEW p \in Ins \ {q} PROVE InGood(p, S)'
  BY <1>1, <1>4 DEF InInv, InGood
<1> QED
  BY <1>1, <1>4, <1>5, <1>6 DEF InInv

\* It ends when all is handed over, and tells the child the end.
LEMMA WriteEndKeeps ==
  ASSUME NEW S, InInv(S), NEW q \in Ins, WriteEnd(q)
  PROVE  InInv(S)'
<1>1. /\ polling[q] = "on" /\ buffers[q] = <<>>
      /\ polling' = [polling EXCEPT ![q] = "ended"] /\ eof' = [eof EXCEPT ![q] = TRUE]
      /\ UNCHANGED <<buffers, sent, received, closedAt>>
  BY DEF WriteEnd
<1>2. received[q] \in Seq(S) /\ InGood(q, S)
  BY DEF InInv
<1>3. sent[q] = received[q]
  BY <1>1, <1>2, NoRest DEF InGood, PipeGood
<1>4. /\ eof' \in [Ins -> BOOLEAN] /\ polling' \in [Outs \cup Ins -> {"off", "on", "ended"}]
      /\ polling'[q] = "ended"
      /\ \A p \in Ins \ {q} : eof'[p] = eof[p] /\ polling'[p] = polling[p]
  BY <1>1 DEF InInv
<1>5. \A n \in closedAt[q] : n <= Len(sent[q]) /\ n <= Len(received[q])
  BY <1>2, <1>3 DEF InGood, PipeGood
<1>6. InGood(q, S)'
  BY <1>1, <1>2, <1>4, <1>5 DEF InGood, PipeGood
<1>7. ASSUME NEW p \in Ins \ {q} PROVE InGood(p, S)'
  BY <1>1, <1>4 DEF InInv, InGood
<1> QED
  BY <1>1, <1>4, <1>6, <1>7 DEF InInv

\* The threads of the readers leave the writers alone.
LEMMA ReadersKeep ==
  ASSUME NEW S, InInv(S), NEW q \in Outs, PollForReads(q)
  PROVE  InInv(S)'
<1>1. /\ UNCHANGED <<buffers, received, eof, sent, closedAt>>
      /\ polling' = polling \/ polling' = [polling EXCEPT ![q] = "ended"]
  BY DEF PollForReads, ReadBlob, PassOn, ReadEnd, inVars
<1>2. /\ polling' \in [Outs \cup Ins -> {"off", "on", "ended"}]
      /\ \A p \in Ins : polling'[p] = polling[p]
  BY <1>1, NativeAssumption DEF InInv
<1> QED
  BY <1>1, <1>2 DEF InInv, InGood

LEMMA PipeThreadsIn ==
  ASSUME NEW S, InInv(S), PipeThreads
  PROVE  \E T : InInv(T)'
<1>1. ASSUME NEW p \in Outs \cup Ins, Polling(p) PROVE InInv(S)'
  BY <1>1, ReadersKeep, WriteBlobKeeps, WriteFailsKeeps, WriteEndKeeps
     DEF Polling, PollForWrites
<1>2. ASSUME NEW t \in Threads, Calling(t) PROVE \E T : InInv(T)'
  <2>1. CASE WriteIn(t)
    <3>1. PICK x : x = carried[t]
      OBVIOUS
    <3>2. InInv(S \cup {x})
      BY InInvWider
    <3>3. InInv(S \cup {x})'
      BY <2>1, <3>1, <3>2, WriteInKeeps
    <3> QED
      BY <3>3
  <2>2. CASE CloseIn(t)
    BY <2>2, CloseInKeeps
  <2>3. CASE UNCHANGED nativeVars
    <3>1. UNCHANGED <<buffers, received, eof, sent, closedAt, polling>>
      BY <2>3 DEF nativeVars, inVars
    <3> QED
      BY <3>1, InSame
  <2>4. WriteIn(t) \/ CloseIn(t) \/ UNCHANGED nativeVars
    BY <1>2 DEF Calling, NativeCallStep, CallPipe
  <2> QED
    BY <2>1, <2>2, <2>3, <2>4
<1> QED
  BY <1>1, <1>2 DEF PipeThreads

LEMMA OthersIn ==
  ASSUME \/ LaunchAsync \/ LaunchSync \/ ForkFails \/ StartExitMonitor \/ ExitCallback
         \/ (\E a \in {Main, Monitor} : Invoke(a))
         \/ RecreateNativePipes \/ ExitLater \/ ExitNow
  PROVE  UNCHANGED <<buffers, received, eof, sent, closedAt, polling>>
<1> USE DEF NativesSame, nativeVars, inVars
<1>1. CASE LaunchAsync \/ LaunchSync \/ ForkFails \/ StartExitMonitor \/ ExitCallback
  BY <1>1 DEF LaunchAsync, LaunchSync, Launch, ForkFails, StartExitMonitor, ExitCallback
<1>2. CASE \E a \in {Main, Monitor} : Invoke(a)
  BY <1>2 DEF Invoke
<1>3. CASE RecreateNativePipes \/ ExitLater \/ ExitNow
  BY <1>3 DEF RecreateNativePipes, ExitLater, ExitNow
<1> QED
  BY <1>1, <1>2, <1>3

StdinInv == PlanInv /\ \E S : InInv(S)

LEMMA StdinInit == ProcInit => StdinInv
<1> SUFFICES ASSUME ProcInit PROVE \E S : InInv(S)
  BY PlanInvInit DEF StdinInv
<1>1. NativeInit
  BY DEF ProcInit
<1>2. <<>> \in Seq({}) /\ <<>> \o <<>> = <<>>
  OBVIOUS
<1>3. InInv({})
  BY <1>1, <1>2 DEF NativeInit, InInv, InGood, PipeGood
<1> QED
  BY <1>3

LEMMA StdinStep == StdinInv /\ [ProcNext]_procVars => StdinInv'
<1> SUFFICES ASSUME PlanInv, NEW S, InInv(S), [ProcNext]_procVars PROVE \E T : InInv(T)'
  BY PlanInvStep DEF StdinInv
<1>1. CASE StartMonitors
  BY <1>1, StartMonitorsIn
<1>2. CASE PipeThreads
  BY <1>2, PipeThreadsIn
<1>3. CASE PlainDoes
  BY <1>3, PlainIsPlain, InSame
<1>4. CASE Aside
  BY <1>4, AsideIsPlain, InSame
<1>5. CASE \/ LaunchAsync \/ LaunchSync \/ ForkFails \/ StartExitMonitor \/ ExitCallback
           \/ (\E a \in {Main, Monitor} : Invoke(a))
           \/ RecreateNativePipes \/ ExitLater \/ ExitNow
  BY <1>5, OthersIn, InSame
<1>6. CASE UNCHANGED procVars
  <2>1. UNCHANGED <<buffers, received, eof, sent, closedAt, polling>>
    BY <1>6 DEF procVars, nativeVars, inVars
  <2> QED
    BY <2>1, InSame
<1> QED
  BY <1>1, <1>2, <1>3, <1>4, <1>5, <1>6, StepKinds

\* The standard input of a child (NativePipe::Write, Close and PollForWrites),
\* however often the object launches and whatever the script does: the child is
\* given what was written, in order and nothing twice, and it is told the end of
\* it only after everything written before the close.
THEOREM StdinStaysInOrder == ProcSpec => []StdinInOrder
<1>1. StdinInv => StdinInOrder
  <2> SUFFICES ASSUME NEW S, InInv(S), NEW p \in Ins
               PROVE  /\ Len(received[p]) <= Len(sent[p])
                      /\ received[p] = SubSeq(sent[p], 1, Len(received[p]))
                      /\ eof[p] => \A n \in closedAt[p] : n <= Len(received[p])
    BY DEF StdinInv, StdinInOrder
  <2>1. received[p] \in Seq(S) /\ InGood(p, S)
    BY DEF InInv
  <2>2. PICK rest \in Seq(S) : sent[p] = received[p] \o rest
    BY <2>1 DEF InGood, PipeGood
  <2> QED
    BY <2>1, <2>2, SeqFacts DEF InGood, PipeGood
<1> QED
  BY <1>1, StdinInit, StdinStep, PTL DEF ProcSpec
===============================================================================
