------------------------------ MODULE WindowSizes ------------------------------
(***************************************************************************)
(* The sizes of the windows of ti.UI and the limits a script sets on them  *)
(* (user_window.cpp and GTK's gtk/gtk_user_window.cpp).  A window has its  *)
(* size twice: in its configuration, and as the size the toolkit was last  *)
(* asked for or has last reported, which is what the script is told while  *)
(* the window is active.  The toolkit and the user resize the window later *)
(* and by themselves, and report it with an event.                         *)
(*                                                                         *)
(* Width and height are handled alike, and together where the code does.   *)
(* The scripts modelled here keep minima below maxima, leave a window      *)
(* alone in its OPEN event, when it is made but not active, and do not     *)
(* change in one go whether it is resizable and its size.  Left out:       *)
(* positions, and windows that are minimized, maximized, hidden or on the  *)
(* full screen.                                                            *)
(***************************************************************************)
EXTENDS Integers, Sequences

CONSTANTS SizedWindows,
          Axes,       \* "width", "height"
          MaxSize,    \* sizes are 1 .. MaxSize; it stands for INT_MAX in a limit
          MaxEvents   \* configure events under way, at most

ASSUME SizesAssumption == MaxSize \in Nat \ {0} /\ MaxEvents \in Nat /\ Axes # {}

VARIABLES
  life,       \* "new", "open" (then the window is active), or "closed"
  config,     \* config[w]: size, min, max (-1: none), resizable
  native,     \* the toolkit's side: hints, asked, unsettled, and target, the
              \* targetWidth and targetHeight of the window
  oldSize,    \* oldWidth and oldHeight
  real,       \* external: the size the window has
  events      \* external: the configure events under way

external == <<real, events>>
sizeVars == <<life, config, native, oldSize, external>>

NoLimit == -1
All(x) == [a \in Axes |-> x]
NewSizes == [Axes -> 1 .. MaxSize]

SizesInit ==
  /\ life = [w \in SizedWindows |-> "new"]
  /\ config \in [SizedWindows -> [size : {All(s) : s \in 1 .. MaxSize}, min : {All(NoLimit)},
                                  max : {All(NoLimit)}, resizable : {TRUE}]]
  /\ native = [w \in SizedWindows |->
                 [hints |-> [min |-> All(1), max |-> All(MaxSize)], asked |-> All(0),
                  unsettled |-> FALSE, target |-> All(NoLimit)]]
  /\ oldSize = All(NoLimit)
  /\ real = [w \in SizedWindows |-> All(0)] /\ events = <<>>

Active(w) == life[w] = "open"

Constrain(value, min, max) ==
  LET v == IF min >= 0 /\ value < min THEN min ELSE value
  IN IF max >= 0 /\ v > max THEN max ELSE v

Limit(m) == IF m <= 0 THEN NoLimit ELSE m

-----------------------------------------------------------------------------
(* What the GTK window does with its configuration c; n is its native side. *)

SizeLimits(c) ==
  IF c.resizable
  THEN [min |-> [a \in Axes |-> IF c.min[a] = NoLimit THEN 1 ELSE c.min[a]],
        max |-> [a \in Axes |-> IF c.max[a] = NoLimit THEN MaxSize ELSE c.max[a]]]
  ELSE [min |-> c.size, max |-> c.size]

AskSize(hints, asked, target) ==
  [hints |-> hints, asked |-> asked, unsettled |-> TRUE, target |-> target]

SetupSizeLimits(n, c) == AskSize(SizeLimits(c), n.asked, n.target)

\* Resizing is asynchronous: the target is set to what is to be.
SetupSize(n, c) ==
  IF c.resizable THEN AskSize(n.hints, c.size, c.size) ELSE AskSize(SizeLimits(c), n.asked, c.size)

-----------------------------------------------------------------------------
(* What scripts call.                                                      *)

Clashes(c) == \E a \in Axes : c.min[a] # NoLimit /\ c.max[a] # NoLimit /\ c.min[a] > c.max[a]

\* A setter changes the configuration, and the window while it is active.
Sets(w, c, n) ==
  /\ ~Clashes(c)
  /\ config' = [config EXCEPT ![w] = c]
  /\ native' = [native EXCEPT ![w] = IF Active(w) THEN n ELSE @]
  /\ UNCHANGED <<life, oldSize, external>>

\* Of one axis; sizes that are not positive are ignored.
SetSize(w, a, value) ==
  LET c == [config[w] EXCEPT !.size[a] =
              Constrain(value, config[w].min[a], config[w].max[a])]
  IN Sets(w, c, SetupSize(native[w], c))

SetMinSize(w, a, m) ==
  LET low(s) == Limit(m) # NoLimit /\ s < Limit(m)
      c == [config[w] EXCEPT !.min[a] = Limit(m), !.size[a] = IF low(@) THEN Limit(m) ELSE @]
      n == SetupSizeLimits(native[w], c)
  IN Sets(w, c, IF low(n.target[a]) THEN SetupSize(n, c) ELSE n)

\* Mutant: the size of the configuration is lowered for windows that are not open.
Mutant_OnlyTheWindow(w, a, m) ==
  LET high(s) == Limit(m) # NoLimit /\ s > Limit(m)
      c == [config[w] EXCEPT !.max[a] = Limit(m),
                             !.size[a] = IF high(@) /\ ~Active(w) THEN Limit(m) ELSE @]
      n == SetupSizeLimits(native[w], c)
  IN Sets(w, c, IF high(n.target[a]) THEN SetupSize(n, c) ELSE n)

SetMaxSize(w, a, m) ==
  LET high(s) == Limit(m) # NoLimit /\ s > Limit(m)
      c == [config[w] EXCEPT !.max[a] = Limit(m), !.size[a] = IF high(@) THEN Limit(m) ELSE @]
      n == SetupSizeLimits(native[w], c)
  IN Sets(w, c, IF high(n.target[a]) THEN SetupSize(n, c) ELSE n)

\* Both axes at once; the scripts modelled here give positive sizes.
SetBounds(w, size) ==
  LET c == [config[w] EXCEPT !.size =
              [a \in Axes |-> Constrain(size[a], config[w].min[a], config[w].max[a])]]
  IN Sets(w, c, SetupSize(native[w], c))

SetResizable(w, b) ==
  ~native[w].unsettled /\
  LET c == [config[w] EXCEPT !.resizable = b]
  IN Sets(w, c, SetupSizeLimits(native[w], c))

\* The GTK window is made and shown, and the window is active.
OpenSized(w) ==
  /\ life[w] = "new"
  /\ life' = [life EXCEPT ![w] = "open"]
  /\ native' = [native EXCEPT ![w] = SetupSizeLimits(SetupSize(@, config[w]), config[w])]
  /\ UNCHANGED <<config, oldSize, external>>

CloseSized(w) ==
  /\ Active(w)
  /\ life' = [life EXCEPT ![w] = "closed"]
  /\ UNCHANGED <<config, native, oldSize, external>>

Scripted(w) ==
  \/ OpenSized(w) \/ CloseSized(w)
  \/ \E a \in Axes : \E s \in 1 .. MaxSize : SetSize(w, a, s)
  \/ \E a \in Axes : \E m \in 0 .. MaxSize : SetMinSize(w, a, m) \/ SetMaxSize(w, a, m)
  \/ \E size \in NewSizes : SetBounds(w, size)
  \/ \E b \in BOOLEAN : SetResizable(w, b)

-----------------------------------------------------------------------------
(* The toolkit, the user and the main loop.                                *)

Within(size, hints) ==
  \A a \in Axes : hints.min[a] <= size[a] /\ size[a] <= hints.max[a]

Resized(w, size) ==
  /\ real' = [real EXCEPT ![w] = size]
  /\ events' = IF size = real[w] THEN events ELSE Append(events, [win |-> w, size |-> size])

\* External: GTK gives the window the size it was asked for, or the size it has,
\* as near as the hints allow.
Settles(w) ==
  /\ Active(w) /\ native[w].unsettled /\ Len(events) < MaxEvents
  /\ LET n == native[w]
         wish(a) == IF n.asked[a] > 0 THEN n.asked[a] ELSE real[w][a]
     IN /\ Resized(w, [a \in Axes |-> IF wish(a) > n.hints.max[a] THEN n.hints.max[a]
                                      ELSE IF wish(a) < n.hints.min[a] THEN n.hints.min[a]
                                      ELSE wish(a)])
        /\ native' = [native EXCEPT ![w] = [hints |-> n.hints, asked |-> All(0),
                                            unsettled |-> FALSE, target |-> n.target]]
  /\ UNCHANGED <<life, config, oldSize>>

\* External: the user drags a window that is shown, within the limits that the
\* window manager knows; while GTK is to settle it may know others.
UserResizes(w) ==
  /\ Active(w) /\ real[w] # All(0) /\ Len(events) < MaxEvents
  /\ \E size \in NewSizes :
       /\ Within(size, native[w].hints) \/ native[w].unsettled
       /\ Resized(w, size)
  /\ UNCHANGED <<life, config, native, oldSize>>

\* EventCallback, GDK_CONFIGURE.  The old size is one for all windows.
ConfigureEvent ==
  /\ events # <<>>
  /\ events' = Tail(events)
  /\ LET e == Head(events)
     IN IF Active(e.win)
        THEN /\ native' = IF \E a \in Axes : oldSize[a] # NoLimit /\ e.size[a] # oldSize[a]
                          THEN [native EXCEPT ![e.win].target = e.size] ELSE native
             /\ oldSize' = e.size
        ELSE UNCHANGED <<native, oldSize>>
  /\ UNCHANGED <<life, config, real>>

SizesNext ==
  \/ \E w \in SizedWindows : Scripted(w) \/ Settles(w) \/ UserResizes(w)
  \/ ConfigureEvent

SizesSpec == SizesInit /\ [][SizesNext]_sizeVars

-----------------------------------------------------------------------------
(* Properties.                                                             *)

InLimits(w, size) ==
  \A a \in Axes : size[a] = Constrain(size[a], config[w].min[a], config[w].max[a])

\* Nothing of the window's size is under way.
Still(w) ==
  /\ Active(w) /\ ~native[w].unsettled
  /\ \A i \in DOMAIN events : events[i].win # w

\* The old size is one for all windows: events of one can hide those of another.
Alone(w) == \A v \in SizedWindows \ {w} : life[v] = "new"

\* Limits hold (_SetMinWidth, _SetMaxWidth, _SetWidth, _SetBounds and their heights),
\* in whatever order sizes and limits are set, before, while and after a window is
\* open, and however the user drags it meanwhile: the configured size is in the limits
\* always, and the size the window has when all is still; and the size the script is
\* told then is that one, as long as no other window was opened.
LimitsHold ==
  \A w \in SizedWindows :
    /\ InLimits(w, config[w].size)
    /\ Still(w) => InLimits(w, real[w]) /\ (Alone(w) => native[w].target = real[w])
================================================================================
