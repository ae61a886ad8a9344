-------------------------------- MODULE Windows --------------------------------
(***************************************************************************)
(* The windows of ti.UI (user_window.cpp, ui_binding.cpp, and GTK's        *)
(* gtk/gtk_user_window.cpp).  All happens on the main thread, but open and *)
(* close call the script's listeners, which open and close windows: the    *)
(* stack holds the calls that wait for a listener.  The main window is     *)
(* open at first; each other is made by a window, its parent, that the     *)
(* program may close before the child opens.                               *)
(*                                                                         *)
(* A vector of children is changed while its owner walks it.  That is      *)
(* defined as long as it is not moved in memory: with two children at most *)
(* there is room for each after the first was erased.                      *)
(*                                                                         *)
(* Left out: listeners of the other events, of which some can open and     *)
(* close windows too, and everything that only changes a window's looks.   *)
(***************************************************************************)
EXTENDS Naturals, Sequences, SequencesExt

CONSTANTS Windows,
          Main,       \* the main window
          MaxDepth    \* calls of open and close that wait for listeners, at most

ASSUME WindowsAssumption == Main \in Windows /\ MaxDepth \in Nat

VARIABLES
  parent,        \* parent[w], the main window's is null
  active,        \* active[w]
  initialized,   \* initialized[w]
  gtkWindow,     \* gtkWindow[w] is not null
  childWindows,  \* children[w]
  openWindows,   \* openWindows of the UIBinding
  stack,         \* the calls that wait, [at, win], the innermost last
  exited,        \* history: the host was asked to exit
  closedFired,   \* history: how often CLOSED was fired for w, up to twice
  again,         \* history: windows closed in the course of a close of theirs
  spared,        \* history: windows whose listener prevented a close
  late           \* history: windows that opened after their parent had closed

flags == <<parent, active, initialized, gtkWindow>>
windowHistory == <<exited, closedFired, again, spared, late>>
windowVars == <<flags, childWindows, openWindows, stack, windowHistory>>

Others == Windows \ {Main}
ChildrenOf(p) == {c \in Others : parent[c] = p}

\* At most two have the same parent; a parent was made before its children.
Families ==
  {f \in [Others -> Windows] :
     /\ \A w \in Others : f[w] # w /\ (f[w] # Main => f[f[w]] = Main)
     /\ \A p \in Windows : \E a, b \in Windows : \A w \in Others \ {a, b} : f[w] # p}

WindowsInit ==
  /\ parent \in Families
  /\ active = [w \in Windows |-> w = Main]
  /\ initialized = active /\ gtkWindow = active
  /\ childWindows = [w \in Windows |-> <<>>] /\ openWindows = <<Main>> /\ stack = <<>>
  /\ exited = FALSE /\ closedFired = [w \in Windows |-> 0]
  /\ again = {} /\ spared = {} /\ late = {}

Call(at, w) == [at |-> at, win |-> w]
Waits(at, w) == Call(at, w) \in Range(stack)
\* The innermost call is at a place,
Now(at, w) == stack # <<>> /\ Last(stack) = Call(at, w)
\* goes on to the next, or returns.
Next_(at, w) == stack' = Append(Front(stack), Call(at, w))
Returns == stack' = Front(stack)

\* Listeners of these events run at these places.
InScript == stack # <<>> => Last(stack).at \in {"open", "opened", "close", "closed"}

\* Mutant: the parent keeps a window that was closed.
Mutant_ChildKept(list, w) == list

\* RemoveChild erases all occurrences, RemoveFromOpenWindows the first.
RemoveChild(list, w) ==
  LET kept[i \in 0 .. Len(list)] ==
        IF i = 0 THEN <<>>
        ELSE IF list[i] = w THEN kept[i - 1] ELSE Append(kept[i - 1], list[i])
  IN kept[Len(list)]
RemoveFromOpenWindows(list, w) == IF w \in Range(list) THEN RemoveFirst(list, w) ELSE list

-----------------------------------------------------------------------------
(* What the script, and for Close also the user, calls.                    *)

\* A window that is about to open, and one that was open before, stays as it is.
Open_(w) ==
  /\ InScript /\ Len(stack) < MaxDepth
  /\ ~active[w] /\ ~initialized[w] /\ ~gtkWindow[w]
  /\ gtkWindow' = [gtkWindow EXCEPT ![w] = TRUE]
  /\ stack' = Append(stack, Call("open", w))
  /\ UNCHANGED <<parent, active, initialized, childWindows, openWindows, windowHistory>>

Close_(w) ==
  /\ InScript /\ Len(stack) < MaxDepth
  /\ active[w]
  /\ stack' = Append(stack, Call("close", w))
  /\ again' = IF Waits("close", w) THEN again \cup {w} ELSE again
  /\ UNCHANGED <<flags, childWindows, openWindows, exited, closedFired, spared, late>>

-----------------------------------------------------------------------------
(* How the calls go on.                                                    *)

\* UserWindow::Open, after the OPEN listeners; then OPENED is fired.
Opens(w) ==
  /\ Now("open", w) /\ Next_("opened", w)
  /\ openWindows' = Append(openWindows, w)
  /\ childWindows' = [childWindows EXCEPT ![parent[w]] = Append(@, w)]
  /\ initialized' = [initialized EXCEPT ![w] = TRUE]
  /\ active' = [active EXCEPT ![w] = TRUE]
  /\ LET p == parent[w]
     IN late' = IF active[p] \/ Waits("closed", p) \/ Waits("children", p) THEN late
                ELSE late \cup {w}
  /\ UNCHANGED <<parent, gtkWindow, exited, closedFired, again, spared>>

Opened(w) ==
  /\ Now("opened", w) /\ Returns
  /\ UNCHANGED <<flags, childWindows, openWindows, windowHistory>>

\* A CLOSE listener prevented it; it goes on when one closed the window meanwhile.
Prevented(w) ==
  /\ Now("close", w) /\ active[w] /\ Returns
  /\ spared' = spared \cup {w}
  /\ UNCHANGED <<flags, childWindows, openWindows, exited, closedFired, again, late>>

\* UserWindow::Close; the GTK window is destroyed; then CLOSED is fired.
Closes(w) ==
  /\ Now("close", w)
  /\ active' = [active EXCEPT ![w] = FALSE]
  /\ gtkWindow' = [gtkWindow EXCEPT ![w] = FALSE]
  /\ Next_("closed", w)
  /\ closedFired' = [closedFired EXCEPT ![w] = IF @ < 2 THEN @ + 1 ELSE 2]
  /\ UNCHANGED <<parent, initialized, childWindows, openWindows, exited, again, spared, late>>

Closed(w) ==
  /\ Now("closed", w) /\ Next_("children", w)
  /\ UNCHANGED <<flags, childWindows, openWindows, windowHistory>>

\* The first child is closed, if it is open, until there is none.
CloseChild(w) ==
  /\ Now("children", w) /\ childWindows[w] # <<>>
  /\ LET c == Head(childWindows[w])
     IN /\ childWindows' = [childWindows EXCEPT ![w] = Tail(@)]
        /\ stack' = IF active[c] THEN Append(stack, Call("close", c)) ELSE stack
        /\ again' = IF active[c] /\ Waits("close", c) THEN again \cup {c} ELSE again
  /\ UNCHANGED <<flags, openWindows, exited, closedFired, spared, late>>

\* Mutant: the list of open windows is looked at before this one leaves it.
Mutant_LooksFirst(w) ==
  /\ Now("children", w) /\ childWindows[w] = <<>> /\ Returns
  /\ childWindows' = IF w = Main THEN childWindows
                     ELSE [childWindows EXCEPT ![parent[w]] = RemoveChild(@, w)]
  /\ openWindows' = RemoveFromOpenWindows(openWindows, w)
  /\ exited' = (exited \/ openWindows = <<>>)
  /\ UNCHANGED <<flags, closedFired, again, spared, late>>

\* The parent and the binding are told; the program exits without open windows.
ClosedAll(w) ==
  /\ Now("children", w) /\ childWindows[w] = <<>> /\ Returns
  /\ childWindows' = IF w = Main THEN childWindows
                     ELSE [childWindows EXCEPT ![parent[w]] = RemoveChild(@, w)]
  /\ openWindows' = RemoveFromOpenWindows(openWindows, w)
  /\ exited' = (exited \/ openWindows' = <<>>)
  /\ UNCHANGED <<flags, closedFired, again, spared, late>>

WindowsNext ==
  \E w \in Windows :
    \/ Open_(w) \/ Close_(w) \/ Opens(w) \/ Opened(w) \/ Prevented(w) \/ Closes(w)
    \/ Closed(w) \/ CloseChild(w) \/ ClosedAll(w)

WindowsSpec == WindowsInit /\ [][WindowsNext]_windowVars

-----------------------------------------------------------------------------
(* Properties.                                                             *)

AtRest == stack = <<>>
NoTwice(list) == \A i, j \in DOMAIN list : list[i] = list[j] => i = j

\* However listeners open and close windows: a window that is open is in the list of
\* open windows, no window is in a list twice, and with no call under way nothing else
\* is in the list of open windows; the children of a window are then windows that are
\* open and its own, and all of them, but for one that outlived an attempt to close it.
WindowsListed ==
  /\ \A w \in Windows : active[w] => w \in Range(openWindows) /\ gtkWindow[w]
  /\ NoTwice(openWindows) /\ \A p \in Windows : NoTwice(childWindows[p])
  /\ AtRest => /\ Range(openWindows) = {w \in Windows : active[w]}
               /\ \A p \in Windows :
                    LET open == {c \in ChildrenOf(p) : active[c]}
                    IN open \ spared \subseteq Range(childWindows[p])
                       /\ Range(childWindows[p]) \subseteq open

\* Closing is complete: when no call is under way, the children of a window that was
\* closed are closed, but for those that prevented it or opened later; CLOSED was fired
\* once for each closed window, unless a listener closed it once more meanwhile; and the
\* program was asked to exit when no window is left.
ClosingIsComplete ==
  AtRest =>
    /\ \A c \in Others :
         active[c] /\ ~active[parent[c]] => c \in spared \cup late
    /\ \A w \in Windows \ again :
         closedFired[w] = IF initialized[w] /\ ~active[w] THEN 1 ELSE 0
    /\ (\A w \in Windows : ~active[w]) => exited
================================================================================
