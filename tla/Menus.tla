--------------------------------- MODULE Menus ---------------------------------
(***************************************************************************)
(* The menus of ti.UI and the widgets GTK shows for them (menu.cpp,        *)
(* menu_item.cpp, gtk/).  A menu or an item may be shown any number of     *)
(* times; each keeps a list of its widgets (nativeMenus, nativeItems) and  *)
(* changes all of them when the script changes it.                         *)
(*                                                                         *)
(* A menu bar is the set of the ways to the widgets in it, each the        *)
(* sequence of widgets from the bar down, and the lists are the widgets in *)
(* the bars.  The code leaves widgets on them that GTK has freed (below a  *)
(* replaced item, in a window that was closed, in a popup that is gone);   *)
(* to use one is undefined: it ends the program, or nothing comes of it,   *)
(* which is what is modelled.                                              *)
(*                                                                         *)
(* Left out: separators, which have no list, labels, icons and popups, and *)
(* whether a widget is sensitive and shown.  A window opens and closes in  *)
(* one step.                                                               *)
(***************************************************************************)
EXTENDS Naturals, Sequences, FiniteSets, SequencesExt

CONSTANTS Menus, Items, MenuWindows,
          CheckItems,   \* the items with a check
          NoMenu,       \* a null menu
          MaxEntries,   \* entries of all menus together, at most
          MaxBars,      \* bars packed into a window, at most
          MaxClicks     \* clicks whose change of state waits, at most

ASSUME MenusAssumption == /\ CheckItems \subseteq Items /\ NoMenu \notin Menus
                          /\ IsFiniteSet(Menus)
                          /\ {MaxEntries, MaxBars, MaxClicks} \subseteq Nat

VARIABLES
  children,     \* children[m]: the items of a menu
  submenu,      \* submenu[i], or NoMenu
  checked,      \* state[i]
  clicked,      \* calls of setState the main thread is to make
  appMenu,      \* the menu of the application, or NoMenu
  ownMenu,      \* menu[w]: of a window, or NoMenu
  opened_,      \* opened_[w]: "new", "open" or "closed"
  activeMenu,   \* activeMenu[w], or NoMenu
  bars,         \* bars[w]: the menu bars in its box, the first on top
  hasNative     \* nativeMenu[w] is the first of them, else null

model == <<children, submenu, checked, clicked, appMenu>>
windowMenus == <<ownMenu, opened_, activeMenu, bars, hasNative>>
menuVars == <<model, windowMenus>>

MenusInit ==
  /\ children = [m \in Menus |-> <<>>] /\ submenu = [i \in Items |-> NoMenu]
  /\ checked = [i \in Items |-> FALSE] /\ clicked = <<>> /\ appMenu = NoMenu
  /\ ownMenu = [w \in MenuWindows |-> NoMenu] /\ opened_ = [w \in MenuWindows |-> "new"]
  /\ activeMenu = [w \in MenuWindows |-> NoMenu] /\ bars = [w \in MenuWindows |-> <<>>]
  /\ hasNative = [w \in MenuWindows |-> FALSE]

-----------------------------------------------------------------------------
(* The graph of menus, and the widgets of a menu bar.                      *)

Holds(m, n) == \E k \in DOMAIN children[m] : submenu[children[m][k]] = n

\* The menus in the submenus of m, in theirs, and so on: the least set of menus that holds
\* what the items of m, and of what it holds, open.
Under(m) ==
  {n \in Menus : \A S \in SUBSET Menus :
                   (\A a \in S \cup {m}, b \in Menus : Holds(a, b) => b \in S) => n \in S}

\* The menus and the items that a menu shows.
Shown(m) == IF m = NoMenu THEN {} ELSE {m} \cup Under(m)
ItemsOf(menus) == UNION {Range(children[m]) : m \in menus}

\* MenuItem::ContainsSubmenu and Menu::ContainsItem
ContainsSubmenu(i, m) == m \in Shown(submenu[i])
ContainsItem(m, i) == i \in ItemsOf(Shown(m))

\* A widget of item i in a widget of menu m, and the menu of the one it opens.
Widget(m, k, i) == [menu |-> m, place |-> k, item |-> i, on |-> checked[i], sub |-> submenu[i]]
Widgets == UNION {{Widget(m, k, children[m][k]) : k \in DOMAIN children[m]} : m \in Menus}

\* Each widget is in the menu that the one before opens.
Linked(way) == \A j \in 2 .. Len(way) : way[j].menu = way[j - 1].sub

\* CreateNative: the widgets below one for a menu, or from one for an item on, as the menus
\* are now, each as the way to it.  A way meets no menu twice.
NativeMenu(m) ==
  {way \in BoundedSeq(Widgets, Cardinality(Menus)) : way # <<>> /\ way[1].menu = m /\ Linked(way)}
NativeItem(m, k, i) == {<<Widget(m, k, i)>> \o way : way \in {<<>>} \cup NativeMenu(submenu[i])}
NativeBar(m) == [menu |-> m, widgets |-> NativeMenu(m)]

\* The ways to the widgets of m that are among those to items, and to the bar itself.
ShellsOf(bar, m, ways) ==
  {way \in ways : Last(way).sub = m} \cup (IF bar.menu = m THEN {<<>>} ELSE {})

\* A bar in which every widget of m gets one for i at place k,
Inserted(bar, m, k, i) ==
  LET Moved(w) == IF w.menu = m /\ w.place >= k THEN [w EXCEPT !.place = @ + 1] ELSE w
      moved == {[j \in DOMAIN way |-> Moved(way[j])] : way \in bar.widgets}
  IN [bar EXCEPT !.widgets =
        moved \cup {shell \o new : shell \in ShellsOf(bar, m, moved), new \in NativeItem(m, k, i)}]

\* or loses those from k to l, with all below,
Removed(bar, m, k, l) ==
  LET Moved(w) == IF w.menu = m /\ w.place > l THEN [w EXCEPT !.place = @ - (l + 1 - k)] ELSE w
      Stays(way) == \A j \in DOMAIN way : ~(way[j].menu = m /\ way[j].place \in k .. l)
  IN [bar EXCEPT !.widgets =
        {[j \in DOMAIN way |-> Moved(way[j])] : way \in {w \in bar.widgets : Stays(w)}}]

\* one in which every widget of i has another mark,
Marked(bar, i, on) ==
  LET Mark(w) == IF w.item = i THEN [w EXCEPT !.on = on] ELSE w
  IN [bar EXCEPT !.widgets = {[j \in DOMAIN way |-> Mark(way[j])] : way \in bar.widgets}]

\* or widgets of another menu below, in place of those it had.
Hung(bar, i, m) ==
  LET Opening(w) == IF w.item = i THEN [w EXCEPT !.sub = m] ELSE w
      above == {way \in bar.widgets : \A j \in DOMAIN way : way[j].item = i => j = Len(way)}
      hung == {[j \in DOMAIN way |-> Opening(way[j])] : way \in above}
  IN [bar EXCEPT !.widgets =
        hung \cup {way \o new : way \in {w \in hung : Last(w).item = i}, new \in NativeMenu(m)}]

\* The code finds the widgets to change by its lists of them, nativeMenus and nativeItems,
\* which are taken to hold every live one.
EachBar(Change(_)) == bars' = [w \in MenuWindows |-> [b \in DOMAIN bars[w] |-> Change(bars[w][b])]]

-----------------------------------------------------------------------------
(* Menus and items, as the script changes them.                            *)

\* Mutant: new widgets go to the end of a menu.
Mutant_Appended(m, k, i) ==
  /\ children' = [children EXCEPT ![m] = InsertAt(@, k, i)]
  /\ EachBar(LAMBDA bar : Inserted(bar, m, Len(children[m]) + 1, i))

InsertWidgets(m, k, i) ==
  /\ children' = [children EXCEPT ![m] = InsertAt(@, k, i)]
  /\ EachBar(LAMBDA bar : Inserted(bar, m, k, i))

RemoveWidgets(m, k, l) ==
  /\ children' = [children EXCEPT ![m] = SubSeq(@, 1, k - 1) \o SubSeq(@, l + 1, Len(@))]
  /\ EachBar(LAMBDA bar : Removed(bar, m, k, l))
  /\ UNCHANGED <<submenu, checked, clicked, appMenu, ownMenu, opened_, activeMenu, hasNative>>

Entries == Cardinality(UNION {{<<m, k>> : k \in DOMAIN children[m]} : m \in Menus})

\* insertItemAt, and appendItem at the end; the same item may come twice.
InsertItemAt(m, i, k) ==
  /\ Entries < MaxEntries /\ k \in 1 .. Len(children[m]) + 1
  /\ ~ContainsSubmenu(i, m)
  /\ InsertWidgets(m, k, i)
  /\ UNCHANGED <<submenu, checked, clicked, appMenu, ownMenu, opened_, activeMenu, hasNative>>

RemoveItemAt(m, k) == k \in DOMAIN children[m] /\ RemoveWidgets(m, k, k)

Clear(m) == children[m] # <<>> /\ RemoveWidgets(m, 1, Len(children[m]))

\* An item's new submenu, or NoMenu.  addItem makes a fresh one if there is none.
SetSubmenu(i, m) ==
  /\ m = NoMenu \/ ~ContainsItem(m, i)
  /\ submenu' = [submenu EXCEPT ![i] = m]
  /\ EachBar(LAMBDA bar : Hung(bar, i, m))
  /\ UNCHANGED <<children, checked, clicked, appMenu, ownMenu, opened_, activeMenu, hasNative>>

ChangeMark(i, on) ==
  /\ checked' = [checked EXCEPT ![i] = on]
  /\ EachBar(LAMBDA bar : Marked(bar, i, on))
  /\ UNCHANGED <<children, submenu, appMenu, ownMenu, opened_, activeMenu, hasNative>>

SetState(i, on) == i \in CheckItems /\ ChangeMark(i, on) /\ UNCHANGED clicked

\* A click changes the mark later; the widget that GTK has marked is put back.
HandleClickEvent(i) ==
  /\ i \in CheckItems /\ Len(clicked) < MaxClicks
  /\ clicked' = Append(clicked, <<i, ~checked[i]>>)
  /\ UNCHANGED <<children, submenu, checked, appMenu, windowMenus>>

Clicked ==
  /\ clicked # <<>> /\ clicked' = Tail(clicked)
  /\ ChangeMark(clicked[1][1], clicked[1][2])

-----------------------------------------------------------------------------
(* Windows.                                                                *)

\* A window's menu changes to the one wanted.  "return" without a semicolon makes
\* RemoveOldMenu part of the case where nothing changes: the bar is removed then,
\* and stays when another is added.
SetupMenus(ws, own, app) ==
  LET Wanted(w) == IF own[w] # NoMenu THEN own[w] ELSE app
      same == {w \in ws : Wanted(w) = activeMenu[w]}
      adds == {w \in ws \ same : Wanted(w) # NoMenu}
      gone == {w \in same : hasNative[w]}
  IN /\ \A w \in adds : Len(bars[w]) < MaxBars
     /\ bars' = [w \in MenuWindows |-> IF w \in adds THEN <<NativeBar(Wanted(w))>> \o bars[w]
                                       ELSE IF w \in gone THEN Tail(bars[w]) ELSE bars[w]]
     /\ hasNative' = [w \in MenuWindows |-> w \in adds \/ (hasNative[w] /\ w \notin gone)]
     /\ activeMenu' = [w \in MenuWindows |-> IF w \in same THEN NoMenu
                                             ELSE IF w \in ws THEN Wanted(w) ELSE activeMenu[w]]

\* UI.setMenu tells the open windows; those with a menu of their own keep it.
SetAppMenu(m) ==
  /\ appMenu' = m
  /\ SetupMenus({w \in MenuWindows : opened_[w] = "open" /\ ownMenu[w] = NoMenu}, ownMenu, m)
  /\ UNCHANGED <<children, submenu, checked, clicked, ownMenu, opened_>>

SetWindowMenu(w, m) ==
  /\ opened_[w] = "open"
  /\ ownMenu' = [ownMenu EXCEPT ![w] = m]
  /\ SetupMenus({w}, ownMenu', appMenu)
  /\ UNCHANGED <<model, opened_>>

OpenWindow(w) ==
  /\ opened_[w] = "new"
  /\ opened_' = [opened_ EXCEPT ![w] = "open"]
  /\ SetupMenus({w}, ownMenu, appMenu)
  /\ UNCHANGED <<model, ownMenu>>

\* The bars go with the window.
CloseWindow(w) ==
  /\ opened_[w] = "open"
  /\ opened_' = [opened_ EXCEPT ![w] = "closed"]
  /\ bars' = [bars EXCEPT ![w] = <<>>] /\ hasNative' = [hasNative EXCEPT ![w] = FALSE]
  /\ activeMenu' = [activeMenu EXCEPT ![w] = NoMenu]
  /\ UNCHANGED <<model, ownMenu>>

MenusNext ==
  \/ \E m \in Menus, i \in Items, k \in 1 .. MaxEntries : InsertItemAt(m, i, k)
  \/ \E m \in Menus, k \in 1 .. MaxEntries : RemoveItemAt(m, k)
  \/ \E m \in Menus : Clear(m)
  \/ \E i \in Items, m \in Menus \cup {NoMenu} : SetSubmenu(i, m)
  \/ \E i \in Items, on \in BOOLEAN : SetState(i, on)
  \/ \E i \in Items : HandleClickEvent(i)
  \/ Clicked
  \/ \E m \in Menus \cup {NoMenu} : SetAppMenu(m)
  \/ \E w \in MenuWindows, m \in Menus \cup {NoMenu} : SetWindowMenu(w, m)
  \/ \E w \in MenuWindows : OpenWindow(w) \/ CloseWindow(w)

MenusSpec == MenusInit /\ [][MenusNext]_menuVars

-----------------------------------------------------------------------------
(* Properties.                                                             *)

\* No menu shows itself, however menus and items are put together, and every menu bar
\* shows its menu as it is: each change reaches every widget of what it changes.
MenusMirrored ==
  /\ \A m \in Menus : m \notin Under(m)
  /\ \A w \in MenuWindows : \A b \in DOMAIN bars[w] : bars[w][b] = NativeBar(bars[w][b].menu)
=================================================================================
