------------------------------ MODULE BindingsMC ------------------------------
(***************************************************************************)
(* The objects of ti.Network and of ti.UI, side by side: an HTTPClient and *)
(* a TCPSocket; menus, windows and their sizes.  What opening and closing  *)
(* does to a window's menu bars is in Menus, to its size and limits in     *)
(* WindowSizes, and to listeners, children and the list of open windows in *)
(* Windows.  A behaviour is one of one of these parts, while the others    *)
(* stay as they began.                                                     *)
(***************************************************************************)
EXTENDS NetworkMC, Menus, Windows, WindowSizes

interfaceVars == <<menuVars, windowVars, sizeVars>>
networkVars == <<httpVars, tcpVars>>

BindingsInit ==
  /\ part \in NetworkParts \cup {"menus", "windows", "sizes"}
  /\ NetworkStart /\ MenusInit /\ WindowsInit /\ SizesInit
  \* one arrangement of windows and one size while the others work
  /\ part # "windows" => \A w \in Others : parent[w] = Main
  /\ part # "sizes" => \A w \in SizedWindows : config[w].size = All(1)

\* The script sets the headers of its requests before the first of them.
HeadersFirst == calls = 0 \/ UNCHANGED emptyHeader

NetworkWorks == NetworkNext /\ HeadersFirst /\ UNCHANGED interfaceVars
MenusWork ==
  part = "menus" /\ MenusNext /\ UNCHANGED <<part, networkVars, windowVars, sizeVars>>
WindowsWork ==
  part = "windows" /\ WindowsNext /\ UNCHANGED <<part, networkVars, menuVars, sizeVars>>
SizesWork ==
  part = "sizes" /\ SizesNext /\ UNCHANGED <<part, networkVars, menuVars, windowVars>>

BindingsNext == NetworkWorks \/ MenusWork \/ WindowsWork \/ SizesWork

BindingsSpec ==
  /\ BindingsInit /\ [][BindingsNext]_<<part, networkVars, interfaceVars>>
  /\ HttpFairness
===============================================================================
