------------------------------- MODULE NetworkMC -------------------------------
(***************************************************************************)
(* Two of ti.Network's objects, which share nothing but the thread that    *)
(* runs the script: a behaviour is one of an HTTPClient or of a TCPSocket, *)
(* while the other stays as it began.                                      *)
(***************************************************************************)
EXTENDS HttpClient, TcpSocket

VARIABLE part   \* the object that works

NetworkParts == {"http", "tcp"}
NetworkStart == HttpInit /\ TcpInit
NetworkInit == part \in NetworkParts /\ NetworkStart

HttpWorks == part = "http" /\ HttpNext /\ UNCHANGED <<part, tcpVars>>
TcpWorks == part = "tcp" /\ TcpNext /\ UNCHANGED <<part, httpVars>>

NetworkNext == HttpWorks \/ TcpWorks

NetworkSpec ==
  /\ NetworkInit
  /\ [][NetworkNext]_<<part, httpVars, tcpVars>>
  /\ HttpFairness
===============================================================================
