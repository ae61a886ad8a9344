----------------------------- MODULE FilesystemMC -----------------------------
(***************************************************************************)
(* The three parts of ti.Filesystem share nothing but the thread that runs *)
(* the script, so they are checked side by side: a behaviour is one of one *)
(* of them while the others stay as they began.                            *)
(***************************************************************************)
EXTENDS LogFile, AsyncCopies, FileStream

VARIABLE part   \* the part that works

FilesystemParts == {"log", "copies", "stream"}
FilesystemStart == LogInit /\ CopyInit /\ StreamInit
FilesystemInit == part \in FilesystemParts /\ FilesystemStart

LogWorks == part = "log" /\ LogNext /\ UNCHANGED <<part, copyVars, streamVars>>
CopiesWork == part = "copies" /\ CopyNext /\ UNCHANGED <<part, logVars, streamVars>>
StreamWorks == part = "stream" /\ StreamNext /\ UNCHANGED <<part, logVars, copyVars>>

FilesystemNext == LogWorks \/ CopiesWork \/ StreamWorks

FilesystemSpec ==
  /\ FilesystemInit
  /\ [][FilesystemNext]_<<part, logVars, copyVars, streamVars>>
  /\ LogFairness /\ CopyFairness
===============================================================================
