----------------------------- MODULE StandaloneMC -----------------------------
(***************************************************************************)
(* Parts of the product that share no state with each other: a worker, the *)
(* three parts of ti.Filesystem, the lines of a process, the installer.    *)
(* They are checked side by side: a behaviour is one of one of them, while *)
(* the others stay as they began.                                          *)
(***************************************************************************)
EXTENDS Worker, FilesystemMC, LineReader, Installer

fsVars == <<logVars, copyVars, streamVars>>
allVars == <<part, workerVars, fsVars, lineVars, instVars>>

StandaloneInit ==
  /\ part \in FilesystemParts \cup {"worker", "lines", "installer"}
  /\ FilesystemStart /\ WorkerInit /\ LinesInit /\ InstInit
  \* one command line while the installer only waits
  /\ part # "installer" => ~update /\ ~known /\ ~inSudo /\ jobCount = 0

FilesystemWorks == FilesystemNext /\ UNCHANGED <<workerVars, lineVars, instVars>>
WorkerWorks ==
  part = "worker" /\ WorkerNext /\ UNCHANGED <<part, fsVars, lineVars, instVars>>
ReaderWorks ==
  part = "lines" /\ LinesNext /\ UNCHANGED <<part, workerVars, fsVars, instVars>>
InstallerWorks ==
  part = "installer" /\ InstNext /\ UNCHANGED <<part, workerVars, fsVars, lineVars>>

StandaloneNext == FilesystemWorks \/ WorkerWorks \/ ReaderWorks \/ InstallerWorks

StandaloneSpec ==
  /\ StandaloneInit /\ [][StandaloneNext]_allVars
  /\ WorkerFairness /\ LogFairness /\ CopyFairness
===============================================================================
