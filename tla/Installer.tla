------------------------------ MODULE Installer ------------------------------
(***************************************************************************)
(* The installer for Linux (installer.cpp, job.cpp), which downloads and   *)
(* unzips the components an application lacks, or an update of it.  A      *)
(* thread downloads all, then another one unzips all.  Both and the GTK    *)
(* thread, whose timer watches them, meet in one field, stage, that each   *)
(* of them reads and overwrites without a lock.  FileUtils is external:    *)
(* DeleteDirectory deletes the directory with all that is in it, and Unzip *)
(* returns whether it could, which nobody looks at.                        *)
(***************************************************************************)
EXTENDS Naturals, Sequences

CONSTANTS MaxJobs,    \* components named on the command line, at most
          MaxCancels  \* clicks on Cancel, at most

ASSUME InstallerAssumption == {MaxJobs, MaxCancels} \subseteq Nat

VARIABLES
  update,     \* there is an update file
  known,      \* the command line gives the type of installation
  inSudo,     \* in_sudo_mode
  jobCount,   \* the jobs are 1 .. jobCount
  present,    \* those that name a file, which is not downloaded
  app,        \* the application was read
  stage,      \* Installer::stage
  gtk,        \* where the GTK thread is
  window,     \* the view the user can click on
  threadAt,   \* threadAt[w]: where thread w is
  job,        \* job[w]: the job it has come to
  curl,       \* cURL and the temporary directory are in use
  installed,  \* the file .installed was written
  updateFile, \* the update file is there
  whole,      \* jobs whose file is there and complete
  fetched,    \* history: jobs whose file was there once
  tried,      \* history: the jobs Unzip was called for, in order
  helped,     \* history: an installer run with sudo succeeded
  cancels,    \* history: how often the user cancelled
  begun       \* history: jobs begun since then

arguments == <<update, known, inSudo>>
jobVars == <<jobCount, present>>
threads == <<threadAt, job, begun>>
outcome == <<whole, fetched, tried>>
results == <<curl, installed, updateFile, helped>>
instVars == <<arguments, jobVars, app, stage, gtk, window, threads, outcome, results, cancels>>

Workers == {"download", "install"}
Stages == {"success", "predownload", "downloading", "preinstall", "installing",
           "cancel_request", "sudo_request", "cancelled", "error"}

InstInit ==
  /\ update \in BOOLEAN /\ known \in BOOLEAN /\ inSudo \in BOOLEAN
  /\ jobCount \in 0 .. MaxJobs /\ present \in SUBSET (1 .. jobCount)
  /\ app = FALSE /\ stage = "predownload" /\ gtk = "new" /\ window = "none"
  /\ threadAt = [w \in Workers |-> "none"] /\ job = [w \in Workers |-> 0]
  /\ curl = TRUE /\ installed = FALSE /\ updateFile = update
  /\ whole = present /\ fetched = {} /\ tried = <<>> /\ helped = FALSE /\ cancels = 0 /\ begun = 0

StartThread(w) ==
  /\ threadAt' = [threadAt EXCEPT ![w] = "work"]
  /\ job' = [job EXCEPT ![w] = 1]
  /\ begun' = begun + 1

-----------------------------------------------------------------------------
(* The GTK thread, in Installer::Installer and its callbacks.              *)

\* An update adds a job.  With nothing to do the main loop ends.
StartDownloading(idle) ==
  /\ jobCount' = jobCount + IF update THEN 1 ELSE 0
  /\ IF jobCount' = 0
       THEN stage' = "success" /\ gtk' = idle /\ UNCHANGED <<window, threads>>
       ELSE stage' = "downloading" /\ gtk' = "loop" /\ window' = "progress"
              /\ StartThread("download")

\* An update that this user cannot write needs sudo before anything else.
ConstructForSudo ==
  /\ gtk = "new" /\ update
  /\ stage' = "sudo_request" /\ gtk' = "left"
  /\ UNCHANGED <<arguments, jobVars, app, window, threads, outcome, results, cancels>>

ConstructIntro ==
  /\ gtk = "new" /\ ~known
  /\ app' = TRUE /\ window' = "intro" /\ gtk' = "loop"
  /\ UNCHANGED <<arguments, jobVars, stage, threads, outcome, results, cancels>>

\* gtk_main_quit before gtk_main does nothing: the timer will end the loop.
ConstructKnown ==
  /\ gtk = "new" /\ known
  /\ app' = TRUE /\ StartDownloading("loop")
  /\ UNCHANGED <<arguments, present, outcome, results, cancels>>

\* Install: into the home directory, or as root ...
Install ==
  /\ gtk = "loop" /\ window = "intro"
  /\ StartDownloading("left")
  /\ UNCHANGED <<arguments, present, app, outcome, results, cancels>>

\* ... and for the system as anybody else.
InstallForSystem ==
  /\ gtk = "loop" /\ window = "intro"
  /\ stage' = "sudo_request" /\ gtk' = "left" /\ window' = "none"
  /\ UNCHANGED <<arguments, jobVars, app, threads, outcome, results, cancels>>

\* Mutant: the callback cancels by itself.
Mutant_CancelNow ==
  /\ stage' = "cancelled"
  /\ gtk' = IF stage = "predownload" THEN "left" ELSE gtk
  /\ cancels' = cancels + 1 /\ begun' = 0

RequestCancel ==
  /\ IF stage = "predownload"
       THEN stage' = "cancelled" /\ gtk' = "left"
       ELSE stage' = "cancel_request" /\ UNCHANGED gtk
  /\ cancels' = cancels + 1 /\ begun' = 0

Cancel ==
  /\ gtk = "loop" /\ window # "none" /\ cancels < MaxCancels
  /\ RequestCancel
  /\ UNCHANGED <<arguments, jobVars, app, window, threadAt, job, outcome, results>>

DestroyWindow ==
  /\ gtk = "loop" /\ window # "none" /\ cancels < MaxCancels
  /\ RequestCancel
  /\ window' = "none"
  /\ UNCHANGED <<arguments, jobVars, app, threadAt, job, outcome, results>>

\* The timer: it ends the loop at the end, shows an error, or ...
WatcherQuits ==
  /\ gtk = "loop" /\ stage \in {"error", "cancelled", "success"}
  /\ gtk' = "left"
  /\ UNCHANGED <<arguments, jobVars, app, stage, window, threads, outcome, results, cancels>>

\* ... when all is downloaded, waits for the download thread, ...
WatcherInstalls ==
  /\ gtk = "loop" /\ stage = "preinstall"
  /\ gtk' = "join"
  /\ UNCHANGED <<arguments, jobVars, app, stage, window, threads, outcome, results, cancels>>

\* cURL is shut down, and the temporary directory deleted with all that was downloaded.
\* The files the command line names are elsewhere.
ShutdownDownloader == curl' = FALSE /\ whole' = whole \cap present

\* ... shuts cURL down, starts the thread that installs, ...
StartInstalling ==
  /\ gtk = "join" /\ threadAt["download"] = "ended"
  /\ ShutdownDownloader /\ StartThread("install") /\ gtk' = "mark"
  /\ UNCHANGED <<arguments, jobVars, app, stage, window, fetched, tried, installed,
                 updateFile, helped, cancels>>

\* ... and sets the stage, whatever that thread has done with it since.
SetInstalling ==
  /\ gtk = "mark"
  /\ stage' = "installing" /\ gtk' = "loop"
  /\ UNCHANGED <<arguments, jobVars, app, window, threads, outcome, results, cancels>>

-----------------------------------------------------------------------------
(* The two threads.                                                        *)

Goes(w, from, to) ==
  /\ threadAt[w] = from
  /\ threadAt' = [threadAt EXCEPT ![w] = to]
  /\ UNCHANGED <<arguments, jobVars, app, gtk, window, results, cancels>>

\* A file is there, or cURL fetched all of it.
Fetched ==
  /\ Goes("download", "work", "check")
  /\ whole' = whole \cup {job["download"]} /\ fetched' = fetched \cup {job["download"]}
  /\ UNCHANGED <<stage, job, begun, tried>>

\* The transfer fails, of itself or because its progress function saw the stage.
FetchFails ==
  /\ Goes("download", "work", "failed") /\ job["download"] \notin present
  /\ UNCHANGED <<stage, job, begun, outcome>>

FailureNoticed ==
  /\ Goes("download", "failed", "throw") /\ stage \notin {"cancelled", "cancel_request"}
  /\ UNCHANGED <<stage, job, begun, outcome>>

\* A cancelled transfer is no error: Fetch returns as if it had succeeded.
FailureIgnored ==
  /\ Goes("download", "failed", "check") /\ stage \in {"cancelled", "cancel_request"}
  /\ UNCHANGED <<stage, job, begun, outcome>>

\* There is no cURL, or no file to write to.
FetchThrows ==
  /\ Goes("download", "work", "throw") /\ job["download"] \notin present
  /\ UNCHANGED <<stage, job, begun, outcome>>

\* Whether there was a file to unzip, and whether it could be, is not asked.
UnzipReturns ==
  /\ Goes("install", "work", "check")
  /\ tried' = Append(tried, job["install"])
  /\ UNCHANGED <<stage, job, begun, whole, fetched>>

UnzipThrows ==
  /\ Goes("install", "work", "throw")
  /\ UNCHANGED <<stage, job, begun, outcome>>

\* Mutant: a request to cancel is looked at after the last job only.
Mutant_CancelAtTheEnd(w) ==
  /\ Goes(w, "check", "next") /\ job[w] < jobCount
  /\ UNCHANGED <<stage, job, begun, outcome>>

NextJob(w) ==
  /\ Goes(w, "check", "next") /\ stage # "cancel_request" /\ job[w] < jobCount
  /\ UNCHANGED <<stage, job, begun, outcome>>

\* The user may have cancelled since the look at the stage.
BeginJob(w) ==
  /\ Goes(w, "next", "work")
  /\ job' = [job EXCEPT ![w] = @ + 1] /\ begun' = begun + 1
  /\ UNCHANGED <<stage, outcome>>

\* Mutant: a request to cancel ends the loop, and the thread goes on behind it.
Mutant_CancelBreaks(w) ==
  /\ Goes(w, "check", "done") /\ (stage = "cancel_request" \/ job[w] = jobCount)
  /\ UNCHANGED <<stage, job, begun, outcome>>

LastJob(w) ==
  /\ Goes(w, "check", "done") /\ stage # "cancel_request" /\ job[w] = jobCount
  /\ UNCHANGED <<stage, job, begun, outcome>>

Acknowledge(w) ==
  /\ Goes(w, "check", "ended") /\ stage = "cancel_request"
  /\ stage' = "cancelled"
  /\ UNCHANGED <<job, begun, outcome>>

SetError(w) ==
  /\ Goes(w, "throw", "ended")
  /\ stage' = "error"
  /\ UNCHANGED <<job, begun, outcome>>

Report(w) ==
  /\ Goes(w, "done", "ended")
  /\ stage' = IF w = "download" THEN "preinstall" ELSE "success"
  /\ UNCHANGED <<job, begun, outcome>>

Works(w) ==
  NextJob(w) \/ BeginJob(w) \/ LastJob(w) \/ Acknowledge(w) \/ SetError(w) \/ Report(w)

Downloads ==
  \/ Fetched \/ FetchFails \/ FailureNoticed \/ FailureIgnored \/ FetchThrows
  \/ Works("download")

Installs == UnzipReturns \/ UnzipThrows \/ Works("install")

-----------------------------------------------------------------------------
(* main, after the Installer.                                              *)

\* The exit code of the other installer, or of sudo, becomes the stage.
InstallWithSudo ==
  /\ gtk = "left" /\ stage = "sudo_request"
  /\ stage' \in Stages /\ helped' = (stage' = "success")
  /\ gtk' = "finish"
  /\ UNCHANGED <<arguments, jobVars, app, window, threads, outcome, curl, installed,
                 updateFile, cancels>>

InstallWithoutSudo ==
  /\ gtk = "left" /\ stage # "sudo_request"
  /\ gtk' = "finish"
  /\ UNCHANGED <<arguments, jobVars, app, stage, window, threads, outcome, results, cancels>>

\* Finish marks what succeeded, then main frees the Installer and shuts cURL down.
FinishInstall ==
  /\ gtk = "finish" /\ (stage = "success" => app \/ inSudo)
  /\ installed' = (stage = "success" /\ ~inSudo)
  /\ updateFile' = (updateFile /\ stage # "success")
  /\ ShutdownDownloader /\ gtk' = "over"
  /\ UNCHANGED <<arguments, jobVars, app, stage, window, threads, fetched, tried, helped,
                 cancels>>

\* The Installer that asked for sudo in its constructor has no application to ask.
FinishWithoutApp ==
  /\ gtk = "finish" /\ stage = "success" /\ ~app /\ ~inSudo
  /\ gtk' = "died"
  /\ UNCHANGED <<arguments, jobVars, app, stage, window, threads, outcome, results, cancels>>

User == Install \/ InstallForSystem \/ Cancel \/ DestroyWindow

Construct == ConstructForSudo \/ ConstructIntro \/ ConstructKnown
Watcher == WatcherQuits \/ WatcherInstalls
MainGoes ==
  \/ Construct \/ StartInstalling \/ SetInstalling
  \/ InstallWithSudo \/ InstallWithoutSudo \/ FinishInstall \/ FinishWithoutApp

InstNext == User \/ Watcher \/ MainGoes \/ Downloads \/ Installs

\* The timer fires, main goes on, and both threads come to the end of each job: a transfer
\* ends at the latest when its progress function asks for it.
InstFairness ==
  WF_instVars(Watcher) /\ WF_instVars(MainGoes) /\ WF_instVars(Downloads) /\ WF_instVars(Installs)

InstSpec == InstInit /\ [][InstNext]_instVars /\ InstFairness

-----------------------------------------------------------------------------
(* Properties.                                                             *)

AtRest(w) == threadAt[w] \in {"none", "ended"}

\* .installed is written and the update file removed only when each job's file was whole
\* once and Unzip was called for each, in order, or when the installer run with sudo says
\* so: a transfer that fails unnoticed because the user cancels, or a stage another thread
\* overwrote, never passes for an installation.  What Unzip achieved is another matter.
MarkedAfterEveryJob ==
  installed \/ updateFile # update =>
    \/ helped
    \/ /\ 1 .. jobCount \subseteq fetched
       /\ tried = [n \in 1 .. jobCount |-> n]

\* "We need access to downloaded files now": what a job unzips is there.  StartInstalling
\* has just deleted what was downloaded.
FilesAreThere == threadAt["install"] = "work" => job["install"] \in whole

\* cURL is shut down when the download thread is at rest, and the Installer is freed when
\* both are, though neither end of the loop waits for them: it trusts the stage.
NobodyLeft ==
  /\ ~curl => AtRest("download")
  /\ gtk = "over" => \A w \in Workers : AtRest(w)

\* While the request to cancel stands, at most one more job begins, of either thread: the
\* one its thread had decided to begin before it could see the request.
OneMoreJob == stage = "cancel_request" => begun <= 1

\* "Wait for the download or install thread to cancel us": a request to cancel is
\* followed by the end of the installer.
CancelEnds == stage = "cancel_request" ~> gtk \in {"over", "died"}
=============================================================================
