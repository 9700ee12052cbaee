--------------------------- MODULE PluginInstall ---------------------------
(***************************************************************************)
(* The install of one plugin id: PluginInstaller, ZipInstaller::commit and *)
(* ::install, and PluginDependencyInstaller, in the DAZ Studio process,    *)
(* against the daemon, which starts and stops the plugin's worker in       *)
(* between.  Installs of different ids touch different directories.        *)
(*                                                                         *)
(* Every file operation is a step of its own: the daemon looks at the same *)
(* directories, and DAZ Studio may die between any two of them.  Removing  *)
(* a staging directory, which nothing else opens, is taken to succeed; the *)
(* removal of a displaced install is not.  One PluginInstaller runs one    *)
(* install at a time, as its header asks of its callers.                   *)
(***************************************************************************)
EXTENDS Naturals, Sequences, SequencesExt

CONSTANTS
  Versions,      \* contents of archives
  Requirements,  \* versions that ship a requirements.txt
  ShipsVenv,     \* versions whose archive contains a venv/
  ShippedStatus, \* version -> the install_status.json in its archive
  None,          \* no directory, no version, no worker
  Entries,       \* subset of {"plugin", "zip"}: PluginInstaller::install,
                 \* ZipInstaller::install
  FileLocks,     \* a directory in use by a worker cannot be renamed (Windows)
  UvStarts,      \* whether starting a uv process may fail: subset of BOOLEAN
  StatusOpens,   \* whether opening the status file may fail: subset of BOOLEAN
  MaxInstalls,   \* bound: installs
  MaxCrashes     \* bound: deaths of the DAZ Studio process

ASSUME InstallAssumption ==
  /\ Requirements \subseteq Versions
  /\ ShipsVenv \subseteq Versions
  /\ ShippedStatus \in [Versions -> {"none", "ok", "failed"}]
  /\ None \notin Versions
  /\ Entries \subseteq {"plugin", "zip"}
  /\ FileLocks \in BOOLEAN
  /\ UvStarts \subseteq BOOLEAN
  /\ StatusOpens \subseteq BOOLEAN
  /\ MaxInstalls \in Nat
  /\ MaxCrashes \in Nat

\* A plugin directory: the version, whether it has a venv (<id>/venv) and uv has
\* installed the requirements there, install_status.json, and, as history,
\* whether writeStatusFile has written that file.
Dirs == [ver : Versions, venv : BOOLEAN, deps : BOOLEAN,
         status : {"none", "ok", "failed"}, recorded : BOOLEAN]
NoDir == [ver |-> None, venv |-> FALSE, deps |-> FALSE, status |-> "none", recorded |-> FALSE]
\* Whatever the archive contains is kept, a status file and a venv included.
Extract(v) ==
  [ver |-> v, venv |-> v \in ShipsVenv, deps |-> FALSE,
   status |-> ShippedStatus[v], recorded |-> FALSE]

VARIABLES
  final,      \* <pluginsDir>/<id>
  displaced,  \* the <id>.old-<uuid> directories, oldest first; NoDir: partly removed
  staging,    \* how many directories are under .staging
  stage,      \* what the install in progress does next
  entry,      \* which entry point it came through
  staged,     \* m_staged: its version
  stopReq,    \* the POST /stop: "none" | "sent" | "answered"
  result,     \* finished(): "none" | "ok" | "failed"
  worker,     \* version of the code the plugin's worker runs, or None
  installs,
  crashes

dirVars == <<final, displaced, staging>>
flowVars == <<stage, entry, staged, result>>
vars == <<dirVars, flowVars, stopReq, worker, installs, crashes>>

Init ==
  /\ final = NoDir
  /\ displaced = <<>>
  /\ staging = 0
  /\ stage = "idle"
  /\ entry = "plugin"
  /\ staged = None
  /\ stopReq = "none"
  /\ result = "none"
  /\ worker = None
  /\ installs = 0
  /\ crashes = 0

Present == final # NoDir

Continue(s) == stage' = s /\ UNCHANGED <<entry, staged, result>>
\* The one finished() signal of this install.
Finish(r) ==
  /\ stage' = "idle"
  /\ result' = r
  /\ staged' = None
  /\ UNCHANGED entry

-----------------------------------------------------------------------------
(* extractToStaging, and the decision of install().                        *)

Install(v, e) ==
  /\ stage = "idle"
  /\ e \in Entries
  /\ installs < MaxInstalls
  /\ installs' = installs + 1
  /\ stage' = "extracting"
  /\ entry' = e
  /\ staged' = v
  /\ result' = "none"
  /\ staging' = staging + 1
  /\ UNCHANGED <<final, displaced, stopReq, worker, crashes>>

\* A rejected archive or a failed write: the staging directory is removed.
ExtractionFails ==
  /\ stage = "extracting"
  /\ staging' = staging - 1
  /\ Finish("failed")
  /\ UNCHANGED <<final, displaced, stopReq, worker, installs, crashes>>

\* PluginInstaller: a fresh id is committed at once; an existing one has its
\* worker stopped first.  ZipInstaller::install refuses an existing id.
Extracted ==
  /\ stage = "extracting"
  /\ \/ /\ ~Present
        /\ Continue("commit")
        /\ UNCHANGED <<staging, stopReq>>
     \/ /\ Present /\ entry = "plugin"
        /\ stopReq' = "sent"
        /\ Continue("stopping")
        /\ UNCHANGED staging
     \/ /\ Present /\ entry = "zip"
        /\ staging' = staging - 1
        /\ Finish("failed")
        /\ UNCHANGED stopReq
  /\ UNCHANGED <<final, displaced, worker, installs, crashes>>

\* onStopReplyFinished: an error is as good as an answer.
StopReplyFinished ==
  /\ stage = "stopping"
  /\ stopReq' = "none"
  /\ Continue("commit")
  /\ UNCHANGED <<dirVars, worker, installs, crashes>>

-----------------------------------------------------------------------------
(* ZipInstaller::commit.                                                   *)

\* PluginInstaller removes the staging directory when commit() has failed;
\* ZipInstaller::install does not.
DropStaging == staging' = IF entry = "plugin" THEN staging - 1 ELSE staging

\* What follows a successful second rename.
NextAfterSwap == IF entry = "plugin" THEN "start_venv" ELSE "done"

\* First rename, of an existing install.  It fails if a worker holds a lock.
DeleteFirst ==
  /\ stage = "commit"
  /\ Present
  /\ final' = NoDir
  /\ Continue("swap")
  /\ UNCHANGED <<displaced, staging, stopReq, worker, installs, crashes>>
CopyOver ==
  /\ stage = "commit"
  /\ Present
  /\ final' = Extract(staged)
  /\ staging' = staging - 1
  /\ Continue(NextAfterSwap)
  /\ UNCHANGED <<displaced, stopReq, worker, installs, crashes>>
MoveAside ==
  /\ stage = "commit"
  /\ Present
  /\ \/ /\ ~(FileLocks /\ worker # None)
        /\ displaced' = Append(displaced, final)
        /\ final' = NoDir
        /\ Continue("swap")
        /\ UNCHANGED staging
     \/ /\ DropStaging
        /\ Finish("failed")
        /\ UNCHANGED <<final, displaced>>
  /\ UNCHANGED <<stopReq, worker, installs, crashes>>

\* Second rename.
MoveIn ==
  /\ \/ stage = "swap"
     \/ stage = "commit" /\ ~Present
  /\ \/ /\ final' = Extract(staged)
        /\ staging' = staging - 1
        /\ Continue(IF stage = "swap" THEN "discard" ELSE NextAfterSwap)
     \/ /\ stage = "swap"
        /\ Continue("restore")
        /\ UNCHANGED <<final, staging>>
     \/ /\ stage = "commit"
        /\ DropStaging
        /\ Finish("failed")
        /\ UNCHANGED final
  /\ UNCHANGED <<displaced, stopReq, worker, installs, crashes>>

\* Best effort: the previous install goes back, or stays where it is.
Restore ==
  /\ stage = "restore"
  /\ \/ /\ final' = Last(displaced)
        /\ displaced' = Front(displaced)
     \/ UNCHANGED <<final, displaced>>
  /\ DropStaging
  /\ Finish("failed")
  /\ UNCHANGED <<stopReq, worker, installs, crashes>>

\* The displaced directory is removed, or part of it is left.
RemoveDisplaced ==
  /\ stage = "discard"
  /\ displaced' \in {Front(displaced), Append(Front(displaced), NoDir)}
  /\ Continue(NextAfterSwap)
  /\ UNCHANGED <<final, staging, stopReq, worker, installs, crashes>>

\* ZipInstaller::install returns without dependency resolution.
InstallReturns ==
  /\ stage = "done"
  /\ Finish("ok")
  /\ UNCHANGED <<dirVars, stopReq, worker, installs, crashes>>

-----------------------------------------------------------------------------
(* PluginDependencyInstaller.                                              *)

\* QProcess::start.  A process that cannot be started reports error(), which
\* nothing is connected to; finished() never comes.
StartProcess(running) ==
  \E started \in UvStarts : Continue(IF started THEN running ELSE "hung")

CreateVenv ==
  /\ stage = "start_venv"
  /\ StartProcess("venv")
  /\ UNCHANGED <<dirVars, stopReq, worker, installs, crashes>>

\* writeStatusFile, which overwrites a status the archive came with, then
\* finished(), whether or not the file could be opened.  Writing is one step
\* here: what the daemon reads of a file cut short is in PluginRegistry.
Conclude(dir, state) ==
  /\ \E opens \in StatusOpens :
       final' = IF opens THEN [dir EXCEPT !.status = state, !.recorded = TRUE] ELSE dir
  /\ Finish(state)

\* fail(): the failure is recorded and reported.
FailSilently(dir) == Continue("hung") /\ final' = dir
FailUnrecorded(dir) == Finish("failed") /\ final' = dir
Fail(dir) == Conclude(dir, "failed")

\* uv clears the venv first; if it fails it may have put an interpreter in place
\* before it did, or left the one it found.
CreateVenvFinished ==
  /\ stage = "venv"
  /\ \/ \E made \in BOOLEAN : Fail([final EXCEPT !.venv = made])
     \/ /\ final.ver \in Requirements
        /\ final' = [final EXCEPT !.venv = TRUE]
        /\ Continue("start_deps")
     \/ /\ final.ver \notin Requirements
        /\ Conclude([final EXCEPT !.venv = TRUE, !.deps = TRUE], "ok")
  /\ UNCHANGED <<displaced, staging, stopReq, worker, installs, crashes>>

InstallDeps ==
  /\ stage = "start_deps"
  /\ StartProcess("deps")
  /\ UNCHANGED <<dirVars, stopReq, worker, installs, crashes>>

\* pip install ended without or with an error.
IgnoresExitCode == Conclude([final EXCEPT !.deps = TRUE], "ok") \/ Conclude(final, "ok")
DepsOutcome == Conclude([final EXCEPT !.deps = TRUE], "ok") \/ Fail(final)

InstallDepsFinished ==
  /\ stage = "deps"
  /\ DepsOutcome
  /\ UNCHANGED <<displaced, staging, stopReq, worker, installs, crashes>>

-----------------------------------------------------------------------------
(* The daemon, and the death of DAZ Studio.                                *)

\* POST /plugins/{id}/stop.
DaemonStops ==
  /\ stopReq = "sent"
  /\ stopReq' = "answered"
  /\ worker' = None
  /\ UNCHANGED <<dirVars, flowVars, installs, crashes>>

\* A start route, or a call of a plugin that has a status: both need the
\* directory and the interpreter of its venv.
DaemonStarts ==
  /\ Present /\ final.venv
  /\ worker = None
  /\ worker' = final.ver
  /\ UNCHANGED <<dirVars, flowVars, stopReq, installs, crashes>>

\* The worker is evicted, stopped from the pane, or dies.
WorkerEnds ==
  /\ worker # None
  /\ worker' = None
  /\ UNCHANGED <<dirVars, flowVars, stopReq, installs, crashes>>

\* Directories stay as they are; nothing looks for them at the next start.
Crash ==
  /\ stage # "idle"
  /\ crashes < MaxCrashes
  /\ crashes' = crashes + 1
  /\ stage' = "idle"
  /\ staged' = None
  /\ result' = "none"
  /\ stopReq' = "none"
  /\ UNCHANGED <<dirVars, entry, worker, installs>>

-----------------------------------------------------------------------------
InstallerStep ==
  \/ ExtractionFails \/ Extracted \/ StopReplyFinished
  \/ MoveAside \/ MoveIn \/ Restore \/ RemoveDisplaced \/ InstallReturns
  \/ CreateVenv \/ CreateVenvFinished \/ InstallDeps \/ InstallDepsFinished

Next ==
  \/ \E v \in Versions, e \in {"plugin", "zip"} : Install(v, e)
  \/ InstallerStep
  \/ DaemonStops \/ DaemonStarts \/ WorkerEnds
  \/ Crash

Spec == Init /\ [][Next]_vars

\* The event loop runs its slots, requests to the daemon end, uv ends.
FairSpec == Spec /\ WF_vars(InstallerStep)
-----------------------------------------------------------------------------
(* Properties.                                                             *)

Stages == {"idle", "extracting", "stopping", "commit", "swap", "restore", "discard",
           "start_venv", "venv", "start_deps", "deps", "hung", "done"}

\* Directories and the installer's members have their types; the staging
\* directories are never miscounted.
InstallTypeOK ==
  /\ final \in Dirs \cup {NoDir}
  /\ displaced \in Seq(Dirs \cup {NoDir})
  /\ staging \in Nat
  /\ stage \in Stages
  /\ entry \in {"plugin", "zip"}
  /\ staged \in Versions \cup {None}
  /\ stopReq \in {"none", "sent", "answered"}
  /\ result \in {"none", "ok", "failed"}
  /\ worker \in Versions \cup {None}
  /\ installs \in Nat
  /\ crashes \in Nat

\* The version a person finds under the id, or else in its newest .old-<uuid>
\* directory; and the one that may take its place.
Recoverable ==
  IF Present THEN final.ver
  ELSE IF displaced # <<>> THEN Last(displaced).ver ELSE None
Offered == IF stage \in {"extracting", "stopping", "commit", "swap"} THEN staged ELSE None

Slot == INSTANCE PluginSlot WITH installed <- Recoverable, offered <- Offered

\* Whatever fails, and wherever DAZ Studio dies, the recoverable version is only
\* ever replaced by the one being installed, and never lost.
SlotImplemented == Slot!SlotSpec

\* finished() has reported success, and no further install has begun.
ReportedOk == stage = "idle" /\ result = "ok" /\ entry = "plugin"

\* A status of "ok" is in the directory only if the venv is complete, or the
\* archive came with that status and writeStatusFile has not written since; and
\* success is reported only with a complete venv, whichever installs and deaths
\* came before and whatever the archive brought along.
ReadyMeansComplete ==
  /\ Present /\ final.status = "ok" =>
       \/ final.venv /\ final.deps
       \/ ~final.recorded /\ ShippedStatus[final.ver] = "ok"
  /\ ReportedOk => Present /\ final.venv /\ final.deps

\* Where files in use cannot be moved, a worker runs the version that is
\* installed, although a start can come at any moment of a reinstall.
WorkerRunsInstalled ==
  FileLocks /\ worker # None => Present /\ worker = final.ver

\* An install that is over has written how it ended into the plugin directory,
\* and left no staging directory but those of installs that DAZ Studio died in.
NothingLeftBehind ==
  stage = "idle" => /\ Present => final.recorded
                    /\ staging <= crashes

\* Every install() ends.
InstallFinishes == stage # "idle" ~> stage = "idle"
=============================================================================
