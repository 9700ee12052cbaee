-------------------------- MODULE PluginRegistry --------------------------
(***************************************************************************)
(* daemon/plugin_registry.py (class PluginRegistry) and the plugin routes  *)
(* of daemon/app.py, composed with WorkerManager: a request thread runs an *)
(* operation of the registry, which reads or writes files of the plugin's  *)
(* directory and calls the manager in between.  Every file access and      *)
(* every read of the manager's dictionaries is a step of its own, because  *)
(* no lock covers two of them.                                             *)
(*                                                                         *)
(* The C++ installer works on the same directories from another process:   *)
(* it moves a directory aside, moves a new one in or the old one back, and *)
(* writes the status file when the dependencies are resolved.  Nothing is  *)
(* stripped from an archive: the directory moved in may already have the   *)
(* marker and a status file.  A first rename that fails changes nothing.   *)
(***************************************************************************)
EXTENDS WorkerManager

CONSTANTS
  Routes,           \* Routes[t]: the registry operations thread t may serve
  MaxRouted,        \* bound: MaxRouted[t] HTTP requests are served by thread t
  MaxInstalls,      \* bound: how often the installer begins to rename
  InstallOutcomes,  \* how an install may end: subset of {"ok", "failed"}
  Archives          \* the status file and the marker that archives ship

RegistryOps == {"call", "start", "stop", "restart", "enable", "disable", "status"}

\* install_status.json: there is none or it is no JSON; it is an object whose
\* state is "failed" or another; it is JSON but no object.
InstallState == {"none", "failed", "ok", "no_object"}
Contents == [install : InstallState, disabled : BOOLEAN]
Nothingness == [install |-> "none", disabled |-> FALSE]

ASSUME RegistryAssumption ==
  /\ Routes \in [Threads -> SUBSET RegistryOps]
  /\ MaxRouted \in [Threads -> Nat]
  /\ MaxInstalls \in Nat
  /\ InstallOutcomes \subseteq {"ok", "failed"}
  /\ Archives \subseteq Contents
\* A restart makes two calls of the manager; its own bound never bites.
ASSUME ManagerServesAll ==
  \A t \in Threads :
    {"call", "start", "stop"} \subseteq Ops[t] /\ MaxRequests[t] >= 2 * MaxRouted[t]

PluginState == {"resolving", "ready", "starting", "running", "failed", "disabled"}
ASSUME NoneIsNoState == None \notin PluginState
Seen == [inst : InstallState, pid : Procs \cup {NoProc}, state : WorkerState]
Responses ==
  [code : {0, 200, 404, 409, 500, 502}, op : RegistryOps \cup {None},
   id : Plugins \cup {None}, state : PluginState \cup {None}, pid : Procs \cup {NoProc}]
NoSeen == [inst |-> "none", pid |-> NoProc, state |-> NOT_STARTED]
NoResponse == [code |-> 0, op |-> None, id |-> None, state |-> None, pid |-> NoProc]

VARIABLES
  present,    \* plugin -> <plugins_dir>/<id> is a directory
  install,    \* plugin -> its install_status.json
  disabled,   \* plugin -> the marker file exists
  installer,  \* plugin -> what the installer does next: "idle" | "swap" |
              \* "restore" | "resolve" | "write"
  aside,      \* plugin -> what a displaced directory contains that may move back
  moved,      \* history: plugin -> the installer has moved the directory in or
              \* back since disable() last touched the marker
  installs,   \* commits begun so far
  rpc,        \* thread -> next step of the registry operation
  rop,        \* thread -> registry operation in progress
  target,     \* thread -> plugin_id of the request
  seen,       \* thread -> what status() has read so far
  resp,       \* thread -> its last HTTP response
  served      \* thread -> requests served so far

installerVars == <<installer, aside, installs>>
diskVars == <<present, install, disabled, moved, installerVars>>
routeVars == <<rpc, rop, target, seen, resp, served>>
registryVars == <<diskVars, routeVars>>
allVars == <<vars, registryVars>>

-----------------------------------------------------------------------------
\* The daemon starts with whatever earlier installs left on disk.
RegistryInit ==
  /\ Init
  /\ present \in [Plugins -> BOOLEAN]
  /\ install \in [Plugins -> {"none"} \cup InstallOutcomes \cup {c.install : c \in Archives}]
  /\ disabled \in [Plugins -> BOOLEAN]
  /\ \A pl \in Plugins : ~present[pl] => install[pl] = "none" /\ ~disabled[pl]
  /\ installer = [pl \in Plugins |-> "idle"]
  /\ aside = [pl \in Plugins |-> Nothingness]
  /\ moved = [pl \in Plugins |-> FALSE]
  /\ installs = 0
  /\ rpc = [t \in Threads |-> "free"]
  /\ rop = [t \in Threads |-> None]
  /\ target = [t \in Threads |-> None]
  /\ seen = [t \in Threads |-> NoSeen]
  /\ resp = [t \in Threads |-> NoResponse]
  /\ served = [t \in Threads |-> 0]

RGoto(t, label) == rpc' = [rpc EXCEPT ![t] = label]

\* A response with no body that matters: 404, 409, 500, 502, a call's result.
Respond(t, code) ==
  /\ RGoto(t, "free")
  /\ resp' = [resp EXCEPT ![t] =
       [code |-> code, op |-> rop[t], id |-> target[t], state |-> None, pid |-> NoProc]]

Request(t, o, pl) ==
  /\ rpc[t] = "free"
  /\ served[t] < MaxRouted[t]
  /\ o \in Routes[t]
  /\ served' = [served EXCEPT ![t] = @ + 1]
  /\ rop' = [rop EXCEPT ![t] = o]
  /\ target' = [target EXCEPT ![t] = pl]
  /\ resp' = [resp EXCEPT ![t] = NoResponse]
  /\ RGoto(t, IF o \in {"call", "status"} THEN "st_dir" ELSE "dir")
  /\ UNCHANGED <<vars, diskVars, seen>>

-----------------------------------------------------------------------------
(* start, stop, restart, enable, disable.                                  *)

\* _plugin_dir.
FindDir(t) ==
  /\ rpc[t] = "dir"
  /\ \/ /\ ~present[target[t]]
        /\ Respond(t, 404)
     \/ /\ present[target[t]]
        /\ RGoto(t, IF rop[t] = "stop" THEN "stop" ELSE "marker")
        /\ UNCHANGED resp
  /\ UNCHANGED <<vars, diskVars, rop, target, seen, served>>

\* start() and restart() of a disabled plugin are refused.
UncheckedMarker(t) ==
  /\ rpc[t] = "marker"
  /\ rop[t] \in {"start", "restart"}
  /\ RGoto(t, IF rop[t] = "start" THEN "start" ELSE "stop")
  /\ UNCHANGED <<vars, diskVars, rop, target, seen, resp, served>>
CheckMarker(t) ==
  /\ rpc[t] = "marker"
  /\ rop[t] \in {"start", "restart"}
  /\ \/ /\ disabled[target[t]]
        /\ Respond(t, 409)
     \/ /\ ~disabled[target[t]]
        /\ RGoto(t, IF rop[t] = "start" THEN "start" ELSE "stop")
        /\ UNCHANGED resp
  /\ UNCHANGED <<vars, diskVars, rop, target, seen, served>>

\* unlink(missing_ok=True), then the status.
Enable(t) ==
  /\ rpc[t] = "marker"
  /\ rop[t] = "enable"
  /\ disabled' = [disabled EXCEPT ![target[t]] = FALSE]
  /\ RGoto(t, "st_dir")
  /\ UNCHANGED <<vars, present, install, moved, installerVars, rop, target, seen, resp, served>>

\* touch() raises if the directory has been moved away in the meantime;
\* otherwise the worker is stopped next.
Disable(t) ==
  /\ rpc[t] = "marker"
  /\ rop[t] = "disable"
  /\ \/ /\ present[target[t]]
        /\ disabled' = [disabled EXCEPT ![target[t]] = TRUE]
        /\ moved' = [moved EXCEPT ![target[t]] = FALSE]
        /\ RGoto(t, "stop")
        /\ UNCHANGED resp
     \/ /\ ~present[target[t]]
        /\ Respond(t, 500)
        /\ UNCHANGED <<disabled, moved>>
  /\ UNCHANGED <<vars, present, install, installerVars, rop, target, seen, served>>

-----------------------------------------------------------------------------
(* Calls of the manager.                                                   *)

InManager == {"in_call", "in_start", "in_stop"}
Inside(o) == CASE o = "call" -> "in_call" [] o = "start" -> "in_start" [] o = "stop" -> "in_stop"

Invoke(t, o) ==
  /\ rpc[t] = o
  /\ Begin(t, o, target[t])
  /\ RGoto(t, Inside(o))
  /\ UNCHANGED <<diskVars, rop, target, seen, resp, served>>

\* What follows worker_manager.stop(): restart() goes on to start().
StatusAfterStop(t) == "st_dir"
AfterManagerStop(t) == IF rop[t] = "restart" THEN "start" ELSE "st_dir"

\* WorkerFailedError is a 502 and any exception that is none of the expected
\* ones a 500; a call's result or plugin error is a 200, start() and stop() go
\* on to the status.
ManagerReturns(t) ==
  /\ rpc[t] \in InManager
  /\ pc[t] = "idle"
  /\ \/ /\ rpc[t] = "in_stop"
        /\ RGoto(t, AfterManagerStop(t))
        /\ UNCHANGED resp
     \/ /\ rpc[t] = "in_start"
        /\ ret[t].kind = "ok"
        /\ RGoto(t, "st_dir")
        /\ UNCHANGED resp
     \/ /\ rpc[t] = "in_call"
        /\ ret[t].kind \in {"ok", "fail"}
        /\ Respond(t, 200)
     \/ /\ rpc[t] # "in_stop"
        /\ ret[t].kind \in {"rejected", "crashed_twice"}
        /\ Respond(t, 502)
     \/ /\ rpc[t] # "in_stop"
        /\ ret[t].kind = "internal"
        /\ Respond(t, 500)
  /\ UNCHANGED <<vars, diskVars, rop, target, seen, served>>

-----------------------------------------------------------------------------
(* status(): five reads, none of them under a lock.                        *)

StatusDir(t) ==
  /\ rpc[t] = "st_dir"
  /\ \/ /\ ~present[target[t]]
        /\ Respond(t, 404)
     \/ /\ present[target[t]]
        /\ RGoto(t, "st_install")
        /\ UNCHANGED resp
  /\ UNCHANGED <<vars, diskVars, rop, target, seen, served>>

StatusInstall(t) ==
  /\ rpc[t] = "st_install"
  /\ seen' = [seen EXCEPT ![t].inst = install[target[t]]]
  /\ RGoto(t, "st_worker")
  /\ UNCHANGED <<vars, diskVars, rop, target, resp, served>>

\* WorkerManager.status: first _workers, then _states.
StatusWorker(t) ==
  /\ rpc[t] = "st_worker"
  /\ seen' = [seen EXCEPT ![t].pid = workers[target[t]]]
  /\ RGoto(t, "st_state")
  /\ UNCHANGED <<vars, diskVars, rop, target, resp, served>>

StatusState(t) ==
  /\ rpc[t] = "st_state"
  /\ seen' = [seen EXCEPT ![t].state = states[target[t]]]
  /\ RGoto(t, "st_marker")
  /\ UNCHANGED <<vars, diskVars, rop, target, resp, served>>

\* The state a worker state is reported as.
Translate(ws) ==
  CASE ws = NOT_STARTED -> "ready"
    [] ws = STARTING    -> "starting"
    [] ws = RUNNING     -> "running"
    [] ws = FAILED      -> "failed"

\* An install in flight or failed hides the marker, and the marker the worker.
Reported(s, marked) ==
  IF s.inst = "none" THEN "resolving"
  ELSE IF s.inst = "failed" THEN "failed"
  ELSE IF marked THEN "disabled" ELSE Translate(s.state)

\* The last read, of the marker.  A status file that is no object raises.  call()
\* is refused if the plugin is resolving or disabled; for everything else the
\* status is the response.
StatusMarker(t) ==
  LET state == Reported(seen[t], disabled[target[t]]) IN
  /\ rpc[t] = "st_marker"
  /\ seen' = [seen EXCEPT ![t] = NoSeen]
  /\ \/ /\ seen[t].inst = "no_object"
        /\ Respond(t, 500)
     \/ /\ seen[t].inst # "no_object"
        /\ rop[t] = "call"
        /\ state \in {"resolving", "disabled"}
        /\ Respond(t, 409)
     \/ /\ seen[t].inst # "no_object"
        /\ rop[t] = "call"
        /\ state \notin {"resolving", "disabled"}
        /\ RGoto(t, "call")
        /\ UNCHANGED resp
     \/ /\ seen[t].inst # "no_object"
        /\ rop[t] # "call"
        /\ RGoto(t, "free")
        /\ resp' = [resp EXCEPT ![t] =
             [code |-> 200, op |-> rop[t], id |-> target[t], state |-> state,
              pid |-> seen[t].pid]]
  /\ UNCHANGED <<vars, diskVars, rop, target, served>>

-----------------------------------------------------------------------------
(* The installer, in the DAZ Studio process.                               *)

InstallerGoto(pl, step) == installer' = [installer EXCEPT ![pl] = step]

\* What is under the plugin's id from now on.
Put(pl, there, c) ==
  /\ present' = [present EXCEPT ![pl] = there]
  /\ install' = [install EXCEPT ![pl] = c.install]
  /\ disabled' = [disabled EXCEPT ![pl] = c.disabled]

\* First rename of a reinstall: nothing is left under the plugin's id.
MoveAside(pl) ==
  /\ installer[pl] = "idle"
  /\ present[pl]
  /\ installs < MaxInstalls
  /\ installs' = installs + 1
  /\ aside' = [aside EXCEPT ![pl] = [install |-> install[pl], disabled |-> disabled[pl]]]
  /\ Put(pl, FALSE, Nothingness)
  /\ InstallerGoto(pl, "swap")
  /\ UNCHANGED <<vars, moved, routeVars>>

\* The staged directory moves in, after the first rename or under a fresh id.
MoveIn(pl) ==
  /\ \/ installer[pl] = "swap" /\ UNCHANGED installs
     \/ /\ installer[pl] = "idle"
        /\ ~present[pl]
        /\ installs < MaxInstalls
        /\ installs' = installs + 1
  /\ \E c \in Archives : Put(pl, TRUE, c)
  /\ moved' = [moved EXCEPT ![pl] = TRUE]
  /\ aside' = [aside EXCEPT ![pl] = Nothingness]
  /\ InstallerGoto(pl, "resolve")
  /\ UNCHANGED <<vars, routeVars>>

\* The second rename fails.
MoveInFails(pl) ==
  /\ installer[pl] = "swap"
  /\ InstallerGoto(pl, "restore")
  /\ UNCHANGED <<vars, present, install, disabled, moved, aside, installs, routeVars>>

\* Best effort: the displaced directory moves back with what it contains.
Restore(pl) ==
  /\ installer[pl] = "restore"
  /\ \/ /\ Put(pl, TRUE, aside[pl])
        /\ moved' = [moved EXCEPT ![pl] = TRUE]
     \/ UNCHANGED <<present, install, disabled, moved>>
  /\ aside' = [aside EXCEPT ![pl] = Nothingness]
  /\ InstallerGoto(pl, "idle")
  /\ UNCHANGED <<vars, installs, routeVars>>

\* writeStatusFile: the file is truncated when it is opened and has its text
\* when it is closed; if it cannot be opened it stays as it is.
OpenStatus(pl) ==
  /\ installer[pl] = "resolve"
  /\ \/ /\ install' = [install EXCEPT ![pl] = "none"]
        /\ InstallerGoto(pl, "write")
     \/ /\ InstallerGoto(pl, "idle")
        /\ UNCHANGED install
  /\ UNCHANGED <<vars, present, disabled, moved, aside, installs, routeVars>>

WriteStatus(pl, outcome) ==
  /\ installer[pl] = "write"
  /\ install' = [install EXCEPT ![pl] = outcome]
  /\ InstallerGoto(pl, "idle")
  /\ UNCHANGED <<vars, present, disabled, moved, aside, installs, routeVars>>

\* DAZ Studio ends in the middle: a displaced directory stays where it is, and
\* no later install looks for it.
StudioDies ==
  /\ \E pl \in Plugins : installer[pl] # "idle"
  /\ installer' = [pl \in Plugins |-> "idle"]
  /\ aside' = [pl \in Plugins |-> Nothingness]
  /\ UNCHANGED <<vars, present, install, disabled, moved, installs, routeVars>>

-----------------------------------------------------------------------------
RouteStep(t) ==
  \/ FindDir(t) \/ CheckMarker(t) \/ Enable(t) \/ Disable(t)
  \/ \E o \in {"call", "start", "stop"} : Invoke(t, o)
  \/ ManagerReturns(t)
  \/ StatusDir(t) \/ StatusInstall(t) \/ StatusWorker(t) \/ StatusState(t)
  \/ StatusMarker(t)

\* The manager's own steps; its operations begin only through Invoke.
ManagerStep ==
  /\ \/ \E t \in Threads : ThreadStep(t)
     \/ EvictorStep
     \/ \E p \in Procs : ProcessStep(p) \/ ReaderEnter(p) \/ ReadLine(p)
     \/ \E p \in Procs : Age(p) \/ Reclaim(p)
  /\ UNCHANGED registryVars

InstallerStep ==
  \/ \E pl \in Plugins :
       \/ MoveAside(pl) \/ MoveIn(pl) \/ MoveInFails(pl) \/ Restore(pl) \/ OpenStatus(pl)
       \/ \E outcome \in InstallOutcomes : WriteStatus(pl, outcome)
  \/ StudioDies

RegistryNext ==
  \/ \E t \in Threads, o \in RegistryOps, pl \in Plugins : Request(t, o, pl)
  \/ \E t \in Threads : RouteStep(t)
  \/ ManagerStep
  \/ InstallerStep

RegistrySpec == RegistryInit /\ [][RegistryNext]_allVars

\* A step of the daemon's own threads: requests, in the registry or in the manager,
\* eviction, readers.
DaemonStep ==
  \/ \E t \in Threads : RouteStep(t)
  \/ /\ UNCHANGED registryVars
     /\ \/ \E t \in Threads : ThreadStep(t)
        \/ EvictorStep
        \/ \E p \in Procs : ReaderEnter(p) \/ ReadLine(p)

\* While one of them can run, one does; installer and plugin processes may stop.
RegistryFairness == WF_allVars(DaemonStep)

RegistryFairSpec == RegistrySpec /\ RegistryFairness
-----------------------------------------------------------------------------
(* Properties.                                                             *)

RouteLabels == {"free", "dir", "marker", "call", "start", "stop", "st_dir",
                "st_install", "st_worker", "st_state", "st_marker"} \cup InManager

\* The registry's files and the locals of its operations have their types.
RegistryTypeOK ==
  /\ present \in [Plugins -> BOOLEAN]
  /\ install \in [Plugins -> InstallState]
  /\ disabled \in [Plugins -> BOOLEAN]
  /\ moved \in [Plugins -> BOOLEAN]
  /\ installer \in [Plugins -> {"idle", "swap", "restore", "resolve", "write"}]
  /\ aside \in [Plugins -> Contents]
  /\ installs \in 0..MaxInstalls
  /\ rpc \in [Threads -> RouteLabels]
  /\ rop \in [Threads -> RegistryOps \cup {None}]
  /\ target \in [Threads -> Plugins \cup {None}]
  /\ seen \in [Threads -> Seen]
  /\ resp \in [Threads -> Responses]
  /\ served \in [Threads -> Nat]

Quiet == (\A t \in Threads : rpc[t] = "free") /\ pc[Evictor] = "idle"

\* disable() leaves no worker behind, and none comes back while its marker is
\* there: once all requests are answered a plugin has no worker if its marker is
\* one that disable() has touched, or the daemon found at its start, and no
\* rename of the installer has brought in since.
DisabledHasNoWorker ==
  Quiet => \A pl \in Plugins : disabled[pl] /\ ~moved[pl] => workers[pl] = NoProc

\* What a response said of the worker is so when the request is over: a running
\* plugin has the worker whose pid was reported, a ready one has none, nor has a
\* disabled one unless the installer moved the marker in beside a worker, a
\* started one runs, a stopped one does not, and 502 means FAILED.
AnswerAgrees ==
  Quiet => \A t \in Threads :
    LET r == resp[t] IN
    /\ r.state = "running" => states[r.id] = RUNNING
    /\ r.state = "ready" => workers[r.id] = NoProc
    /\ r.state = "disabled" => workers[r.id] = NoProc \/ moved[r.id]
    /\ r.state # None => r.pid = workers[r.id]
    /\ r.op \in {"start", "restart"} /\ r.code = 200 =>
         states[r.id] = RUNNING /\ workers[r.id] # NoProc
    /\ r.op \in {"stop", "disable"} /\ r.code = 200 =>
         states[r.id] = NOT_STARTED /\ workers[r.id] = NoProc
    /\ r.code = 502 => states[r.id] = FAILED

\* Every HTTP request gets its response, unless the bound on processes stops it.
RequestsAnswered ==
  \A t \in Threads : rpc[t] # "free" ~> rpc[t] = "free" \/ OutOfSlots(t)
=============================================================================
