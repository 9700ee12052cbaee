----------------------- MODULE PluginRegistryProofs -----------------------
(***************************************************************************)
(* The registry uses the manager only through its operations: every        *)
(* behaviour of the composition is one of WorkerManager, so what is proved *)
(* of the manager holds of the daemon.                                     *)
(***************************************************************************)
EXTENDS PluginRegistry, WorkerManagerProofs

\* The plugin and the operation a request is about are known until it is over.
Routed ==
  \A t \in Threads : rpc[t] # "free" => target[t] \in Plugins /\ rop[t] \in RegistryOps

RInv == RegistryTypeOK /\ Routed /\ TInv

\* A step of the composition is a step of the manager or leaves it alone.
LEMMA StepOfManager ==
  ASSUME Routed, [RegistryNext]_allVars
  PROVE  [Next]_vars
<1>1. CASE ManagerStep
  BY <1>1 DEF ManagerStep, Next
<1>2. ASSUME NEW t \in Threads, NEW o \in {"call", "start", "stop"}, Invoke(t, o)
      PROVE  Next
  <2>1. target[t] \in Plugins /\ o \in OpNames
    BY <1>2 DEF Invoke, Routed, OpNames
  <2> QED
    BY <1>2, <2>1 DEF Invoke, Next
<1>3. CASE UNCHANGED vars
  BY <1>3
<1> QED
  BY <1>1, <1>2, <1>3
  DEF RegistryNext, allVars, RouteStep, InstallerStep, Request, FindDir, CheckMarker,
      Enable, Disable, ManagerReturns, StatusDir, StatusInstall, StatusWorker,
      StatusState, StatusMarker, MoveAside, MoveIn, MoveInFails, Restore, OpenStatus,
      WriteStatus, StudioDies

\* What a request has read, and what it answers, are of their types.
LEMMA RecordTypes ==
  /\ NoSeen \in Seen
  /\ NoResponse \in Responses
  /\ \A c \in {404, 409, 500, 502, 200}, o \in RegistryOps, pl \in Plugins,
        s \in PluginState \cup {None}, p \in Procs \cup {NoProc} :
       [code |-> c, op |-> o, id |-> pl, state |-> s, pid |-> p] \in Responses
  /\ \A s \in Seen, b \in BOOLEAN : Reported(s, b) \in PluginState
  /\ Nothingness \in Contents
<1>1. NoSeen \in Seen
  BY DEF NoSeen, Seen, InstallState, WorkerState, NOT_STARTED
<1>2. NoResponse \in Responses
  BY DEF NoResponse, Responses
<1>3. \A s \in Seen, b \in BOOLEAN : Reported(s, b) \in PluginState
  BY DEF Seen, Reported, Translate, PluginState, WorkerState, NOT_STARTED, STARTING,
         RUNNING, FAILED
<1>4. Nothingness \in Contents
  BY DEF Nothingness, Contents, InstallState
<1> QED
  BY <1>1, <1>2, <1>3, <1>4 DEF Responses

LEMMA RegistryInitRInv == RegistryInit => RInv
<1> SUFFICES ASSUME RegistryInit PROVE RInv
  OBVIOUS
<1>1. TInv
  BY InitTInv DEF RegistryInit
<1>2. RegistryTypeOK
  <2>1. present \in [Plugins -> BOOLEAN] /\ disabled \in [Plugins -> BOOLEAN]
    BY DEF RegistryInit
  <2>2. install \in [Plugins -> InstallState]
    <3>1. {"none"} \cup InstallOutcomes \cup {c.install : c \in Archives} \subseteq InstallState
      BY RegistryAssumption DEF Contents, InstallState
    <3> QED
      BY <3>1 DEF RegistryInit
  <2>3. installs \in 0..MaxInstalls
    BY RegistryAssumption DEF RegistryInit
  <2>4. rpc \in [Threads -> RouteLabels] /\ rop \in [Threads -> RegistryOps \cup {None}]
    BY DEF RegistryInit, RouteLabels
  <2>5. target \in [Threads -> Plugins \cup {None}] /\ served \in [Threads -> Nat]
    BY DEF RegistryInit
  <2>6. seen \in [Threads -> Seen] /\ resp \in [Threads -> Responses]
    BY RecordTypes DEF RegistryInit
  <2>7. /\ moved \in [Plugins -> BOOLEAN]
        /\ installer \in [Plugins -> {"idle", "swap", "restore", "resolve", "write"}]
        /\ aside \in [Plugins -> Contents]
    BY RecordTypes DEF RegistryInit
  <2> QED
    BY <2>1, <2>2, <2>3, <2>4, <2>5, <2>6, <2>7 DEF RegistryTypeOK
<1>3. Routed
  BY DEF RegistryInit, Routed
<1> QED
  BY <1>1, <1>2, <1>3 DEF RInv
\* The registry's files and locals keep their types if a request only moves on.
LEMMA RouteFrame ==
  ASSUME RInv, NEW t \in Threads, rpc[t] # "free",
         NEW l \in RouteLabels, rpc' = [rpc EXCEPT ![t] = l],
         resp' \in [Threads -> Responses], seen' \in [Threads -> Seen],
         UNCHANGED <<present, install, installer, aside, installs, rop, target, served>>,
         disabled' \in [Plugins -> BOOLEAN], moved' \in [Plugins -> BOOLEAN]
  PROVE  RegistryTypeOK' /\ Routed'
  BY DEF RInv, RegistryTypeOK, Routed

\* A response ends the request and is of its type.
LEMMA RespondType ==
  ASSUME RInv, NEW t \in Threads, rpc[t] # "free",
         NEW c \in {200, 404, 409, 500, 502}, Respond(t, c)
  PROVE  /\ rpc' = [rpc EXCEPT ![t] = "free"]
         /\ resp' \in [Threads -> Responses]
<1>1. [code |-> c, op |-> rop[t], id |-> target[t], state |-> None, pid |-> NoProc]
        \in Responses
  BY DEF RInv, Routed, Responses
<1> QED
  BY <1>1 DEF Respond, RGoto, RInv, RegistryTypeOK

\* A directory that is put under an id keeps the files' types.
LEMMA PutTypes ==
  ASSUME RInv, NEW pl \in Plugins, NEW b \in BOOLEAN, NEW c \in Contents, Put(pl, b, c)
  PROVE  /\ present' \in [Plugins -> BOOLEAN]
         /\ install' \in [Plugins -> InstallState]
         /\ disabled' \in [Plugins -> BOOLEAN]
  BY DEF Put, Contents, RInv, RegistryTypeOK

\* So does every step of the installer.
LEMMA InstallerTypes ==
  ASSUME RInv, InstallerStep
  PROVE  /\ present' \in [Plugins -> BOOLEAN] /\ disabled' \in [Plugins -> BOOLEAN]
         /\ install' \in [Plugins -> InstallState] /\ moved' \in [Plugins -> BOOLEAN]
         /\ installer' \in [Plugins -> {"idle", "swap", "restore", "resolve", "write"}]
         /\ aside' \in [Plugins -> Contents] /\ installs' \in 0..MaxInstalls
<1> DEFINE Types ==
      /\ present' \in [Plugins -> BOOLEAN] /\ disabled' \in [Plugins -> BOOLEAN]
      /\ install' \in [Plugins -> InstallState] /\ moved' \in [Plugins -> BOOLEAN]
      /\ installer' \in [Plugins -> {"idle", "swap", "restore", "resolve", "write"}]
      /\ aside' \in [Plugins -> Contents] /\ installs' \in 0..MaxInstalls
<1>1. ASSUME NEW pl \in Plugins, MoveAside(pl) PROVE Types
  <2>1. [install |-> install[pl], disabled |-> disabled[pl]] \in Contents
    BY DEF Contents, RInv, RegistryTypeOK
  <2>2. Put(pl, FALSE, Nothingness) /\ Nothingness \in Contents
    BY <1>1, RecordTypes DEF MoveAside
  <2>3. /\ present' \in [Plugins -> BOOLEAN] /\ disabled' \in [Plugins -> BOOLEAN]
        /\ install' \in [Plugins -> InstallState]
    BY <2>2, PutTypes
  <2>4. installs' \in 0..MaxInstalls
    BY <1>1, RegistryAssumption DEF MoveAside, RInv, RegistryTypeOK
  <2> QED
    BY <1>1, <2>1, <2>3, <2>4 DEF MoveAside, InstallerGoto, RInv, RegistryTypeOK
<1>2. ASSUME NEW pl \in Plugins, MoveIn(pl) PROVE Types
  <2>1. PICK c \in Contents : Put(pl, TRUE, c)
    BY <1>2, RegistryAssumption DEF MoveIn
  <2>2. /\ present' \in [Plugins -> BOOLEAN] /\ disabled' \in [Plugins -> BOOLEAN]
        /\ install' \in [Plugins -> InstallState]
    BY <2>1, PutTypes
  <2>3. installs' \in 0..MaxInstalls
    BY <1>2, RegistryAssumption DEF MoveIn, RInv, RegistryTypeOK
  <2>4. Nothingness \in Contents
    BY RecordTypes
  <2> QED
    BY <1>2, <2>2, <2>3, <2>4 DEF MoveIn, InstallerGoto, RInv, RegistryTypeOK
<1>3. ASSUME NEW pl \in Plugins, Restore(pl) PROVE Types
  <2>1. aside[pl] \in Contents
    BY DEF RInv, RegistryTypeOK
  <2>2. /\ present' \in [Plugins -> BOOLEAN] /\ disabled' \in [Plugins -> BOOLEAN]
        /\ install' \in [Plugins -> InstallState] /\ moved' \in [Plugins -> BOOLEAN]
    <3>1. CASE Put(pl, TRUE, aside[pl])
      BY <1>3, <2>1, <3>1, PutTypes DEF Restore, RInv, RegistryTypeOK
    <3>2. CASE UNCHANGED <<present, install, disabled, moved>>
      BY <3>2 DEF RInv, RegistryTypeOK
    <3> QED
      BY <1>3, <3>1, <3>2 DEF Restore
  <2>3. Nothingness \in Contents
    BY RecordTypes
  <2> QED
    BY <1>3, <2>2, <2>3 DEF Restore, InstallerGoto, RInv, RegistryTypeOK
<1>4. ASSUME NEW pl \in Plugins, MoveInFails(pl) PROVE Types
  BY <1>4 DEF MoveInFails, InstallerGoto, RInv, RegistryTypeOK
<1>5. ASSUME NEW pl \in Plugins, OpenStatus(pl) PROVE Types
  BY <1>5 DEF OpenStatus, InstallState, InstallerGoto, RInv, RegistryTypeOK
<1>6. ASSUME NEW pl \in Plugins, NEW outcome \in InstallOutcomes, WriteStatus(pl, outcome) PROVE Types
  BY <1>6, RegistryAssumption DEF WriteStatus, InstallState, InstallerGoto, RInv, RegistryTypeOK
<1>7. CASE StudioDies
  BY <1>7, RecordTypes DEF StudioDies, RInv, RegistryTypeOK
<1> QED
  BY <1>1, <1>2, <1>3, <1>4, <1>5, <1>6, <1>7 DEF InstallerStep

\* The registry's files and locals keep their types, action by action.
LEMMA RegistryStep ==
  ASSUME RInv, [RegistryNext]_allVars
  PROVE  RegistryTypeOK' /\ Routed'
<1>1. ASSUME NEW t \in Threads, NEW o \in RegistryOps, NEW pl \in Plugins, Request(t, o, pl)
      PROVE  RegistryTypeOK' /\ Routed'
  BY <1>1, RecordTypes, RegistryAssumption
  DEF Request, RGoto, diskVars, installerVars, RInv, RegistryTypeOK, Routed, RouteLabels, InManager
<1>2. ASSUME NEW t \in Threads, FindDir(t)
      PROVE  RegistryTypeOK' /\ Routed'
  <2>1. rpc[t] # "free"
    BY <1>2 DEF FindDir
  <2>2. \E l \in RouteLabels : rpc' = [rpc EXCEPT ![t] = l]
    BY <1>2 DEF FindDir, Respond, RGoto, RouteLabels
  <2>3. resp' \in [Threads -> Responses]
    BY <1>2, <2>1, RespondType, RecordTypes DEF FindDir, RInv, RegistryTypeOK
  <2>4. seen' \in [Threads -> Seen]
    BY <1>2, RecordTypes DEF FindDir, RInv, RegistryTypeOK
  <2> QED
    BY <1>2, <2>1, <2>2, <2>3, <2>4, RouteFrame DEF FindDir, diskVars, installerVars, RInv, RegistryTypeOK
<1>3. ASSUME NEW t \in Threads, CheckMarker(t)
      PROVE  RegistryTypeOK' /\ Routed'
  <2>1. rpc[t] # "free"
    BY <1>3 DEF CheckMarker
  <2>2. \E l \in RouteLabels : rpc' = [rpc EXCEPT ![t] = l]
    BY <1>3 DEF CheckMarker, Respond, RGoto, RouteLabels
  <2>3. resp' \in [Threads -> Responses]
    BY <1>3, <2>1, RespondType, RecordTypes DEF CheckMarker, RInv, RegistryTypeOK
  <2>4. seen' \in [Threads -> Seen]
    BY <1>3, RecordTypes DEF CheckMarker, RInv, RegistryTypeOK
  <2> QED
    BY <1>3, <2>1, <2>2, <2>3, <2>4, RouteFrame DEF CheckMarker, diskVars, installerVars, RInv, RegistryTypeOK
<1>4. ASSUME NEW t \in Threads, Enable(t)
      PROVE  RegistryTypeOK' /\ Routed'
  BY <1>4, RecordTypes, RegistryAssumption
  DEF Enable, RGoto, installerVars, RInv, RegistryTypeOK, Routed, RouteLabels, InManager
<1>5. ASSUME NEW t \in Threads, Disable(t)
      PROVE  RegistryTypeOK' /\ Routed'
  <2>1. rpc[t] # "free"
    BY <1>5 DEF Disable
  <2>2. \E l \in RouteLabels : rpc' = [rpc EXCEPT ![t] = l]
    BY <1>5 DEF Disable, Respond, RGoto, RouteLabels
  <2>3. resp' \in [Threads -> Responses]
    BY <1>5, <2>1, RespondType, RecordTypes DEF Disable, RInv, RegistryTypeOK
  <2>4. seen' \in [Threads -> Seen]
    BY <1>5, RecordTypes DEF Disable, RInv, RegistryTypeOK
  <2>5. disabled' \in [Plugins -> BOOLEAN] /\ moved' \in [Plugins -> BOOLEAN]
    <3>1. \/ UNCHANGED <<disabled, moved>>
          \/ /\ disabled' = [disabled EXCEPT ![target[t]] = TRUE]
             /\ moved' = [moved EXCEPT ![target[t]] = FALSE]
      BY <1>5 DEF Disable
    <3>2. disabled \in [Plugins -> BOOLEAN] /\ moved \in [Plugins -> BOOLEAN]
      BY DEF RInv, RegistryTypeOK
    <3> QED
      BY <3>1, <3>2
  <2>6. UNCHANGED <<present, install, installer, aside, installs, rop, target, served>>
    BY <1>5 DEF Disable, installerVars
  <2> QED
    BY <2>1, <2>2, <2>3, <2>4, <2>5, <2>6, RouteFrame
<1>6. ASSUME NEW t \in Threads, NEW o \in {"call", "start", "stop"}, Invoke(t, o)
      PROVE  RegistryTypeOK' /\ Routed'
  BY <1>6, RecordTypes, RegistryAssumption
  DEF Invoke, Inside, RGoto, diskVars, installerVars, RInv, RegistryTypeOK, Routed, RouteLabels, InManager
<1>7. ASSUME NEW t \in Threads, ManagerReturns(t)
      PROVE  RegistryTypeOK' /\ Routed'
  <2>1. rpc[t] # "free"
    BY <1>7 DEF ManagerReturns, InManager
  <2>2. \E l \in RouteLabels : rpc' = [rpc EXCEPT ![t] = l]
    BY <1>7 DEF ManagerReturns, Respond, AfterManagerStop, RGoto, RouteLabels
  <2>3. resp' \in [Threads -> Responses]
    BY <1>7, <2>1, RespondType, RecordTypes DEF ManagerReturns, RInv, RegistryTypeOK
  <2>4. seen' \in [Threads -> Seen]
    BY <1>7, RecordTypes DEF ManagerReturns, RInv, RegistryTypeOK
  <2> QED
    BY <1>7, <2>1, <2>2, <2>3, <2>4, RouteFrame DEF ManagerReturns, diskVars, installerVars, RInv, RegistryTypeOK
<1>8. ASSUME NEW t \in Threads, StatusDir(t)
      PROVE  RegistryTypeOK' /\ Routed'
  <2>1. rpc[t] # "free"
    BY <1>8 DEF StatusDir
  <2>2. \E l \in RouteLabels : rpc' = [rpc EXCEPT ![t] = l]
    BY <1>8 DEF StatusDir, Respond, RGoto, RouteLabels
  <2>3. resp' \in [Threads -> Responses]
    BY <1>8, <2>1, RespondType, RecordTypes DEF StatusDir, RInv, RegistryTypeOK
  <2>4. seen' \in [Threads -> Seen]
    BY <1>8, RecordTypes DEF StatusDir, RInv, RegistryTypeOK
  <2> QED
    BY <1>8, <2>1, <2>2, <2>3, <2>4, RouteFrame DEF StatusDir, diskVars, installerVars, RInv, RegistryTypeOK
<1>9. ASSUME NEW t \in Threads, StatusInstall(t)
      PROVE  RegistryTypeOK' /\ Routed'
  <2>1. rpc[t] # "free"
    BY <1>9 DEF StatusInstall
  <2>2. \E l \in RouteLabels : rpc' = [rpc EXCEPT ![t] = l]
    BY <1>9 DEF StatusInstall, Respond, RGoto, RouteLabels
  <2>3. resp' \in [Threads -> Responses]
    BY <1>9, <2>1, RespondType, RecordTypes DEF StatusInstall, RInv, RegistryTypeOK
  <2>4. seen' \in [Threads -> Seen]
    <3>1. seen[t] \in Seen
      BY DEF RInv, RegistryTypeOK
    <3>2. [seen[t] EXCEPT !.inst = install[target[t]]] \in Seen
      BY <2>1, <3>1 DEF Seen, Routed, RInv, RegistryTypeOK
    <3> QED
      BY <1>9, <3>2 DEF StatusInstall, RInv, RegistryTypeOK
  <2> QED
    BY <1>9, <2>1, <2>2, <2>3, <2>4, RouteFrame DEF StatusInstall, diskVars, installerVars, RInv, RegistryTypeOK
<1>10. ASSUME NEW t \in Threads, StatusWorker(t)
      PROVE  RegistryTypeOK' /\ Routed'
  <2>1. rpc[t] # "free"
    BY <1>10 DEF StatusWorker
  <2>2. \E l \in RouteLabels : rpc' = [rpc EXCEPT ![t] = l]
    BY <1>10 DEF StatusWorker, Respond, RGoto, RouteLabels
  <2>3. resp' \in [Threads -> Responses]
    BY <1>10, <2>1, RespondType, RecordTypes DEF StatusWorker, RInv, RegistryTypeOK
  <2>4. seen' \in [Threads -> Seen]
    <3>1. seen[t] \in Seen
      BY DEF RInv, RegistryTypeOK
    <3>2. [seen[t] EXCEPT !.pid = workers[target[t]]] \in Seen
      BY <2>1, <3>1 DEF Seen, Routed, TInv, TypeOK, ManagerTypes, RInv, RegistryTypeOK
    <3> QED
      BY <1>10, <3>2 DEF StatusWorker, RInv, RegistryTypeOK
  <2> QED
    BY <1>10, <2>1, <2>2, <2>3, <2>4, RouteFrame DEF StatusWorker, diskVars, installerVars, RInv, RegistryTypeOK
<1>11. ASSUME NEW t \in Threads, StatusState(t)
      PROVE  RegistryTypeOK' /\ Routed'
  <2>1. rpc[t] # "free"
    BY <1>11 DEF StatusState
  <2>2. \E l \in RouteLabels : rpc' = [rpc EXCEPT ![t] = l]
    BY <1>11 DEF StatusState, Respond, RGoto, RouteLabels
  <2>3. resp' \in [Threads -> Responses]
    BY <1>11, <2>1, RespondType, RecordTypes DEF StatusState, RInv, RegistryTypeOK
  <2>4. seen' \in [Threads -> Seen]
    <3>1. seen[t] \in Seen
      BY DEF RInv, RegistryTypeOK
    <3>2. [seen[t] EXCEPT !.state = states[target[t]]] \in Seen
      BY <2>1, <3>1 DEF Seen, Routed, TInv, TypeOK, ManagerTypes, RInv, RegistryTypeOK
    <3> QED
      BY <1>11, <3>2 DEF StatusState, RInv, RegistryTypeOK
  <2> QED
    BY <1>11, <2>1, <2>2, <2>3, <2>4, RouteFrame DEF StatusState, diskVars, installerVars, RInv, RegistryTypeOK
<1>12. ASSUME NEW t \in Threads, StatusMarker(t)
      PROVE  RegistryTypeOK' /\ Routed'
  <2>1. rpc[t] # "free"
    BY <1>12 DEF StatusMarker
  <2>2. \E l \in RouteLabels : rpc' = [rpc EXCEPT ![t] = l]
    BY <1>12 DEF StatusMarker, Respond, RGoto, RouteLabels
  <2>3. resp' \in [Threads -> Responses]
    <3> DEFINE state == Reported(seen[t], disabled[target[t]])
    <3>1. seen[t] \in Seen /\ disabled[target[t]] \in BOOLEAN
      BY <2>1 DEF RInv, RegistryTypeOK, Routed
    <3>2. state \in PluginState /\ seen[t].pid \in Procs \cup {NoProc}
      BY <3>1, RecordTypes DEF Seen
    <3>3. [code |-> 200, op |-> rop[t], id |-> target[t], state |-> state,
           pid |-> seen[t].pid] \in Responses
      BY <2>1, <3>2 DEF RInv, Routed, Responses
    <3>4. CASE Respond(t, 409) \/ Respond(t, 500)
      BY <2>1, <3>4, RespondType
    <3> QED
      BY <1>12, <3>3, <3>4 DEF StatusMarker, RInv, RegistryTypeOK
  <2>4. seen' \in [Threads -> Seen]
    BY <1>12, RecordTypes DEF StatusMarker, RInv, RegistryTypeOK
  <2> QED
    BY <1>12, <2>1, <2>2, <2>3, <2>4, RouteFrame DEF StatusMarker, diskVars, installerVars, RInv, RegistryTypeOK
<1>13. ASSUME InstallerStep
      PROVE  RegistryTypeOK' /\ Routed'
  <2>1. UNCHANGED routeVars
    BY <1>13
    DEF InstallerStep, MoveAside, MoveIn, MoveInFails, Restore, OpenStatus, WriteStatus, StudioDies
  <2>2. /\ present' \in [Plugins -> BOOLEAN] /\ disabled' \in [Plugins -> BOOLEAN]
        /\ install' \in [Plugins -> InstallState] /\ moved' \in [Plugins -> BOOLEAN]
        /\ installer' \in [Plugins -> {"idle", "swap", "restore", "resolve", "write"}]
        /\ aside' \in [Plugins -> Contents] /\ installs' \in 0..MaxInstalls
    BY <1>13, InstallerTypes
  <2> QED
    BY <2>1, <2>2 DEF routeVars, RInv, RegistryTypeOK, Routed
<1>16. ASSUME UNCHANGED registryVars
      PROVE  RegistryTypeOK' /\ Routed'
  BY <1>16 DEF registryVars, diskVars, installerVars, routeVars, RInv, RegistryTypeOK, Routed
<1> QED
  BY <1>1, <1>2, <1>3, <1>4, <1>5, <1>6, <1>7, <1>8, <1>9, <1>10, <1>11, <1>12, <1>13, <1>16
  DEF RegistryNext, allVars, RouteStep, ManagerStep

LEMMA RInvInvariant == RegistrySpec => []RInv
<1>1. RInv /\ [RegistryNext]_allVars => TInv'
  BY StepOfManager, ManagerTypesStep, ProcessTypesStep, ReaderTypesStep,
     ThreadTypesStep, LocalsOKStep
  DEF RInv, TInv, TypeOK
<1>2. RInv /\ [RegistryNext]_allVars => RInv'
  BY <1>1, RegistryStep DEF RInv
<1> QED
  BY <1>2, RegistryInitRInv, PTL DEF RegistrySpec

\* Files, locals and responses of the registry keep their types, for any number
\* of plugins, threads, requests and installs.
THEOREM RegistryTypes == RegistrySpec => []RegistryTypeOK
<1>1. RInv => RegistryTypeOK
  BY DEF RInv
<1> QED
  BY <1>1, RInvInvariant, PTL

\* The daemon implements the manager's specification: the registry neither
\* begins an operation while one is under way on the thread nor touches the
\* manager's state in any other way.
THEOREM ImplementsManager == RegistrySpec => Spec
<1>1. RegistryInit => Init
  BY DEF RegistryInit
<1>2. RInv /\ [RegistryNext]_allVars => [Next]_vars
  BY StepOfManager DEF RInv
<1> QED
  BY <1>1, <1>2, RInvInvariant, PTL DEF RegistrySpec, Spec

\* Seen from the HTTP routes, with restarts, disabling and reinstalls going on, a
\* call is still answered by a worker of its own plugin.
THEOREM DaemonIsolation == RegistrySpec => []PluginIsolation
  BY ImplementsManager, Isolation, PTL

\* Nor do they make the map offer a worker that is being terminated.
THEOREM DaemonMapSound == RegistrySpec => []MappedWorkerUsable
  BY ImplementsManager, MapSound, PTL

-----------------------------------------------------------------------------
(***************************************************************************)
(* One request at a time.                                                  *)
(***************************************************************************)

\* How far the manager is while a registry operation waits for it.
Lane(t) ==
  /\ rpc[t] \notin InManager => pc[t] = "idle"
  /\ rpc[t] \in {"in_call", "in_start"} =>
       \/ pc[t] = "idle"
       \/ /\ pc[t] \in InRequest /\ plugin[t] = target[t]
          /\ op[t] = IF rpc[t] = "in_call" THEN "call" ELSE "start"
  /\ rpc[t] = "in_stop" =>
       \/ pc[t] = "idle"
       \/ pc[t] = "stop" /\ todo[t] = {target[t]}
       \/ pc[t] \in {"close", "kill"} /\ todo[t] = {}
  /\ rpc[t] \in {"call", "in_call"} => rop[t] = "call"
  /\ rpc[t] \in {"start", "in_start"} => rop[t] \in {"start", "restart"}
  /\ rpc[t] \in {"stop", "in_stop"} => rop[t] \in {"stop", "restart", "disable"}

NoFailedInstall(t) ==
  /\ \A pl \in Plugins : install[pl] # "failed" /\ aside[pl].install # "failed"
  /\ seen[t].inst # "failed"

\* A marker that was there when the daemon started or that disable() has touched
\* since the installer last moved the directory in or back.
Marked(pl) == disabled[pl] /\ ~moved[pl]

\* An operation that may start a worker has found no marker, and only this
\* thread or a rename of the installer could have put one there since.
Unmarked(t) ==
  /\ rpc[t] \in {"call", "start", "in_call", "in_start"} => ~Marked(target[t])
  /\ rpc[t] \in {"stop", "in_stop"} /\ rop[t] = "restart" => ~Marked(target[t])

\* A plugin that is marked and still has a worker is just being disabled.
Disabling(t, pl) ==
  /\ target[t] = pl /\ rop[t] = "disable"
  /\ rpc[t] = "stop" \/ (rpc[t] = "in_stop" /\ pc[t] = "stop")
MarkedIdle(t) == \A pl \in Plugins : Marked(pl) /\ workers[pl] # NoProc => Disabling(t, pl)

DInv(t) == Lane(t) /\ NoFailedInstall(t) /\ Unmarked(t) /\ MarkedIdle(t)

\* What a step of the manager may do to the one thread and to the map.
LEMMA ManagerMoves ==
  ASSUME NEW t \in Threads, Threads = {t}, RInv, Lane(t), ManagerStep
  PROVE  \/ /\ rpc[t] \in {"in_call", "in_start"} /\ pc[t] \in InRequest
            /\ pc'[t] = "idle" \/ (pc'[t] \in InRequest /\ plugin'[t] = plugin[t] /\ op'[t] = op[t])
            /\ \A pl \in Plugins : workers'[pl] # NoProc => workers[pl] # NoProc \/ pl = target[t]
         \/ /\ rpc[t] = "in_stop" /\ pc[t] = "stop"
            /\ pc'[t] = "idle" \/ (pc'[t] = "close" /\ todo'[t] = {})
            /\ \A pl \in Plugins : workers'[pl] # NoProc => workers[pl] # NoProc /\ pl # target[t]
         \/ /\ rpc[t] = "in_stop" /\ pc[t] \in {"close", "kill"}
            /\ pc'[t] \in {"idle", "kill"} /\ todo'[t] = {}
            /\ \A pl \in Plugins : workers'[pl] # NoProc => workers[pl] # NoProc
         \/ /\ pc'[t] = pc[t] /\ plugin'[t] = plugin[t] /\ op'[t] = op[t] /\ todo'[t] = todo[t]
            /\ \A pl \in Plugins : workers'[pl] # NoProc => workers[pl] # NoProc
<1> DEFINE InReq == /\ rpc[t] \in {"in_call", "in_start"} /\ pc[t] \in InRequest
                    /\ pc'[t] = "idle" \/ (pc'[t] \in InRequest /\ plugin'[t] = plugin[t] /\ op'[t] = op[t])
                    /\ \A pl \in Plugins : workers'[pl] # NoProc => workers[pl] # NoProc \/ pl = target[t]
           Pops == /\ rpc[t] = "in_stop" /\ pc[t] = "stop"
                   /\ pc'[t] = "idle" \/ (pc'[t] = "close" /\ todo'[t] = {})
                   /\ \A pl \in Plugins : workers'[pl] # NoProc => workers[pl] # NoProc /\ pl # target[t]
           Ends == /\ rpc[t] = "in_stop" /\ pc[t] \in {"close", "kill"}
                   /\ pc'[t] \in {"idle", "kill"} /\ todo'[t] = {}
                   /\ \A pl \in Plugins : workers'[pl] # NoProc => workers[pl] # NoProc
           Same == /\ pc'[t] = pc[t] /\ plugin'[t] = plugin[t] /\ op'[t] = op[t] /\ todo'[t] = todo[t]
                   /\ \A pl \in Plugins : workers'[pl] # NoProc => workers[pl] # NoProc
<1>0. pc[t] = "idle" \/ pc[t] \in InRequest \/ pc[t] \in {"stop", "close", "kill"}
  BY DEF Lane, InManager
<1>1. ASSUME ThreadStep(t), ~StopSteps(t) PROVE InReq
  <2>1. pc[t] \in InRequest
    BY <1>0, <1>1
    DEF ThreadStep, EnsureReuse, EnsureSpawn, EnsureSpawnFails, ReadyReceived, ReadyTimeout,
        PopFailedStart, SetRunning, CallSend, ReplyReceived, ReplyTimeout, HandleCrash,
        SetFailed, ShutdownList, InRequest
  <2>2. rpc[t] \in {"in_call", "in_start"} /\ plugin[t] = target[t]
    BY <2>1 DEF Lane, InRequest, InManager
  <2>3. pc'[t] = "idle" \/ (pc'[t] \in InRequest /\ plugin'[t] = plugin[t] /\ op'[t] = op[t])
    BY <1>1, <2>1
    DEF ThreadStep, EnsureReuse, EnsureSpawn, AwaitReady, EnsureSpawnFails, ReadyReceived,
        ReadyTimeout, PopFailedStart, SetRunning, CallSend, ReplyReceived, ReplyTimeout,
        HandleCrash, SetFailed, ShutdownList, Goto, Return, InRequest, Actors,
        RInv, TInv, TypeOK, ThreadTypes
  <2>4. \A pl \in Plugins : workers'[pl] # NoProc => workers[pl] # NoProc \/ pl = plugin[t]
    BY <1>1
    DEF ThreadStep, EnsureReuse, EnsureSpawn, EnsureSpawnFails, ReadyReceived,
        ReadyTimeout, PopFailedStart, SetRunning, CallSend, ReplyReceived, ReplyTimeout,
        HandleCrash, SetFailed, ShutdownList, DropWorker, mgrVars,
        RInv, TInv, TypeOK, ManagerTypes
  <2> QED
    BY <2>1, <2>2, <2>3, <2>4
<1>2. ASSUME StopSteps(t) PROVE Pops \/ Ends
  <2>1. rpc[t] = "in_stop"
    BY <1>2 DEF StopSteps, StopPop, TerminateClose, TerminateKill, Lane, InRequest, InManager
  <2>2. CASE StopPop(t)
    BY <2>1, <2>2, SentinelAssumption
    DEF StopPop, DropWorker, AfterStop, Goto, Return, Lane, InManager, Actors,
        RInv, TInv, TypeOK, ManagerTypes, ThreadTypes
  <2>3. CASE TerminateClose(t) \/ TerminateKill(t)
    BY <2>1, <2>3, SentinelAssumption
    DEF TerminateClose, TerminateKill, AfterStop, Goto, Return, mgrVars, Lane, InManager, Actors,
        RInv, TInv, TypeOK, ManagerTypes, ThreadTypes
  <2> QED
    BY <1>2, <2>2, <2>3 DEF StopSteps
<1>3. ASSUME EvictorStep PROVE Same
  BY <1>3, SentinelAssumption, ZenonT(60)
  DEF EvictorStep, EvictionScan, EvictionEnds, StopSteps, StopPop, TerminateClose,
      TerminateKill, AfterStop, DropWorker, Goto, Return, mgrVars, Actors, RInv, TInv, TypeOK,
      ManagerTypes, ThreadTypes
<1>4. ASSUME UNCHANGED <<mgrVars, threadVars>> PROVE Same
  BY <1>4 DEF mgrVars, threadVars
<1> HIDE DEF InReq, Pops, Ends, Same
<1>5. InReq \/ Pops \/ Ends \/ Same
  BY <1>1, <1>2, <1>3, <1>4
  DEF ManagerStep, ProcessStep, Age, Reclaim, ReaderEnter, ReadLine,
      RuntimeLoaded, RuntimeServe, RuntimeExit, RuntimeLoadFails, RuntimeCrash
<1> QED
  BY <1>5 DEF InReq, Pops, Ends, Same

LEMMA InvokeMoves ==
  ASSUME NEW t \in Threads, RInv, NEW o \in {"call", "start", "stop"}, Invoke(t, o)
  PROVE  /\ UNCHANGED <<workers, states, present, install, disabled, moved, aside, rop, target, seen, resp>>
         /\ rpc[t] = o /\ rpc'[t] = Inside(o)
         /\ \/ /\ o # "stop" /\ ~Rejects(target[t])
               /\ pc'[t] = "ensure" /\ plugin'[t] = target[t] /\ op'[t] = o
            \/ /\ o # "stop" /\ Rejects(target[t])
               /\ pc'[t] = "idle" /\ ret'[t].kind = "rejected"
            \/ o = "stop" /\ pc'[t] = "stop" /\ todo'[t] = {target[t]}
  BY DEF Invoke, Begin, RGoto, Goto, Return, diskVars, installerVars, Actors, RInv, RegistryTypeOK, TInv,
         TypeOK, ThreadTypes

\* No install ends in "failed", and no archive says that one has.
NoInstallFails ==
  InstallOutcomes \subseteq {"ok"} /\ \A c \in Archives : c.install # "failed"

\* The installer puts no failure into a directory if there was none, and no marker
\* under an id without having moved the directory.
LEMMA InstallerMarks ==
  ASSUME RInv, NoInstallFails, InstallerStep,
         \A pl \in Plugins : install[pl] # "failed" /\ aside[pl].install # "failed"
  PROVE  \A pl \in Plugins :
           /\ install'[pl] # "failed" /\ aside'[pl].install # "failed"
           /\ Marked(pl)' => Marked(pl)
<1> DEFINE Fine == \A pl \in Plugins :
             /\ install'[pl] # "failed" /\ aside'[pl].install # "failed"
             /\ Marked(pl)' => Marked(pl)
<1>0. Nothingness.install # "failed" /\ Nothingness.disabled = FALSE
  BY DEF Nothingness
<1>1. ASSUME NEW pl \in Plugins, MoveAside(pl) PROVE Fine
  BY <1>0, <1>1 DEF MoveAside, Put, Marked, RInv, RegistryTypeOK
<1>2. ASSUME NEW pl \in Plugins, MoveIn(pl) PROVE Fine
  <2>1. PICK c \in Archives : Put(pl, TRUE, c)
    BY <1>2 DEF MoveIn
  <2> QED
    BY <1>0, <1>2, <2>1 DEF MoveIn, Put, Marked, NoInstallFails, RInv, RegistryTypeOK
<1>3. ASSUME NEW pl \in Plugins, Restore(pl) PROVE Fine
  BY <1>0, <1>3 DEF Restore, Put, Marked, RInv, RegistryTypeOK
<1>4. ASSUME NEW pl \in Plugins, MoveInFails(pl) PROVE Fine
  BY <1>4 DEF MoveInFails, Marked
<1>5. ASSUME NEW pl \in Plugins, OpenStatus(pl) PROVE Fine
  BY <1>5 DEF OpenStatus, Marked, RInv, RegistryTypeOK
<1>6. ASSUME NEW pl \in Plugins, NEW outcome \in InstallOutcomes, WriteStatus(pl, outcome) PROVE Fine
  BY <1>6 DEF WriteStatus, Marked, NoInstallFails, RInv, RegistryTypeOK
<1>7. CASE StudioDies
  BY <1>0, <1>7 DEF StudioDies, Marked
<1> QED
  BY <1>1, <1>2, <1>3, <1>4, <1>5, <1>6, <1>7 DEF InstallerStep

LEMMA DInvStep ==
  ASSUME NEW t \in Threads, Threads = {t}, NoInstallFails,
         RInv, DInv(t), [RegistryNext]_allVars
  PROVE  DInv(t)'
<1> USE DEF DInv, Lane, NoFailedInstall, Unmarked, MarkedIdle, Marked, Disabling
<1>1. ASSUME NEW o \in RegistryOps, NEW pl \in Plugins, Request(t, o, pl) PROVE DInv(t)'
  BY <1>1
  DEF Request, RGoto, vars, mgrVars, threadVars, diskVars, installerVars, InManager, RInv, RegistryTypeOK
<1>2. ASSUME FindDir(t) \/ CheckMarker(t) PROVE DInv(t)'
  BY <1>2
  DEF FindDir, CheckMarker, Respond, RGoto, vars, mgrVars, threadVars, diskVars, installerVars, InManager,
      RInv, RegistryTypeOK
<1>3. ASSUME Enable(t) \/ Disable(t) PROVE DInv(t)'
  BY <1>3
  DEF Enable, Disable, Respond, RGoto, vars, mgrVars, threadVars, installerVars, InManager, RInv,
      RegistryTypeOK, Routed
<1>4. ASSUME NEW o \in {"call", "start", "stop"}, Invoke(t, o) PROVE DInv(t)'
  BY <1>4, InvokeMoves DEF Inside, InManager, InRequest
<1>5. ASSUME ManagerReturns(t) PROVE DInv(t)'
  BY <1>5
  DEF ManagerReturns, AfterManagerStop, Respond, RGoto, vars, mgrVars, threadVars, diskVars, installerVars,
      InManager, RInv, RegistryTypeOK
<1>6. ASSUME StatusDir(t) \/ StatusInstall(t) \/ StatusWorker(t) \/ StatusState(t) PROVE DInv(t)'
  BY <1>6
  DEF StatusDir, StatusInstall, StatusWorker, StatusState, Respond, RGoto, vars, mgrVars,
      threadVars, diskVars, installerVars, InManager, RInv, RegistryTypeOK, Routed, Seen
<1>7. ASSUME StatusMarker(t) PROVE DInv(t)'
  <2>1. ASSUME disabled[target[t]] PROVE Reported(seen[t], disabled[target[t]]) \in {"resolving", "disabled"}
    BY <2>1 DEF Reported
  <2> QED
    BY <1>7, <2>1
    DEF StatusMarker, NoSeen, Respond, RGoto, vars, mgrVars, threadVars, diskVars, installerVars, InManager,
        RInv, RegistryTypeOK
<1>8. ASSUME ManagerStep PROVE DInv(t)'
  <2>1. UNCHANGED <<rpc, rop, target, seen, install, disabled, moved, aside>>
    BY <1>8 DEF ManagerStep, registryVars, diskVars, installerVars, routeVars
  <2> QED
    BY <1>8, <2>1, ManagerMoves DEF InManager, InRequest
<1>9. ASSUME InstallerStep PROVE DInv(t)'
  <2>1. UNCHANGED <<workers, pc, plugin, op, todo, rpc, rop, target, seen>>
    BY <1>9
    DEF InstallerStep, MoveAside, MoveIn, MoveInFails, Restore, OpenStatus, WriteStatus,
        StudioDies, vars, mgrVars, threadVars, routeVars
  <2>2. \A pl \in Plugins :
          /\ install'[pl] # "failed" /\ aside'[pl].install # "failed"
          /\ Marked(pl)' => Marked(pl)
    BY <1>9, InstallerMarks
  <2>3. rpc[t] # "free" => target[t] \in Plugins
    BY DEF RInv, Routed
  <2> QED
    BY <2>1, <2>2, <2>3
<1>10. ASSUME UNCHANGED allVars PROVE DInv(t)'
  BY <1>10 DEF allVars, vars, mgrVars, threadVars, registryVars, routeVars, diskVars, installerVars
<1> HIDE DEF DInv
<1> QED
  BY <1>1, <1>2, <1>3, <1>4, <1>5, <1>6, <1>7, <1>8, <1>9, <1>10
  DEF RegistryNext, RouteStep

LEMMA DInvInvariant ==
  ASSUME NEW t \in Threads, Threads = {t}, NoInstallFails
  PROVE  RegistrySpec => []DInv(t)
<1>1. RegistryInit => DInv(t)
  <2> SUFFICES ASSUME RegistryInit PROVE DInv(t)
    OBVIOUS
  <2>1. rpc[t] = "free" /\ pc[t] = "idle" /\ workers = [pl \in Plugins |-> NoProc]
    BY DEF RegistryInit, Init, Actors
  <2>2. NoFailedInstall(t)
    BY DEF RegistryInit, NoSeen, Nothingness, NoInstallFails, NoFailedInstall
  <2> QED
    BY <2>1, <2>2 DEF DInv, Lane, InManager, Unmarked, MarkedIdle
<1>2. RInv /\ DInv(t) /\ [RegistryNext]_allVars => DInv(t)'
  BY DInvStep
<1> QED
  BY <1>1, <1>2, RInvInvariant, PTL DEF RegistrySpec

\* With one request thread, whatever the eviction thread, the installer and the
\* plugins' processes do beside it, renames that fail and directories that move
\* back included, and if no status file says "failed" (which hides the marker
\* from call()), a disabled plugin has no worker once the requests are answered,
\* but where the installer has moved the marker in or back itself.
THEOREM DisabledAlone ==
  ASSUME NEW t \in Threads, Threads = {t}, NoInstallFails
  PROVE  RegistrySpec => []DisabledHasNoWorker
<1>1. DInv(t) => DisabledHasNoWorker
  BY DEF DInv, MarkedIdle, Marked, Disabling, DisabledHasNoWorker, Quiet
<1> QED
  BY <1>1, DInvInvariant, PTL

\* Of the manager alone, with one request thread and plugins that print nothing
\* while they are imported: a live worker whose plugin is still STARTING is the
\* one this thread is waiting for.
NoNoise ==
  /\ \A p \in Procs : \A i \in DOMAIN stdout[p] : stdout[p][i] # NoiseLine
  /\ \A t \in Threads : got[t] # NoiseLine
StartingBusy(t) ==
  \A pl \in Plugins : states[pl] = STARTING /\ LiveWorker(pl) =>
    pc[t] \in {"recv_ready", "pop", "set_running"} /\ plugin[t] = pl
CallsOnly(t) == pc[t] \in {"lock", "recv"} => op[t] = "call"

LEMMA NoNoiseStep ==
  ASSUME Noisy = {}, TInv, NoNoise, [Next]_vars
  PROVE  NoNoise'
<1> USE DEF NoNoise
<1>1. ASSUME UNCHANGED <<stdout, got>> PROVE NoNoise'
  BY <1>1
<1>2. ASSUME NEW t \in Threads, ReadyReceived(t) \/ ReplyReceived(t) PROVE NoNoise'
  BY <1>2 DEF ReadyReceived, ReplyReceived, procVars, Nothing, NoiseLine, TInv, TypeOK, ReaderTypes
<1>3. ASSUME NEW t \in Threads, EnsureSpawn(t) PROVE NoNoise'
  BY <1>3 DEF EnsureSpawn, NewProcess, TInv, TypeOK, ProcessTypes
<1>4. ASSUME NEW p \in Procs, ReadLine(p) PROVE NoNoise'
  <2>1. ASSUME stdout[p] # <<>>
        PROVE  /\ Head(stdout[p]) # NoiseLine
               /\ \A i \in DOMAIN Tail(stdout[p]) : Tail(stdout[p])[i] # NoiseLine
    BY <2>1 DEF TInv, TypeOK, ProcessTypes
  <2>2. EOF # NoiseLine
    BY DEF EOF, NoiseLine
  <2>3. \A q \in Procs : \A i \in DOMAIN stdout'[q] : stdout'[q][i] # NoiseLine
    BY <1>4, <2>1 DEF ReadLine, Consume, TInv, TypeOK, ProcessTypes
  <2>4. \A t \in Threads : got'[t] # NoiseLine
    BY <1>4, <2>1, <2>2 DEF ReadLine, TInv, TypeOK, ReaderTypes
  <2> QED
    BY <2>3, <2>4
<1>5. ASSUME NEW p \in Procs, RuntimeLoaded(p) \/ RuntimeLoadFails(p) PROVE NoNoise'
  <2>1. stdout'[p] \in {<<>>, <<ReadyLine>>}
    BY <1>5 DEF RuntimeLoaded, RuntimeLoadFails, TInv, TypeOK, ProcessTypes
  <2>2. ReadyLine # NoiseLine
    BY DEF ReadyLine, NoiseLine
  <2>3. \A q \in Procs : q # p => stdout'[q] = stdout[q]
    BY <1>5 DEF RuntimeLoaded, RuntimeLoadFails, TInv, TypeOK, ProcessTypes
  <2>4. \A i \in DOMAIN stdout'[p] : stdout'[p][i] # NoiseLine
    BY <2>1, <2>2
  <2> QED
    BY <1>5, <2>3, <2>4 DEF RuntimeLoaded, RuntimeLoadFails, readVars
<1>6. ASSUME NEW p \in Procs, RuntimeServe(p) PROVE NoNoise'
  <2>1. PICK k \in Outcomes :
          stdout' = [stdout EXCEPT ![p] = Append(@, [kind |-> k, req |-> Head(stdin[p])])]
    BY <1>6 DEF RuntimeServe
  <2> DEFINE line == [kind |-> k, req |-> Head(stdin[p])]
  <2>2. line # NoiseLine
    BY OpsAssumption DEF NoiseLine
  <2>3. stdout[p] \in Seq(Lines) /\ line \in Lines
    BY <1>6, OpsAssumption DEF RuntimeServe, Lines, TInv, TypeOK, ProcessTypes
  <2> HIDE DEF line
  <2>4. \A i \in DOMAIN Append(stdout[p], line) : Append(stdout[p], line)[i] # NoiseLine
    BY <2>2, <2>3
  <2>5. stdout' = [stdout EXCEPT ![p] = Append(@, line)]
    BY <2>1 DEF line
  <2> QED
    BY <1>6, <2>4, <2>5 DEF RuntimeServe, readVars, TInv, TypeOK, ProcessTypes
<1> HIDE DEF NoNoise
<1> QED
  BY <1>1, <1>2, <1>3, <1>4, <1>5, <1>6
  DEF Next, vars, procVars, readVars, ThreadStep, EvictorStep, StopSteps, ProcessStep,
      Begin, RestartFailed, EnsureReuse, EnsureSpawnFails, ReadyTimeout, PopFailedStart,
      SetRunning, CallSend, ReplyTimeout, HandleCrash, SetFailed, ShutdownList, StopPop,
      TerminateClose, TerminateKill, EvictionScan, EvictionEnds, Age, Reclaim, ReaderEnter,
      RuntimeExit, RuntimeCrash

LEMMA CallsOnlyStep ==
  ASSUME NEW t \in Threads, Threads = {t}, TInv, CallsOnly(t), [Next]_vars
  PROVE  CallsOnly(t)'
<1>1. \/ pc'[t] = pc[t] /\ op'[t] = op[t]
      \/ op[t] = "call" /\ op'[t] = op[t]
      \/ pc'[t] \notin {"lock", "recv"}
  <2>1. CASE \E u \in Threads : ThreadStep(u)
    BY SentinelAssumption, <2>1
    DEF ThreadStep, StopSteps, EnsureReuse, EnsureSpawn, AwaitReady, EnsureSpawnFails, ReadyReceived,
        ReadyTimeout, PopFailedStart, SetRunning, CallSend, ReplyReceived, ReplyTimeout, HandleCrash,
        SetFailed, ShutdownList, StopPop, TerminateClose, TerminateKill, AfterStop, Goto, Return,
        Actors, CallsOnly, TInv, TypeOK, ThreadTypes
  <2>2. CASE \/ EvictorStep
             \/ \E u \in Threads, o \in OpNames, q \in Plugins : Begin(u, o, q)
             \/ \E u \in Threads, q \in Plugins : RestartFailed(u, q)
    BY SentinelAssumption, <2>2
    DEF EvictorStep, StopSteps, Begin, RestartFailed, StopPop, TerminateClose, TerminateKill, AfterStop,
        Goto, Return, EvictionScan, EvictionEnds, Actors, CallsOnly, TInv, TypeOK, ThreadTypes
  <2>3. CASE \/ UNCHANGED vars
             \/ \E q \in Procs : ProcessStep(q) \/ ReaderEnter(q) \/ ReadLine(q) \/ Age(q) \/ Reclaim(q)
    BY SentinelAssumption, <2>3
    DEF vars, threadVars, ProcessStep, Age, ReaderEnter, ReadLine, RuntimeLoaded, RuntimeServe,
        RuntimeExit, RuntimeLoadFails, RuntimeCrash, Reclaim, Actors, CallsOnly, TInv, TypeOK,
        ThreadTypes
  <2> QED
    BY <2>1, <2>2, <2>3 DEF Next
<1> QED
  BY <1>1 DEF CallsOnly

LEMMA StartingBusyStep ==
  ASSUME NEW t \in Threads, Threads = {t}, TInv, NothingEvicted, NoNoise, StartingBusy(t),
         [Next]_vars
  PROVE  StartingBusy(t)'
<1> SUFFICES ASSUME NEW pl \in Plugins, states'[pl] = STARTING, LiveWorker(pl)'
             PROVE  pc'[t] \in {"recv_ready", "pop", "set_running"} /\ plugin'[t] = pl
  BY DEF StartingBusy
<1> DEFINE Goal == pc'[t] \in {"recv_ready", "pop", "set_running"} /\ plugin'[t] = pl
<1>1. CASE EnsureSpawn(t)
  <2>1. CASE pl = plugin[t]
    BY <1>1, <2>1 DEF EnsureSpawn, AwaitReady, Goto, Actors, TInv, TypeOK, ThreadTypes
  <2>2. CASE pl # plugin[t]
    <3>1. states[pl] = STARTING /\ LiveWorker(pl)
      BY <1>1, <2>2
      DEF EnsureSpawn, NewProcess, Free, LiveWorker, Alive, TInv, TypeOK, ManagerTypes, ProcessTypes
    <3> QED
      BY <1>1, <3>1 DEF StartingBusy, EnsureSpawn
  <2> QED
    BY <2>1, <2>2
<1>2. CASE ~EnsureSpawn(t)
  <2>1. LiveWorker(pl) /\ workers'[pl] = workers[pl]
    <3>1. workers'[pl] = workers[pl]
      <4>1. CASE \E u \in Threads : ThreadStep(u)
        BY <1>2, <4>1
        DEF mgrVars, ThreadStep, StopSteps, DropWorker, EnsureReuse, EnsureSpawnFails, ReadyReceived, ReadyTimeout,
            PopFailedStart, SetRunning, CallSend, ReplyReceived, ReplyTimeout, HandleCrash, SetFailed,
            ShutdownList, StopPop, TerminateClose, TerminateKill,
            LiveWorker, TInv, TypeOK, ManagerTypes
      <4>2. CASE \/ EvictorStep
                 \/ \E u \in Threads, o \in OpNames, q \in Plugins : Begin(u, o, q)
                 \/ \E u \in Threads, q \in Plugins : RestartFailed(u, q)
        BY <1>2, <4>2
        DEF mgrVars, EvictorStep, StopSteps, DropWorker, Begin, RestartFailed, StopPop, TerminateClose,
            TerminateKill, EvictionScan, EvictionEnds,
            LiveWorker, TInv, TypeOK, ManagerTypes
      <4>3. CASE \/ UNCHANGED vars
                 \/ \E q \in Procs : ProcessStep(q) \/ ReaderEnter(q) \/ ReadLine(q) \/ Age(q) \/ Reclaim(q)
        BY <1>2, <4>3
        DEF vars, mgrVars, ProcessStep, Age, ReaderEnter, ReadLine, RuntimeLoaded, RuntimeServe,
            RuntimeExit, RuntimeLoadFails, RuntimeCrash, Reclaim
      <4> QED
        BY <4>1, <4>2, <4>3 DEF Next
    <3>2. \A p \in Procs : Alive(p)' => Alive(p)
      <4>1. CASE \E u \in Threads : ThreadStep(u)
        BY <1>2, <4>1
        DEF procVars, ThreadStep, StopSteps, EnsureReuse, EnsureSpawnFails, ReadyReceived, ReadyTimeout,
            PopFailedStart, SetRunning, CallSend, ReplyReceived, ReplyTimeout, HandleCrash, SetFailed,
            ShutdownList, StopPop, TerminateClose, TerminateKill, Kill, Dies, Alive, TInv, TypeOK,
            ProcessTypes
      <4>2. CASE \/ EvictorStep
                 \/ \E u \in Threads, o \in OpNames, q \in Plugins : Begin(u, o, q)
                 \/ \E u \in Threads, q \in Plugins : RestartFailed(u, q)
        BY <1>2, <4>2
        DEF procVars, EvictorStep, StopSteps, Begin, RestartFailed, StopPop, TerminateClose,
            TerminateKill, Kill, Dies, EvictionScan, EvictionEnds, Alive, TInv, TypeOK, ProcessTypes
      <4>3. CASE \/ UNCHANGED vars
                 \/ \E q \in Procs : ProcessStep(q) \/ ReaderEnter(q) \/ ReadLine(q) \/ Age(q) \/ Reclaim(q)
        BY <1>2, <4>3
        DEF vars, procVars, ProcessStep, Age, ReaderEnter, ReadLine, RuntimeLoaded, Dies, RuntimeServe,
            RuntimeExit, RuntimeLoadFails, RuntimeCrash, Reclaim, Alive, TInv, TypeOK, ProcessTypes
      <4> QED
        BY <4>1, <4>2, <4>3 DEF Next
    <3>3. PICK p \in Procs : p = workers[pl]
      BY <3>1 DEF LiveWorker, TInv, TypeOK, ManagerTypes
    <3> QED
      BY <3>1, <3>2, <3>3 DEF LiveWorker, Alive
  <2>2. ASSUME states[pl] = STARTING
        PROVE  Goal
    <3>1. pc[t] \in {"recv_ready", "pop", "set_running"} /\ plugin[t] = pl
      BY <2>1, <2>2 DEF StartingBusy
    <3>2. CASE ReadyReceived(t)
      BY <3>1, <3>2
      DEF ReadyReceived, NoNoise, Goto, Actors, TInv, TypeOK, ThreadTypes
    <3>3. CASE ReadyTimeout(t)
      BY <3>1, <3>3 DEF ReadyTimeout, Goto, Actors, TInv, TypeOK, ThreadTypes
    <3>4. CASE PopFailedStart(t)
      BY <2>1, <3>1, <3>4 DEF PopFailedStart, DropWorker, LiveWorker, TInv, TypeOK, ManagerTypes
    <3>5. CASE SetRunning(t)
      BY <3>1, <3>5 DEF SetRunning, RUNNING, STARTING, TInv, TypeOK, ManagerTypes
    <3>6. CASE EvictorStep
      BY <3>1, <3>6, SentinelAssumption
      DEF EvictorStep, EvictionScan, EvictionEnds, StopSteps, StopPop, TerminateClose,
          TerminateKill, AfterStop, Goto, NothingEvicted, Actors, TInv, TypeOK, ThreadTypes
    <3>7. CASE UNCHANGED threadVars
      BY <3>1, <3>7 DEF threadVars
    <3> QED
      BY <1>2, <3>1, <3>2, <3>3, <3>4, <3>5, <3>6, <3>7
      DEF Next, vars, ThreadStep, StopSteps, ProcessStep, Begin, RestartFailed, EnsureReuse,
          EnsureSpawnFails, CallSend, ReplyReceived, ReplyTimeout, HandleCrash, SetFailed,
          ShutdownList, StopPop, TerminateClose, TerminateKill, Age, Reclaim, ReaderEnter,
          ReadLine, RuntimeLoaded, RuntimeServe, RuntimeExit, RuntimeLoadFails, RuntimeCrash
  <2>3. states[pl] = STARTING
    <3>1. CASE \E u \in Threads : ThreadStep(u)
      BY <1>2, <2>1, <3>1
      DEF mgrVars, ThreadStep, StopSteps, EnsureReuse, EnsureSpawnFails, ReadyReceived, ReadyTimeout,
          PopFailedStart, SetRunning, CallSend, ReplyReceived, ReplyTimeout, HandleCrash, SetFailed,
          ShutdownList, StopPop, TerminateClose, TerminateKill,
          NOT_STARTED, STARTING, RUNNING, FAILED, TInv, TypeOK, ManagerTypes
    <3>2. CASE \/ EvictorStep
               \/ \E u \in Threads, o \in OpNames, q \in Plugins : Begin(u, o, q)
               \/ \E u \in Threads, q \in Plugins : RestartFailed(u, q)
      BY <1>2, <2>1, <3>2
      DEF mgrVars, EvictorStep, StopSteps, Begin, RestartFailed, StopPop, TerminateClose,
          TerminateKill, EvictionScan, EvictionEnds,
          NOT_STARTED, STARTING, RUNNING, FAILED, TInv, TypeOK, ManagerTypes
    <3>3. CASE \/ UNCHANGED vars
               \/ \E q \in Procs : ProcessStep(q) \/ ReaderEnter(q) \/ ReadLine(q) \/ Age(q) \/ Reclaim(q)
      BY <1>2, <2>1, <3>3
      DEF vars, mgrVars, ProcessStep, Age, ReaderEnter, ReadLine, RuntimeLoaded, RuntimeServe,
          RuntimeExit, RuntimeLoadFails, RuntimeCrash, Reclaim
    <3> QED
      BY <3>1, <3>2, <3>3 DEF Next
  <2> QED
    BY <2>2, <2>3
<1> QED
  BY <1>1, <1>2

\* The manager's part of the invariant.
MInv(t) == SInv /\ QInv(t) /\ NoNoise /\ StartingBusy(t) /\ CallsOnly(t)

LEMMA MInvInvariant ==
  ASSUME NEW t \in Threads, Threads = {t}, EvictionActive = FALSE, Noisy = {}
  PROVE  Spec => []MInv(t)
<1>1. Init => QInv(t) /\ NoNoise /\ StartingBusy(t) /\ CallsOnly(t)
  BY DEF Init, QInv, StateMatches, StartMatches, NothingEvicted, Actors, NOT_STARTED, STARTING,
         RUNNING, NoNoise, StartingBusy, CallsOnly, Nothing, NoiseLine
<1>2. MInv(t) /\ [Next]_vars => QInv(t)' /\ NoNoise' /\ StartingBusy(t)' /\ CallsOnly(t)'
  BY MatchesStep, NothingEvictedStep, NoNoiseStep, StartingBusyStep, CallsOnlyStep
  DEF MInv, QInv, SInv
<1>3. MInv(t) <=> SInv /\ QInv(t) /\ NoNoise /\ StartingBusy(t) /\ CallsOnly(t)
  BY DEF MInv
<1> HIDE DEF MInv
<1> QED
  BY <1>1, <1>2, <1>3, SInvInvariant, PTL DEF Spec

\* What is known of the plugin's worker when an operation of the manager has
\* returned, and until the response: nothing else changes it.
InStatus == {"st_dir", "st_install", "st_worker", "st_state", "st_marker"}
Outcome(t) ==
  LET ended(kinds) == pc[t] = "idle" /\ ret[t].kind \in kinds IN
  /\ rpc[t] \in {"in_call", "in_start"} /\ ended({"rejected", "crashed_twice"}) =>
       states[target[t]] = FAILED
  /\ (rpc[t] = "in_start" /\ ended({"ok"})) \/ (rpc[t] \in InStatus /\ rop[t] \in {"start", "restart"}) =>
       states[target[t]] = RUNNING /\ workers[target[t]] # NoProc
  /\ (rpc[t] = "in_stop" /\ pc[t] # "stop") \/ (rpc[t] \in InStatus /\ rop[t] \in {"stop", "disable"}) =>
       states[target[t]] = NOT_STARTED /\ workers[target[t]] = NoProc
SeenFresh(t) ==
  /\ rpc[t] \in {"st_state", "st_marker"} => seen[t].pid = workers[target[t]]
  /\ rpc[t] = "st_marker" => seen[t].state = states[target[t]]

\* The response, once it is given, and while no other request is under way.
Agrees(r) ==
  /\ r.state = "running" => states[r.id] = RUNNING
  /\ r.state = "ready" => workers[r.id] = NoProc
  /\ r.state = "disabled" => r.id \in Plugins /\ (workers[r.id] = NoProc \/ moved[r.id])
  /\ r.state # None => r.pid = workers[r.id]
  /\ r.op \in {"start", "restart"} /\ r.code = 200 =>
       states[r.id] = RUNNING /\ workers[r.id] # NoProc
  /\ r.op \in {"stop", "disable"} /\ r.code = 200 =>
       states[r.id] = NOT_STARTED /\ workers[r.id] = NoProc
  /\ r.code = 502 => states[r.id] = FAILED
Answered(t) == rpc[t] = "free" => Agrees(resp[t])

AInv(t) == Outcome(t) /\ SeenFresh(t) /\ Answered(t)

LEMMA ManagerEffects ==
  ASSUME NEW t \in Threads, Threads = {t}, RInv, Lane(t), MInv(t), ManagerStep
  PROVE  \/ /\ rpc[t] \in {"in_call", "in_start"} /\ pc[t] \in InRequest
            /\ pc'[t] = "idle" /\ ret'[t].kind \in {"rejected", "crashed_twice"} =>
                 states'[target[t]] = FAILED
            /\ rpc[t] = "in_start" /\ pc'[t] = "idle" /\ ret'[t].kind = "ok" =>
                 states'[target[t]] = RUNNING /\ workers'[target[t]] # NoProc
         \/ /\ rpc[t] = "in_stop" /\ pc[t] = "stop"
            /\ states'[target[t]] = NOT_STARTED /\ workers'[target[t]] = NoProc
         \/ /\ rpc[t] = "in_stop" /\ pc[t] \in {"close", "kill"}
            /\ UNCHANGED <<workers, states>>
         \/ UNCHANGED <<workers, states>> /\ pc'[t] = pc[t] /\ ret'[t] = ret[t]
<1> DEFINE Ended(k, r) == ret' = [ret EXCEPT ![t] = [kind |-> k, req |-> r]]
           Works == /\ rpc[t] \in {"in_call", "in_start"} /\ pc[t] \in InRequest
                    /\ pc'[t] = "idle" /\ ret'[t].kind \in {"rejected", "crashed_twice"} =>
                         states'[target[t]] = FAILED
                    /\ rpc[t] = "in_start" /\ pc'[t] = "idle" /\ ret'[t].kind = "ok" =>
                         states'[target[t]] = RUNNING /\ workers'[target[t]] # NoProc
           Stops == /\ rpc[t] = "in_stop" /\ pc[t] = "stop"
                    /\ states'[target[t]] = NOT_STARTED /\ workers'[target[t]] = NoProc
           Ends == /\ rpc[t] = "in_stop" /\ pc[t] \in {"close", "kill"}
                   /\ UNCHANGED <<workers, states>>
           Same == UNCHANGED <<workers, states>> /\ pc'[t] = pc[t] /\ ret'[t] = ret[t]
<1>0. /\ pc[t] = "idle" \/ pc[t] \in InRequest \/ pc[t] \in {"stop", "close", "kill"}
      /\ rpc[t] # "free" => target[t] \in Plugins
      /\ ret \in [Threads -> Results]
  BY DEF Lane, InManager, RInv, Routed, TInv, TypeOK, ThreadTypes
<1>1. ASSUME ThreadStep(t), ~StopSteps(t) PROVE Works
  <2>1. pc[t] \in InRequest
    BY <1>0, <1>1
    DEF ThreadStep, EnsureReuse, EnsureSpawn, EnsureSpawnFails, ReadyReceived, ReadyTimeout,
        PopFailedStart, SetRunning, CallSend, ReplyReceived, ReplyTimeout, HandleCrash,
        SetFailed, ShutdownList, InRequest
  <2>2. /\ rpc[t] \in {"in_call", "in_start"} /\ plugin[t] = target[t] /\ target[t] \in Plugins
        /\ rpc[t] = "in_start" => op[t] = "start"
    BY <1>0, <2>1 DEF Lane, InRequest, InManager
  <2>3. CASE pc'[t] # "idle"
    BY <2>1, <2>2, <2>3
  <2>4. CASE EnsureReuse(t)
    <3>1. states[target[t]] = RUNNING /\ workers[target[t]] # NoProc
      BY <2>2, <2>4
      DEF EnsureReuse, LiveWorker, MInv, QInv, StateMatches, StartingBusy, RInv, TInv, TypeOK,
          ManagerTypes, WorkerState
    <3> QED
      BY <1>0, <2>1, <2>2, <2>4, <3>1
      DEF EnsureReuse, Return, Goto, mgrVars, Actors, RInv, TInv, TypeOK, ThreadTypes
  <2>5. CASE SetRunning(t)
    <3>1. workers[target[t]] # NoProc
      BY <2>2, <2>5, NoProcIsNone DEF SetRunning, MInv, QInv, StartMatches, RInv, TInv, LocalsOK, HasWorker
    <3> QED
      BY <1>0, <2>1, <2>2, <2>5, <3>1
      DEF SetRunning, Return, Goto, Actors, RInv, TInv, TypeOK, ManagerTypes, ThreadTypes
  <2>6. CASE SetFailed(t)
    BY <1>0, <2>1, <2>2, <2>6
    DEF SetFailed, Return, RInv, TInv, TypeOK, ManagerTypes
  <2>7. CASE EnsureSpawnFails(t) \/ ReadyReceived(t) \/ CallSend(t)
    <3>1. pc'[t] = "idle" => Ended("internal", NoReq)
      BY <2>7 DEF EnsureSpawnFails, ReadyReceived, CallSend, Return, Goto, Actors, RInv, TInv, TypeOK, ThreadTypes
    <3> QED
      BY <1>0, <2>1, <2>2, <3>1
  <2>8. CASE ReplyReceived(t)
    <3>1. rpc[t] # "in_start"
      BY <2>2, <2>8 DEF ReplyReceived, MInv, CallsOnly
    <3>2. pc'[t] = "idle" => \E k \in {"ok", "fail", "internal"}, r \in Requests \cup {NoReq} : Ended(k, r)
      <4>1. got[t].req \in Requests \cup {NoReq} /\ NoReq \in Requests \cup {NoReq}
        BY LineTypes DEF RInv, TInv, TypeOK, ReaderTypes
      <4> QED
        BY <2>8, <4>1 DEF ReplyReceived, Return, Goto, Actors, RInv, TInv, TypeOK, ThreadTypes
    <3> QED
      BY <1>0, <2>1, <2>2, <3>1, <3>2
  <2> QED
    BY <1>1, <2>1, <2>3, <2>4, <2>5, <2>6, <2>7, <2>8
    DEF ThreadStep, EnsureSpawn, AwaitReady, ReadyTimeout, PopFailedStart, ReplyTimeout,
        HandleCrash, ShutdownList, Goto, Actors, InRequest, RInv, TInv, TypeOK, ThreadTypes
<1>2. ASSUME StopSteps(t) PROVE Stops \/ Ends
  <2>1. rpc[t] = "in_stop"
    BY <1>2 DEF StopSteps, StopPop, TerminateClose, TerminateKill, Lane, InRequest, InManager
  <2>2. CASE StopPop(t)
    BY <1>0, <2>1, <2>2
    DEF StopPop, DropWorker, Lane, RInv, TInv, TypeOK, ManagerTypes
  <2>3. CASE TerminateClose(t) \/ TerminateKill(t)
    BY <2>1, <2>3 DEF TerminateClose, TerminateKill, mgrVars
  <2> QED
    BY <1>2, <2>2, <2>3 DEF StopSteps
<1>3. ASSUME EvictorStep PROVE Same
  BY <1>3, SentinelAssumption
  DEF EvictorStep, EvictionScan, EvictionEnds, StopSteps, StopPop, TerminateClose,
      TerminateKill, Goto, mgrVars, MInv, QInv, NothingEvicted, Actors, RInv, TInv, TypeOK,
      ThreadTypes
<1>4. ASSUME UNCHANGED <<mgrVars, threadVars>> PROVE Same
  BY <1>4 DEF mgrVars, threadVars
<1> HIDE DEF Works, Stops, Ends, Same
<1>5. Works \/ Stops \/ Ends \/ Same
  BY <1>1, <1>2, <1>3, <1>4
  DEF ManagerStep, ProcessStep, Age, Reclaim, ReaderEnter, ReadLine,
      RuntimeLoaded, RuntimeServe, RuntimeExit, RuntimeLoadFails, RuntimeCrash
<1> QED
  BY <1>5 DEF Works, Stops, Ends, Same

\* A response without a status says little: that a call failed for good.
LEMMA RespondAgrees ==
  ASSUME NEW t \in Threads, RInv, NEW c \in {200, 404, 409, 500, 502}, Respond(t, c),
         UNCHANGED <<workers, states>>,
         c = 200 => rop[t] = "call", c = 502 => states[target[t]] = FAILED
  PROVE  rpc'[t] = "free" /\ Agrees(resp[t])'
<1> DEFINE r == [code |-> c, op |-> rop[t], id |-> target[t], state |-> None, pid |-> NoProc]
<1>1. rpc'[t] = "free" /\ resp'[t] = r
  BY DEF Respond, RGoto, RInv, RegistryTypeOK
<1>2. r.state = None /\ r.op = rop[t] /\ r.id = target[t] /\ r.code = c
  OBVIOUS
<1>3. None \notin {"running", "ready", "disabled"}
  BY NoneIsNoState DEF PluginState
<1> HIDE DEF r
<1> QED
  BY <1>1, <1>2, <1>3 DEF Agrees

LEMMA AInvStep ==
  ASSUME NEW t \in Threads, Threads = {t}, RInv, DInv(t), MInv(t), AInv(t), [RegistryNext]_allVars
  PROVE  AInv(t)'
<1> USE DEF AInv, Outcome, SeenFresh, Answered, InStatus
<1>0. rpc[t] \notin InManager => pc[t] = "idle"
  BY DEF DInv, Lane
<1>1. ASSUME NEW o \in RegistryOps, NEW pl \in Plugins, Request(t, o, pl) PROVE AInv(t)'
  BY <1>1 DEF Request, RGoto, RInv, RegistryTypeOK
<1>2. ASSUME FindDir(t) \/ CheckMarker(t) \/ Enable(t) \/ Disable(t) PROVE AInv(t)'
  <2>1. UNCHANGED <<workers, states, pc, ret, rop, target, seen>>
    BY <1>2 DEF FindDir, CheckMarker, Enable, Disable, vars, mgrVars, threadVars
  <2>2. CASE \E c \in {404, 409, 500} : Respond(t, c)
    BY <2>1, <2>2, RespondAgrees
  <2>3. CASE \/ rpc'[t] \in {"stop", "start", "marker"}
             \/ rpc'[t] = "st_dir" /\ rop[t] = "enable"
    BY <2>1, <2>3
  <2> QED
    BY <1>2, <2>2, <2>3 DEF FindDir, CheckMarker, Enable, Disable, RGoto, RInv, RegistryTypeOK
<1>3. ASSUME NEW o \in {"call", "start", "stop"}, Invoke(t, o) PROVE AInv(t)'
  <2>1. rpc'[t] \in InManager
    BY <1>3, InvokeMoves DEF Inside, InManager
  <2> QED
    BY <1>3, <2>1, InvokeMoves DEF Inside, InManager, Rejects
<1>4. ASSUME ManagerReturns(t) PROVE AInv(t)'
  <2>1. UNCHANGED <<workers, states, pc, ret, rop, target, seen>> /\ pc[t] = "idle"
    BY <1>4 DEF ManagerReturns, vars, mgrVars, threadVars
  <2>2. CASE Respond(t, 200) /\ rpc[t] = "in_call"
    BY <2>1, <2>2, RespondAgrees DEF DInv, Lane
  <2>3. CASE /\ Respond(t, 502) /\ rpc[t] \in InManager \ {"in_stop"}
             /\ ret[t].kind \in {"rejected", "crashed_twice"}
    BY <2>1, <2>3, RespondAgrees DEF InManager
  <2>4. CASE Respond(t, 500)
    BY <2>1, <2>4, RespondAgrees
  <2>5. CASE rpc[t] = "in_stop" /\ RGoto(t, AfterManagerStop(t)) /\ UNCHANGED resp
    <3>1. \/ rpc'[t] = "start"
          \/ rpc'[t] = "st_dir" /\ rop[t] \in {"stop", "disable"}
      BY <2>5 DEF AfterManagerStop, RGoto, DInv, Lane, RInv, RegistryTypeOK
    <3> QED
      BY <2>1, <2>5, <3>1
  <2>6. CASE rpc[t] = "in_start" /\ ret[t].kind = "ok" /\ RGoto(t, "st_dir") /\ UNCHANGED resp
    <3>1. rpc'[t] = "st_dir" /\ rop[t] \in {"start", "restart"}
      BY <2>6 DEF RGoto, DInv, Lane, RInv, RegistryTypeOK
    <3> QED
      BY <2>1, <2>6, <3>1
  <2> QED
    BY <1>4, <2>2, <2>3, <2>4, <2>5, <2>6 DEF ManagerReturns
<1>5. ASSUME StatusDir(t) \/ StatusInstall(t) \/ StatusWorker(t) \/ StatusState(t) PROVE AInv(t)'
  <2>1. UNCHANGED <<workers, states, pc, ret, rop, target>> /\ rpc[t] \in InStatus
    BY <1>5 DEF StatusDir, StatusInstall, StatusWorker, StatusState, vars, mgrVars, threadVars
  <2>2. CASE Respond(t, 404)
    BY <2>1, <2>2, RespondAgrees
  <2>3. CASE StatusDir(t) /\ ~Respond(t, 404)
    BY <2>1, <2>3 DEF StatusDir, RGoto, RInv, RegistryTypeOK
  <2>4. CASE StatusInstall(t)
    BY <2>1, <2>4 DEF StatusInstall, RGoto, RInv, RegistryTypeOK
  <2>5. CASE StatusWorker(t)
    <3>1. rpc'[t] = "st_state" /\ seen'[t].pid = workers[target[t]]
      BY <2>5 DEF StatusWorker, RGoto, RInv, RegistryTypeOK, Seen
    <3> QED
      BY <2>1, <3>1
  <2>6. CASE StatusState(t)
    <3>1. /\ rpc[t] = "st_state" /\ rpc'[t] = "st_marker"
          /\ seen'[t].state = states[target[t]] /\ seen'[t].pid = seen[t].pid
      BY <2>6 DEF StatusState, RGoto, RInv, RegistryTypeOK, Seen
    <3> QED
      BY <2>1, <3>1
  <2> QED
    BY <1>5, <2>2, <2>3, <2>4, <2>5, <2>6
<1>6. ASSUME StatusMarker(t) PROVE AInv(t)'
  <2>1. UNCHANGED <<workers, states, moved, pc, ret, rop, target>> /\ rpc[t] = "st_marker"
    BY <1>6 DEF StatusMarker, diskVars, vars, mgrVars, threadVars
  <2>2. target[t] \in Plugins /\ pc[t] = "idle"
    BY <1>0, <2>1 DEF RInv, Routed, InManager
  <2>3. CASE Respond(t, 409) \/ Respond(t, 500)
    BY <2>1, <2>3, RespondAgrees
  <2>4. CASE rpc'[t] = "call"
    BY <2>1, <2>4
  <2>5. PICK s : s = Reported(seen[t], disabled[target[t]])
    OBVIOUS
  <2>6. PICK r : r = [code |-> 200, op |-> rop[t], id |-> target[t], state |-> s, pid |-> seen[t].pid]
    OBVIOUS
  <2>7. CASE rpc'[t] = "free" /\ resp'[t] = r
    <3>1. r.state = s /\ r.id = target[t] /\ r.op = rop[t] /\ r.pid = seen[t].pid /\ r.code = 200
      BY <2>6
    <3>2. s = "running" => states[target[t]] = RUNNING
      BY <2>1, <2>5
      DEF Reported, Translate, Seen, WorkerState, NOT_STARTED, STARTING, RUNNING, FAILED, RInv, RegistryTypeOK
    <3>3. s = "ready" => states[target[t]] = NOT_STARTED
      BY <2>1, <2>5
      DEF Reported, Translate, Seen, WorkerState, NOT_STARTED, STARTING, RUNNING, FAILED, RInv, RegistryTypeOK
    <3>4. s = "disabled" => disabled[target[t]]
      BY <2>5
      DEF Reported, Translate, Seen, WorkerState, NOT_STARTED, STARTING, RUNNING, FAILED, RInv, RegistryTypeOK
    <3>5. /\ s = "ready" => workers[target[t]] = NoProc
          /\ s = "disabled" => workers[target[t]] = NoProc \/ moved[target[t]]
      BY <2>1, <2>2, <3>3, <3>4 DEF MInv, QInv, StateMatches, DInv, MarkedIdle, Marked, Disabling
    <3>6. /\ rop[t] \in {"start", "restart"} =>
               states[target[t]] = RUNNING /\ workers[target[t]] # NoProc
          /\ rop[t] \in {"stop", "disable"} =>
               states[target[t]] = NOT_STARTED /\ workers[target[t]] = NoProc
          /\ seen[t].pid = workers[target[t]]
      BY <2>1
    <3>7. Agrees(r)'
      BY <2>1, <2>2, <2>7, <3>1, <3>2, <3>5, <3>6 DEF Agrees
    <3> QED
      BY <2>1, <2>7, <3>7 DEF Agrees
  <2> QED
    BY <1>6, <2>3, <2>4, <2>5, <2>6, <2>7 DEF StatusMarker, RGoto, RInv, RegistryTypeOK
<1>7. ASSUME ManagerStep PROVE AInv(t)'
  <2>1. UNCHANGED <<rpc, rop, target, seen, resp, moved>>
    BY <1>7 DEF ManagerStep, registryVars, diskVars, routeVars
  <2>2. rpc[t] \in InManager \/ (UNCHANGED <<workers, states>> /\ pc'[t] = pc[t] /\ ret'[t] = ret[t])
    BY <1>7, ManagerEffects DEF InManager, DInv
  <2> QED
    BY <1>7, <2>1, <2>2, ManagerEffects, ManagerMoves
    DEF InManager, DInv, Agrees, InRequest
<1>8. ASSUME UNCHANGED <<workers, states, moved, pc, ret, rpc, rop, target, seen, resp>>
      PROVE  AInv(t)'
  BY <1>8 DEF Agrees
<1>9. ASSUME InstallerStep PROVE AInv(t)'
  <2>1. UNCHANGED <<workers, states, pc, ret, rpc, rop, target, seen, resp>>
    BY <1>9
    DEF InstallerStep, MoveAside, MoveIn, MoveInFails, Restore, OpenStatus, WriteStatus,
        StudioDies, vars, mgrVars, threadVars, routeVars
  <2>2. moved' = moved \/ \E pl \in Plugins : moved' = [moved EXCEPT ![pl] = TRUE]
    BY <1>9
    DEF InstallerStep, MoveAside, MoveIn, MoveInFails, Restore, OpenStatus, WriteStatus, StudioDies
  <2>3. \A pl \in Plugins : moved[pl] => moved'[pl]
    BY <2>2 DEF RInv, RegistryTypeOK
  <2> QED
    BY <2>1, <2>3 DEF Agrees
<1> HIDE DEF AInv
<1> QED
  BY <1>1, <1>2, <1>3, <1>4, <1>5, <1>6, <1>7, <1>8, <1>9
  DEF RegistryNext, RouteStep, allVars, vars, mgrVars, threadVars, registryVars, diskVars,
      routeVars

\* With one request thread, no eviction, plugins that print nothing while they
\* are imported and no status file that says "failed", every response of the registry is
\* true of the manager until the next request: the five unlocked reads of
\* status(), the two calls of restart() and the two steps of disable() never
\* combine into an answer that no state of the daemon justifies.
THEOREM AnswersAlone ==
  ASSUME NEW t \in Threads, Threads = {t}, EvictionActive = FALSE, Noisy = {},
         NoInstallFails
  PROVE  RegistrySpec => []AnswerAgrees
<1>1. RegistryInit => AInv(t)
  <2> SUFFICES ASSUME RegistryInit PROVE AInv(t)
    OBVIOUS
  <2>1. rpc[t] = "free" /\ resp[t] = NoResponse
    BY DEF RegistryInit
  <2>2. None \notin {"running", "ready", "disabled"}
    BY NoneIsNoState DEF PluginState
  <2> QED
    BY <2>1, <2>2 DEF AInv, Outcome, SeenFresh, Answered, Agrees, NoResponse, InStatus
<1>2. RInv /\ DInv(t) /\ MInv(t) /\ AInv(t) /\ [RegistryNext]_allVars => AInv(t)'
  BY AInvStep
<1>3. RegistrySpec => [](RInv /\ DInv(t) /\ MInv(t))
  <2>1. RegistrySpec => []DInv(t)
    BY DInvInvariant, PTL
  <2>2. Spec => []MInv(t)
    BY MInvInvariant, PTL
  <2> QED
    BY <2>1, <2>2, RInvInvariant, ImplementsManager, PTL
<1>4. AInv(t) => AnswerAgrees
  BY DEF AInv, Answered, Agrees, AnswerAgrees, Quiet
<1> QED
  BY <1>1, <1>2, <1>3, <1>4, PTL DEF RegistrySpec
=============================================================================
