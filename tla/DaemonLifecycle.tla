-------------------------- MODULE DaemonLifecycle --------------------------
(***************************************************************************)
(* The half of the DAZ Studio plugin that brings the daemon up and watches *)
(* it: UvBootstrapper, AuthenticationService (with SecureRandom),          *)
(* DaemonProcess, DaemonHealthMonitor and the status label of              *)
(* DzPythonBridgePane that all of them write.                              *)
(*                                                                         *)
(* One Studio session constructs one pane.  Everything the pane owns runs  *)
(* on the Qt main thread, so each slot is one atomic action; the uv        *)
(* processes, the daemons and the network run beside it.  A session ends   *)
(* with the pane's destructor or with a crash of Studio, which leaves its  *)
(* daemon alive and on the port: the next session meets it.  Session i     *)
(* launches at most one daemon, also called i.                             *)
(***************************************************************************)
EXTENDS Naturals, FiniteSets

CONSTANTS
    MaxSessions,    \* bound: Studio sessions of one behaviour
    MaxRetries      \* SecureRandom's MAX_RETRIES

ASSUME SessionsAssumption == MaxSessions \in Nat \ {0}
ASSUME RetriesAssumption == MaxRetries \in Nat \ {0}

VARIABLES
    session,        \* number of the current (or last) session
    open,           \* a pane exists
    uv,             \* bin/uv on disk: "absent", "good" or "broken" (cannot be executed)
    venv,           \* run_venv/bin/python exists
    deps,           \* the daemon package is importable in run_venv
    tokenFile,      \* dazpythonbridge_token.txt: a token, or NoToken (absent or too short)
    authFault,      \* history: a token could not be generated, read or saved
    token,          \* AuthenticationService::m_sToken, copied into every client
    boot,           \* the bootstrap step whose QProcess runs, or how the chain ended
    bootRuns,       \* FALSE when that QProcess failed to start: no finished() comes
    proc,           \* DaemonProcess::m_process and its state
    stopRequested,  \* DaemonProcess::m_stopRequested
    daemon,         \* OS state of each session's daemon process
    daemonToken,    \* daemon/auth.py's _TOKEN in each daemon
    isUp,           \* DaemonHealthMonitor::m_isUp
    request,        \* the health request: m_requestInFlight and what happened to it
    label           \* the pane's daemon status label

disk == <<uv, venv, deps>>
auth == <<tokenFile, authFault, token>>
bootVars == <<boot, bootRuns>>
procVars == <<proc, stopRequested>>
health == <<isUp, request>>
vars == <<session, open, disk, auth, bootVars, procVars, daemon, daemonToken,
          health, label>>

Sessions == 1..MaxSessions
NoToken == 0
Tokens == Sessions      \* 128 random bits: session i can only generate token i
Steps == {"install-uv", "install-python", "create-venv", "install-deps"}

StudioTypes ==
    /\ session \in 0..MaxSessions
    /\ open \in BOOLEAN
DiskTypes ==
    /\ uv \in {"absent", "good", "broken"}
    /\ venv \in BOOLEAN
    /\ deps \in BOOLEAN
AuthTypes ==
    /\ tokenFile \in Tokens \union {NoToken}
    /\ authFault \in BOOLEAN
    /\ token \in Tokens \union {NoToken}
BootTypes ==
    /\ boot \in Steps \union {"none", "ready", "failed"}
    /\ bootRuns \in BOOLEAN
ProcTypes ==
    /\ proc \in {"null", "starting", "running", "failedToStart"}
    /\ stopRequested \in BOOLEAN
DaemonTypes ==
    /\ daemon \in [Sessions -> {"none", "booting", "serving", "hung", "exited"}]
    /\ daemonToken \in [Sessions -> Tokens \union {NoToken}]
HealthTypes ==
    /\ isUp \in BOOLEAN
    /\ request \in {"none", "sent", "ok", "error"}
LabelTypes ==
    label \in {"initializing", "bootstrapping", "bootstrap failed", "starting",
               "waiting for health check", "crashed", "running", "unreachable"}

\* Every variable of the pane's parts and of the daemons keeps its type.
TypeOK == /\ StudioTypes /\ DiskTypes /\ AuthTypes /\ BootTypes
          /\ ProcTypes /\ DaemonTypes /\ HealthTypes /\ LabelTypes

Init ==
    /\ session = 0
    /\ open = FALSE
    /\ uv \in {"absent", "good"}
    /\ venv \in BOOLEAN
    /\ deps \in {FALSE, venv}
    /\ tokenFile = NoToken
    /\ authFault = FALSE
    /\ token = NoToken
    /\ boot = "none"
    /\ bootRuns = FALSE
    /\ proc = "null"
    /\ stopRequested = FALSE
    /\ daemon = [i \in Sessions |-> "none"]
    /\ daemonToken = [i \in Sessions |-> NoToken]
    /\ isUp = FALSE
    /\ request = "none"
    /\ label = "initializing"

-----------------------------------------------------------------------------
(* AuthenticationService *)

\* generateBytes: the primary source is tried MaxRetries times, the fallback
\* once.  failures is the number of attempts in a row that fail.
GenerateBytes(failures) ==
    IF failures <= MaxRetries THEN session + 1 ELSE NoToken

\* saveToken opens the file for writing, which empties it, and does not check
\* the write: the token is saved, the file could not be opened, or the write
\* was lost and the file is left empty.
SaveToken(generated, outcome) ==
    CASE outcome = "saved"     -> generated
      [] outcome = "notOpened" -> tokenFile
      [] outcome = "writeLost" -> NoToken

\* loadOrGenerateToken: a readable file with a long enough token wins, else a
\* new token is generated and saved; the caller ignores the result.
AlwaysGenerate == token' = session + 1 /\ tokenFile' = session + 1 /\ UNCHANGED authFault \* mutant
LoadOrGenerateToken ==
    \E readable \in BOOLEAN, failures \in {0, MaxRetries, MaxRetries + 1},
       outcome \in {"saved", "notOpened", "writeLost"} :
      LET loaded == IF readable THEN tokenFile ELSE NoToken
          generated == GenerateBytes(failures)
      IN  IF loaded # NoToken
          THEN /\ token' = loaded
               /\ UNCHANGED <<tokenFile, authFault>>
          ELSE IF generated = NoToken
          THEN /\ token' = NoToken
               /\ authFault' = TRUE
               /\ UNCHANGED tokenFile
          ELSE /\ token' = generated
               /\ tokenFile' = SaveToken(generated, outcome)
               /\ authFault' = (authFault \/ ~readable \/ outcome # "saved")

-----------------------------------------------------------------------------
(* UvBootstrapper: each step starts a QProcess; its finished() starts the next. *)

\* A QProcess whose program cannot be executed reports an error nobody is
\* connected to and never emits finished().  The install script itself is run
\* by the system shell, the other steps by bin/uv.
StartStep(step, uvNow) ==
    /\ boot' = step
    /\ bootRuns' = (step = "install-uv" \/ uvNow = "good")
    /\ label' = "bootstrapping"

Fail == /\ boot' = "failed"
        /\ bootRuns' = FALSE
        /\ label' = "bootstrap failed"

InstallPython(uvNow) == StartStep("install-python", uvNow)

InstallUv ==
    IF uv # "absent" THEN InstallPython(uv) ELSE StartStep("install-uv", uv)

InstallDeps == StartStep("install-deps", uv)

CreateVenv == IF venv THEN InstallDeps ELSE StartStep("create-venv", uv)

\* ensureReady, called last in the pane's wiring; ensureBaseDirExists may fail.
EnsureReady == \E baseDirExists \in BOOLEAN :
    IF baseDirExists THEN InstallUv ELSE Fail

\* What the finished process left on disk.  An install script that fails, or is
\* cut short, may leave no uv, a usable one or a truncated one; one that exits 0
\* may still have put uv elsewhere.
OnInstallUvFinished(ok) ==
    /\ boot = "install-uv"
    /\ \E installed \in IF ok THEN {"absent", "good"}
                                ELSE {"absent", "good", "broken"} :
         /\ uv' = installed
         /\ IF ~ok \/ installed = "absent" THEN Fail ELSE InstallPython(installed)
    /\ UNCHANGED <<venv, deps>>

OnInstallPythonFinished(ok) ==
    /\ boot = "install-python"
    /\ IF ok THEN CreateVenv ELSE Fail
    /\ UNCHANGED disk

VenvEndsChain == bootRuns' = FALSE /\ UNCHANGED <<boot, label>>        \* mutant
AfterCreateVenv == InstallDeps

OnCreateVenvFinished(ok) ==
    /\ boot = "create-venv"
    /\ venv' = (venv \/ ok)
    /\ IF ok THEN AfterCreateVenv ELSE Fail
    /\ UNCHANGED <<uv, deps>>

\* DaemonProcess::start, through onBootstrapReady: python either runs or cannot
\* be executed, in which case QProcess stays NotRunning and says nothing.
StartDaemon ==
    \E executable \in BOOLEAN :
      /\ stopRequested' = FALSE
      /\ proc' = IF executable THEN "starting" ELSE "failedToStart"
      /\ daemon' = [daemon EXCEPT ![session] = IF executable THEN "booting" ELSE @]

\* install-deps runs `uv pip install --reinstall`: a failure may leave run_venv
\* without the package.
OnInstallDepsFinished(ok) ==
    /\ boot = "install-deps"
    /\ IF ok
       THEN /\ deps' = TRUE
            /\ boot' = "ready"
            /\ bootRuns' = FALSE
            /\ label' = "starting"
            /\ IF proc \in {"starting", "running"}
               THEN UNCHANGED <<procVars, daemon>>
               ELSE StartDaemon
       ELSE /\ deps' \in {deps, FALSE}
            /\ Fail
            /\ UNCHANGED <<procVars, daemon>>
    /\ UNCHANGED <<uv, venv>>

BootFinished ==
    /\ open /\ bootRuns
    /\ \E ok \in BOOLEAN :
         \/ /\ \/ OnInstallUvFinished(ok)
               \/ OnInstallPythonFinished(ok)
               \/ OnCreateVenvFinished(ok)
            /\ UNCHANGED <<procVars, daemon>>
         \/ OnInstallDepsFinished(ok)
    /\ UNCHANGED <<session, open, auth, daemonToken, health>>

-----------------------------------------------------------------------------
(* The pane: construction and the end of a session. *)

\* The constructor: authentication, the health monitor (polling at once), then
\* the bootstrapper, whose first label is written synchronously.
OpenPane ==
    /\ ~open /\ session < MaxSessions
    /\ session' = session + 1
    /\ open' = TRUE
    /\ LoadOrGenerateToken
    /\ isUp' = FALSE
    /\ request' = "sent"
    /\ proc' = "null"
    /\ stopRequested' = FALSE
    /\ EnsureReady
    /\ UNCHANGED <<disk, daemon, daemonToken>>

\* What DaemonProcess::stop leaves of the process: terminated or killed, unless it
\* never ran.  waitForFinished runs onFinished, which clears m_process, so that
\* stop() then calls deleteLater on a null pointer: Studio survives that or
\* aborts, and either way the session ends here.
StopDaemon ==
    daemon' = IF proc \in {"starting", "running"}
              THEN [daemon EXCEPT ![session] = "exited"]
              ELSE daemon

\* The pane's destructor; the daemon is stopped by ~DaemonProcess, a bootstrap
\* QProcess is killed with its parent and may leave a truncated uv behind.
ClosePane ==
    /\ open
    /\ open' = FALSE
    /\ stopRequested' = (stopRequested \/ proc # "null")
    /\ StopDaemon
    /\ proc' = "null"
    /\ boot' = "none"
    /\ bootRuns' = FALSE
    /\ uv' \in IF boot = "install-uv" THEN {uv, "broken"} ELSE {uv}
    /\ request' = "none"
    /\ UNCHANGED <<session, venv, deps, auth, daemonToken, isUp, label>>

\* Studio crashes: no destructor runs and the daemon keeps the port.
StudioCrash ==
    /\ open
    /\ open' = FALSE
    /\ proc' = "null"
    /\ boot' = "none"
    /\ bootRuns' = FALSE
    /\ request' = "none"
    /\ UNCHANGED <<session, disk, auth, stopRequested, daemon, daemonToken, isUp, label>>

-----------------------------------------------------------------------------
(* DaemonProcess and the daemon processes themselves. *)

OnStarted ==
    /\ open /\ proc = "starting"
    /\ proc' = "running"
    /\ label' = "waiting for health check"
    /\ UNCHANGED <<session, open, disk, auth, bootVars, stopRequested, daemon,
                   daemonToken, health>>

\* onFinished: a started process has ended; crashed() unless stop() asked.
OnFinished ==
    /\ open /\ proc = "running" /\ daemon[session] = "exited"
    /\ proc' = "null"
    /\ label' = IF stopRequested THEN label ELSE "crashed"
    /\ UNCHANGED <<session, open, disk, auth, bootVars, stopRequested, daemon,
                   daemonToken, health>>

PortHeld == \E i \in Sessions : daemon[i] \in {"serving", "hung"}

\* daemon/auth.py is imported, then uvicorn binds the port or exits; a daemon
\* whose package is missing exits as well.
DaemonBoots(i) ==
    /\ daemon[i] = "booting"
    /\ \E readable \in BOOLEAN :
         /\ daemonToken' = [daemonToken EXCEPT ![i] =
                                IF readable THEN tokenFile ELSE NoToken]
         /\ authFault' = (authFault \/ ~readable)
    /\ daemon' = [daemon EXCEPT ![i] =
                      IF PortHeld \/ ~deps THEN "exited" ELSE "serving"]
    /\ UNCHANGED <<session, open, disk, tokenFile, token, bootVars, procVars, health, label>>

DaemonExits(i) ==
    /\ daemon[i] \in {"booting", "serving", "hung"}
    /\ daemon' = [daemon EXCEPT ![i] = "exited"]
    /\ UNCHANGED <<session, open, disk, auth, bootVars, procVars, daemonToken, health, label>>

\* The event loop of a serving daemon blocks, and may recover.
DaemonHangs(i) ==
    /\ \/ daemon[i] = "serving" /\ daemon' = [daemon EXCEPT ![i] = "hung"]
       \/ daemon[i] = "hung" /\ daemon' = [daemon EXCEPT ![i] = "serving"]
    /\ UNCHANGED <<session, open, disk, auth, bootVars, procVars, daemonToken, health, label>>

-----------------------------------------------------------------------------
(* DaemonHealthMonitor *)

Serving == \E i \in Sessions : daemon[i] = "serving"

\* poll, from the timer: skipped while a request is in flight.
PollsOnce == request = "none" /\ ~isUp                                 \* mutant
MayPoll == request = "none"

Poll ==
    /\ open /\ MayPoll
    /\ request' = "sent"
    /\ UNCHANGED <<session, open, disk, auth, bootVars, procVars, daemon, daemonToken,
                   isUp, label>>

\* The network: a serving daemon answers 200 (/health needs no token), a refused
\* or reset connection is an error, a hung daemon does not answer at all.
Answer ==
    /\ request = "sent"
    /\ Serving \/ ~PortHeld
    /\ request' = IF Serving THEN "ok" ELSE "error"
    /\ UNCHANGED <<session, open, disk, auth, bootVars, procVars, daemon, daemonToken,
                   isUp, label>>

\* onReplyFinished: the request is over, m_isUp follows it, and only transitions
\* reach the label.
UpAfterReply == request = "ok"

LabelAfterReply ==
    IF UpAfterReply = isUp THEN label
    ELSE IF UpAfterReply THEN "running" ELSE "unreachable"

KeepsFlagOnError == IF request = "ok" THEN "none" ELSE "stuck"          \* mutant
RequestAfterReply == "none"

OnReplyFinished ==
    /\ open /\ request \in {"ok", "error"}
    /\ request' = RequestAfterReply
    /\ isUp' = UpAfterReply
    /\ label' = LabelAfterReply
    /\ UNCHANGED <<session, open, disk, auth, bootVars, procVars, daemon, daemonToken>>

-----------------------------------------------------------------------------

Next ==
    \/ OpenPane
    \/ ClosePane
    \/ StudioCrash
    \/ BootFinished
    \/ OnStarted
    \/ OnFinished
    \/ Poll
    \/ Answer
    \/ OnReplyFinished
    \/ \E i \in Sessions : DaemonBoots(i) \/ DaemonExits(i) \/ DaemonHangs(i)

\* The Qt event loop delivers timers and signals, uv processes end and a booting
\* daemon gets somewhere.  Nothing is assumed of users, crashes or hangs.
Fairness ==
    /\ WF_vars(BootFinished)
    /\ WF_vars(OnStarted)
    /\ WF_vars(OnFinished)
    /\ WF_vars(Poll)
    /\ WF_vars(Answer)
    /\ WF_vars(OnReplyFinished)
    /\ \A i \in Sessions : WF_vars(DaemonBoots(i))

Spec == Init /\ [][Next]_vars /\ Fairness
-----------------------------------------------------------------------------
(* Properties *)

\* Unless the token could once not be generated, read or saved, every daemon
\* that holds the port, this session's or one an earlier crash left behind,
\* accepts the token the pane sends (AuthenticationService, daemon/auth.py).
RequestsAccepted ==
    open /\ ~authFault =>
        \A i \in Sessions : daemon[i] \in {"serving", "hung"} =>
            daemonToken[i] = token /\ token # NoToken

\* The label says "running" only while the last health reply was a success, and
\* a session whose bootstrap has not finished has launched no daemon of its own.
LabelHonest ==
    /\ open /\ label = "running" => isUp
    /\ open /\ boot # "ready" => daemon[session] = "none"

\* A daemon that keeps answering is eventually, and from then on, reported up,
\* whatever polls were skipped and whatever replies were late (m_requestInFlight).
HealthConverges == <>[](open /\ Serving) => <>[]isUp

\* A daemon that was up and is gone is noticed: the label leaves "running".
DeathNoticed ==
    (open /\ isUp /\ ~PortHeld) ~> (~open \/ PortHeld \/ (~isUp /\ label # "running"))

\* A bootstrap that has an executable uv, or none yet, comes to an end the pane
\* is told of: ready() or stepFailed().
BootstrapSettles ==
    (open /\ boot \in Steps /\ uv # "broken") ~> (~open \/ boot \in {"ready", "failed"})
=============================================================================
