------------------------ MODULE DaemonLifecycleProofs ------------------------
(***************************************************************************)
(* Theorems about DaemonLifecycle, for any number of Studio sessions: the  *)
(* types, that every daemon accepts the pane's token, and that the label   *)
(* says "running" only of a daemon that answers.                           *)
(***************************************************************************)
EXTENDS DaemonLifecycle, TLAPS

\* A daemon in one of these states holds the port.
Alive == {"serving", "hung"}

\* The sessions are used up in order, and an open pane belongs to one.
SessionOK ==
    /\ open => session \in Sessions
    /\ \A i \in Sessions : i > session => daemon[i] = "none"

TInv == TypeOK /\ SessionOK

\* Until a fault, one token is everywhere: in the pane, in the file and in every
\* daemon; and the file has it before the first daemon is launched.
TokenInv ==
    ~authFault =>
        /\ open => token # NoToken /\ token = tokenFile
        /\ \A i \in Sessions : daemon[i] # "none" => tokenFile # NoToken
        /\ \A i \in Sessions : daemon[i] \in Alive => daemonToken[i] = tokenFile

Inv == TInv /\ TokenInv /\ LabelHonest

-----------------------------------------------------------------------------
(* What the helpers of the actions do. *)

LEMMA NextSession ==
    ASSUME session \in 0..MaxSessions, session < MaxSessions
    PROVE  session + 1 \in Sessions /\ session \in Nat
BY SessionsAssumption DEF Sessions

\* loadOrGenerateToken keeps a token that can be read; without a fault, the pane
\* and the file hold the same one afterwards.
LEMMA TokenLoaded ==
    ASSUME StudioTypes, AuthTypes, session < MaxSessions, LoadOrGenerateToken
    PROVE  /\ AuthTypes'
           /\ authFault => authFault'
           /\ ~authFault' => token' # NoToken /\ token' = tokenFile'
           /\ ~authFault' /\ tokenFile # NoToken => tokenFile' = tokenFile
<1>0. session + 1 \in Tokens
  BY NextSession DEF StudioTypes, Tokens
<1>1. PICK readable \in BOOLEAN, failures \in {0, MaxRetries, MaxRetries + 1},
           outcome \in {"saved", "notOpened", "writeLost"} :
        LET loaded == IF readable THEN tokenFile ELSE NoToken
            generated == GenerateBytes(failures)
        IN  IF loaded # NoToken
            THEN /\ token' = loaded
                 /\ UNCHANGED <<tokenFile, authFault>>
            ELSE IF generated = NoToken
            THEN /\ token' = NoToken
                 /\ authFault' = TRUE
                 /\ UNCHANGED tokenFile
            ELSE /\ token' = generated
                 /\ tokenFile' = SaveToken(generated, outcome)
                 /\ authFault' = (authFault \/ ~readable \/ outcome # "saved")
  BY Zenon DEF LoadOrGenerateToken
<1>2. GenerateBytes(failures) \in Tokens \union {NoToken}
  BY <1>0 DEF GenerateBytes
<1>3. CASE readable /\ tokenFile # NoToken
  BY <1>1, <1>3 DEF AuthTypes
<1>4. CASE ~(readable /\ tokenFile # NoToken) /\ GenerateBytes(failures) = NoToken
  BY <1>1, <1>4 DEF AuthTypes
<1>5. CASE ~(readable /\ tokenFile # NoToken) /\ GenerateBytes(failures) # NoToken
  <2>1. /\ token' = GenerateBytes(failures)
        /\ tokenFile' = SaveToken(GenerateBytes(failures), outcome)
        /\ authFault' = (authFault \/ ~readable \/ outcome # "saved")
    BY <1>1, <1>5
  <2>2. SaveToken(GenerateBytes(failures), outcome) \in Tokens \union {NoToken}
    BY <1>2 DEF SaveToken, AuthTypes
  <2>3. outcome = "saved" => SaveToken(GenerateBytes(failures), outcome) = GenerateBytes(failures)
    BY DEF SaveToken
  <2> QED BY <1>2, <1>5, <2>1, <2>2, <2>3 DEF AuthTypes
<1> QED BY <1>3, <1>4, <1>5

\* A bootstrap step shows a label of its own and never one of a daemon.
BootShown == /\ boot' \in Steps \union {"failed"}
             /\ bootRuns' \in BOOLEAN
             /\ label' \in {"bootstrapping", "bootstrap failed"}

LEMMA StepStarts ==
    ASSUME NEW step \in Steps, NEW uvNow, StartStep(step, uvNow)
    PROVE  BootShown
BY DEF StartStep, BootShown

LEMMA StepFails ==
    ASSUME Fail
    PROVE  BootShown
BY DEF Fail, BootShown

LEMMA BootstrapStarts ==
    ASSUME EnsureReady
    PROVE  BootShown
BY StepStarts, StepFails DEF EnsureReady, InstallUv, InstallPython, Steps

LEMMA BootShownTypes ==
    ASSUME BootShown
    PROVE  BootTypes' /\ LabelTypes'
BY DEF BootShown, BootTypes, LabelTypes

\* Every finished step leads to the next one or to a failure; only the last one
\* launches the daemon.
LEMMA StepEnds ==
    ASSUME DiskTypes, BootFinished
    PROVE  /\ open /\ DiskTypes'
           /\ UNCHANGED <<session, open, auth, daemonToken, health>>
           /\ \/ BootShown /\ UNCHANGED <<procVars, daemon>> /\ boot \in Steps
              \/ /\ boot' = "ready" /\ bootRuns' = FALSE /\ label' = "starting"
                 /\ UNCHANGED <<procVars, daemon>> \/ StartDaemon
<1>1. open /\ UNCHANGED <<session, open, auth, daemonToken, health>>
  BY DEF BootFinished
<1>2. PICK ok \in BOOLEAN :
        \/ /\ \/ OnInstallUvFinished(ok)
              \/ OnInstallPythonFinished(ok)
              \/ OnCreateVenvFinished(ok)
           /\ UNCHANGED <<procVars, daemon>>
        \/ OnInstallDepsFinished(ok)
  BY DEF BootFinished
<1>3. CASE OnInstallUvFinished(ok) /\ UNCHANGED <<procVars, daemon>>
  BY <1>1, <1>3, StepStarts, StepFails DEF OnInstallUvFinished, InstallPython, Steps, DiskTypes
<1>4. CASE OnInstallPythonFinished(ok) /\ UNCHANGED <<procVars, daemon>>
  BY <1>1, <1>4, StepStarts, StepFails
     DEF OnInstallPythonFinished, CreateVenv, InstallDeps, Steps, DiskTypes, disk
<1>5. CASE OnCreateVenvFinished(ok) /\ UNCHANGED <<procVars, daemon>>
  BY <1>1, <1>5, StepStarts, StepFails
     DEF OnCreateVenvFinished, AfterCreateVenv, InstallDeps, Steps, DiskTypes
<1>6. CASE OnInstallDepsFinished(ok)
  BY <1>1, <1>6, StepFails DEF OnInstallDepsFinished, Steps, DiskTypes
<1> QED BY <1>2, <1>3, <1>4, <1>5, <1>6

\* DaemonProcess::start touches the session's own daemon only.
LEMMA DaemonStarts ==
    ASSUME DaemonTypes, StartDaemon
    PROVE  /\ ProcTypes'
           /\ daemon' \in [Sessions -> {"none", "booting", "serving", "hung", "exited"}]
           /\ \A i \in Sessions : \/ daemon'[i] = daemon[i]
                                  \/ i = session /\ daemon'[i] = "booting"
<1>1. PICK executable \in BOOLEAN :
        /\ stopRequested' = FALSE
        /\ proc' = IF executable THEN "starting" ELSE "failedToStart"
        /\ daemon' = [daemon EXCEPT ![session] = IF executable THEN "booting" ELSE @]
  BY DEF StartDaemon
<1>2. ProcTypes'
  BY <1>1 DEF ProcTypes
<1>3. CASE executable
  <2>1. daemon' = [daemon EXCEPT ![session] = "booting"]
    BY <1>1, <1>3, Zenon
  <2>2. daemon' \in [Sessions -> {"none", "booting", "serving", "hung", "exited"}]
    BY <2>1 DEF DaemonTypes
  <2>3. ASSUME NEW i \in Sessions
        PROVE  daemon'[i] = IF i = session THEN "booting" ELSE daemon[i]
    BY <2>1 DEF DaemonTypes
  <2> QED BY <1>2, <2>2, <2>3
<1>4. CASE ~executable
  <2>1. daemon' = [daemon EXCEPT ![session] = daemon[session]]
    BY <1>1, <1>4, Zenon
  <2>2. daemon' = daemon
    BY <2>1 DEF DaemonTypes
  <2> QED BY <1>2, <2>2 DEF DaemonTypes
<1> QED BY <1>3, <1>4

\* Whatever a step does not change keeps its type.
LEMMA TypesFrame ==
    ASSUME TypeOK
    PROVE  /\ UNCHANGED <<session, open>> => StudioTypes'
           /\ UNCHANGED disk => DiskTypes'
           /\ UNCHANGED auth => AuthTypes'
           /\ UNCHANGED bootVars => BootTypes'
           /\ UNCHANGED procVars => ProcTypes'
           /\ UNCHANGED <<daemon, daemonToken>> => DaemonTypes'
           /\ UNCHANGED health => HealthTypes'
           /\ UNCHANGED label => LabelTypes'
<1> USE DEF TypeOK
<1>1. UNCHANGED <<session, open>> => StudioTypes'
  BY DEF StudioTypes
<1>2. UNCHANGED disk => DiskTypes'
  BY DEF DiskTypes, disk
<1>3. UNCHANGED auth => AuthTypes'
  BY DEF AuthTypes, auth
<1>4. UNCHANGED bootVars => BootTypes'
  BY DEF BootTypes, bootVars
<1>5. UNCHANGED procVars => ProcTypes'
  BY DEF ProcTypes, procVars
<1>6. UNCHANGED <<daemon, daemonToken>> => DaemonTypes'
  BY DEF DaemonTypes
<1>7. UNCHANGED health => HealthTypes'
  BY DEF HealthTypes, health
<1>8. UNCHANGED label => LabelTypes'
  BY DEF LabelTypes
<1> QED BY <1>1, <1>2, <1>3, <1>4, <1>5, <1>6, <1>7, <1>8

-----------------------------------------------------------------------------
(* The initial states. *)

LEMMA InvInit == Init => Inv
<1> SUFFICES ASSUME Init PROVE Inv
  OBVIOUS
<1>1. StudioTypes
  <2>1. 0 \in 0..MaxSessions
    BY SessionsAssumption
  <2> QED BY <2>1 DEF Init, StudioTypes
<1>2. DiskTypes
  BY DEF Init, DiskTypes
<1>3. AuthTypes /\ DaemonTypes
  BY DEF Init, AuthTypes, DaemonTypes
<1>4. BootTypes /\ ProcTypes /\ HealthTypes /\ LabelTypes
  BY DEF Init, BootTypes, ProcTypes, HealthTypes, LabelTypes
<1>5. SessionOK /\ TokenInv /\ LabelHonest
  BY DEF Init, SessionOK, TokenInv, LabelHonest, Alive
<1> QED BY <1>1, <1>2, <1>3, <1>4, <1>5 DEF Inv, TInv, TypeOK

-----------------------------------------------------------------------------
(* One step preserves the types and the order of the sessions. *)

LEMMA TInvStep ==
    ASSUME TInv, [Next]_vars
    PROVE  TInv'
<1> USE TypesFrame DEF TInv
<1>0. session \in Nat /\ \A i \in Sessions : i > session => i # session
  BY SessionsAssumption DEF TypeOK, StudioTypes, Sessions
<1>1. CASE OpenPane
  <2>1. session < MaxSessions /\ session' = session + 1 /\ session' \in Sessions
    BY <1>1, NextSession DEF OpenPane, TypeOK, StudioTypes
  <2>2. StudioTypes'
    <3>1. session' \in 0..MaxSessions
      BY <2>1, SessionsAssumption DEF Sessions
    <3> QED BY <1>1, <3>1 DEF OpenPane, StudioTypes
  <2>3. BootTypes' /\ LabelTypes'
    BY <1>1, BootstrapStarts, BootShownTypes DEF OpenPane
  <2>4. AuthTypes'
    BY <1>1, <2>1, TokenLoaded DEF OpenPane, TypeOK
  <2>5. ProcTypes' /\ HealthTypes'
    BY <1>1 DEF OpenPane, ProcTypes, HealthTypes
  <2>6. \A i \in Sessions : i > session + 1 => i > session
    BY <1>0 DEF Sessions
  <2>7. SessionOK'
    BY <1>1, <2>1, <2>6 DEF OpenPane, SessionOK
  <2> QED BY <1>1, <2>2, <2>3, <2>4, <2>5, <2>7 DEF OpenPane, TypeOK
<1>2. CASE ClosePane
  <2>1. DaemonTypes'
    BY <1>2 DEF ClosePane, StopDaemon, TypeOK, DaemonTypes
  <2>2. \A i \in Sessions : i > session => daemon'[i] = "none"
    BY <1>0, <1>2 DEF ClosePane, StopDaemon, SessionOK, TypeOK, DaemonTypes
  <2>3. StudioTypes' /\ DiskTypes'
    BY <1>2 DEF ClosePane, TypeOK, StudioTypes, DiskTypes
  <2>4. BootTypes' /\ ProcTypes' /\ HealthTypes'
    BY <1>2 DEF ClosePane, TypeOK, BootTypes, ProcTypes, HealthTypes
  <2> QED BY <1>2, <2>1, <2>2, <2>3, <2>4 DEF ClosePane, SessionOK, TypeOK
<1>3. CASE StudioCrash
  <2>1. StudioTypes' /\ BootTypes' /\ ProcTypes' /\ HealthTypes'
    BY <1>3 DEF StudioCrash, TypeOK, StudioTypes, BootTypes, ProcTypes, HealthTypes
  <2> QED BY <1>3, <2>1 DEF StudioCrash, SessionOK, TypeOK
<1>4. CASE BootFinished
  <2>1. DiskTypes' /\ UNCHANGED <<session, open, auth, daemonToken, health>>
    BY <1>4, StepEnds DEF TypeOK
  <2>2. CASE BootShown /\ UNCHANGED <<procVars, daemon>>
    BY <2>1, <2>2, BootShownTypes DEF SessionOK, TypeOK
  <2>3. CASE /\ boot' = "ready" /\ bootRuns' = FALSE /\ label' = "starting"
             /\ UNCHANGED <<procVars, daemon>> \/ StartDaemon
    <3>1. BootTypes' /\ LabelTypes'
      BY <2>3 DEF BootTypes, LabelTypes
    <3>2. CASE UNCHANGED <<procVars, daemon>>
      BY <2>1, <3>1, <3>2 DEF SessionOK, TypeOK
    <3>3. CASE StartDaemon
      <4>1. ProcTypes' /\ DaemonTypes'
        BY <2>1, <3>3, DaemonStarts DEF DaemonTypes, TypeOK
      <4>2. SessionOK'
        BY <1>0, <2>1, <3>3, DaemonStarts DEF SessionOK, TypeOK
      <4> QED BY <2>1, <3>1, <4>1, <4>2 DEF TypeOK
    <3> QED BY <2>3, <3>2, <3>3
  <2> QED BY <1>4, <2>2, <2>3, StepEnds DEF TypeOK
<1>5. CASE OnStarted \/ OnFinished
  <2>1. ProcTypes' /\ LabelTypes'
    BY <1>5 DEF OnStarted, OnFinished, TypeOK, ProcTypes, LabelTypes
  <2>2. UNCHANGED <<session, open, disk, auth, bootVars, daemon, daemonToken, health>>
    BY <1>5 DEF OnStarted, OnFinished
  <2> QED BY <2>1, <2>2 DEF SessionOK, TypeOK
<1>6. CASE Poll \/ Answer \/ OnReplyFinished
  <2>1. HealthTypes'
    BY <1>6 DEF Poll, Answer, OnReplyFinished, RequestAfterReply, UpAfterReply, TypeOK, HealthTypes
  <2>2. LabelTypes'
    BY <1>6 DEF Poll, Answer, OnReplyFinished, LabelAfterReply, TypeOK, LabelTypes
  <2>3. UNCHANGED <<session, open, disk, auth, bootVars, procVars, daemon, daemonToken>>
    BY <1>6 DEF Poll, Answer, OnReplyFinished
  <2> QED BY <2>1, <2>2, <2>3 DEF SessionOK, TypeOK
<1>7. ASSUME NEW i \in Sessions, DaemonBoots(i)
      PROVE  TInv'
  <2>1. AuthTypes'
    BY <1>7 DEF DaemonBoots, TypeOK, AuthTypes
  <2>2. DaemonTypes'
    BY <1>7 DEF DaemonBoots, TypeOK, DaemonTypes, AuthTypes
  <2>3. SessionOK'
    BY <1>7 DEF DaemonBoots, TypeOK, DaemonTypes, SessionOK
  <2> QED BY <1>7, <2>1, <2>2, <2>3 DEF DaemonBoots, TypeOK
<1>8. ASSUME NEW i \in Sessions, DaemonExits(i) \/ DaemonHangs(i)
      PROVE  TInv'
  <2>1. DaemonTypes'
    BY <1>8 DEF DaemonExits, DaemonHangs, TypeOK, DaemonTypes
  <2>2. SessionOK'
    BY <1>8 DEF DaemonExits, DaemonHangs, TypeOK, DaemonTypes, SessionOK
  <2> QED BY <1>8, <2>1, <2>2 DEF DaemonExits, DaemonHangs, TypeOK
<1>9. CASE UNCHANGED vars
  BY <1>9 DEF vars, TypeOK, SessionOK
<1> QED BY <1>1, <1>2, <1>3, <1>4, <1>5, <1>6, <1>7, <1>8, <1>9 DEF Next

-----------------------------------------------------------------------------
(* One step preserves the one token and the honest label. *)

LEMMA TokenStep ==
    ASSUME TInv, TokenInv, [Next]_vars
    PROVE  TokenInv'
<1> USE DEF TInv, TypeOK, Alive
<1>0. CASE authFault'
  BY <1>0 DEF TokenInv
<1>1. CASE OpenPane /\ ~authFault'
  <2>1. session < MaxSessions
    BY <1>1 DEF OpenPane
  <2>2. /\ ~authFault
        /\ token' # NoToken /\ token' = tokenFile'
        /\ tokenFile # NoToken => tokenFile' = tokenFile
    BY <1>1, <2>1, TokenLoaded DEF OpenPane, AuthTypes
  <2> QED BY <1>1, <2>2 DEF OpenPane, TokenInv
<1>2. CASE ClosePane
  <2>1. \A i \in Sessions : daemon'[i] = daemon[i] \/ daemon'[i] = "exited"
    BY <1>2 DEF ClosePane, StopDaemon, DaemonTypes
  <2>2. ~authFault => tokenFile # NoToken
    BY <1>2 DEF ClosePane, TokenInv
  <2> QED BY <1>2, <2>1, <2>2 DEF ClosePane, TokenInv, auth
<1>3. CASE StudioCrash
  BY <1>3 DEF StudioCrash, TokenInv, auth
<1>4. CASE BootFinished
  <2>1. open /\ UNCHANGED <<session, open, auth, daemonToken>>
    BY <1>4, StepEnds
  <2>2. \A i \in Sessions : daemon'[i] = daemon[i] \/ daemon'[i] = "booting"
    BY <1>4, StepEnds, DaemonStarts
  <2>3. ~authFault => tokenFile # NoToken
    BY <2>1 DEF TokenInv
  <2> QED BY <2>1, <2>2, <2>3 DEF TokenInv, auth
<1>5. CASE OnStarted \/ OnFinished \/ Poll \/ Answer \/ OnReplyFinished
  <2>1. UNCHANGED <<open, auth, daemon, daemonToken>>
    BY <1>5 DEF OnStarted, OnFinished, Poll, Answer, OnReplyFinished
  <2> QED BY <2>1 DEF TokenInv, auth
<1>6. ASSUME NEW i \in Sessions, DaemonBoots(i), ~authFault'
      PROVE  TokenInv'
  <2>1. /\ ~authFault
        /\ daemonToken' = [daemonToken EXCEPT ![i] = tokenFile]
        /\ UNCHANGED <<open, tokenFile, token>>
    BY <1>6, Zenon DEF DaemonBoots
  <2>2. daemon[i] = "booting"
    BY <1>6 DEF DaemonBoots
  <2>3. \A j \in Sessions : j # i => daemon'[j] = daemon[j]
    BY <1>6 DEF DaemonBoots, DaemonTypes
  <2>4. /\ daemonToken'[i] = tokenFile
        /\ \A j \in Sessions : j # i => daemonToken'[j] = daemonToken[j]
    BY <2>1 DEF DaemonTypes
  <2> QED BY <2>1, <2>2, <2>3, <2>4 DEF TokenInv
<1>7. ASSUME NEW i \in Sessions, DaemonExits(i) \/ DaemonHangs(i)
      PROVE  TokenInv'
  <2>1. UNCHANGED <<open, auth, daemonToken>>
    BY <1>7 DEF DaemonExits, DaemonHangs
  <2>2. \A j \in Sessions : /\ daemon'[j] # "none" => daemon[j] # "none"
                            /\ daemon'[j] \in Alive => daemon[j] \in Alive
    BY <1>7 DEF DaemonExits, DaemonHangs, DaemonTypes
  <2> QED BY <2>1, <2>2 DEF TokenInv, auth
<1>8. CASE UNCHANGED vars
  BY <1>8 DEF vars, TokenInv, auth
<1> QED BY <1>0, <1>1, <1>2, <1>3, <1>4, <1>5, <1>6, <1>7, <1>8 DEF Next

LEMMA LabelStep ==
    ASSUME TInv, LabelHonest, [Next]_vars
    PROVE  LabelHonest'
<1> USE DEF TInv, TypeOK
<1>1. CASE OpenPane
  <2>1. session' = session + 1 /\ session' \in Sessions /\ session' > session
    BY <1>1, NextSession DEF OpenPane, StudioTypes
  <2>2. daemon'[session'] = "none"
    BY <1>1, <2>1 DEF OpenPane, SessionOK
  <2>3. label' # "running"
    BY <1>1, BootstrapStarts DEF OpenPane, BootShown
  <2> QED BY <2>2, <2>3 DEF LabelHonest
<1>2. CASE ClosePane \/ StudioCrash
  BY <1>2 DEF ClosePane, StudioCrash, LabelHonest
<1>3. CASE BootFinished
  <2>1. open /\ UNCHANGED <<session, open, health>>
    BY <1>3, StepEnds
  <2>2. CASE BootShown /\ UNCHANGED daemon /\ boot \in Steps
    BY <2>1, <2>2 DEF BootShown, LabelHonest, Steps
  <2>3. CASE boot' = "ready" /\ label' = "starting"
    BY <2>3 DEF LabelHonest
  <2> QED BY <1>3, <2>2, <2>3, StepEnds
<1>4. CASE OnStarted \/ OnFinished
  <2>1. UNCHANGED <<session, open, bootVars, daemon, health>> /\ label' \in {label, "waiting for health check", "crashed"}
    BY <1>4 DEF OnStarted, OnFinished
  <2> QED BY <2>1 DEF LabelHonest, bootVars, health
<1>5. CASE Poll \/ Answer
  <2>1. UNCHANGED <<session, open, bootVars, daemon, isUp, label>>
    BY <1>5 DEF Poll, Answer
  <2> QED BY <2>1 DEF LabelHonest, bootVars
<1>6. CASE OnReplyFinished
  <2>1. UNCHANGED <<session, open, bootVars, daemon>>
    BY <1>6 DEF OnReplyFinished
  <2>2. open /\ label' = "running" => isUp'
    BY <1>6 DEF OnReplyFinished, LabelAfterReply, UpAfterReply, LabelHonest, HealthTypes
  <2> QED BY <2>1, <2>2 DEF LabelHonest, bootVars
<1>7. ASSUME NEW i \in Sessions, DaemonBoots(i) \/ DaemonExits(i) \/ DaemonHangs(i)
      PROVE  LabelHonest'
  <2>1. UNCHANGED <<session, open, bootVars, health, label>>
    BY <1>7 DEF DaemonBoots, DaemonExits, DaemonHangs
  <2>2. daemon[session] = "none" /\ session \in Sessions => daemon'[session] = "none"
    BY <1>7 DEF DaemonBoots, DaemonExits, DaemonHangs, DaemonTypes
  <2> QED BY <2>1, <2>2 DEF LabelHonest, SessionOK, bootVars, health
<1>8. CASE UNCHANGED vars
  BY <1>8 DEF vars, LabelHonest, bootVars, health
<1> QED BY <1>1, <1>2, <1>3, <1>4, <1>5, <1>6, <1>7, <1>8 DEF Next

-----------------------------------------------------------------------------

LEMMA InvHolds == Spec => []Inv
<1>1. Inv /\ [Next]_vars => Inv'
  BY TInvStep, TokenStep, LabelStep DEF Inv
<1> QED BY InvInit, <1>1, PTL DEF Spec

\* The pane's parts, the disk and the daemons keep their types, for any number of
\* Studio sessions and any mix of ordinary ends and crashes.
THEOREM LifecycleTypes == Spec => []TypeOK
<1>1. Inv => TypeOK
  BY DEF Inv, TInv
<1> QED BY <1>1, InvHolds, PTL

\* Without a fault of the token's generation or file, every daemon that holds the
\* port, also one a crashed session left behind, accepts the pane's token.
THEOREM TokenAccepted == Spec => []RequestsAccepted
<1>1. Inv => RequestsAccepted
  BY DEF Inv, TokenInv, RequestsAccepted, Alive
<1> QED BY <1>1, InvHolds, PTL

\* The label says "running" only after a successful health reply, and no daemon
\* is launched by a session whose bootstrap is not complete.
THEOREM LabelIsHonest == Spec => []LabelHonest
<1>1. Inv => LabelHonest
  BY DEF Inv
<1> QED BY <1>1, InvHolds, PTL
=============================================================================
