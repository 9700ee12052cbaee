------------------------ MODULE PluginInstallProofs ------------------------
(***************************************************************************)
(* The overwrite-by-id protocol, for every set of versions and any number  *)
(* of installs and deaths of DAZ Studio.                                   *)
(***************************************************************************)
EXTENDS PluginInstall, SequenceTheorems, TLAPS

\* Stages at which the staging directory still holds the new version.
Unswapped == {"extracting", "stopping", "commit", "swap", "restore"}

\* Stages at which the new directory's status is what the archive brought.
Resolving == {"discard", "start_venv", "venv", "start_deps", "deps"}

\* A directory whose status file is the archive's, if any.
Fresh(dir) == dir.recorded = FALSE /\ dir.status = ShippedStatus[dir.ver]

\* What each stage of an install has established.
StageInv ==
  /\ stage \in Unswapped => staged \in Versions /\ staging > 0
  /\ stage \in {"swap", "restore"} =>
       ~Present /\ displaced # <<>> /\ displaced[Len(displaced)] \in Dirs
  /\ stage = "discard" => displaced # <<>>
  /\ stage \in Resolving => Present /\ Fresh(final)
  /\ stage \in {"start_deps", "deps"} => final.venv = TRUE
  /\ stage = "done" => entry = "zip"

\* A directory whose status was written and says "ok" has its venv and its
\* requirements.
Complete(dir) == Fresh(dir) \/ (dir.status = "ok" => dir.venv = TRUE /\ dir.deps = TRUE)
AllComplete ==
  /\ Complete(final)
  /\ \A i \in 1..Len(displaced) : Complete(displaced[i])
  /\ ReportedOk => Present /\ final.venv = TRUE /\ final.deps = TRUE

\* The inductive invariant.
InstallInv == InstallTypeOK /\ StageInv /\ AllComplete /\ WorkerRunsInstalled

-----------------------------------------------------------------------------
\* A version that was extracted is a plugin directory, and none is not.
LEMMA DirFacts ==
  /\ NoDir \notin Dirs
  /\ \A v \in Versions : /\ Extract(v) \in Dirs /\ Complete(Extract(v))
                         /\ Fresh(Extract(v)) /\ Extract(v).ver = v
  /\ \A d \in Dirs : d.ver \in Versions
  /\ NoDir.ver = None /\ Complete(NoDir)
BY InstallAssumption DEF Dirs, NoDir, Extract, Complete, Fresh

\* The last directory of a sequence, and the ones before it.
LEMMA FrontFacts ==
  ASSUME NEW S, NEW q \in Seq(S), q # <<>>
  PROVE  /\ Front(q) \in Seq(S)
         /\ Len(Front(q)) = Len(q) - 1
         /\ \A i \in 1..Len(q) - 1 : Front(q)[i] = q[i]
         /\ Last(q) = q[Len(q)]
         /\ Last(q) \in S
         /\ Len(q) \in Nat \ {0}
<1>1. Len(q) \in Nat \ {0} /\ q \in [1..Len(q) -> S]
  BY EmptySeq
<1>2. Front(q) = [i \in 1..Len(q) - 1 |-> q[i]]
  BY <1>1 DEF Front
<1>3. Front(q) \in Seq(S) /\ Len(Front(q)) = Len(q) - 1
  BY <1>1, <1>2
<1>4. QED
  BY <1>1, <1>2, <1>3 DEF Last

-----------------------------------------------------------------------------
\* Adding a directory to the displaced ones.
LEMMA AppendFacts ==
  ASSUME NEW S, NEW q \in Seq(S), NEW d \in S
  PROVE  /\ Append(q, d) \in Seq(S)
         /\ Len(Append(q, d)) = Len(q) + 1
         /\ \A i \in 1..Len(q) : Append(q, d)[i] = q[i]
         /\ Append(q, d)[Len(q) + 1] = d
         /\ Append(q, d) # <<>>
         /\ Len(q) \in Nat
<1>1. Append(q, d) \in Seq(S) /\ Len(Append(q, d)) = Len(q) + 1 /\ Len(q) \in Nat
  OBVIOUS
<1>2. Append(q, d) # <<>>
  BY <1>1, EmptySeq
<1>3. QED
  BY <1>1, <1>2

\* The invariant holds of an installation without plugin.
LEMMA InstallInit == Init => InstallInv
BY DirFacts DEF Init, InstallInv, InstallTypeOK, StageInv, AllComplete, WorkerRunsInstalled,
   Stages, Unswapped, Resolving, Present, ReportedOk

\* A concluded dependency installation leaves a directory of the same version,
\* complete if it says so.
LEMMA ConcludeFacts ==
  ASSUME NEW d \in Dirs, NEW r \in {"ok", "failed"}, Conclude(d, r),
         Complete(d), r = "ok" => d.venv = TRUE /\ d.deps = TRUE
  PROVE  /\ final' \in Dirs /\ final'.ver = d.ver /\ Complete(final')
         /\ r = "ok" => final'.venv = TRUE /\ final'.deps = TRUE
         /\ stage' = "idle" /\ staged' = None /\ result' = r /\ entry' = entry
<1>1. PICK opens \in StatusOpens : final' = IF opens THEN [d EXCEPT !.status = r, !.recorded = TRUE] ELSE d
  BY DEF Conclude
<1>2. CASE final' = d
  BY <1>2 DEF Conclude, Finish
<1>3. CASE final' = [d EXCEPT !.status = r, !.recorded = TRUE]
  <2>1. /\ final' \in Dirs /\ final'.ver = d.ver /\ final'.status = r
        /\ final'.venv = d.venv /\ final'.deps = d.deps
    BY <1>3 DEF Dirs
  <2>2. Complete(final')
    BY <2>1 DEF Complete
  <2>3. QED
    BY <2>1, <2>2 DEF Conclude, Finish
<1>4. QED
  BY <1>1, <1>2, <1>3

\* A step of the dependency installer that leaves a directory of the same
\* version preserves the invariant.
LEMMA DepsKeepInv ==
  ASSUME InstallInv, Present, stage \notin Unswapped,
         final' \in Dirs, final'.ver = final.ver, Complete(final'),
         stage' = "idle" \/ (stage' = "start_deps" /\ Fresh(final)' /\ final'.venv = TRUE),
         staged' \in Versions \cup {None},
         stage' = "idle" /\ result' = "ok" => final'.venv = TRUE /\ final'.deps = TRUE,
         result' \in {"none", "ok", "failed"}, entry' = entry,
         UNCHANGED <<displaced, staging, stopReq, worker, installs, crashes>>
  PROVE  InstallInv'
BY DirFacts DEF InstallInv, InstallTypeOK, StageInv, AllComplete, WorkerRunsInstalled,
   Stages, Unswapped, Resolving, Present, ReportedOk

\* The directories are untouched by everything but commit and the dependency
\* installer.
LEMMA FlowKeepsInv ==
  ASSUME InstallInv, UNCHANGED <<final, displaced>>,
         \/ Extracted \/ StopReplyFinished \/ ExtractionFails
         \/ InstallReturns \/ CreateVenv \/ InstallDeps
         \/ DaemonStops \/ DaemonStarts \/ WorkerEnds \/ Crash
         \/ \E v \in Versions, e \in {"plugin", "zip"} : Install(v, e)
  PROVE  InstallInv'
<1> USE DEF InstallInv, InstallTypeOK, StageInv, AllComplete, WorkerRunsInstalled,
        Stages, Unswapped, Resolving, Present, ReportedOk
<1>1. CASE Extracted
  BY <1>1 DEF Extracted, Continue, Finish
<1>2. CASE StopReplyFinished
  BY <1>2 DEF StopReplyFinished, Continue, dirVars
<1>3. CASE ExtractionFails
  BY <1>3 DEF ExtractionFails, Finish
<1>4. CASE InstallReturns
  BY <1>4 DEF InstallReturns, Finish, dirVars
<1>5. CASE CreateVenv
  BY <1>5 DEF CreateVenv, StartProcess, Continue, dirVars
<1>6. CASE InstallDeps
  BY <1>6 DEF InstallDeps, StartProcess, Continue, dirVars
<1>7. CASE DaemonStops
  BY <1>7 DEF DaemonStops, dirVars, flowVars
<1>8. CASE DaemonStarts
  BY <1>8, DirFacts DEF DaemonStarts, dirVars, flowVars
<1>9. CASE WorkerEnds
  BY <1>9 DEF WorkerEnds, dirVars, flowVars
<1>10. CASE Crash
  BY <1>10 DEF Crash, dirVars
<1>11. CASE \E v \in Versions, e \in {"plugin", "zip"} : Install(v, e)
  BY <1>11 DEF Install
<1>12. QED
  BY <1>1, <1>2, <1>3, <1>4, <1>5, <1>6, <1>7, <1>8, <1>9, <1>10, <1>11

\* The two renames, the way back, and the removal of the displaced install.
LEMMA CommitKeepsInv ==
  ASSUME InstallInv, MoveAside \/ MoveIn \/ Restore \/ RemoveDisplaced
  PROVE  InstallInv'
<1> USE DEF InstallInv, InstallTypeOK, StageInv, AllComplete, WorkerRunsInstalled,
        Stages, Unswapped, Resolving, Present, ReportedOk, DropStaging, NextAfterSwap, Continue, Finish
<1>1. CASE MoveAside
  <2>1. CASE displaced' = Append(displaced, final) /\ final' = NoDir /\ stage' = "swap"
             /\ staging' = staging /\ ~(FileLocks /\ worker # None)
    <3>1. final \in Dirs /\ stage = "commit"
      BY <1>1 DEF MoveAside
    <3>2. /\ displaced' \in Seq(Dirs \cup {NoDir})
          /\ Len(displaced') = Len(displaced) + 1
          /\ displaced' # <<>>
          /\ displaced'[Len(displaced')] = final
          /\ \A i \in 1..Len(displaced') : Complete(displaced'[i])
      <4>1. Len(displaced) \in Nat /\ final \in Dirs \cup {NoDir}
        BY <3>1
      <4>2. QED
        BY <2>1, <4>1, AppendFacts
    <3>3. QED
      BY <1>1, <2>1, <3>1, <3>2, DirFacts DEF MoveAside
  <2>2. CASE UNCHANGED <<final, displaced>> /\ DropStaging /\ Finish("failed")
    BY <1>1, <2>2 DEF MoveAside
  <2>3. QED
    BY <1>1, <2>1, <2>2 DEF MoveAside
<1>2. CASE MoveIn
  BY <1>2, DirFacts DEF MoveIn
<1>3. CASE Restore
  <2>1. /\ displaced # <<>> /\ displaced[Len(displaced)] \in Dirs /\ ~Present
        /\ Len(displaced) \in Nat \ {0}
        /\ Last(displaced) = displaced[Len(displaced)]
    BY <1>3, FrontFacts DEF Restore
  <2>2. CASE final' = Last(displaced) /\ displaced' = Front(displaced)
    <3>1. /\ Complete(final')
          /\ displaced' \in Seq(Dirs \cup {NoDir})
          /\ \A i \in 1..Len(displaced') : Complete(displaced'[i])
      BY <2>1, <2>2, FrontFacts
    <3>2. QED
      BY <1>3, <2>1, <2>2, <3>1, DirFacts DEF Restore
  <2>3. CASE UNCHANGED <<final, displaced>>
    BY <1>3, <2>3 DEF Restore
  <2>4. QED
    BY <1>3, <2>2, <2>3 DEF Restore
<1>4. CASE RemoveDisplaced
  <2>1. /\ displaced # <<>> /\ Present
        /\ Front(displaced) \in Seq(Dirs \cup {NoDir})
        /\ Len(displaced) \in Nat \ {0}
        /\ \A i \in 1..Len(Front(displaced)) : Complete(Front(displaced)[i])
    <3>1. displaced # <<>> /\ Present /\ displaced \in Seq(Dirs \cup {NoDir})
      BY <1>4 DEF RemoveDisplaced
    <3>2. QED
      BY <3>1, FrontFacts
  <2>2. CASE displaced' = Front(displaced)
    BY <1>4, <2>1, <2>2 DEF RemoveDisplaced
  <2>3. CASE displaced' = Append(Front(displaced), NoDir)
    <3>1. /\ displaced' \in Seq(Dirs \cup {NoDir})
          /\ \A i \in 1..Len(displaced') : Complete(displaced'[i])
      BY <2>1, <2>3, AppendFacts, DirFacts
    <3>2. QED
      BY <1>4, <2>1, <3>1 DEF RemoveDisplaced
  <2>4. QED
    BY <1>4, <2>2, <2>3 DEF RemoveDisplaced
<1>5. QED
  BY <1>1, <1>2, <1>3, <1>4


\* A finished step of uv leaves a directory of the same version, complete if it
\* says so.
LEMMA UvFacts ==
  ASSUME InstallInv, CreateVenvFinished \/ InstallDepsFinished
  PROVE  /\ Present /\ stage \in {"venv", "deps"} /\ final \in Dirs
         /\ final' \in Dirs /\ final'.ver = final.ver /\ Complete(final')
         /\ \/ stage' = "idle" /\ staged' = None
            \/ stage' = "start_deps" /\ staged' = staged
               /\ Fresh(final)' /\ final'.venv = TRUE
         /\ stage' = "idle" /\ result' = "ok" => final'.venv = TRUE /\ final'.deps = TRUE
         /\ result' \in {"none", "ok", "failed"} /\ entry' = entry
         /\ UNCHANGED <<displaced, staging, stopReq, worker, installs, crashes>>
<1>1. /\ Present /\ stage \in {"venv", "deps"} /\ final \in Dirs
      /\ Fresh(final) /\ (stage = "deps" => final.venv = TRUE)
      /\ result \in {"none", "ok", "failed"}
      /\ UNCHANGED <<displaced, staging, stopReq, worker, installs, crashes>>
  BY DEF InstallInv, InstallTypeOK, StageInv, Resolving, Present,
     CreateVenvFinished, InstallDepsFinished
<1>2. CASE \E made \in BOOLEAN : Fail([final EXCEPT !.venv = made])
  <2>1. PICK made \in BOOLEAN : Conclude([final EXCEPT !.venv = made], "failed")
    BY <1>2 DEF Fail
  <2> DEFINE d == [final EXCEPT !.venv = made]
  <2>2. d \in Dirs /\ d.ver = final.ver /\ Fresh(d)
    BY <1>1 DEF Dirs, Fresh
  <2> HIDE DEF d
  <2>3. Complete(d)
    BY <2>2 DEF Complete
  <2>4. Conclude(d, "failed")
    BY <2>1 DEF d
  <2>5. QED
    BY <1>1, <2>2, <2>3, <2>4, ConcludeFacts
<1>3. CASE final' = [final EXCEPT !.venv = TRUE] /\ Continue("start_deps")
  <2>1. /\ final' \in Dirs /\ final'.ver = final.ver
        /\ Fresh(final)' /\ final'.venv = TRUE
    BY <1>1, <1>3 DEF Dirs, Fresh
  <2>2. QED
    BY <1>1, <1>3, <2>1 DEF Continue, Complete
<1>4. CASE Conclude([final EXCEPT !.venv = TRUE, !.deps = TRUE], "ok")
  <2> DEFINE d == [final EXCEPT !.venv = TRUE, !.deps = TRUE]
  <2>1. d \in Dirs /\ d.ver = final.ver /\ d.venv = TRUE /\ d.deps = TRUE
    BY <1>1 DEF Dirs
  <2>2. Conclude(d, "ok")
    BY <1>4
  <2> HIDE DEF d
  <2>3. QED
    BY <1>1, <2>1, <2>2, ConcludeFacts DEF Complete
<1>5. CASE stage = "deps" /\ Conclude([final EXCEPT !.deps = TRUE], "ok")
  <2> DEFINE d == [final EXCEPT !.deps = TRUE]
  <2>1. d \in Dirs /\ d.ver = final.ver /\ d.venv = TRUE /\ d.deps = TRUE
    BY <1>1, <1>5 DEF Dirs
  <2>2. Conclude(d, "ok")
    BY <1>5
  <2> HIDE DEF d
  <2>3. QED
    BY <1>1, <2>1, <2>2, ConcludeFacts DEF Complete
<1>6. CASE Fail(final)
  BY <1>1, <1>6, ConcludeFacts DEF Fail, Complete
<1>7. QED
  BY <1>2, <1>3, <1>4, <1>5, <1>6 DEF CreateVenvFinished, InstallDepsFinished, DepsOutcome

\* The invariant is inductive.
LEMMA InstallStep == InstallInv /\ [Next]_vars => InstallInv'
<1> SUFFICES ASSUME InstallInv, [Next]_vars PROVE InstallInv'
  OBVIOUS
<1>1. CASE CreateVenvFinished \/ InstallDepsFinished
  <2>1. staged \in Versions \cup {None}
    BY DEF InstallInv, InstallTypeOK
  <2>2. stage \notin Unswapped
    BY <1>1, UvFacts DEF Unswapped
  <2>3. QED
    <3>1. staged' \in Versions \cup {None}
      BY <1>1, <2>1, UvFacts
    <3>2. Present /\ final' \in Dirs /\ final'.ver = final.ver /\ Complete(final')
      BY <1>1, UvFacts
    <3>3. stage' = "idle" \/ (stage' = "start_deps" /\ Fresh(final)' /\ final'.venv = TRUE)
      BY <1>1, UvFacts
    <3>4. /\ stage' = "idle" /\ result' = "ok" => final'.venv = TRUE /\ final'.deps = TRUE
          /\ result' \in {"none", "ok", "failed"} /\ entry' = entry
          /\ UNCHANGED <<displaced, staging, stopReq, worker, installs, crashes>>
      BY <1>1, UvFacts
    <3>5. QED
      BY <2>2, <3>1, <3>2, <3>3, <3>4, DepsKeepInv
<1>2. CASE MoveAside \/ MoveIn \/ Restore \/ RemoveDisplaced
  BY <1>2, CommitKeepsInv
<1>3. CASE \/ Extracted \/ StopReplyFinished \/ ExtractionFails
           \/ InstallReturns \/ CreateVenv \/ InstallDeps
           \/ DaemonStops \/ DaemonStarts \/ WorkerEnds \/ Crash
           \/ \E v \in Versions, e \in {"plugin", "zip"} : Install(v, e)
  <2>1. UNCHANGED <<final, displaced>>
    BY <1>3 DEF Extracted, StopReplyFinished, ExtractionFails, InstallReturns, CreateVenv,
       InstallDeps, DaemonStops, DaemonStarts, WorkerEnds, Crash, Install, dirVars
  <2>2. QED
    BY <1>3, <2>1, FlowKeepsInv
<1>4. CASE UNCHANGED vars
  BY <1>4 DEF vars, dirVars, flowVars, InstallInv, InstallTypeOK, StageInv, AllComplete,
     WorkerRunsInstalled, Stages, Unswapped, Resolving, Present, ReportedOk
<1>5. QED
  BY <1>1, <1>2, <1>3, <1>4 DEF Next, InstallerStep

\* Every reachable state satisfies the invariant.
LEMMA InstallInvariant == Spec => []InstallInv
BY InstallInit, InstallStep, PTL DEF Spec

-----------------------------------------------------------------------------
\* The types of the directories and of the installer's members.
THEOREM InstallTypes == Spec => []InstallTypeOK
<1>1. InstallInv => InstallTypeOK
  BY DEF InstallInv
<1>2. QED
  BY <1>1, InstallInvariant, PTL

\* writeStatusFile() never vouches for an incomplete venv, nor does finished():
\* an "ok" beside one can only be the archive's own, until it is overwritten.
THEOREM OkIsComplete == Spec => []ReadyMeansComplete
<1>1. InstallInv => ReadyMeansComplete
  BY DEF InstallInv, InstallTypeOK, Dirs, AllComplete, Complete, Fresh, ReadyMeansComplete, Present
<1>2. QED
  BY <1>1, InstallInvariant, PTL

\* Where files in use cannot be moved, a worker runs the installed version.
THEOREM LocksKeepWorkerCurrent == Spec => []WorkerRunsInstalled
<1>1. InstallInv => WorkerRunsInstalled
  BY DEF InstallInv
<1>2. QED
  BY <1>1, InstallInvariant, PTL

-----------------------------------------------------------------------------
\* Steps that leave the recoverable version alone offer, give up, or stutter.
LEMMA SlotKept ==
  ASSUME InstallInv, InstallInv', Recoverable' = Recoverable,
         \/ Offered' = Offered
         \/ Offered' = None
         \/ Offered = None /\ Offered' \in Versions
  PROVE  [Slot!SlotNext]_(Slot!slotVars)
BY DEF Slot!SlotNext, Slot!slotVars, Slot!Offer, Slot!GiveUp, Slot!Accept

\* A swap that succeeds accepts the offered version.
LEMMA SlotSwapped ==
  ASSUME Offered \in Versions, Recoverable' = Offered, Offered' = None
  PROVE  [Slot!SlotNext]_(Slot!slotVars)
BY InstallAssumption DEF Slot!SlotNext, Slot!slotVars, Slot!Accept

\* Every step of an install is a step of the slot, or none.
LEMMA SlotStep ==
  ASSUME InstallInv, InstallInv', [Next]_vars
  PROVE  [Slot!SlotNext]_(Slot!slotVars)
<1> DEFINE Offering == {"extracting", "stopping", "commit", "swap"}
<1>0. /\ staged \in Versions \cup {None}
      /\ stage \in Offering => staged \in Versions
      /\ final \in Dirs \cup {NoDir}
      /\ displaced \in Seq(Dirs \cup {NoDir})
  BY DEF InstallInv, InstallTypeOK, StageInv, Unswapped
<1>1. CASE CreateVenvFinished \/ InstallDepsFinished
  <2>1. /\ Present /\ Present' /\ final'.ver = final.ver
        /\ stage \notin Offering /\ stage' \notin Offering
    BY <1>1, UvFacts, DirFacts DEF Present
  <2>2. Recoverable' = Recoverable /\ Offered' = Offered
    BY <2>1 DEF Recoverable, Offered
  <2>3. QED
    BY <2>2, SlotKept
<1>2. CASE \/ Extracted \/ StopReplyFinished \/ ExtractionFails
           \/ InstallReturns \/ CreateVenv \/ InstallDeps
           \/ DaemonStops \/ DaemonStarts \/ WorkerEnds \/ Crash
           \/ \E v \in Versions, e \in {"plugin", "zip"} : Install(v, e)
  <2>1. UNCHANGED <<final, displaced>>
    BY <1>2 DEF Extracted, StopReplyFinished, ExtractionFails, InstallReturns, CreateVenv,
       InstallDeps, DaemonStops, DaemonStarts, WorkerEnds, Crash, Install, dirVars
  <2>2. Recoverable' = Recoverable
    BY <2>1 DEF Recoverable, Present
  <2>3. \/ Offered' = Offered
        \/ Offered' = None
        \/ Offered = None /\ Offered' \in Versions
    BY <1>2 DEF Extracted, StopReplyFinished, ExtractionFails, InstallReturns, CreateVenv,
       InstallDeps, DaemonStops, DaemonStarts, WorkerEnds, Crash, Install, flowVars,
       StartProcess, Continue, Finish, NextAfterSwap, Offered
  <2>4. QED
    BY <2>2, <2>3, SlotKept
<1>3. CASE MoveAside
  <2>1. CASE displaced' = Append(displaced, final) /\ final' = NoDir /\ Continue("swap")
    <3>1. Present /\ final \in Dirs /\ stage = "commit"
      BY <1>0, <1>3 DEF MoveAside, Present
    <3>2. displaced' # <<>> /\ Last(displaced') = final
      BY <1>0, <2>1, AppendFacts DEF Last
    <3>3. Recoverable' = Recoverable
      BY <2>1, <3>1, <3>2 DEF Recoverable, Present
    <3>4. Offered' = Offered
      BY <2>1, <3>1 DEF Offered, Continue
    <3>5. QED
      BY <3>3, <3>4, SlotKept
  <2>2. CASE UNCHANGED <<final, displaced>> /\ Finish("failed")
    <3>1. Recoverable' = Recoverable /\ Offered' = None
      BY <2>2 DEF Recoverable, Present, Offered, Finish
    <3>2. QED
      BY <3>1, SlotKept
  <2>3. QED
    BY <1>3, <2>1, <2>2 DEF MoveAside
<1>4. CASE MoveIn
  <2>1. stage \in Offering /\ Offered \in Versions /\ Offered = staged
    BY <1>0, <1>4 DEF MoveIn, Offered
  <2>2. CASE final' = Extract(staged) /\ stage' \notin Offering
    <3>1. Recoverable' = Offered /\ Offered' = None
      BY <2>1, <2>2, DirFacts DEF Recoverable, Present, Offered
    <3>2. QED
      BY <2>1, <3>1, SlotSwapped
  <2>3. CASE UNCHANGED <<final, displaced>> /\ stage' \notin Offering
    <3>1. Recoverable' = Recoverable /\ Offered' = None
      BY <2>3 DEF Recoverable, Present, Offered
    <3>2. QED
      BY <3>1, SlotKept
  <2>4. QED
    BY <1>4, <2>2, <2>3 DEF MoveIn, Continue, Finish, NextAfterSwap
<1>5. CASE Restore
  <2>1. /\ ~Present /\ displaced # <<>> /\ Last(displaced) \in Dirs
        /\ stage = "restore" /\ stage' = "idle"
    BY <1>5 DEF Restore, Finish, InstallInv, StageInv, Last
  <2>2. Recoverable' = Recoverable
    <3>1. CASE final' = Last(displaced)
      BY <2>1, <3>1, DirFacts DEF Recoverable, Present
    <3>2. CASE UNCHANGED <<final, displaced>>
      BY <3>2 DEF Recoverable, Present
    <3>3. QED
      BY <1>5, <3>1, <3>2 DEF Restore
  <2>3. Offered' = None
    BY <2>1 DEF Offered
  <2>4. QED
    BY <2>2, <2>3, SlotKept
<1>6. CASE RemoveDisplaced
  <2>1. Recoverable' = Recoverable /\ Offered' = None
    BY <1>6 DEF RemoveDisplaced, InstallInv, StageInv, Resolving, Recoverable, Present,
       Offered, Continue, NextAfterSwap
  <2>2. QED
    BY <2>1, SlotKept
<1>7. CASE UNCHANGED vars
  BY <1>7, SlotKept DEF vars, dirVars, flowVars, Recoverable, Present, Offered
<1>8. QED
  BY <1>1, <1>2, <1>3, <1>4, <1>5, <1>6, <1>7 DEF Next, InstallerStep

\* Overwrite-by-id, with its failed renames, its best-effort restore and DAZ
\* Studio dying between any two operations, keeps what PluginSlot promises: the
\* recoverable version is only ever replaced by the one offered.
THEOREM ImplementsSlot == Spec => SlotImplemented
<1>1. Init => Slot!SlotInit
  BY DEF Init, Slot!SlotInit, Recoverable, Present, Offered
<1>2. InstallInv /\ InstallInv' /\ [Next]_vars => [Slot!SlotNext]_(Slot!slotVars)
  BY SlotStep
<1>3. QED
  BY <1>1, <1>2, InstallInvariant, PTL DEF Spec, SlotImplemented, Slot!SlotSpec

-----------------------------------------------------------------------------
\* A staging directory belongs to the install in progress, or to one that DAZ
\* Studio died in.
StagingInv ==
  /\ entry = "plugin"
  /\ staging <= crashes + IF stage \in Unswapped THEN 1 ELSE 0

\* A directory whose status was never written is the one being resolved.
Recorded(dir) == dir = NoDir \/ dir.recorded = TRUE
RecordedInv ==
  /\ crashes = 0
  /\ stage \notin Resolving \cup {"hung"} => Recorded(final)
  /\ \A i \in 1..Len(displaced) : Recorded(displaced[i])

LEMMA StagingStep ==
  ASSUME Entries \subseteq {"plugin"}, InstallInv, StagingInv, [Next]_vars
  PROVE  StagingInv'
<1> USE DEF StagingInv, InstallInv, InstallTypeOK, StageInv, Unswapped, Resolving
<1>1. ASSUME NEW v \in Versions, NEW e \in {"plugin", "zip"}, Install(v, e) PROVE StagingInv'
  BY <1>1 DEF Install
<1>2. CASE ExtractionFails \/ Extracted \/ StopReplyFinished
  BY <1>2 DEF ExtractionFails, Extracted, StopReplyFinished, Continue, Finish, dirVars
<1>3. CASE MoveAside \/ MoveIn \/ Restore \/ RemoveDisplaced \/ InstallReturns
  BY <1>3
  DEF MoveAside, MoveIn, Restore, RemoveDisplaced, InstallReturns, DropStaging, NextAfterSwap,
      Continue, Finish, dirVars
<1>4. CASE CreateVenv \/ InstallDeps
  BY <1>4 DEF CreateVenv, InstallDeps, StartProcess, Continue, dirVars
<1>5. CASE CreateVenvFinished \/ InstallDepsFinished
  BY <1>5, UvFacts
<1>6. CASE Crash
  BY <1>6 DEF Crash, dirVars
<1>7. CASE DaemonStops \/ DaemonStarts \/ WorkerEnds \/ UNCHANGED vars
  BY <1>7 DEF DaemonStops, DaemonStarts, WorkerEnds, vars, dirVars, flowVars
<1> QED
  BY <1>1, <1>2, <1>3, <1>4, <1>5, <1>6, <1>7 DEF Next, InstallerStep

\* Concluding a dependency installation records how it ended.
LEMMA ConcludeRecords ==
  ASSUME FALSE \notin StatusOpens, NEW d \in Dirs, NEW r \in {"ok", "failed"}, Conclude(d, r)
  PROVE  Recorded(final')
<1>1. final' = [d EXCEPT !.status = r, !.recorded = TRUE]
  BY InstallAssumption DEF Conclude
<1> QED
  BY <1>1 DEF Recorded, Dirs

LEMMA RecordedStep ==
  ASSUME FALSE \notin StatusOpens, MaxCrashes = 0, Entries \subseteq {"plugin"},
         InstallInv, StagingInv, RecordedInv, [Next]_vars
  PROVE  RecordedInv'
<1> USE DEF RecordedInv, InstallInv, InstallTypeOK, StageInv, Unswapped, Resolving
<1>1. CASE ExtractionFails \/ Extracted \/ StopReplyFinished \/ InstallReturns
  BY <1>1 DEF ExtractionFails, Extracted, StopReplyFinished, InstallReturns, Continue, Finish,
              dirVars, StagingInv
<1>2. CASE MoveAside
  <2>1. CASE displaced' = Append(displaced, final) /\ final' = NoDir
    <3>1. \A i \in 1..Len(displaced') : Recorded(displaced'[i])
      <4>1. Len(displaced) \in Nat /\ Recorded(final)
        BY <1>2 DEF MoveAside
      <4> QED
        BY <2>1, <4>1, AppendFacts
    <3> QED
      BY <1>2, <2>1, <3>1 DEF MoveAside, Recorded
  <2>2. CASE UNCHANGED <<final, displaced>>
    BY <1>2, <2>2 DEF MoveAside, Continue, Finish
  <2> QED
    BY <1>2, <2>1, <2>2 DEF MoveAside
<1>3. CASE MoveIn
  BY <1>3 DEF MoveIn, Continue, Finish, NextAfterSwap, StagingInv, Recorded, Present
<1>4. CASE Restore
  <2>1. CASE final' = Last(displaced) /\ displaced' = Front(displaced)
    <3>1. displaced # <<>>
      BY <1>4 DEF Restore
    <3>2. Recorded(final') /\ \A i \in 1..Len(displaced') : Recorded(displaced'[i])
      BY <2>1, <3>1, FrontFacts
    <3> QED
      BY <1>4, <3>2 DEF Restore
  <2>2. CASE UNCHANGED <<final, displaced>>
    BY <1>4, <2>2 DEF Restore, Finish
  <2> QED
    BY <1>4, <2>1, <2>2 DEF Restore
<1>5. CASE RemoveDisplaced
  <2>1. displaced # <<>>
    BY <1>5 DEF RemoveDisplaced
  <2>2. \A i \in 1..Len(Front(displaced)) : Recorded(Front(displaced)[i])
    BY <2>1, FrontFacts
  <2>3. \A i \in 1..Len(displaced') : Recorded(displaced'[i])
    BY <1>5, <2>1, <2>2, FrontFacts, AppendFacts DEF RemoveDisplaced, Recorded
  <2> QED
    BY <1>5, <2>3 DEF RemoveDisplaced, Continue, NextAfterSwap, StagingInv
<1>6. CASE CreateVenv \/ InstallDeps
  BY <1>6 DEF CreateVenv, InstallDeps, StartProcess, Continue, dirVars
<1>7. CASE CreateVenvFinished \/ InstallDepsFinished
  <2>1. final \in Dirs /\ UNCHANGED <<displaced, crashes>>
    BY <1>7, UvFacts
  <2>2. stage' = "start_deps" \/ Recorded(final')
    <3>1. \A b \in BOOLEAN : /\ [final EXCEPT !.venv = b] \in Dirs
                             /\ [final EXCEPT !.deps = b] \in Dirs
                             /\ [final EXCEPT !.venv = b, !.deps = b] \in Dirs
      BY <2>1 DEF Dirs
    <3> QED
      BY <1>7, <2>1, <3>1, ConcludeRecords
      DEF CreateVenvFinished, InstallDepsFinished, DepsOutcome, Fail, Continue
  <2> QED
    BY <2>1, <2>2
<1>8. CASE Crash
  BY <1>8 DEF Crash
<1>9. CASE DaemonStops \/ DaemonStarts \/ WorkerEnds \/ UNCHANGED vars
  BY <1>9 DEF DaemonStops, DaemonStarts, WorkerEnds, vars, dirVars, flowVars
<1>10. ASSUME NEW v \in Versions, NEW e \in {"plugin", "zip"}, Install(v, e) PROVE RecordedInv'
  BY <1>10 DEF Install
<1> HIDE DEF RecordedInv
<1> QED
  BY <1>1, <1>2, <1>3, <1>4, <1>5, <1>6, <1>7, <1>8, <1>9, <1>10 DEF Next, InstallerStep

LEMMA StagingInvariant == ASSUME Entries \subseteq {"plugin"} PROVE Spec => []StagingInv
<1>1. Init => StagingInv
  BY DEF Init, StagingInv, Unswapped
<1>2. InstallInv /\ StagingInv /\ [Next]_vars => StagingInv'
  BY StagingStep
<1> QED
  BY <1>1, <1>2, InstallInvariant, PTL DEF Spec

\* PluginInstaller removes its staging directory on every path: when no install
\* is in progress there are at most as many of them as DAZ Studio died in, after
\* any number of installs that fail at any step.
THEOREM StagingAccounted ==
  ASSUME Entries \subseteq {"plugin"}
  PROVE  Spec => [](stage = "idle" => staging <= crashes)
<1>1. InstallInv /\ StagingInv => (stage = "idle" => staging <= crashes)
  BY DEF StagingInv, InstallInv, InstallTypeOK, Unswapped
<1> QED
  BY <1>1, StagingInvariant, InstallInvariant, PTL

\* If DAZ Studio does not die and the status file can be written, an install
\* through PluginInstaller that is over, whichever way, has also left a status:
\* the daemon never sees an abandoned directory as resolving.
THEOREM EndedIsRecorded ==
  ASSUME FALSE \notin StatusOpens, MaxCrashes = 0, Entries \subseteq {"plugin"}
  PROVE  Spec => []NothingLeftBehind
<1>1. Init => RecordedInv
  BY DEF Init, RecordedInv, Recorded
<1>2. InstallInv /\ StagingInv /\ RecordedInv /\ [Next]_vars => RecordedInv'
  BY RecordedStep
<1>3. InstallInv /\ StagingInv /\ RecordedInv => NothingLeftBehind
  BY DEF InstallInv, InstallTypeOK, StagingInv, RecordedInv, Recorded, Present, Unswapped,
         Resolving, NothingLeftBehind
<1> QED
  BY <1>1, <1>2, <1>3, StagingInvariant, InstallInvariant, PTL DEF Spec
=============================================================================
