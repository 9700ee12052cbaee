------------------------ MODULE WorkerManagerProofs ------------------------
(***************************************************************************)
(* Theorems about WorkerManager, for every number of plugins, threads,     *)
(* processes, requests and faults.                                         *)
(***************************************************************************)
EXTENDS WorkerManager, TLAPS

InRequest == {"ensure", "recv_ready", "pop", "set_running", "lock", "recv",
              "crash", "fail"}

\* The locals a label promises: a thread inside call() or start() has a
\* plugin, and after the lookup of _ensure_worker it has a worker; an actor
\* inside _terminate has one too.
LocalsOK ==
  /\ \A t \in Threads : pc[t] \in InRequest => plugin[t] \in Plugins
  /\ \A t \in Threads : pc[t] \in HasWorker => held[t] \in Procs
  /\ \A a \in Actors : pc[a] \in {"close", "kill"} => held[a] \in Procs
  /\ pc[Evictor] \in {"idle", "stop", "close", "kill", "gone"}

TInv == TypeOK /\ LocalsOK

\* The values that go over the pipes and out of a request are of their types.
LEMMA LineTypes ==
  /\ ReadyLine \in Lines /\ NoiseLine \in Lines
  /\ Nothing \in Reads /\ EOF \in Reads /\ Lines \subseteq Reads
  /\ \A k \in Outcomes, r \in Requests : [kind |-> k, req |-> r] \in Lines
  /\ \A g \in Reads : g.req \in Requests \cup {NoReq}
  /\ NoResult \in Results
  /\ \A k \in ResultKinds, r \in Requests \cup {NoReq} :
       [kind |-> k, req |-> r] \in Results
  /\ {"ok", "fail", "internal", "rejected", "crashed_twice"} \subseteq ResultKinds
  /\ NoReq \in Requests \cup {NoReq}
<1>1. ReadyLine.req = NoReq /\ NoiseLine.req = NoReq /\ Nothing.req = NoReq /\ EOF.req = NoReq
      BY DEF ReadyLine, NoiseLine, Nothing, EOF
<1>2. \A g \in Reads : g.req \in Requests \cup {NoReq}
      BY <1>1 DEF Reads, Lines
<1>3. NoResult \in Results
      BY DEF NoResult, Results, ResultKinds
<1> QED
      BY <1>2, <1>3, OpsAssumption DEF Lines, Reads, Results, ResultKinds

LEMMA CurrentRequestType ==
  ASSUME TInv, NEW t \in Threads, pc[t] = "lock"
  PROVE  CurrentRequest(t) \in Requests
  BY DEF TInv, TypeOK, ThreadTypes, LocalsOK, InRequest, CurrentRequest, Requests

LEMMA InitTInv == Init => TInv
<1> SUFFICES ASSUME Init PROVE TInv
    OBVIOUS
<1>1. ManagerTypes
      BY DEF Init, ManagerTypes, WorkerState, NOT_STARTED
<1>2. ProcessTypes
      BY DEF Init, ProcessTypes
<1>3. ReaderTypes
      BY LineTypes DEF Init, ReaderTypes
<1>4. ThreadTypes
      BY LineTypes DEF Init, ThreadTypes, Labels
<1>5. LocalsOK
      BY DEF Init, LocalsOK, InRequest, HasWorker, Actors
<1> QED
      BY <1>1, <1>2, <1>3, <1>4, <1>5 DEF TInv, TypeOK

\* _workers, _states and _stop_event keep their types.
LEMMA ManagerTypesStep == TInv /\ [Next]_vars => ManagerTypes'
<1> SUFFICES ASSUME TInv, [Next]_vars PROVE ManagerTypes'
    OBVIOUS
<1>1. ASSUME NEW t \in Threads, NEW o \in OpNames, NEW pl \in Plugins, Begin(t, o, pl)
      PROVE ManagerTypes'
    BY <1>1
    DEF Begin, TInv, TypeOK, ManagerTypes, LocalsOK, InRequest
<1>2. ASSUME NEW t \in Threads, NEW pl \in Plugins, RestartFailed(t, pl)
      PROVE ManagerTypes'
    BY <1>2
    DEF RestartFailed, DropWorker, WorkerState, NOT_STARTED, TInv, TypeOK,
    ManagerTypes, LocalsOK, InRequest
<1>3. ASSUME NEW t \in Threads, EnsureSpawn(t) PROVE ManagerTypes'
    BY <1>3
    DEF EnsureSpawn, WorkerState, STARTING, TInv, TypeOK, ManagerTypes,
    LocalsOK, InRequest
<1>4. ASSUME NEW t \in Threads, EnsureSpawnFails(t) PROVE ManagerTypes'
    BY <1>4
    DEF EnsureSpawnFails, WorkerState, STARTING, TInv, TypeOK, ManagerTypes,
    LocalsOK, InRequest
<1>5. ASSUME NEW t \in Threads, PopFailedStart(t) PROVE ManagerTypes'
    BY <1>5
    DEF PopFailedStart, DropWorker, TInv, TypeOK, ManagerTypes, LocalsOK,
    InRequest
<1>6. ASSUME NEW t \in Threads, SetRunning(t) PROVE ManagerTypes'
    BY <1>6
    DEF SetRunning, WorkerState, RUNNING, TInv, TypeOK, ManagerTypes,
    LocalsOK, InRequest
<1>7. ASSUME NEW t \in Threads, HandleCrash(t) PROVE ManagerTypes'
    BY <1>7
    DEF HandleCrash, DropWorker, WorkerState, NOT_STARTED, TInv, TypeOK,
    ManagerTypes, LocalsOK, InRequest
<1>8. ASSUME NEW t \in Threads, SetFailed(t) PROVE ManagerTypes'
    BY <1>8
    DEF SetFailed, WorkerState, FAILED, TInv, TypeOK, ManagerTypes, LocalsOK,
    InRequest
<1>9. ASSUME NEW a \in Actors, StopPop(a) PROVE ManagerTypes'
    BY <1>9
    DEF StopPop, DropWorker, WorkerState, NOT_STARTED, TInv, TypeOK,
    ManagerTypes, LocalsOK, InRequest
<1>10. ASSUME UNCHANGED mgrVars PROVE ManagerTypes'
    BY <1>10 DEF mgrVars, TInv, TypeOK, ManagerTypes
<1> QED
    BY <1>1, <1>2, <1>3, <1>4, <1>5, <1>6, <1>7, <1>8, <1>9, <1>10
    DEF Next, vars, ThreadStep, EvictorStep, StopSteps, ProcessStep, Actors,
    EnsureReuse, ReadyReceived, ReadyTimeout, CallSend, ReplyReceived,
    ReplyTimeout, ShutdownList, TerminateClose, TerminateKill, EvictionScan,
    EvictionEnds, Age, ReaderEnter, ReadLine, RuntimeLoaded, RuntimeServe,
    RuntimeExit, RuntimeLoadFails, RuntimeCrash, Reclaim

\* So do the processes.
LEMMA ProcessTypesStep == TInv /\ [Next]_vars => ProcessTypes'
<1> SUFFICES ASSUME TInv, [Next]_vars PROVE ProcessTypes'
    OBVIOUS
<1>1. ASSUME NEW t \in Threads, EnsureSpawn(t) PROVE ProcessTypes'
    BY <1>1
    DEF EnsureSpawn, NewProcess, TInv, TypeOK, ProcessTypes, LocalsOK,
    InRequest, HasWorker
<1>2. ASSUME NEW t \in Threads, CallSend(t) PROVE ProcessTypes'
  <2>1. held[t] \in Procs /\ CurrentRequest(t) \in Requests
    BY <1>2, CurrentRequestType DEF CallSend, TInv, LocalsOK, HasWorker
  <2>2. stdin[held[t]] \in Seq(Requests)
    BY <2>1 DEF TInv, TypeOK, ProcessTypes
  <2>3. Append(stdin[held[t]], CurrentRequest(t)) \in Seq(Requests)
    BY <2>1, <2>2
  <2>4. stdin' = stdin \/ stdin' = [stdin EXCEPT ![held[t]] = Append(stdin[held[t]], CurrentRequest(t))]
    BY <1>2 DEF CallSend
  <2> QED
    BY <1>2, <2>1, <2>3, <2>4 DEF CallSend, TInv, TypeOK, ProcessTypes
<1>3. ASSUME NEW t \in Threads, ReplyReceived(t) PROVE ProcessTypes'
    BY <1>3
    DEF ReplyReceived, TInv, TypeOK, ProcessTypes, LocalsOK, InRequest,
    HasWorker
<1>4. ASSUME NEW a \in Actors, TerminateClose(a) PROVE ProcessTypes'
    BY <1>4
    DEF TerminateClose, TInv, TypeOK, ProcessTypes, LocalsOK, InRequest,
    HasWorker
<1>5. ASSUME NEW a \in Actors, TerminateKill(a) PROVE ProcessTypes'
  <2>1. \/ life' = [life EXCEPT ![held[a]] = "dead"] /\ stdin' = [stdin EXCEPT ![held[a]] = <<>>]
        \/ UNCHANGED <<life, stdin>>
    BY <1>5 DEF TerminateKill, Kill, Dies
  <2>2. held[a] \in Procs /\ <<>> \in Seq(Requests)
    BY <1>5 DEF TerminateKill, TInv, LocalsOK
  <2> QED
    BY <1>5, <2>1, <2>2 DEF TerminateKill, TInv, TypeOK, ProcessTypes
<1>6. ASSUME NEW p \in Procs, Age(p) PROVE ProcessTypes'
    BY <1>6
    DEF Age, TInv, TypeOK, ProcessTypes, LocalsOK, InRequest, HasWorker
<1>7. ASSUME NEW p \in Procs, ReadLine(p) PROVE ProcessTypes'
  <2>1. stdout[p] \in Seq(Lines)
    BY DEF TInv, TypeOK, ProcessTypes
  <2>2. stdout[p] # <<>> => Tail(stdout[p]) \in Seq(Lines)
    BY <2>1
  <2> QED
    BY <1>7, <2>2 DEF ReadLine, Consume, TInv, TypeOK, ProcessTypes
<1>8. ASSUME NEW p \in Procs, RuntimeLoaded(p) PROVE ProcessTypes'
    BY <1>8, LineTypes
    DEF RuntimeLoaded, TInv, TypeOK, ProcessTypes, LocalsOK, InRequest,
    HasWorker
<1>9. ASSUME NEW p \in Procs, RuntimeServe(p) PROVE ProcessTypes'
    BY <1>9, LineTypes
    DEF RuntimeServe, TInv, TypeOK, ProcessTypes, LocalsOK, InRequest,
    HasWorker
<1>10. ASSUME NEW p \in Procs, RuntimeExit(p) PROVE ProcessTypes'
    BY <1>10
    DEF RuntimeExit, Dies, TInv, TypeOK, ProcessTypes, LocalsOK, InRequest,
    HasWorker
<1>11. ASSUME NEW p \in Procs, RuntimeLoadFails(p) PROVE ProcessTypes'
    BY <1>11, LineTypes
    DEF RuntimeLoadFails, Dies, TInv, TypeOK, ProcessTypes, LocalsOK,
    InRequest, HasWorker
<1>12. ASSUME NEW p \in Procs, RuntimeCrash(p) PROVE ProcessTypes'
    BY <1>12
    DEF RuntimeCrash, Dies, TInv, TypeOK, ProcessTypes, LocalsOK, InRequest,
    HasWorker
<1>13. ASSUME NEW p \in Procs, Reclaim(p) PROVE ProcessTypes'
    BY <1>13
    DEF Reclaim, TInv, TypeOK, ProcessTypes, LocalsOK, InRequest, HasWorker
<1>14. ASSUME UNCHANGED procVars PROVE ProcessTypes'
    BY <1>14 DEF procVars, TInv, TypeOK, ProcessTypes
<1> QED
    BY <1>1, <1>2, <1>3, <1>4, <1>5, <1>6, <1>7, <1>8, <1>9, <1>10, <1>11,
    <1>12, <1>13, <1>14
    DEF Next, vars, ThreadStep, EvictorStep, StopSteps, ProcessStep, Actors,
    Begin, RestartFailed, EnsureReuse, EnsureSpawnFails, ReadyReceived,
    ReadyTimeout, PopFailedStart, SetRunning, ReplyTimeout, HandleCrash,
    SetFailed, ShutdownList, StopPop, EvictionScan, EvictionEnds, ReaderEnter

\* So do the locks and the readers.
LEMMA ReaderTypesStep == TInv /\ [Next]_vars => ReaderTypes'
<1> SUFFICES ASSUME TInv, [Next]_vars PROVE ReaderTypes'
    OBVIOUS
<1>1. ASSUME NEW t \in Threads, EnsureSpawn(t) PROVE ReaderTypes'
    BY <1>1
    DEF EnsureSpawn, AwaitReady, TInv, TypeOK, ReaderTypes, LocalsOK,
    HasWorker
<1>2. ASSUME NEW t \in Threads, ReadyReceived(t) PROVE ReaderTypes'
    BY <1>2, LineTypes
    DEF ReadyReceived, TInv, TypeOK, ReaderTypes, LocalsOK, HasWorker
<1>3. ASSUME NEW t \in Threads, ReadyTimeout(t) PROVE ReaderTypes'
    BY <1>3
    DEF ReadyTimeout, TimesOut, Abandon, TInv, TypeOK, ReaderTypes, LocalsOK,
    HasWorker
<1>4. ASSUME NEW t \in Threads, CallSend(t) PROVE ReaderTypes'
    BY <1>4
    DEF CallSend, TInv, TypeOK, ReaderTypes, LocalsOK, HasWorker
<1>5. ASSUME NEW t \in Threads, ReplyReceived(t) PROVE ReaderTypes'
    BY <1>5, LineTypes
    DEF ReplyReceived, ReleaseLock, TInv, TypeOK, ReaderTypes, LocalsOK,
    HasWorker
<1>6. ASSUME NEW t \in Threads, ReplyTimeout(t) PROVE ReaderTypes'
    BY <1>6
    DEF ReplyTimeout, TimesOut, Abandon, ReleaseLock, TInv, TypeOK,
    ReaderTypes, LocalsOK, HasWorker
<1>7. ASSUME NEW p \in Procs, ReaderEnter(p) PROVE ReaderTypes'
    BY <1>7
    DEF ReaderEnter, TInv, TypeOK, ReaderTypes, LocalsOK, HasWorker
<1>8. ASSUME NEW p \in Procs, ReadLine(p) PROVE ReaderTypes'
  <2>1. stdout[p] \in Seq(Lines)
    BY DEF TInv, TypeOK, ProcessTypes
  <2>2. stdout[p] # <<>> => Head(stdout[p]) \in Lines
    BY <2>1
  <2>3. EOF \in Reads /\ (stdout[p] # <<>> => Head(stdout[p]) \in Reads)
    BY <2>2, LineTypes
  <2> QED
    BY <1>8, <2>3 DEF ReadLine, TInv, TypeOK, ReaderTypes
<1>9. ASSUME UNCHANGED <<lock, readVars>> PROVE ReaderTypes'
    BY <1>9 DEF readVars, TInv, TypeOK, ReaderTypes
<1> QED
    BY <1>1, <1>2, <1>3, <1>4, <1>5, <1>6, <1>7, <1>8, <1>9
    DEF Next, vars, ThreadStep, EvictorStep, StopSteps, ProcessStep, Actors,
    Begin, RestartFailed, EnsureReuse, EnsureSpawnFails, PopFailedStart,
    SetRunning, HandleCrash, SetFailed, ShutdownList, StopPop, TerminateClose,
    TerminateKill, EvictionScan, EvictionEnds, Age, RuntimeLoaded,
    RuntimeServe, RuntimeExit, RuntimeLoadFails, RuntimeCrash, Reclaim

\* So do the threads.
LEMMA ThreadTypesStep == TInv /\ [Next]_vars => ThreadTypes'
<1> SUFFICES ASSUME TInv, [Next]_vars PROVE ThreadTypes'
    OBVIOUS
<1>1. ASSUME NEW t \in Threads, NEW o \in OpNames, NEW pl \in Plugins, Begin(t, o, pl)
      PROVE ThreadTypes'
    BY <1>1, LineTypes
    DEF Begin, Goto, Return, NoResult, Labels, Actors, TInv, TypeOK,
    ThreadTypes
<1>2. ASSUME NEW t \in Threads, NEW pl \in Plugins, RestartFailed(t, pl)
      PROVE ThreadTypes'
    BY <1>2, LineTypes
    DEF RestartFailed, Return, Labels, Actors, TInv, TypeOK, ThreadTypes
<1>3. ASSUME NEW t \in Threads, EnsureReuse(t) PROVE ThreadTypes'
  <2>1. workers[plugin[t]] \in Procs \cup {NoProc}
    BY <1>3 DEF EnsureReuse, TInv, TypeOK, ManagerTypes, LocalsOK, InRequest
  <2> QED
    BY <1>3, <2>1, LineTypes
    DEF EnsureReuse, Goto, Return, TInv, TypeOK, ThreadTypes, Labels, Actors
<1>4. ASSUME NEW t \in Threads, EnsureSpawn(t) PROVE ThreadTypes'
    BY <1>4, LineTypes
    DEF EnsureSpawn, AwaitReady, Goto, Labels, Actors, TInv, TypeOK,
    ThreadTypes
<1>5. ASSUME NEW t \in Threads, EnsureSpawnFails(t) PROVE ThreadTypes'
    BY <1>5, LineTypes
    DEF EnsureSpawnFails, Return, Labels, Actors, TInv, TypeOK, ThreadTypes
<1>6. ASSUME NEW t \in Threads, ReadyReceived(t) PROVE ThreadTypes'
    BY <1>6, LineTypes
    DEF ReadyReceived, Goto, Return, Labels, Actors, TInv, TypeOK, ThreadTypes
<1>7. ASSUME NEW t \in Threads, ReadyTimeout(t) PROVE ThreadTypes'
    BY <1>7, LineTypes
    DEF ReadyTimeout, Goto, Fault, Labels, Actors, TInv, TypeOK, ThreadTypes
<1>8. ASSUME NEW t \in Threads, PopFailedStart(t) PROVE ThreadTypes'
    BY <1>8, LineTypes
    DEF PopFailedStart, Goto, Labels, Actors, TInv, TypeOK, ThreadTypes
<1>9. ASSUME NEW t \in Threads, SetRunning(t) PROVE ThreadTypes'
    BY <1>9, LineTypes
    DEF SetRunning, Goto, Return, Labels, Actors, TInv, TypeOK, ThreadTypes
<1>10. ASSUME NEW t \in Threads, CallSend(t) PROVE ThreadTypes'
  <2>1. \/ Return(t, "internal", NoReq)
        \/ Goto(t, "crash") /\ UNCHANGED <<op, attempt, held, ret>>
        \/ Goto(t, "recv") /\ UNCHANGED <<op, attempt, held, ret>>
    BY <1>10 DEF CallSend
  <2>2. UNCHANGED <<plugin, todo, count, faults>>
    BY <1>10 DEF CallSend
  <2> QED
    BY <2>1, <2>2, LineTypes
    DEF Goto, Return, TInv, TypeOK, ThreadTypes, Labels, Actors
<1>11. ASSUME NEW t \in Threads, ReplyReceived(t) PROVE ThreadTypes'
  <2>1. got[t].req \in Requests \cup {NoReq}
    BY LineTypes DEF TInv, TypeOK, ReaderTypes
  <2>2. \/ Return(t, "internal", NoReq)
        \/ Return(t, "ok", got[t].req)
        \/ Return(t, "fail", got[t].req)
        \/ Goto(t, "crash") /\ UNCHANGED <<op, attempt, held, ret>>
    BY <1>11 DEF ReplyReceived
  <2>3. UNCHANGED <<plugin, todo, count, faults>>
    BY <1>11 DEF ReplyReceived
  <2> QED
    BY <2>1, <2>2, <2>3, LineTypes
    DEF Goto, Return, TInv, TypeOK, ThreadTypes, Labels, Actors
<1>12. ASSUME NEW t \in Threads, ReplyTimeout(t) PROVE ThreadTypes'
    BY <1>12, LineTypes
    DEF ReplyTimeout, Goto, Fault, Labels, Actors, TInv, TypeOK, ThreadTypes
<1>13. ASSUME NEW t \in Threads, HandleCrash(t) PROVE ThreadTypes'
    BY <1>13, LineTypes
    DEF HandleCrash, Retries, Goto, Labels, Actors, TInv, TypeOK, ThreadTypes
<1>14. ASSUME NEW t \in Threads, SetFailed(t) PROVE ThreadTypes'
    BY <1>14, LineTypes
    DEF SetFailed, Return, Labels, Actors, TInv, TypeOK, ThreadTypes
<1>15. ASSUME NEW t \in Threads, ShutdownList(t) PROVE ThreadTypes'
    BY <1>15, LineTypes
    DEF ShutdownList, AfterStop, Return, Goto, Labels, Actors, TInv, TypeOK,
    ThreadTypes
<1>16. ASSUME NEW a \in Actors, StopPop(a) PROVE ThreadTypes'
    BY <1>16, LineTypes, SMTT(30)
    DEF StopPop, AfterStop, Return, Goto, Labels, Actors, ManagerTypes, TInv,
    TypeOK, ThreadTypes
<1>17. ASSUME NEW a \in Actors, TerminateClose(a) PROVE ThreadTypes'
    BY <1>17, LineTypes
    DEF TerminateClose, AfterStop, Return, Goto, Labels, Actors, TInv, TypeOK,
    ThreadTypes
<1>18. ASSUME NEW a \in Actors, TerminateKill(a) PROVE ThreadTypes'
    BY <1>18, LineTypes
    DEF TerminateKill, AfterStop, Return, Goto, Labels, Actors, TInv, TypeOK,
    ThreadTypes
<1>19. ASSUME EvictionScan PROVE ThreadTypes'
    BY <1>19, LineTypes
    DEF EvictionScan, Goto, Labels, Actors, TInv, TypeOK, ThreadTypes
<1>20. ASSUME EvictionEnds PROVE ThreadTypes'
    BY <1>20, LineTypes
    DEF EvictionEnds, Goto, Labels, Actors, TInv, TypeOK, ThreadTypes
<1>21. ASSUME NEW p \in Procs, RuntimeLoadFails(p) PROVE ThreadTypes'
    BY <1>21
    DEF RuntimeLoadFails, Fault, threadVars, TInv, TypeOK, ThreadTypes
<1>22. ASSUME NEW p \in Procs, RuntimeCrash(p) PROVE ThreadTypes'
    BY <1>22
    DEF RuntimeCrash, Fault, threadVars, TInv, TypeOK, ThreadTypes
<1>23. ASSUME UNCHANGED <<threadVars, faults>> PROVE ThreadTypes'
    BY <1>23 DEF threadVars, TInv, TypeOK, ThreadTypes
<1> QED
    BY <1>1, <1>2, <1>3, <1>4, <1>5, <1>6, <1>7, <1>8, <1>9, <1>10, <1>11,
    <1>12, <1>13, <1>14, <1>15, <1>16, <1>17, <1>18, <1>19, <1>20, <1>21,
    <1>22, <1>23
    DEF Next, vars, mgrVars, procVars, readVars, threadVars, ThreadStep,
    EvictorStep, StopSteps, ProcessStep, Actors, Age, ReaderEnter, ReadLine,
    RuntimeLoaded, RuntimeServe, RuntimeExit, Reclaim

\* So do the locals.
LEMMA LocalsOKStep == TInv /\ [Next]_vars => LocalsOK'
<1> SUFFICES ASSUME TInv, [Next]_vars PROVE LocalsOK'
    OBVIOUS
<1>1. ASSUME NEW t \in Threads, NEW o \in OpNames, NEW pl \in Plugins, Begin(t, o, pl)
      PROVE LocalsOK'
  <2>1. \/ /\ Goto(t, "ensure")
           /\ plugin' = [plugin EXCEPT ![t] = pl]
        \/ /\ pc' = [pc EXCEPT ![t] = "idle"]
           /\ UNCHANGED plugin
        \/ /\ Goto(t, "stop")
           /\ UNCHANGED plugin
        \/ /\ Goto(t, "join")
           /\ UNCHANGED plugin
    BY <1>1 DEF Begin, Return
  <2>2. held' = held \/ held' = [held EXCEPT ![t] = NoProc]
    BY <1>1 DEF Begin, Return
  <2> QED
    BY <2>1, <2>2, SentinelAssumption
    DEF Goto, TInv, TypeOK, ThreadTypes, LocalsOK, InRequest, HasWorker, Actors
<1>2. ASSUME NEW t \in Threads, NEW pl \in Plugins, RestartFailed(t, pl)
      PROVE LocalsOK'
    BY <1>2
    DEF RestartFailed, Return, TInv, TypeOK, ThreadTypes, LocalsOK, InRequest,
    HasWorker, Actors
<1>3. ASSUME NEW t \in Threads, EnsureReuse(t) PROVE LocalsOK'
    BY <1>3
    DEF EnsureReuse, LiveWorker, Goto, Return, ManagerTypes,
    TInv, TypeOK, ThreadTypes, LocalsOK, InRequest, HasWorker, Actors
<1>4. ASSUME NEW t \in Threads, EnsureSpawn(t) PROVE LocalsOK'
    BY <1>4
    DEF EnsureSpawn, AwaitReady, Goto, TInv, TypeOK, ThreadTypes, LocalsOK,
    InRequest, HasWorker, Actors
<1>5. ASSUME NEW t \in Threads, EnsureSpawnFails(t) PROVE LocalsOK'
    BY <1>5
    DEF EnsureSpawnFails, Return, TInv, TypeOK, ThreadTypes, LocalsOK,
    InRequest, HasWorker, Actors
<1>6. ASSUME NEW t \in Threads, ReadyReceived(t) PROVE LocalsOK'
    BY <1>6
    DEF ReadyReceived, Goto, Return, TInv, TypeOK, ThreadTypes, LocalsOK,
    InRequest, HasWorker, Actors
<1>7. ASSUME NEW t \in Threads, ReadyTimeout(t) PROVE LocalsOK'
    BY <1>7
    DEF ReadyTimeout, Goto, TInv, TypeOK, ThreadTypes, LocalsOK, InRequest,
    HasWorker, Actors
<1>8. ASSUME NEW t \in Threads, PopFailedStart(t) PROVE LocalsOK'
    BY <1>8
    DEF PopFailedStart, Goto, TInv, TypeOK, ThreadTypes, LocalsOK, InRequest,
    HasWorker, Actors
<1>9. ASSUME NEW t \in Threads, SetRunning(t) PROVE LocalsOK'
    BY <1>9
    DEF SetRunning, Goto, Return, TInv, TypeOK, ThreadTypes, LocalsOK,
    InRequest, HasWorker, Actors
<1>10. ASSUME NEW t \in Threads, CallSend(t) PROVE LocalsOK'
    BY <1>10
    DEF CallSend, Goto, Return, TInv, TypeOK, ThreadTypes, LocalsOK,
    InRequest, HasWorker, Actors
<1>11. ASSUME NEW t \in Threads, ReplyReceived(t) PROVE LocalsOK'
    BY <1>11
    DEF ReplyReceived, Goto, Return, TInv, TypeOK, ThreadTypes, LocalsOK,
    InRequest, HasWorker, Actors
<1>12. ASSUME NEW t \in Threads, ReplyTimeout(t) PROVE LocalsOK'
    BY <1>12
    DEF ReplyTimeout, Goto, TInv, TypeOK, ThreadTypes, LocalsOK, InRequest,
    HasWorker, Actors
<1>13. ASSUME NEW t \in Threads, HandleCrash(t) PROVE LocalsOK'
    BY <1>13
    DEF HandleCrash, Retries, Goto, TInv, TypeOK, ThreadTypes, LocalsOK,
    InRequest, HasWorker, Actors
<1>14. ASSUME NEW t \in Threads, SetFailed(t) PROVE LocalsOK'
    BY <1>14
    DEF SetFailed, Return, TInv, TypeOK, ThreadTypes, LocalsOK, InRequest,
    HasWorker, Actors
<1>15. ASSUME NEW t \in Threads, ShutdownList(t) PROVE LocalsOK'
    BY <1>15
    DEF ShutdownList, AfterStop, Return, Goto, TInv, TypeOK, ThreadTypes,
    LocalsOK, InRequest, HasWorker, Actors
<1>16. ASSUME NEW a \in Actors, StopPop(a) PROVE LocalsOK'
    BY <1>16
    DEF StopPop, AfterStop, Return, Goto, ManagerTypes, TInv, TypeOK,
    ThreadTypes, LocalsOK, InRequest, HasWorker, Actors
<1>17. ASSUME NEW a \in Actors, TerminateClose(a) PROVE LocalsOK'
    BY <1>17
    DEF TerminateClose, AfterStop, Return, Goto, TInv, TypeOK, ThreadTypes,
    LocalsOK, InRequest, HasWorker, Actors
<1>18. ASSUME NEW a \in Actors, TerminateKill(a) PROVE LocalsOK'
    BY <1>18
    DEF TerminateKill, AfterStop, Return, Goto, TInv, TypeOK, ThreadTypes,
    LocalsOK, InRequest, HasWorker, Actors
<1>19. ASSUME EvictionScan PROVE LocalsOK'
    BY <1>19
    DEF EvictionScan, Goto, TInv, TypeOK, ThreadTypes, LocalsOK, InRequest,
    HasWorker, Actors
<1>20. ASSUME EvictionEnds PROVE LocalsOK'
    BY <1>20
    DEF EvictionEnds, Goto, TInv, TypeOK, ThreadTypes, LocalsOK, InRequest,
    HasWorker, Actors
<1>21. ASSUME UNCHANGED threadVars PROVE LocalsOK'
    BY <1>21 DEF threadVars, TInv, TypeOK, ThreadTypes, LocalsOK, InRequest,
    HasWorker, Actors
<1> QED
    BY <1>1, <1>2, <1>3, <1>4, <1>5, <1>6, <1>7, <1>8, <1>9, <1>10, <1>11,
    <1>12, <1>13, <1>14, <1>15, <1>16, <1>17, <1>18, <1>19, <1>20, <1>21
    DEF Next, vars, ThreadStep, EvictorStep, StopSteps, ProcessStep, Actors,
    Age, ReaderEnter, ReadLine, RuntimeLoaded, RuntimeServe, RuntimeExit,
    RuntimeLoadFails, RuntimeCrash, Reclaim

\* The inductive invariant behind type correctness.
LEMMA TInvInvariant == Spec => []TInv
<1>1. TInv /\ [Next]_vars => TInv'
  BY ManagerTypesStep, ProcessTypesStep, ReaderTypesStep, ThreadTypesStep,
     LocalsOKStep
  DEF TInv, TypeOK
<1> QED
  BY <1>1, InitTInv, PTL DEF Spec

\* The manager, the processes and the threads keep the shape their classes
\* declare, whatever the threads, the eviction thread and the plugins do.
THEOREM TypeCorrect == Spec => []TypeOK
<1>1. TInv => TypeOK
  BY DEF TInv
<1> QED
  BY <1>1, TInvInvariant, PTL

-----------------------------------------------------------------------------
(* Who owns what: locks, map entries, readers and the traffic of the pipes.  *)

SInv == /\ TInv
        /\ LockHeldOnlyInCall
        /\ MappedWorkerUsable
        /\ ClosingUnmapped
        /\ HeldHome
        /\ ReadersWait
        /\ StrayOnlyOnDropped
        /\ PipesHome
        /\ GotHome
        /\ PluginIsolation

LEMMA ReqOf ==
  /\ Nothing.req = NoReq /\ EOF.req = NoReq
  /\ ReadyLine.req = NoReq /\ NoiseLine.req = NoReq
  /\ NoResult.req = NoReq
  BY DEF Nothing, EOF, ReadyLine, NoiseLine, NoResult

LEMMA NoProcIsNone == NoProc \notin Procs
  BY BoundAssumption DEF NoProc, Procs

LEMMA InitSInv == Init => SInv
<1> SUFFICES ASSUME Init PROVE SInv
    OBVIOUS
<1>1. TInv
  BY InitTInv
<1>2. LockHeldOnlyInCall /\ MappedWorkerUsable /\ ClosingUnmapped /\ HeldHome
  BY SentinelAssumption
  DEF Init, LockHeldOnlyInCall, MappedWorkerUsable, ClosingUnmapped, HeldHome,
      HasWorker, Actors
<1>3. ReadersWait /\ StrayOnlyOnDropped
  BY SentinelAssumption
  DEF Init, ReadersWait, StrayOnlyOnDropped
<1>4. PipesHome /\ GotHome /\ PluginIsolation
  BY ReqOf DEF Init, PipesHome, GotHome, PluginIsolation
<1> QED
  BY <1>1, <1>2, <1>3, <1>4 DEF SInv

\* worker.lock is released on every path out of `with worker.lock`.
LEMMA LockStep == SInv /\ [Next]_vars => LockHeldOnlyInCall'
<1> SUFFICES ASSUME SInv, [Next]_vars PROVE LockHeldOnlyInCall'
    OBVIOUS
<1>1. ASSUME NEW t \in Threads, NEW o \in OpNames, NEW pl \in Plugins, Begin(t, o, pl)
      PROVE LockHeldOnlyInCall'
    BY <1>1, SentinelAssumption
    DEF Begin, Goto, Return, ThreadTypes, Actors, ReaderTypes, LocalsOK,
    HasWorker, SInv, TInv, TypeOK, LockHeldOnlyInCall
<1>2. ASSUME NEW t \in Threads, NEW pl \in Plugins, RestartFailed(t, pl)
      PROVE LockHeldOnlyInCall'
    BY <1>2, SentinelAssumption
    DEF RestartFailed, Return, ThreadTypes, Actors, ReaderTypes, LocalsOK,
    HasWorker, SInv, TInv, TypeOK, LockHeldOnlyInCall
<1>3. ASSUME NEW t \in Threads, EnsureReuse(t) PROVE LockHeldOnlyInCall'
    BY <1>3, SentinelAssumption
    DEF EnsureReuse, Goto, Return, ThreadTypes, Actors, ReaderTypes, LocalsOK,
    HasWorker, SInv, TInv, TypeOK, LockHeldOnlyInCall
<1>4. ASSUME NEW t \in Threads, EnsureSpawn(t) PROVE LockHeldOnlyInCall'
    BY <1>4, SentinelAssumption
    DEF EnsureSpawn, AwaitReady, Goto, ThreadTypes, Actors, ReaderTypes,
    LocalsOK, HasWorker, Free, SInv, TInv, TypeOK, LockHeldOnlyInCall
<1>5. ASSUME NEW t \in Threads, EnsureSpawnFails(t) PROVE LockHeldOnlyInCall'
    BY <1>5, SentinelAssumption
    DEF EnsureSpawnFails, Return, ThreadTypes, Actors, ReaderTypes, LocalsOK,
    HasWorker, SInv, TInv, TypeOK, LockHeldOnlyInCall
<1>6. ASSUME NEW t \in Threads, ReadyReceived(t) PROVE LockHeldOnlyInCall'
    BY <1>6, SentinelAssumption
    DEF ReadyReceived, Goto, Return, ThreadTypes, Actors, ReaderTypes,
    LocalsOK, HasWorker, SInv, TInv, TypeOK, LockHeldOnlyInCall
<1>7. ASSUME NEW t \in Threads, ReadyTimeout(t) PROVE LockHeldOnlyInCall'
    BY <1>7, SentinelAssumption
    DEF ReadyTimeout, Goto, ThreadTypes, Actors, ReaderTypes, LocalsOK,
    HasWorker, SInv, TInv, TypeOK, LockHeldOnlyInCall
<1>8. ASSUME NEW t \in Threads, PopFailedStart(t) PROVE LockHeldOnlyInCall'
    BY <1>8, SentinelAssumption
    DEF PopFailedStart, Goto, ThreadTypes, Actors, ReaderTypes, LocalsOK,
    HasWorker, SInv, TInv, TypeOK, LockHeldOnlyInCall
<1>9. ASSUME NEW t \in Threads, SetRunning(t) PROVE LockHeldOnlyInCall'
    BY <1>9, SentinelAssumption
    DEF SetRunning, Goto, Return, ThreadTypes, Actors, ReaderTypes, LocalsOK,
    HasWorker, SInv, TInv, TypeOK, LockHeldOnlyInCall
<1>10. ASSUME NEW t \in Threads, CallSend(t) PROVE LockHeldOnlyInCall'
    BY <1>10, SentinelAssumption
    DEF CallSend, Goto, Return, ThreadTypes, Actors, ReaderTypes, LocalsOK,
    HasWorker, SInv, TInv, TypeOK, LockHeldOnlyInCall
<1>11. ASSUME NEW t \in Threads, ReplyReceived(t) PROVE LockHeldOnlyInCall'
    BY <1>11, SentinelAssumption
    DEF ReplyReceived, Goto, Return, ReleaseLock, ThreadTypes, Actors,
    ReaderTypes, LocalsOK, HasWorker, SInv, TInv, TypeOK, LockHeldOnlyInCall
<1>12. ASSUME NEW t \in Threads, ReplyTimeout(t) PROVE LockHeldOnlyInCall'
    BY <1>12, SentinelAssumption
    DEF ReplyTimeout, Goto, ReleaseLock, ThreadTypes, Actors, ReaderTypes,
    LocalsOK, HasWorker, SInv, TInv, TypeOK, LockHeldOnlyInCall
<1>13. ASSUME NEW t \in Threads, HandleCrash(t) PROVE LockHeldOnlyInCall'
    BY <1>13, SentinelAssumption
    DEF HandleCrash, Goto, ThreadTypes, Actors, ReaderTypes, LocalsOK,
    HasWorker, SInv, TInv, TypeOK, LockHeldOnlyInCall
<1>14. ASSUME NEW t \in Threads, SetFailed(t) PROVE LockHeldOnlyInCall'
    BY <1>14, SentinelAssumption
    DEF SetFailed, Return, ThreadTypes, Actors, ReaderTypes, LocalsOK,
    HasWorker, SInv, TInv, TypeOK, LockHeldOnlyInCall
<1>15. ASSUME NEW t \in Threads, ShutdownList(t) PROVE LockHeldOnlyInCall'
    BY <1>15, SentinelAssumption
    DEF ShutdownList, AfterStop, Return, Goto, ThreadTypes, Actors,
    ReaderTypes, LocalsOK, HasWorker, SInv, TInv, TypeOK, LockHeldOnlyInCall
<1>16. ASSUME NEW a \in Actors, StopPop(a) PROVE LockHeldOnlyInCall'
    BY <1>16, SentinelAssumption
    DEF StopPop, AfterStop, Return, Goto, ThreadTypes, Actors, ReaderTypes,
    LocalsOK, HasWorker, SInv, TInv, TypeOK, LockHeldOnlyInCall
<1>17. ASSUME NEW a \in Actors, TerminateClose(a) PROVE LockHeldOnlyInCall'
    BY <1>17, SentinelAssumption
    DEF TerminateClose, AfterStop, Return, Goto, ThreadTypes, Actors,
    ReaderTypes, LocalsOK, HasWorker, SInv, TInv, TypeOK, LockHeldOnlyInCall
<1>18. ASSUME NEW a \in Actors, TerminateKill(a) PROVE LockHeldOnlyInCall'
    BY <1>18, SentinelAssumption
    DEF TerminateKill, AfterStop, Return, Goto, ThreadTypes, Actors,
    ReaderTypes, LocalsOK, HasWorker, SInv, TInv, TypeOK, LockHeldOnlyInCall
<1>19. ASSUME EvictionScan PROVE LockHeldOnlyInCall'
    BY <1>19, SentinelAssumption
    DEF EvictionScan, Goto, ThreadTypes, Actors, ReaderTypes, LocalsOK,
    HasWorker, SInv, TInv, TypeOK, LockHeldOnlyInCall
<1>20. ASSUME EvictionEnds PROVE LockHeldOnlyInCall'
    BY <1>20, SentinelAssumption
    DEF EvictionEnds, Goto, ThreadTypes, Actors, ReaderTypes, LocalsOK,
    HasWorker, SInv, TInv, TypeOK, LockHeldOnlyInCall
<1>21. ASSUME UNCHANGED <<lock, threadVars>> PROVE LockHeldOnlyInCall'
    BY <1>21 DEF threadVars, SInv, TInv, TypeOK, LockHeldOnlyInCall
<1> QED
    BY <1>1, <1>2, <1>3, <1>4, <1>5, <1>6, <1>7, <1>8, <1>9, <1>10, <1>11,
    <1>12, <1>13, <1>14, <1>15, <1>16, <1>17, <1>18, <1>19, <1>20, <1>21
    DEF Next, vars, ThreadStep, EvictorStep, StopSteps, ProcessStep, Actors,
    Age, ReaderEnter, ReadLine, RuntimeLoaded, RuntimeServe, RuntimeExit,
    RuntimeLoadFails, RuntimeCrash, Reclaim

\* A map entry names an open worker of its plugin.
LEMMA MappedStep == SInv /\ [Next]_vars => MappedWorkerUsable'
<1> SUFFICES ASSUME SInv, [Next]_vars PROVE MappedWorkerUsable'
    OBVIOUS
<1>1. ASSUME NEW t \in Threads, NEW pl \in Plugins, RestartFailed(t, pl)
      PROVE MappedWorkerUsable'
    BY <1>1
    DEF RestartFailed, DropWorker, LocalsOK, InRequest, ThreadTypes, SInv,
    TInv, TypeOK, MappedWorkerUsable, ManagerTypes, mgrVars, procVars
<1>2. ASSUME NEW t \in Threads, EnsureSpawn(t) PROVE MappedWorkerUsable'
    BY <1>2
    DEF EnsureSpawn, NewProcess, ProcessTypes, Free, LocalsOK, InRequest,
    SInv, TInv, TypeOK, MappedWorkerUsable, ManagerTypes, mgrVars, procVars
<1>3. ASSUME NEW t \in Threads, PopFailedStart(t) PROVE MappedWorkerUsable'
    BY <1>3
    DEF PopFailedStart, DropWorker, LocalsOK, InRequest, ThreadTypes, SInv,
    TInv, TypeOK, MappedWorkerUsable, ManagerTypes, mgrVars, procVars
<1>4. ASSUME NEW t \in Threads, HandleCrash(t) PROVE MappedWorkerUsable'
    BY <1>4
    DEF HandleCrash, DropWorker, LocalsOK, InRequest, ThreadTypes, SInv, TInv,
    TypeOK, MappedWorkerUsable, ManagerTypes, mgrVars, procVars
<1>5. ASSUME NEW a \in Actors, StopPop(a) PROVE MappedWorkerUsable'
    BY <1>5
    DEF StopPop, DropWorker, LocalsOK, InRequest, ThreadTypes, SInv, TInv,
    TypeOK, MappedWorkerUsable, ManagerTypes, mgrVars, procVars
<1>6. ASSUME NEW a \in Actors, TerminateClose(a) PROVE MappedWorkerUsable'
    BY <1>6
    DEF TerminateClose, ProcessTypes, ClosingUnmapped, SInv, TInv, TypeOK,
    MappedWorkerUsable, ManagerTypes, mgrVars, procVars
<1>7. ASSUME NEW p \in Procs, Reclaim(p) PROVE MappedWorkerUsable'
    BY <1>7
    DEF Reclaim, LocalsOK, InRequest, ThreadTypes, SInv, TInv, TypeOK,
    MappedWorkerUsable, ManagerTypes, mgrVars, procVars
<1>8. ASSUME UNCHANGED <<workers, stdinOpen, home>> PROVE MappedWorkerUsable'
    BY <1>8 DEF SInv, TInv, TypeOK, MappedWorkerUsable, ManagerTypes, mgrVars,
    procVars
<1> QED
    BY <1>1, <1>2, <1>3, <1>4, <1>5, <1>6, <1>7, <1>8
    DEF Next, vars, mgrVars, procVars, readVars, threadVars, ThreadStep,
    EvictorStep, StopSteps, ProcessStep, Actors, Begin, EnsureReuse,
    EnsureSpawnFails, ReadyReceived, ReadyTimeout, SetRunning, CallSend,
    ReplyReceived, ReplyTimeout, SetFailed, ShutdownList, TerminateKill,
    EvictionScan, EvictionEnds, Age, ReaderEnter, ReadLine, RuntimeLoaded,
    RuntimeServe, RuntimeExit, RuntimeLoadFails, RuntimeCrash

\* A worker is out of the map before it is terminated.
LEMMA ClosingStep == SInv /\ [Next]_vars => ClosingUnmapped'
<1> SUFFICES ASSUME SInv, [Next]_vars PROVE ClosingUnmapped'
    OBVIOUS
<1>1. ASSUME NEW t \in Threads, NEW o \in OpNames, NEW pl \in Plugins, Begin(t, o, pl)
      PROVE ClosingUnmapped'
    BY <1>1, SentinelAssumption
    DEF Begin, Goto, Return, ThreadTypes, Actors, ManagerTypes, LocalsOK,
    SInv, TInv, TypeOK, ClosingUnmapped, mgrVars
<1>2. ASSUME NEW t \in Threads, NEW pl \in Plugins, RestartFailed(t, pl)
      PROVE ClosingUnmapped'
    BY <1>2, SentinelAssumption, NoProcIsNone
    DEF RestartFailed, DropWorker, Return, ThreadTypes, Actors, ManagerTypes,
    LocalsOK, SInv, TInv, TypeOK, ClosingUnmapped, mgrVars
<1>3. ASSUME NEW t \in Threads, EnsureReuse(t) PROVE ClosingUnmapped'
    BY <1>3, SentinelAssumption
    DEF EnsureReuse, Goto, Return, ThreadTypes, Actors, ManagerTypes,
    LocalsOK, SInv, TInv, TypeOK, ClosingUnmapped, mgrVars
<1>4. ASSUME NEW t \in Threads, EnsureSpawn(t) PROVE ClosingUnmapped'
    BY <1>4, SentinelAssumption
    DEF EnsureSpawn, AwaitReady, Goto, ThreadTypes, Actors, ManagerTypes,
    Free, LocalsOK, InRequest, SInv, TInv, TypeOK, ClosingUnmapped, mgrVars
<1>5. ASSUME NEW t \in Threads, EnsureSpawnFails(t) PROVE ClosingUnmapped'
    BY <1>5, SentinelAssumption
    DEF EnsureSpawnFails, Return, ThreadTypes, Actors, ManagerTypes, LocalsOK,
    SInv, TInv, TypeOK, ClosingUnmapped, mgrVars
<1>6. ASSUME NEW t \in Threads, ReadyReceived(t) PROVE ClosingUnmapped'
    BY <1>6, SentinelAssumption
    DEF ReadyReceived, Goto, Return, ThreadTypes, Actors, ManagerTypes,
    LocalsOK, SInv, TInv, TypeOK, ClosingUnmapped, mgrVars
<1>7. ASSUME NEW t \in Threads, ReadyTimeout(t) PROVE ClosingUnmapped'
    BY <1>7, SentinelAssumption
    DEF ReadyTimeout, Goto, ThreadTypes, Actors, ManagerTypes, LocalsOK, SInv,
    TInv, TypeOK, ClosingUnmapped, mgrVars
<1>8. ASSUME NEW t \in Threads, PopFailedStart(t) PROVE ClosingUnmapped'
    BY <1>8, SentinelAssumption, NoProcIsNone
    DEF PopFailedStart, DropWorker, Goto, ThreadTypes, Actors, ManagerTypes,
    LocalsOK, SInv, TInv, TypeOK, ClosingUnmapped, mgrVars
<1>9. ASSUME NEW t \in Threads, SetRunning(t) PROVE ClosingUnmapped'
    BY <1>9, SentinelAssumption
    DEF SetRunning, Goto, Return, ThreadTypes, Actors, ManagerTypes, LocalsOK,
    SInv, TInv, TypeOK, ClosingUnmapped, mgrVars
<1>10. ASSUME NEW t \in Threads, CallSend(t) PROVE ClosingUnmapped'
    BY <1>10, SentinelAssumption
    DEF CallSend, Goto, Return, ThreadTypes, Actors, ManagerTypes, LocalsOK,
    SInv, TInv, TypeOK, ClosingUnmapped, mgrVars
<1>11. ASSUME NEW t \in Threads, ReplyReceived(t) PROVE ClosingUnmapped'
    BY <1>11, SentinelAssumption
    DEF ReplyReceived, Goto, Return, ReleaseLock, ThreadTypes, Actors,
    ManagerTypes, LocalsOK, SInv, TInv, TypeOK, ClosingUnmapped, mgrVars
<1>12. ASSUME NEW t \in Threads, ReplyTimeout(t) PROVE ClosingUnmapped'
    BY <1>12, SentinelAssumption
    DEF ReplyTimeout, Goto, ReleaseLock, ThreadTypes, Actors, ManagerTypes,
    LocalsOK, SInv, TInv, TypeOK, ClosingUnmapped, mgrVars
<1>13. ASSUME NEW t \in Threads, HandleCrash(t) PROVE ClosingUnmapped'
    BY <1>13, SentinelAssumption, NoProcIsNone
    DEF HandleCrash, DropWorker, Goto, ThreadTypes, Actors, ManagerTypes,
    LocalsOK, SInv, TInv, TypeOK, ClosingUnmapped, mgrVars
<1>14. ASSUME NEW t \in Threads, SetFailed(t) PROVE ClosingUnmapped'
    BY <1>14, SentinelAssumption
    DEF SetFailed, Return, ThreadTypes, Actors, ManagerTypes, LocalsOK, SInv,
    TInv, TypeOK, ClosingUnmapped, mgrVars
<1>15. ASSUME NEW t \in Threads, ShutdownList(t) PROVE ClosingUnmapped'
    BY <1>15, SentinelAssumption
    DEF ShutdownList, AfterStop, Return, Goto, ThreadTypes, Actors,
    ManagerTypes, LocalsOK, SInv, TInv, TypeOK, ClosingUnmapped, mgrVars
<1>16. ASSUME NEW a \in Actors, StopPop(a) PROVE ClosingUnmapped'
    BY <1>16, SentinelAssumption, NoProcIsNone
    DEF StopPop, DropWorker, AfterStop, Return, Goto, ThreadTypes, Actors,
    ManagerTypes, MappedWorkerUsable, LocalsOK, SInv, TInv, TypeOK,
    ClosingUnmapped, mgrVars
<1>17. ASSUME NEW a \in Actors, TerminateClose(a) PROVE ClosingUnmapped'
    BY <1>17, SentinelAssumption
    DEF TerminateClose, AfterStop, Return, Goto, ThreadTypes, Actors,
    ManagerTypes, LocalsOK, SInv, TInv, TypeOK, ClosingUnmapped, mgrVars
<1>18. ASSUME NEW a \in Actors, TerminateKill(a) PROVE ClosingUnmapped'
    BY <1>18, SentinelAssumption
    DEF TerminateKill, AfterStop, Return, Goto, ThreadTypes, Actors,
    ManagerTypes, LocalsOK, SInv, TInv, TypeOK, ClosingUnmapped, mgrVars
<1>19. ASSUME EvictionScan PROVE ClosingUnmapped'
    BY <1>19, SentinelAssumption
    DEF EvictionScan, Goto, ThreadTypes, Actors, ManagerTypes, LocalsOK, SInv,
    TInv, TypeOK, ClosingUnmapped, mgrVars
<1>20. ASSUME EvictionEnds PROVE ClosingUnmapped'
    BY <1>20, SentinelAssumption
    DEF EvictionEnds, Goto, ThreadTypes, Actors, ManagerTypes, LocalsOK, SInv,
    TInv, TypeOK, ClosingUnmapped, mgrVars
<1>21. ASSUME UNCHANGED <<workers, threadVars>> PROVE ClosingUnmapped'
    BY <1>21 DEF threadVars, SInv, TInv, TypeOK, ClosingUnmapped, mgrVars
<1> QED
    BY <1>1, <1>2, <1>3, <1>4, <1>5, <1>6, <1>7, <1>8, <1>9, <1>10, <1>11,
    <1>12, <1>13, <1>14, <1>15, <1>16, <1>17, <1>18, <1>19, <1>20, <1>21
    DEF Next, vars, mgrVars, procVars, readVars, threadVars, ThreadStep,
    EvictorStep, StopSteps, ProcessStep, Actors, Age, ReaderEnter, ReadLine,
    RuntimeLoaded, RuntimeServe, RuntimeExit, RuntimeLoadFails, RuntimeCrash,
    Reclaim

\* A thread refers to a worker of the plugin it was asked for.
LEMMA HeldHomeStep == SInv /\ [Next]_vars => HeldHome'
<1> SUFFICES ASSUME SInv, [Next]_vars PROVE HeldHome'
    OBVIOUS
<1>1. ASSUME NEW t \in Threads, NEW o \in OpNames, NEW pl \in Plugins, Begin(t, o, pl)
      PROVE HeldHome'
    BY <1>1, SentinelAssumption
    DEF Begin, Goto, Return, ThreadTypes, Actors, LocalsOK, SInv, TInv,
    TypeOK, HeldHome, HasWorker, procVars
<1>2. ASSUME NEW t \in Threads, NEW pl \in Plugins, RestartFailed(t, pl)
      PROVE HeldHome'
    BY <1>2, SentinelAssumption
    DEF RestartFailed, Return, ThreadTypes, Actors, LocalsOK, SInv, TInv,
    TypeOK, HeldHome, HasWorker, procVars
<1>3. ASSUME NEW t \in Threads, EnsureReuse(t) PROVE HeldHome'
    BY <1>3, SentinelAssumption
    DEF EnsureReuse, Goto, Return, ThreadTypes, Actors, ManagerTypes,
    MappedWorkerUsable, LocalsOK, InRequest, LiveWorker, SInv,
    TInv, TypeOK, HeldHome, HasWorker, procVars
<1>4. ASSUME NEW t \in Threads, EnsureSpawn(t) PROVE HeldHome'
    BY <1>4, SentinelAssumption
    DEF EnsureSpawn, NewProcess, AwaitReady, Goto, ThreadTypes, Actors,
    ProcessTypes, Free, LocalsOK, InRequest, SInv, TInv, TypeOK, HeldHome,
    HasWorker, procVars
<1>5. ASSUME NEW t \in Threads, EnsureSpawnFails(t) PROVE HeldHome'
    BY <1>5, SentinelAssumption
    DEF EnsureSpawnFails, Return, ThreadTypes, Actors, LocalsOK, SInv, TInv,
    TypeOK, HeldHome, HasWorker, procVars
<1>6. ASSUME NEW t \in Threads, ReadyReceived(t) PROVE HeldHome'
    BY <1>6, SentinelAssumption
    DEF ReadyReceived, Goto, Return, ThreadTypes, Actors, LocalsOK, SInv,
    TInv, TypeOK, HeldHome, HasWorker, procVars
<1>7. ASSUME NEW t \in Threads, ReadyTimeout(t) PROVE HeldHome'
    BY <1>7, SentinelAssumption
    DEF ReadyTimeout, Goto, ThreadTypes, Actors, LocalsOK, SInv, TInv, TypeOK,
    HeldHome, HasWorker, procVars
<1>8. ASSUME NEW t \in Threads, PopFailedStart(t) PROVE HeldHome'
    BY <1>8, SentinelAssumption
    DEF PopFailedStart, Goto, ThreadTypes, Actors, LocalsOK, SInv, TInv,
    TypeOK, HeldHome, HasWorker, procVars
<1>9. ASSUME NEW t \in Threads, SetRunning(t) PROVE HeldHome'
    BY <1>9, SentinelAssumption
    DEF SetRunning, Goto, Return, ThreadTypes, Actors, LocalsOK, SInv, TInv,
    TypeOK, HeldHome, HasWorker, procVars
<1>10. ASSUME NEW t \in Threads, CallSend(t) PROVE HeldHome'
    BY <1>10, SentinelAssumption
    DEF CallSend, Goto, Return, ThreadTypes, Actors, LocalsOK, SInv, TInv,
    TypeOK, HeldHome, HasWorker, procVars
<1>11. ASSUME NEW t \in Threads, ReplyReceived(t) PROVE HeldHome'
    BY <1>11, SentinelAssumption
    DEF ReplyReceived, Goto, Return, ThreadTypes, Actors, LocalsOK, SInv,
    TInv, TypeOK, HeldHome, HasWorker, procVars
<1>12. ASSUME NEW t \in Threads, ReplyTimeout(t) PROVE HeldHome'
    BY <1>12, SentinelAssumption
    DEF ReplyTimeout, Goto, ThreadTypes, Actors, LocalsOK, SInv, TInv, TypeOK,
    HeldHome, HasWorker, procVars
<1>13. ASSUME NEW t \in Threads, HandleCrash(t) PROVE HeldHome'
    BY <1>13, SentinelAssumption
    DEF HandleCrash, Goto, ThreadTypes, Actors, LocalsOK, SInv, TInv, TypeOK,
    HeldHome, HasWorker, procVars
<1>14. ASSUME NEW t \in Threads, SetFailed(t) PROVE HeldHome'
    BY <1>14, SentinelAssumption
    DEF SetFailed, Return, ThreadTypes, Actors, LocalsOK, SInv, TInv, TypeOK,
    HeldHome, HasWorker, procVars
<1>15. ASSUME NEW t \in Threads, ShutdownList(t) PROVE HeldHome'
    BY <1>15, SentinelAssumption
    DEF ShutdownList, AfterStop, Return, Goto, ThreadTypes, Actors, LocalsOK,
    SInv, TInv, TypeOK, HeldHome, HasWorker, procVars
<1>16. ASSUME NEW a \in Actors, StopPop(a) PROVE HeldHome'
    BY <1>16, SentinelAssumption
    DEF StopPop, AfterStop, Return, Goto, ThreadTypes, Actors, LocalsOK, SInv,
    TInv, TypeOK, HeldHome, HasWorker, procVars
<1>17. ASSUME NEW a \in Actors, TerminateClose(a) PROVE HeldHome'
    BY <1>17, SentinelAssumption
    DEF TerminateClose, AfterStop, Return, Goto, ThreadTypes, Actors,
    LocalsOK, SInv, TInv, TypeOK, HeldHome, HasWorker, procVars
<1>18. ASSUME NEW a \in Actors, TerminateKill(a) PROVE HeldHome'
    BY <1>18, SentinelAssumption
    DEF TerminateKill, AfterStop, Return, Goto, ThreadTypes, Actors, LocalsOK,
    SInv, TInv, TypeOK, HeldHome, HasWorker, procVars
<1>19. ASSUME EvictionScan PROVE HeldHome'
    BY <1>19, SentinelAssumption
    DEF EvictionScan, Goto, ThreadTypes, Actors, LocalsOK, SInv, TInv, TypeOK,
    HeldHome, HasWorker, procVars
<1>20. ASSUME EvictionEnds PROVE HeldHome'
    BY <1>20, SentinelAssumption
    DEF EvictionEnds, Goto, ThreadTypes, Actors, LocalsOK, SInv, TInv, TypeOK,
    HeldHome, HasWorker, procVars
<1>21. ASSUME UNCHANGED <<home, threadVars>> PROVE HeldHome'
    BY <1>21 DEF threadVars, SInv, TInv, TypeOK, HeldHome, procVars
<1> QED
    BY <1>1, <1>2, <1>3, <1>4, <1>5, <1>6, <1>7, <1>8, <1>9, <1>10, <1>11,
    <1>12, <1>13, <1>14, <1>15, <1>16, <1>17, <1>18, <1>19, <1>20, <1>21
    DEF Next, vars, mgrVars, procVars, readVars, threadVars, ThreadStep,
    EvictorStep, StopSteps, ProcessStep, Actors, Age, ReaderEnter, ReadLine,
    RuntimeLoaded, RuntimeServe, RuntimeExit, RuntimeLoadFails, RuntimeCrash,
    Reclaim

\* A thread has one reader, on its own worker, until a line arrives.
LEMMA ReadersStep == SInv /\ [Next]_vars => ReadersWait'
<1> SUFFICES ASSUME SInv, [Next]_vars PROVE ReadersWait'
    OBVIOUS
<1>1. ASSUME NEW t \in Threads, NEW o \in OpNames, NEW pl \in Plugins, Begin(t, o, pl)
      PROVE ReadersWait'
    BY <1>1, SentinelAssumption
    DEF Begin, Goto, Return, ThreadTypes, Actors, ReaderTypes, LocalsOK,
    HasWorker, readVars, SInv, TInv, TypeOK, ReadersWait, Receiving
<1>2. ASSUME NEW t \in Threads, NEW pl \in Plugins, RestartFailed(t, pl)
      PROVE ReadersWait'
    BY <1>2, SentinelAssumption
    DEF RestartFailed, Return, ThreadTypes, Actors, ReaderTypes, LocalsOK,
    HasWorker, readVars, SInv, TInv, TypeOK, ReadersWait, Receiving
<1>3. ASSUME NEW t \in Threads, EnsureReuse(t) PROVE ReadersWait'
    BY <1>3, SentinelAssumption
    DEF EnsureReuse, Goto, Return, ThreadTypes, Actors, ReaderTypes, LocalsOK,
    HasWorker, readVars, SInv, TInv, TypeOK, ReadersWait, Receiving
<1>4. ASSUME NEW t \in Threads, EnsureSpawn(t) PROVE ReadersWait'
    BY <1>4, SentinelAssumption
    DEF EnsureSpawn, AwaitReady, Goto, ThreadTypes, Actors, ReaderTypes, Free,
    GotHome, SInv, TInv, TypeOK, ReadersWait, Receiving
<1>5. ASSUME NEW t \in Threads, EnsureSpawnFails(t) PROVE ReadersWait'
    BY <1>5, SentinelAssumption
    DEF EnsureSpawnFails, Return, ThreadTypes, Actors, ReaderTypes, LocalsOK,
    HasWorker, readVars, SInv, TInv, TypeOK, ReadersWait, Receiving
<1>6. ASSUME NEW t \in Threads, ReadyReceived(t) PROVE ReadersWait'
    BY <1>6, SentinelAssumption
    DEF ReadyReceived, Goto, Return, ThreadTypes, Actors, ReaderTypes,
    LocalsOK, HasWorker, readVars, SInv, TInv, TypeOK, ReadersWait, Receiving
<1>7. ASSUME NEW t \in Threads, ReadyTimeout(t) PROVE ReadersWait'
    BY <1>7, SentinelAssumption, SMTT(30)
    DEF ReadyTimeout, TimesOut, Abandon, Goto, ThreadTypes, Actors,
    ReaderTypes, LocalsOK, HasWorker, readVars, SInv, TInv, TypeOK,
    ReadersWait, Receiving
<1>8. ASSUME NEW t \in Threads, PopFailedStart(t) PROVE ReadersWait'
    BY <1>8, SentinelAssumption
    DEF PopFailedStart, Goto, ThreadTypes, Actors, ReaderTypes, LocalsOK,
    HasWorker, readVars, SInv, TInv, TypeOK, ReadersWait, Receiving
<1>9. ASSUME NEW t \in Threads, SetRunning(t) PROVE ReadersWait'
    BY <1>9, SentinelAssumption
    DEF SetRunning, Goto, Return, ThreadTypes, Actors, ReaderTypes, LocalsOK,
    HasWorker, readVars, SInv, TInv, TypeOK, ReadersWait, Receiving
<1>10. ASSUME NEW t \in Threads, CallSend(t) PROVE ReadersWait'
  <2>1. got' = got /\ holder' = holder /\ got[t] = Nothing
    BY <1>10 DEF CallSend, SInv, GotHome, Receiving
  <2>2. \A p \in Procs : holder[p] # t /\ t \notin readers[p]
    BY <1>10 DEF CallSend, SInv, ReadersWait, Receiving
  <2>3. \A u \in Threads \ {t} : pc'[u] = pc[u] /\ held'[u] = held[u]
    BY <1>10 DEF CallSend, Goto, Return, SInv, TInv, TypeOK, ThreadTypes, Actors
  <2>4. CASE UNCHANGED readers
    BY <2>1, <2>2, <2>3, <2>4 DEF SInv, ReadersWait
  <2>5. CASE /\ readers' = [readers EXCEPT ![held[t]] = @ \cup {t}]
             /\ Goto(t, "recv") /\ UNCHANGED held
    BY <2>1, <2>2, <2>3, <2>5
    DEF Goto, SInv, ReadersWait, Receiving, TInv, TypeOK, ThreadTypes,
        ReaderTypes, Actors
  <2> QED
    BY <1>10, <2>4, <2>5 DEF CallSend
<1>11. ASSUME NEW t \in Threads, ReplyReceived(t) PROVE ReadersWait'
    BY <1>11, SentinelAssumption
    DEF ReplyReceived, Goto, Return, ThreadTypes, Actors, ReaderTypes,
    LocalsOK, HasWorker, readVars, SInv, TInv, TypeOK, ReadersWait, Receiving
<1>12. ASSUME NEW t \in Threads, ReplyTimeout(t) PROVE ReadersWait'
    BY <1>12, SentinelAssumption
    DEF ReplyTimeout, TimesOut, Abandon, Goto, ThreadTypes, Actors,
    ReaderTypes, LocalsOK, HasWorker, readVars, SInv, TInv, TypeOK,
    ReadersWait, Receiving
<1>13. ASSUME NEW t \in Threads, HandleCrash(t) PROVE ReadersWait'
    BY <1>13, SentinelAssumption
    DEF HandleCrash, Goto, ThreadTypes, Actors, ReaderTypes, LocalsOK,
    HasWorker, readVars, SInv, TInv, TypeOK, ReadersWait, Receiving
<1>14. ASSUME NEW t \in Threads, SetFailed(t) PROVE ReadersWait'
    BY <1>14, SentinelAssumption
    DEF SetFailed, Return, ThreadTypes, Actors, ReaderTypes, LocalsOK,
    HasWorker, readVars, SInv, TInv, TypeOK, ReadersWait, Receiving
<1>15. ASSUME NEW t \in Threads, ShutdownList(t) PROVE ReadersWait'
    BY <1>15, SentinelAssumption
    DEF ShutdownList, AfterStop, Return, Goto, ThreadTypes, Actors,
    ReaderTypes, LocalsOK, HasWorker, readVars, SInv, TInv, TypeOK,
    ReadersWait, Receiving
<1>16. ASSUME NEW a \in Actors, StopPop(a) PROVE ReadersWait'
    BY <1>16, SentinelAssumption
    DEF StopPop, AfterStop, Return, Goto, ThreadTypes, Actors, ReaderTypes,
    LocalsOK, HasWorker, readVars, SInv, TInv, TypeOK, ReadersWait, Receiving
<1>17. ASSUME NEW a \in Actors, TerminateClose(a) PROVE ReadersWait'
    BY <1>17, SentinelAssumption
    DEF TerminateClose, AfterStop, Return, Goto, ThreadTypes, Actors,
    ReaderTypes, LocalsOK, HasWorker, readVars, SInv, TInv, TypeOK,
    ReadersWait, Receiving
<1>18. ASSUME NEW a \in Actors, TerminateKill(a) PROVE ReadersWait'
    BY <1>18, SentinelAssumption
    DEF TerminateKill, AfterStop, Return, Goto, ThreadTypes, Actors,
    ReaderTypes, LocalsOK, HasWorker, readVars, SInv, TInv, TypeOK,
    ReadersWait, Receiving
<1>19. ASSUME EvictionScan PROVE ReadersWait'
    BY <1>19, SentinelAssumption
    DEF EvictionScan, Goto, ThreadTypes, Actors, ReaderTypes, LocalsOK,
    HasWorker, readVars, SInv, TInv, TypeOK, ReadersWait, Receiving
<1>20. ASSUME EvictionEnds PROVE ReadersWait'
    BY <1>20, SentinelAssumption
    DEF EvictionEnds, Goto, ThreadTypes, Actors, ReaderTypes, LocalsOK,
    HasWorker, readVars, SInv, TInv, TypeOK, ReadersWait, Receiving
<1>21. ASSUME NEW p \in Procs, ReaderEnter(p) PROVE ReadersWait'
    BY <1>21, SentinelAssumption
    DEF ReaderEnter, ReaderTypes, threadVars, SInv, TInv, TypeOK, ReadersWait,
    Receiving
<1>22. ASSUME NEW p \in Procs, ReadLine(p) PROVE ReadersWait'
    BY <1>22, SentinelAssumption
    DEF ReadLine, ReaderTypes, threadVars, SInv, TInv, TypeOK, ReadersWait,
    Receiving
<1>23. ASSUME UNCHANGED <<readVars, threadVars>> PROVE ReadersWait'
    BY <1>23 DEF readVars, threadVars, SInv, TInv, TypeOK, ReadersWait,
    Receiving
<1> QED
    BY <1>1, <1>2, <1>3, <1>4, <1>5, <1>6, <1>7, <1>8, <1>9, <1>10, <1>11,
    <1>12, <1>13, <1>14, <1>15, <1>16, <1>17, <1>18, <1>19, <1>20, <1>21,
    <1>22, <1>23
    DEF Next, vars, ThreadStep, EvictorStep, StopSteps, ProcessStep, Actors,
    Age, RuntimeLoaded, RuntimeServe, RuntimeExit, RuntimeLoadFails,
    RuntimeCrash, Reclaim

\* The thread that leaves a stray behind drops the worker.
LEMMA StrayStep == SInv /\ [Next]_vars => StrayOnlyOnDropped'
<1> SUFFICES ASSUME SInv, [Next]_vars PROVE StrayOnlyOnDropped'
    OBVIOUS
<1>1. ASSUME NEW t \in Threads, NEW o \in OpNames, NEW pl \in Plugins, Begin(t, o, pl)
      PROVE StrayOnlyOnDropped'
    BY <1>1, SentinelAssumption
    DEF Begin, Goto, Return, ThreadTypes, Actors, ManagerTypes, LocalsOK,
    HasWorker, InRequest, SInv, TInv, TypeOK, StrayOnlyOnDropped, mgrVars,
    readVars
<1>2. ASSUME NEW t \in Threads, NEW pl \in Plugins, RestartFailed(t, pl)
      PROVE StrayOnlyOnDropped'
    BY <1>2, SentinelAssumption
    DEF RestartFailed, DropWorker, Return, ThreadTypes, Actors, ManagerTypes,
    LocalsOK, HasWorker, InRequest, SInv, TInv, TypeOK, StrayOnlyOnDropped,
    mgrVars, readVars
<1>3. ASSUME NEW t \in Threads, EnsureReuse(t) PROVE StrayOnlyOnDropped'
    BY <1>3, SentinelAssumption
    DEF EnsureReuse, Goto, Return, ThreadTypes, Actors, ManagerTypes,
    LocalsOK, HasWorker, InRequest, SInv, TInv, TypeOK, StrayOnlyOnDropped,
    mgrVars, readVars
<1>4. ASSUME NEW t \in Threads, EnsureSpawn(t) PROVE StrayOnlyOnDropped'
    BY <1>4, SentinelAssumption
    DEF EnsureSpawn, AwaitReady, Goto, ThreadTypes, Actors, ManagerTypes,
    ReaderTypes, Free, LocalsOK, InRequest, SInv, TInv, TypeOK,
    StrayOnlyOnDropped, mgrVars, readVars
<1>5. ASSUME NEW t \in Threads, EnsureSpawnFails(t) PROVE StrayOnlyOnDropped'
    BY <1>5, SentinelAssumption
    DEF EnsureSpawnFails, Return, ThreadTypes, Actors, ManagerTypes, LocalsOK,
    HasWorker, InRequest, SInv, TInv, TypeOK, StrayOnlyOnDropped, mgrVars,
    readVars
<1>6. ASSUME NEW t \in Threads, ReadyReceived(t) PROVE StrayOnlyOnDropped'
    BY <1>6, SentinelAssumption
    DEF ReadyReceived, Goto, Return, ThreadTypes, Actors, ManagerTypes,
    LocalsOK, HasWorker, InRequest, SInv, TInv, TypeOK, StrayOnlyOnDropped,
    mgrVars, readVars
<1>7. ASSUME NEW t \in Threads, ReadyTimeout(t) PROVE StrayOnlyOnDropped'
    BY <1>7, SentinelAssumption
    DEF ReadyTimeout, TimesOut, Abandon, Goto, ThreadTypes, Actors,
    ManagerTypes, ReaderTypes, LocalsOK, HasWorker, HeldHome,
    MappedWorkerUsable, SInv, TInv, TypeOK, StrayOnlyOnDropped, mgrVars,
    readVars
<1>8. ASSUME NEW t \in Threads, PopFailedStart(t) PROVE StrayOnlyOnDropped'
    BY <1>8, SentinelAssumption
    DEF PopFailedStart, DropWorker, Goto, ThreadTypes, Actors, ManagerTypes,
    LocalsOK, HasWorker, InRequest, SInv, TInv, TypeOK, StrayOnlyOnDropped,
    mgrVars, readVars
<1>9. ASSUME NEW t \in Threads, SetRunning(t) PROVE StrayOnlyOnDropped'
    BY <1>9, SentinelAssumption
    DEF SetRunning, Goto, Return, ThreadTypes, Actors, ManagerTypes, LocalsOK,
    HasWorker, InRequest, SInv, TInv, TypeOK, StrayOnlyOnDropped, mgrVars,
    readVars
<1>10. ASSUME NEW t \in Threads, CallSend(t) PROVE StrayOnlyOnDropped'
    BY <1>10, SentinelAssumption
    DEF CallSend, Goto, Return, ThreadTypes, Actors, ManagerTypes, LocalsOK,
    HasWorker, InRequest, SInv, TInv, TypeOK, StrayOnlyOnDropped, mgrVars,
    readVars
<1>11. ASSUME NEW t \in Threads, ReplyReceived(t) PROVE StrayOnlyOnDropped'
    BY <1>11, SentinelAssumption
    DEF ReplyReceived, Goto, Return, ThreadTypes, Actors, ManagerTypes,
    LocalsOK, HasWorker, InRequest, SInv, TInv, TypeOK, StrayOnlyOnDropped,
    mgrVars, readVars
<1>12. ASSUME NEW t \in Threads, ReplyTimeout(t) PROVE StrayOnlyOnDropped'
    BY <1>12, SentinelAssumption
    DEF ReplyTimeout, TimesOut, Abandon, Goto, ThreadTypes, Actors,
    ManagerTypes, ReaderTypes, LocalsOK, HasWorker, HeldHome,
    MappedWorkerUsable, SInv, TInv, TypeOK, StrayOnlyOnDropped, mgrVars,
    readVars
<1>13. ASSUME NEW t \in Threads, HandleCrash(t) PROVE StrayOnlyOnDropped'
    BY <1>13, SentinelAssumption
    DEF HandleCrash, DropWorker, Goto, ThreadTypes, Actors, ManagerTypes,
    LocalsOK, HasWorker, InRequest, SInv, TInv, TypeOK, StrayOnlyOnDropped,
    mgrVars, readVars
<1>14. ASSUME NEW t \in Threads, SetFailed(t) PROVE StrayOnlyOnDropped'
    BY <1>14, SentinelAssumption
    DEF SetFailed, Return, ThreadTypes, Actors, ManagerTypes, LocalsOK,
    HasWorker, InRequest, SInv, TInv, TypeOK, StrayOnlyOnDropped, mgrVars,
    readVars
<1>15. ASSUME NEW t \in Threads, ShutdownList(t) PROVE StrayOnlyOnDropped'
    BY <1>15, SentinelAssumption
    DEF ShutdownList, AfterStop, Return, Goto, ThreadTypes, Actors,
    ManagerTypes, LocalsOK, HasWorker, InRequest, SInv, TInv, TypeOK,
    StrayOnlyOnDropped, mgrVars, readVars
<1>16. ASSUME NEW a \in Actors, StopPop(a) PROVE StrayOnlyOnDropped'
    BY <1>16, SentinelAssumption
    DEF StopPop, DropWorker, AfterStop, Return, Goto, ThreadTypes, Actors,
    ManagerTypes, LocalsOK, HasWorker, InRequest, SInv, TInv, TypeOK,
    StrayOnlyOnDropped, mgrVars, readVars
<1>17. ASSUME NEW a \in Actors, TerminateClose(a) PROVE StrayOnlyOnDropped'
    BY <1>17, SentinelAssumption
    DEF TerminateClose, AfterStop, Return, Goto, ThreadTypes, Actors,
    ManagerTypes, LocalsOK, HasWorker, InRequest, SInv, TInv, TypeOK,
    StrayOnlyOnDropped, mgrVars, readVars
<1>18. ASSUME NEW a \in Actors, TerminateKill(a) PROVE StrayOnlyOnDropped'
    BY <1>18, SentinelAssumption
    DEF TerminateKill, AfterStop, Return, Goto, ThreadTypes, Actors,
    ManagerTypes, LocalsOK, HasWorker, InRequest, SInv, TInv, TypeOK,
    StrayOnlyOnDropped, mgrVars, readVars
<1>19. ASSUME EvictionScan PROVE StrayOnlyOnDropped'
    BY <1>19, SentinelAssumption
    DEF EvictionScan, Goto, ThreadTypes, Actors, ManagerTypes, LocalsOK,
    HasWorker, InRequest, SInv, TInv, TypeOK, StrayOnlyOnDropped, mgrVars,
    readVars
<1>20. ASSUME EvictionEnds PROVE StrayOnlyOnDropped'
    BY <1>20, SentinelAssumption
    DEF EvictionEnds, Goto, ThreadTypes, Actors, ManagerTypes, LocalsOK,
    HasWorker, InRequest, SInv, TInv, TypeOK, StrayOnlyOnDropped, mgrVars,
    readVars
<1>21. ASSUME NEW p \in Procs, ReaderEnter(p) PROVE StrayOnlyOnDropped'
    BY <1>21, SentinelAssumption
    DEF ReaderEnter, ManagerTypes, ReaderTypes, threadVars, SInv, TInv,
    TypeOK, StrayOnlyOnDropped, mgrVars, readVars
<1>22. ASSUME NEW p \in Procs, ReadLine(p) PROVE StrayOnlyOnDropped'
    BY <1>22, SentinelAssumption
    DEF ReadLine, ManagerTypes, ReaderTypes, threadVars, SInv, TInv, TypeOK,
    StrayOnlyOnDropped, mgrVars, readVars
<1>23. ASSUME UNCHANGED <<workers, strays, holder, pc, plugin>> PROVE StrayOnlyOnDropped'
    BY <1>23 DEF SInv, TInv, TypeOK, StrayOnlyOnDropped, mgrVars, readVars
<1> QED
    BY <1>1, <1>2, <1>3, <1>4, <1>5, <1>6, <1>7, <1>8, <1>9, <1>10, <1>11,
    <1>12, <1>13, <1>14, <1>15, <1>16, <1>17, <1>18, <1>19, <1>20, <1>21,
    <1>22, <1>23
    DEF Next, vars, mgrVars, procVars, readVars, threadVars, ThreadStep,
    EvictorStep, StopSteps, ProcessStep, Actors, Age, RuntimeLoaded,
    RuntimeServe, RuntimeExit, RuntimeLoadFails, RuntimeCrash, Reclaim

\* The pipes of a worker carry traffic of its plugin only.
LEMMA PipesStep == SInv /\ [Next]_vars => PipesHome'
<1> SUFFICES ASSUME SInv, [Next]_vars PROVE PipesHome'
    OBVIOUS
<1>1. ASSUME NEW t \in Threads, EnsureSpawn(t) PROVE PipesHome'
    BY <1>1, ReqOf
    DEF EnsureSpawn, NewProcess, LocalsOK, Alive, SInv, TInv, TypeOK,
    PipesHome, ProcessTypes, procVars
<1>2. ASSUME NEW t \in Threads, CallSend(t) PROVE PipesHome'
  <2>1. held[t] \in Procs /\ CurrentRequest(t) \in Requests
    BY <1>2, CurrentRequestType DEF CallSend, SInv, TInv, LocalsOK, HasWorker
  <2>2. CurrentRequest(t).to = home[held[t]]
    BY <1>2 DEF CallSend, CurrentRequest, SInv, HeldHome, HasWorker
  <2>3. UNCHANGED <<home, stdout>>
    BY <1>2 DEF CallSend
  <2>4. CASE UNCHANGED stdin
    BY <2>3, <2>4 DEF SInv, PipesHome
  <2>5. CASE stdin' = [stdin EXCEPT ![held[t]] = Append(@, CurrentRequest(t))]
    <3>1. stdin[held[t]] \in Seq(Requests)
      BY <2>1 DEF SInv, TInv, TypeOK, ProcessTypes
    <3>2. \A i \in DOMAIN Append(stdin[held[t]], CurrentRequest(t)) :
            Append(stdin[held[t]], CurrentRequest(t))[i].to = home[held[t]]
      BY <2>1, <2>2, <3>1 DEF SInv, PipesHome
    <3> QED
      BY <2>1, <2>3, <2>5, <3>2 DEF SInv, PipesHome, TInv, TypeOK, ProcessTypes
  <2> QED
    BY <1>2, <2>4, <2>5 DEF CallSend
<1>3. ASSUME NEW a \in Actors, TerminateKill(a) PROVE PipesHome'
  <2>1. UNCHANGED <<home, stdout>>
    BY <1>3 DEF TerminateKill
  <2>2. CASE UNCHANGED stdin
    BY <2>1, <2>2 DEF SInv, PipesHome
  <2>3. CASE stdin' = [stdin EXCEPT ![held[a]] = <<>>]
    BY <2>1, <2>3 DEF SInv, PipesHome, TInv, TypeOK, ProcessTypes
  <2> QED
    BY <1>3, <2>2, <2>3 DEF TerminateKill, Kill, Dies
<1>4. ASSUME NEW p \in Procs, ReadLine(p) PROVE PipesHome'
  <2>1. UNCHANGED <<home, stdin>>
    BY <1>4 DEF ReadLine
  <2>2. CASE UNCHANGED stdout
    BY <2>1, <2>2 DEF SInv, PipesHome
  <2>3. CASE stdout[p] # <<>> /\ stdout' = [stdout EXCEPT ![p] = Tail(@)]
    <3>1. stdout[p] \in Seq(Lines)
      BY DEF SInv, TInv, TypeOK, ProcessTypes
    <3>2. \A i \in DOMAIN Tail(stdout[p]) :
            /\ i + 1 \in DOMAIN stdout[p]
            /\ Tail(stdout[p])[i] = stdout[p][i + 1]
      BY <2>3, <3>1
    <3> QED
      BY <2>1, <2>3, <3>2 DEF SInv, PipesHome, TInv, TypeOK, ProcessTypes
  <2> QED
    BY <1>4, <2>2, <2>3 DEF ReadLine, Consume
<1>5. ASSUME NEW p \in Procs, RuntimeLoaded(p) PROVE PipesHome'
    BY <1>5, ReqOf
    DEF RuntimeLoaded, LocalsOK, Alive, SInv, TInv, TypeOK, PipesHome,
    ProcessTypes, procVars
<1>6. ASSUME NEW p \in Procs, RuntimeServe(p) PROVE PipesHome'
  <2>1. stdin[p] \in Seq(Requests) /\ stdin[p] # <<>> /\ stdout[p] \in Seq(Lines)
    BY <1>6 DEF RuntimeServe, SInv, TInv, TypeOK, ProcessTypes
  <2>2. Head(stdin[p]).to = home[p]
    BY <2>1 DEF SInv, PipesHome
  <2>3. \A i \in DOMAIN Tail(stdin[p]) :
          /\ i + 1 \in DOMAIN stdin[p]
          /\ Tail(stdin[p])[i] = stdin[p][i + 1]
    BY <2>1
  <2>4. PICK k \in Outcomes :
          stdout' = [stdout EXCEPT ![p] = Append(@, [kind |-> k, req |-> Head(stdin[p])])]
    BY <1>6 DEF RuntimeServe
  <2> DEFINE line == [kind |-> k, req |-> Head(stdin[p])]
  <2>5. line.req = Head(stdin[p])
    OBVIOUS
  <2>6. \A i \in DOMAIN Append(stdout[p], line) :
          \/ i \in DOMAIN stdout[p] /\ Append(stdout[p], line)[i] = stdout[p][i]
          \/ Append(stdout[p], line)[i] = line
    <3> HIDE DEF line
    <3> QED BY <2>1
  <2>7. UNCHANGED home /\ stdin' = [stdin EXCEPT ![p] = Tail(@)]
    BY <1>6 DEF RuntimeServe
  <2>8. stdin'[p] = Tail(stdin[p]) /\ stdout'[p] = Append(stdout[p], line)
    BY <2>4, <2>7 DEF SInv, TInv, TypeOK, ProcessTypes
  <2>9. \A q \in Procs \ {p} : stdin'[q] = stdin[q] /\ stdout'[q] = stdout[q]
    BY <2>4, <2>7 DEF SInv, TInv, TypeOK, ProcessTypes
  <2>10. \A i \in DOMAIN stdin'[p] : stdin'[p][i].to = home[p]
    BY <2>3, <2>8 DEF SInv, PipesHome
  <2>11. \A i \in DOMAIN stdout'[p] :
           stdout'[p][i].req # NoReq => stdout'[p][i].req.to = home[p]
    <3> HIDE DEF line
    <3> QED BY <2>2, <2>5, <2>6, <2>8 DEF SInv, PipesHome
  <2> QED
    BY <2>7, <2>9, <2>10, <2>11 DEF SInv, PipesHome
<1>7. ASSUME NEW p \in Procs, RuntimeExit(p) PROVE PipesHome'
    BY <1>7, ReqOf
    DEF RuntimeExit, Dies, LocalsOK, Alive, SInv, TInv, TypeOK, PipesHome,
    ProcessTypes, procVars
<1>8. ASSUME NEW p \in Procs, RuntimeLoadFails(p) PROVE PipesHome'
    BY <1>8, ReqOf
    DEF RuntimeLoadFails, Dies, LocalsOK, Alive, SInv, TInv, TypeOK,
    PipesHome, ProcessTypes, procVars
<1>9. ASSUME NEW p \in Procs, RuntimeCrash(p) PROVE PipesHome'
    BY <1>9, ReqOf
    DEF RuntimeCrash, Dies, LocalsOK, Alive, SInv, TInv, TypeOK, PipesHome,
    ProcessTypes, procVars
<1>10. ASSUME UNCHANGED <<stdin, stdout, home>> PROVE PipesHome'
    BY <1>10 DEF SInv, TInv, TypeOK, PipesHome, ProcessTypes, procVars
<1> QED
    BY <1>1, <1>2, <1>3, <1>4, <1>5, <1>6, <1>7, <1>8, <1>9, <1>10
    DEF Next, vars, mgrVars, procVars, readVars, threadVars, ThreadStep,
    EvictorStep, StopSteps, ProcessStep, Actors, Begin, RestartFailed,
    EnsureReuse, EnsureSpawnFails, ReadyReceived, ReadyTimeout,
    PopFailedStart, SetRunning, ReplyReceived, ReplyTimeout, HandleCrash,
    SetFailed, ShutdownList, StopPop, TerminateClose, EvictionScan,
    EvictionEnds, Age, ReaderEnter, Reclaim

\* What a thread has read is traffic of the plugin it was asked for.
LEMMA GotStep == SInv /\ [Next]_vars => GotHome'
<1> SUFFICES ASSUME SInv, [Next]_vars PROVE GotHome'
    OBVIOUS
<1>1. ASSUME NEW t \in Threads, NEW o \in OpNames, NEW pl \in Plugins, Begin(t, o, pl)
      PROVE GotHome'
    BY <1>1, SentinelAssumption, ReqOf
    DEF Begin, Goto, Return, ThreadTypes, Actors, ReaderTypes, readVars, SInv,
    TInv, TypeOK, GotHome, Receiving
<1>2. ASSUME NEW t \in Threads, NEW pl \in Plugins, RestartFailed(t, pl)
      PROVE GotHome'
    BY <1>2, SentinelAssumption, ReqOf
    DEF RestartFailed, Return, ThreadTypes, Actors, ReaderTypes, readVars,
    SInv, TInv, TypeOK, GotHome, Receiving
<1>3. ASSUME NEW t \in Threads, EnsureReuse(t) PROVE GotHome'
    BY <1>3, SentinelAssumption, ReqOf
    DEF EnsureReuse, Goto, Return, ThreadTypes, Actors, ReaderTypes, readVars,
    SInv, TInv, TypeOK, GotHome, Receiving
<1>4. ASSUME NEW t \in Threads, EnsureSpawn(t) PROVE GotHome'
    BY <1>4, SentinelAssumption, ReqOf
    DEF EnsureSpawn, AwaitReady, Goto, ThreadTypes, Actors, ReaderTypes,
    readVars, SInv, TInv, TypeOK, GotHome, Receiving
<1>5. ASSUME NEW t \in Threads, EnsureSpawnFails(t) PROVE GotHome'
    BY <1>5, SentinelAssumption, ReqOf
    DEF EnsureSpawnFails, Return, ThreadTypes, Actors, ReaderTypes, readVars,
    SInv, TInv, TypeOK, GotHome, Receiving
<1>6. ASSUME NEW t \in Threads, ReadyReceived(t) PROVE GotHome'
    BY <1>6, SentinelAssumption, ReqOf
    DEF ReadyReceived, Goto, Return, ThreadTypes, Actors, ReaderTypes,
    readVars, SInv, TInv, TypeOK, GotHome, Receiving
<1>7. ASSUME NEW t \in Threads, ReadyTimeout(t) PROVE GotHome'
    BY <1>7, SentinelAssumption, ReqOf
    DEF ReadyTimeout, TimesOut, Goto, ThreadTypes, Actors, ReaderTypes,
    readVars, SInv, TInv, TypeOK, GotHome, Receiving
<1>8. ASSUME NEW t \in Threads, PopFailedStart(t) PROVE GotHome'
    BY <1>8, SentinelAssumption, ReqOf
    DEF PopFailedStart, Goto, ThreadTypes, Actors, ReaderTypes, readVars,
    SInv, TInv, TypeOK, GotHome, Receiving
<1>9. ASSUME NEW t \in Threads, SetRunning(t) PROVE GotHome'
    BY <1>9, SentinelAssumption, ReqOf
    DEF SetRunning, Goto, Return, ThreadTypes, Actors, ReaderTypes, readVars,
    SInv, TInv, TypeOK, GotHome, Receiving
<1>10. ASSUME NEW t \in Threads, CallSend(t) PROVE GotHome'
    BY <1>10, SentinelAssumption, ReqOf
    DEF CallSend, Goto, Return, ThreadTypes, Actors, ReaderTypes, readVars,
    SInv, TInv, TypeOK, GotHome, Receiving
<1>11. ASSUME NEW t \in Threads, ReplyReceived(t) PROVE GotHome'
    BY <1>11, SentinelAssumption, ReqOf
    DEF ReplyReceived, Goto, Return, ThreadTypes, Actors, ReaderTypes,
    readVars, SInv, TInv, TypeOK, GotHome, Receiving
<1>12. ASSUME NEW t \in Threads, ReplyTimeout(t) PROVE GotHome'
    BY <1>12, SentinelAssumption, ReqOf
    DEF ReplyTimeout, TimesOut, Goto, ThreadTypes, Actors, ReaderTypes,
    readVars, SInv, TInv, TypeOK, GotHome, Receiving
<1>13. ASSUME NEW t \in Threads, HandleCrash(t) PROVE GotHome'
    BY <1>13, SentinelAssumption, ReqOf
    DEF HandleCrash, Goto, ThreadTypes, Actors, ReaderTypes, readVars, SInv,
    TInv, TypeOK, GotHome, Receiving
<1>14. ASSUME NEW t \in Threads, SetFailed(t) PROVE GotHome'
    BY <1>14, SentinelAssumption, ReqOf
    DEF SetFailed, Return, ThreadTypes, Actors, ReaderTypes, readVars, SInv,
    TInv, TypeOK, GotHome, Receiving
<1>15. ASSUME NEW t \in Threads, ShutdownList(t) PROVE GotHome'
    BY <1>15, SentinelAssumption, ReqOf
    DEF ShutdownList, AfterStop, Return, Goto, ThreadTypes, Actors,
    ReaderTypes, readVars, SInv, TInv, TypeOK, GotHome, Receiving
<1>16. ASSUME NEW a \in Actors, StopPop(a) PROVE GotHome'
    BY <1>16, SentinelAssumption, ReqOf, SMTT(30)
    DEF StopPop, AfterStop, Return, Goto, ThreadTypes, Actors, ReaderTypes,
    readVars, SInv, TInv, TypeOK, GotHome, Receiving
<1>17. ASSUME NEW a \in Actors, TerminateClose(a) PROVE GotHome'
    BY <1>17, SentinelAssumption, ReqOf
    DEF TerminateClose, AfterStop, Return, Goto, ThreadTypes, Actors,
    ReaderTypes, readVars, SInv, TInv, TypeOK, GotHome, Receiving
<1>18. ASSUME NEW a \in Actors, TerminateKill(a) PROVE GotHome'
    BY <1>18, SentinelAssumption, ReqOf
    DEF TerminateKill, AfterStop, Return, Goto, ThreadTypes, Actors,
    ReaderTypes, readVars, SInv, TInv, TypeOK, GotHome, Receiving
<1>19. ASSUME EvictionScan PROVE GotHome'
    BY <1>19, SentinelAssumption, ReqOf
    DEF EvictionScan, Goto, ThreadTypes, Actors, ReaderTypes, readVars, SInv,
    TInv, TypeOK, GotHome, Receiving
<1>20. ASSUME EvictionEnds PROVE GotHome'
    BY <1>20, SentinelAssumption, ReqOf
    DEF EvictionEnds, Goto, ThreadTypes, Actors, ReaderTypes, readVars, SInv,
    TInv, TypeOK, GotHome, Receiving
<1>21. ASSUME NEW p \in Procs, ReadLine(p) PROVE GotHome'
  <2>1. UNCHANGED <<pc, plugin>>
    BY <1>21 DEF ReadLine, threadVars
  <2>2. CASE got' = got
    BY <2>1, <2>2 DEF SInv, GotHome
  <2>3. CASE holder[p] \in Threads /\ got' # got
    <3> DEFINE t == holder[p]
    <3>1. pc[t] \in Receiving /\ held[t] = p /\ home[p] = plugin[t]
      BY <2>3 DEF SInv, ReadersWait, HeldHome, Receiving, HasWorker
    <3>2. stdout[p] \in Seq(Lines)
      BY DEF SInv, TInv, TypeOK, ProcessTypes
    <3>3. stdout[p] # <<>> /\ Head(stdout[p]).req # NoReq
            => Head(stdout[p]).req.to = home[p]
      BY <3>2 DEF SInv, PipesHome
    <3>4. PICK g \in {Head(stdout[p]), EOF} :
            /\ got' = [got EXCEPT ![t] = g]
            /\ g = EOF \/ stdout[p] # <<>>
      BY <1>21, <2>3 DEF ReadLine
    <3>5. g.req # NoReq => g.req.to = plugin[t]
      BY <3>1, <3>3, <3>4, ReqOf
    <3> QED
      BY <2>1, <2>3, <3>1, <3>4, <3>5
      DEF SInv, GotHome, TInv, TypeOK, ReaderTypes
  <2> QED
    BY <1>21, <2>2, <2>3 DEF ReadLine, SInv, TInv, TypeOK, ReaderTypes
<1>22. ASSUME UNCHANGED <<got, threadVars>> PROVE GotHome'
    BY <1>22 DEF threadVars, SInv, TInv, TypeOK, GotHome, Receiving
<1> QED
    BY <1>1, <1>2, <1>3, <1>4, <1>5, <1>6, <1>7, <1>8, <1>9, <1>10, <1>11,
    <1>12, <1>13, <1>14, <1>15, <1>16, <1>17, <1>18, <1>19, <1>20, <1>21,
    <1>22
    DEF Next, vars, mgrVars, procVars, readVars, threadVars, ThreadStep,
    EvictorStep, StopSteps, ProcessStep, Actors, Age, ReaderEnter,
    RuntimeLoaded, RuntimeServe, RuntimeExit, RuntimeLoadFails, RuntimeCrash,
    Reclaim

\* A result is a reply of the plugin that was asked for.
LEMMA IsolationStep == SInv /\ [Next]_vars => PluginIsolation'
<1> SUFFICES ASSUME SInv, [Next]_vars PROVE PluginIsolation'
    OBVIOUS
<1>1. ASSUME NEW t \in Threads, NEW o \in OpNames, NEW pl \in Plugins, Begin(t, o, pl)
      PROVE PluginIsolation'
    BY <1>1, ReqOf
    DEF Begin, Return, NoResult, Actors, SInv, TInv, TypeOK, PluginIsolation,
    ThreadTypes
<1>2. ASSUME NEW t \in Threads, NEW pl \in Plugins, RestartFailed(t, pl)
      PROVE PluginIsolation'
    BY <1>2, ReqOf
    DEF RestartFailed, Return, Actors, SInv, TInv, TypeOK, PluginIsolation,
    ThreadTypes
<1>3. ASSUME NEW t \in Threads, EnsureReuse(t) PROVE PluginIsolation'
    BY <1>3, ReqOf
    DEF EnsureReuse, Return, Actors, SInv, TInv, TypeOK, PluginIsolation,
    ThreadTypes
<1>4. ASSUME NEW t \in Threads, EnsureSpawnFails(t) PROVE PluginIsolation'
    BY <1>4, ReqOf
    DEF EnsureSpawnFails, Return, Actors, SInv, TInv, TypeOK, PluginIsolation,
    ThreadTypes
<1>5. ASSUME NEW t \in Threads, ReadyReceived(t) PROVE PluginIsolation'
    BY <1>5, ReqOf
    DEF ReadyReceived, Return, Actors, SInv, TInv, TypeOK, PluginIsolation,
    ThreadTypes
<1>6. ASSUME NEW t \in Threads, SetRunning(t) PROVE PluginIsolation'
    BY <1>6, ReqOf
    DEF SetRunning, Return, Actors, SInv, TInv, TypeOK, PluginIsolation,
    ThreadTypes
<1>7. ASSUME NEW t \in Threads, CallSend(t) PROVE PluginIsolation'
  <2>1. UNCHANGED plugin
    BY <1>7 DEF CallSend
  <2>2. \/ UNCHANGED ret
        \/ ret' = [ret EXCEPT ![t] = [kind |-> "internal", req |-> NoReq]]
    BY <1>7 DEF CallSend, Return
  <2> QED
    BY <2>1, <2>2 DEF SInv, TInv, TypeOK, PluginIsolation, ThreadTypes
<1>8. ASSUME NEW t \in Threads, ReplyReceived(t) PROVE PluginIsolation'
    BY <1>8, ReqOf
    DEF ReplyReceived, Return, GotHome, Actors, SInv, TInv, TypeOK,
    PluginIsolation, ThreadTypes
<1>9. ASSUME NEW t \in Threads, SetFailed(t) PROVE PluginIsolation'
    BY <1>9, ReqOf
    DEF SetFailed, Return, Actors, SInv, TInv, TypeOK, PluginIsolation,
    ThreadTypes
<1>10. ASSUME NEW t \in Threads, ShutdownList(t) PROVE PluginIsolation'
    BY <1>10, ReqOf
    DEF ShutdownList, AfterStop, Return, Actors, SInv, TInv, TypeOK,
    PluginIsolation, ThreadTypes
<1>11. ASSUME NEW a \in Actors, StopPop(a) PROVE PluginIsolation'
    BY <1>11, ReqOf
    DEF StopPop, AfterStop, Return, Actors, SInv, TInv, TypeOK,
    PluginIsolation, ThreadTypes
<1>12. ASSUME NEW a \in Actors, TerminateClose(a) PROVE PluginIsolation'
    BY <1>12, ReqOf
    DEF TerminateClose, AfterStop, Return, Actors, SInv, TInv, TypeOK,
    PluginIsolation, ThreadTypes
<1>13. ASSUME NEW a \in Actors, TerminateKill(a) PROVE PluginIsolation'
    BY <1>13, ReqOf
    DEF TerminateKill, AfterStop, Return, Actors, SInv, TInv, TypeOK,
    PluginIsolation, ThreadTypes
<1>14. ASSUME UNCHANGED <<ret, plugin>> PROVE PluginIsolation'
    BY <1>14 DEF SInv, TInv, TypeOK, PluginIsolation, ThreadTypes
<1> QED
    BY <1>1, <1>2, <1>3, <1>4, <1>5, <1>6, <1>7, <1>8, <1>9, <1>10, <1>11,
    <1>12, <1>13, <1>14
    DEF Next, vars, mgrVars, procVars, readVars, threadVars, ThreadStep,
    EvictorStep, StopSteps, ProcessStep, Actors, EnsureSpawn, ReadyTimeout,
    PopFailedStart, ReplyTimeout, HandleCrash, EvictionScan, EvictionEnds,
    Age, ReaderEnter, ReadLine, RuntimeLoaded, RuntimeServe, RuntimeExit,
    RuntimeLoadFails, RuntimeCrash, Reclaim

\* The inductive invariant.
LEMMA SInvInvariant == Spec => []SInv
<1>1. SInv /\ [Next]_vars => TInv'
  BY ManagerTypesStep, ProcessTypesStep, ReaderTypesStep, ThreadTypesStep,
     LocalsOKStep
  DEF SInv, TInv, TypeOK
<1>2. SInv /\ [Next]_vars => SInv'
  BY <1>1, LockStep, MappedStep, ClosingStep, HeldHomeStep, ReadersStep,
     StrayStep, PipesStep, GotStep, IsolationStep
  DEF SInv
<1> QED
  BY <1>2, InitSInv, PTL DEF Spec

\* stop() and eviction close a worker only after it has left the map, so a
\* worker the map offers is open and of its plugin.
THEOREM MapSound == Spec => []MappedWorkerUsable
<1>1. SInv => MappedWorkerUsable
  BY DEF SInv
<1> QED
  BY <1>1, SInvInvariant, PTL

\* No path out of _call_once leaves worker.lock held, and nobody else holds it.
THEOREM LockSound == Spec => []LockHeldOnlyInCall
<1>1. SInv => LockHeldOnlyInCall
  BY DEF SInv
<1> QED
  BY <1>1, SInvInvariant, PTL

\* A worker with a reader left behind by a timed-out _recv is not offered to
\* new calls, except until the timed-out thread has dropped it.
THEOREM StraysDropped == Spec => []StrayOnlyOnDropped
<1>1. SInv => StrayOnlyOnDropped
  BY DEF SInv
<1> QED
  BY <1>1, SInvInvariant, PTL

\* Locals, map entries, readers and pipe contents belong to one plugin each.
THEOREM OwnershipHolds == Spec => []Ownership
<1>1. SInv => Ownership
  BY DEF SInv, Ownership
<1> QED
  BY <1>1, SInvInvariant, PTL

\* Although replies are matched to calls by position only, a call never returns
\* the reply of another plugin's worker.
THEOREM Isolation == Spec => []PluginIsolation
<1>1. SInv => PluginIsolation
  BY DEF SInv
<1> QED
  BY <1>1, SInvInvariant, PTL

\* _ensure_worker replaces a map entry only if the process in it has exited; a
\* live worker leaves the map by a pop, whichever thread does it.
THEOREM NotReplaced == Spec => LiveWorkerNotReplaced
<1> DEFINE Kept(pl) == workers[pl] # NoProc /\ Alive(workers[pl])
                         /\ workers'[pl] # workers[pl] => workers'[pl] = NoProc
<1>1. ASSUME TInv, [Next]_vars PROVE \A pl \in Plugins : Kept(pl)
  <2>1. ASSUME NEW pl \in Plugins, DropWorker(pl) PROVE \A q \in Plugins : Kept(q)
    BY <1>1, <2>1 DEF DropWorker, TInv, TypeOK, ManagerTypes
  <2>2. ASSUME NEW t \in Threads, EnsureSpawn(t) PROVE \A q \in Plugins : Kept(q)
    BY <1>1, <2>2 DEF EnsureSpawn, LiveWorker, TInv, TypeOK, ManagerTypes
  <2>3. ASSUME UNCHANGED workers PROVE \A q \in Plugins : Kept(q)
    BY <2>3
  <2>4. ASSUME NEW t \in Threads, PopFailedStart(t) \/ HandleCrash(t)
        PROVE  \A q \in Plugins : Kept(q)
    BY <1>1, <2>1, <2>4
    DEF PopFailedStart, HandleCrash, TInv, LocalsOK, InRequest
  <2>5. ASSUME NEW t \in Threads, NEW pl \in Plugins, RestartFailed(t, pl)
        PROVE  \A q \in Plugins : Kept(q)
    BY <2>1, <2>5 DEF RestartFailed
  <2>6. ASSUME NEW a \in Actors, StopPop(a) PROVE \A q \in Plugins : Kept(q)
    BY <1>1, <2>1, <2>6 DEF StopPop, TInv, TypeOK, ThreadTypes
  <2> HIDE DEF Kept
  <2> QED
    BY <1>1, <2>2, <2>3, <2>4, <2>5, <2>6
    DEF Next, vars, mgrVars, ThreadStep, EvictorStep, StopSteps, ProcessStep, Actors,
    Begin, EnsureReuse, EnsureSpawnFails, ReadyReceived, ReadyTimeout, SetRunning,
    CallSend, ReplyReceived, ReplyTimeout, SetFailed, ShutdownList, TerminateClose,
    TerminateKill, EvictionScan, EvictionEnds, Age, ReaderEnter, ReadLine,
    RuntimeLoaded, RuntimeServe, RuntimeExit, RuntimeLoadFails, RuntimeCrash, Reclaim
<1>2. TInv /\ [Next]_vars => [\A pl \in Plugins : Kept(pl)]_vars
  BY <1>1
<1> QED
  BY <1>2, TInvInvariant, PTL DEF Spec, LiveWorkerNotReplaced
-----------------------------------------------------------------------------
(***************************************************************************)
(* The reported state.  _states and _workers are written in different      *)
(* locked sections, so they agree only for one request at a time.          *)
(***************************************************************************)

\* A request in progress works on a plugin that is not FAILED.
NotFailed(t) == pc[t] \in InRequest => states[plugin[t]] # FAILED

LEMMA NotFailedStep ==
  ASSUME NEW t \in Threads, Threads = {t}, TInv, NotFailed(t), [Next]_vars
  PROVE  NotFailed(t)'
<1> USE DEF NotFailed
<1>1. ASSUME NEW o \in OpNames, NEW pl \in Plugins, Begin(t, o, pl) \/ RestartFailed(t, pl)
      PROVE  NotFailed(t)'
  BY <1>1
  DEF Begin, RestartFailed, Rejects, Goto, Return, InRequest, Actors, TInv, TypeOK, ThreadTypes
<1>2. ASSUME ThreadStep(t), ~StopSteps(t) PROVE NotFailed(t)'
  BY <1>2
  DEF ThreadStep, EnsureReuse, EnsureSpawn, AwaitReady, EnsureSpawnFails, ReadyReceived,
      ReadyTimeout, PopFailedStart, SetRunning, CallSend, ReplyReceived, ReplyTimeout,
      HandleCrash, SetFailed, ShutdownList, AfterStop, Goto, Return, mgrVars, InRequest,
      NOT_STARTED, STARTING, RUNNING, FAILED, Actors, TInv, TypeOK, ManagerTypes,
      ThreadTypes, LocalsOK
<1>3. ASSUME NEW a \in Actors, StopSteps(a) PROVE NotFailed(t)'
  BY <1>3, SentinelAssumption
  DEF StopSteps, StopPop, TerminateClose, TerminateKill, AfterStop, Goto, Return, mgrVars,
      InRequest, NOT_STARTED, FAILED, Actors, TInv, TypeOK, ManagerTypes, ThreadTypes, LocalsOK
<1>4. ASSUME EvictionScan \/ EvictionEnds PROVE NotFailed(t)'
  BY <1>4, SentinelAssumption
  DEF EvictionScan, EvictionEnds, Goto, mgrVars, Actors, TInv, TypeOK, ThreadTypes
<1>5. ASSUME UNCHANGED <<states, pc, plugin>> PROVE NotFailed(t)'
  BY <1>5
<1> HIDE DEF NotFailed
<1> QED
  BY <1>1, <1>2, <1>3, <1>4, <1>5
  DEF Next, vars, mgrVars, threadVars, ThreadStep, EvictorStep, ProcessStep, Actors, OpNames,
      Age, Reclaim, ReaderEnter, ReadLine,
      RuntimeLoaded, RuntimeServe, RuntimeExit, RuntimeLoadFails, RuntimeCrash

\* With one request thread, a plugin that crashed twice stays FAILED, and its
\* calls rejected, until stop() or restart_failed() resets it.  (A second thread
\* that passed the check of _with_crash_retry earlier may still respawn it.)
THEOREM FailedStays ==
  ASSUME NEW w \in Threads, Threads = {w}
  PROVE  Spec => FailedUntilRestart
<1>1. Init => NotFailed(w)
  BY DEF Init, NotFailed, InRequest, Actors
<1>2. ASSUME TInv, NotFailed(w), Next, NEW pl \in Plugins, states[pl] = FAILED, states'[pl] # FAILED
      PROVE  \/ \E a \in Actors : pc[a] = "stop" /\ pl \in todo[a] /\ pl \notin todo'[a]
             \/ \E t \in Threads : RestartFailed(t, pl)
  <2>1. ASSUME NEW q \in Plugins, RestartFailed(w, q) PROVE q = pl
    BY <1>2, <2>1 DEF RestartFailed, TInv, TypeOK, ManagerTypes
  <2>2. ASSUME NEW a \in Actors, StopSteps(a)
        PROVE  pc[a] = "stop" /\ pl \in todo[a] /\ pl \notin todo'[a]
    BY <1>2, <2>2
    DEF StopSteps, StopPop, TerminateClose, TerminateKill, mgrVars, TInv, TypeOK,
        ManagerTypes, ThreadTypes
  <2>3. ASSUME ThreadStep(w), ~StopSteps(w) PROVE FALSE
    BY <1>2, <2>3
    DEF ThreadStep, EnsureReuse, EnsureSpawn, EnsureSpawnFails, ReadyReceived, ReadyTimeout,
        PopFailedStart, SetRunning, CallSend, ReplyReceived, ReplyTimeout, HandleCrash,
        SetFailed, ShutdownList, mgrVars, NotFailed, InRequest, TInv, TypeOK, ManagerTypes
  <2>4. ASSUME UNCHANGED states PROVE FALSE
    BY <1>2, <2>4
  <2> QED
    BY <1>2, <2>1, <2>2, <2>3, <2>4
    DEF Next, mgrVars, ThreadStep, EvictorStep, ProcessStep, Actors, Begin,
        EvictionScan, EvictionEnds, Age, Reclaim, ReaderEnter, ReadLine,
        RuntimeLoaded, RuntimeServe, RuntimeExit, RuntimeLoadFails, RuntimeCrash
<1>3. TInv /\ NotFailed(w) /\ [Next]_vars =>
        [\A pl \in Plugins : states[pl] = FAILED /\ states'[pl] # FAILED =>
           \/ \E a \in Actors : pc[a] = "stop" /\ pl \in todo[a] /\ pl \notin todo'[a]
           \/ \E t \in Threads : RestartFailed(t, pl)]_vars
  BY <1>2
<1>4. TInv /\ NotFailed(w) /\ [Next]_vars => NotFailed(w)'
  BY NotFailedStep
<1> QED
  BY <1>1, <1>3, <1>4, TInvInvariant, PTL DEF Spec, FailedUntilRestart

\* What the map and the state of a plugin have to do with each other, and with
\* where the one request is.
StateMatches ==
  \A pl \in Plugins :
    /\ states[pl] = RUNNING => workers[pl] # NoProc
    /\ states[pl] \in {NOT_STARTED, FAILED} => workers[pl] = NoProc
StartMatches(t) ==
  /\ pc[t] \in {"recv_ready", "set_running"} => workers[plugin[t]] = held[t]
  /\ pc[t] \in {"recv_ready", "pop"} => states[plugin[t]] = STARTING
  /\ pc[t] = "fail" => workers[plugin[t]] = NoProc
NothingEvicted ==
  /\ \A p \in Procs : ~stale[p]
  /\ pc[Evictor] \in {"idle", "gone"}
QInv(t) == StateMatches /\ StartMatches(t) /\ NothingEvicted

LEMMA NothingEvictedStep ==
  ASSUME EvictionActive = FALSE, TInv, NothingEvicted, [Next]_vars
  PROVE  NothingEvicted'
<1>1. \A p \in Procs : ~stale'[p]
  <2>1. ASSUME NEW t \in Threads, EnsureSpawn(t) \/ ReplyReceived(t)
        PROVE  \A p \in Procs : ~stale'[p]
    BY <2>1 DEF EnsureSpawn, NewProcess, ReplyReceived, NothingEvicted, TInv, TypeOK, ProcessTypes
  <2>2. ASSUME UNCHANGED stale PROVE \A p \in Procs : ~stale'[p]
    BY <2>2 DEF NothingEvicted
  <2> QED
    BY <2>1, <2>2
    DEF Next, vars, procVars, ThreadStep, EvictorStep, StopSteps, ProcessStep,
        Begin, RestartFailed, EnsureReuse, EnsureSpawnFails, ReadyReceived, ReadyTimeout,
        PopFailedStart, SetRunning, CallSend, ReplyTimeout, HandleCrash, SetFailed,
        ShutdownList, StopPop, TerminateClose, TerminateKill, EvictionScan, EvictionEnds,
        Age, ReaderEnter, ReadLine, RuntimeLoaded, RuntimeServe, RuntimeExit,
        RuntimeLoadFails, RuntimeCrash, Reclaim
<1>2. pc'[Evictor] \in {"idle", "gone"}
  <2>1. ASSUME NEW a \in Actors, StopSteps(a) PROVE pc'[Evictor] = pc[Evictor]
    BY <2>1, SentinelAssumption
    DEF StopSteps, StopPop, TerminateClose, TerminateKill, AfterStop, Goto, Return,
        NothingEvicted, Actors, TInv, TypeOK, ThreadTypes
  <2>2. ASSUME NEW t \in Threads, ThreadStep(t) PROVE pc'[Evictor] = pc[Evictor]
    BY <2>1, <2>2, SentinelAssumption
    DEF ThreadStep, EnsureReuse, EnsureSpawn, AwaitReady, EnsureSpawnFails, ReadyReceived,
        ReadyTimeout, PopFailedStart, SetRunning, CallSend, ReplyReceived, ReplyTimeout,
        HandleCrash, SetFailed, ShutdownList, AfterStop, Goto, Return, Actors, TInv, TypeOK,
        ThreadTypes
  <2>3. ASSUME NEW t \in Threads, NEW o \in OpNames, NEW pl \in Plugins,
               Begin(t, o, pl) \/ RestartFailed(t, pl)
        PROVE  pc'[Evictor] = pc[Evictor]
    BY <2>3, SentinelAssumption
    DEF Begin, RestartFailed, Goto, Return, Actors, TInv, TypeOK, ThreadTypes
  <2>4. ~EvictionScan
    BY DEF EvictionScan, IdleTooLong, NothingEvicted, TInv, TypeOK, ManagerTypes, ThreadTypes, Actors
  <2>5. ASSUME EvictionEnds PROVE pc'[Evictor] = "gone"
    BY <2>5 DEF EvictionEnds, Goto, Actors, TInv, TypeOK, ThreadTypes
  <2> QED
    BY <2>1, <2>2, <2>3, <2>4, <2>5
    DEF NothingEvicted, Next, vars, threadVars, EvictorStep, ProcessStep, Actors, OpNames,
        Age, Reclaim, ReaderEnter, ReadLine,
        RuntimeLoaded, RuntimeServe, RuntimeExit, RuntimeLoadFails, RuntimeCrash
<1> QED
  BY <1>1, <1>2 DEF NothingEvicted

LEMMA MatchesStep ==
  ASSUME NEW t \in Threads, Threads = {t}, SInv, QInv(t), [Next]_vars
  PROVE  StateMatches' /\ StartMatches(t)'
<1> USE DEF StateMatches, StartMatches
<1> DEFINE Kept == StateMatches' /\ StartMatches(t)'
<1>1. ASSUME NEW o \in OpNames, NEW pl \in Plugins, Begin(t, o, pl) \/ RestartFailed(t, pl)
      PROVE  Kept
  BY <1>1
  DEF Begin, RestartFailed, DropWorker, Goto, Return, QInv, NOT_STARTED, STARTING, RUNNING,
      FAILED, Actors, SInv, TInv, TypeOK, ManagerTypes, ThreadTypes
<1>2. ASSUME EnsureReuse(t) \/ EnsureSpawnFails(t) \/ SetFailed(t) PROVE Kept
  BY <1>2
  DEF EnsureReuse, EnsureSpawnFails, SetFailed, Goto, Return, mgrVars, QInv, NOT_STARTED,
      STARTING, RUNNING, FAILED, Actors, SInv, TInv, TypeOK, ManagerTypes, ThreadTypes,
      LocalsOK, InRequest
<1>3. ASSUME EnsureSpawn(t) PROVE Kept
  BY <1>3, NoProcIsNone
  DEF EnsureSpawn, AwaitReady, Goto, QInv, NOT_STARTED, STARTING, RUNNING, FAILED, Actors,
      SInv, TInv, TypeOK, ManagerTypes, ThreadTypes, LocalsOK, InRequest
<1>4. ASSUME ReadyReceived(t) \/ ReadyTimeout(t) \/ CallSend(t) \/ ReplyReceived(t) \/ ReplyTimeout(t)
      PROVE  Kept
  BY <1>4
  DEF ReadyReceived, ReadyTimeout, CallSend, ReplyReceived, ReplyTimeout, Goto, Return,
      mgrVars, QInv, Actors, SInv, TInv, TypeOK, ThreadTypes
<1>5. ASSUME PopFailedStart(t) \/ HandleCrash(t) PROVE Kept
  BY <1>5
  DEF PopFailedStart, HandleCrash, DropWorker, Goto, QInv, NOT_STARTED, STARTING, RUNNING,
      FAILED, Actors, SInv, TInv, TypeOK, ManagerTypes, ThreadTypes, LocalsOK, InRequest
<1>6. ASSUME SetRunning(t) PROVE Kept
  <2>1. workers[plugin[t]] # NoProc
    BY <1>6, NoProcIsNone DEF SetRunning, QInv, SInv, TInv, LocalsOK, HasWorker
  <2> QED
    BY <1>6, <2>1
    DEF SetRunning, Goto, Return, QInv, NOT_STARTED, STARTING, RUNNING, FAILED, Actors, SInv,
        TInv, TypeOK, ManagerTypes, ThreadTypes, LocalsOK, InRequest
<1>7. ASSUME StopPop(t) \/ ShutdownList(t) \/ TerminateClose(t) \/ TerminateKill(t) PROVE Kept
  BY <1>7, SentinelAssumption
  DEF StopPop, ShutdownList, TerminateClose, TerminateKill, AfterStop, DropWorker, Goto,
      Return, mgrVars, QInv, NOT_STARTED, STARTING, RUNNING, FAILED, Actors, SInv, TInv,
      TypeOK, ManagerTypes, ThreadTypes
<1>8. ASSUME EvictorStep PROVE Kept
  BY <1>8, SentinelAssumption
  DEF EvictorStep, EvictionScan, EvictionEnds, StopSteps, StopPop, TerminateClose,
      TerminateKill, Goto, mgrVars, QInv, NothingEvicted, Actors, SInv, TInv, TypeOK, ThreadTypes
<1>9. ASSUME UNCHANGED <<workers, states, pc, plugin, held>> PROVE Kept
  BY <1>9 DEF QInv
<1> HIDE DEF Kept, StateMatches, StartMatches
<1>10. Kept
  BY <1>1, <1>2, <1>3, <1>4, <1>5, <1>6, <1>7, <1>8, <1>9
  DEF Next, vars, mgrVars, threadVars, ThreadStep, StopSteps, ProcessStep, OpNames,
      Age, Reclaim, ReaderEnter, ReadLine,
      RuntimeLoaded, RuntimeServe, RuntimeExit, RuntimeLoadFails, RuntimeCrash
<1> QED
  BY <1>10 DEF Kept

\* With one request thread and no eviction, between two requests a plugin that
\* is reported RUNNING has a worker in the map, and one reported NOT_STARTED or
\* FAILED has none, whichever way the last request ended: an answer, a crash at
\* any point, a timeout, or a Popen that failed.
THEOREM QuiescentAlone ==
  ASSUME NEW t \in Threads, Threads = {t}, EvictionActive = FALSE
  PROVE  Spec => []QuiescentAgreement
<1>1. Init => QInv(t)
  BY DEF Init, QInv, StateMatches, StartMatches, NothingEvicted, Actors, NOT_STARTED, RUNNING
<1>2. SInv /\ QInv(t) /\ [Next]_vars => QInv(t)'
  BY MatchesStep, NothingEvictedStep DEF QInv, SInv
<1>3. QInv(t) => QuiescentAgreement
  BY DEF QInv, StateMatches, QuiescentAgreement
<1> QED
  BY <1>1, <1>2, <1>3, SInvInvariant, PTL DEF Spec
=============================================================================
