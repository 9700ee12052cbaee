--------------------------- MODULE WorkerManager ---------------------------
(***************************************************************************)
(* daemon/worker_manager.py (class WorkerManager) with the process side of *)
(* daemon/worker_runtime.py.                                               *)
(*                                                                         *)
(* The daemon serves every HTTP request on a thread of a pool, so call(),  *)
(* start(), stop(), restart_failed() and shutdown() of several threads and *)
(* the eviction thread interleave.  One action below is one section of the *)
(* code that no other thread can observe half way: a `with                 *)
(* self._structural_lock` block, a send under worker.lock, the hand-over   *)
(* of one stdout line.  A worker process is a slot of Procs; its stdin is  *)
(* a queue of requests and its stdout a queue of lines.                    *)
(*                                                                         *)
(* _recv reads on a helper thread: the reader that is inside readline()    *)
(* holds the stream (holder), the others wait for it (readers), and a      *)
(* reader whose _recv has timed out stays behind as a stray.               *)
(***************************************************************************)
EXTENDS Naturals, Sequences, FiniteSets

CONSTANTS
  Plugins,        \* plugin ids
  Threads,        \* request threads of the daemon
  Evictor,        \* the eviction thread
  None,           \* Python's None
  Stray,          \* any reader thread that nobody waits for any more
  MaxProcs,       \* bound: worker processes that exist at one time
  MaxRequests,    \* bound: MaxRequests[t] requests are handled by thread t
  MaxFaults,      \* bound: no process dies by itself after that many faults
  Ops,            \* Ops[t]: the operations thread t may be asked for
  Noisy,          \* plugins whose main.py prints while it is imported
  Unspawnable,    \* plugins whose interpreter Popen may fail to start
  Outcomes,       \* how a plugin function may end: subset of {"ok", "fail"}
  EvictionActive  \* whether idle_timeout can elapse

OpNames == {"call", "start", "stop", "restart_failed", "shutdown"}

ASSUME SentinelAssumption ==
  /\ None # Stray
  /\ None # Evictor
  /\ Stray # Evictor
  /\ {None, Stray, Evictor} \cap Threads = {}
  /\ None \notin Plugins
ASSUME BoundAssumption ==
  /\ MaxProcs \in Nat \ {0}
  /\ MaxRequests \in [Threads -> Nat]
  /\ MaxFaults \in Nat
ASSUME OpsAssumption ==
  /\ Ops \in [Threads -> SUBSET OpNames]
  /\ Noisy \subseteq Plugins
  /\ Unspawnable \subseteq Plugins
  /\ Outcomes \subseteq {"ok", "fail"}
  /\ EvictionActive \in BOOLEAN

Procs == 1..MaxProcs
NoProc == 0
Actors == Threads \cup {Evictor}

NOT_STARTED == "not_started"
STARTING == "starting"
RUNNING == "running"
FAILED == "failed"
WorkerState == {NOT_STARTED, STARTING, RUNNING, FAILED}

\* A request carries the call it belongs to (thread, number of the request on
\* that thread, attempt of _with_crash_retry) in place of function and args.
Requests == [by : Threads, seq : Nat, try : 1..2, to : Plugins]
NoReq == [by |-> None, seq |-> 0, try |-> 0, to |-> None]

\* A line of stdout: the ready line, text a plugin printed, or a reply.
ReadyLine == [kind |-> "ready", req |-> NoReq]
NoiseLine == [kind |-> "noise", req |-> NoReq]
Lines == {ReadyLine, NoiseLine} \cup [kind : {"ok", "fail"}, req : Requests]

\* What a _recv has: nothing yet, end of file, or a line.
Nothing == [kind |-> "nothing", req |-> NoReq]
EOF == [kind |-> "eof", req |-> NoReq]
Reads == Lines \cup {Nothing, EOF}

\* How a request ended: a result or plugin error (with the request whose reply
\* was used), an exception that is no crash (HTTP 500), a call rejected in the
\* FAILED state, or the second crash in a row.
NoResult == [kind |-> "none", req |-> NoReq]
ResultKinds == {"none", "ok", "fail", "internal", "rejected", "crashed_twice"}
Results == [kind : ResultKinds, req : Requests \cup {NoReq}]

VARIABLES
  workers,    \* _workers: plugin -> process in the map, or NoProc
  states,     \* _states: plugin -> WorkerState
  stopEvent,  \* _stop_event
  life,       \* process -> "none" | "loading" | "serving" | "dead"
  home,       \* process -> plugin it was spawned for
  stdin,      \* process -> requests written and not yet read
  stdinOpen,  \* process -> stdin not closed by the daemon
  stdout,     \* process -> lines written and not yet read
  stale,      \* process -> monotonic() - last_used > idle_timeout
  lock,       \* process -> thread in `with worker.lock`, or None
  holder,     \* process -> reader inside readline(): thread, Stray or None
  readers,    \* process -> threads whose reader waits for the stream
  strays,     \* process -> number of strays that wait for the stream
  pc,         \* actor -> next step
  op,         \* thread -> operation in progress
  plugin,     \* thread -> its plugin_id
  attempt,    \* thread -> attempt of _with_crash_retry
  held,       \* actor -> worker it refers to in a local variable
  got,        \* thread -> what its current reader returned
  todo,       \* actor -> plugins still to stop
  count,      \* thread -> requests handled so far
  ret,        \* thread -> result of its last request
  faults      \* processes that died by themselves and timeouts, up to MaxFaults

mgrVars == <<workers, states, stopEvent>>
procVars == <<life, home, stdin, stdinOpen, stdout, stale>>
readVars == <<holder, readers, strays, got>>
threadVars == <<pc, op, plugin, attempt, held, todo, count, ret>>
vars == <<mgrVars, procVars, lock, readVars, threadVars, faults>>

-----------------------------------------------------------------------------
Init ==
  /\ workers = [pl \in Plugins |-> NoProc]
  /\ states = [pl \in Plugins |-> NOT_STARTED]
  /\ stopEvent = FALSE
  /\ life = [p \in Procs |-> "none"]
  /\ home = [p \in Procs |-> None]
  /\ stdin = [p \in Procs |-> <<>>]
  /\ stdinOpen = [p \in Procs |-> FALSE]
  /\ stdout = [p \in Procs |-> <<>>]
  /\ stale = [p \in Procs |-> FALSE]
  /\ lock = [p \in Procs |-> None]
  /\ holder = [p \in Procs |-> None]
  /\ readers = [p \in Procs |-> {}]
  /\ strays = [p \in Procs |-> 0]
  /\ pc = [a \in Actors |-> "idle"]
  /\ op = [t \in Threads |-> None]
  /\ plugin = [t \in Threads |-> None]
  /\ attempt = [t \in Threads |-> 1]
  /\ held = [a \in Actors |-> NoProc]
  /\ got = [t \in Threads |-> Nothing]
  /\ todo = [a \in Actors |-> {}]
  /\ count = [t \in Threads |-> 0]
  /\ ret = [t \in Threads |-> NoResult]
  /\ faults = 0

Alive(p) == life[p] \in {"loading", "serving"}

\* The map has a worker for pl whose poll() is None.
LiveWorkerOnceReady(pl) == workers[pl] # NoProc /\ life[workers[pl]] = "serving"
LiveWorker(pl) == workers[pl] # NoProc /\ Alive(workers[pl])

\* self._workers.pop(plugin_id, None): whichever process the entry names.
KeepWorker(pl) == UNCHANGED workers
DropWorker(pl) == workers' = [workers EXCEPT ![pl] = NoProc]

\* The early check of _with_crash_retry, made without the lock.
NeverRejects(pl) == FALSE
Rejects(pl) == states[pl] = FAILED

Fault == faults' = IF faults < MaxFaults THEN faults + 1 ELSE faults

Goto(t, label) == pc' = [pc EXCEPT ![t] = label]

\* The request thread hands its result to the HTTP layer and is free again.
Return(t, kind, req) ==
  /\ pc' = [pc EXCEPT ![t] = "idle"]
  /\ held' = [held EXCEPT ![t] = NoProc]
  /\ op' = [op EXCEPT ![t] = None]
  /\ attempt' = [attempt EXCEPT ![t] = 1]
  /\ ret' = [ret EXCEPT ![t] = [kind |-> kind, req |-> req]]

-----------------------------------------------------------------------------
(* Requests arrive.                                                        *)

\* A request for one plugin is dispatched to thread t.  call() and start()
\* read _states without the lock; a plugin seen FAILED is refused at once.
Begin(t, o, pl) ==
  /\ pc[t] = "idle"
  /\ count[t] < MaxRequests[t]
  /\ o \in Ops[t]
  /\ count' = [count EXCEPT ![t] = @ + 1]
  /\ \/ /\ o \in {"call", "start"}
        /\ ~Rejects(pl)
        /\ Goto(t, "ensure")
        /\ op' = [op EXCEPT ![t] = o]
        /\ plugin' = [plugin EXCEPT ![t] = pl]
        /\ ret' = [ret EXCEPT ![t] = NoResult]
        /\ UNCHANGED <<attempt, held, todo, stopEvent>>
     \/ /\ o \in {"call", "start"}
        /\ Rejects(pl)
        /\ Return(t, "rejected", NoReq)
        /\ UNCHANGED <<plugin, todo, stopEvent>>
     \/ /\ o = "stop"
        /\ Goto(t, "stop")
        /\ op' = [op EXCEPT ![t] = o]
        /\ todo' = [todo EXCEPT ![t] = {pl}]
        /\ ret' = [ret EXCEPT ![t] = NoResult]
        /\ UNCHANGED <<plugin, attempt, held, stopEvent>>
     \/ /\ o = "shutdown"
        /\ Goto(t, "join")
        /\ op' = [op EXCEPT ![t] = o]
        /\ stopEvent' = TRUE
        /\ ret' = [ret EXCEPT ![t] = NoResult]
        /\ UNCHANGED <<plugin, attempt, held, todo>>
  /\ UNCHANGED <<workers, states, procVars, lock, readVars, faults>>

\* restart_failed(): one locked section; the worker object is dropped, the
\* process it stands for is not terminated.
RestartFailed(t, pl) ==
  /\ pc[t] = "idle"
  /\ count[t] < MaxRequests[t]
  /\ "restart_failed" \in Ops[t]
  /\ count' = [count EXCEPT ![t] = @ + 1]
  /\ states' = [states EXCEPT ![pl] = NOT_STARTED]
  /\ DropWorker(pl)
  /\ Return(t, "ok", NoReq)
  /\ UNCHANGED <<stopEvent, procVars, lock, readVars, plugin, todo, faults>>

-----------------------------------------------------------------------------
(* _ensure_worker.                                                         *)

\* A slot for a new process: unused, or dead and no longer referred to.
Free(p) ==
  /\ life[p] \in {"none", "dead"}
  /\ \A pl \in Plugins : workers[pl] # p
  /\ \A a \in Actors : held[a] # p
  /\ holder[p] = None /\ readers[p] = {} /\ strays[p] = 0

\* Popen succeeded: a process with empty pipes that imports main.py.
NewProcess(q, pl) ==
  /\ life' = [life EXCEPT ![q] = "loading"]
  /\ home' = [home EXCEPT ![q] = pl]
  /\ stdin' = [stdin EXCEPT ![q] = <<>>]
  /\ stdinOpen' = [stdinOpen EXCEPT ![q] = TRUE]
  /\ stdout' = [stdout EXCEPT ![q] = <<>>]
  /\ stale' = [stale EXCEPT ![q] = FALSE]

\* The worker in the map is alive (poll() is None), be it STARTING or RUNNING:
\* start() is done with it, call() goes on to worker.lock.
EnsureReuse(t) ==
  /\ pc[t] = "ensure"
  /\ LiveWorker(plugin[t])
  /\ \/ /\ op[t] = "call"
        /\ Goto(t, "lock")
        /\ held' = [held EXCEPT ![t] = workers[plugin[t]]]
        /\ UNCHANGED <<op, attempt, ret>>
     \/ /\ op[t] = "start"
        /\ Return(t, "ok", NoReq)
  /\ UNCHANGED <<mgrVars, procVars, lock, readVars, plugin, todo, count, faults>>

\* _recv of the ready line begins: a reader is started on the new process.
SkipReady(t, q) ==
  /\ readers' = [readers EXCEPT ![q] = {}]
  /\ Goto(t, "set_running")
AwaitReady(t, q) ==
  /\ readers' = [readers EXCEPT ![q] = {t}]
  /\ Goto(t, "recv_ready")

\* No live worker in the map: a new one takes its place, still under the
\* structural lock, and the thread starts to wait for its ready line.
EnsureSpawn(t) ==
  LET pl == plugin[t] IN
  /\ pc[t] = "ensure"
  /\ ~LiveWorker(pl)
  /\ \E q \in Procs :
       /\ Free(q)
       /\ \A r \in Procs : r < q => ~Free(r)
       /\ NewProcess(q, pl)
       /\ workers' = [workers EXCEPT ![pl] = q]
       /\ held' = [held EXCEPT ![t] = q]
       /\ lock' = [lock EXCEPT ![q] = None]
       /\ AwaitReady(t, q)
  /\ states' = [states EXCEPT ![pl] = STARTING]
  /\ UNCHANGED <<stopEvent, holder, strays, got, op, plugin, attempt, todo, count,
                 ret, faults>>

\* Popen raises (no interpreter in the venv): not a crash, so the exception
\* leaves call()/start() with the plugin in STARTING.
EnsureSpawnFails(t) ==
  LET pl == plugin[t] IN
  /\ pc[t] = "ensure"
  /\ pl \in Unspawnable
  /\ ~LiveWorker(pl)
  /\ states' = [states EXCEPT ![pl] = STARTING]
  /\ Return(t, "internal", NoReq)
  /\ UNCHANGED <<workers, stopEvent, procVars, lock, readVars, plugin, todo, count, faults>>

\* _recv of the ready line is over.  The ready line: go on to set RUNNING.  End
\* of file or any other message: the start failed.  Text that is no JSON: the
\* JSONDecodeError leaves call()/start(), and the worker stays in the map.
ReadyReceived(t) ==
  /\ pc[t] = "recv_ready"
  /\ got[t] # Nothing
  /\ got' = [got EXCEPT ![t] = Nothing]
  /\ \/ /\ got[t] = ReadyLine
        /\ Goto(t, "set_running")
        /\ UNCHANGED <<op, attempt, held, ret>>
     \/ /\ got[t] \notin {ReadyLine, NoiseLine}
        /\ Goto(t, "pop")
        /\ UNCHANGED <<op, attempt, held, ret>>
     \/ /\ got[t] = NoiseLine
        /\ Return(t, "internal", NoReq)
  /\ UNCHANGED <<mgrVars, procVars, lock, holder, readers, strays, plugin, todo, count,
                 faults>>

\* reader.join(timeout) returns with the reader still alive.
NeverTimesOut(t) == FALSE
TimesOut(t) == got[t] = Nothing

\* A reader that is still in readline(), or waits for the stream, is left
\* behind as a stray.
KeepReader(t) == UNCHANGED <<holder, readers, strays>>
Abandon(t) ==
  LET p == held[t] IN
  IF holder[p] = t
    THEN /\ holder' = [holder EXCEPT ![p] = Stray]
         /\ UNCHANGED <<readers, strays>>
    ELSE /\ readers' = [readers EXCEPT ![p] = @ \ {t}]
         /\ strays' = [strays EXCEPT ![p] = @ + 1]
         /\ UNCHANGED holder

ReadyTimeout(t) ==
  /\ pc[t] = "recv_ready"
  /\ TimesOut(t)
  /\ Abandon(t)
  /\ Goto(t, "pop")
  /\ Fault
  /\ UNCHANGED <<mgrVars, procVars, lock, got, op, plugin, attempt, held, todo,
                 count, ret>>

\* A failed start takes the plugin's entry out of the map, whoever put it there.
PopFailedStart(t) ==
  /\ pc[t] = "pop"
  /\ DropWorker(plugin[t])
  /\ Goto(t, "crash")
  /\ UNCHANGED <<states, stopEvent, procVars, lock, readVars, op, plugin, attempt,
                 held, todo, count, ret, faults>>

SetRunning(t) ==
  /\ pc[t] = "set_running"
  /\ states' = [states EXCEPT ![plugin[t]] = RUNNING]
  /\ \/ /\ op[t] = "call"
        /\ Goto(t, "lock")
        /\ UNCHANGED <<op, attempt, held, ret>>
     \/ /\ op[t] = "start"
        /\ Return(t, "ok", NoReq)
  /\ UNCHANGED <<workers, stopEvent, procVars, lock, readVars, plugin, todo, count, faults>>

-----------------------------------------------------------------------------
(* _call_once.                                                             *)

\* The request thread t is serving, as it goes over the pipe.
CurrentRequest(t) ==
  [by |-> t, seq |-> count[t], try |-> attempt[t], to |-> plugin[t]]

\* With worker.lock: write the request and start a reader.  A stdin that a
\* concurrent _terminate closed raises ValueError, which is no crash; writing
\* to a dead process raises BrokenPipeError, which is one.  Requests are taken to
\* fit the pipe: _send has no timeout, and would wait for a hung worker whose pipe
\* is full.
CallSend(t) ==
  LET p == held[t] IN
  /\ pc[t] = "lock"
  /\ lock[p] = None
  /\ \/ /\ ~stdinOpen[p]
        /\ Return(t, "internal", NoReq)
        /\ UNCHANGED <<stdin, lock, readers>>
     \/ /\ stdinOpen[p] /\ ~Alive(p)
        /\ Goto(t, "crash")
        /\ UNCHANGED <<stdin, lock, readers, op, attempt, held, ret>>
     \/ /\ stdinOpen[p] /\ Alive(p)
        /\ stdin' = [stdin EXCEPT ![p] = Append(@, CurrentRequest(t))]
        /\ lock' = [lock EXCEPT ![p] = t]
        /\ readers' = [readers EXCEPT ![p] = @ \cup {t}]
        /\ Goto(t, "recv")
        /\ UNCHANGED <<op, attempt, held, ret>>
  /\ UNCHANGED <<mgrVars, life, home, stdinOpen, stdout, stale, holder, strays,
                 got, plugin, todo, count, faults>>

\* The end of `with worker.lock`, also by an exception.
ReleaseLock(t) == lock' = [lock EXCEPT ![held[t]] = None]

\* _recv of the reply is over.  End of file, or a process that has exited by
\* now: a crash, even when a reply was read.  Text that is no JSON: exception.
\* Otherwise last_used is renewed and the line read is the reply, whatever id
\* it carries; a ready line has no "ok" and is reported as a plugin error.
ReplyReceived(t) ==
  LET p == held[t] IN
  /\ pc[t] = "recv"
  /\ got[t] # Nothing
  /\ got' = [got EXCEPT ![t] = Nothing]
  /\ ReleaseLock(t)
  /\ \/ /\ got[t] = NoiseLine
        /\ Return(t, "internal", NoReq)
        /\ UNCHANGED stale
     \/ /\ got[t] # NoiseLine
        /\ got[t] = EOF \/ ~Alive(p)
        /\ Goto(t, "crash")
        /\ UNCHANGED <<stale, op, attempt, held, ret>>
     \/ /\ got[t] \notin {NoiseLine, EOF}
        /\ Alive(p)
        /\ stale' = [stale EXCEPT ![p] = FALSE]
        /\ Return(t, IF got[t].kind = "ok" THEN "ok" ELSE "fail", got[t].req)
  /\ UNCHANGED <<mgrVars, life, home, stdin, stdinOpen, stdout, holder, readers,
                 strays, plugin, todo, count, faults>>

\* The call timeout: the lock is released, the process is left as it is.
ReplyTimeout(t) ==
  /\ pc[t] = "recv"
  /\ TimesOut(t)
  /\ Abandon(t)
  /\ ReleaseLock(t)
  /\ Goto(t, "crash")
  /\ Fault
  /\ UNCHANGED <<mgrVars, procVars, got, op, plugin, attempt, held, todo, count,
                 ret>>

-----------------------------------------------------------------------------
(* _with_crash_retry: the except branch.                                   *)

\* for attempt in range(2): the first crash is followed by another attempt.
Retries(t) == attempt[t] = 1

\* The plugin's entry is dropped (whichever process it names) and the state
\* reset; the first crash leads to the one automatic restart.
HandleCrash(t) ==
  /\ pc[t] = "crash"
  /\ DropWorker(plugin[t])
  /\ states' = [states EXCEPT ![plugin[t]] = NOT_STARTED]
  /\ held' = [held EXCEPT ![t] = NoProc]
  /\ \/ /\ Retries(t)
        /\ attempt' = [attempt EXCEPT ![t] = @ + 1]
        /\ Goto(t, "ensure")
     \/ /\ ~Retries(t)
        /\ Goto(t, "fail")
        /\ UNCHANGED attempt
  /\ UNCHANGED <<stopEvent, procVars, lock, readVars, op, plugin, todo, count,
                 ret, faults>>

\* The second crash: FAILED is set in a locked section of its own.
SetFailed(t) ==
  /\ pc[t] = "fail"
  /\ states' = [states EXCEPT ![plugin[t]] = FAILED]
  /\ Return(t, "crashed_twice", NoReq)
  /\ UNCHANGED <<workers, stopEvent, procVars, lock, readVars, plugin, todo, count, faults>>

-----------------------------------------------------------------------------
(* stop(), _terminate, shutdown() and _eviction_loop.                      *)

\* What actor a does after stop(): the next plugin of its list, or it is done
\* (the eviction thread waits for its next round, a request thread returns).
AfterStop(a) ==
  IF a = Evictor \/ todo'[a] # {}
    THEN /\ Goto(a, IF todo'[a] # {} THEN "stop" ELSE "idle")
         /\ held' = [held EXCEPT ![a] = NoProc]
         /\ UNCHANGED <<op, attempt, ret>>
    ELSE Return(a, "ok", NoReq)

\* The locked section of stop().
StopPop(a) ==
  /\ pc[a] = "stop"
  /\ \E pl \in todo[a] :
       /\ DropWorker(pl)
       /\ states' = [states EXCEPT ![pl] = NOT_STARTED]
       /\ todo' = [todo EXCEPT ![a] = @ \ {pl}]
       /\ \/ /\ workers[pl] # NoProc
             /\ held' = [held EXCEPT ![a] = workers[pl]]
             /\ Goto(a, "close")
             /\ UNCHANGED <<op, attempt, ret>>
          \/ /\ workers[pl] = NoProc
             /\ AfterStop(a)
  /\ UNCHANGED <<stopEvent, procVars, lock, readVars, plugin, count, faults>>

\* _terminate: nothing to do for an exited process; otherwise close its stdin.
TerminateClose(a) ==
  LET p == held[a] IN
  /\ pc[a] = "close"
  /\ UNCHANGED todo
  /\ \/ /\ ~Alive(p)
        /\ AfterStop(a)
        /\ UNCHANGED stdinOpen
     \/ /\ Alive(p)
        /\ stdinOpen' = [stdinOpen EXCEPT ![p] = FALSE]
        /\ Goto(a, "kill")
        /\ UNCHANGED <<op, attempt, held, ret>>
  /\ UNCHANGED <<mgrVars, life, home, stdin, stdout, stale, lock, readVars, plugin, count,
                 faults>>

Dies(p) ==
  /\ life' = [life EXCEPT ![p] = "dead"]
  /\ stdin' = [stdin EXCEPT ![p] = <<>>]

\* terminate() and wait(), or kill() and wait() after 5 seconds.
LeaveRunning(p) == UNCHANGED <<life, stdin>>
Kill(p) == IF Alive(p) THEN Dies(p) ELSE UNCHANGED <<life, stdin>>

TerminateKill(a) ==
  /\ pc[a] = "kill"
  /\ UNCHANGED todo
  /\ AfterStop(a)
  /\ Kill(held[a])
  /\ UNCHANGED <<mgrVars, home, stdinOpen, stdout, stale, lock, readVars, plugin, count,
                 faults>>

\* shutdown() after joining the eviction thread: it has ended, or it is busy
\* with a _terminate and the join timed out.
ShutdownList(t) ==
  /\ pc[t] = "join"
  /\ pc[Evictor] # "idle"
  /\ todo' = [todo EXCEPT ![t] = {pl \in Plugins : workers[pl] # NoProc}]
  /\ AfterStop(t)
  /\ UNCHANGED <<mgrVars, procVars, lock, readVars, plugin, count, faults>>

\* time.monotonic() - worker.last_used > self._idle_timeout
RecentlyUsed(pl) == workers[pl] # NoProc /\ ~stale[workers[pl]]
IdleTooLong(pl) == workers[pl] # NoProc /\ stale[workers[pl]]

\* One round of the eviction thread: the ids are collected under the lock and
\* stopped one after the other after it is released.
EvictionScan ==
  /\ pc[Evictor] = "idle"
  /\ ~stopEvent
  /\ todo' = [todo EXCEPT ![Evictor] = {pl \in Plugins : IdleTooLong(pl)}]
  /\ todo'[Evictor] # {}
  /\ Goto(Evictor, "stop")
  /\ UNCHANGED <<mgrVars, procVars, lock, readVars, op, plugin, attempt, held,
                 count, ret, faults>>

EvictionEnds ==
  /\ pc[Evictor] = "idle"
  /\ stopEvent
  /\ Goto(Evictor, "gone")
  /\ UNCHANGED <<mgrVars, procVars, lock, readVars, op, plugin, attempt, held,
                 todo, count, ret, faults>>

\* More than idle_timeout (600 s) has passed since last_used of a worker in the
\* map: never while its ready line is awaited, which takes at most 15 s.
Age(p) ==
  /\ EvictionActive
  /\ ~stale[p]
  /\ \E pl \in Plugins : workers[pl] = p
  /\ \A t \in Threads : ~(pc[t] = "recv_ready" /\ held[t] = p)
  /\ stale' = [stale EXCEPT ![p] = TRUE]
  /\ UNCHANGED <<mgrVars, life, home, stdin, stdinOpen, stdout, lock, readVars,
                 threadVars, faults>>

-----------------------------------------------------------------------------
(* The readers of a worker's stdout.                                       *)

\* A reader gets hold of the stream; which one is up to the scheduler.
ReaderEnter(p) ==
  /\ holder[p] = None
  /\ \/ \E t \in readers[p] :
          /\ holder' = [holder EXCEPT ![p] = t]
          /\ readers' = [readers EXCEPT ![p] = @ \ {t}]
          /\ UNCHANGED strays
     \/ /\ strays[p] > 0
        /\ holder' = [holder EXCEPT ![p] = Stray]
        /\ strays' = [strays EXCEPT ![p] = @ - 1]
        /\ UNCHANGED readers
  /\ UNCHANGED <<mgrVars, procVars, lock, got, threadVars, faults>>

\* The line just read is gone from the stream.
KeepReply(p) ==
  stdout' = [stdout EXCEPT ![p] = IF Head(@) = ReadyLine THEN Tail(@) ELSE @]
Consume(p) == stdout' = [stdout EXCEPT ![p] = Tail(@)]

\* readline() returns the oldest line, or end of file once the process is dead
\* and the pipe is empty.  What a stray reads is lost.
ReadLine(p) ==
  /\ holder[p] # None
  /\ \/ /\ stdout[p] # <<>>
        /\ Consume(p)
        /\ got' = IF holder[p] = Stray THEN got
                  ELSE [got EXCEPT ![holder[p]] = Head(stdout[p])]
     \/ /\ stdout[p] = <<>> /\ ~Alive(p)
        /\ got' = IF holder[p] = Stray THEN got
                  ELSE [got EXCEPT ![holder[p]] = EOF]
        /\ UNCHANGED stdout
  /\ holder' = [holder EXCEPT ![p] = None]
  /\ UNCHANGED <<mgrVars, life, home, stdin, stdinOpen, stale, lock, readers,
                 strays, threadVars, faults>>

-----------------------------------------------------------------------------
(* worker_runtime.py: the worker process.                                  *)

\* _load_entry succeeds and the ready line is sent; whatever the module prints
\* while it is imported precedes it on the same stream.
RuntimeLoaded(p) ==
  /\ life[p] = "loading"
  /\ life' = [life EXCEPT ![p] = "serving"]
  /\ stdout' = [stdout EXCEPT ![p] =
       (IF home[p] \in Noisy THEN <<NoiseLine>> ELSE <<>>) \o <<ReadyLine>>]
  /\ UNCHANGED <<mgrVars, home, stdin, stdinOpen, stale, lock, readVars,
                 threadVars, faults>>

\* One round of the loop over stdin: the function runs, its prints are
\* redirected, and its result or its exception is the reply.
RuntimeServe(p) ==
  /\ life[p] = "serving"
  /\ stdin[p] # <<>>
  /\ stdin' = [stdin EXCEPT ![p] = Tail(@)]
  /\ \E k \in Outcomes :
       stdout' = [stdout EXCEPT ![p] =
                    Append(@, [kind |-> k, req |-> Head(stdin[p])])]
  /\ UNCHANGED <<mgrVars, life, home, stdinOpen, stale, lock, readVars, threadVars,
                 faults>>

\* The loop ends at end of file on stdin, and with it the process.
RuntimeExit(p) ==
  /\ life[p] = "serving"
  /\ stdin[p] = <<>> /\ ~stdinOpen[p]
  /\ Dies(p)
  /\ UNCHANGED <<mgrVars, home, stdinOpen, stdout, stale, lock, readVars, threadVars,
                 faults>>

\* The import raises: the interpreter exits and flushes what was printed.
RuntimeLoadFails(p) ==
  /\ life[p] = "loading"
  /\ faults < MaxFaults
  /\ Dies(p)
  /\ Fault
  /\ stdout' = [stdout EXCEPT ![p] =
                  IF home[p] \in Noisy THEN <<NoiseLine>> ELSE <<>>]
  /\ UNCHANGED <<mgrVars, home, stdinOpen, stale, lock, readVars, threadVars>>

\* The process dies at any point: plugin code ends it, or the system does.
RuntimeCrash(p) ==
  /\ Alive(p)
  /\ faults < MaxFaults
  /\ Dies(p)
  /\ Fault
  /\ UNCHANGED <<mgrVars, home, stdinOpen, stdout, stale, lock, readVars, threadVars>>

\* CPython frees a Popen object that nothing refers to any more and closes the
\* daemon's end of its stdin; a reader in readline() keeps the object alive.
Reclaim(p) ==
  /\ Alive(p) /\ stdinOpen[p]
  /\ \A pl \in Plugins : workers[pl] # p
  /\ \A a \in Actors : held[a] # p
  /\ holder[p] = None /\ readers[p] = {} /\ strays[p] = 0
  /\ stdinOpen' = [stdinOpen EXCEPT ![p] = FALSE]
  /\ UNCHANGED <<mgrVars, life, home, stdin, stdout, stale, lock, readVars,
                 threadVars, faults>>

-----------------------------------------------------------------------------
StopSteps(a) == StopPop(a) \/ TerminateClose(a) \/ TerminateKill(a)

ThreadStep(t) ==
  \/ EnsureReuse(t)
  \/ EnsureSpawn(t)
  \/ EnsureSpawnFails(t)
  \/ ReadyReceived(t)
  \/ ReadyTimeout(t)
  \/ PopFailedStart(t)
  \/ SetRunning(t)
  \/ CallSend(t)
  \/ ReplyReceived(t)
  \/ ReplyTimeout(t)
  \/ HandleCrash(t)
  \/ SetFailed(t)
  \/ StopSteps(t)
  \/ ShutdownList(t)

EvictorStep == EvictionScan \/ EvictionEnds \/ StopSteps(Evictor)

ProcessStep(p) ==
  \/ RuntimeLoaded(p)
  \/ RuntimeServe(p)
  \/ RuntimeExit(p)
  \/ RuntimeLoadFails(p)
  \/ RuntimeCrash(p)

Next ==
  \/ \E t \in Threads, o \in OpNames, pl \in Plugins : Begin(t, o, pl)
  \/ \E t \in Threads, pl \in Plugins : RestartFailed(t, pl)
  \/ \E t \in Threads : ThreadStep(t)
  \/ EvictorStep
  \/ \E p \in Procs : ProcessStep(p) \/ ReaderEnter(p) \/ ReadLine(p)
  \/ \E p \in Procs : Age(p) \/ Reclaim(p)

Spec == Init /\ [][Next]_vars

\* The interpreter runs every thread that can run, and timeouts elapse.  A
\* plugin's process owes nothing: it may hang for ever.
Fairness ==
  /\ \A t \in Threads : WF_vars(ThreadStep(t))
  /\ WF_vars(EvictorStep)
  /\ \A p \in Procs : WF_vars(ReaderEnter(p)) /\ WF_vars(ReadLine(p))

FairSpec == Spec /\ Fairness
-----------------------------------------------------------------------------
(* Properties.                                                             *)

Labels == {"idle", "ensure", "recv_ready", "pop", "set_running", "lock", "recv",
           "crash", "fail", "stop", "close", "kill", "join", "gone"}

ManagerTypes ==
  /\ workers \in [Plugins -> Procs \cup {NoProc}]
  /\ states \in [Plugins -> WorkerState]
  /\ stopEvent \in BOOLEAN

ProcessTypes ==
  /\ life \in [Procs -> {"none", "loading", "serving", "dead"}]
  /\ home \in [Procs -> Plugins \cup {None}]
  /\ stdin \in [Procs -> Seq(Requests)]
  /\ stdinOpen \in [Procs -> BOOLEAN]
  /\ stdout \in [Procs -> Seq(Lines)]
  /\ stale \in [Procs -> BOOLEAN]

ReaderTypes ==
  /\ lock \in [Procs -> Threads \cup {None}]
  /\ holder \in [Procs -> Threads \cup {None, Stray}]
  /\ readers \in [Procs -> SUBSET Threads]
  /\ strays \in [Procs -> Nat]
  /\ got \in [Threads -> Reads]

ThreadTypes ==
  /\ pc \in [Actors -> Labels]
  /\ op \in [Threads -> OpNames \cup {None}]
  /\ plugin \in [Threads -> Plugins \cup {None}]
  /\ attempt \in [Threads -> 1..2]
  /\ held \in [Actors -> Procs \cup {NoProc}]
  /\ todo \in [Actors -> SUBSET Plugins]
  /\ count \in [Threads -> Nat]
  /\ ret \in [Threads -> Results]
  /\ faults \in Nat

\* The manager, the worker processes and the threads have the shape their
\* classes declare; in particular no more than two attempts are ever made.
TypeOK == ManagerTypes /\ ProcessTypes /\ ReaderTypes /\ ThreadTypes

\* A worker that the map offers to the next caller is one whose stdin is open
\* and that was spawned for the plugin: stop() and eviction take a worker out
\* of the map before they close its stdin, whatever runs in between.
MappedWorkerUsable ==
  \A pl \in Plugins : workers[pl] # NoProc =>
    /\ stdinOpen[workers[pl]]
    /\ home[workers[pl]] = pl

\* A reader that outlived its _recv would swallow the reply of a later call.
\* The worker it reads from is out of the map, or the thread whose _recv timed
\* out is on its way to take it out.
StrayOnlyOnDropped ==
  \A pl \in Plugins :
    LET p == workers[pl] IN
    p # NoProc /\ (strays[p] > 0 \/ holder[p] = Stray)
      => \E t \in Threads : pc[t] \in {"pop", "crash"} /\ plugin[t] = pl

\* Whom the pieces of a worker belong to.  A thread's worker is one of the
\* plugin it was asked for; a worker about to be terminated is in no map entry;
\* a thread reads from the worker it refers to, with one reader; what is in a
\* worker's pipes, or was read from them, is traffic of that worker's plugin.
HasWorker == {"recv_ready", "pop", "set_running", "lock", "recv", "crash"}
Receiving == {"recv_ready", "recv"}

HeldHome ==
  \A t \in Threads : pc[t] \in HasWorker => home[held[t]] = plugin[t]
ClosingUnmapped ==
  \A a \in Actors : pc[a] \in {"close", "kill"} =>
    \A pl \in Plugins : workers[pl] # held[a]
ReadersWait ==
  \A p \in Procs, t \in Threads :
    /\ holder[p] = t \/ t \in readers[p] =>
         pc[t] \in Receiving /\ held[t] = p /\ got[t] = Nothing
    /\ ~(holder[p] = t /\ t \in readers[p])
PipesHome ==
  \A p \in Procs :
    /\ \A i \in DOMAIN stdin[p] : stdin[p][i].to = home[p]
    /\ \A i \in DOMAIN stdout[p] :
         stdout[p][i].req # NoReq => stdout[p][i].req.to = home[p]
GotHome ==
  \A t \in Threads :
    /\ got[t] # Nothing => pc[t] \in Receiving
    /\ got[t].req # NoReq => got[t].req.to = plugin[t]

Ownership == HeldHome /\ ClosingUnmapped /\ ReadersWait /\ PipesHome /\ GotHome

\* The reply a call returns was computed by a worker of the plugin it asked
\* for, although replies are matched to calls by position only.
PluginIsolation ==
  \A t \in Threads : ret[t].req # NoReq => ret[t].req.to = plugin[t]

\* One execution of a plugin function answers at most one call: no two threads
\* return the same reply, and none is still under way that was returned.
NoReplyTwice ==
  \A t \in Threads : ret[t].req # NoReq =>
    /\ \A u \in Threads \ {t} : ret[u].req # ret[t].req /\ got[u].req # ret[t].req
    /\ \A p \in Procs :
         /\ \A i \in DOMAIN stdin[p] : stdin[p][i] # ret[t].req
         /\ \A i \in DOMAIN stdout[p] : stdout[p][i].req # ret[t].req

\* worker.lock is held exactly while its owner waits for a reply of that
\* worker: no error path leaves it locked.
LockHeldOnlyInCall ==
  \A p \in Procs, t \in Threads :
    lock[p] = t <=> pc[t] = "recv" /\ held[t] = p

\* A live worker in the map is never overwritten by a second one: a process
\* leaves the map only by being popped.
LiveWorkerNotReplaced ==
  [][\A pl \in Plugins :
       workers[pl] # NoProc /\ Alive(workers[pl]) /\ workers'[pl] # workers[pl]
         => workers'[pl] = NoProc]_vars

\* call() returns the reply to its own request, not to an earlier one.
OwnReply ==
  \A t \in Threads : ret[t].req # NoReq =>
    ret[t].req.by = t /\ ret[t].req.seq = count[t]

\* While no request is being served the reported state agrees with the map:
\* RUNNING has a worker, NOT_STARTED and FAILED have none.
QuiescentAgreement ==
  (\A a \in Actors : pc[a] \in {"idle", "gone"}) =>
    \A pl \in Plugins :
      /\ states[pl] = RUNNING => workers[pl] # NoProc
      /\ states[pl] \in {NOT_STARTED, FAILED} => workers[pl] = NoProc

\* A FAILED plugin stays FAILED until stop() (the status pane's restart) or
\* restart_failed() resets it.
FailedUntilRestart ==
  [][\A pl \in Plugins : states[pl] = FAILED /\ states'[pl] # FAILED =>
       \/ \E a \in Actors : pc[a] = "stop" /\ pl \in todo[a] /\ pl \notin todo'[a]
       \/ \E t \in Threads : RestartFailed(t, pl)]_vars

\* Each plugin has at most one live worker process.
AtMostOneLiveWorker ==
  \A p, q \in Procs : Alive(p) /\ Alive(q) /\ home[p] = home[q] => p = q

\* Workers that hang are not killed by a timeout, so a thread that has to spawn
\* one may find all MaxProcs slots taken.
OutOfSlots(t) == pc[t] = "ensure" /\ \A p \in Procs : ~Free(p)

\* A worker that stop() or the eviction thread took out of the map dies.
StoppedWorkerDies ==
  \A a \in Actors, p \in Procs : pc[a] = "close" /\ held[a] = p ~> ~Alive(p)

\* An idle worker does not stay in the map, unless it is used again or the
\* eviction thread has been told to stop.
IdleWorkerEvicted ==
  \A pl \in Plugins, p \in Procs :
    workers[pl] = p /\ stale[p] ~> workers[pl] # p \/ ~stale[p] \/ stopEvent
=============================================================================
