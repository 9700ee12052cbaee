------------------------ MODULE WorkerRepliesProofs ------------------------
(***************************************************************************)
(* Replies carry no matching id, so nothing in the manager itself keeps    *)
(* one reply from being delivered twice.  The proof follows each request   *)
(* on its way: it is written to a stdin, answered on the stdout of the     *)
(* same worker, read by one thread and returned by it, or it is lost.      *)
(***************************************************************************)
EXTENDS WorkerManagerProofs

\* Request r, or the reply to it, is in a pipe, read, or returned.
Carried(r) ==
  \/ \E p \in Procs : \E i \in DOMAIN stdin[p] : stdin[p][i] = r
  \/ \E p \in Procs : \E i \in DOMAIN stdout[p] : stdout[p][i].req = r
  \/ \E t \in Threads : got[t].req = r \/ ret[t].req = r

\* Thread r.by has gone past the point where r was written to a worker.
Issued(r) ==
  \/ r.seq < count[r.by]
  \/ /\ r.seq = count[r.by]
     /\ \/ pc[r.by] = "idle"
        \/ r.try < attempt[r.by]
        \/ r.try = attempt[r.by] /\ pc[r.by] \in {"recv", "crash", "fail"}

NotPiped(r) ==
  \A p \in Procs :
    /\ \A i \in DOMAIN stdin[p] : stdin[p][i] # r
    /\ \A i \in DOMAIN stdout[p] : stdout[p][i].req # r

CarriedIssued == \A r \in Requests : Carried(r) => Issued(r)

OncePerPipe ==
  \A p, q \in Procs :
    /\ \A i \in DOMAIN stdin[p], j \in DOMAIN stdin[q] :
         stdin[p][i] = stdin[q][j] => p = q /\ i = j
    /\ \A i \in DOMAIN stdout[p], j \in DOMAIN stdout[q] :
         stdout[p][i].req = stdout[q][j].req /\ stdout[p][i].req # NoReq
           => p = q /\ i = j
    /\ \A i \in DOMAIN stdin[p], j \in DOMAIN stdout[q] :
         stdin[p][i] # stdout[q][j].req
OncePerRead ==
  \A t \in Threads : got[t].req # NoReq =>
    /\ \A u \in Threads \ {t} : got[u].req # got[t].req
    /\ NotPiped(got[t].req)
OncePerResult ==
  \A t \in Threads : ret[t].req # NoReq =>
    /\ \A u \in Threads \ {t} : ret[u].req # ret[t].req
    /\ \A u \in Threads : got[u].req # ret[t].req
    /\ NotPiped(ret[t].req)

\* The inductive invariant: whatever is under way was issued, once.
RInv == CarriedIssued /\ OncePerPipe /\ OncePerRead /\ OncePerResult

-----------------------------------------------------------------------------
(* The five things a step can do to the requests under way.                *)

\* Every place keeps what it holds or loses it.
Fading ==
  /\ \A p \in Procs :
       /\ stdin'[p] = stdin[p] \/ stdin'[p] = <<>>
       /\ stdout'[p] = stdout[p] \/ \A i \in DOMAIN stdout'[p] : stdout'[p][i].req = NoReq
  /\ \A t \in Threads :
       /\ got'[t].req = got[t].req \/ got'[t].req = NoReq
       /\ ret'[t].req = ret[t].req \/ ret'[t].req = NoReq

Sending(t) ==
  /\ pc[t] = "lock" /\ pc' = [pc EXCEPT ![t] = "recv"]
  /\ stdin' = [stdin EXCEPT ![held[t]] = Append(@, CurrentRequest(t))]
  /\ UNCHANGED <<stdout, got, ret, count, attempt>>

Serving(p) ==
  /\ stdin[p] # <<>>
  /\ stdin' = [stdin EXCEPT ![p] = Tail(@)]
  /\ \E k \in Outcomes :
       stdout' = [stdout EXCEPT ![p] = Append(@, [kind |-> k, req |-> Head(stdin[p])])]
  /\ UNCHANGED <<got, ret>>

Reading(p) ==
  /\ stdout[p] # <<>>
  /\ stdout' = [stdout EXCEPT ![p] = Tail(@)]
  /\ \/ UNCHANGED got
     \/ \E t \in Threads : got' = [got EXCEPT ![t] = Head(stdout[p])]
  /\ UNCHANGED <<stdin, ret>>

Returning(t) ==
  /\ got' = [got EXCEPT ![t] = Nothing]
  /\ \E k \in ResultKinds : ret' = [ret EXCEPT ![t] = [kind |-> k, req |-> got[t].req]]
  /\ UNCHANGED <<stdin, stdout>>

Moves ==
  \/ Fading
  \/ \E t \in Threads : Sending(t) \/ Returning(t)
  \/ \E p \in Procs : Serving(p) \/ Reading(p)

\* A step of the system is one of them.
LEMMA EveryStepMoves == SInv /\ [Next]_vars => Moves
<1> SUFFICES ASSUME SInv, [Next]_vars PROVE Moves
    OBVIOUS
<1>1. ASSUME UNCHANGED <<stdin, stdout, got, ret>> PROVE Moves
    BY <1>1 DEF Moves, Fading
<1>2. ASSUME NEW t \in Threads, NEW k, ret' = [ret EXCEPT ![t] = [kind |-> k, req |-> NoReq]],
             UNCHANGED <<stdin, stdout, got>>
      PROVE  Moves
  <2>1. \A u \in Threads : ret'[u].req = ret[u].req \/ ret'[u].req = NoReq
    BY <1>2 DEF SInv, TInv, TypeOK, ThreadTypes
  <2> QED
    BY <1>2, <2>1 DEF Moves, Fading
<1>3. ASSUME NEW t \in Threads, NEW o \in OpNames, NEW pl \in Plugins, Begin(t, o, pl)
      PROVE Moves
    BY <1>2, <1>3 DEF Begin, Return, NoResult, procVars, readVars
<1>4. ASSUME NEW t \in Threads, NEW pl \in Plugins, RestartFailed(t, pl) PROVE Moves
    BY <1>2, <1>4 DEF RestartFailed, Return, procVars, readVars
<1>5. ASSUME NEW t \in Threads,
             EnsureReuse(t) \/ EnsureSpawnFails(t) \/ SetRunning(t) \/ SetFailed(t)
      PROVE Moves
    BY <1>1, <1>2, <1>5
    DEF EnsureReuse, EnsureSpawnFails, SetRunning, SetFailed, Return, procVars, readVars
<1>6. ASSUME NEW t \in Threads, EnsureSpawn(t) PROVE Moves
  <2>1. UNCHANGED <<got, ret>>
    BY <1>6 DEF EnsureSpawn
  <2>2. \A p \in Procs : /\ stdin'[p] = stdin[p] \/ stdin'[p] = <<>>
                         /\ stdout'[p] = stdout[p] \/ stdout'[p] = <<>>
    BY <1>6 DEF EnsureSpawn, NewProcess, SInv, TInv, TypeOK, ProcessTypes
  <2> QED
    BY <2>1, <2>2 DEF Moves, Fading
<1>7. ASSUME NEW t \in Threads, ReadyReceived(t) PROVE Moves
  <2>1. UNCHANGED <<stdin, stdout>>
    BY <1>7 DEF ReadyReceived, procVars
  <2>2. \A u \in Threads : got'[u].req = got[u].req \/ got'[u].req = NoReq
    BY <1>7, ReqOf DEF ReadyReceived, SInv, TInv, TypeOK, ReaderTypes
  <2>3. \A u \in Threads : ret'[u].req = ret[u].req \/ ret'[u].req = NoReq
    <3>1. ret' = ret \/ ret' = [ret EXCEPT ![t] = [kind |-> "internal", req |-> NoReq]]
      BY <1>7 DEF ReadyReceived, Return
    <3> QED
      BY <3>1 DEF SInv, TInv, TypeOK, ThreadTypes
  <2> QED
    BY <2>1, <2>2, <2>3 DEF Moves, Fading
<1>8. ASSUME NEW t \in Threads, CallSend(t) PROVE Moves
  <2>1. CASE UNCHANGED <<stdin, ret>>
    BY <1>1, <1>8, <2>1 DEF CallSend
  <2>2. CASE Return(t, "internal", NoReq) /\ UNCHANGED stdin
    BY <1>2, <1>8, <2>2 DEF CallSend, Return
  <2>3. CASE /\ stdin' = [stdin EXCEPT ![held[t]] = Append(@, CurrentRequest(t))]
             /\ Goto(t, "recv") /\ UNCHANGED <<attempt, ret>>
    BY <1>8, <2>3 DEF CallSend, Goto, Moves, Sending
  <2> QED
    BY <1>8, <2>1, <2>2, <2>3 DEF CallSend
<1>9. ASSUME NEW t \in Threads, ReplyReceived(t) PROVE Moves
  <2>1. UNCHANGED <<stdin, stdout>> /\ got' = [got EXCEPT ![t] = Nothing]
    BY <1>9 DEF ReplyReceived
  <2>2. \/ ret' = ret
        \/ ret' = [ret EXCEPT ![t] = [kind |-> "internal", req |-> NoReq]]
        \/ \E k \in ResultKinds : ret' = [ret EXCEPT ![t] = [kind |-> k, req |-> got[t].req]]
    BY <1>9 DEF ReplyReceived, Return, ResultKinds
  <2>3. \A u \in Threads : got'[u].req = got[u].req \/ got'[u].req = NoReq
    BY <2>1, ReqOf DEF SInv, TInv, TypeOK, ReaderTypes
  <2>4. CASE \/ ret' = ret
             \/ ret' = [ret EXCEPT ![t] = [kind |-> "internal", req |-> NoReq]]
    <3>1. \A u \in Threads : ret'[u].req = ret[u].req \/ ret'[u].req = NoReq
      BY <2>4 DEF SInv, TInv, TypeOK, ThreadTypes
    <3> QED
      BY <2>1, <2>3, <3>1 DEF Moves, Fading
  <2> QED
    BY <2>1, <2>2, <2>4 DEF Moves, Returning
<1>10. ASSUME NEW a \in Actors, StopSteps(a) PROVE Moves
  <2>1. UNCHANGED <<stdout, got>>
    BY <1>10 DEF StopSteps, StopPop, TerminateClose, TerminateKill, procVars, readVars
  <2>2. \A p \in Procs : stdin'[p] = stdin[p] \/ stdin'[p] = <<>>
    BY <1>10
    DEF StopSteps, StopPop, TerminateClose, TerminateKill, Kill, Dies, procVars,
        SInv, TInv, TypeOK, ProcessTypes
  <2>3. ret' = ret \/ (a \in Threads /\ ret' = [ret EXCEPT ![a] = [kind |-> "ok", req |-> NoReq]])
    BY <1>10, SentinelAssumption
    DEF StopSteps, StopPop, TerminateClose, TerminateKill, AfterStop, Return, Actors
  <2>4. \A u \in Threads : ret'[u].req = ret[u].req \/ ret'[u].req = NoReq
    BY <2>3 DEF SInv, TInv, TypeOK, ThreadTypes
  <2> QED
    BY <2>1, <2>2, <2>4 DEF Moves, Fading
<1>11. ASSUME NEW t \in Threads, ShutdownList(t) PROVE Moves
    BY <1>1, <1>2, <1>11, SentinelAssumption
    DEF ShutdownList, AfterStop, Return, procVars, readVars
<1>12. ASSUME NEW p \in Procs, ReadLine(p) PROVE Moves
  <2>1. UNCHANGED <<stdin, ret>>
    BY <1>12 DEF ReadLine, threadVars
  <2>2. holder[p] = Stray \/ holder[p] \in Threads
    BY <1>12 DEF ReadLine, SInv, TInv, TypeOK, ReaderTypes
  <2>3. CASE stdout[p] # <<>>
    BY <1>12, <2>1, <2>2, <2>3 DEF ReadLine, Consume, Moves, Reading
  <2>4. CASE stdout[p] = <<>>
    <3>1. UNCHANGED stdout /\ (got' = got \/ got' = [got EXCEPT ![holder[p]] = EOF])
      BY <1>12, <2>4 DEF ReadLine
    <3>2. \A u \in Threads : got'[u].req = got[u].req \/ got'[u].req = NoReq
      BY <3>1, <2>2, ReqOf DEF SInv, TInv, TypeOK, ReaderTypes
    <3> QED
      BY <2>1, <3>1, <3>2 DEF Moves, Fading
  <2> QED
    BY <2>3, <2>4
<1>13. ASSUME NEW p \in Procs, RuntimeServe(p) PROVE Moves
    BY <1>13 DEF RuntimeServe, readVars, threadVars, Moves, Serving
<1>14. ASSUME NEW p \in Procs,
              RuntimeLoaded(p) \/ RuntimeExit(p) \/ RuntimeLoadFails(p) \/ RuntimeCrash(p)
       PROVE Moves
  <2>1. UNCHANGED <<got, ret>>
    BY <1>14 DEF RuntimeLoaded, RuntimeExit, RuntimeLoadFails, RuntimeCrash, readVars, threadVars
  <2>2. \A q \in Procs : stdin'[q] = stdin[q] \/ stdin'[q] = <<>>
    BY <1>14 DEF RuntimeLoaded, RuntimeExit, RuntimeLoadFails, RuntimeCrash, Dies,
                 SInv, TInv, TypeOK, ProcessTypes
  <2>3. \A q \in Procs :
          stdout'[q] = stdout[q] \/ \A i \in DOMAIN stdout'[q] : stdout'[q][i].req = NoReq
    BY <1>14, ReqOf, SMTT(30)
    DEF RuntimeLoaded, RuntimeExit, RuntimeLoadFails, RuntimeCrash,
        SInv, TInv, TypeOK, ProcessTypes
  <2> QED
    BY <2>1, <2>2, <2>3 DEF Moves, Fading
<1> QED
    BY <1>1, <1>3, <1>4, <1>5, <1>6, <1>7, <1>8, <1>9, <1>10, <1>11, <1>12, <1>13, <1>14
    DEF Next, vars, procVars, readVars, threadVars, ThreadStep, EvictorStep, ProcessStep,
        Actors, ReadyTimeout, PopFailedStart, ReplyTimeout, HandleCrash, EvictionScan,
        EvictionEnds, Age, ReaderEnter, Reclaim

-----------------------------------------------------------------------------
\* The tag of a request that was sent stays one that was sent.
LEMMA IssuedStep ==
  ASSUME SInv, [Next]_vars, NEW r \in Requests, Issued(r)
  PROVE  Issued(r)'
<1> DEFINE u == r.by
<1>1. u \in Threads /\ r.seq \in Nat /\ r.try \in 1..2
    BY DEF Requests
<1>2. count[u] \in Nat /\ attempt[u] \in 1..2
    BY <1>1 DEF SInv, TInv, TypeOK, ThreadTypes
<1> USE DEF Issued
<1>3. ASSUME UNCHANGED <<pc, count, attempt>> PROVE Issued(r)'
    BY <1>3
<1>4. ASSUME NEW t \in Threads, NEW o \in OpNames, NEW pl \in Plugins, Begin(t, o, pl)
      PROVE Issued(r)'
    BY <1>1, <1>2, <1>4
    DEF Begin, Goto, Return, SInv, TInv, TypeOK, ThreadTypes, Actors
<1>5. ASSUME NEW t \in Threads, NEW pl \in Plugins, RestartFailed(t, pl) PROVE Issued(r)'
    BY <1>1, <1>2, <1>5
    DEF RestartFailed, Return, SInv, TInv, TypeOK, ThreadTypes, Actors
<1>6. ASSUME NEW t \in Threads, NEW k, NEW q, Return(t, k, q), UNCHANGED count
      PROVE Issued(r)'
    BY <1>1, <1>2, <1>6 DEF Return, SInv, TInv, TypeOK, ThreadTypes, Actors
<1>7. ASSUME NEW a \in Actors, NEW l, Goto(a, l), UNCHANGED <<count, attempt>>,
             a \in Threads => /\ pc[a] # "idle"
                              /\ pc[a] \in {"recv", "crash", "fail"} =>
                                   l \in {"recv", "crash", "fail"}
      PROVE Issued(r)'
    BY <1>1, <1>2, <1>7 DEF Goto, SInv, TInv, TypeOK, ThreadTypes, Actors
<1>8. ASSUME NEW t \in Threads, EnsureReuse(t) PROVE Issued(r)'
    BY <1>6, <1>7, <1>8 DEF EnsureReuse, Actors
<1>9. ASSUME NEW t \in Threads, EnsureSpawn(t) PROVE Issued(r)'
    BY <1>7, <1>9 DEF EnsureSpawn, AwaitReady, Actors
<1>10. ASSUME NEW t \in Threads, EnsureSpawnFails(t) \/ SetFailed(t) PROVE Issued(r)'
    BY <1>6, <1>10 DEF EnsureSpawnFails, SetFailed
<1>11. ASSUME NEW t \in Threads, ReadyReceived(t) \/ SetRunning(t) PROVE Issued(r)'
    BY <1>6, <1>7, <1>11 DEF ReadyReceived, SetRunning, Actors
<1>12. ASSUME NEW t \in Threads, ReadyTimeout(t) \/ PopFailedStart(t) \/ ReplyTimeout(t)
       PROVE Issued(r)'
    BY <1>7, <1>12 DEF ReadyTimeout, PopFailedStart, ReplyTimeout, Actors
<1>13. ASSUME NEW t \in Threads, CallSend(t) \/ ReplyReceived(t) PROVE Issued(r)'
    BY <1>6, <1>7, <1>13 DEF CallSend, ReplyReceived, Actors
<1>14. ASSUME NEW t \in Threads, HandleCrash(t) PROVE Issued(r)'
    BY <1>1, <1>2, <1>14
    DEF HandleCrash, Retries, Goto, SInv, TInv, TypeOK, ThreadTypes, Actors
<1>15. ASSUME NEW a \in Actors, AfterStop(a), UNCHANGED count, pc[a] \notin {"recv", "crash", "fail"},
              a \in Threads => pc[a] # "idle"
       PROVE Issued(r)'
    BY <1>6, <1>7, <1>15 DEF AfterStop, Actors
<1>16. ASSUME NEW a \in Actors, StopSteps(a) PROVE Issued(r)'
    BY <1>7, <1>15, <1>16 DEF StopSteps, StopPop, TerminateClose, TerminateKill
<1>17. ASSUME NEW t \in Threads, ShutdownList(t) PROVE Issued(r)'
    BY <1>15, <1>17 DEF ShutdownList, Actors
<1>18. ASSUME EvictionScan \/ EvictionEnds PROVE Issued(r)'
    BY <1>7, <1>18, SentinelAssumption DEF EvictionScan, EvictionEnds, Actors
<1> HIDE DEF Issued
<1> QED
    BY <1>3, <1>4, <1>5, <1>8, <1>9, <1>10, <1>11, <1>12, <1>13, <1>14, <1>16, <1>17, <1>18
    DEF Next, vars, threadVars, ThreadStep, EvictorStep, ProcessStep, Actors,
        Age, ReaderEnter, ReadLine, RuntimeLoaded, RuntimeServe, RuntimeExit,
        RuntimeLoadFails, RuntimeCrash, Reclaim

\* What a thread is about to write was not sent before.
LEMMA CurrentIsFresh ==
  ASSUME SInv, RInv, NEW t \in Threads, pc[t] = "lock"
  PROVE  CurrentRequest(t) \in Requests /\ ~Carried(CurrentRequest(t))
<1>1. CurrentRequest(t) \in Requests
    BY CurrentRequestType DEF SInv
<1>2. ~Issued(CurrentRequest(t))
    BY DEF Issued, CurrentRequest, SInv, TInv, TypeOK, ThreadTypes
<1> QED
    BY <1>1, <1>2 DEF RInv, CarriedIssued

LEMMA NoReqIsNone == NoReq \notin Requests
  BY SentinelAssumption DEF NoReq, Requests

\* Taking the first line of a pipe shifts the others by one place.
LEMMA TailShifts ==
  ASSUME NEW S, NEW s \in Seq(S), s # <<>>
  PROVE  /\ 1 \in DOMAIN s /\ Head(s) = s[1]
         /\ \A i \in DOMAIN Tail(s) :
              /\ i \in Nat /\ i + 1 \in DOMAIN s /\ i + 1 # 1
              /\ Tail(s)[i] = s[i + 1]
  OBVIOUS

\* Writing a line adds one place.
LEMMA AppendAdds ==
  ASSUME NEW S, NEW s \in Seq(S), NEW e \in S
  PROVE  \A i \in DOMAIN Append(s, e) :
           \/ i \in DOMAIN s /\ Append(s, e)[i] = s[i]
           \/ i = Len(s) + 1 /\ i \notin DOMAIN s /\ Append(s, e)[i] = e
  OBVIOUS

Once == OncePerPipe /\ OncePerRead /\ OncePerResult

\* Nothing becomes duplicated by being lost.
LEMMA FadingOnce ==
  ASSUME SInv, Once, Fading PROVE Once'
<1>1. OncePerPipe'
  <2>1. \A p, q \in Procs : \A i \in DOMAIN stdin'[p], j \in DOMAIN stdin'[q] :
          stdin'[p][i] = stdin'[q][j] => p = q /\ i = j
    BY DEF Fading, Once, OncePerPipe
  <2>2. \A p, q \in Procs : \A i \in DOMAIN stdout'[p], j \in DOMAIN stdout'[q] :
          stdout'[p][i].req = stdout'[q][j].req /\ stdout'[p][i].req # NoReq
            => p = q /\ i = j
    BY DEF Fading, Once, OncePerPipe
  <2>3. \A p, q \in Procs : \A i \in DOMAIN stdin'[p], j \in DOMAIN stdout'[q] :
          stdin'[p][i] # stdout'[q][j].req
    <3>1. \A p \in Procs : \A i \in DOMAIN stdin[p] : stdin[p][i] # NoReq
      BY NoReqIsNone DEF SInv, TInv, TypeOK, ProcessTypes
    <3> QED
      BY <3>1 DEF Fading, Once, OncePerPipe
  <2> QED
    BY <2>1, <2>2, <2>3 DEF OncePerPipe
<1>2. \A r : r # NoReq /\ NotPiped(r) => NotPiped(r)'
  BY DEF Fading, NotPiped
<1>3. OncePerRead'
  BY <1>2 DEF Fading, Once, OncePerRead
<1>4. OncePerResult'
  BY <1>2 DEF Fading, Once, OncePerResult
<1> QED
  BY <1>1, <1>3, <1>4 DEF Once

\* The request a thread writes is new, so it stays the only one of its kind.
LEMMA SendingOnce ==
  ASSUME SInv, RInv, NEW t \in Threads, Sending(t) PROVE Once'
<1> DEFINE p == held[t]
           r == CurrentRequest(t)
<1>1. p \in Procs /\ stdin[p] \in Seq(Requests)
  BY DEF Sending, SInv, TInv, TypeOK, LocalsOK, HasWorker, ProcessTypes
<1>2. r \in Requests /\ ~Carried(r) /\ r # NoReq
  BY CurrentIsFresh, NoReqIsNone DEF Sending
<1>3. UNCHANGED <<stdout, got, ret>>
  BY DEF Sending
<1>4. stdin'[p] = Append(stdin[p], r) /\ \A q \in Procs \ {p} : stdin'[q] = stdin[q]
  BY <1>1 DEF Sending, SInv, TInv, TypeOK, ProcessTypes
<1> HIDE DEF r, p
<1>5. \A q \in Procs : \A i \in DOMAIN stdin'[q] :
        \/ i \in DOMAIN stdin[q] /\ stdin'[q][i] = stdin[q][i]
        \/ q = p /\ i = Len(stdin[p]) + 1 /\ stdin'[q][i] = r
  BY <1>1, <1>2, <1>4, AppendAdds
<1>6. /\ \A q \in Procs : \A i \in DOMAIN stdin[q] : stdin[q][i] # r
      /\ \A q \in Procs : \A i \in DOMAIN stdout[q] : stdout[q][i].req # r
      /\ \A u \in Threads : got[u].req # r /\ ret[u].req # r
  BY <1>2 DEF Carried
<1>7. OncePerPipe'
  BY <1>3, <1>5, <1>6 DEF RInv, OncePerPipe
<1>8. \A q : q # r /\ NotPiped(q) => NotPiped(q)'
  BY <1>3, <1>5 DEF NotPiped
<1>9. OncePerRead'
  BY <1>3, <1>6, <1>8 DEF RInv, OncePerRead
<1>10. OncePerResult'
  BY <1>3, <1>6, <1>8 DEF RInv, OncePerResult
<1> QED
  BY <1>7, <1>9, <1>10 DEF Once

\* The reply takes the place of its request.
LEMMA ServingOnce ==
  ASSUME SInv, Once, NEW p \in Procs, Serving(p) PROVE Once'
<1> DEFINE r == Head(stdin[p])
<1>1. stdin[p] \in Seq(Requests) /\ stdin[p] # <<>> /\ stdout[p] \in Seq(Lines)
  BY DEF Serving, SInv, TInv, TypeOK, ProcessTypes
<1>2. r = stdin[p][1] /\ 1 \in DOMAIN stdin[p] /\ r \in Requests
  BY <1>1
<1>3. PICK k \in Outcomes : stdout' = [stdout EXCEPT ![p] = Append(@, [kind |-> k, req |-> r])]
  BY DEF Serving
<1> DEFINE line == [kind |-> k, req |-> r]
<1>4. line \in Lines /\ line.req = r
  BY <1>2, LineTypes
<1>5. /\ stdin'[p] = Tail(stdin[p]) /\ \A q \in Procs \ {p} : stdin'[q] = stdin[q]
      /\ stdout'[p] = Append(stdout[p], line) /\ \A q \in Procs \ {p} : stdout'[q] = stdout[q]
      /\ UNCHANGED <<got, ret>>
  BY <1>3 DEF Serving, SInv, TInv, TypeOK, ProcessTypes
<1> HIDE DEF r, line
<1>6. /\ \A i \in DOMAIN stdin'[p] :
           i + 1 \in DOMAIN stdin[p] /\ stdin'[p][i] = stdin[p][i + 1] /\ i \in Nat /\ i # 0
      /\ \A i \in DOMAIN stdout'[p] :
           \/ i \in DOMAIN stdout[p] /\ stdout'[p][i] = stdout[p][i]
           \/ i = Len(stdout[p]) + 1 /\ stdout'[p][i] = line
  BY <1>1, <1>4, <1>5, TailShifts, AppendAdds
<1>7. \A q \in Procs : \A i \in DOMAIN stdin'[q] :
        \E j \in DOMAIN stdin[q] :
          /\ stdin'[q][i] = stdin[q][j]
          /\ q = p => j = i + 1 /\ j # 1 /\ i \in Nat
          /\ q # p => j = i
  <2> TAKE q \in Procs
  <2> TAKE i \in DOMAIN stdin'[q]
  <2>1. CASE q = p
    BY <1>6, <2>1
  <2>2. CASE q # p
    BY <1>5, <2>2
  <2> QED
    BY <2>1, <2>2
<1>8. \A q \in Procs : \A i \in DOMAIN stdout'[q] :
        \/ i \in DOMAIN stdout[q] /\ stdout'[q][i] = stdout[q][i]
        \/ q = p /\ i = Len(stdout[p]) + 1 /\ stdout'[q][i].req = r
  BY <1>4, <1>5, <1>6
<1>9. \A q \in Procs : \A i \in DOMAIN stdin'[q] : stdin'[q][i] # r
  BY <1>2, <1>7 DEF Once, OncePerPipe
<1>10. \A q \in Procs : \A i \in DOMAIN stdout[q] : stdout[q][i].req # r
  BY <1>2 DEF Once, OncePerPipe
<1>11. OncePerPipe'
  <2>1. \A q, s \in Procs : \A i \in DOMAIN stdin'[q], j \in DOMAIN stdin'[s] :
          stdin'[q][i] = stdin'[s][j] => q = s /\ i = j
    BY <1>7 DEF Once, OncePerPipe
  <2>2. \A q, s \in Procs : \A i \in DOMAIN stdout'[q], j \in DOMAIN stdout'[s] :
          stdout'[q][i].req = stdout'[s][j].req /\ stdout'[q][i].req # NoReq
            => q = s /\ i = j
    BY <1>8, <1>10 DEF Once, OncePerPipe
  <2>3. \A q, s \in Procs : \A i \in DOMAIN stdin'[q], j \in DOMAIN stdout'[s] :
          stdin'[q][i] # stdout'[s][j].req
    BY <1>7, <1>8, <1>9 DEF Once, OncePerPipe
  <2> QED
    BY <2>1, <2>2, <2>3 DEF OncePerPipe
<1>12. \A q : NotPiped(q) => NotPiped(q)'
  BY <1>2, <1>7, <1>8 DEF NotPiped
<1>13. OncePerRead' /\ OncePerResult'
  BY <1>5, <1>12 DEF Once, OncePerRead, OncePerResult
<1> QED
  BY <1>11, <1>13 DEF Once

\* A line that was read is no longer in the pipe.
LEMMA ReadingOnce ==
  ASSUME SInv, Once, NEW p \in Procs, Reading(p) PROVE Once'
<1>1. stdout[p] \in Seq(Lines) /\ stdout[p] # <<>>
  BY DEF Reading, SInv, TInv, TypeOK, ProcessTypes
<1>2. PICK line : line = Head(stdout[p]) /\ line = stdout[p][1] /\ 1 \in DOMAIN stdout[p]
  BY <1>1
<1>3. /\ stdout'[p] = Tail(stdout[p]) /\ \A q \in Procs \ {p} : stdout'[q] = stdout[q]
      /\ UNCHANGED <<stdin, ret>>
  BY DEF Reading, SInv, TInv, TypeOK, ProcessTypes
<1>4. \/ UNCHANGED got
      \/ \E t \in Threads : got'[t] = line /\ \A u \in Threads \ {t} : got'[u] = got[u]
  BY <1>2 DEF Reading, SInv, TInv, TypeOK, ReaderTypes
<1>5. \A q \in Procs : \A i \in DOMAIN stdout'[q] :
        \E j \in DOMAIN stdout[q] :
          /\ stdout'[q][i] = stdout[q][j]
          /\ q = p => j = i + 1 /\ j # 1 /\ i \in Nat
          /\ q # p => j = i
  <2> TAKE q \in Procs
  <2> TAKE i \in DOMAIN stdout'[q]
  <2>1. CASE q = p
    <3>1. i \in Nat /\ i + 1 \in DOMAIN stdout[p] /\ i + 1 # 1
            /\ stdout'[p][i] = stdout[p][i + 1]
      BY <1>1, <1>3, <2>1, TailShifts, ZenonT(60)
    <3> QED
      BY <2>1, <3>1
  <2>2. CASE q # p
    BY <1>3, <2>2
  <2> QED
    BY <2>1, <2>2
<1>6. OncePerPipe'
  <2>1. \A q, s \in Procs : \A i \in DOMAIN stdout'[q], j \in DOMAIN stdout'[s] :
          stdout'[q][i].req = stdout'[s][j].req /\ stdout'[q][i].req # NoReq
            => q = s /\ i = j
    BY <1>5 DEF Once, OncePerPipe
  <2>2. \A q, s \in Procs : \A i \in DOMAIN stdin'[q], j \in DOMAIN stdout'[s] :
          stdin'[q][i] # stdout'[s][j].req
    BY <1>3, <1>5 DEF Once, OncePerPipe
  <2> QED
    BY <1>3, <2>1, <2>2 DEF Once, OncePerPipe
<1>7. \A q : NotPiped(q) => NotPiped(q)'
  BY <1>3, <1>5 DEF NotPiped
<1>8. line.req # NoReq => NotPiped(line.req)'
  <2>1. \A q \in Procs : \A i \in DOMAIN stdin'[q] : stdin'[q][i] # line.req
    BY <1>2, <1>3 DEF Once, OncePerPipe
  <2>2. line.req # NoReq =>
          \A q \in Procs : \A i \in DOMAIN stdout'[q] : stdout'[q][i].req # line.req
    BY <1>2, <1>5 DEF Once, OncePerPipe
  <2> QED
    BY <2>1, <2>2 DEF NotPiped
<1>9. \A t \in Threads : /\ got[t].req # NoReq => got[t].req # line.req
                         /\ ret[t].req # NoReq => ret[t].req # line.req
  BY <1>2 DEF Once, OncePerRead, OncePerResult, NotPiped
<1>10. OncePerRead'
  BY <1>4, <1>7, <1>8, <1>9 DEF Once, OncePerRead
<1>11. OncePerResult'
  BY <1>3, <1>4, <1>7, <1>9 DEF Once, OncePerResult
<1> QED
  BY <1>6, <1>10, <1>11 DEF Once

\* The thread that returns a reply forgets that it read it.
LEMMA ReturningOnce ==
  ASSUME SInv, Once, NEW t \in Threads, Returning(t) PROVE Once'
<1>1. /\ got'[t].req = NoReq /\ \A u \in Threads \ {t} : got'[u] = got[u]
      /\ ret'[t].req = got[t].req /\ \A u \in Threads \ {t} : ret'[u] = ret[u]
      /\ UNCHANGED <<stdin, stdout>>
  BY ReqOf DEF Returning, SInv, TInv, TypeOK, ReaderTypes, ThreadTypes
<1>2. \A q : NotPiped(q) => NotPiped(q)'
  BY <1>1 DEF NotPiped
<1>3. OncePerPipe'
  BY <1>1 DEF Once, OncePerPipe
<1>4. OncePerRead'
  BY <1>1, <1>2 DEF Once, OncePerRead
<1>5. OncePerResult'
  BY <1>1, <1>2 DEF Once, OncePerRead, OncePerResult
<1> QED
  BY <1>3, <1>4, <1>5 DEF Once

-----------------------------------------------------------------------------
\* What is under way after a step was under way before, or is the request a
\* thread has just written.
LEMMA CarriedStep ==
  ASSUME SInv, Moves, NEW r \in Requests, Carried(r)'
  PROVE  Carried(r) \/ \E t \in Threads : Sending(t) /\ r = CurrentRequest(t)
<1>1. r # NoReq
  BY NoReqIsNone
<1>2. CASE Fading
  BY <1>1, <1>2 DEF Fading, Carried
<1>3. ASSUME NEW t \in Threads, Sending(t), r # CurrentRequest(t) PROVE Carried(r)
  <2>1. held[t] \in Procs /\ stdin[held[t]] \in Seq(Requests) /\ CurrentRequest(t) \in Requests
    BY <1>3, CurrentRequestType
    DEF Sending, SInv, TInv, TypeOK, LocalsOK, HasWorker, ProcessTypes
  <2>2. /\ stdin'[held[t]] = Append(stdin[held[t]], CurrentRequest(t))
        /\ \A q \in Procs \ {held[t]} : stdin'[q] = stdin[q]
        /\ UNCHANGED <<stdout, got, ret>>
    BY <1>3, <2>1 DEF Sending, SInv, TInv, TypeOK, ProcessTypes
  <2>3. \A q \in Procs : \A i \in DOMAIN stdin'[q] :
          \/ stdin'[q][i] # r
          \/ i \in DOMAIN stdin[q] /\ stdin'[q][i] = stdin[q][i]
    <3> DEFINE e == CurrentRequest(t)
    <3>1. \A i \in DOMAIN Append(stdin[held[t]], e) :
            \/ i \in DOMAIN stdin[held[t]] /\ Append(stdin[held[t]], e)[i] = stdin[held[t]][i]
            \/ Append(stdin[held[t]], e)[i] = e
      BY <2>1, AppendAdds
    <3>2. e # r /\ stdin'[held[t]] = Append(stdin[held[t]], e)
      BY <1>3, <2>2
    <3> HIDE DEF e
    <3> TAKE q \in Procs
    <3>3. CASE q = held[t]
      BY <3>1, <3>2, <3>3
    <3>4. CASE q # held[t]
      BY <2>2, <3>4
    <3> QED
      BY <3>3, <3>4
  <2> QED
    BY <2>2, <2>3 DEF Carried
<1>4. ASSUME NEW t \in Threads, Returning(t) PROVE Carried(r)
  <2>1. /\ got'[t].req = NoReq /\ \A u \in Threads \ {t} : got'[u] = got[u]
        /\ ret'[t].req = got[t].req /\ \A u \in Threads \ {t} : ret'[u] = ret[u]
        /\ UNCHANGED <<stdin, stdout>>
    BY <1>4, ReqOf DEF Returning, SInv, TInv, TypeOK, ReaderTypes, ThreadTypes
  <2> QED
    BY <1>1, <2>1 DEF Carried
<1>5. ASSUME NEW p \in Procs, Serving(p) PROVE Carried(r)
  <2>1. stdin[p] \in Seq(Requests) /\ stdin[p] # <<>> /\ stdout[p] \in Seq(Lines)
    BY <1>5 DEF Serving, SInv, TInv, TypeOK, ProcessTypes
  <2>2. PICK k \in Outcomes :
          stdout' = [stdout EXCEPT ![p] = Append(@, [kind |-> k, req |-> Head(stdin[p])])]
    BY <1>5 DEF Serving
  <2> DEFINE line == [kind |-> k, req |-> Head(stdin[p])]
  <2>3. 1 \in DOMAIN stdin[p] /\ line \in Lines /\ line.req = stdin[p][1]
    BY <2>1, LineTypes
  <2>4. /\ stdin'[p] = Tail(stdin[p]) /\ \A q \in Procs \ {p} : stdin'[q] = stdin[q]
        /\ stdout'[p] = Append(stdout[p], line)
        /\ \A q \in Procs \ {p} : stdout'[q] = stdout[q]
        /\ UNCHANGED <<got, ret>>
    BY <1>5, <2>2 DEF Serving, SInv, TInv, TypeOK, ProcessTypes
  <2> HIDE DEF line
  <2>5. \A i \in DOMAIN stdin'[p] : \E j \in DOMAIN stdin[p] : stdin'[p][i] = stdin[p][j]
    BY <2>1, <2>4, TailShifts
  <2>6. \A i \in DOMAIN stdout'[p] :
          \/ i \in DOMAIN stdout[p] /\ stdout'[p][i] = stdout[p][i]
          \/ stdout'[p][i] = line
    BY <2>1, <2>3, <2>4, AppendAdds
  <2>7. \A q \in Procs : \A i \in DOMAIN stdin'[q] :
          \E j \in DOMAIN stdin[q] : stdin'[q][i] = stdin[q][j]
    BY <2>4, <2>5, ZenonT(60)
  <2>8. ASSUME NEW q \in Procs, NEW i \in DOMAIN stdout'[q], stdout'[q][i].req = r
        PROVE  Carried(r)
    <3>1. CASE q = p
      BY <2>3, <2>6, <2>8, <3>1 DEF Carried
    <3>2. CASE q # p
      BY <2>4, <2>8, <3>2 DEF Carried
    <3> QED
      BY <3>1, <3>2
  <2>9. ASSUME NEW q \in Procs, NEW i \in DOMAIN stdin'[q], stdin'[q][i] = r
        PROVE  Carried(r)
    BY <2>7, <2>9 DEF Carried
  <2>10. ASSUME NEW u \in Threads, got'[u].req = r \/ ret'[u].req = r PROVE Carried(r)
    BY <2>4, <2>10 DEF Carried
  <2> QED
    BY <2>8, <2>9, <2>10 DEF Carried
<1>6. ASSUME NEW p \in Procs, Reading(p) PROVE Carried(r)
  <2>1. stdout[p] \in Seq(Lines) /\ stdout[p] # <<>>
    BY <1>6 DEF Reading, SInv, TInv, TypeOK, ProcessTypes
  <2>2. Head(stdout[p]) = stdout[p][1] /\ 1 \in DOMAIN stdout[p]
    BY <2>1
  <2>3. /\ stdout'[p] = Tail(stdout[p]) /\ \A q \in Procs \ {p} : stdout'[q] = stdout[q]
        /\ UNCHANGED <<stdin, ret>>
    BY <1>6 DEF Reading, SInv, TInv, TypeOK, ProcessTypes
  <2>4. \A u \in Threads : got'[u] = got[u] \/ got'[u] = stdout[p][1]
    BY <1>6, <2>2 DEF Reading, SInv, TInv, TypeOK, ReaderTypes
  <2>5. \A i \in DOMAIN stdout'[p] : \E j \in DOMAIN stdout[p] : stdout'[p][i] = stdout[p][j]
    BY <2>1, <2>3, TailShifts
  <2>6. ASSUME NEW q \in Procs, NEW i \in DOMAIN stdout'[q], stdout'[q][i].req = r
        PROVE  Carried(r)
    <3>1. CASE q = p
      BY <2>5, <2>6, <3>1 DEF Carried
    <3>2. CASE q # p
      BY <2>3, <2>6, <3>2 DEF Carried
    <3> QED
      BY <3>1, <3>2
  <2>7. ASSUME NEW u \in Threads, got'[u].req = r \/ ret'[u].req = r PROVE Carried(r)
    BY <2>2, <2>3, <2>4, <2>7 DEF Carried
  <2>8. ASSUME NEW q \in Procs, NEW i \in DOMAIN stdin'[q], stdin'[q][i] = r
        PROVE  Carried(r)
    BY <2>3, <2>8 DEF Carried
  <2> QED
    BY <2>6, <2>7, <2>8 DEF Carried
<1> QED
  BY <1>2, <1>3, <1>4, <1>5, <1>6 DEF Moves

LEMMA InitRInv == Init => RInv
<1> SUFFICES ASSUME Init PROVE RInv
  OBVIOUS
<1>1. \A t \in Threads : got[t].req = NoReq /\ ret[t].req = NoReq
  BY ReqOf DEF Init
<1>2. \A p \in Procs : DOMAIN stdin[p] = {} /\ DOMAIN stdout[p] = {}
  BY DEF Init
<1>3. \A r \in Requests : ~Carried(r)
  BY <1>1, <1>2, NoReqIsNone DEF Carried
<1> QED
  BY <1>1, <1>2, <1>3 DEF RInv, CarriedIssued, OncePerPipe, OncePerRead, OncePerResult

LEMMA RInvStep == SInv /\ RInv /\ [Next]_vars => RInv'
<1> SUFFICES ASSUME SInv, RInv, [Next]_vars PROVE RInv'
  OBVIOUS
<1>1. Moves
  BY EveryStepMoves
<1>2. CarriedIssued'
  <2>1. ASSUME NEW r \in Requests, Carried(r)' PROVE Issued(r)'
    <3>1. CASE Carried(r)
      BY <3>1, IssuedStep DEF RInv, CarriedIssued
    <3>2. ASSUME NEW t \in Threads, Sending(t), r = CurrentRequest(t) PROVE Issued(r)'
      BY <3>2 DEF Sending, CurrentRequest, Issued, SInv, TInv, TypeOK, ThreadTypes, Actors
    <3> QED
      BY <1>1, <2>1, <3>1, <3>2, CarriedStep
  <2> QED
    BY <2>1 DEF CarriedIssued
<1>3. Once'
  BY <1>1, FadingOnce, SendingOnce, ServingOnce, ReadingOnce, ReturningOnce
  DEF Moves, RInv, Once
<1> QED
  BY <1>2, <1>3 DEF RInv, Once

LEMMA RInvInvariant == Spec => []RInv
  BY InitRInv, RInvStep, SInvInvariant, PTL DEF Spec

\* For any number of threads, plugins and worker processes, and any pattern of
\* crashes, timeouts, retries and evictions: one execution of a plugin function
\* answers at most one call, and once its reply was returned no copy of the
\* request or of the reply is left in a pipe or with a reader, although _recv
\* matches replies to calls by position only.
THEOREM RepliesOnce == Spec => []NoReplyTwice
<1>1. RInv => NoReplyTwice
  BY DEF RInv, OncePerResult, NotPiped, NoReplyTwice
<1> QED
  BY <1>1, RInvInvariant, PTL

-----------------------------------------------------------------------------
(***************************************************************************)
(* One request at a time: with a single request thread (and the eviction   *)
(* thread beside it), and plugins that print nothing while they are        *)
(* imported, position is enough to match a reply to its call.              *)
(***************************************************************************)

\* A worker that nobody reads from and whose pipes are empty.
Quiet(p) ==
  /\ life[p] \in {"serving", "dead"}
  /\ stdin[p] = <<>> /\ stdout[p] = <<>>
  /\ holder[p] = None /\ readers[p] = {} /\ strays[p] = 0

Busy(t, p) == pc[t] \in {"recv_ready", "pop", "recv", "crash"} /\ held[t] = p

\* What has become of the ready line of p while its reader has read g.
ReadyFlow(p, g) ==
  /\ stdin[p] = <<>>
  /\ \/ life[p] = "loading" /\ stdout[p] = <<>> /\ g = Nothing
     \/ life[p] \in {"serving", "dead"} /\ stdout[p] = <<ReadyLine>> /\ g = Nothing
     \/ life[p] \in {"serving", "dead"} /\ stdout[p] = <<>> /\ g = ReadyLine
     \/ life[p] = "dead" /\ stdout[p] = <<>> /\ g \in {Nothing, EOF}

\* What has become of request r, the only one sent to p.
IsReply(l, r) == l.kind \in {"ok", "fail"} /\ l.req = r
ReplyFlow(p, r, g) ==
  /\ life[p] \in {"serving", "dead"}
  /\ \/ life[p] = "serving" /\ stdin[p] = <<r>> /\ stdout[p] = <<>> /\ g = Nothing
     \/ /\ stdin[p] = <<>> /\ stdout[p] # <<>> /\ Tail(stdout[p]) = <<>>
        /\ IsReply(Head(stdout[p]), r) /\ g = Nothing
     \/ stdin[p] = <<>> /\ stdout[p] = <<>> /\ IsReply(g, r)
     \/ life[p] = "dead" /\ stdin[p] = <<>> /\ stdout[p] = <<>> /\ g \in {Nothing, EOF}

MappedQuiet(t) ==
  \A pl \in Plugins : workers[pl] # NoProc => Busy(t, workers[pl]) \/ Quiet(workers[pl])
HeldQuiet(t) == pc[t] \in {"set_running", "lock"} => Quiet(held[t])
Unshared(t) == pc[t] \in Receiving => holder[held[t]] # Stray /\ strays[held[t]] = 0
ReadyOnly(t) == pc[t] = "recv_ready" => ReadyFlow(held[t], got[t])
ReplyOnly(t) == pc[t] = "recv" => ReplyFlow(held[t], CurrentRequest(t), got[t])

\* The inductive invariant: between requests the map holds quiet workers only.
OInv(t) ==
  /\ OwnReply
  /\ MappedQuiet(t) /\ HeldQuiet(t) /\ Unshared(t) /\ ReadyOnly(t) /\ ReplyOnly(t)

LEMMA Kinds ==
  /\ ReadyLine \notin {NoiseLine, EOF, Nothing} /\ EOF # Nothing /\ NoiseLine \notin {EOF, Nothing}
  /\ \A l : l.kind \in {"ok", "fail"} => l \notin {ReadyLine, NoiseLine, EOF, Nothing}
  BY DEF ReadyLine, NoiseLine, EOF, Nothing

\* A quiet worker that no thread waits for stays quiet until it is sent a
\* request, or its slot is used for a new process.
LEMMA QuietStep ==
  ASSUME SInv, [Next]_vars, NEW p \in Procs, Quiet(p),
         \A t \in Threads : pc[t] \in Receiving => held[t] # p
  PROVE  \/ Quiet(p)'
         \/ \E t \in Threads : held'[t] = p /\ pc'[t] \in Receiving
<1> USE DEF Quiet
<1>1. ASSUME UNCHANGED <<life, stdin, stdout, holder, readers, strays>> PROVE Quiet(p)'
  BY <1>1
<1>2. ASSUME NEW t \in Threads, EnsureSpawn(t)
      PROVE  Quiet(p)' \/ (held'[t] = p /\ pc'[t] \in Receiving)
  BY <1>2
  DEF EnsureSpawn, NewProcess, AwaitReady, Goto, Receiving, Actors, SInv, TInv, TypeOK,
      ProcessTypes, ReaderTypes, ThreadTypes
<1>3. ASSUME NEW t \in Threads, CallSend(t)
      PROVE  Quiet(p)' \/ (held'[t] = p /\ pc'[t] \in Receiving)
  BY <1>3
  DEF CallSend, Goto, Receiving, Actors, SInv, TInv, TypeOK, LocalsOK, HasWorker,
      ProcessTypes, ReaderTypes, ThreadTypes
<1>4. ASSUME NEW t \in Threads, ReadyTimeout(t) \/ ReplyTimeout(t) PROVE Quiet(p)'
  BY <1>4
  DEF ReadyTimeout, ReplyTimeout, Abandon, Receiving, procVars, SInv, TInv, TypeOK,
      LocalsOK, HasWorker, ReaderTypes
<1>5. ASSUME NEW a \in Actors, TerminateKill(a) PROVE Quiet(p)'
  BY <1>5
  DEF TerminateKill, Kill, Dies, readVars, SInv, TInv, TypeOK, LocalsOK, ProcessTypes
<1>6. ASSUME NEW q \in Procs, ProcessStep(q) PROVE Quiet(p)'
  BY <1>6
  DEF ProcessStep, RuntimeLoaded, RuntimeServe, RuntimeExit, RuntimeLoadFails, RuntimeCrash,
      Dies, Alive, readVars, SInv, TInv, TypeOK, ProcessTypes
<1>7. ASSUME NEW q \in Procs, ReaderEnter(q) \/ ReadLine(q) PROVE Quiet(p)'
  BY <1>7
  DEF ReaderEnter, ReadLine, Consume, procVars, SInv, TInv, TypeOK, ProcessTypes, ReaderTypes
<1> HIDE DEF Quiet
<1> QED
  BY <1>1, <1>2, <1>3, <1>4, <1>5, <1>6, <1>7
  DEF Next, vars, procVars, readVars, ThreadStep, EvictorStep, StopSteps, Actors,
      Begin, RestartFailed, EnsureReuse, EnsureSpawnFails, ReadyReceived, PopFailedStart,
      SetRunning, ReplyReceived, HandleCrash, SetFailed, ShutdownList, StopPop,
      TerminateClose, EvictionScan, EvictionEnds, Age, Reclaim

\* A result is NoReq or the reply to the request in progress.
LEMMA OwnReplyStep ==
  ASSUME NEW t \in Threads, Threads = {t}, SInv, OInv(t), [Next]_vars
  PROVE  OwnReply'
<1>1. ASSUME ret'[t].req = NoReq \/ (UNCHANGED count /\ ret'[t].req = ret[t].req)
      PROVE  OwnReply'
  BY <1>1 DEF OInv, OwnReply
<1>2. ASSUME NEW o \in OpNames, NEW pl \in Plugins, Begin(t, o, pl) \/ RestartFailed(t, pl)
      PROVE  OwnReply'
  BY <1>1, <1>2, ReqOf DEF Begin, RestartFailed, Return, SInv, TInv, TypeOK, ThreadTypes
<1>3. ASSUME ReplyReceived(t) PROVE OwnReply'
  BY <1>3, ReqOf, Kinds
  DEF ReplyReceived, Return, OInv, OwnReply, ReplyOnly, ReplyFlow, IsReply, CurrentRequest,
      SInv, TInv, TypeOK, ThreadTypes
<1>4. ASSUME ThreadStep(t), ~ReplyReceived(t), ~StopSteps(t) PROVE OwnReply'
  <2>1. UNCHANGED count /\ (UNCHANGED ret \/ \E k : ret' = [ret EXCEPT ![t] = [kind |-> k, req |-> NoReq]])
    BY <1>4
    DEF ThreadStep, EnsureReuse, EnsureSpawn, EnsureSpawnFails, ReadyReceived, ReadyTimeout,
        PopFailedStart, SetRunning, CallSend, ReplyTimeout, HandleCrash, SetFailed,
        ShutdownList, AfterStop, Return
  <2> QED
    BY <1>1, <2>1 DEF SInv, TInv, TypeOK, ThreadTypes
<1>5. ASSUME NEW a \in Actors, StopSteps(a) PROVE OwnReply'
  <2>1. /\ UNCHANGED count
        /\ \/ UNCHANGED ret
           \/ a \in Threads /\ ret' = [ret EXCEPT ![a] = [kind |-> "ok", req |-> NoReq]]
    BY <1>5, SentinelAssumption
    DEF StopSteps, StopPop, TerminateClose, TerminateKill, AfterStop, Return, Actors
  <2> QED
    BY <1>1, <2>1 DEF SInv, TInv, TypeOK, ThreadTypes
<1> QED
  BY <1>1, <1>2, <1>3, <1>4, <1>5
  DEF Next, vars, threadVars, ThreadStep, EvictorStep, ProcessStep, Actors, OpNames,
      EvictionScan, EvictionEnds, Age, Reclaim, ReaderEnter, ReadLine,
      RuntimeLoaded, RuntimeServe, RuntimeExit, RuntimeLoadFails, RuntimeCrash

\* A worker is left in the map only after its reply was read.
LEMMA MappedQuietStep ==
  ASSUME NEW t \in Threads, Threads = {t}, SInv, OInv(t), [Next]_vars
  PROVE  MappedQuiet(t)'
<1> SUFFICES ASSUME NEW pl \in Plugins, workers'[pl] # NoProc
             PROVE  Busy(t, workers[pl])' \/ Quiet(workers[pl])'
  BY DEF MappedQuiet
<1>1. CASE EnsureSpawn(t) /\ pl = plugin[t]
  BY <1>1 DEF EnsureSpawn, AwaitReady, Goto, Busy, Actors, SInv, TInv, TypeOK, ManagerTypes, ThreadTypes
<1>2. CASE ~(EnsureSpawn(t) /\ pl = plugin[t])
  <2>1. workers'[pl] = workers[pl]
    <3>1. CASE \E u \in Threads : ThreadStep(u)
      BY <1>2, <3>1
      DEF mgrVars, ThreadStep, StopSteps, DropWorker, EnsureReuse, EnsureSpawn, EnsureSpawnFails, ReadyReceived,
          ReadyTimeout, PopFailedStart, SetRunning, CallSend, ReplyReceived, ReplyTimeout, HandleCrash,
          SetFailed, ShutdownList, StopPop, TerminateClose, TerminateKill, SInv, TInv, TypeOK,
          ManagerTypes
    <3>2. CASE \/ EvictorStep
               \/ \E u \in Threads, o \in OpNames, q \in Plugins : Begin(u, o, q)
               \/ \E u \in Threads, q \in Plugins : RestartFailed(u, q)
      BY <1>2, <3>2
      DEF mgrVars, EvictorStep, StopSteps, DropWorker, Begin, RestartFailed, StopPop, TerminateClose,
          TerminateKill, EvictionScan, EvictionEnds, SInv, TInv, TypeOK, ManagerTypes
    <3>3. CASE \/ UNCHANGED vars
               \/ \E q \in Procs : ProcessStep(q) \/ ReaderEnter(q) \/ ReadLine(q) \/ Age(q) \/ Reclaim(q)
      BY <1>2, <3>3
      DEF vars, mgrVars, ProcessStep, Age, ReaderEnter, ReadLine, RuntimeLoaded, RuntimeServe,
          RuntimeExit, RuntimeLoadFails, RuntimeCrash, Reclaim, SInv, TInv, TypeOK, ManagerTypes
    <3> QED
      BY <3>1, <3>2, <3>3 DEF Next
  <2>2. PICK p \in Procs : p = workers[pl] /\ p = workers'[pl]
    BY <2>1 DEF SInv, TInv, TypeOK, ManagerTypes
  <2>3. SUFFICES Busy(t, p)' \/ Quiet(p)'
    BY <2>2 DEF Busy, Quiet
  <2>4. CASE Busy(t, p)
    <3>1. ASSUME UNCHANGED <<pc[t], held[t]>> PROVE Busy(t, p)'
      BY <2>4, <3>1 DEF Busy
    <3>2. CASE ReadyReceived(t)
      BY <2>4, <3>2, Kinds
      DEF Busy, Quiet, ReadyReceived, Goto, procVars, OInv, ReadyOnly, ReadyFlow, Unshared,
          Receiving, SInv, ReadersWait, TInv, TypeOK, ThreadTypes, ReaderTypes, Actors
    <3>3. CASE ReadyTimeout(t) \/ PopFailedStart(t) \/ ReplyTimeout(t)
      BY <2>4, <3>3 DEF Busy, ReadyTimeout, PopFailedStart, ReplyTimeout, Goto, Actors,
                        SInv, TInv, TypeOK, ThreadTypes
    <3>4. CASE ReplyReceived(t)
      BY <2>4, <3>4, Kinds
      DEF Busy, Quiet, ReplyReceived, Goto, Return, Alive, OInv, ReplyOnly, ReplyFlow, IsReply,
          Unshared, Receiving, SInv, ReadersWait, TInv, TypeOK, ThreadTypes, ReaderTypes, Actors
    <3>5. CASE HandleCrash(t)
      <4>1. home[p] = pl
        BY <2>2, NoProcIsNone DEF SInv, MappedWorkerUsable
      <4>2. home[p] = plugin[t]
        BY <2>4, <3>5 DEF Busy, HandleCrash, SInv, HeldHome, HasWorker
      <4> QED
        BY <2>2, <3>5, <4>1, <4>2, NoProcIsNone DEF HandleCrash, DropWorker, SInv, TInv, TypeOK, ManagerTypes
    <3>6. CASE EvictorStep
      BY <3>1, <3>6, SentinelAssumption, ZenonT(60)
      DEF EvictorStep, StopSteps, EvictionScan, EvictionEnds, StopPop, TerminateClose,
          TerminateKill, AfterStop, Goto, Actors, SInv, TInv, TypeOK, ThreadTypes
    <3> QED
      BY <2>4, <3>1, <3>2, <3>3, <3>4, <3>5, <3>6
      DEF Next, vars, threadVars, ThreadStep, StopSteps, ProcessStep, Busy,
          Begin, RestartFailed, EnsureReuse, EnsureSpawn, EnsureSpawnFails, SetRunning,
          CallSend, SetFailed, ShutdownList, StopPop, TerminateClose, TerminateKill,
          Age, ReaderEnter, ReadLine, RuntimeLoaded, RuntimeServe, RuntimeExit,
          RuntimeLoadFails, RuntimeCrash, Reclaim
  <2>5. CASE Quiet(p) /\ ~Busy(t, p)
    BY <2>5, QuietStep DEF Busy, Receiving
  <2> QED
    BY <2>2, <2>4, <2>5, NoProcIsNone DEF OInv, MappedQuiet
<1> QED
  BY <1>1, <1>2

\* The worker a thread is about to use is quiet.
LEMMA HeldQuietStep ==
  ASSUME NEW t \in Threads, Threads = {t}, SInv, OInv(t), [Next]_vars
  PROVE  HeldQuiet(t)'
<1> SUFFICES ASSUME pc'[t] \in {"set_running", "lock"} PROVE Quiet(held[t])'
  BY DEF HeldQuiet
<1>1. CASE EnsureReuse(t)
  <2>1. /\ plugin[t] \in Plugins /\ held'[t] = workers[plugin[t]] /\ workers[plugin[t]] # NoProc
        /\ pc[t] = "ensure"
    BY <1>1 DEF EnsureReuse, LiveWorker, Return, Actors, SInv, TInv, TypeOK, ThreadTypes, LocalsOK, InRequest
  <2>2. Quiet(workers[plugin[t]])
    BY <2>1 DEF OInv, MappedQuiet, Busy
  <2> QED
    BY <1>1, <2>1, <2>2 DEF EnsureReuse, Quiet, procVars, readVars
<1>2. CASE ReadyReceived(t)
  BY <1>2, Kinds
  DEF Quiet, ReadyReceived, Goto, Return, procVars, OInv, ReadyOnly, ReadyFlow, Unshared,
      Receiving, SInv, LocalsOK, HasWorker, ReadersWait, TInv, TypeOK, ThreadTypes, ReaderTypes, Actors
<1>3. CASE pc[t] \in {"set_running", "lock"} /\ held'[t] = held[t]
  <2>1. held[t] \in Procs /\ Quiet(held[t])
    BY <1>3 DEF OInv, HeldQuiet, SInv, TInv, LocalsOK, HasWorker
  <2>2. PICK p \in Procs : p = held[t]
    BY <2>1
  <2> QED
    BY <1>3, <2>1, <2>2, QuietStep DEF Receiving, Quiet
<1>4. (pc'[t] = pc[t] /\ held'[t] = held[t]) \/ EnsureReuse(t) \/ ReadyReceived(t) \/ SetRunning(t)
  <2>1. CASE \E u \in Threads : ThreadStep(u)
    BY SentinelAssumption, <2>1
    DEF ThreadStep, StopSteps, EnsureSpawn, AwaitReady, EnsureSpawnFails, ReadyTimeout, PopFailedStart,
        CallSend, ReplyReceived, ReplyTimeout, HandleCrash, SetFailed, ShutdownList, StopPop,
        TerminateClose, TerminateKill, AfterStop, Goto, Return, Actors, SInv, TInv, TypeOK, ThreadTypes
  <2>2. CASE \/ EvictorStep
             \/ \E u \in Threads, o \in OpNames, q \in Plugins : Begin(u, o, q)
             \/ \E u \in Threads, q \in Plugins : RestartFailed(u, q)
    BY SentinelAssumption, <2>2
    DEF EvictorStep, StopSteps, Begin, RestartFailed, StopPop, TerminateClose, TerminateKill, AfterStop,
        Goto, Return, EvictionScan, EvictionEnds, Actors, SInv, TInv, TypeOK, ThreadTypes
  <2>3. CASE \/ UNCHANGED vars
             \/ \E q \in Procs : ProcessStep(q) \/ ReaderEnter(q) \/ ReadLine(q) \/ Age(q) \/ Reclaim(q)
    BY SentinelAssumption, <2>3
    DEF vars, threadVars, ProcessStep, Age, ReaderEnter, ReadLine, RuntimeLoaded, RuntimeServe,
        RuntimeExit, RuntimeLoadFails, RuntimeCrash, Reclaim, Actors, SInv, TInv, TypeOK, ThreadTypes
  <2> QED
    BY <2>1, <2>2, <2>3 DEF Next
<1> QED
  BY <1>1, <1>2, <1>3, <1>4 DEF SetRunning, Return, SInv, TInv, TypeOK, ThreadTypes, Actors

\* A thread begins to wait for a line in two places; until the line is there it
\* keeps its worker and its request.
LEMMA WaitsOn ==
  ASSUME NEW t \in Threads, SInv, [Next]_vars, pc'[t] \in Receiving
  PROVE  \/ EnsureSpawn(t)
         \/ CallSend(t)
         \/ /\ pc[t] \in Receiving /\ pc'[t] = pc[t] /\ held'[t] = held[t]
            /\ count'[t] = count[t] /\ attempt'[t] = attempt[t] /\ plugin'[t] = plugin[t]
<1> DEFINE Same == /\ pc'[t] = pc[t] /\ held'[t] = held[t] /\ count'[t] = count[t]
                   /\ attempt'[t] = attempt[t] /\ plugin'[t] = plugin[t]
<1>1. ASSUME NEW u \in Threads, NEW o \in OpNames, NEW pl \in Plugins,
             Begin(u, o, pl) \/ RestartFailed(u, pl)
      PROVE  Same
  BY <1>1 DEF Begin, RestartFailed, Goto, Return, Receiving, SInv, TInv, TypeOK, ThreadTypes, Actors
<1>2. ASSUME NEW u \in Threads,
             \/ EnsureReuse(u) \/ EnsureSpawnFails(u) \/ ReadyReceived(u) \/ ReadyTimeout(u)
             \/ PopFailedStart(u) \/ SetRunning(u) \/ ReplyReceived(u) \/ ReplyTimeout(u)
             \/ HandleCrash(u) \/ SetFailed(u) \/ ShutdownList(u)
      PROVE  Same
  BY <1>2, SentinelAssumption
  DEF EnsureReuse, EnsureSpawnFails, ReadyReceived, ReadyTimeout, PopFailedStart, SetRunning,
      ReplyReceived, ReplyTimeout, HandleCrash, SetFailed, ShutdownList, AfterStop,
      Goto, Return, Receiving, SInv, TInv, TypeOK, ThreadTypes, Actors
<1>3. ASSUME NEW u \in Threads \ {t}, EnsureSpawn(u) \/ CallSend(u) PROVE Same
  BY <1>3 DEF EnsureSpawn, CallSend, AwaitReady, Goto, Return, SInv, TInv, TypeOK, ThreadTypes, Actors
<1>4. ASSUME NEW a \in Actors, StopSteps(a) PROVE Same
  BY <1>4, SentinelAssumption
  DEF StopSteps, StopPop, TerminateClose, TerminateKill, AfterStop, Goto, Return, Receiving,
      SInv, TInv, TypeOK, ThreadTypes, Actors
<1>5. ASSUME EvictionScan \/ EvictionEnds PROVE Same
  BY <1>5, SentinelAssumption DEF EvictionScan, EvictionEnds, Goto, SInv, TInv, TypeOK, ThreadTypes, Actors
<1>6. ASSUME UNCHANGED threadVars PROVE Same
  BY <1>6 DEF threadVars
<1>7. EnsureSpawn(t) \/ CallSend(t) \/ Same
  <2> HIDE DEF Same
  <2> QED
    BY <1>1, <1>2, <1>3, <1>4, <1>5, <1>6
    DEF Next, vars, ThreadStep, EvictorStep, ProcessStep, Actors, OpNames, Age, Reclaim,
        ReaderEnter, ReadLine, RuntimeLoaded, RuntimeServe, RuntimeExit, RuntimeLoadFails, RuntimeCrash
<1> QED
  BY <1>7

\* No stray of an earlier request reads from the worker a thread waits for.
LEMMA UnsharedStep ==
  ASSUME NEW t \in Threads, Threads = {t}, SInv, OInv(t), [Next]_vars
  PROVE  Unshared(t)'
<1> SUFFICES ASSUME pc'[t] \in Receiving
             PROVE  holder'[held'[t]] # Stray /\ strays'[held'[t]] = 0
  BY DEF Unshared
<1>1. CASE EnsureSpawn(t)
  BY <1>1, SentinelAssumption
  DEF EnsureSpawn, Free, SInv, TInv, TypeOK, ThreadTypes, ReaderTypes, Actors
<1>2. CASE CallSend(t)
  BY <1>2, SentinelAssumption
  DEF CallSend, Goto, Return, OInv, HeldQuiet, Quiet, Receiving, SInv, TInv, TypeOK, ThreadTypes, Actors
<1>3. CASE pc[t] \in Receiving /\ held'[t] = held[t]
  <2>1. held[t] \in Procs /\ holder[held[t]] # Stray /\ strays[held[t]] = 0
    BY <1>3 DEF OInv, Unshared, SInv, TInv, LocalsOK, HasWorker, Receiving
  <2>2. ASSUME NEW q \in Procs, ReaderEnter(q) \/ ReadLine(q)
        PROVE  holder'[held[t]] # Stray /\ strays'[held[t]] = 0
    <3>1. readers[q] \subseteq Threads /\ Stray \notin Threads
      BY SentinelAssumption DEF SInv, TInv, TypeOK, ReaderTypes
    <3>2. CASE q = held[t]
      <4>1. ~(strays[q] > 0)
        BY <2>1, <3>2
      <4>2. strays'[q] = strays[q] /\ (holder'[q] = None \/ holder'[q] \in Threads)
        BY <2>2, <3>1, <4>1 DEF ReaderEnter, ReadLine, SInv, TInv, TypeOK, ReaderTypes
      <4> QED
        BY <2>1, <3>1, <3>2, <4>2, SentinelAssumption
    <3>3. CASE q # held[t]
      BY <2>1, <2>2, <3>3 DEF ReaderEnter, ReadLine, SInv, TInv, TypeOK, ReaderTypes
    <3> QED
      BY <3>2, <3>3
  <2>3. ASSUME UNCHANGED <<holder, strays>>
        PROVE  holder'[held[t]] # Stray /\ strays'[held[t]] = 0
    BY <2>1, <2>3
  <2> QED
    BY <1>3, <1>1, <2>2, <2>3
    DEF Next, vars, readVars, ThreadStep, EvictorStep, StopSteps, ProcessStep, Actors,
        Begin, RestartFailed, EnsureReuse, EnsureSpawnFails, ReadyReceived, ReadyTimeout,
        PopFailedStart, SetRunning, CallSend, ReplyReceived, ReplyTimeout, HandleCrash,
        SetFailed, ShutdownList, StopPop, TerminateClose, TerminateKill, Goto, Receiving,
        EvictionScan, EvictionEnds, Age, RuntimeLoaded, RuntimeServe, RuntimeExit,
        RuntimeLoadFails, RuntimeCrash, Reclaim, SInv, TInv, TypeOK, ThreadTypes
<1> QED
  BY <1>1, <1>2, <1>3, WaitsOn

\* The first line a worker of a quiet plugin writes is the ready line.
LEMMA ReadyOnlyStep ==
  ASSUME NEW t \in Threads, Threads = {t}, Noisy = {}, SInv, OInv(t), [Next]_vars
  PROVE  ReadyOnly(t)'
<1> SUFFICES ASSUME pc'[t] = "recv_ready" PROVE ReadyFlow(held[t], got[t])'
  BY DEF ReadyOnly
<1>1. CASE EnsureSpawn(t)
  BY <1>1
  DEF EnsureSpawn, NewProcess, ReadyFlow, SInv, GotHome, Receiving, TInv, TypeOK,
      ThreadTypes, ProcessTypes, Actors
<1>2. CASE pc[t] = "recv_ready" /\ held'[t] = held[t]
  <2>1. PICK p \in Procs : p = held[t] /\ ReadyFlow(p, got[t])
    BY <1>2 DEF OInv, ReadyOnly, SInv, TInv, LocalsOK, HasWorker
  <2>2. SUFFICES ReadyFlow(p, got[t])'
    BY <1>2, <2>1 DEF ReadyFlow
  <2>3. ASSUME UNCHANGED <<life, stdin, stdout, got>> PROVE ReadyFlow(p, got[t])'
    BY <1>2, <2>1, <2>3 DEF ReadyFlow
  <2>4. ASSUME NEW q \in Procs, ReadLine(q) PROVE ReadyFlow(p, got[t])'
    <3>1. UNCHANGED <<life, stdin>>
      BY <2>4 DEF ReadLine
    <3>2. CASE q # p
      <4>1. stdout'[p] = stdout[p] /\ got'[t] = got[t]
        BY <2>1, <2>4, <3>2
        DEF ReadLine, Consume, SInv, ReadersWait, TInv, TypeOK, ProcessTypes, ReaderTypes
      <4> QED
        BY <2>1, <3>1, <4>1 DEF ReadyFlow
    <3>3. CASE q = p
      <4>1. holder[p] = t /\ got[t] = Nothing
        BY <1>2, <2>1, <2>4, <3>3
        DEF ReadLine, OInv, Unshared, Receiving, SInv, ReadersWait, TInv, TypeOK, ReaderTypes
      <4>0. t # Stray
        BY SentinelAssumption
      <4>2. Head(<<ReadyLine>>) = ReadyLine /\ Tail(<<ReadyLine>>) = <<>>
        OBVIOUS
      <4>3. \/ stdout[p] # <<>> /\ stdout'[p] = Tail(stdout[p]) /\ got'[t] = Head(stdout[p])
            \/ stdout[p] = <<>> /\ stdout'[p] = <<>> /\ got'[t] = EOF /\ life[p] # "loading"
        BY <2>4, <3>3, <4>1, <4>0
        DEF ReadLine, Consume, Alive, SInv, TInv, TypeOK, ProcessTypes, ReaderTypes
      <4>4. stdout[p] = <<>> => life[p] = "dead" \/ life[p] = "loading"
        BY <2>1, <4>1, Kinds DEF ReadyFlow
      <4> QED
        BY <2>1, <3>1, <4>1, <4>2, <4>3, <4>4, Kinds DEF ReadyFlow
    <3> QED
      BY <3>2, <3>3
  <2>5. ASSUME NEW q \in Procs, ProcessStep(q) PROVE ReadyFlow(p, got[t])'
    <3>1. got' = got /\ (q # p => life'[p] = life[p] /\ stdin'[p] = stdin[p] /\ stdout'[p] = stdout[p])
      BY <2>1, <2>5
      DEF ProcessStep, RuntimeLoaded, RuntimeServe, RuntimeExit, RuntimeLoadFails,
          RuntimeCrash, Dies, readVars, SInv, TInv, TypeOK, ProcessTypes
    <3>2. CASE q = p
      <4>1. stdin[p] = <<>> /\ <<>> \o <<ReadyLine>> = <<ReadyLine>>
        BY <2>1 DEF ReadyFlow
      <4>2. \/ /\ life[p] = "loading" /\ life'[p] = "serving"
               /\ stdin'[p] = <<>> /\ stdout'[p] = <<ReadyLine>>
            \/ /\ life[p] = "loading" /\ life'[p] = "dead"
               /\ stdin'[p] = <<>> /\ stdout'[p] = <<>>
            \/ Alive(p) /\ life'[p] = "dead" /\ stdin'[p] = <<>> /\ stdout'[p] = stdout[p]
        BY <2>5, <3>2, <4>1
        DEF ProcessStep, RuntimeLoaded, RuntimeServe, RuntimeExit, RuntimeLoadFails,
            RuntimeCrash, Dies, Alive, SInv, TInv, TypeOK, ProcessTypes
      <4> QED
        BY <2>1, <3>1, <4>2 DEF ReadyFlow, Alive
    <3> QED
      BY <2>1, <3>1, <3>2 DEF ReadyFlow
  <2>6. ASSUME NEW a \in Actors, TerminateKill(a) PROVE ReadyFlow(p, got[t])'
    BY <1>2, <2>1, <2>6
    DEF TerminateKill, Kill, Dies, Alive, readVars, ReadyFlow, SInv, TInv, TypeOK,
        LocalsOK, ProcessTypes
  <2> QED
    BY <1>1, <1>2, <2>3, <2>4, <2>5, <2>6
    DEF Next, vars, procVars, readVars, ThreadStep, EvictorStep, StopSteps, Actors,
        Begin, RestartFailed, EnsureReuse, EnsureSpawn, EnsureSpawnFails, ReadyReceived,
        ReadyTimeout, PopFailedStart, SetRunning, CallSend, ReplyReceived, ReplyTimeout,
        HandleCrash, SetFailed, ShutdownList, StopPop, TerminateClose, Goto, Return,
        EvictionScan, EvictionEnds, Age, ReaderEnter, Reclaim, SInv, TInv, TypeOK, ThreadTypes
<1> QED
  BY <1>1, <1>2, WaitsOn DEF CallSend, Goto, Return, Receiving, SInv, TInv, TypeOK, ThreadTypes, Actors

\* After it, the only line is the reply to the only request.
LEMMA ReplyOnlyStep ==
  ASSUME NEW t \in Threads, Threads = {t}, SInv, OInv(t), [Next]_vars
  PROVE  ReplyOnly(t)'
<1> SUFFICES ASSUME pc'[t] = "recv" PROVE ReplyFlow(held[t], CurrentRequest(t), got[t])'
  BY DEF ReplyOnly
<1>0. PICK p, r : p = held[t] /\ r = CurrentRequest(t)
  OBVIOUS
<1>1. CASE CallSend(t)
  <2>1. p \in Procs /\ Quiet(p) /\ got[t] = Nothing /\ Append(<<>>, r) = <<r>>
    BY <1>0, <1>1 DEF CallSend, OInv, HeldQuiet, SInv, GotHome, Receiving, TInv, LocalsOK, HasWorker
  <2>2. /\ stdin' = [stdin EXCEPT ![p] = Append(@, r)]
        /\ Alive(p)
        /\ UNCHANGED <<held, life, stdout, got, count, attempt, plugin>>
    BY <1>0, <1>1 DEF CallSend, Goto, Return, SInv, TInv, TypeOK, ThreadTypes, Actors
  <2>3. stdin'[p] = <<r>> /\ CurrentRequest(t)' = r /\ held'[t] = p
    BY <1>0, <2>1, <2>2 DEF Quiet, CurrentRequest, SInv, TInv, TypeOK, ProcessTypes
  <2> QED
    BY <2>1, <2>2, <2>3 DEF Quiet, Alive, ReplyFlow
<1>2. CASE pc[t] = "recv" /\ held'[t] = p /\ CurrentRequest(t)' = r
  <2>1. p \in Procs /\ ReplyFlow(p, r, got[t])
    BY <1>0, <1>2 DEF OInv, ReplyOnly, SInv, TInv, LocalsOK, HasWorker
  <2>2. SUFFICES ReplyFlow(p, r, got[t])'
    BY <1>2 DEF ReplyFlow
  <2>3. ASSUME UNCHANGED <<life, stdin, stdout, got>> PROVE ReplyFlow(p, r, got[t])'
    BY <1>2, <2>1, <2>3 DEF ReplyFlow
  <2>4. ASSUME NEW q \in Procs, ReadLine(q) PROVE ReplyFlow(p, r, got[t])'
    <3>1. UNCHANGED <<life, stdin>>
      BY <2>4 DEF ReadLine
    <3>2. CASE q # p
      <4>1. stdout'[p] = stdout[p] /\ got'[t] = got[t]
        BY <1>0, <2>1, <2>4, <3>2
        DEF ReadLine, Consume, SInv, ReadersWait, TInv, TypeOK, ProcessTypes, ReaderTypes
      <4> QED
        BY <2>1, <3>1, <4>1 DEF ReplyFlow
    <3>3. CASE q = p
      <4>1. holder[p] = t /\ got[t] = Nothing /\ t # Stray
        BY <1>0, <1>2, <2>1, <2>4, <3>3, SentinelAssumption
        DEF ReadLine, OInv, Unshared, Receiving, SInv, ReadersWait, TInv, TypeOK, ReaderTypes
      <4>2. \/ stdout[p] # <<>> /\ stdout'[p] = Tail(stdout[p]) /\ got'[t] = Head(stdout[p])
            \/ stdout[p] = <<>> /\ stdout'[p] = <<>> /\ got'[t] = EOF /\ life[p] # "serving"
        BY <2>1, <2>4, <3>3, <4>1
        DEF ReadLine, Consume, Alive, SInv, TInv, TypeOK, ProcessTypes, ReaderTypes
      <4>3. ~IsReply(Nothing, r)
        BY Kinds DEF IsReply
      <4>4. CASE stdout[p] # <<>>
        BY <2>1, <3>1, <4>1, <4>2, <4>3, <4>4 DEF ReplyFlow
      <4>5. CASE stdout[p] = <<>>
        <5>1. life[p] = "dead" /\ stdin[p] = <<>>
          BY <2>1, <2>4, <3>3, <4>1, <4>3, <4>5 DEF ReplyFlow, ReadLine, Alive
        <5> QED
          BY <3>1, <4>2, <4>5, <5>1 DEF ReplyFlow
      <4> QED
        BY <4>4, <4>5
    <3> QED
      BY <3>2, <3>3
  <2>5. ASSUME NEW q \in Procs, RuntimeServe(q) PROVE ReplyFlow(p, r, got[t])'
    <3>1. CASE q = p
      <4>1. stdin[p] = <<r>> /\ stdout[p] = <<>> /\ got[t] = Nothing /\ life[p] \in {"serving", "dead"}
        BY <2>1, <2>5, <3>1 DEF RuntimeServe, ReplyFlow
      <4>2. PICK k \in Outcomes :
              stdout' = [stdout EXCEPT ![p] = Append(@, [kind |-> k, req |-> Head(stdin[p])])]
        BY <2>5, <3>1 DEF RuntimeServe
      <4> DEFINE line == [kind |-> k, req |-> r]
      <4>3. Head(<<r>>) = r /\ Tail(<<r>>) = <<>> /\ IsReply(line, r)
        BY OpsAssumption DEF IsReply
      <4>4. stdin'[p] = <<>> /\ stdout'[p] = Append(<<>>, line) /\ UNCHANGED <<life, got>>
        BY <2>1, <2>5, <3>1, <4>1, <4>2, <4>3
        DEF RuntimeServe, readVars, SInv, TInv, TypeOK, ProcessTypes
      <4> HIDE DEF line
      <4>5. Append(<<>>, line) = <<line>> /\ Head(<<line>>) = line /\ Tail(<<line>>) = <<>> /\ <<line>> # <<>>
        OBVIOUS
      <4> QED
        BY <1>2, <4>1, <4>3, <4>4, <4>5 DEF ReplyFlow
    <3>2. CASE q # p
      BY <1>2, <2>1, <2>5, <3>2
      DEF RuntimeServe, readVars, ReplyFlow, SInv, TInv, TypeOK, ProcessTypes
    <3> QED
      BY <3>1, <3>2
  <2>6. ASSUME NEW q \in Procs,
               RuntimeLoaded(q) \/ RuntimeExit(q) \/ RuntimeLoadFails(q) \/ RuntimeCrash(q)
        PROVE  ReplyFlow(p, r, got[t])'
    BY <1>2, <2>1, <2>6
    DEF RuntimeLoaded, RuntimeExit, RuntimeLoadFails, RuntimeCrash, Dies, Alive, readVars,
        ReplyFlow, SInv, TInv, TypeOK, ProcessTypes
  <2>7. ASSUME NEW a \in Actors, TerminateKill(a) PROVE ReplyFlow(p, r, got[t])'
    BY <1>2, <2>1, <2>7
    DEF TerminateKill, Kill, Dies, Alive, readVars, ReplyFlow, SInv, TInv, TypeOK,
        LocalsOK, ProcessTypes
  <2> QED
    BY <1>2, <2>3, <2>4, <2>5, <2>6, <2>7
    DEF Next, vars, procVars, readVars, ThreadStep, EvictorStep, StopSteps, ProcessStep, Actors,
        Begin, RestartFailed, EnsureReuse, EnsureSpawn, EnsureSpawnFails, ReadyReceived,
        ReadyTimeout, PopFailedStart, SetRunning, CallSend, ReplyReceived, ReplyTimeout,
        HandleCrash, SetFailed, ShutdownList, StopPop, TerminateClose, Goto, Return,
        EvictionScan, EvictionEnds, Age, ReaderEnter, Reclaim, SInv, TInv, TypeOK, ThreadTypes
<1> QED
  BY <1>0, <1>1, <1>2, WaitsOn
  DEF EnsureSpawn, AwaitReady, Goto, Receiving, CurrentRequest, SInv, TInv, TypeOK, ThreadTypes, Actors

LEMMA InitOInv == ASSUME NEW t \in Threads PROVE Init => OInv(t)
  BY ReqOf
  DEF Init, OInv, OwnReply, MappedQuiet, HeldQuiet, Unshared, ReadyOnly, ReplyOnly, Receiving, Actors

LEMMA OInvInvariant ==
  ASSUME NEW t \in Threads, Threads = {t}, Noisy = {}
  PROVE  Spec => []OInv(t)
<1>1. SInv /\ OInv(t) /\ [Next]_vars => OInv(t)'
  BY OwnReplyStep, MappedQuietStep, HeldQuietStep, UnsharedStep, ReadyOnlyStep, ReplyOnlyStep
  DEF OInv
<1> QED
  BY <1>1, InitOInv, SInvInvariant, PTL DEF Spec

\* With one request thread beside the eviction thread, and plugins that print
\* nothing while they are imported, a call returns the reply to its own request:
\* neither a retry after a crash, nor the reader a timed-out _recv leaves behind,
\* nor an eviction in between lets it take the reply of an earlier call, although
\* _call_once compares no ids.
THEOREM OwnReplyAlone ==
  ASSUME NEW t \in Threads, Threads = {t}, Noisy = {}
  PROVE  Spec => []OwnReply
<1>1. OInv(t) => OwnReply
  BY DEF OInv
<1> QED
  BY <1>1, OInvInvariant, PTL
=============================================================================
