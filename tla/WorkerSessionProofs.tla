------------------------- MODULE WorkerSessionProofs -------------------------
(* Proofs about WorkerSession for every set of calls and every bound. *)
EXTENDS WorkerSession, SequenceTheorems, TLAPS

\* What markFatal leaves of the process state, whichever error it was given.
LEMMA MarkFatalType ==
    ASSUME TypeOK, NEW err, MarkFatal(err)
    PROVE  /\ dead' \in BOOLEAN
           /\ proc' \in {"none", "running", "killed", "exited"}
           /\ wait' \in {"no", "waiting", "reaped"}
<1>1. dead' \in BOOLEAN
  BY DEF MarkFatal, KillAndMark, TypeOK, procVars
<1>2. CASE dead \/ ~IsFatal(err)
  BY <1>1, <1>2 DEF MarkFatal, KillAndMark, TypeOK, procVars
<1>3. CASE ~dead /\ IsFatal(err)
  BY <1>1, <1>3 DEF MarkFatal, KillAndMark, TypeOK
<1> QED
  BY <1>2, <1>3

\* Leaving a call keeps the call variables in their types.
LEMMA ReturnType ==
    ASSUME TypeOK, NEW c \in Calls,
           NEW out \in {"none", "answered", "skipped", "refused", "failed"},
           NEW from \in Calls \cup {NoCall}, Return(c, out, from)
    PROVE  /\ phase' \in {"new", "ping", "up", "stopLock", "stopWrite", "stopClose",
                           "stopWait", "stopReap", "stopped"}
           /\ pc' \in [Calls -> {"idle", "lock", "write", "read", "done"}]
           /\ mu' \in Calls \cup {NoCall}
           /\ outcome' \in [Calls -> {"none", "answered", "skipped", "refused", "failed"}]
           /\ got' \in [Calls -> Calls \cup {NoCall}]
  BY CallsAssumption DEF Return, TypeOK

\* Every action keeps the variables in their types; in particular what the
\* worker prints stays a line and what it works on stays a call.
LEMMA TypeStep == TypeOK /\ [Next]_vars => TypeOK'
<1> SUFFICES ASSUME TypeOK, [Next]_vars PROVE TypeOK'
  OBVIOUS
<1> USE CallsAssumption, BoundsAssumption
<1>1. CASE Start
  BY <1>1 DEF Start, TypeOK, readVars, pipes, env, workerVars
<1>2. CASE CancelCtx
  <2>1. ctxDone' \in BOOLEAN
    BY <1>2 DEF CancelCtx
  <2> QED
    BY <2>1, <1>2 DEF CancelCtx, TypeOK, callVars, readVars, procVars, pipes, env, workerVars
<1>2a. CASE CtxKill
  BY <1>2a DEF CtxKill, TypeOK, callVars, readVars, procVars, pipes, env, workerVars
<1>3. ASSUME NEW c \in Calls, Call(c) PROVE TypeOK'
  BY <1>3 DEF Call, TypeOK, readVars, procVars, pipes, env, workerVars
<1>4. ASSUME NEW c \in Calls, Lock(c) PROVE TypeOK'
  <2>1. CASE Return(c, "refused", NoCall)
    <3> HIDE CallsAssumption, BoundsAssumption
    <3>1. /\ phase' \in {"new", "ping", "up", "stopLock", "stopWrite", "stopClose",
                         "stopWait", "stopReap", "stopped"}
          /\ pc' \in [Calls -> {"idle", "lock", "write", "read", "done"}]
          /\ mu' \in Calls \cup {NoCall}
          /\ outcome' \in [Calls -> {"none", "answered", "skipped", "refused", "failed"}]
          /\ got' \in [Calls -> Calls \cup {NoCall}]
      BY <2>1, ReturnType
    <3> QED
      BY <1>4, <3>1 DEF Lock, TypeOK, readVars, procVars, pipes, env, workerVars
  <2>2. CASE ~Return(c, "refused", NoCall)
    BY <1>4, <2>2 DEF Lock, TypeOK, readVars, procVars, pipes, env, workerVars
  <2> QED
    BY <2>1, <2>2
<1>5. ASSUME NEW c \in Calls, Write(c) PROVE TypeOK'
  BY <1>5 DEF Write, TypeOK, procVars, env, workerVars
<1>6. ASSUME NEW c \in Calls, WriteFails(c) PROVE TypeOK'
  BY <1>6 DEF WriteFails, Return, TypeOK, readVars, procVars, pipes, env, workerVars
<1>7. ASSUME NEW c \in Calls, ReadLine(c) PROVE TypeOK'
  <2>1. scanErr' \in BOOLEAN
    BY <1>7, Zenon DEF ReadLine, TypeOK
  <2>2. NoResponse("big") \in Line /\ NoResponse("eof") \in Line
    BY DEF NoResponse, Line, Statuses
  <2>3. stdout # <<>> => Head(stdout) \in Line /\ Tail(stdout) \in Seq(Line)
    BY DEF TypeOK
  <2>4. PICK line \in Line : chan' = [chan EXCEPT ![c] = line]
    BY <1>7, <2>2, <2>3 DEF ReadLine
  <2>5. stdout' \in Seq(Line)
    BY <1>7, <2>3 DEF ReadLine, TypeOK
  <2> QED
    BY <1>7, <2>1, <2>4, <2>5 DEF ReadLine, TypeOK, callVars, procVars, env, workerVars
<1>8. ASSUME NEW c \in Calls, Receive(c) PROVE TypeOK'
  <2>1. PICK err : MarkFatal(err)
    BY <1>8 DEF Receive
  <2>2. PICK out \in {"none", "answered", "skipped", "refused", "failed"},
             from \in Calls \cup {NoCall} : Return(c, out, from)
    <3>1. chan[c].req \in Calls \cup {NoCall}
      BY DEF TypeOK, Line
    <3>2. Accepted(c, chan[c].status) \in {"answered", "skipped", "failed"}
      BY DEF Accepted
    <3> QED
      BY <1>8, <3>1, <3>2 DEF Receive
  <2> QED
    BY <1>8, <2>1, <2>2, MarkFatalType, ReturnType
    DEF Receive, TypeOK, readVars, pipes, env, workerVars
<1>9. ASSUME NEW c \in Calls, Timeout(c) \/ Cancelled(c) PROVE TypeOK'
  <2>1. PICK err : MarkFatal(err)
    BY <1>9 DEF Timeout, Cancelled
  <2>2. Return(c, "failed", NoCall)
    BY <1>9 DEF Timeout, Cancelled
  <2> QED
    BY <1>9, <2>1, <2>2, MarkFatalType, ReturnType
    DEF Timeout, Cancelled, TypeOK, readVars, pipes, env, workerVars
<1>10. CASE DrainScan \/ DrainAppend
  BY <1>10 DEF DrainScan, DrainAppend, TypeOK, callVars, readVars, procVars, pipes, workerVars
<1>11. CASE StopBegin \/ StopClose \/ StopGrace \/ StopReturn
  BY <1>11 DEF StopBegin, StopClose, StopGrace, StopReturn,
               TypeOK, callVars, readVars, procVars, pipes, env, workerVars
<1>11b. CASE StopWrite
  <2>1. stdin' \in Seq(Calls \cup {Exit})
    <3>1. Append(stdin, Exit) \in Seq(Calls \cup {Exit})
      BY DEF TypeOK
    <3> QED
      BY <1>11b, <3>1 DEF StopWrite, TypeOK
  <2> QED
    BY <1>11b, <2>1 DEF StopWrite, TypeOK, callVars, readVars, procVars, env, workerVars
<1>11a. CASE StopLock
  <2>1. dead' \in BOOLEAN
    BY <1>11a DEF StopLock
  <2> QED
    BY <2>1, <1>11a DEF StopLock, TypeOK, callVars, readVars, pipes, env, workerVars
<1>12. CASE Reap
  BY <1>12 DEF Reap, TypeOK, callVars, readVars, pipes, env, workerVars
<1>13. CASE WorkerTakes
  BY <1>13 DEF WorkerTakes, TypeOK, callVars, readVars, env
<1>14. ASSUME NEW st \in Statuses, WorkerAnswers(st) PROVE TypeOK'
  BY <1>14 DEF WorkerAnswers, Response, Line, TypeOK, callVars, readVars, procVars, env
<1>15. CASE WorkerStrays
  BY <1>15 DEF WorkerStrays, Response, NoResponse, Line, Statuses, TypeOK, callVars,
               readVars, procVars, env
<1>16. CASE WorkerLogs
  BY <1>16 DEF WorkerLogs, TypeOK, callVars, readVars, procVars, pipes, env
<1>16a. CASE WorkerLogged
  BY <1>16a DEF WorkerLogged, TypeOK, callVars, readVars, procVars, pipes, env
<1>17. CASE WorkerExits
  BY <1>17 DEF WorkerExits, TypeOK, callVars, readVars, pipes, env, workerVars
<1>18. CASE UNCHANGED vars
  BY <1>18 DEF vars, TypeOK, callVars, readVars, procVars, pipes, env, workerVars
<1> QED
  BY <1>1, <1>2, <1>2a, <1>3, <1>4, <1>5, <1>6, <1>7, <1>8, <1>9, <1>10, <1>11, <1>11a, <1>11b, <1>12, <1>13,
     <1>14, <1>15, <1>16, <1>16a, <1>17, <1>18 DEF Next, Terminated
-----------------------------------------------------------------------------
\* killAndMark after a timeout, a cancellation or a mismatch leaves the worker
\* dead, and no error revives it.
LEMMA MarkFatalDead ==
    ASSUME TypeOK, NEW err, MarkFatal(err)
    PROVE  /\ dead => dead'
           /\ IsFatal(err) => dead'
           /\ ~IsFatal(err) => dead' = dead
  BY Zenon DEF MarkFatal, KillAndMark, procVars

\* At most one call is inside a round trip.
LEMMA OneOpen ==
    ASSUME SessionInv, NEW c \in Calls, NEW d \in Calls, Open(c), Open(d)
    PROVE  c = d
  BY CallsAssumption DEF SessionInv

\* A call that returns, with the worker dead or with its reader goroutine
\* finished, leaves the session invariant intact.
LEMMA ReturnStep ==
    ASSUME TypeOK, SessionInv, NEW c \in Calls, Open(c), NEW out, NEW from,
           Return(c, out, from), parked' = parked, chan' = chan, dead => dead', c \in parked => dead',
           TypeOK'
    PROVE  SessionInv'
<1>1. \A d \in Calls : pc'[d] = IF d = c THEN "done" ELSE pc[d]
  BY DEF Return, TypeOK
<1>2. \A d \in Calls : d # c => ~Open(d)
  BY OneOpen
<1>3. \A d \in Calls : ~Open(d)'
  BY <1>1, <1>2 DEF Open
<1>4. mu' = NoCall
  BY <1>2, CallsAssumption DEF Return, SessionInv, TypeOK
<1>5. phase' \notin {"new", "ping"}
  BY DEF Return, SessionInv, Open, TypeOK
<1>6. \A d \in parked' : pc'[d] = "read" \/ (dead' /\ pc'[d] = "done")
  BY <1>1 DEF SessionInv, TypeOK
<1>7. \A d \in Calls : d \in parked' \/ pc'[d] \in {"idle", "lock", "write"}
                       => chan'[d].kind = "none"
  BY <1>1 DEF SessionInv
<1>8. mu' # Ping /\ pc'[Ping] # "lock" /\ \A x, y \in parked' : x = y
  BY <1>1, <1>4, CallsAssumption DEF SessionInv
<1> QED
  BY <1>3, <1>4, <1>5, <1>6, <1>7, <1>8, CallsAssumption DEF SessionInv

\* The session invariant survives every step.
LEMMA SessionStep == TypeOK /\ TypeOK' /\ SessionInv /\ [Next]_vars => SessionInv'
<1> SUFFICES ASSUME TypeOK, TypeOK', SessionInv, [Next]_vars PROVE SessionInv'
  OBVIOUS
<1> USE CallsAssumption
<1>1. CASE Start
  <2>1. \A d \in Calls : pc'[d] = IF d = Ping THEN "write" ELSE "idle"
    BY <1>1 DEF Start, SessionInv, TypeOK
  <2>2. ~dead
    BY <1>1 DEF Start, SessionInv
  <2> QED
    BY <1>1, <2>1, <2>2 DEF Start, SessionInv, Open, readVars
<1>2. ASSUME NEW c \in Calls, Call(c) PROVE SessionInv'
  BY <1>2 DEF Call, SessionInv, Open, TypeOK, readVars, procVars
<1>3. ASSUME NEW c \in Calls, Lock(c) PROVE SessionInv'
  <2>1. CASE dead
    BY <1>3, <2>1 DEF Lock, Return, SessionInv, Open, TypeOK, readVars, procVars
  <2>2. CASE ~dead
    <3>1. \A d \in Calls : ~Open(d) \/ (d = Ping /\ phase = "ping")
      BY <1>3 DEF Lock, SessionInv
    <3>2. phase # "ping" /\ c # Ping
      BY <1>3 DEF Lock, SessionInv, Open
    <3> QED
      BY <1>3, <2>2, <3>1, <3>2 DEF Lock, Return, SessionInv, Open, TypeOK, readVars, procVars
  <2> QED
    BY <2>1, <2>2
<1>4. ASSUME NEW c \in Calls, Write(c) PROVE SessionInv'
  <2>1. parked = {}
    <3> SUFFICES ASSUME NEW d \in parked PROVE FALSE
      OBVIOUS
    <3>1. Open(c) /\ ~dead /\ pc[c] = "write"
      BY <1>4 DEF Write, Open, SessionInv
    <3>2. d \in Calls /\ pc[d] = "read" /\ Open(d)
      BY <3>1 DEF SessionInv, Open, TypeOK
    <3> QED
      BY <3>1, <3>2, OneOpen
  <2> QED
    BY <1>4, <2>1 DEF Write, SessionInv, Open, TypeOK, procVars
<1>5. ASSUME NEW c \in Calls, WriteFails(c) PROVE SessionInv'
  <2>1. c \notin parked
    BY <1>5 DEF WriteFails, SessionInv, Open
  <2> QED
    BY <1>5, <2>1, ReturnStep DEF WriteFails, Open, readVars, procVars
<1>6. ASSUME NEW c \in Calls, ReadLine(c) PROVE SessionInv'
  <2>1. pc[c] \in {"read", "done"} /\ c \in Calls
    BY <1>6 DEF ReadLine, SessionInv
  <2>2. \A d \in Calls : d # c => chan'[d] = chan[d]
    BY <1>6 DEF ReadLine, TypeOK
  <2> QED
    BY <1>6, <2>1, <2>2 DEF ReadLine, SessionInv, Open, callVars, procVars
<1>7. ASSUME NEW c \in Calls, Receive(c) PROVE SessionInv'
  <2>1. PICK err, out, from : MarkFatal(err) /\ Return(c, out, from)
    BY <1>7 DEF Receive
  <2>2. c \notin parked
    BY <1>7 DEF Receive, SessionInv
  <2> QED
    BY <1>7, <2>1, <2>2, MarkFatalDead, ReturnStep DEF Receive, Open, readVars
<1>8. ASSUME NEW c \in Calls, Timeout(c) \/ Cancelled(c) PROVE SessionInv'
  <2>1. PICK err : IsFatal(err) /\ MarkFatal(err)
    BY <1>8 DEF Timeout, Cancelled, IsFatal
  <2> QED
    BY <1>8, <2>1, MarkFatalDead, ReturnStep DEF Timeout, Cancelled, Open, readVars
<1>9. CASE UNCHANGED <<phase, pc, mu, dead, parked, chan>>
  BY <1>9 DEF SessionInv, Open
<1>10. CASE StopBegin \/ StopLock \/ StopWrite \/ StopClose \/ StopGrace \/ StopReturn
  BY <1>10 DEF StopBegin, StopLock, StopWrite, StopClose, StopGrace, StopReturn,
               SessionInv, Open, callVars, readVars, procVars
<1>11. ASSUME Next PROVE \/ Start \/ StopBegin \/ StopLock \/ StopWrite \/ StopClose
                         \/ StopGrace \/ StopReturn
                         \/ UNCHANGED <<phase, pc, mu, dead, parked, chan>>
                         \/ \E c \in Calls :
                               \/ Call(c) \/ Lock(c) \/ Write(c) \/ WriteFails(c)
                               \/ ReadLine(c) \/ Receive(c) \/ Timeout(c) \/ Cancelled(c)
  BY <1>11 DEF Next, CancelCtx, CtxKill, DrainScan, DrainAppend, Reap, WorkerTakes,
     WorkerAnswers, WorkerStrays, WorkerLogs, WorkerLogged, WorkerExits, Terminated, vars,
     callVars, readVars, procVars
<1> QED
  BY <1>1, <1>2, <1>3, <1>4, <1>5, <1>6, <1>7, <1>8, <1>9, <1>10, <1>11
  DEF vars, callVars, readVars, procVars
-----------------------------------------------------------------------------
\* A response that passes both comparisons of readWithTimeout is the answer to
\* the request, because no two requests of a session share op and id.
LEMMA SendAccepts ==
    ASSUME NEW c \in Calls, NEW line \in Line, IsSend(c), ReadError(c, line) = "ok"
    PROVE  line.req = c
<1>1. line.kind = "resp"
  BY DEF ReadError, Line
<1>2. line.req \in Calls
  BY <1>1 DEF Line
<1>3. IdOf[line.req] = IdOf[c] /\ OpOf[line.req] = OpOf[c]
  BY <1>1 DEF ReadError
<1> QED
  BY <1>2, <1>3, KeysAssumption

\* Only Receive hands a response to a call, and readWithTimeout has compared it;
\* every other step leaves the responses handed out alone or hands out none.
LEMMA CorrelationStep ==
    TypeOK /\ SendCorrelated /\ [Next]_vars => SendCorrelated'
<1> SUFFICES ASSUME TypeOK, SendCorrelated, [Next]_vars PROVE SendCorrelated'
  OBVIOUS
<1>1. ASSUME NEW c \in Calls, Receive(c) PROVE SendCorrelated'
  <2>1. CASE ReadError(c, chan[c]) = "ok"
    <3>1. got' = [got EXCEPT ![c] = chan[c].req]
      BY <1>1, <2>1 DEF Receive, Return
    <3>2. IsSend(c) => chan[c].req = c
      BY <2>1, SendAccepts DEF TypeOK
    <3> QED
      BY <3>1, <3>2 DEF SendCorrelated, TypeOK
  <2>2. CASE ReadError(c, chan[c]) # "ok"
    <3>1. got' = [got EXCEPT ![c] = NoCall]
      BY <1>1, <2>2 DEF Receive, Return
    <3> QED
      BY <3>1 DEF SendCorrelated, TypeOK
  <2> QED
    BY <2>1, <2>2
<1>2. ASSUME NEW c \in Calls, got' = [got EXCEPT ![c] = NoCall] PROVE SendCorrelated'
  BY <1>2 DEF SendCorrelated, TypeOK
<1>3. CASE UNCHANGED got
  BY <1>3 DEF SendCorrelated
<1>4. ASSUME Next PROVE \/ UNCHANGED got
                        \/ \E c \in Calls : got' = [got EXCEPT ![c] = NoCall] \/ Receive(c)
  BY <1>4 DEF Next, Start, CancelCtx, CtxKill, Call, Lock, Write, WriteFails, ReadLine,
     Timeout, Cancelled, Return, DrainScan, DrainAppend, StopBegin, StopLock, StopWrite,
     StopClose, StopGrace, StopReturn, Reap, WorkerTakes, WorkerAnswers, WorkerStrays,
     WorkerLogs, WorkerLogged, WorkerExits, Terminated, vars, callVars
<1> QED
  BY <1>1, <1>2, <1>3, <1>4 DEF vars, callVars

-----------------------------------------------------------------------------
\* The initial state satisfies the three invariants.
LEMMA InitInv == Init => TypeOK /\ SessionInv /\ SendCorrelated
<1> SUFFICES ASSUME Init PROVE TypeOK /\ SessionInv /\ SendCorrelated
  OBVIOUS
<1> USE CallsAssumption
<1>1. dead \in BOOLEAN /\ ctxDone \in BOOLEAN /\ scanErr \in BOOLEAN
  BY DEF Init
<1>2. NoResponse("none") \in Line
  BY DEF NoResponse, Line, Statuses
<1>3. TypeOK
  BY <1>1, <1>2 DEF Init, TypeOK
<1>4. SessionInv
  BY DEF Init, SessionInv, Open, NoResponse
<1>5. SendCorrelated
  BY DEF Init, SendCorrelated
<1> QED
  BY <1>3, <1>4, <1>5

\* Every variable of a session keeps its type, whatever the worker prints.
THEOREM TypeCorrect == Spec => []TypeOK
<1> QED
  BY InitInv, TypeStep, PTL DEF Spec

\* Whoever is inside a round trip holds the mutex, and a dead worker has nobody
\* inside one and at most the reader goroutine it was abandoned with.
THEOREM SessionCorrect == Spec => []SessionInv
<1> QED
  BY InitInv, TypeStep, SessionStep, PTL DEF Spec

\* No two reader goroutines are ever inside the Scanner of a worker.
THEOREM OneReader == Spec => []AtMostOneReader
<1>1. SessionInv => AtMostOneReader
  BY DEF SessionInv, AtMostOneReader
<1> QED
  BY <1>1, SessionCorrect, PTL

\* A response that Send hands to its caller answers the request of that caller.
THEOREM Correlation == Spec => []SendCorrelated
<1> QED
  BY InitInv, TypeStep, CorrelationStep, PTL DEF Spec

-----------------------------------------------------------------------------
\* A response Bind may believe: its request is still waited for, and if that is a
\* bind, the worker operates on what the status says.
Fresh(line) ==
    /\ line.kind = "resp"
    /\ pc[line.req] = "read"
    /\ OpOf[line.req] = "bind" =>
          /\ line.status # "VERSION"
          /\ line.status = "OK" => bound = line.req
          /\ line.status = "SKIPPED" => bound = NoCall

\* A request that is still to be answered, on stdin or in the worker.
InHand == stdin # <<>> \/ wk # "idle"

\* The call inside the round trip is in one place only: on stdin, with the
\* worker, on stdout, or in the channel of its reader.
OnePlace ==
    /\ ~scanErr
    /\ Len(stdout) <= 1
    /\ \A n \in DOMAIN stdout : Fresh(stdout[n]) /\ chan[stdout[n].req].kind = "none"
    /\ \A c \in Calls : pc[c] = "read" /\ chan[c].kind # "none" =>
          /\ stdout = <<>>
          /\ \/ chan[c].kind = "eof" /\ proc = "exited"
             \/ chan[c].req = c /\ Fresh(chan[c])
    /\ proc # "exited" =>
          /\ Len(stdin) <= 1
          /\ \A n \in DOMAIN stdin : stdin[n] \in Calls /\ pc[stdin[n]] = "read"
          /\ wk # "idle" => stdin = <<>> /\ pc[wreq] = "read"
          /\ InHand => stdout = <<>> /\ \A c \in Calls : pc[c] = "read" => chan[c].kind = "none"

\* A bind response carries no id, so that it answers the bind that waits for it is
\* a matter of there being no other: true while the worker has printed nothing but
\* answers and no request was given up.
CleanInv ==
    /\ phase = "new" => proc = "none"
    /\ phase = "stopWrite" => dead
    /\ \A c \in Calls : pc[c] # "done" => outcome[c] = "none"
    /\ strays = 0 /\ ~dead => OnePlace

\* A stray line and the end of a worker are never taken back.
LEMMA NeverUndone ==
    ASSUME TypeOK, [Next]_vars
    PROVE  (dead => dead') /\ (strays' = 0 => strays = 0)
<1>1. CASE UNCHANGED <<dead, strays>> \/ dead'
  <2>1. dead => dead'
    BY <1>1
  <2>2. UNCHANGED strays \/ WorkerStrays
    BY DEF Next, Start, CancelCtx, CtxKill, Call, Lock, Write, WriteFails, ReadLine, Receive,
     Timeout, Cancelled, DrainScan, DrainAppend, StopBegin, StopLock, StopWrite,
     StopClose, StopGrace, StopReturn, Reap, WorkerTakes, WorkerAnswers,
     WorkerLogs, WorkerLogged, WorkerExits, Terminated, vars, workerVars
  <2>3. WorkerStrays => strays' # 0
    BY DEF WorkerStrays, TypeOK
  <2> QED
    BY <2>1, <2>2, <2>3
<1>2. CASE WorkerStrays
  BY <1>2 DEF WorkerStrays, TypeOK, procVars
<1>3. ASSUME NEW c \in Calls, Receive(c) \/ Timeout(c) \/ Cancelled(c)
      PROVE  UNCHANGED <<dead, strays>> \/ dead'
  <2>1. PICK err : MarkFatal(err)
    BY <1>3 DEF Receive, Timeout, Cancelled
  <2> QED
    BY <1>3, <2>1, Zenon DEF Receive, Timeout, Cancelled, MarkFatal, KillAndMark, workerVars, procVars
<1>4. \/ UNCHANGED <<dead, strays>> \/ dead' \/ WorkerStrays
      \/ \E c \in Calls : Receive(c) \/ Timeout(c) \/ Cancelled(c)
  BY DEF Next, Start, CancelCtx, CtxKill, Call, Lock, Write, WriteFails, ReadLine,
     DrainScan, DrainAppend, StopBegin, StopLock, StopWrite,
     StopClose, StopGrace, StopReturn, Reap, WorkerTakes, WorkerAnswers,
     WorkerLogs, WorkerLogged, WorkerExits, Terminated, vars, procVars, workerVars
<1> QED
  BY <1>1, <1>2, <1>3, <1>4

\* A step that neither moves a line nor begins or ends a wait for one.
LEMMA PlaceFrame ==
    ASSUME TypeOK, OnePlace, UNCHANGED <<scanErr, stdout, chan, bound, stdin, wreq>>,
           wk' = "idle" <=> wk = "idle", proc = "exited" => proc' = "exited",
           \A c \in Calls : pc'[c] = "read" <=> pc[c] = "read"
    PROVE  OnePlace'
<1>1. \A line : line.req \in Calls /\ Fresh(line) =>
         /\ line.kind = "resp"
         /\ pc'[line.req] = "read"
         /\ OpOf[line.req] = "bind" =>
               /\ line.status # "VERSION"
               /\ line.status = "OK" => bound' = line.req
               /\ line.status = "SKIPPED" => bound' = NoCall
  BY DEF Fresh
<1>2. \A n \in DOMAIN stdout : stdout[n].kind = "resp" => stdout[n].req \in Calls
  BY DEF TypeOK, Line
<1> QED
  BY <1>1, <1>2 DEF OnePlace, Fresh, InHand, TypeOK

\* Nobody waits: neither does anything lie about that somebody once waited for.
LEMMA NobodyWaits ==
    ASSUME TypeOK, OnePlace, \A c \in Calls : pc[c] # "read"
    PROVE  /\ stdout = <<>>
           /\ proc # "exited" => ~InHand
<1>1. Len(stdout) \in Nat /\ Len(stdin) \in Nat
  BY DEF TypeOK
<1>2. stdout = <<>>
  <2> SUFFICES ASSUME stdout # <<>> PROVE FALSE
    OBVIOUS
  <2>1. 1 \in DOMAIN stdout /\ stdout[1] \in Line
    BY DEF TypeOK
  <2>2. stdout[1].req \in Calls /\ pc[stdout[1].req] = "read"
    BY <2>1 DEF OnePlace, Fresh, Line
  <2> QED
    BY <2>2
<1>3. ASSUME proc # "exited", stdin # <<>> PROVE FALSE
  <2>1. 1 \in DOMAIN stdin
    BY <1>3 DEF TypeOK
  <2> QED
    BY <1>3, <2>1 DEF OnePlace
<1>4. ASSUME proc # "exited", wk # "idle" PROVE FALSE
  BY <1>4 DEF OnePlace, TypeOK
<1> QED
  BY <1>2, <1>3, <1>4 DEF InHand

\* A sequence that is neither empty nor longer than one has one element.
LEMMA OneElement ==
    ASSUME NEW S, NEW s \in Seq(S), s # <<>>, Len(s) <= 1
    PROVE  /\ 1 \in DOMAIN s /\ s[1] \in S /\ Len(s) = 1
           /\ Head(s) = s[1] /\ Tail(s) = <<>>
<1>1. Len(s) \in Nat /\ DOMAIN s = 1..Len(s) /\ s = [n \in 1..Len(s) |-> s[n]]
  OBVIOUS
<1>2. Len(s) # 0
  BY <1>1, EmptySeq
<1>3. Len(s) = 1
  BY <1>1, <1>2
<1>4. s[1] \in S /\ Head(s) = s[1]
  BY <1>3
<1>5. Tail(s) \in Seq(S) /\ Len(Tail(s)) = 0
  BY <1>3, HeadTailProperties
<1>6. Tail(s) = <<>>
  BY <1>5, EmptySeq
<1> QED
  BY <1>1, <1>3, <1>4, <1>6

\* A request goes out when nothing else is on its way.
LEMMA PlaceWrite ==
    ASSUME TypeOK, TypeOK', SessionInv, OnePlace, NEW c \in Calls, Write(c)
    PROVE  OnePlace'
<1> USE CallsAssumption
<1>1. \A d \in Calls : pc[d] # "read"
  <2> SUFFICES ASSUME NEW d \in Calls, pc[d] = "read" PROVE FALSE
    OBVIOUS
  <2>1. c = d
    BY OneOpen DEF Write, Open
  <2> QED
    BY <2>1 DEF Write
<1>2. stdout = <<>> /\ proc # "exited" /\ stdin = <<>> /\ wk = "idle"
  BY <1>1, NobodyWaits DEF Write, Alive, InHand
<1>3. chan[c].kind = "none"
  BY DEF Write, SessionInv
<1>4. \A d \in Calls : pc'[d] = "read" <=> d = c
  BY <1>1 DEF Write, TypeOK
<1>5. UNCHANGED <<scanErr, stdout, chan, proc, wk>> /\ stdin' = <<c>>
  BY <1>2 DEF Write, procVars, workerVars
<1>6. ~scanErr
  BY DEF OnePlace
<1>7. Len(stdin') <= 1 /\ \A n \in DOMAIN stdin' : stdin'[n] = c
  BY <1>5
<1> QED
  BY <1>2, <1>3, <1>4, <1>5, <1>6, <1>7 DEF OnePlace

\* The reader takes what is there for the one call that waits.
LEMMA PlaceRead ==
    ASSUME TypeOK, TypeOK', SessionInv, OnePlace, ~dead, NEW c \in Calls, ReadLine(c)
    PROVE  OnePlace'
<1>1. pc[c] = "read" /\ c \in parked /\ chan[c].kind = "none"
  BY DEF ReadLine, SessionInv
<1>2. \A d \in Calls : pc[d] = "read" => d = c
  BY <1>1, OneOpen DEF Open
<1>3. UNCHANGED <<pc, bound, stdin, wk, wreq, proc>> /\ ~scanErr
  BY DEF ReadLine, callVars, procVars, workerVars, OnePlace
<1>4. CASE stdout # <<>> /\ chan' = [chan EXCEPT ![c] = Head(stdout)] /\ stdout' = Tail(stdout)
           /\ scanErr' = (Head(stdout).kind = "big")
  <2>1. 1 \in DOMAIN stdout /\ Head(stdout) = stdout[1] /\ stdout[1] \in Line
        /\ Tail(stdout) = <<>>
    BY <1>4, OneElement DEF TypeOK, OnePlace
  <2>2. stdout' = <<>>
    BY <1>4, <2>1
  <2>3. PICK line \in Line : line = stdout[1]
    BY <2>1
  <2>4. Fresh(line) /\ line.req = c /\ line.req \in Calls
    BY <1>2, <2>1, <2>3 DEF OnePlace, Fresh, Line
  <2>5. chan'[c] = line /\ ~scanErr'
    BY <1>4, <2>1, <2>3, <2>4 DEF TypeOK, Fresh
  <2>6. proc # "exited" => ~InHand
    BY <1>4 DEF OnePlace
  <2>7. \A d \in Calls : pc'[d] = "read" => d = c
    BY <1>2, <1>3
  <2>8. \A d \in Calls : pc'[d] = "read" =>
          chan'[d].req = d /\ chan'[d].kind = "resp" /\ pc'[chan'[d].req] = "read"
          /\ (OpOf[chan'[d].req] = "bind" =>
          /\ chan'[d].status # "VERSION"
          /\ chan'[d].status = "OK" => bound' = chan'[d].req
          /\ chan'[d].status = "SKIPPED" => bound' = NoCall)
    BY <1>3, <2>4, <2>5, <2>7 DEF Fresh
  <2>9. proc' # "exited" => ~InHand'
    BY <1>3, <2>6 DEF InHand
  <2> QED
    BY <1>3, <2>2, <2>5, <2>8, <2>9 DEF OnePlace, Fresh, InHand
<1>5. CASE stdout = <<>> /\ proc = "exited" /\ chan' = [chan EXCEPT ![c] = NoResponse("eof")]
           /\ UNCHANGED <<scanErr, stdout>>
  <2>1. chan'[c].kind = "eof"
    BY <1>5 DEF TypeOK, NoResponse
  <2> QED
    BY <1>2, <1>3, <1>5, <2>1 DEF OnePlace
<1> QED
  BY <1>3, <1>4, <1>5 DEF ReadLine

\* The call takes what its reader read, and nothing is left of it.
LEMMA PlaceReceive ==
    ASSUME TypeOK, TypeOK', SessionInv, OnePlace, NEW c \in Calls, Receive(c), ~dead'
    PROVE  OnePlace'
<1>1. PICK err, out, from : MarkFatal(err) /\ Return(c, out, from)
  BY DEF Receive
<1>2. pc[c] = "read" /\ chan[c].kind # "none"
  BY DEF Receive
<1>3. UNCHANGED <<dead, proc, wait>>
  <2>1. dead \in BOOLEAN /\ dead' = FALSE
    BY DEF TypeOK
  <2> QED
    BY <1>1, <2>1 DEF MarkFatal, KillAndMark, procVars
<1>4. \A d \in Calls : pc'[d] # "read"
  BY <1>1, <1>2, OneOpen DEF Return, Open, TypeOK
<1>5. stdout = <<>> /\ ~scanErr /\ (proc # "exited" => ~InHand)
  BY <1>2 DEF OnePlace
<1>6. UNCHANGED <<stdout, scanErr, stdin, wk>>
  BY DEF Receive, readVars, pipes, workerVars
<1>7. proc' # "exited" => ~InHand'
  BY <1>3, <1>5, <1>6 DEF InHand
<1> QED
  BY <1>4, <1>5, <1>6, <1>7 DEF OnePlace, InHand

\* The worker takes the request off stdin.
LEMMA PlaceTakes ==
    ASSUME TypeOK, TypeOK', OnePlace, WorkerTakes
    PROVE  OnePlace'
<1> USE CallsAssumption
<1>1. stdin # <<>> /\ proc # "exited" /\ wk = "idle" /\ InHand
  BY DEF WorkerTakes, Alive, InHand
<1>2. 1 \in DOMAIN stdin /\ Head(stdin) = stdin[1] /\ Tail(stdin) = <<>>
  BY <1>1, OneElement DEF TypeOK, OnePlace
<1>3. stdin[1] \in Calls /\ pc[stdin[1]] = "read"
  BY <1>1, <1>2 DEF OnePlace
<1>4. stdin' = <<>> /\ wk' = "busy" /\ wreq' = stdin[1] /\ UNCHANGED proc
  BY <1>2, <1>3 DEF WorkerTakes, TypeOK
<1>5. stdout = <<>> /\ ~scanErr /\ \A c \in Calls : pc[c] = "read" => chan[c].kind = "none"
  BY <1>1 DEF OnePlace
<1>6. UNCHANGED <<stdout, scanErr, pc, chan>>
  BY DEF WorkerTakes, callVars, readVars
<1>7. pc'[wreq'] = "read"
  BY <1>3, <1>4, <1>6
<1> QED
  BY <1>1, <1>4, <1>5, <1>6, <1>7 DEF OnePlace

\* The answer is printed when it is the only line.
LEMMA PlaceAnswers ==
    ASSUME TypeOK, TypeOK', SessionInv, OnePlace, NEW st \in Statuses, WorkerAnswers(st)
    PROVE  OnePlace'
<1> USE CallsAssumption
<1>1. proc # "exited" /\ wk = "busy" /\ InHand
  BY DEF WorkerAnswers, Alive, InHand
<1>2. stdin = <<>> /\ pc[wreq] = "read" /\ stdout = <<>> /\ wreq \in Calls /\ ~scanErr
      /\ \A c \in Calls : pc[c] = "read" => chan[c].kind = "none"
  BY <1>1 DEF OnePlace, TypeOK
<1>3. stdout' = <<Response(wreq, st)>> /\ wk' = "idle"
      /\ UNCHANGED <<stdin, scanErr, pc, chan, proc>>
  BY <1>2 DEF WorkerAnswers, callVars, readVars, procVars
<1>4. OpOf[wreq] = "bind" => st # "VERSION" /\ (st = "OK" => bound' = wreq)
                                            /\ (st = "SKIPPED" => bound' = NoCall)
  BY DEF WorkerAnswers
<1>5. PICK line : line = Response(wreq, st)
  OBVIOUS
<1>6. line.kind = "resp" /\ line.req = wreq /\ line.status = st
  BY <1>5 DEF Response
<1>7. Len(stdout') = 1 /\ \A n \in DOMAIN stdout' : stdout'[n] = line
  BY <1>3, <1>5
<1>8. ~InHand'
  BY <1>2, <1>3 DEF InHand
<1>9. \A d \in Calls : pc'[d] = "read" => chan'[d].kind = "none"
  BY <1>2, <1>3
<1>10. pc'[line.req] = "read" /\ chan'[line.req].kind = "none"
  BY <1>2, <1>3, <1>6
<1> QED
  BY <1>2, <1>3, <1>4, <1>6, <1>7, <1>8, <1>9, <1>10 DEF OnePlace, Fresh, InHand

\* As long as nothing stray was printed and the worker is in use, each step moves
\* the one call from place to place or starts the next one where none is left.
LEMMA PlaceStep ==
    ASSUME TypeOK, TypeOK', SessionInv, CleanInv, [Next]_vars, strays' = 0, ~dead'
    PROVE  OnePlace'
<1>0. OnePlace /\ ~dead /\ strays = 0
  BY NeverUndone DEF CleanInv
<1>1. ASSUME NEW c \in Calls, Call(c) \/ Lock(c) \/ WriteFails(c)
      PROVE  OnePlace'
  <2>1. PICK here, there : /\ here \in {"idle", "lock", "write"} /\ there # "read"
                           /\ pc[c] = here /\ pc' = [pc EXCEPT ![c] = there]
    BY <1>1 DEF Call, Lock, WriteFails, Return
  <2>2. \A d \in Calls : pc'[d] = "read" <=> pc[d] = "read"
    BY <2>1 DEF TypeOK
  <2> QED
    BY <1>0, <1>1, <2>2, PlaceFrame
    DEF Call, Lock, WriteFails, readVars, procVars, pipes, workerVars
<1>2. CASE Start
  <2>1. proc # "exited"
    BY <1>2 DEF Start, CleanInv
  <2>2. pc[Ping] = "idle" /\ Ping \in Calls
    BY <1>2, CallsAssumption DEF Start, SessionInv
  <2>3. \A d \in Calls : pc'[d] = "read" <=> pc[d] = "read"
    BY <1>2, <2>2 DEF Start, TypeOK
  <2> QED
    BY <1>0, <1>2, <2>1, <2>3, PlaceFrame DEF Start, readVars, pipes, workerVars
<1>3. ASSUME NEW c \in Calls, Write(c) PROVE OnePlace'
  BY <1>0, <1>3, PlaceWrite
<1>4. ASSUME NEW c \in Calls, ReadLine(c) PROVE OnePlace'
  BY <1>0, <1>4, PlaceRead
<1>5. ASSUME NEW c \in Calls, Receive(c) PROVE OnePlace'
  BY <1>0, <1>5, PlaceReceive
<1>6. ASSUME NEW c \in Calls, Timeout(c) \/ Cancelled(c) PROVE FALSE
  <2>1. PICK err : IsFatal(err) /\ MarkFatal(err)
    BY <1>6 DEF Timeout, Cancelled, IsFatal
  <2> QED
    BY <2>1, MarkFatalDead
<1>7. CASE WorkerTakes
  BY <1>0, <1>7, PlaceTakes
<1>8. ASSUME NEW st \in Statuses, WorkerAnswers(st) PROVE OnePlace'
  BY <1>0, <1>8, PlaceAnswers
<1>9. ~WorkerStrays /\ ~StopLock /\ ~StopWrite
  BY <1>0 DEF WorkerStrays, StopLock, StopWrite, CleanInv, TypeOK
<1>10. CASE WorkerLogs \/ WorkerLogged
  BY <1>0, <1>10, PlaceFrame
  DEF WorkerLogs, WorkerLogged, callVars, readVars, procVars, pipes
<1>11. CASE UNCHANGED <<pc, readVars, stdin, stdout, wk, wreq, bound>>
            /\ (proc = "exited" => proc' = "exited")
  BY <1>0, <1>11, PlaceFrame DEF readVars
<1>12. CASE UNCHANGED vars
  BY <1>11, <1>12 DEF vars, callVars, procVars, pipes, workerVars
<1>13. ASSUME CancelCtx \/ CtxKill \/ DrainScan \/ DrainAppend \/ StopBegin \/ StopClose
              \/ StopGrace \/ StopReturn \/ Reap \/ WorkerExits
       PROVE  UNCHANGED <<pc, readVars, stdin, stdout, wk, wreq, bound>>
              /\ (proc = "exited" => proc' = "exited")
  BY <1>13 DEF CancelCtx, CtxKill, DrainScan, DrainAppend, StopBegin, StopClose, StopGrace,
     StopReturn, Reap, WorkerExits, callVars, procVars, pipes, workerVars
<1> QED
  BY <1>1, <1>2, <1>3, <1>4, <1>5, <1>6, <1>7, <1>8, <1>9, <1>10, <1>11, <1>12, <1>13
  DEF Next, Terminated

\* Nothing waits before the process is there, Stop writes only to a worker it has
\* marked, and a call has no outcome before it returns.
LEMMA CleanStep ==
    ASSUME TypeOK, TypeOK', SessionInv, CleanInv, [Next]_vars
    PROVE  CleanInv'
<1> USE CallsAssumption
<1>1. phase' = "new" => proc' = "none"
  <2>1. CASE phase' = "new" /\ phase = "new"
    <3>1. proc = "none"
      BY <2>1 DEF CleanInv
    <3>2. pc[Ping] = "idle" /\ \A c \in Calls : pc[c] = "idle"
      BY <2>1 DEF SessionInv
    <3>3. ~(\E c \in Calls : Receive(c) \/ Timeout(c) \/ Cancelled(c))
      BY <3>2 DEF Receive, Timeout, Cancelled
    <3> QED
      BY <2>1, <3>1, <3>3 DEF Next, Start, CancelCtx, CtxKill, Call, Lock, Write, WriteFails,
         ReadLine, DrainScan, DrainAppend, StopBegin, StopLock, StopWrite, StopClose,
         StopGrace, StopReturn, Reap, WorkerTakes, WorkerAnswers, WorkerStrays, WorkerLogs,
         WorkerLogged, WorkerExits, Terminated, Alive, vars, procVars
  <2>2. phase' = "new" => phase = "new"
    <3>1. ASSUME NEW c \in Calls, NEW out, NEW from, Return(c, out, from)
          PROVE  phase' = phase \/ phase' # "new"
      BY <3>1 DEF Return
    <3>2. \/ phase' = phase \/ phase' # "new"
          \/ \E c \in Calls : \E out, from : Return(c, out, from)
      BY DEF Next, Start, CancelCtx, CtxKill, Call, Lock, Write, WriteFails,
         ReadLine, Receive, Timeout, Cancelled, DrainScan, DrainAppend, StopBegin, StopLock,
         StopWrite, StopClose, StopGrace, StopReturn, Reap, WorkerTakes, WorkerAnswers,
         WorkerStrays, WorkerLogs, WorkerLogged, WorkerExits, Terminated, vars
    <3> QED
      BY <3>1, <3>2
  <2> QED
    BY <2>1, <2>2
<1>2. phase' = "stopWrite" => dead'
  <2>1. ASSUME NEW c \in Calls, NEW out, NEW from, Return(c, out, from)
        PROVE  phase' = phase \/ phase' # "stopWrite"
    BY <2>1 DEF Return
  <2>2. \/ phase' = phase \/ phase' # "stopWrite" \/ StopLock
        \/ \E c \in Calls : \E out, from : Return(c, out, from)
    BY DEF Next, Start, CancelCtx, CtxKill, Call, Lock, Write, WriteFails,
       ReadLine, Receive, Timeout, Cancelled, DrainScan, DrainAppend, StopBegin,
       StopWrite, StopClose, StopGrace, StopReturn, Reap, WorkerTakes, WorkerAnswers,
       WorkerStrays, WorkerLogs, WorkerLogged, WorkerExits, Terminated, vars
  <2>3. StopLock => dead'
    BY DEF StopLock
  <2> QED
    BY <2>1, <2>2, <2>3, NeverUndone DEF CleanInv
<1>3. \A c \in Calls : pc'[c] # "done" => outcome'[c] = "none"
  <2>1. ASSUME NEW c \in Calls, NEW out, NEW from, Return(c, out, from)
        PROVE  \A d \in Calls : pc'[d] # "done" => outcome'[d] = "none"
    BY <2>1 DEF Return, CleanInv, TypeOK
  <2>2. ASSUME NEW c \in Calls, NEW there, pc[c] # "done", pc' = [pc EXCEPT ![c] = there],
               UNCHANGED outcome
        PROVE  \A d \in Calls : pc'[d] # "done" => outcome'[d] = "none"
    BY <2>2 DEF CleanInv, TypeOK
  <2>3. Start => pc[Ping] # "done"
    BY DEF Start, SessionInv
  <2>4. \/ UNCHANGED <<pc, outcome>>
        \/ \E c \in Calls : \E out, from : Return(c, out, from)
        \/ \E c \in Calls : \E there : pc[c] # "done" /\ pc' = [pc EXCEPT ![c] = there]
                                       /\ UNCHANGED outcome
    BY <2>3 DEF Next, Start, CancelCtx, CtxKill, Call, Lock, Write, WriteFails,
       ReadLine, Receive, Timeout, Cancelled, DrainScan, DrainAppend, StopBegin, StopLock,
       StopWrite, StopClose, StopGrace, StopReturn, Reap, WorkerTakes, WorkerAnswers,
       WorkerStrays, WorkerLogs, WorkerLogged, WorkerExits, Terminated, vars, callVars
  <2> QED
    BY <2>1, <2>2, <2>4 DEF CleanInv
<1> QED
  BY <1>1, <1>2, <1>3, PlaceStep DEF CleanInv

\* Nothing is on its way in the initial state.
LEMMA CleanInit == Init => CleanInv
<1> SUFFICES ASSUME Init PROVE CleanInv
  OBVIOUS
<1>1. ~scanErr /\ stdout = <<>> /\ stdin = <<>> /\ wk = "idle" /\ \A c \in Calls : pc[c] = "idle"
  BY DEF Init
<1>2. OnePlace
  BY <1>1 DEF OnePlace, InHand
<1> QED
  BY <1>2 DEF Init, CleanInv

\* A waiting bind returns only by a step of its own, and what it makes of an answer
\* is what the worker did.
LEMMA BindStep ==
    ASSUME TypeOK, SessionInv, CleanInv, [Next]_vars,
           NEW c \in Calls, strays = 0, OpOf[c] = "bind", pc[c] = "read"
    PROVE  /\ outcome'[c] = "answered" => bound = c
           /\ outcome'[c] = "skipped" => bound = NoCall
<1>1. OnePlace /\ outcome[c] = "none"
  BY DEF CleanInv, SessionInv, Open
<1>2. CASE Receive(c)
  <2>1. PICK line \in Line : line = chan[c]
    BY DEF TypeOK
  <2>2. CASE line.kind = "eof"
    <3>1. ReadError(c, line) = "eof"
      BY <2>2 DEF ReadError
    <3>2. Return(c, "failed", NoCall)
      BY <1>2, <2>1, <3>1 DEF Receive
    <3> QED
      BY <3>2 DEF Return, TypeOK
  <2>3. CASE line.req = c /\ Fresh(line)
    <3>1. ~IsSend(c)
      BY DEF IsSend
    <3>2. ReadError(c, line) = "ok"
      BY <2>3, <3>1 DEF ReadError, Fresh
    <3>3. outcome'[c] = Accepted(c, line.status)
      BY <1>2, <2>1, <3>2 DEF Receive, Return, TypeOK
    <3>4. line.status \in {"OK", "SKIPPED", "ERROR"}
      BY <2>3 DEF Fresh, Line, Statuses
    <3>5. /\ line.status = "OK" => bound = c
          /\ line.status = "SKIPPED" => bound = NoCall
      BY <2>3 DEF Fresh
    <3> QED
      BY <3>1, <3>3, <3>4, <3>5 DEF Accepted
  <2> QED
    BY <1>1, <1>2, <2>1, <2>2, <2>3 DEF OnePlace, Receive
<1>3. CASE outcome'[c] \in {"none", "failed", "refused"}
  BY <1>3
<1>4. ASSUME NEW d \in Calls, NEW out, NEW from, Return(d, out, from), d # c
      PROVE  outcome'[c] = "none"
  BY <1>1, <1>4 DEF Return, TypeOK
<1>5. ASSUME NEW out \in {"failed", "refused"}, NEW from, Return(c, out, from)
      PROVE  outcome'[c] \in {"failed", "refused"}
  BY <1>5 DEF Return, TypeOK
<1>6. \/ UNCHANGED outcome \/ Receive(c)
      \/ \E d \in Calls \ {c} : \E out, from : Return(d, out, from)
      \/ \E out \in {"failed", "refused"} : \E from : Return(c, out, from)
  <2>1. ASSUME NEW d \in Calls, Receive(d) PROVE \E out, from : Return(d, out, from)
    BY <2>1 DEF Receive
  <2>2. ASSUME NEW d \in Calls, Timeout(d) \/ Cancelled(d) \/ WriteFails(d)
        PROVE  \E out \in {"failed", "refused"} : \E from : Return(d, out, from)
    BY <2>2 DEF Timeout, Cancelled, WriteFails
  <2>3. ASSUME NEW d \in Calls, Lock(d)
        PROVE  \/ UNCHANGED outcome
               \/ \E out \in {"failed", "refused"} : \E from : Return(d, out, from)
    BY <2>3 DEF Lock
  <2>4. \/ UNCHANGED outcome
        \/ \E d \in Calls : Receive(d) \/ Timeout(d) \/ Cancelled(d) \/ WriteFails(d) \/ Lock(d)
    BY DEF Next, Start, CancelCtx, CtxKill, Call, Write, ReadLine, DrainScan, DrainAppend,
       StopBegin, StopLock, StopWrite, StopClose, StopGrace, StopReturn, Reap, WorkerTakes,
       WorkerAnswers, WorkerStrays, WorkerLogs, WorkerLogged, WorkerExits, Terminated, vars,
       callVars
  <2> QED
    BY <2>1, <2>2, <2>3, <2>4
<1> QED
  BY <1>1, <1>2, <1>3, <1>4, <1>5, <1>6

\* A bind that returns as bound, or as not supported, has had that effect on the
\* worker, as long as the worker has printed nothing but answers.
THEOREM BindTakesEffect == Spec => CleanBindTakesEffect
<1>1. TypeOK /\ SessionInv /\ CleanInv /\ [Next]_vars =>
        [\A c \in Calls : strays = 0 /\ OpOf[c] = "bind" /\ pc[c] = "read" =>
          /\ outcome'[c] = "answered" => bound = c
          /\ outcome'[c] = "skipped" => bound = NoCall]_vars
  BY BindStep
<1>2. TypeOK /\ SessionInv /\ CleanInv /\ [Next]_vars => (TypeOK /\ SessionInv /\ CleanInv)'
  BY TypeStep, SessionStep, CleanStep
<1>3. Init => TypeOK /\ SessionInv /\ CleanInv
  BY InitInv, CleanInit
<1> QED
  BY <1>1, <1>2, <1>3, PTL DEF Spec, CleanBindTakesEffect
=============================================================================
