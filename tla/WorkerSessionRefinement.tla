----------------------- MODULE WorkerSessionRefinement -----------------------
(* WorkerSession implements RequestReply, for every set of calls in which op *)
(* and id tell any two requests apart, and for every bound.                  *)
EXTENDS WorkerSessionProofs

\* Sends are told apart by KeysAssumption; ping and bind have no id, so this asks
\* for one bind per session.  With two of them and a stray line a bind can be
\* answered by what was printed for the other one (worker.go:177-212).
DistinctKeys ==
    \A c, d \in Calls : OpOf[c] = OpOf[d] /\ IdOf[c] = IdOf[d] => c = d

\* The call has been let into a round trip, now or earlier.
Sent(c) == pc[c] \notin {"idle", "lock"}

\* Every response, wherever it is on its way, answers a request that the worker
\* was given and has handled.
ServedInv ==
    /\ \A n \in DOMAIN stdin : stdin[n] \in Calls => Sent(stdin[n])
    /\ wk # "idle" => Sent(wreq)
    /\ \A n \in DOMAIN stdout : stdout[n].kind = "resp" => stdout[n].req \in served
    /\ \A c \in Calls : chan[c].kind = "resp" => chan[c].req \in served

-----------------------------------------------------------------------------
\* A call that was let in is never queued again, and no handled request is forgotten.
LEMMA SentStays ==
    ASSUME TypeOK, [Next]_vars
    PROVE  (\A c \in Calls : Sent(c) => Sent(c)') /\ served \subseteq served'
<1> USE CallsAssumption DEF Sent
<1>1. CASE UNCHANGED pc /\ served \subseteq served'
  BY <1>1
<1>2. ASSUME NEW c \in Calls, NEW there \in {"write", "read", "done"},
             pc' = [pc EXCEPT ![c] = there], served' = served
      PROVE  (\A d \in Calls : Sent(d) => Sent(d)') /\ served \subseteq served'
  BY <1>2 DEF TypeOK
<1>3. ASSUME NEW c \in Calls, Call(c)
      PROVE  (\A d \in Calls : Sent(d) => Sent(d)') /\ served \subseteq served'
  BY <1>3 DEF Call, TypeOK, workerVars
<1>4. ASSUME Next
      PROVE  \/ UNCHANGED pc /\ served \subseteq served'
             \/ \E c \in Calls : Call(c)
             \/ \E c \in Calls, there \in {"write", "read", "done"} :
                   pc' = [pc EXCEPT ![c] = there] /\ served' = served
  <2> DEFINE Moved == \E c \in Calls, there \in {"write", "read", "done"} :
                         pc' = [pc EXCEPT ![c] = there] /\ served' = served
  <2>1. ASSUME NEW c \in Calls,
               \/ Lock(c) \/ Write(c) \/ WriteFails(c) \/ ReadLine(c)
               \/ Receive(c) \/ Timeout(c) \/ Cancelled(c)
        PROVE  Moved \/ (UNCHANGED pc /\ served' = served)
    <3>1. CASE Lock(c) \/ Write(c) \/ WriteFails(c)
      BY <3>1 DEF Lock, Write, WriteFails, Return, workerVars
    <3>2. CASE ReadLine(c) \/ Receive(c)
      BY <3>2 DEF ReadLine, Receive, Return, workerVars, callVars
    <3>3. CASE Timeout(c) \/ Cancelled(c)
      BY <3>3 DEF Timeout, Cancelled, Return, workerVars
    <3> QED
      BY <2>1, <3>1, <3>2, <3>3
  <2>2. CASE \/ Start \/ CancelCtx \/ CtxKill \/ DrainScan \/ DrainAppend \/ StopBegin \/ StopLock
             \/ StopWrite \/ StopClose \/ StopGrace \/ StopReturn \/ Reap \/ Terminated
    BY <2>2 DEF Start, CancelCtx, CtxKill, DrainScan, DrainAppend, StopBegin, StopLock, StopWrite,
       StopClose, StopGrace, StopReturn, Reap, Terminated, vars, callVars, workerVars
  <2>3. CASE WorkerTakes \/ WorkerStrays \/ WorkerLogs \/ WorkerLogged \/ WorkerExits
    <3>1. UNCHANGED callVars /\ served' = served
      BY <2>3 DEF WorkerTakes, WorkerStrays, WorkerLogs, WorkerLogged, WorkerExits, workerVars
    <3> QED
      BY <3>1 DEF callVars
  <2>4. ASSUME NEW st \in Statuses, WorkerAnswers(st) PROVE UNCHANGED pc /\ served \subseteq served'
    <3>1. UNCHANGED callVars /\ served' = served \cup {wreq}
      BY <2>4 DEF WorkerAnswers
    <3> QED
      BY <3>1 DEF callVars
  <2> QED
    BY <1>4, <2>1, <2>2, <2>3, <2>4 DEF Next
<1> QED
  BY <1>1, <1>2, <1>3, <1>4 DEF vars, callVars, workerVars

\* The pipes carry requests that were written and responses to handled requests.
LEMMA ServedStep ==
    ASSUME TypeOK, TypeOK', ServedInv, [Next]_vars
    PROVE  ServedInv'
<1> USE CallsAssumption
<1> DEFINE In == \A n \in DOMAIN stdin : stdin[n] \in Calls => Sent(stdin[n])
           Out == \A n \in DOMAIN stdout : stdout[n].kind = "resp" => stdout[n].req \in served
           Held == \A c \in Calls : chan[c].kind = "resp" => chan[c].req \in served
           Work == wk # "idle" => Sent(wreq)
<1>0. (\A c \in Calls : Sent(c) => Sent(c)') /\ served \subseteq served'
  BY SentStays
<1>1. UNCHANGED stdin => In'
  BY <1>0 DEF ServedInv, Sent
<1>2. UNCHANGED stdout => Out'
  BY <1>0 DEF ServedInv
<1>3. UNCHANGED chan => Held'
  BY <1>0 DEF ServedInv
<1>4. UNCHANGED wk /\ UNCHANGED wreq => Work'
  BY <1>0 DEF ServedInv, TypeOK
<1>5. ASSUME NEW c \in Calls, Write(c) PROVE ServedInv'
  <2>1. Sent(c)'
    BY <1>5 DEF Write, Sent, TypeOK
  <2>2. In'
    BY <1>5, <1>0, <2>1 DEF Write, ServedInv, TypeOK, Sent
  <2> QED
    BY <1>5, <2>2, <1>2, <1>3, <1>4 DEF Write, ServedInv, workerVars
<1>6. ASSUME NEW c \in Calls, ReadLine(c) PROVE ServedInv'
  <2>1. UNCHANGED <<stdin, wk, wreq, served>>
    BY <1>6 DEF ReadLine, workerVars
  <2>2. CASE stdout # <<>> /\ chan' = [chan EXCEPT ![c] = Head(stdout)] /\ stdout' = Tail(stdout)
    <3>1. Head(stdout).kind = "resp" => Head(stdout).req \in served
      BY <2>2 DEF ServedInv, TypeOK
    <3>2. Out'
      BY <2>1, <2>2 DEF ServedInv, TypeOK
    <3>3. Held'
      BY <2>1, <2>2, <3>1 DEF ServedInv, TypeOK
    <3> QED
      BY <1>1, <1>4, <2>1, <3>2, <3>3 DEF ServedInv
  <2>3. CASE UNCHANGED stdout /\ \E k \in {"big", "eof"} : chan' = [chan EXCEPT ![c] = NoResponse(k)]
    <3>1. Held'
      BY <2>1, <2>3 DEF ServedInv, TypeOK, NoResponse
    <3> QED
      BY <1>1, <1>2, <1>4, <2>1, <2>3, <3>1 DEF ServedInv
  <2> QED
    BY <1>6, <2>2, <2>3 DEF ReadLine
<1>7. CASE StopWrite
  <2>1. ASSUME UNCHANGED stdin PROVE In'
    BY <2>1, <1>1
  <2>2. ASSUME stdin' = Append(stdin, Exit) PROVE In'
    <3>1. UNCHANGED pc
      BY <1>7 DEF StopWrite, callVars
    <3>2. Len(stdin') = Len(stdin) + 1 /\ stdin'[Len(stdin')] = Exit
      BY <2>2 DEF TypeOK
    <3>3. \A n \in DOMAIN stdin' : (n \in DOMAIN stdin /\ stdin'[n] = stdin[n]) \/ stdin'[n] = Exit
      BY <2>2, <3>2 DEF TypeOK
    <3> QED
      BY <3>1, <3>3 DEF ServedInv, Sent
  <2>3. In'
    BY <1>7, <2>1, <2>2 DEF StopWrite
  <2> QED
    BY <1>7, <2>3, <1>2, <1>3, <1>4 DEF StopWrite, ServedInv, readVars, workerVars
<1>8. CASE WorkerTakes
  <2>1. In'
    BY <1>8, <1>0 DEF WorkerTakes, ServedInv, TypeOK, Sent
  <2>2. Work'
    BY <1>8, <1>0 DEF WorkerTakes, ServedInv, TypeOK, Sent
  <2> QED
    BY <1>8, <2>1, <2>2, <1>2, <1>3 DEF WorkerTakes, ServedInv, readVars
<1>9. ASSUME NEW st \in Statuses, WorkerAnswers(st) PROVE ServedInv'
  <2>1. Out'
    BY <1>9, <1>0 DEF WorkerAnswers, ServedInv, TypeOK, Response
  <2>2. Work'
    BY <1>9 DEF WorkerAnswers
  <2> QED
    BY <1>9, <2>1, <2>2, <1>1, <1>3 DEF WorkerAnswers, ServedInv, readVars
<1>10. CASE WorkerStrays
  <2>1. PICK line : /\ line.kind = "resp" => line.req \in served
                    /\ stdout' = Append(stdout, line)
    BY <1>10 DEF WorkerStrays, NoResponse, Response
  <2>2. Out'
    BY <1>10, <1>0, <2>1 DEF WorkerStrays, ServedInv, TypeOK
  <2> QED
    BY <1>10, <2>2, <1>1, <1>3, <1>4 DEF WorkerStrays, ServedInv, readVars
<1>11. CASE WorkerLogs \/ WorkerLogged
  <2>1. Work'
    BY <1>11, <1>0 DEF WorkerLogs, WorkerLogged, ServedInv, TypeOK
  <2> QED
    BY <1>11, <2>1, <1>1, <1>2, <1>3 DEF WorkerLogs, WorkerLogged, ServedInv, readVars, pipes
<1>12. CASE UNCHANGED <<stdin, stdout, chan, wk, wreq>>
  BY <1>12, <1>1, <1>2, <1>3, <1>4 DEF ServedInv
<1>13. ASSUME Next
       PROVE  \/ UNCHANGED <<stdin, stdout, chan, wk, wreq>>
              \/ \E c \in Calls : Write(c) \/ ReadLine(c)
              \/ StopWrite \/ WorkerTakes \/ (\E st \in Statuses : WorkerAnswers(st))
              \/ WorkerStrays \/ WorkerLogs \/ WorkerLogged
  BY <1>13 DEF Next, Start, CancelCtx, CtxKill, Call, Lock, WriteFails, Receive, Timeout,
     Cancelled, DrainScan, DrainAppend, StopBegin, StopLock, StopClose, StopGrace, StopReturn,
     Reap, WorkerExits, Terminated, vars, readVars, pipes, workerVars
<1> QED
  BY <1>5, <1>6, <1>7, <1>8, <1>9, <1>10, <1>11, <1>12, <1>13
  DEF vars, readVars, pipes, workerVars

-----------------------------------------------------------------------------
\* Init of the session is Init of the abstraction.
LEMMA InitRefines == Init => Abstract!Init
  BY CallsAssumption DEF Init, Abstract!Init, AbstractStatus, Open

\* A call that returns closes an open call of the abstraction as its outcome says.
LEMMA ReturnRefines ==
    ASSUME TypeOK, NEW c \in Calls, NEW from, Open(c),
           NEW out \in {"answered", "skipped", "failed"}, Return(c, out, from)
    PROVE  /\ AbstractStatus[c] = "open"
           /\ AbstractStatus' =
                 [AbstractStatus EXCEPT ![c] = IF out = "failed" THEN "failed" ELSE "answered"]
<1>1. \A d \in Calls : /\ pc'[d] = IF d = c THEN "done" ELSE pc[d]
                       /\ outcome'[d] = IF d = c THEN out ELSE outcome[d]
  BY DEF Return, TypeOK
<1>2. AbstractStatus[c] = "open"
  BY DEF AbstractStatus, Open
<1>3. \A d \in Calls : AbstractStatus'[d] =
         IF d # c THEN AbstractStatus[d] ELSE IF out = "failed" THEN "failed" ELSE "answered"
  BY <1>1 DEF AbstractStatus, Open
<1> QED
  BY <1>2, <1>3 DEF AbstractStatus, Open

\* Whatever response the waiting call would take for its answer, the process has
\* handled its request.
Believable ==
    \A c \in Calls : pc[c] = "read" /\ ReadError(c, chan[c]) = "ok" => c \in served

\* What passes the comparison is the answer to the request itself when no other
\* request has its op and id.
LEMMA DistinctBelievable ==
    ASSUME DistinctKeys, TypeOK, ServedInv
    PROVE  Believable
<1> SUFFICES ASSUME NEW c \in Calls, ReadError(c, chan[c]) = "ok"
             PROVE  c \in served
  BY DEF Believable
<1>1. chan[c] \in Line /\ chan[c].kind = "resp"
  BY DEF ReadError, TypeOK, Line
<1>2. chan[c].req \in Calls /\ chan[c].req \in served
  BY <1>1 DEF Line, ServedInv
<1>3. OpOf[chan[c].req] = OpOf[c]
  BY <1>1 DEF ReadError
<1>4. IdOf[chan[c].req] = IdOf[c]
  BY <1>1, <1>2, <1>3, CallsAssumption DEF ReadError, IsSend
<1> QED
  BY <1>2, <1>3, <1>4 DEF DistinctKeys

\* So it is when the worker has printed nothing but answers, because then the only
\* response there is belongs to the call that waits.
LEMMA CleanBelievable ==
    ASSUME TypeOK, SessionInv, ServedInv, CleanInv, strays = 0
    PROVE  Believable
<1> SUFFICES ASSUME NEW c \in Calls, pc[c] = "read", ReadError(c, chan[c]) = "ok"
             PROVE  c \in served
  BY DEF Believable
<1>1. chan[c] \in Line /\ chan[c].kind = "resp"
  BY DEF ReadError, TypeOK, Line
<1>2. OnePlace
  BY DEF CleanInv, SessionInv, Open
<1>3. chan[c].req = c
  BY <1>1, <1>2 DEF OnePlace
<1> QED
  BY <1>1, <1>3 DEF ServedInv

\* Every step of the session is a step of the abstraction or changes nothing there.
LEMMA StepRefines ==
    ASSUME Believable, TypeOK, SessionInv, ServedInv, [Next]_vars
    PROVE  [Abstract!Next]_(Abstract!vars)
<1> USE CallsAssumption
<1>1. CASE UNCHANGED <<pc, outcome, dead, served>>
  BY <1>1 DEF Abstract!vars, AbstractStatus, Open
<1>2. CASE Start
  <2>1. \A c \in Calls : AbstractStatus[c] = "new"
    BY <1>2 DEF Start, SessionInv, AbstractStatus, Open
  <2>2. AbstractStatus' = [AbstractStatus EXCEPT ![Ping] = "open"]
    BY <1>2, <2>1 DEF Start, AbstractStatus, Open, TypeOK
  <2>3. Abstract!Open(Ping)
    BY <1>2, <2>1, <2>2 DEF Abstract!Open, Start, SessionInv, workerVars
  <2> QED
    BY <2>3 DEF Abstract!Next
<1>3. ASSUME NEW c \in Calls, Call(c) PROVE [Abstract!Next]_(Abstract!vars)
  <2>1. AbstractStatus' = AbstractStatus
    BY <1>3 DEF Call, AbstractStatus, Open, TypeOK
  <2> QED
    BY <1>3, <2>1 DEF Call, Abstract!vars, procVars, workerVars
<1>4. ASSUME NEW c \in Calls, Lock(c) PROVE [Abstract!Next]_(Abstract!vars)
  <2>1. AbstractStatus[c] = "new"
    BY <1>4 DEF Lock, AbstractStatus, Open
  <2>2. CASE dead
    <3>1. AbstractStatus' = [AbstractStatus EXCEPT ![c] = "failed"]
      BY <1>4, <2>2 DEF Lock, Return, AbstractStatus, Open, TypeOK
    <3>2. Abstract!Refuse(c)
      BY <1>4, <2>1, <2>2, <3>1 DEF Lock, Abstract!Refuse, procVars, workerVars
    <3> QED
      BY <3>2 DEF Abstract!Next
  <2>3. CASE ~dead
    <3>1. AbstractStatus' = [AbstractStatus EXCEPT ![c] = "open"]
      BY <1>4, <2>3 DEF Lock, AbstractStatus, Open, TypeOK
    <3>2. \A d \in Calls : AbstractStatus[d] # "open"
      BY <1>4 DEF Lock, AbstractStatus, SessionInv, Open
    <3>3. Abstract!Open(c)
      BY <1>4, <2>1, <2>3, <3>1, <3>2 DEF Lock, Abstract!Open, procVars, workerVars
    <3> QED
      BY <3>3 DEF Abstract!Next
  <2> QED
    BY <2>2, <2>3
<1>5. ASSUME NEW c \in Calls, Write(c) PROVE [Abstract!Next]_(Abstract!vars)
  <2>1. AbstractStatus' = AbstractStatus
    BY <1>5 DEF Write, AbstractStatus, Open, TypeOK
  <2> QED
    BY <1>5, <2>1 DEF Write, Abstract!vars, procVars, workerVars
<1>6. ASSUME NEW c \in Calls, Open(c), NEW from, Return(c, "failed", from), served' = served,
             dead => dead', dead' \in BOOLEAN
      PROVE  [Abstract!Next]_(Abstract!vars)
  <2>1. Abstract!Fail(c)
    BY <1>6, ReturnRefines DEF Abstract!Fail, TypeOK
  <2> QED
    BY <2>1 DEF Abstract!Next
<1>7. ASSUME NEW c \in Calls, Receive(c) PROVE [Abstract!Next]_(Abstract!vars)
  <2>1. Open(c) /\ served' = served
    BY <1>7 DEF Receive, Open, workerVars
  <2>2. (dead => dead') /\ dead' \in BOOLEAN
    BY <1>7, MarkFatalDead, MarkFatalType DEF Receive
  <2>3. CASE ReadError(c, chan[c]) # "ok" \/ Accepted(c, chan[c].status) = "failed"
    <3>1. PICK from : Return(c, "failed", from)
      BY <1>7, <2>3 DEF Receive
    <3> QED
      BY <1>6, <2>1, <2>2, <3>1
  <2>4. CASE ReadError(c, chan[c]) = "ok" /\ Accepted(c, chan[c].status) # "failed"
    <3>1. PICK out \in {"answered", "skipped"} : Return(c, out, chan[c].req)
      <4>1. Accepted(c, chan[c].status) \in {"answered", "skipped"}
        BY <2>4 DEF Accepted
      <4>2. Return(c, Accepted(c, chan[c].status), chan[c].req)
        BY <1>7, <2>4 DEF Receive
      <4> QED
        BY <4>1, <4>2
    <3>2. dead' = dead
      BY <1>7, <2>4, MarkFatalDead DEF Receive, IsFatal
    <3>3. ~dead /\ c \in served
      BY <1>7, <2>1, <2>4 DEF SessionInv, Believable, Receive
    <3>4. Abstract!Answer(c)
      BY <2>1, <3>1, <3>2, <3>3, ReturnRefines DEF Abstract!Answer
    <3> QED
      BY <3>4 DEF Abstract!Next
  <2> QED
    BY <2>3, <2>4
<1>8. ASSUME NEW c \in Calls, WriteFails(c) \/ Timeout(c) \/ Cancelled(c)
      PROVE  [Abstract!Next]_(Abstract!vars)
  <2>1. Open(c) /\ Return(c, "failed", NoCall) /\ served' = served
    BY <1>8 DEF WriteFails, Timeout, Cancelled, Open, workerVars
  <2>2. (dead => dead') /\ dead' \in BOOLEAN
    <3>1. CASE WriteFails(c)
      BY <3>1 DEF WriteFails, procVars, TypeOK
    <3>2. CASE Timeout(c) \/ Cancelled(c)
      BY <3>2, MarkFatalDead, MarkFatalType DEF Timeout, Cancelled
    <3> QED
      BY <1>8, <3>1, <3>2
  <2> QED
    BY <1>6, <2>1, <2>2
<1>9. CASE StopLock
  <2>1. AbstractStatus' = AbstractStatus /\ served' = served
    BY <1>9 DEF StopLock, AbstractStatus, Open, callVars, workerVars
  <2>2. CASE dead
    BY <1>9, <2>1, <2>2 DEF StopLock, Abstract!vars
  <2>3. CASE ~dead
    <3>1. \A c \in Calls : AbstractStatus[c] # "open"
      BY <1>9 DEF StopLock, AbstractStatus, SessionInv, Open
    <3>2. Abstract!Close
      BY <1>9, <2>1, <2>3, <3>1 DEF StopLock, Abstract!Close
    <3> QED
      BY <3>2 DEF Abstract!Next
  <2> QED
    BY <2>2, <2>3
<1>10. ASSUME NEW st \in Statuses, WorkerAnswers(st) PROVE [Abstract!Next]_(Abstract!vars)
  <2>1. wreq \in Calls /\ Sent(wreq)
    BY <1>10 DEF WorkerAnswers, TypeOK, ServedInv
  <2>2. AbstractStatus[wreq] # "new" /\ AbstractStatus' = AbstractStatus
    BY <1>10, <2>1 DEF WorkerAnswers, Sent, AbstractStatus, Open, TypeOK, callVars
  <2>3. Abstract!Serve(wreq)
    BY <1>10, <2>2 DEF WorkerAnswers, Abstract!Serve, procVars
  <2> QED
    BY <2>1, <2>3 DEF Abstract!Next
<1>11. ASSUME Next
       PROVE  \/ UNCHANGED <<pc, outcome, dead, served>> \/ Start \/ StopLock
              \/ \E st \in Statuses : WorkerAnswers(st)
              \/ \E c \in Calls : \/ Call(c) \/ Lock(c) \/ Write(c) \/ WriteFails(c)
                                  \/ Receive(c) \/ Timeout(c) \/ Cancelled(c)
  BY <1>11 DEF Next, CancelCtx, CtxKill, ReadLine, DrainScan, DrainAppend, StopBegin, StopWrite,
     StopClose, StopGrace, StopReturn, Reap, WorkerTakes, WorkerStrays, WorkerLogs,
     WorkerLogged, WorkerExits, Terminated, vars, callVars, procVars, workerVars
<1> QED
  BY <1>1, <1>2, <1>3, <1>4, <1>5, <1>7, <1>8, <1>9, <1>10, <1>11
  DEF vars, callVars, procVars, workerVars

\* The session does what RequestReply promises the orchestrator: one call at a
\* time, no answer that the process did not give to that call, and after the
\* session is given up nothing but refusals; when op and id identify a request.
THEOREM Implements ==
    ASSUME DistinctKeys
    PROVE  Spec => ImplementsRequestReply
<1>1. Init => TypeOK /\ SessionInv /\ ServedInv
  BY InitInv DEF Init, ServedInv, NoResponse
<1>2. TypeOK /\ SessionInv /\ ServedInv /\ [Next]_vars => (TypeOK /\ SessionInv /\ ServedInv)'
  BY TypeStep, SessionStep, ServedStep
<1>3. TypeOK /\ SessionInv /\ ServedInv /\ [Next]_vars => [Abstract!Next]_(Abstract!vars)
  BY StepRefines, DistinctBelievable
<1> QED
  BY <1>1, <1>2, <1>3, InitRefines, PTL DEF Spec, ImplementsRequestReply, Abstract!Spec

\* A worker that may not print a stray line never has.
LEMMA NoStrays ==
    ASSUME StrayLimit = 0, strays = 0, [Next]_vars
    PROVE  strays' = 0
<1>1. ~WorkerStrays
  BY DEF WorkerStrays
<1> QED
  BY <1>1 DEF Next, Start, CancelCtx, CtxKill, Call, Lock, Write, WriteFails, ReadLine, Receive,
     Timeout, Cancelled, DrainScan, DrainAppend, StopBegin, StopLock, StopWrite, StopClose,
     StopGrace, StopReturn, Reap, WorkerTakes, WorkerAnswers, WorkerLogs, WorkerLogged,
     WorkerExits, Terminated, vars, workerVars

\* A worker that prints nothing but answers keeps that promise with any number of
\* binds in a session, which is how the orchestrator uses it (orch.go:90): the
\* op alone tells a bind response from what else could be there, and nothing is.
THEOREM ImplementsClean ==
    ASSUME StrayLimit = 0
    PROVE  Spec => ImplementsRequestReply
<1> DEFINE I == TypeOK /\ SessionInv /\ ServedInv /\ CleanInv /\ strays = 0
<1>1. Init => I
  BY InitInv, CleanInit DEF Init, ServedInv, NoResponse
<1>2. I /\ [Next]_vars => I'
  BY TypeStep, SessionStep, ServedStep, CleanStep, NoStrays
<1>3. I /\ [Next]_vars => [Abstract!Next]_(Abstract!vars)
  BY StepRefines, CleanBelievable
<1> QED
  BY <1>1, <1>2, <1>3, InitRefines, PTL DEF Spec, ImplementsRequestReply, Abstract!Spec
=============================================================================
