---------------------------- MODULE WorkerSession ----------------------------
(***************************************************************************)
(* One runner-side Worker of internal/worker/worker.go: the goroutines     *)
(* that call Bind and Send on it, the mutex they share with the stderr     *)
(* drainer, the reader goroutine readWithTimeout starts for each request,  *)
(* the three pipes, the context, and the child process.                    *)
(*                                                                         *)
(* A call is one execution of ping, Bind or Send, made by a goroutine of   *)
(* its own: any order and any overlap of calls is a behaviour, which       *)
(* includes the ones internal/orch produces.  Every call is made at most   *)
(* once, so a call also identifies the request it writes.                  *)
(***************************************************************************)
EXTENDS Naturals, Sequences, FiniteSets

CONSTANTS
    Calls,      \* the requests of a session
    Ping,       \* the handshake Start makes before any other call
    OpOf,       \* op of each call: ping, bind, serialize or deserialize
    IdOf,       \* id of each call; NoId for ping and bind
    NoId, NoCall, Exit,
    StdinCap,   \* requests the stdin pipe holds before Write blocks
    StdoutCap,  \* lines the stdout pipe holds before the worker blocks
    StderrCap,  \* lines the stderr pipe holds before the worker blocks
    StrayLimit, \* bound: lines on stdout that answer no pending request
    LogLimit    \* bound: lines the worker logs to stderr

IsSend(c) == OpOf[c] \in {"serialize", "deserialize"}

ASSUME CallsAssumption ==
    /\ Ping \in Calls
    /\ NoCall \notin Calls
    /\ Exit \notin Calls
    /\ OpOf \in [Calls -> {"ping", "bind", "serialize", "deserialize"}]
    /\ OpOf[Ping] = "ping"
    /\ \A c \in Calls : IdOf[c] = NoId <=> ~IsSend(c)

\* The rounds of one case share an id and differ in op; the matrix and the
\* semantic oracle suffix the id (orch.go:420, 456).  Hence no two calls agree
\* on both, as long as the case names of a type are distinct.
ASSUME KeysAssumption ==
    \A c, d \in Calls :
        IsSend(c) /\ OpOf[c] = OpOf[d] /\ IdOf[c] = IdOf[d] => c = d

ASSUME BoundsAssumption ==
    {StdinCap, StdoutCap, StderrCap, StrayLimit, LogLimit} \subseteq Nat

VARIABLES
    phase,    \* where Start and Stop are
    pc,       \* per call: idle, lock, write, read, done
    mu,       \* the call holding Worker.mu across its round trip, or NoCall
    dead,     \* Worker.dead
    ctxDone,  \* the run's context was cancelled
    parked,   \* calls whose reader goroutine is inside reader.Read
    chan,     \* per call: what its reader goroutine put on the channel
    scanErr,  \* the Scanner failed with ErrTooLong and never recovers
    outcome,  \* per call: how it returned
    got,      \* per call: the call the response handed to it answers
    drain,    \* the stderr drainer: scanning, waiting for mu, or gone
    stdin, stdout, stderr,  \* the pipes: lines, lines, number of lines
    proc,     \* the child process: none, running, killed, exited
    wait,     \* cmd.Wait: not called, waiting, or reaped
    wk,       \* what the worker's loop is doing: idle, busy, logging
    wreq,     \* the request it is working on
    bound,    \* the bind its serialize and deserialize operate on
    served,   \* the requests it has answered
    strays, logs

callVars == <<pc, mu, outcome, got>>
readVars == <<parked, chan, scanErr>>
procVars == <<dead, proc, wait>>
pipes == <<stdin, stdout, stderr>>
env == <<ctxDone, drain>>
workerVars == <<wk, wreq, bound, served, strays, logs>>
vars == <<phase, callVars, readVars, procVars, pipes, env, workerVars>>

-----------------------------------------------------------------------------
Statuses == {"OK", "SKIPPED", "ERROR", "VERSION"}

\* A line of worker stdout, and also what Reader.Read makes of it.  "junk" does
\* not parse as a response, "big" exceeds the Scanner's buffer, "none" is an
\* empty channel.  A response echoes the op and the id of the request it
\* answers; VERSION is an OK ping with another protocol_version or with none.
Line == [kind : {"resp"}, req : Calls, status : Statuses] \cup
        [kind : {"none", "junk", "big", "eof"}, req : {NoCall}, status : Statuses]

Response(c, st) == [kind |-> "resp", req |-> c, status |-> st]
NoResponse(k) == [kind |-> k, req |-> NoCall, status |-> "ERROR"]

Alive == proc \in {"running", "killed"}

Init ==
    /\ phase = "new"
    /\ pc = [c \in Calls |-> "idle"]
    /\ mu = NoCall
    /\ dead = FALSE
    /\ ctxDone = FALSE
    /\ parked = {}
    /\ chan = [c \in Calls |-> NoResponse("none")]
    /\ scanErr = FALSE
    /\ outcome = [c \in Calls |-> "none"]
    /\ got = [c \in Calls |-> NoCall]
    /\ drain = "scan"
    /\ stdin = <<>>
    /\ stdout = <<>>
    /\ stderr = 0
    /\ proc = "none"
    /\ wait = "no"
    /\ wk = "idle" /\ wreq = NoCall /\ bound = NoCall /\ served = {}
    /\ strays = 0 /\ logs = 0

-----------------------------------------------------------------------------
(* The runner. *)

\* Start: spawn the process and the drainer, then ping without holding mu.
Start ==
    /\ phase = "new"
    /\ phase' = "ping"
    /\ proc' = "running"
    /\ pc' = [pc EXCEPT ![Ping] = "write"]
    /\ UNCHANGED <<mu, outcome, got, readVars, dead, wait, pipes, env,
                   workerVars>>

\* A goroutine enters Bind or Send and queues for the mutex.
Call(c) ==
    /\ phase = "up"
    /\ c # Ping
    /\ pc[c] = "idle"
    /\ pc' = [pc EXCEPT ![c] = "lock"]
    /\ UNCHANGED <<phase, mu, outcome, got, readVars, procVars, pipes, env,
                   workerVars>>

\* Leaving ping, Bind or Send: the deferred Unlock, and for ping what Start
\* does with the result.
Return(c, out, from) ==
    /\ pc' = [pc EXCEPT ![c] = "done"]
    /\ outcome' = [outcome EXCEPT ![c] = out]
    /\ got' = [got EXCEPT ![c] = from]
    /\ mu' = IF mu = c THEN NoCall ELSE mu
    /\ phase' = IF c # Ping THEN phase
                ELSE IF out = "answered" THEN "up" ELSE "stopLock"

\* killAndMark: dead, SIGKILL, and an asynchronous Wait.
KillAndMark ==
    IF dead
    THEN UNCHANGED procVars
    ELSE /\ dead' = TRUE
         /\ proc' = IF proc = "running" THEN "killed" ELSE proc
         /\ wait' = "waiting"

\* Mutant of IsFatal: a timeout leaves the worker in use.
IsFatalNoTimeout(err) == err \in {"idMismatch", "opMismatch", "cancelled"}

\* markFatal: which errors mean that the response stream is out of step.
\* EOF, a malformed line and ErrTooLong are not among them.
IsFatal(err) == err \in {"timeout", "idMismatch", "opMismatch", "cancelled"}

MarkFatal(err) ==
    IF IsFatal(err) THEN KillAndMark ELSE UNCHANGED procVars

\* Mutant of Lock: the dead flag is not looked at.
LockIgnoresDead(c) ==
    /\ pc[c] = "lock"
    /\ mu = NoCall
    /\ mu' = c
    /\ pc' = [pc EXCEPT ![c] = "write"]
    /\ UNCHANGED <<phase, outcome, got, readVars, procVars, pipes, env, workerVars>>

\* The mutex is granted; a dead worker is refused at once.
Lock(c) ==
    /\ pc[c] = "lock"
    /\ mu = NoCall
    /\ \/ /\ dead
          /\ Return(c, "refused", NoCall)
       \/ /\ ~dead
          /\ mu' = c
          /\ pc' = [pc EXCEPT ![c] = "write"]
          /\ UNCHANGED <<phase, outcome, got>>
    /\ UNCHANGED <<readVars, procVars, pipes, env, workerVars>>

\* Writer.Write into the pipe, then readWithTimeout starts its reader
\* goroutine.  A full pipe blocks the write; there is no timer on it.
Write(c) ==
    /\ pc[c] = "write"
    /\ Alive
    /\ Len(stdin) < StdinCap
    /\ stdin' = Append(stdin, c)
    /\ pc' = [pc EXCEPT ![c] = "read"]
    /\ parked' = parked \cup {c}
    /\ UNCHANGED <<phase, mu, outcome, got, chan, scanErr, procVars, stdout,
                   stderr, env, workerVars>>

\* The process is gone: EPIPE, which is returned but does not mark the worker.
WriteFails(c) ==
    /\ pc[c] = "write"
    /\ proc = "exited"
    /\ Return(c, "failed", NoCall)
    /\ UNCHANGED <<readVars, procVars, pipes, env, workerVars>>

\* Reader.Read in the goroutine of call c, ending in a send on a channel of
\* capacity one that the call may no longer be receiving from.
ReadLine(c) ==
    /\ c \in parked
    /\ parked' = parked \ {c}
    /\ \/ /\ scanErr
          /\ chan' = [chan EXCEPT ![c] = NoResponse("big")]
          /\ UNCHANGED <<scanErr, stdout>>
       \/ /\ ~scanErr
          /\ stdout # <<>>
          /\ chan' = [chan EXCEPT ![c] = Head(stdout)]
          /\ stdout' = Tail(stdout)
          /\ scanErr' = (Head(stdout).kind = "big")
       \/ /\ stdout = <<>>
          /\ proc = "exited"
          /\ chan' = [chan EXCEPT ![c] = NoResponse("eof")]
          /\ UNCHANGED <<scanErr, stdout>>
    /\ UNCHANGED <<phase, callVars, procVars, stdin, stderr, env, workerVars>>

\* Mutant of ReadError: the id alone is compared.
ReadErrorIdOnly(c, line) ==
    IF line.kind # "resp" THEN line.kind
    ELSE IF IsSend(c) /\ IdOf[line.req] # IdOf[c] THEN "idMismatch"
    ELSE "ok"

\* The check readWithTimeout makes of a parsed response, in its order.
ReadError(c, line) ==
    IF line.kind # "resp" THEN line.kind
    ELSE IF IsSend(c) /\ IdOf[line.req] # IdOf[c] THEN "idMismatch"
    ELSE IF OpOf[line.req] # OpOf[c] THEN "opMismatch"
    ELSE "ok"

\* Mutant of Accepted: Bind takes SKIPPED for success.
AcceptedIgnoresSkip(c, st) ==
    IF IsSend(c) \/ st = "OK" \/ (OpOf[c] = "bind" /\ st = "SKIPPED")
    THEN "answered" ELSE "failed"

\* What ping, Bind and Send make of a response that passed that check.
Accepted(c, st) ==
    CASE IsSend(c) -> "answered"
      [] OpOf[c] = "ping" -> IF st = "OK" THEN "answered" ELSE "failed"
      [] OTHER -> CASE st = "ERROR" -> "failed"
                    [] st = "SKIPPED" -> "skipped"
                    [] OTHER -> "answered"

\* The select takes the reader's result.
Receive(c) ==
    /\ pc[c] = "read"
    /\ chan[c].kind # "none"
    /\ LET err == ReadError(c, chan[c]) IN
       /\ IF err = "ok"
          THEN Return(c, Accepted(c, chan[c].status), chan[c].req)
          ELSE Return(c, "failed", NoCall)
       /\ MarkFatal(err)
    /\ UNCHANGED <<readVars, pipes, env, workerVars>>

\* Mutant of Timeout: the select has no timer.
TimeoutMissing(c) == FALSE /\ UNCHANGED vars

\* The select takes the timer, whether or not a result is there as well.
Timeout(c) ==
    /\ pc[c] = "read"
    /\ Return(c, "failed", NoCall)
    /\ MarkFatal("timeout")
    /\ UNCHANGED <<readVars, pipes, env, workerVars>>

\* The select takes ctx.Done.
Cancelled(c) ==
    /\ pc[c] = "read"
    /\ ctxDone
    /\ Return(c, "failed", NoCall)
    /\ MarkFatal("cancelled")
    /\ UNCHANGED <<readVars, pipes, env, workerVars>>

\* SIGINT or SIGTERM cancels the run's context ...
CancelCtx ==
    /\ proc # "none"
    /\ ~ctxDone
    /\ ctxDone' = TRUE
    /\ UNCHANGED <<phase, callVars, readVars, procVars, pipes, drain,
                   workerVars>>

\* ... and exec.CommandContext kills the child.
CtxKill ==
    /\ ctxDone
    /\ proc = "running"
    /\ proc' = "killed"
    /\ UNCHANGED <<phase, callVars, readVars, dead, wait, pipes, env,
                   workerVars>>

\* Mutant of DrainScan: it takes a line off an empty pipe.
DrainScanUnguarded ==
    /\ drain = "scan"
    /\ stderr' = stderr - 1
    /\ drain' \in {"lock", "gone"}
    /\ UNCHANGED <<phase, callVars, readVars, procVars, stdin, stdout, ctxDone,
                   workerVars>>

\* The drainer takes a line off the pipe, then needs mu to keep it.  At a line
\* longer than its Scanner takes (64 KB) it ends, and nobody reads stderr any more.
DrainScan ==
    /\ drain = "scan"
    /\ stderr > 0
    /\ stderr' = stderr - 1
    /\ drain' \in {"lock", "gone"}
    /\ UNCHANGED <<phase, callVars, readVars, procVars, stdin, stdout, ctxDone,
                   workerVars>>

DrainAppend ==
    /\ drain = "lock"
    /\ mu = NoCall
    /\ drain' = "scan"
    /\ UNCHANGED <<phase, callVars, readVars, procVars, pipes, ctxDone,
                   workerVars>>

\* Stop is deferred in runTests: every goroutine of the run has returned.
StopBegin ==
    /\ phase = "up"
    /\ \A c \in Calls : pc[c] \in {"idle", "done"}
    /\ phase' = "stopLock"
    /\ UNCHANGED <<callVars, readVars, procVars, pipes, env, workerVars>>

StopLock ==
    /\ phase = "stopLock"
    /\ mu = NoCall
    /\ phase' = IF dead THEN "stopped" ELSE "stopWrite"
    /\ dead' = TRUE
    /\ UNCHANGED <<callVars, readVars, proc, wait, pipes, env, workerVars>>

\* Write exit, ignoring the error; a full pipe blocks this write too.
StopWrite ==
    /\ phase = "stopWrite"
    /\ \/ proc = "exited" /\ UNCHANGED stdin
       \/ Alive /\ Len(stdin) < StdinCap /\ stdin' = Append(stdin, Exit)
    /\ phase' = "stopClose"
    /\ UNCHANGED <<callVars, readVars, procVars, stdout, stderr, env,
                   workerVars>>

\* Close stdin, which tells the worker to leave, and wait for the process.
StopClose ==
    /\ phase = "stopClose"
    /\ phase' = "stopWait"
    /\ wait' = "waiting"
    /\ UNCHANGED <<callVars, readVars, dead, proc, pipes, env, workerVars>>

\* Mutant of StopGrace: the process is waited for but not killed.
StopGraceNoKill ==
    /\ phase = "stopWait"
    /\ phase' = "stopReap"
    /\ UNCHANGED <<callVars, readVars, procVars, pipes, env, workerVars>>

\* shutdownGrace expires.
StopGrace ==
    /\ phase = "stopWait"
    /\ phase' = "stopReap"
    /\ proc' = IF proc = "running" THEN "killed" ELSE proc
    /\ UNCHANGED <<callVars, readVars, dead, wait, pipes, env, workerVars>>

StopReturn ==
    /\ phase \in {"stopWait", "stopReap"}
    /\ wait = "reaped"
    /\ phase' = "stopped"
    /\ UNCHANGED <<callVars, readVars, procVars, pipes, env, workerVars>>

\* cmd.Wait returns, in killAndMark's goroutine or in Stop's.
Reap ==
    /\ wait = "waiting"
    /\ proc = "exited"
    /\ wait' = "reaped"
    /\ UNCHANGED <<phase, callVars, readVars, dead, proc, pipes, env,
                   workerVars>>

-----------------------------------------------------------------------------
(* The child process: a worker built on one of the libraries, which may be *)
(* slow, hang, crash, or print lines of its own on stdout.                 *)

WorkerTakes ==
    /\ Alive
    /\ wk = "idle"
    /\ stdin # <<>>
    /\ stdin' = Tail(stdin)
    /\ IF Head(stdin) = Exit
       THEN proc' = "exited" /\ UNCHANGED <<wk, wreq>>
       ELSE wk' = "busy" /\ wreq' = Head(stdin) /\ UNCHANGED proc
    /\ UNCHANGED <<phase, callVars, readVars, dead, wait, stdout, stderr, env,
                   bound, served, strays, logs>>

\* Each request is answered by one line; bind selects what later requests
\* operate on.  A pair that is not supported leaves nothing selected; a bind in
\* error may leave the selection as it was, as the Go library does.
WorkerAnswers(st) ==
    /\ Alive
    /\ wk = "busy"
    /\ Len(stdout) < StdoutCap
    /\ st = "VERSION" => wreq = Ping
    /\ stdout' = Append(stdout, Response(wreq, st))
    /\ served' = served \cup {wreq}
    /\ bound' \in IF OpOf[wreq] # "bind" THEN {bound}
                  ELSE IF st = "OK" THEN {wreq}
                  ELSE IF st = "SKIPPED" THEN {NoCall} ELSE {bound, NoCall}
    /\ wk' = "idle"
    /\ wreq' = NoCall
    /\ UNCHANGED <<phase, callVars, readVars, procVars, stdin, stderr, env,
                   strays, logs>>

\* A line that answers no pending request: a print left in the worker's code,
\* an oversized line, or an answer given twice.
WorkerStrays ==
    /\ Alive
    /\ strays < StrayLimit
    /\ Len(stdout) < StdoutCap
    /\ \E line \in {NoResponse("junk"), NoResponse("big")}
                   \cup {Response(c, "OK") : c \in served} :
          stdout' = Append(stdout, line)
    /\ strays' = strays + 1
    /\ UNCHANGED <<phase, callVars, readVars, procVars, stdin, stderr, env, wk,
                   wreq, bound, served, logs>>

\* While it works on a request the worker logs a line, and is stuck in that
\* write as long as the pipe is full.
WorkerLogs ==
    /\ Alive
    /\ wk = "busy"
    /\ logs < LogLimit
    /\ wk' = "logging"
    /\ logs' = logs + 1
    /\ UNCHANGED <<phase, callVars, readVars, procVars, pipes, env, wreq, bound,
                   served, strays>>

WorkerLogged ==
    /\ Alive
    /\ wk = "logging"
    /\ stderr < StderrCap
    /\ stderr' = stderr + 1
    /\ wk' = "busy"
    /\ UNCHANGED <<phase, callVars, readVars, procVars, stdin, stdout, env,
                   wreq, bound, served, strays, logs>>

\* A crash, or the end of input, or a kill that has taken effect.
WorkerExits ==
    /\ Alive
    /\ proc' = "exited"
    /\ UNCHANGED <<phase, callVars, readVars, dead, wait, pipes, env,
                   workerVars>>

KillLands == proc = "killed" /\ WorkerExits

\* Nothing is left to do once Stop has returned and the process is reaped.
Terminated ==
    /\ phase = "stopped"
    /\ wait = "reaped"
    /\ UNCHANGED vars

-----------------------------------------------------------------------------
Next ==
    \/ Start \/ CancelCtx \/ CtxKill
    \/ \E c \in Calls : \/ Call(c) \/ Lock(c) \/ Write(c) \/ WriteFails(c)
                        \/ ReadLine(c) \/ Receive(c) \/ Timeout(c) \/ Cancelled(c)
    \/ DrainScan \/ DrainAppend
    \/ StopBegin \/ StopLock \/ StopWrite \/ StopClose \/ StopGrace \/ StopReturn
    \/ Reap
    \/ WorkerTakes \/ (\E st \in Statuses : WorkerAnswers(st))
    \/ WorkerStrays \/ WorkerLogs \/ WorkerLogged \/ WorkerExits
    \/ Terminated

\* The Go scheduler runs every goroutine that can run, timers fire, kills land,
\* and sync.Mutex does not starve a waiter.  Nothing is assumed of the worker
\* (it may hang) or of the user (who may never interrupt).
Fairness ==
    /\ \A c \in Calls : /\ SF_vars(Lock(c)) /\ WF_vars(Write(c))
                        /\ WF_vars(WriteFails(c)) /\ WF_vars(ReadLine(c))
                        /\ WF_vars(Receive(c)) /\ WF_vars(Timeout(c))
    /\ WF_vars(Start) /\ WF_vars(CtxKill) /\ WF_vars(KillLands)
    /\ WF_vars(DrainScan) /\ SF_vars(DrainAppend)
    /\ WF_vars(StopLock) /\ WF_vars(StopWrite) /\ WF_vars(StopClose)
    /\ WF_vars(StopGrace) /\ WF_vars(StopReturn) /\ WF_vars(Reap)

Spec == Init /\ [][Next]_vars
FairSpec == Spec /\ Fairness
-----------------------------------------------------------------------------
(* Properties. *)

\* Every variable of a session keeps its type; in particular the loop of the
\* worker never works on nothing, and no pipe is read below empty (worker.go:53-68).
TypeOK ==
    /\ phase \in {"new", "ping", "up", "stopLock", "stopWrite", "stopClose",
                  "stopWait", "stopReap", "stopped"}
    /\ pc \in [Calls -> {"idle", "lock", "write", "read", "done"}]
    /\ mu \in Calls \cup {NoCall}
    /\ dead \in BOOLEAN
    /\ ctxDone \in BOOLEAN
    /\ parked \subseteq Calls
    /\ chan \in [Calls -> Line]
    /\ scanErr \in BOOLEAN
    /\ outcome \in [Calls -> {"none", "answered", "skipped", "refused", "failed"}]
    /\ got \in [Calls -> Calls \cup {NoCall}]
    /\ drain \in {"scan", "lock", "gone"}
    /\ stdin \in Seq(Calls \cup {Exit})
    /\ stdout \in Seq(Line)
    /\ stderr \in Nat
    /\ proc \in {"none", "running", "killed", "exited"}
    /\ wait \in {"no", "waiting", "reaped"}
    /\ wk \in {"idle", "busy", "logging"}
    /\ wreq \in Calls \cup {NoCall}
    /\ wk # "idle" => wreq \in Calls
    /\ bound \in Calls \cup {NoCall}
    /\ served \subseteq Calls
    /\ strays \in Nat
    /\ logs \in Nat

Open(c) == pc[c] \in {"write", "read"}

\* Who is inside a round trip: ping alone while Start runs, afterwards exactly
\* the call that holds mu, and nobody once the worker is marked dead.  A reader
\* goroutine belongs to the call that still waits for it, or the worker is dead
\* (worker.go:139, 192-196, 231-236, 323-336).
SessionInv ==
    /\ phase \in {"new", "ping"} =>
          mu = NoCall /\ ~dead /\ \A c \in Calls : c # Ping => pc[c] = "idle"
    /\ phase = "new" => pc[Ping] = "idle"
    /\ phase = "ping" => Open(Ping)
    /\ mu # Ping /\ pc[Ping] # "lock"
    /\ \A c \in Calls : Open(c) => ~dead /\ (mu = c \/ (c = Ping /\ phase = "ping"))
    /\ \A c \in Calls : mu = c => Open(c)
    /\ \A c \in parked : pc[c] = "read" \/ (dead /\ pc[c] = "done")
    /\ \A c \in Calls : c \in parked \/ pc[c] \in {"idle", "lock", "write"}
                           => chan[c].kind = "none"
    /\ \A c, d \in parked : c = d

\* A response Send hands to its caller answers that very request, although
\* stray lines, late answers and the shared id of a case's two rounds can put a
\* response on stdout that another request is waiting for (worker.go:242-249).
SendCorrelated ==
    \A c \in Calls : IsSend(c) => got[c] \in {c, NoCall}

\* The Scanner is not safe for concurrent use: at no time are two reader
\* goroutines inside it, an abandoned one included (worker.go:252-255).
AtMostOneReader ==
    \A c, d \in parked : c = d

\* Once Bind returns nil the worker operates on that pair, and once it returns
\* ErrTypeNotSupported the worker operates on none (worker.go:177-184), as long as
\* the worker has printed nothing but answers: a bind response carries no id, so
\* one that is left over from an earlier bind is taken for the current one.
CleanBindTakesEffect ==
    [][\A c \in Calls : strays = 0 /\ OpOf[c] = "bind" /\ pc[c] = "read" =>
          /\ outcome'[c] = "answered" => bound = c
          /\ outcome'[c] = "skipped" => bound = NoCall]_vars

\* A write that finds the pipe full, of a process that lives and does not read.
\* No timer runs on it (worker.go:206, 238, 348).
StdinFull == Alive /\ Len(stdin) >= StdinCap

CallHeld == StdinFull /\ \E c \in Calls : pc[c] = "write"
StopHeld == StdinFull /\ phase = "stopWrite"

\* --timeout bounds a request (run.go:63), but for its write: as long as no call
\* is held for good on a full stdin, every call that was made returns, whatever
\* else the worker does, also the calls that wait for the mutex.  The condition is
\* needed: junk on stdout ends a call whose request is still in the pipe without
\* killing the worker, and the next request may not fit.
CallsReturn ==
    []<>~CallHeld =>
        \A c \in Calls : pc[c] \in {"lock", "write", "read"} ~> pc[c] = "done"

\* Once Stop is called it returns, and the process is reaped, unless there is no
\* room for the exit message on stdin: that write comes before the timer which
\* lets "If the worker doesn't exit within ~5 seconds, it is killed" happen
\* (worker.go:338-339, 348-368).
StopReaps ==
    []<>~StopHeld => (phase = "stopLock" ~> phase = "stopped" /\ wait = "reaped")

\* A worker that writes diagnostics to stderr is not stuck on that write for
\* as long as the runner waits for its answer (worker.go:130-137, 192, 231).
NoStderrDeadlock ==
    ~ /\ Alive /\ wk = "logging" /\ stderr = StderrCap
      /\ drain = "lock" /\ mu # NoCall
      /\ pc[mu] = "read"

\* The session implements RequestReply: a call is open from the moment it holds
\* the mutex until it returns.
AbstractStatus ==
    [c \in Calls |->
        IF pc[c] \in {"idle", "lock"} THEN "new"
        ELSE IF Open(c) THEN "open"
        ELSE IF outcome[c] \in {"answered", "skipped"} THEN "answered" ELSE "failed"]

Abstract == INSTANCE RequestReply
                WITH status <- AbstractStatus, usable <- ~dead

\* Every step of the session is a step of RequestReply or changes nothing there.
ImplementsRequestReply == Abstract!Spec
=============================================================================
