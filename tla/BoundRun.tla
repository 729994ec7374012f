------------------------------- MODULE BoundRun -------------------------------
(***************************************************************************)
(* A run of the suite together with its workers: every bind and every       *)
(* request of Orchestrator is handled by a process that keeps BoundWorker's *)
(* contract, or is lost with the transport.  What a worker is registered    *)
(* for is its own affair.  A (type, format) pair is the group it makes up.  *)
(***************************************************************************)
EXTENDS Orchestrator

VARIABLES
    chosen,   \* per worker: the group its functions were bound for, or NoPair
    said,     \* per worker: its last answer
    origin      \* history: per answered key, the group whose functions answered

workerVars == <<chosen, said>>
boundVars == <<vars, workerVars, origin>>

NoPair == 0
Worker(l, can) == INSTANCE BoundWorker
    WITH Pairs <- DOMAIN Groups, Works <- Rounds, Can <- can, Nil <- NoPair,
         selected <- chosen[l], answer <- said[l]
Registrations == [Rounds -> SUBSET DOMAIN Groups]

Round == IF stage = "ser" THEN "serialize" ELSE "deserialize"

\* A transport error says nothing about what the worker did.
Lost(r) == r.kind \in {"fatal", "broken"}
StatusOf(r) ==
    CASE r.kind = "ok" -> "OK"
      [] r.kind = "skipped" -> "SKIPPED"
      [] r.kind = "error" -> "ERROR"
      [] OTHER -> "none"

\* Worker l answers r, or is not heard of again, and has chosen s afterwards.
Silence == [op |-> "none", status |-> "none", ran |-> NoPair]
Handles(l, op, r, s) ==
    /\ chosen' = [chosen EXCEPT ![l] = s]
    /\ said' = [said EXCEPT ![l] =
                     IF Lost(r) THEN Silence
                     ELSE [op |-> op, status |-> StatusOf(r),
                           ran |-> IF op \in Rounds /\ r.kind = "ok" THEN chosen[l] ELSE NoPair]]

BindHandled(l, r) ==
    \E s \in {chosen[l], g, NoPair} :
        /\ Handles(l, "bind", r, s)
        /\ \/ Lost(r)
           \/ \E can \in Registrations :
                 Worker(l, can)!Select(g) \/ Worker(l, can)!Clear \/ Worker(l, can)!Refuse

WorkHandled(l, op, r) ==
    /\ Handles(l, op, r, chosen[l])
    /\ \/ Lost(r)
       \/ \E can \in Registrations :
             Worker(l, can)!Work(op) \/ Worker(l, can)!Skip(op) \/ Worker(l, can)!Idle(op)

\* What is recorded under k is worker l's last answer.
Origin(k, l) == origin' = Over(Rows({k}, said'[l].ran), origin)

-----------------------------------------------------------------------------
BoundInit ==
    /\ Init
    /\ chosen = [l \in Langs |-> NoPair]
    /\ said = [l \in Langs |-> Silence]
    /\ origin = [k \in {} |-> NoPair]

BoundBind(l, r) == Bind(l, r) /\ BindHandled(l, r) /\ UNCHANGED origin

BoundReplied(l, r) ==
    /\ Replied(l, r)
    /\ WorkHandled(l, Round, r)
    /\ UNCHANGED origin

BoundRecord(l) ==
    /\ SerRecord(l) \/ DesRecord(l)
    /\ UNCHANGED workerVars
    /\ IF cancelled THEN UNCHANGED origin ELSE Origin(Key(l, Round), l)

\* Only the semantic comparison asks a worker, the reference.
BoundCompare(l) ==
    /\ Compare(l)
    /\ IF hex[Ref] # "none" /\ Groups[g].oracle = "semantic"
       THEN /\ WorkHandled(Ref, "deserialize", answers'[Key(l, "semantic")])
            /\ Origin(Key(l, "semantic"), Ref)
       ELSE UNCHANGED <<workerVars, origin>>

BoundMatrix(p, r) ==
    /\ Matrix(p, r)
    /\ WorkHandled(p[2], "deserialize", r)
    /\ Origin(Key(p, "matrix"), p[2])

\* Steps that ask no worker anything.
AsksNobody ==
    /\ \/ \E l \in Langs : StartWorker(l)
       \/ StartFails \/ Bound \/ StartCase \/ SerDone \/ CompareDone \/ DesDone \/ MatrixDone
       \/ Finish
    /\ UNCHANGED <<workerVars, origin>>

BoundStep ==
    \/ \E l \in Langs, r \in Replies \cup {NoValue("fatal")} : BoundBind(l, r) \/ BoundReplied(l, r)
    \/ \E l \in Langs : BoundRecord(l) \/ BoundCompare(l)
    \/ \E p \in Langs \X Langs, r \in Replies \cup {NoValue("fatal")} : BoundMatrix(p, r)
    \/ AsksNobody

BoundNext == BoundStep \/ ((Cancel \/ Terminated) /\ UNCHANGED <<workerVars, origin>>)

BoundSpec == BoundInit /\ [][BoundNext]_boundVars
\* Every Bind and Send returns (WorkerSession), so the run keeps moving.
BoundFairSpec == BoundSpec /\ WF_boundVars(BoundStep)

-----------------------------------------------------------------------------
(* Properties. *)

\* The verdict of a row was earned by the functions it names: no PASS or XPASS
\* rests on what a worker did while it was still bound to another type or format,
\* after a bind it refused, skipped or never answered (orch.go:99-163).
PassedByItsPair ==
    \A k \in DOMAIN results :
        results[k] \in {"PASS", "XPASS"} => k \in DOMAIN origin /\ origin[k] = k[1]
=============================================================================
