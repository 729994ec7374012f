----------------------------- MODULE Orchestrator -----------------------------
(***************************************************************************)
(* A run of the suite: RunSuite, runTypeFormat, Run, runMatrix and         *)
(* semanticSerializeDiff of internal/orch/orch.go, CheckExpectedSkips of   *)
(* coverage.go, Report.Add, and the exit code runTests derives from them.  *)
(* A worker is what RequestReply says of it: every Bind and Send returns a *)
(* reply or an error, and after a fatal error only errors.                 *)
(***************************************************************************)
EXTENDS Naturals, Sequences

CONSTANTS
    Langs, Ref,     \* the workers, one per language, and the reference
    Groups,         \* the (type, format) pairs: a sequence of [type, oracle]
    CaseNames,      \* the case names of a type, in file order
    Unencodable,    \* names of cases EncodeData rejects
    KnownFails,     \* the known failures declared: <<lang, group, case>>
    FullMatrix,     \* --full-matrix
    Enforce,        \* the expected-skips directory exists
    SkipTypes,      \* expected skips: <<lang, type>> entries ...
    SkipOps,        \* ... and <<lang, op, type>> entries
    Replies,        \* what a worker may answer
    MayCancel       \* the user may interrupt the run

\* A reply, as Send or Bind returns it.  "odd" is a status outside the protocol;
\* "fatal" and "broken" are transport errors that do and do not kill the worker.
\* The value stands for the hex of a serialize response ("good" is what the case
\* should serialize to, "empty" is zero bytes) and for the data of a deserialize
\* response ("good" is the data of the case).  audit: it carries a finding.
Values == {"good", "other", "empty"}
Reply == [kind : {"none", "ok", "skipped", "error", "odd", "fatal", "broken"},
          value : Values, audit : BOOLEAN]
NoValue(k) == [kind |-> k, value |-> "empty", audit |-> FALSE]
Good(r) == r.kind = "ok" /\ r.value = "good"

Names == {CaseNames[n] : n \in DOMAIN CaseNames}

ASSUME SuiteAssumption ==
    /\ Ref \in Langs
    /\ Groups \in Seq([type : {Groups[n].type : n \in DOMAIN Groups},
                       oracle : {"bytes", "semantic"}])
    /\ CaseNames \in Seq(Names)
    /\ Groups # <<>> /\ CaseNames # <<>>
    /\ Replies \subseteq {r \in Reply : r.kind # "none"}
    /\ FullMatrix \in BOOLEAN /\ Enforce \in BOOLEAN /\ MayCancel \in BOOLEAN
    /\ KnownFails \subseteq Langs \X (DOMAIN Groups) \X Names

VARIABLES
    stage,      \* start, bind, case, ser, compare, des, matrix, finish, done
    up,         \* the workers that were started and not stopped
    g, i,       \* the group and the case under test
    sub,        \* the workers bound to the group
    todo,       \* workers, or matrix pairs, the stage has not dealt with
    inbox,      \* per worker: a reply whose goroutine has not recorded it yet
    hex,        \* per worker: what it serialized, "none" unless it did
    dead,       \* workers a transport error killed
    cancelled,  \* the context of the run was cancelled
    firstErr,   \* RunSuite has an error to return
    results,    \* Report.Results: the status of every recorded key
    failures, warnings,  \* Report.Failures and Warnings: their keys
    stale,      \* the expected-skips entries reported as stale
    answers,    \* history: the reply behind a key
    printed,    \* the report was printed
    exit        \* the exit code, once there is one

reportVars == <<results, failures, warnings>>
endVars == <<stale, printed, exit>>
vars == <<stage, up, g, i, sub, todo, inbox, hex, dead, cancelled, firstErr,
          reportVars, answers, endVars>>

-----------------------------------------------------------------------------
Case == CaseNames[i]
Key(who, op) == <<g, Case, who, op>>
Rounds == {"serialize", "deserialize"}
Known(l) == <<l, g, Case>> \in KnownFails

Rows(keys, status) == [k \in keys |-> status]
NoRows == Rows({}, "SKIP")
\* What a map holds once new entries were written to it.
Over(new, old) ==
    [k \in DOMAIN new \cup DOMAIN old |-> IF k \in DOMAIN new THEN new[k] ELSE old[k]]

\* Mutant of Add: only ERROR reaches Failures.
AddMissesFail(rows) ==
    /\ results' = Over(rows, results)
    /\ failures' = failures \cup {k \in DOMAIN rows : rows[k] = "ERROR"}
    /\ warnings' = warnings \cup {k \in DOMAIN rows : rows[k] \in {"WARN", "XPASS"}}

\* Report.Add for each of a set of rows: Results is overwritten, Failures and
\* Warnings only grow.
Add(rows) ==
    /\ results' = Over(rows, results)
    /\ failures' = failures \cup {k \in DOMAIN rows : rows[k] \in {"FAIL", "ERROR"}}
    /\ warnings' = warnings \cup {k \in DOMAIN rows : rows[k] \in {"WARN", "XPASS"}}

\* markType: every case and both rounds of the group, for some workers.  A SKIP
\* with one of the two cascade details is written CASCADE.
TypeRows(ls, status) == Rows({<<g, n, l, op>> : n \in Names, l \in ls, op \in Rounds}, status)

\* Mutant of Verdict: a known failure is settled before the comparison.
VerdictKnownFirst(differs, known) ==
    IF known THEN "XPASS" ELSE IF differs THEN "FAIL" ELSE "PASS"

\* Mutant of ResolveResult: a known failure excuses a transport error too.
ResolveResultExcuses(r, known) ==
    CASE r.kind = "ok" -> IF known THEN "XPASS" ELSE "PASS"
      [] r.kind = "skipped" -> "SKIP"
      [] r.kind = "error" -> IF known THEN "XFAIL" ELSE "FAIL"
      [] OTHER -> IF known THEN "XFAIL" ELSE "ERROR"

\* verdict and resolveResult.
Verdict(differs, known) ==
    IF differs THEN IF known THEN "XFAIL" ELSE "FAIL"
    ELSE IF known THEN "XPASS" ELSE "PASS"

ResolveResult(r, known) ==
    CASE r.kind = "ok" -> IF known THEN "XPASS" ELSE "PASS"
      [] r.kind = "skipped" -> "SKIP"
      [] r.kind = "error" -> IF known THEN "XFAIL" ELSE "FAIL"
      [] OTHER -> "ERROR"

\* Mutant of MatrixStatus: the decoded data is not looked at.
MatrixStatusNoDiff(r, known) == ResolveResult(r, known)

\* The matrix compares the data only of what resolveResult calls a PASS.
MatrixStatus(r, known) ==
    IF ResolveResult(r, known) = "PASS" /\ ~Good(r) THEN "FAIL" ELSE ResolveResult(r, known)

\* One request to worker l: a dead worker refuses it, and a cancelled context
\* may fail it and kill the worker.
Sends(l, r) ==
    /\ r \in IF l \in dead THEN {NoValue("fatal")}
             ELSE Replies \cup IF cancelled THEN {NoValue("fatal")} ELSE {}
    /\ dead' = IF r.kind = "fatal" THEN dead \cup {l} ELSE dead

Init ==
    /\ stage = "start" /\ g = 1 /\ i = 1
    /\ up = {} /\ sub = {} /\ todo = Langs
    /\ inbox = [l \in Langs |-> NoValue("none")]
    /\ hex = [l \in Langs |-> "none"]
    /\ dead = {} /\ cancelled = FALSE /\ firstErr = FALSE
    /\ results = NoRows /\ failures = {} /\ warnings = {} /\ stale = {}
    /\ answers = NoRows
    /\ printed = FALSE /\ exit = "none"

NextGroup ==
    /\ sub' = {} /\ i' = 1
    /\ IF g < Len(Groups)
       THEN stage' = "bind" /\ g' = g + 1 /\ todo' = Langs
       ELSE stage' = "finish" /\ g' = g /\ todo' = {}

\* Mutant of NextCase: one case too many.
NextCaseOffByOne ==
    IF i <= Len(CaseNames)
    THEN stage' = "case" /\ i' = i + 1 /\ todo' = {} /\ UNCHANGED <<g, sub>>
    ELSE NextGroup

NextCase ==
    IF i < Len(CaseNames)
    THEN stage' = "case" /\ i' = i + 1 /\ todo' = {} /\ UNCHANGED <<g, sub>>
    ELSE NextGroup

-----------------------------------------------------------------------------
\* startWorkers: one worker after the other; the run begins when all are up.
StartWorker(l) ==
    /\ stage = "start"
    /\ l \in todo
    /\ up' = up \cup {l}
    /\ \/ todo = {l} /\ stage' = "bind" /\ todo' = Langs
       \/ todo # {l} /\ todo' = todo \ {l} /\ UNCHANGED stage
    /\ UNCHANGED <<g, i, sub, inbox, hex, dead, cancelled, firstErr, reportVars, answers, endVars>>

\* A worker does not start or fails its ping: the others are stopped.
StartFails ==
    /\ stage = "start"
    /\ stage' = "done" /\ exit' = "one"
    /\ up' = {}
    /\ UNCHANGED <<g, i, sub, todo, inbox, hex, dead, cancelled, firstErr, reportVars,
                   answers, stale, printed>>

\* Mutant of Bind: only a worker that declines counts as not bound.
BindErrorCounts(l, r) ==
    /\ stage = "bind"
    /\ l \in todo
    /\ Sends(l, r)
    /\ todo' = todo \ {l}
    /\ CASE r.kind \in {"ok", "odd", "error"} -> sub' = sub \cup {l} /\ Add(NoRows)
         [] r.kind = "skipped" -> Add(TypeRows({l}, "SKIP")) /\ UNCHANGED sub
         [] OTHER -> Add(TypeRows({l}, "ERROR")) /\ UNCHANGED sub
    /\ UNCHANGED <<stage, up, g, i, inbox, hex, cancelled, firstErr, answers, endVars>>

\* Bind one worker to the group.  An unknown status counts as bound.
Bind(l, r) ==
    /\ stage = "bind"
    /\ l \in todo
    /\ Sends(l, r)
    /\ todo' = todo \ {l}
    /\ CASE r.kind \in {"ok", "odd"} -> sub' = sub \cup {l} /\ Add(NoRows)
         [] r.kind = "skipped" -> Add(TypeRows({l}, "SKIP")) /\ UNCHANGED sub
         [] OTHER -> Add(TypeRows({l}, "ERROR")) /\ UNCHANGED sub
    /\ UNCHANGED <<stage, up, g, i, inbox, hex, cancelled, firstErr, answers, endVars>>

\* Mutant of Bound: the other workers' rows are not marked.
BoundSilent ==
    /\ stage = "bind"
    /\ todo = {}
    /\ IF Ref \in sub THEN stage' = "case" /\ UNCHANGED <<g, i, sub, todo>> ELSE NextGroup
    /\ UNCHANGED <<up, inbox, hex, dead, cancelled, firstErr, reportVars, answers, endVars>>

\* Without the reference nothing in the group can be compared.
Bound ==
    /\ stage = "bind"
    /\ todo = {}
    /\ \/ /\ Ref \in sub
          /\ stage' = "case"
          /\ Add(NoRows)
          /\ UNCHANGED <<g, i, sub, todo>>
       \/ /\ Ref \notin sub
          /\ Add(TypeRows(sub, "CASCADE"))
          /\ NextGroup
    /\ UNCHANGED <<up, inbox, hex, dead, cancelled, firstErr, answers, endVars>>

\* encodeCase, then round 1 with no output yet.
StartCase ==
    /\ stage = "case"
    /\ hex' = [l \in Langs |-> "none"]
    /\ \/ /\ Case \in Unencodable
          /\ firstErr' = TRUE
          /\ Add(Rows({Key(l, op) : l \in sub, op \in Rounds}, "ERROR"))
          /\ NextCase
       \/ /\ Case \notin Unencodable
          /\ stage' = "ser"
          /\ todo' = sub
          /\ UNCHANGED <<g, i, sub, firstErr, reportVars>>
    /\ UNCHANGED <<up, inbox, dead, cancelled, answers, endVars>>

\* Send returns in the goroutine of worker l, in round 1 or 2.
Replied(l, r) ==
    /\ stage \in {"ser", "des"}
    /\ l \in todo
    /\ inbox[l].kind = "none"
    /\ Sends(l, r)
    /\ inbox' = [inbox EXCEPT ![l] = r]
    /\ UNCHANGED <<stage, up, g, i, sub, todo, hex, cancelled, firstErr, reportVars,
                   answers, endVars>>

AuditRows(l, op) ==
    IF inbox[l].audit THEN Rows({Key(l, op)}, "WARN") ELSE NoRows

\* Mutant of Recorded: the group never hears that the goroutine is done.
RecordedNotDone(l) ==
    /\ l \in todo
    /\ inbox[l].kind # "none"
    /\ inbox' = [inbox EXCEPT ![l] = NoValue("none")]
    /\ UNCHANGED <<stage, up, g, i, sub, todo, dead, cancelled, firstErr, endVars>>

\* The rest of the goroutine: a cancelled context drops the reply.
Recorded(l) ==
    /\ l \in todo
    /\ inbox[l].kind # "none"
    /\ todo' = todo \ {l}
    /\ inbox' = [inbox EXCEPT ![l] = NoValue("none")]
    /\ UNCHANGED <<stage, up, g, i, sub, dead, cancelled, firstErr, endVars>>

\* Round 1: the bytes of a worker other than the reference are judged later.
SerRecord(l) ==
    /\ stage = "ser"
    /\ Recorded(l)
    /\ IF cancelled
       THEN UNCHANGED <<hex, reportVars, answers>>
       ELSE LET ok == inbox[l].kind = "ok" IN
            /\ hex' = IF ok THEN [hex EXCEPT ![l] = inbox[l].value] ELSE hex
            /\ answers' = Over(Rows({Key(l, "serialize")}, inbox[l]), answers)
            /\ Add(Over(AuditRows(l, "audit-serialize"),
                        IF ok /\ l # Ref THEN NoRows
                        ELSE Rows({Key(l, "serialize")}, ResolveResult(inbox[l], Known(l)))))

\* Mutant of SerDone: a worker that sent no bytes is judged like the others.
SerDoneJudgesAll ==
    /\ stage = "ser"
    /\ todo = {}
    /\ stage' = "compare"
    /\ todo' = sub \ {Ref}
    /\ UNCHANGED <<up, g, i, sub, inbox, hex, dead, cancelled, firstErr, reportVars,
                   answers, endVars>>

SerDone ==
    /\ stage = "ser"
    /\ todo = {}
    /\ stage' = "compare"
    /\ todo' = {l \in sub \ {Ref} : hex[l] # "none"}
    /\ UNCHANGED <<up, g, i, sub, inbox, hex, dead, cancelled, firstErr, reportVars,
                   answers, endVars>>

\* Judge one worker's bytes: against the reference's, or by what the reference
\* makes of them.
Compare(l) ==
    /\ stage = "compare"
    /\ l \in todo
    /\ todo' = todo \ {l}
    /\ CASE hex[Ref] = "none" ->
              /\ Add(Rows({Key(l, "serialize")}, "PASS"))
              /\ UNCHANGED <<dead, answers>>
         [] hex[Ref] # "none" /\ Groups[g].oracle = "bytes" ->
              /\ Add(Rows({Key(l, "serialize")}, Verdict(hex[l] # hex[Ref], Known(l))))
              /\ UNCHANGED <<dead, answers>>
         [] OTHER -> \E r \in Replies \cup {NoValue("fatal")} :
              /\ Sends(Ref, r)
              /\ Add(Rows({Key(l, "serialize")}, Verdict(~Good(r), Known(l))))
              /\ answers' = Over(Rows({Key(l, "semantic")}, r), answers)
    /\ UNCHANGED <<stage, up, g, i, sub, inbox, hex, cancelled, firstErr, endVars>>

\* Round 2 needs the reference's bytes.
CompareDone ==
    /\ stage = "compare"
    /\ todo = {}
    /\ \/ /\ hex[Ref] = "none"
          /\ Add(Rows({Key(l, "deserialize") : l \in sub}, "CASCADE"))
          /\ NextCase
       \/ /\ hex[Ref] # "none"
          /\ stage' = "des"
          /\ todo' = sub
          /\ UNCHANGED <<g, i, sub, reportVars>>
    /\ UNCHANGED <<up, inbox, hex, dead, cancelled, firstErr, answers, endVars>>

DesRecord(l) ==
    /\ stage = "des"
    /\ Recorded(l)
    /\ IF cancelled
       THEN UNCHANGED <<reportVars, answers>>
       ELSE /\ answers' = Over(Rows({Key(l, "deserialize")}, inbox[l]), answers)
            /\ Add(Over(AuditRows(l, "audit-deserialize"),
                        Rows({Key(l, "deserialize")},
                             IF inbox[l].kind = "ok" THEN Verdict(~Good(inbox[l]), Known(l))
                             ELSE ResolveResult(inbox[l], Known(l)))))
    /\ UNCHANGED hex

\* The matrix skips a source whose hex string is empty.
DesDone ==
    /\ stage = "des"
    /\ todo = {}
    /\ \/ /\ ~FullMatrix
          /\ NextCase
          /\ UNCHANGED reportVars
       \/ /\ FullMatrix
          /\ LET mute == {l \in sub : hex[l] \in {"none", "empty"}} IN
             /\ Add(Rows({Key(p, "matrix") : p \in mute \X sub}, "SKIP"))
             /\ todo' = (sub \ mute) \X sub
          /\ stage' = "matrix"
          /\ UNCHANGED <<g, i, sub>>
    /\ UNCHANGED <<up, inbox, hex, dead, cancelled, firstErr, answers, endVars>>

\* p[2] deserializes what p[1] serialized.
Matrix(p, r) ==
    /\ stage = "matrix"
    /\ p \in todo
    /\ Sends(p[2], r)
    /\ todo' = todo \ {p}
    /\ Add(Rows({Key(p, "matrix")}, MatrixStatus(r, Known(p[2]))))
    /\ answers' = Over(Rows({Key(p, "matrix")}, r), answers)
    /\ UNCHANGED <<stage, up, g, i, sub, inbox, hex, cancelled, firstErr, endVars>>

\* Mutant of MatrixDone: the next case does not wait for the goroutines.
MatrixDoneNoWait ==
    /\ stage = "matrix"
    /\ NextCase
    /\ UNCHANGED <<up, inbox, hex, dead, cancelled, firstErr, reportVars, answers, endVars>>

MatrixDone ==
    /\ stage = "matrix"
    /\ todo = {}
    /\ NextCase
    /\ UNCHANGED <<up, inbox, hex, dead, cancelled, firstErr, reportVars, answers, endVars>>

\* SIGINT or SIGTERM.
Cancel ==
    /\ MayCancel
    /\ ~cancelled
    /\ stage # "done"
    /\ cancelled' = TRUE
    /\ UNCHANGED <<stage, up, g, i, sub, todo, inbox, hex, dead, firstErr, reportVars,
                   answers, endVars>>

-----------------------------------------------------------------------------
TypeOf(k) == Groups[k[1]].type
Skips == {k \in DOMAIN results : results[k] = "SKIP"}

\* printTable counts the rows for the line that ends the report; printJUnit
\* marks the failures of both rounds.
Announced ==
    IF \E k \in DOMAIN results : results[k] \in {"FAIL", "ERROR"} THEN "one" ELSE "zero"
JUnitFailures ==
    {k \in DOMAIN results : k[4] \in Rounds /\ results[k] \in {"FAIL", "ERROR"}}

\* Mutant of Declared: the operations section is not consulted.
DeclaredTypesOnly(k) == <<k[3], TypeOf(k)>> \in SkipTypes

\* The expected-skips entry CheckExpectedSkips charges a SKIP row to, if any.
Declared(k) == <<k[3], TypeOf(k)>> \in SkipTypes \/ <<k[3], k[4], TypeOf(k)>> \in SkipOps
EntryOf(k) ==
    IF <<k[3], TypeOf(k)>> \in SkipTypes THEN <<k[3], TypeOf(k)>>
    ELSE <<k[3], k[4], TypeOf(k)>>

\* Skips that no entry allows become FAIL rows; entries that allowed nothing are
\* reported under a test id of their own.
Undeclared == {k \in Skips : ~Declared(k)}
Stale == (SkipTypes \cup SkipOps) \ {EntryOf(k) : k \in Skips}

\* runTests after RunSuite: an error ends the run at once; otherwise the
\* coverage check, the report, and the exit code.  The workers are stopped.
Finish ==
    /\ stage = "finish"
    /\ stage' = "done"
    /\ up' = {}
    /\ IF firstErr
       THEN exit' = "one" /\ UNCHANGED <<reportVars, stale, printed>>
       ELSE /\ Add(IF Enforce THEN Rows(Undeclared, "FAIL") ELSE NoRows)
            /\ stale' = IF Enforce THEN Stale ELSE {}
            /\ printed' = TRUE
            /\ exit' = IF failures' = {} THEN "zero" ELSE "one"
    /\ UNCHANGED <<g, i, sub, todo, inbox, hex, dead, cancelled, firstErr, answers>>

Terminated == stage = "done" /\ UNCHANGED vars

Step ==
    \/ \E l \in Langs : StartWorker(l)
    \/ StartFails
    \/ \E l \in Langs, r \in Replies \cup {NoValue("fatal")} : Bind(l, r) \/ Replied(l, r)
    \/ \E l \in Langs : SerRecord(l) \/ Compare(l) \/ DesRecord(l)
    \/ \E p \in Langs \X Langs, r \in Replies \cup {NoValue("fatal")} : Matrix(p, r)
    \/ Bound \/ StartCase \/ SerDone \/ CompareDone \/ DesDone \/ MatrixDone \/ Finish

Next == Step \/ Cancel \/ Terminated

Spec == Init /\ [][Next]_vars

-----------------------------------------------------------------------------
(* Properties. *)

Keys == (DOMAIN Groups) \X Names \X (Langs \cup (Langs \X Langs)) \X
        {"serialize", "deserialize", "semantic", "matrix", "audit-serialize",
         "audit-deserialize"}

\* The state of a run keeps its type: rows exist only for keys of the suite, and
\* no case beyond the last is started (orch.go:163-186).
TypeOK ==
    /\ stage \in {"start", "bind", "case", "ser", "compare", "des", "matrix", "finish", "done"}
    /\ g \in DOMAIN Groups /\ i \in DOMAIN CaseNames
    /\ up \subseteq Langs /\ sub \subseteq Langs
    /\ todo \subseteq Langs \cup (Langs \X Langs)
    /\ inbox \in [Langs -> Reply]
    /\ hex \in [Langs -> Values \cup {"none"}]
    /\ dead \subseteq Langs
    /\ cancelled \in BOOLEAN /\ firstErr \in BOOLEAN /\ printed \in BOOLEAN
    /\ DOMAIN results \subseteq Keys
    /\ \A k \in DOMAIN results :
          results[k] \in {"PASS", "FAIL", "XFAIL", "XPASS", "SKIP", "CASCADE", "ERROR", "WARN"}
    /\ failures \cup warnings \subseteq DOMAIN results
    /\ stale \subseteq SkipTypes \cup SkipOps
    /\ DOMAIN answers \subseteq Keys
    /\ \A k \in DOMAIN answers : answers[k] \in Reply
    /\ exit \in {"none", "zero", "one"}

\* Did the replies behind a key conform?  Without reference bytes a worker's own
\* success is all there is to judge.
Conforms(k) ==
    LET refKey == <<k[1], k[2], Ref, "serialize">>
        refOK == refKey \in DOMAIN answers /\ answers[refKey].kind = "ok"
        semantic == <<k[1], k[2], k[3], "semantic">> IN
    /\ k \in DOMAIN answers
    /\ k[4] # "serialize" => Good(answers[k])
    /\ k[4] = "serialize" => answers[k].kind = "ok"
    /\ k[4] = "serialize" /\ k[3] # Ref /\ refOK =>
          IF Groups[k[1]].oracle = "bytes"
          THEN answers[k].value = answers[refKey].value
          ELSE semantic \in DOMAIN answers /\ Good(answers[semantic])

\* A row is PASS or XPASS only if what the worker sent conformed: a known failure
\* is settled by the comparison, never by the response status (orch.go:470-474).
PassMeansMatch ==
    \A k \in DOMAIN results : results[k] \in {"PASS", "XPASS"} => Conforms(k)

\* The matrix leaves a pair out only if its source serialized nothing, or to zero
\* bytes, which it cannot tell apart (orch.go:407-408): once the run has ended,
\* every worker that took part in round 2 was asked for the output of every
\* worker that had some.
MatrixCovers ==
    FullMatrix /\ exit # "none" =>
        \A s, d \in DOMAIN answers :
            /\ s[4] = "serialize" /\ answers[s].kind = "ok" /\ answers[s].value # "empty"
            /\ d[4] = "deserialize" /\ <<s[1], s[2]>> = <<d[1], d[2]>>
            => <<s[1], s[2], <<s[3], d[3]>>, "matrix">> \in DOMAIN answers

\* Exit code 0 means that every worker has a row for both rounds of every case
\* of every group: nothing was left out in silence (orch.go:99-100).
ExitZeroComplete ==
    exit = "zero" =>
        \A k \in (DOMAIN Groups) \X Names \X Langs \X Rounds : k \in DOMAIN results

\* A worker killed by a transport error is never hidden behind exit code 0, even
\* when the error struck a request whose own row is excused (orch.go:99-100).
DeadNeverGreen == dead # {} => exit # "zero"

\* The exit code is the one printTable announces from the rows, and the JUnit
\* report, which leaves the matrix out, shows a failure exactly when it is 1
\* (report.go:205-229, 270-272, 316-345).
ReportsAgree ==
    printed => /\ exit = Announced
               /\ ~FullMatrix => (exit = "one" <=> JUnitFailures # {})

\* What an expected-skips file allows: worker l may skip op of type t.
Gap(l, op, t) == <<l, t>> \in SkipTypes \/ <<l, op, t>> \in SkipOps

\* With enforcement a run is green only if every worker's own skips were declared,
\* and a gap that was declared fails nothing (coverage.go:38-47).
SkipsEnforced ==
    Enforce /\ printed =>
        /\ \A k \in Skips : Gap(k[3], k[4], TypeOf(k))
        /\ \A k \in DOMAIN answers :
              LET worker == IF k[4] = "matrix" THEN k[3][2] ELSE k[3]
                  op == IF k[4] = "serialize" THEN k[4] ELSE "deserialize" IN
              /\ answers[k].kind = "skipped" /\ k[4] # "semantic"
              /\ Gap(worker, op, TypeOf(k))
              => k \notin failures

\* What a run promises about its rows and its exit code.
Ledger == INSTANCE ReportLedger
              WITH rows <- results, code <- exit,
                   Allowed <- {k \in Keys : Gap(k[3], k[4], TypeOf(k))}

\* Every step of a run is one the report's reader can rely on: no verdict is
\* overwritten but by the coverage check, which fails exactly the skips no entry
\* allows, and the exit code follows the last row (orch.go:99-100,
\* coverage.go:38-47, run.go:182-214).
ImplementsLedger == Ledger!Spec

\* The run ends with an exit code.
RunEnds == <>(exit # "none")
=============================================================================
