------------------------------ MODULE RunCommand ------------------------------
(***************************************************************************)
(* `serify run` from its flags to its exit code: runTests, detectAndBuild, *)
(* startWorkers, loadKnownFailures and loadExpectedSkips of                *)
(* cmd/serify/run.go, LoadSuite and the optional files of                  *)
(* internal/conf/conf.go, Detect and Build of internal/builder, and the    *)
(* report with its CSV records (internal/report).                          *)
(*                                                                         *)
(* What happens inside a test is Orchestrator's subject.  Here a test is   *)
(* one outcome per worker, and what counts is which tests are run at all,  *)
(* under which id, and what may excuse them.  The user may interrupt the   *)
(* run at any moment: the replies that are still to come then leave no row.*)
(* A test id is                                                            *)
(* "type/format/case"; names may hold slashes themselves, so a format or a *)
(* case is the sequence of its slash-separated parts and an id their       *)
(* concatenation.                                                          *)
(***************************************************************************)
EXTENDS Naturals, Sequences, FiniteSets

CONSTANTS
    Langs,     \* the languages
    Inputs     \* command lines with the files they meet, see InputAssumption

\* markers is the set of languages whose marker files a worker directory holds.
\* ok of a file says that it can be read and parsed; for a type file also that
\* its schema resolves and its case data decodes.  The type files of a directory
\* have distinct names, and are given in name order.
ASSUME InputAssumption ==
    /\ IsFiniteSet(Langs)
    /\ \A x \in Inputs :
           /\ x.flags \in [valid : BOOLEAN, ref : Langs \cup {""}, buildOnly : BOOLEAN,
                           noBuild : BOOLEAN, csv : BOOLEAN, table : BOOLEAN]
           /\ x.files \in Seq({x.files[k] : k \in DOMAIN x.files})
           /\ \A k \in DOMAIN x.files :
                  LET f == x.files[k] IN
                  /\ f.ok \in BOOLEAN
                  /\ f.formats \in Seq({f.formats[n] : n \in DOMAIN f.formats})
                  /\ \A n \in DOMAIN f.formats : f.formats[n].name \in Seq(STRING)
                  /\ f.cases \in Seq(Seq(STRING))
           /\ \A j, k \in DOMAIN x.files : x.files[j].name = x.files[k].name => j = k
           /\ x.config \in [ok : BOOLEAN, ref : Langs \cup {""}]
           /\ x.dirs \in Seq([markers : SUBSET Langs, manifest : BOOLEAN, builds : BOOLEAN,
                              starts : BOOLEAN])
           /\ x.enforce \in BOOLEAN
           /\ DOMAIN x.known = Langs /\ DOMAIN x.skips = Langs

VARIABLES
    input,     \* the input of this run
    pc,        \* the next step of runTests
    loaded,    \* how many of the type files LoadSuite has read
    types,     \* CasesSet.Types: the type files with cases, in name order
    ref,       \* CasesSet.ReferenceLanguage
    infos,     \* the languages detected, one per worker directory so far
    workers,   \* the map language -> worker: which directory's process it is
    started,   \* how many of infos have been started
    up,        \* the processes that run: indices of worker directories
    at,        \* the test being run: <<type, format, case>> indices
    results,   \* Report.Results: the status of every key <<id, lang, op>>
    failures,  \* Report.Failures: its keys
    suiteErr,  \* RunSuite has an error to return
    cancelled, \* the context of the run was cancelled by the user
    ran,       \* history: <<test, directory, outcome, the reference's outcome, lost rounds>>
    noted,     \* the types printTable says no worker implements
    csv,       \* the rows of the CSV file, {} until it is written
    why        \* how the run ended, "none" until it has

reportVars == <<results, failures>>
suiteVars == <<reportVars, suiteErr, ran, cancelled>>
given == <<input, loaded, types, ref>>
vars == <<given, pc, infos, workers, started, up, at, reportVars, suiteErr, cancelled, ran,
          noted, csv, why>>

Rounds == {"serialize", "deserialize"}
Start == <<1, 1, 1>>
NoRows == [k \in {} |-> "PASS"]
Dirs == DOMAIN input.dirs

-----------------------------------------------------------------------------
(* The suite.                                                               *)

\* loadTypeFile and validate: every format has an oracle, cases need a format
\* and a name each.
LoadsTypeFile(f) ==
    /\ f.ok
    /\ \A k \in DOMAIN f.formats : f.formats[k].oracle \in {"bytes", "semantic"}
    /\ f.cases # <<>> => f.formats # <<>>
    /\ \A k \in DOMAIN f.cases : f.cases[k] # <<>>

\* A file without cases is there to be imported only.
Tested(f) == f.cases # <<>>

TestID(p) == <<types[p[1]].name>> \o types[p[1]].formats[p[2]].name \o types[p[1]].cases[p[3]]

Tests == UNION {{<<t, f, c>> : f \in DOMAIN types[t].formats, c \in DOMAIN types[t].cases} :
                   t \in DOMAIN types}

TestIDs == {TestID(p) : p \in Tests}

\* RunSuite's order: types, then formats, then cases; <<>> after the last.
After(p) ==
    LET ty == types[p[1]]
    IN  IF p[3] < Len(ty.cases) THEN <<p[1], p[2], p[3] + 1>>
        ELSE IF p[2] < Len(ty.formats) THEN <<p[1], p[2] + 1, 1>>
        ELSE IF p[1] < Len(types) THEN <<p[1] + 1, 1, 1>>
        ELSE <<>>

-----------------------------------------------------------------------------
(* What the optional files declare.                                         *)

\* A file that cannot be read is a warning, and declares nothing.
KnownFailure(l, id) == input.known[l].ok /\ id \in input.known[l].ids

\* ExpectedSkips.Covers, and the entry that does; an unreadable file covers
\* nothing.
Covers(l, type, op) ==
    /\ input.skips[l].ok
    /\ type \in input.skips[l].types \/ <<op, type>> \in input.skips[l].ops

Entries(l) == IF input.skips[l].ok
              THEN {<<t>> : t \in input.skips[l].types} \cup input.skips[l].ops
              ELSE {}

EntryOf(l, type, op) == IF type \in input.skips[l].types THEN <<type>> ELSE <<op, type>>

-----------------------------------------------------------------------------
(* The report.                                                              *)

\* Report.Add for a set of rows.
Add(rows) ==
    /\ results' = [k \in DOMAIN rows \cup DOMAIN results |->
                      IF k \in DOMAIN rows THEN rows[k] ELSE results[k]]
    /\ failures' = failures \cup {k \in DOMAIN rows : rows[k] \in {"FAIL", "ERROR"}}

\* What the workers do with a test: "dead" and "skip" come from Bind, "skipSer"
\* and "skipDes" decline one round, "bad" decodes to other data.  Without bytes
\* of the reference the second round does not take place.
Unbound == {"dead", "skip"}
Outcomes == Unbound \cup {"ok", "bad", "skipSer", "skipDes"}

Possible(o) ==
    /\ o[ref] \in Unbound => \A l \in DOMAIN workers : o[l] \in Unbound \cup {"ok"}
    /\ o[ref] = "skipSer" => \A l \in DOMAIN workers : o[l] \in Unbound \cup {"ok", "skipSer"}

\* The row of worker l for a round.  A skip that follows from the reference's is
\* "CASCADE"; a case that cannot be encoded is an error of every bound worker;
\* bytes with nothing to compare them to pass.
Status(o, encodes, l, op, known) ==
    CASE o[l] = "dead" -> "ERROR"
      [] o[l] = "skip" -> "SKIP"
      [] o[l] \notin Unbound /\ o[ref] \in Unbound -> "CASCADE"
      [] o[l] \notin Unbound /\ o[ref] \notin Unbound ->
            CASE ~encodes -> "ERROR"
              [] encodes /\ op = "serialize" ->
                    IF o[l] = "skipSer" THEN "SKIP"
                    ELSE IF known /\ o[ref] # "skipSer" THEN "XPASS" ELSE "PASS"
              [] encodes /\ op = "deserialize" ->
                    CASE o[ref] = "skipSer" -> "CASCADE"
                      [] o[ref] # "skipSer" /\ o[l] = "skipDes" -> "SKIP"
                      [] o[ref] # "skipSer" /\ o[l] = "bad" -> IF known THEN "XFAIL" ELSE "FAIL"
                      [] OTHER -> IF known THEN "XPASS" ELSE "PASS"

\* lost: the rounds whose reply found the context cancelled; such a goroutine
\* returns without a row.  An interrupt in the first round drops all replies of
\* the second, one that came before the test drops them all.  A reference whose
\* reply is lost has no bytes, like one that declined: no second round then.
LostReplies(o, encodes, lost) ==
    LET asked == {l \in DOMAIN workers : o[l] \notin Unbound} IN
    /\ lost \subseteq asked \X Rounds
    /\ lost # {} => encodes /\ o[ref] \notin Unbound
    /\ o[ref] = "skipSer" => lost \subseteq asked \X {"serialize"}
    /\ <<ref, "serialize">> \in lost => o[ref] = "skipSer"
    /\ o[ref] # "skipSer" /\ (\E l \in asked : <<l, "serialize">> \in lost)
           => asked \X {"deserialize"} \subseteq lost
    /\ cancelled /\ encodes /\ o[ref] \notin Unbound => asked \X {"serialize"} \subseteq lost

TestRows(o, encodes, lost) ==
    LET id == TestID(at)
    IN  [k \in {j \in {id} \X (DOMAIN workers) \X Rounds : <<j[2], j[3]>> \notin lost} |->
            Status(o, encodes, k[2], k[3], KnownFailure(k[2], id))]

\* What the history keeps of a test for worker l.
Entry(o, lost, l) == <<at, workers[l], o[l], o[ref], {op \in Rounds : <<l, op>> \in lost}>>

\* CheckExpectedSkips: the skips no entry covers, and the entries that cover
\* none; those rows have the entry for a test id.
Skips == {k \in DOMAIN results : results[k] = "SKIP"}

Undeclared == {k \in Skips : ~Covers(k[2], k[1][1], k[3])}

Stale == {k \in UNION {Entries(l) \X {l} \X {"serialize"} : l \in DOMAIN workers} :
             ~\E s \in Skips \ Undeclared : s[2] = k[2] /\ EntryOf(s[2], s[1][1], s[3]) = k[1]}

SkipRows == [k \in Undeclared \cup Stale |-> IF k \in Undeclared THEN "FAIL" ELSE "WARN"]

\* Mutant of Unimplemented: a skip that follows from the reference's counts as
\* a sign of life.
UnimplementedCascade ==
    LET live == {k \in DOMAIN results : results[k] # "SKIP"}
    IN  {k[1][1] : k \in DOMAIN results} \ {k[1][1] : k \in live}

\* unimplementedTypes: a type is what precedes the first slash of an id.
Unimplemented ==
    LET live == {k \in DOMAIN results : results[k] \notin {"SKIP", "CASCADE"}}
    IN  {k[1][1] : k \in DOMAIN results} \ {k[1][1] : k \in live}

\* Mutant of Records: the languages of the reference set only, by mistake the
\* reference alone.
RecordsRefOnly == {k \in DOMAIN results : k[1] \in TestIDs /\ k[2] = ref}

\* Report.Records: the rows of the suite's test ids.
Records == {k \in DOMAIN results : k[1] \in TestIDs}

-----------------------------------------------------------------------------
Init ==
    /\ input \in Inputs
    /\ pc = "flags" /\ why = "none"
    /\ loaded = 0 /\ types = <<>> /\ ref = "" /\ infos = <<>>
    /\ workers = [l \in {} |-> 0] /\ started = 0 /\ up = {}
    /\ at = Start
    /\ results = NoRows /\ failures = {} /\ suiteErr = FALSE /\ cancelled = FALSE
    /\ ran = {} /\ noted = {} /\ csv = {}

\* runTests returns.  Once startWorkers has succeeded, the deferred calls stop
\* every worker in the map.
Return(reason) ==
    /\ pc' = "done"
    /\ why' = reason
    /\ up' = up \ {workers[l] : l \in DOMAIN workers}

\* valid of a command line is about the output format and the two timeouts.
Valid == input.flags.valid /\ ~(input.flags.buildOnly /\ input.flags.noBuild)

CheckFlags ==
    /\ pc = "flags"
    /\ \/ Valid /\ pc' = "load" /\ UNCHANGED <<up, why>>
       \/ ~Valid /\ Return("flags")
    /\ UNCHANGED <<given, infos, workers, started, at, suiteVars, noted, csv>>

\* LoadSuite reads one type file after the other and gives up at the first that
\* does not load.
LoadFile ==
    LET f == input.files[loaded + 1]
    IN  /\ pc = "load"
        /\ loaded < Len(input.files)
        /\ \/ ~LoadsTypeFile(f) /\ Return("load") /\ UNCHANGED <<loaded, types>>
           \/ /\ LoadsTypeFile(f)
              /\ loaded' = loaded + 1
              /\ types' = IF Tested(f) THEN Append(types, f) ELSE types
              /\ UNCHANGED <<pc, up, why>>
        /\ UNCHANGED <<input, ref, infos, workers, started, at, suiteVars, noted, csv>>

\* A suite has a type with cases and a configuration.  Then the reference: the
\* flag before the suite's own declaration.
Loaded ==
    LET chosen == IF input.flags.ref # "" THEN input.flags.ref ELSE input.config.ref
        complete == types # <<>> /\ input.config.ok
    IN  /\ pc = "load"
        /\ loaded = Len(input.files)
        /\ \/ ~complete /\ Return("load") /\ UNCHANGED ref
           \/ /\ complete /\ ref' = chosen
              /\ \/ chosen = "" /\ ~input.flags.buildOnly /\ Return("no reference")
                 \/ /\ chosen # "" \/ input.flags.buildOnly
                    /\ pc' = "detect" /\ UNCHANGED <<up, why>>
        /\ UNCHANGED <<input, loaded, types, infos, workers, started, at, suiteVars, noted, csv>>

\* DetectLanguage wants marker files of exactly one language; worker.yaml is
\* optional and must parse.
Detects(d) == Cardinality(d.markers) = 1 /\ d.manifest

Language(d) == CHOOSE l \in Langs : d.markers = {l}

\* Mutant of DetectAndBuild: a second worker of a language is accepted.
DetectAndBuildAgain ==
    LET d == input.dirs[Len(infos) + 1]
    IN  /\ pc = "detect"
        /\ Len(infos) < Len(input.dirs)
        /\ \/ ~Detects(d) /\ Return("detect") /\ UNCHANGED infos
           \/ /\ Detects(d) /\ ~input.flags.noBuild /\ ~d.builds
              /\ Return("build") /\ UNCHANGED infos
           \/ /\ Detects(d) /\ (input.flags.noBuild \/ d.builds)
              /\ infos' = Append(infos, Language(d))
              /\ UNCHANGED <<pc, up, why>>
        /\ UNCHANGED <<given, workers, started, at, suiteVars, noted, csv>>

\* detectAndBuild, one directory after the other; one worker per language.
DetectAndBuild ==
    LET d == input.dirs[Len(infos) + 1]
        dup == \E k \in DOMAIN infos : infos[k] = Language(d)
    IN  /\ pc = "detect"
        /\ Len(infos) < Len(input.dirs)
        /\ \/ (~Detects(d) \/ dup) /\ Return("detect") /\ UNCHANGED infos
           \/ /\ Detects(d) /\ ~dup /\ ~input.flags.noBuild /\ ~d.builds
              /\ Return("build") /\ UNCHANGED infos
           \/ /\ Detects(d) /\ ~dup /\ (input.flags.noBuild \/ d.builds)
              /\ infos' = Append(infos, Language(d))
              /\ UNCHANGED <<pc, up, why>>
        /\ UNCHANGED <<given, workers, started, at, suiteVars, noted, csv>>

Built ==
    /\ pc = "detect"
    /\ Len(infos) = Len(input.dirs)
    /\ \/ input.flags.buildOnly /\ Return("built")
       \/ ~input.flags.buildOnly /\ pc' = "start" /\ UNCHANGED <<up, why>>
    /\ UNCHANGED <<given, infos, workers, started, at, suiteVars, noted, csv>>

\* startWorkers: the next worker of the list; a failure stops the ones in the
\* map.  The failed process itself is ended by worker.Start, which starts none
\* once the context is cancelled.
StartWorker ==
    LET k == started + 1
    IN  /\ pc = "start"
        /\ started < Len(infos)
        /\ \/ /\ input.dirs[k].starts /\ ~cancelled
              /\ started' = k
              /\ up' = up \cup {k}
              /\ workers' = [l \in DOMAIN workers \cup {infos[k]} |->
                                IF l = infos[k] THEN k ELSE workers[l]]
              /\ UNCHANGED <<pc, why>>
           \/ /\ ~input.dirs[k].starts \/ cancelled
              /\ Return("start") /\ UNCHANGED <<started, workers>>
        /\ UNCHANGED <<given, infos, at, suiteVars, noted, csv>>

\* Mutant of AllUp: a missing reference does not end the run.
AllUpGoesOn ==
    /\ pc = "start"
    /\ started = Len(infos)
    /\ pc' = "suite"
    /\ why' = IF ref \in DOMAIN workers THEN why ELSE "no reference"
    /\ UNCHANGED <<given, infos, workers, started, up, at, suiteVars, noted, csv>>

\* All are up; the reference must be one of them.
AllUp ==
    /\ pc = "start"
    /\ started = Len(infos)
    /\ \/ ref \in DOMAIN workers /\ pc' = "suite" /\ UNCHANGED <<up, why>>
       \/ ref \notin DOMAIN workers /\ Return("no reference")
    /\ UNCHANGED <<given, infos, workers, started, at, suiteVars, noted, csv>>

\* Mutant of RunTest: a row that is there already is kept.
RunTestKeepsFirst(o, encodes, lost) ==
    LET rows == TestRows(o, encodes, lost) IN
    /\ pc = "suite" /\ Possible(o) /\ LostReplies(o, encodes, lost)
    /\ Add([k \in DOMAIN rows \ DOMAIN results |-> rows[k]])
    /\ ran' = ran \cup {Entry(o, lost, l) : l \in DOMAIN workers}
    /\ cancelled' = (cancelled \/ lost # {})
    /\ suiteErr' = (suiteErr \/ (~encodes /\ o[ref] \notin Unbound))
    /\ at' = After(at)
    /\ pc' = IF After(at) = <<>> THEN "skips" ELSE "suite"
    /\ UNCHANGED <<given, infos, workers, started, up, noted, csv, why>>

\* One test of RunSuite.  A case that cannot be encoded is an error of the suite
\* too, which goes on with the rest; a lost reply is none, and the suite goes on
\* as well.
RunTest(o, encodes, lost) ==
    /\ pc = "suite" /\ Possible(o) /\ LostReplies(o, encodes, lost)
    /\ Add(TestRows(o, encodes, lost))
    /\ ran' = ran \cup {Entry(o, lost, l) : l \in DOMAIN workers}
    /\ cancelled' = (cancelled \/ lost # {})
    /\ suiteErr' = (suiteErr \/ (~encodes /\ o[ref] \notin Unbound))
    /\ at' = After(at)
    /\ pc' = IF After(at) = <<>> THEN "skips" ELSE "suite"
    /\ UNCHANGED <<given, infos, workers, started, up, noted, csv, why>>

\* Mutant of CheckSkips: a language whose file cannot be read is left out of
\* the check.
CheckSkipsReadable ==
    /\ pc = "skips"
    /\ \/ suiteErr /\ Return("suite") /\ UNCHANGED reportVars
       \/ /\ ~suiteErr
          /\ Add(IF input.enforce
                 THEN [k \in {s \in Undeclared \cup Stale : input.skips[s[2]].ok} |-> SkipRows[k]]
                 ELSE NoRows)
          /\ pc' = "print"
          /\ UNCHANGED <<up, why>>
    /\ UNCHANGED <<given, infos, workers, started, at, suiteErr, ran, cancelled, noted, csv>>

\* RunSuite's error ends the run without a report; the skips are checked if
\* the expected-skips directory exists.
CheckSkips ==
    /\ pc = "skips"
    /\ \/ suiteErr /\ Return("suite") /\ UNCHANGED reportVars
       \/ /\ ~suiteErr
          /\ Add(IF input.enforce THEN SkipRows ELSE NoRows)
          /\ pc' = "print"
          /\ UNCHANGED <<up, why>>
    /\ UNCHANGED <<given, infos, workers, started, at, suiteErr, ran, cancelled, noted, csv>>

\* Report.Print, the CSV file, which may fail to be written, and Success.  Only
\* the table names the types nobody implements.
PrintReport ==
    /\ pc = "print"
    /\ noted' = IF input.flags.table THEN Unimplemented ELSE {}
    /\ \/ input.flags.csv /\ csv' = {} /\ Return("csv")
       \/ /\ csv' = IF input.flags.csv THEN Records ELSE {}
          /\ Return(IF failures = {} THEN "ok" ELSE "failed")
    /\ UNCHANGED <<given, infos, workers, started, at, suiteVars>>

\* A signal cancels the context; outside startWorkers and RunSuite nobody looks.
Interrupt ==
    /\ pc # "done" /\ ~cancelled
    /\ cancelled' = TRUE
    /\ UNCHANGED <<given, pc, infos, workers, started, up, at, reportVars, suiteErr, ran, noted,
                   csv, why>>

Done == pc = "done" /\ UNCHANGED vars

Next ==
    \/ CheckFlags \/ LoadFile \/ Loaded \/ DetectAndBuild \/ Built \/ StartWorker \/ AllUp
    \/ \E o \in [DOMAIN workers -> Outcomes], encodes \in BOOLEAN,
          lost \in SUBSET ((DOMAIN workers) \X Rounds) : RunTest(o, encodes, lost)
    \/ CheckSkips \/ PrintReport \/ Interrupt \/ Done

Spec == Init /\ [][Next]_vars

-----------------------------------------------------------------------------
(* Properties.                                                              *)

\* The state of a run keeps its type, and only a run that ended has a reason.
TypeOK ==
    /\ input \in Inputs
    /\ pc \in {"flags", "load", "detect", "start", "suite", "skips", "print", "done"}
    /\ why \in {"none", "flags", "load", "no reference", "detect", "build", "built", "start",
                "suite", "csv", "failed", "ok"}
    /\ (why = "none") <=> (pc # "done")
    /\ ref \in Langs \cup {""}
    /\ loaded \in 0..Len(input.files)
    /\ infos \in Seq(Langs) /\ Len(infos) <= Len(input.dirs)
    /\ DOMAIN workers \subseteq Langs
    /\ up \subseteq Dirs
    /\ failures \subseteq DOMAIN results
    /\ suiteErr \in BOOLEAN /\ cancelled \in BOOLEAN

Green == why = "ok"

\* No worker process is left behind, wherever the run ended: the deferred calls
\* stop what is in the map, so no process may be missing from it (run.go:157-161,
\* 269-272; detectAndBuild refuses a second worker of a language because
\* "a second worker of the same language would overwrite the first").
NoProcessLeft == why # "none" => up = {}

\* A difference that was answered in time ends green only when the known-failures
\* file of that worker can be read and lists the test: whatever else is recorded
\* under the same id later, whatever cannot be read, and whenever the run is
\* interrupted (report.go:93-117, run.go:280-297).
BadNeverGreen ==
    Green => \A e \in ran : \A l \in DOMAIN workers :
                 /\ e[3] = "bad" /\ "deserialize" \notin e[5] /\ workers[l] = e[2]
                 => KnownFailure(l, TestID(e[1]))

UniqueIds == \A p, q \in Tests : TestID(p) = TestID(q) => p = q

\* The rounds a worker was seen to decline.
SkippedRounds(e) ==
    CASE e[3] = "skip" -> Rounds
      [] e[3] = "skipSer" -> {"serialize"} \ e[5]
      [] e[3] = "skipDes" -> {"deserialize"} \ e[5]
      [] OTHER -> {}

\* With an expected-skips directory a skip ends green only when a readable file
\* declares it, also in an interrupted run (coverage.go:38-47, run.go:299-316).
\* The check reads Results, where a test with the same id overwrites the skip:
\* test ids must be distinct, which the loader does not check.
SkipNeverHidden ==
    Green /\ input.enforce /\ UniqueIds =>
        \A e \in ran : \A l \in DOMAIN workers : \A op \in SkippedRounds(e) :
            workers[l] = e[2] => Covers(l, types[e[1][1]].name, op)

\* Every case of every type file was run, in each of its formats, by the worker of
\* every directory named on the command line, no reply was lost, and the CSV file,
\* if one was asked for, has a row for both rounds of each.
AllThere ==
    /\ \A k \in DOMAIN input.files : Tested(input.files[k]) =>
           \E t \in DOMAIN types : types[t] = input.files[k]
    /\ \A p \in Tests, d \in Dirs :
           /\ \E e \in ran : e[1] = p /\ e[2] = d /\ e[5] = {}
           /\ input.flags.csv => \A op \in Rounds : <<TestID(p), infos[d], op>> \in csv

\* Green means that nothing was left out (conf.go:284-322, run.go:217-248,
\* records.go:92-168), in a run that nobody interrupted.  The condition is needed:
\* replies dropped after an interrupt leave no row and no error, and the exit code
\* is 0 (orch.go:216-219, 335-336), which ExitZeroComplete of Orchestrator's
\* interrupted run shows step by step.
NothingLeftOut == Green /\ ~cancelled => AllThere

\* A worker did something in a test: it did a round for a reference that was
\* bound, and was heard.
Live(e) ==
    /\ e[3] \notin Unbound /\ e[4] \notin Unbound
    /\ \/ e[3] # "skipSer" /\ "serialize" \notin e[5]
       \/ e[3] # "skipDes" /\ e[4] # "skipSer" /\ "deserialize" \notin e[5]

\* A green table names exactly the types no worker did anything with, about which
\* "the run reports exit 0 having compared nothing at all" (report.go:242-245), also
\* in an interrupted run.  One row hides a type from it: an expected-skips entry
\* reported as stale has the entry, which begins with the type's name, for a test
\* id; and an entry is stale when the reference's skip kept the worker's own from
\* being asked for (coverage.go:69-71, 99-110).
NoteExact ==
    Green /\ input.flags.table /\ UniqueIds => \A t \in DOMAIN types :
        types[t].name \in noted <=>
            /\ ~\E e \in ran : e[1][1] = t /\ Live(e)
            /\ ~\E k \in DOMAIN results : k[1][1] = types[t].name /\ results[k] = "WARN"
=============================================================================
