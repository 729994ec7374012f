--------------------------- MODULE RunCommandProofs ---------------------------
(* Proofs about RunCommand for every set of command lines: any suites, worker *)
(* directories, known failures and expected skips.                            *)
EXTENDS RunCommand, FiniteSetTheorems, TLAPS

\* Each started worker is in the map under its language, no language twice, and
\* a run that has ended has no process.
WorkersInv ==
    /\ input \in Inputs
    /\ infos \in Seq(Langs) /\ Len(infos) <= Len(input.dirs)
    /\ \A j, k \in 1..Len(infos) : infos[j] = infos[k] => j = k
    /\ started \in Nat /\ started <= Len(infos)
    /\ DOMAIN workers = {infos[k] : k \in 1..started}
    /\ \A k \in 1..started : workers[infos[k]] = k
    /\ up \subseteq 1..started
    /\ why # "none" => pc = "done" /\ up = {}
    /\ pc \in {"flags", "load", "detect"} => started = 0

\* The type files of a command line: sequences of formats and cases under names that
\* are sequences of parts, no two files of one name.
LEMMA FilesType ==
    ASSUME NEW x \in Inputs
    PROVE  /\ Len(x.files) \in Nat /\ DOMAIN x.files = 1..Len(x.files)
           /\ \A j, k \in DOMAIN x.files : x.files[j].name = x.files[k].name => j = k
           /\ \A k \in DOMAIN x.files :
                 LET f == x.files[k] IN
                 /\ Len(f.formats) \in Nat /\ DOMAIN f.formats = 1..Len(f.formats)
                 /\ \A n \in DOMAIN f.formats : f.formats[n].name \in Seq(STRING)
                 /\ Len(f.cases) \in Nat /\ DOMAIN f.cases = 1..Len(f.cases)
                 /\ \A n \in DOMAIN f.cases : f.cases[n] \in Seq(STRING)
<1>1. x.files \in Seq({x.files[k] : k \in DOMAIN x.files})
  BY InputAssumption
<1>2. Len(x.files) \in Nat /\ DOMAIN x.files = 1..Len(x.files)
  BY <1>1
<1>3. \A j, k \in DOMAIN x.files : x.files[j].name = x.files[k].name => j = k
  BY InputAssumption
<1>4. ASSUME NEW k \in DOMAIN x.files, NEW f, f = x.files[k]
      PROVE  /\ Len(f.formats) \in Nat /\ DOMAIN f.formats = 1..Len(f.formats)
             /\ \A n \in DOMAIN f.formats : f.formats[n].name \in Seq(STRING)
             /\ Len(f.cases) \in Nat /\ DOMAIN f.cases = 1..Len(f.cases)
             /\ \A n \in DOMAIN f.cases : f.cases[n] \in Seq(STRING)
  <2>1. /\ f.formats \in Seq({f.formats[n] : n \in DOMAIN f.formats})
        /\ \A n \in DOMAIN f.formats : f.formats[n].name \in Seq(STRING)
        /\ f.cases \in Seq(Seq(STRING))
    <3>1. \A j \in DOMAIN x.files :
             LET h == x.files[j] IN
             /\ h.formats \in Seq({h.formats[n] : n \in DOMAIN h.formats})
             /\ \A n \in DOMAIN h.formats : h.formats[n].name \in Seq(STRING)
             /\ h.cases \in Seq(Seq(STRING))
      BY InputAssumption, Zenon
    <3>2. /\ x.files[k].formats \in Seq({x.files[k].formats[n] : n \in DOMAIN x.files[k].formats})
          /\ \A n \in DOMAIN x.files[k].formats : x.files[k].formats[n].name \in Seq(STRING)
          /\ x.files[k].cases \in Seq(Seq(STRING))
      BY <3>1, Zenon
    <3> QED
      BY <1>4, <3>2, Zenon
  <2>2. Len(f.formats) \in Nat /\ DOMAIN f.formats = 1..Len(f.formats)
    BY <2>1
  <2>3. /\ Len(f.cases) \in Nat /\ DOMAIN f.cases = 1..Len(f.cases)
        /\ \A n \in DOMAIN f.cases : f.cases[n] \in Seq(STRING)
    BY <2>1
  <2> QED
    BY <2>1, <2>2, <2>3
<1> QED
  BY <1>2, <1>3, <1>4

\* A directory that Detect accepts has a language.
LEMMA LanguageType ==
    ASSUME NEW d, d.markers \subseteq Langs, Detects(d)
    PROVE  Language(d) \in Langs
<1>1. IsFiniteSet(d.markers)
  BY InputAssumption, FS_Subset
<1>2. PICK l : d.markers = {l}
  BY <1>1, FS_Singleton DEF Detects
<1> QED
  BY <1>2 DEF Language

\* Returning stops every process: each one is in the map.
LEMMA ReturnStops ==
    ASSUME WorkersInv, NEW reason, Return(reason)
    PROVE  pc' = "done" /\ why' = reason /\ up' = {}
<1>1. \A k \in 1..started : infos[k] \in DOMAIN workers /\ workers[infos[k]] = k
  BY DEF WorkersInv
<1>2. \A k \in up : k \in {workers[l] : l \in DOMAIN workers}
  BY <1>1 DEF WorkersInv
<1> QED
  BY <1>2 DEF Return

\* The steps that leave the workers and their map alone.
LEMMA WorkersKept ==
    ASSUME WorkersInv,
           UNCHANGED <<input, infos, workers, started>>,
           \/ UNCHANGED <<up, why>> /\ why = "none" /\ pc' \notin {"flags", "load", "detect"}
           \/ UNCHANGED <<up, why>> /\ why = "none" /\ started = 0
           \/ UNCHANGED <<up, why, pc>>
           \/ up' = {} /\ pc' = "done"
    PROVE  WorkersInv'
<1>1. /\ why' # "none" => pc' = "done" /\ up' = {}
      /\ pc' \in {"flags", "load", "detect"} => started' = 0
      /\ up' \subseteq 1..started'
  BY DEF WorkersInv
<1>2. input' = input /\ infos' = infos /\ workers' = workers /\ started' = started
  OBVIOUS
<1>3. input' \in Inputs /\ infos' \in Seq(Langs) /\ Len(infos') <= Len(input'.dirs)
  BY <1>2 DEF WorkersInv
<1>4. \A j, k \in 1..Len(infos') : infos'[j] = infos'[k] => j = k
  BY <1>2 DEF WorkersInv
<1>5. started' \in Nat /\ started' <= Len(infos')
  BY <1>2 DEF WorkersInv
<1>6. DOMAIN workers' = {infos'[k] : k \in 1..started'}
  <2>1. DOMAIN workers = {infos[k] : k \in 1..started}
    BY Zenon DEF WorkersInv
  <2>2. workers' = workers /\ {infos'[k] : k \in 1..started'} = {infos[k] : k \in 1..started}
    BY <1>2
  <2> QED
    BY <2>1, <2>2
<1>7. \A k \in 1..started' : workers'[infos'[k]] = k
  BY <1>2 DEF WorkersInv
<1> QED
  BY <1>1, <1>3, <1>4, <1>5, <1>6, <1>7, Zenon DEF WorkersInv

\* Every step keeps the map of workers in line with the processes.
LEMMA WorkersStep == WorkersInv /\ [Next]_vars => WorkersInv'
<1> SUFFICES ASSUME WorkersInv, [Next]_vars PROVE WorkersInv'
  OBVIOUS
<1> USE DEF given
<1>0. why = "none" \/ pc = "done"
  BY DEF WorkersInv
<1>1. CASE CheckFlags
  <2>1. ASSUME Return("flags") PROVE WorkersInv'
    BY <1>1, <2>1, ReturnStops, WorkersKept DEF CheckFlags
  <2>2. ASSUME UNCHANGED <<up, why>> PROVE WorkersInv'
    BY <1>0, <1>1, <2>2, WorkersKept DEF CheckFlags, WorkersInv
  <2> QED
    BY <1>1, <2>1, <2>2 DEF CheckFlags
<1>2. CASE LoadFile \/ Loaded
  <2>1. ASSUME NEW r, Return(r) PROVE WorkersInv'
    BY <1>2, <2>1, ReturnStops, WorkersKept DEF LoadFile, Loaded
  <2>2. ASSUME UNCHANGED <<up, why>> PROVE WorkersInv'
    BY <1>0, <1>2, <2>2, WorkersKept DEF LoadFile, Loaded, WorkersInv
  <2> QED
    BY <1>2, <2>1, <2>2 DEF LoadFile, Loaded
<1>3. CASE DetectAndBuild
  <2> DEFINE d == input.dirs[Len(infos) + 1]
  <2>1. ASSUME NEW r, Return(r), UNCHANGED infos PROVE WorkersInv'
    BY <1>3, <2>1, ReturnStops, WorkersKept DEF DetectAndBuild
  <2>2. ASSUME Detects(d), ~\E k \in DOMAIN infos : infos[k] = Language(d),
               infos' = Append(infos, Language(d)), UNCHANGED <<pc, up, why>>
        PROVE  WorkersInv'
    <3>1. d.markers \subseteq Langs /\ Len(input.dirs) \in Nat
      <4> DEFINE R == [markers : SUBSET Langs, manifest : BOOLEAN, builds : BOOLEAN,
                       starts : BOOLEAN]
      <4>1. input.dirs \in Seq(R)
        BY InputAssumption DEF WorkersInv
      <4>2. Len(infos) + 1 \in 1..Len(input.dirs)
        BY <1>3, <4>1 DEF DetectAndBuild, WorkersInv
      <4>3. d \in R
        <5> HIDE DEF R
        <5> QED
          BY <4>1, <4>2
      <4> QED
        BY <4>1, <4>3
    <3>2. Language(d) \in Langs
      BY <2>2, <3>1, LanguageType
    <3>3. /\ infos' \in Seq(Langs) /\ Len(infos') = Len(infos) + 1
          /\ \A k \in 1..Len(infos) : infos'[k] = infos[k]
          /\ infos'[Len(infos) + 1] = Language(d)
      BY <2>2, <3>2 DEF WorkersInv
    <3>4. \A j, k \in 1..Len(infos') : infos'[j] = infos'[k] => j = k
      BY <2>2, <3>3 DEF WorkersInv
    <3>5. started = 0 /\ UNCHANGED <<input, workers, started>>
      BY <1>3 DEF DetectAndBuild, WorkersInv
    <3>6. Len(infos') <= Len(input.dirs)
      BY <1>3, <3>1, <3>3 DEF DetectAndBuild, WorkersInv
    <3> QED
      BY <2>2, <3>3, <3>4, <3>5, <3>6 DEF WorkersInv
  <2> QED
    BY <1>3, <2>1, <2>2 DEF DetectAndBuild
<1>4. CASE Built
  <2>1. ASSUME Return("built") PROVE WorkersInv'
    BY <1>4, <2>1, ReturnStops, WorkersKept DEF Built
  <2>2. ASSUME UNCHANGED <<up, why>> PROVE WorkersInv'
    BY <1>0, <1>4, <2>2, WorkersKept DEF Built, WorkersInv
  <2> QED
    BY <1>4, <2>1, <2>2 DEF Built
<1>5. CASE StartWorker
  <2> DEFINE k == started + 1
  <2>1. ASSUME Return("start"), UNCHANGED <<started, workers>> PROVE WorkersInv'
    BY <1>5, <2>1, ReturnStops, WorkersKept DEF StartWorker
  <2>2. ASSUME started' = k, up' = up \cup {k}, UNCHANGED <<pc, why>>,
               workers' = [l \in DOMAIN workers \cup {infos[k]} |->
                              IF l = infos[k] THEN k ELSE workers[l]]
        PROVE  WorkersInv'
    <3>1. k \in 1..Len(infos) /\ UNCHANGED <<input, infos>> /\ started \in Nat /\ pc = "start"
      BY <1>5 DEF StartWorker, WorkersInv
    <3>2. 1..k = 1..started \cup {k}
      BY <3>1
    <3>3. DOMAIN workers' = {infos[j] : j \in 1..k}
      BY <2>2, <3>2 DEF WorkersInv
    <3>4. \A j \in 1..k : workers'[infos[j]] = j
      BY <2>2, <3>1, <3>2 DEF WorkersInv
    <3>5. why = "none"
      BY <1>0, <3>1
    <3> QED
      BY <2>2, <3>1, <3>2, <3>3, <3>4, <3>5 DEF WorkersInv
  <2> QED
    BY <1>5, <2>1, <2>2 DEF StartWorker
<1>6. CASE AllUp
  <2>1. ASSUME Return("no reference") PROVE WorkersInv'
    BY <1>6, <2>1, ReturnStops, WorkersKept DEF AllUp
  <2>2. ASSUME UNCHANGED <<up, why>>, pc' = "suite" PROVE WorkersInv'
    BY <1>0, <1>6, <2>2, WorkersKept DEF AllUp
  <2> QED
    BY <1>6, <2>1, <2>2 DEF AllUp
<1>7. ASSUME NEW o, NEW encodes, NEW lost, RunTest(o, encodes, lost) PROVE WorkersInv'
  <2>1. pc' \in {"skips", "suite"} /\ pc = "suite"
    BY <1>7 DEF RunTest
  <2> QED
    BY <1>0, <1>7, <2>1, WorkersKept DEF RunTest
<1>8. CASE CheckSkips
  <2>1. ASSUME Return("suite") PROVE WorkersInv'
    BY <1>8, <2>1, ReturnStops, WorkersKept DEF CheckSkips
  <2>2. ASSUME UNCHANGED <<up, why>>, pc' = "print" PROVE WorkersInv'
    BY <1>0, <1>8, <2>2, WorkersKept DEF CheckSkips
  <2> QED
    BY <1>8, <2>1, <2>2 DEF CheckSkips
<1>9. CASE PrintReport
  <2>1. ASSUME NEW r, Return(r) PROVE WorkersInv'
    BY <1>9, <2>1, ReturnStops, WorkersKept DEF PrintReport
  <2> QED
    BY <1>9, <2>1 DEF PrintReport
<1>10. CASE Interrupt
  BY <1>10, WorkersKept DEF Interrupt
<1>11. CASE UNCHANGED vars
  BY <1>11, WorkersKept DEF vars
<1> QED
  BY <1>1, <1>2, <1>3, <1>4, <1>5, <1>6, <1>7, <1>8, <1>9, <1>10, <1>11 DEF Next, Done

\* Before anything has started the map is empty and no process runs.
LEMMA WorkersInit == Init => WorkersInv
<1> SUFFICES ASSUME Init PROVE WorkersInv
  OBVIOUS
<1>1. input.dirs \in Seq([markers : SUBSET Langs, manifest : BOOLEAN, builds : BOOLEAN,
                          starts : BOOLEAN])
  BY InputAssumption DEF Init
<1>2. Len(input.dirs) \in Nat
  BY <1>1
<1>3. infos = <<>> /\ started = 0 /\ up = {} /\ why = "none" /\ input \in Inputs
  BY DEF Init
<1>4. infos \in Seq(Langs) /\ Len(infos) = 0
  BY <1>3
<1>5. DOMAIN workers = {}
  BY DEF Init
<1>6. 1..0 = {}
  OBVIOUS
<1>7. DOMAIN workers = {infos[k] : k \in 1..started}
  BY <1>3, <1>5, <1>6
<1> QED
  BY <1>2, <1>3, <1>4, <1>6, <1>7 DEF WorkersInv

\* However a run ends, no worker process survives it (run.go:157-161, 269-272):
\* every process is in the map because no second worker of a language is accepted.
THEOREM NoProcessLeftCorrect == Spec => []NoProcessLeft
<1>1. WorkersInv => NoProcessLeft
  BY DEF WorkersInv, NoProcessLeft
<1> QED
  BY <1>1, WorkersInit, WorkersStep, PTL DEF Spec

-----------------------------------------------------------------------------
(* A difference never ends green.                                           *)

\* A difference that was answered in time is excused by the known-failures file of its worker or
\* is among the failures, which never shrink.
BadInv ==
    /\ pc \in {"flags", "load", "detect", "start"} => ran = {}
    /\ \A e \in ran : \A l \in DOMAIN workers :
           /\ e[3] = "bad" /\ "deserialize" \notin e[5] /\ workers[l] = e[2]
           => KnownFailure(l, TestID(e[1])) \/ <<TestID(e[1]), l, "deserialize">> \in failures
    /\ why = "ok" => failures = {}
    /\ why # "none" => pc = "done"

\* No two languages share a process.
LEMMA WorkersInjective ==
    ASSUME WorkersInv, NEW l \in DOMAIN workers, NEW m \in DOMAIN workers,
           workers[l] = workers[m]
    PROVE  l = m
<1>1. PICK j \in 1..started : l = infos[j]
  BY DEF WorkersInv
<1>2. PICK k \in 1..started : m = infos[k]
  BY DEF WorkersInv
<1> QED
  BY <1>1, <1>2 DEF WorkersInv

\* The row of a difference that no known failure excuses is a failure, and so is
\* the one of a case that could not be encoded.
LEMMA StatusBad ==
    ASSUME NEW o, Possible(o), NEW encodes \in BOOLEAN, NEW l \in DOMAIN workers, o[l] = "bad"
    PROVE  Status(o, encodes, l, "deserialize", FALSE) \in {"FAIL", "ERROR"}
<1>1. o[l] \notin Unbound /\ o[ref] \notin Unbound /\ o[ref] # "skipSer"
  BY DEF Possible, Unbound
<1>2. CASE encodes
  BY <1>1, <1>2 DEF Status, Unbound
<1>3. CASE ~encodes
  BY <1>1, <1>3 DEF Status, Unbound
<1> QED
  BY <1>2, <1>3

\* The step that records a difference.
LEMMA BadRecorded ==
    ASSUME WorkersInv, BadInv, NEW o, NEW encodes \in BOOLEAN, NEW lost, RunTest(o, encodes, lost)
    PROVE  BadInv'
<1> DEFINE rows == TestRows(o, encodes, lost)
<1>1. UNCHANGED <<input, types, workers, why>> /\ pc = "suite" /\ Possible(o)
  BY DEF RunTest, given
<1>2. failures' = failures \cup {k \in DOMAIN rows : rows[k] \in {"FAIL", "ERROR"}}
  BY DEF RunTest, Add
<1>3. why = "none"
  BY <1>1 DEF BadInv
<1>4. ASSUME NEW e \in ran', NEW l \in DOMAIN workers, e[3] = "bad", "deserialize" \notin e[5],
             workers[l] = e[2], ~KnownFailure(l, TestID(e[1]))
      PROVE  <<TestID(e[1]), l, "deserialize">> \in failures'
  <2>1. CASE e \in ran
    BY <1>2, <1>4, <2>1 DEF BadInv
  <2>2. CASE e \notin ran
    <3>1. PICK m \in DOMAIN workers : e = Entry(o, lost, m)
      BY <2>2 DEF RunTest
    <3>2. /\ e[1] = at /\ e[2] = workers[m] /\ e[3] = o[m]
          /\ e[5] = {op \in Rounds : <<m, op>> \in lost}
      BY <3>1 DEF Entry
    <3>3. m = l /\ <<l, "deserialize">> \notin lost
      BY <1>4, <3>2, WorkersInjective DEF Rounds
    <3>4. Status(o, encodes, l, "deserialize", KnownFailure(l, TestID(at))) \in {"FAIL", "ERROR"}
      <4>1. KnownFailure(l, TestID(at)) = FALSE
        BY <1>4, <3>2 DEF KnownFailure
      <4> QED
        BY <1>1, <1>4, <3>2, <3>3, <4>1, StatusBad
    <3> DEFINE key == <<TestID(at), l, "deserialize">>
    <3>5. key \in DOMAIN rows
          /\ rows[key] = Status(o, encodes, l, "deserialize", KnownFailure(l, TestID(at)))
      BY <3>3 DEF TestRows, Rounds
    <3> QED
      BY <1>2, <3>2, <3>4, <3>5
  <2> QED
    BY <2>1, <2>2
<1>5. \A e \in ran' : \A l \in DOMAIN workers :
         e[3] = "bad" /\ "deserialize" \notin e[5] /\ workers[l] = e[2]
         => KnownFailure(l, TestID(e[1])) \/ <<TestID(e[1]), l, "deserialize">> \in failures'
  BY <1>4
<1>6. pc' \in {"skips", "suite"}
  BY DEF RunTest
<1> QED
  BY <1>1, <1>3, <1>5, <1>6 DEF BadInv, KnownFailure, TestID

\* The steps that keep what is recorded and may add failures.
LEMMA BadKept ==
    ASSUME BadInv, UNCHANGED <<input, types, workers, ran>>, failures \subseteq failures',
           pc' \in {"flags", "load", "detect", "start"} =>
               pc \in {"flags", "load", "detect", "start"},
           why' = "ok" => failures' = {},
           why' # "none" => pc' = "done"
    PROVE  BadInv'
  BY DEF BadInv, KnownFailure, TestID

\* Every step keeps a recorded difference excused or in Failures.
LEMMA BadStep == WorkersInv /\ BadInv /\ [Next]_vars => BadInv'
<1> SUFFICES ASSUME WorkersInv, BadInv, [Next]_vars PROVE BadInv'
  OBVIOUS
<1> USE DEF given
<1>1. CASE CheckFlags \/ LoadFile \/ Loaded \/ DetectAndBuild \/ Built \/ StartWorker \/ AllUp
  <2>1. pc \in {"flags", "load", "detect", "start"} /\ ran = {} /\ ran' = {}
    BY <1>1 DEF CheckFlags, LoadFile, Loaded, DetectAndBuild, Built, StartWorker, AllUp, suiteVars, BadInv
  <2>2. why = "none" /\ (why' = why \/ (pc' = "done" /\ why' # "ok"))
    BY <1>1, <2>1 DEF CheckFlags, LoadFile, Loaded, DetectAndBuild, Built, StartWorker, AllUp, Return, BadInv
  <2> QED
    BY <2>1, <2>2 DEF BadInv
<1>2. ASSUME NEW o, NEW encodes \in BOOLEAN, NEW lost, RunTest(o, encodes, lost) PROVE BadInv'
  BY <1>2, BadRecorded
<1>3. CASE CheckSkips
  <2>1. failures \subseteq failures' /\ why = "none"
    BY <1>3 DEF CheckSkips, Add, reportVars, BadInv
  <2>2. why' # "ok" /\ (why' # "none" => pc' = "done") /\ pc' \in {"print", "done"}
    BY <1>3, <2>1 DEF CheckSkips, Return
  <2> QED
    BY <1>3, <2>1, <2>2, BadKept DEF CheckSkips
<1>4. CASE PrintReport
  BY <1>4, BadKept DEF PrintReport, Return, suiteVars, reportVars
<1>5. CASE Interrupt
  BY <1>5, BadKept DEF Interrupt, reportVars, BadInv
<1>6. CASE UNCHANGED vars
  BY <1>6, BadKept DEF vars, reportVars, BadInv
<1> QED
  BY <1>1, <1>2, <1>3, <1>4, <1>5, <1>6 DEF Next, Done

\* A difference that was answered in time and that no readable known-failures file
\* excuses keeps the run from ending green, whatever is recorded under the same id later
\* (report.go:93-117, run.go:280-297).
THEOREM BadNeverGreenCorrect == Spec => []BadNeverGreen
<1>1. Init => BadInv
  BY DEF Init, BadInv
<1>2. BadInv => BadNeverGreen
  BY DEF BadInv, BadNeverGreen, Green
<1> QED
  BY <1>1, <1>2, WorkersInit, WorkersStep, BadStep, PTL DEF Spec

-----------------------------------------------------------------------------
(* Type correctness.                                                        *)

\* What WorkersInv leaves of the type invariant.
RestOK ==
    /\ pc \in {"flags", "load", "detect", "start", "suite", "skips", "print", "done"}
    /\ why \in {"none", "flags", "load", "no reference", "detect", "build", "built", "start",
                "suite", "csv", "failed", "ok"}
    /\ (why = "none") <=> (pc # "done")
    /\ ref \in Langs \cup {""}
    /\ loaded \in 0..Len(input.files)
    /\ failures \subseteq DOMAIN results
    /\ suiteErr \in BOOLEAN /\ cancelled \in BOOLEAN

\* Failures stay keys of Results when rows are added.
LEMMA AddType ==
    ASSUME failures \subseteq DOMAIN results, NEW rows, Add(rows)
    PROVE  (failures \subseteq DOMAIN results)'
  BY DEF Add

\* Every step keeps the rest of the types.
LEMMA RestStep == WorkersInv /\ RestOK /\ [Next]_vars => RestOK'
<1> SUFFICES ASSUME WorkersInv, RestOK, [Next]_vars PROVE RestOK'
  OBVIOUS
<1> USE DEF given
<1>1. CASE CheckFlags
  BY <1>1 DEF CheckFlags, Return, RestOK, suiteVars, reportVars
<1>2. CASE LoadFile \/ Loaded
  <2>1. input.flags.ref \in Langs \cup {""} /\ input.config.ref \in Langs \cup {""}
    BY InputAssumption DEF WorkersInv
  <2>2. ref' \in Langs \cup {""}
    BY <1>2, <2>1 DEF LoadFile, Loaded, RestOK
  <2>3. Len(input.files) \in Nat
    BY FilesType DEF WorkersInv
  <2>4. loaded' \in 0..Len(input'.files)
    <3>1. input' = input /\ loaded \in 0..Len(input.files)
      BY <1>2 DEF LoadFile, Loaded, RestOK
    <3>2. loaded' = loaded \/ (loaded' = loaded + 1 /\ loaded < Len(input.files))
      BY <1>2 DEF LoadFile, Loaded
    <3> QED
      BY <2>3, <3>1, <3>2
  <2> QED
    BY <1>2, <2>2, <2>4 DEF LoadFile, Loaded, Return, RestOK, suiteVars, reportVars
<1>3. CASE DetectAndBuild
  BY <1>3 DEF DetectAndBuild, Return, RestOK, suiteVars, reportVars
<1>4. CASE Built
  BY <1>4 DEF Built, Return, RestOK, suiteVars, reportVars
<1>5. CASE StartWorker
  BY <1>5 DEF StartWorker, Return, RestOK, suiteVars, reportVars
<1>6. CASE AllUp
  BY <1>6 DEF AllUp, Return, RestOK, suiteVars, reportVars
<1>7. ASSUME NEW o, NEW encodes \in BOOLEAN, NEW lost, RunTest(o, encodes, lost) PROVE RestOK'
  <2>1. (failures \subseteq DOMAIN results)'
    BY <1>7, AddType DEF RunTest, RestOK
  <2> QED
    BY <1>7, <2>1 DEF RunTest, RestOK
<1>8. CASE CheckSkips
  <2>1. (failures \subseteq DOMAIN results)'
    BY <1>8, AddType DEF CheckSkips, RestOK, reportVars
  <2> QED
    BY <1>8, <2>1 DEF CheckSkips, Return, RestOK
<1>9. CASE PrintReport
  BY <1>9 DEF PrintReport, Return, RestOK, suiteVars, reportVars
<1>10. CASE Interrupt
  BY <1>10 DEF Interrupt, RestOK, reportVars
<1>11. CASE UNCHANGED vars
  BY <1>11 DEF vars, RestOK, reportVars
<1> QED
  BY <1>1, <1>2, <1>3, <1>4, <1>5, <1>6, <1>7, <1>8, <1>9, <1>10, <1>11 DEF Next, Done

\* The variables keep their types, and a run has a reason exactly when it has ended.
THEOREM TypeCorrect == Spec => []TypeOK
<1>1. Init => RestOK
  <2> SUFFICES ASSUME Init PROVE RestOK
    OBVIOUS
  <2>1. Len(input.files) \in Nat
    BY FilesType DEF Init
  <2>2. loaded = 0
    BY DEF Init
  <2>3. loaded \in 0..Len(input.files)
    BY <2>1, <2>2
  <2> QED
    BY <2>3 DEF Init, RestOK
<1>2. WorkersInv /\ RestOK => TypeOK
  <2> SUFFICES ASSUME WorkersInv, RestOK PROVE TypeOK
    OBVIOUS
  <2>1. input.dirs \in Seq([markers : SUBSET Langs, manifest : BOOLEAN, builds : BOOLEAN,
                            starts : BOOLEAN])
    BY InputAssumption DEF WorkersInv
  <2>2. Len(input.dirs) \in Nat /\ DOMAIN input.dirs = 1..Len(input.dirs)
    BY <2>1
  <2>3. up \subseteq Dirs
    BY <2>2 DEF WorkersInv, Dirs
  <2>4. DOMAIN workers \subseteq Langs
    BY DEF WorkersInv
  <2> QED
    BY <2>3, <2>4 DEF WorkersInv, RestOK, TypeOK
<1> QED
  BY <1>1, <1>2, WorkersInit, WorkersStep, RestStep, PTL DEF Spec

-----------------------------------------------------------------------------
(* What is run: the suite as it was loaded, and the workers that are up.    *)

Files == {input.files[k] : k \in DOMAIN input.files}

\* The types are the files with cases among those read so far, under distinct names.
LoadInv ==
    /\ loaded \in 0..Len(input.files)
    /\ types \in Seq(Files)
    /\ \A t \in DOMAIN types :
           /\ LoadsTypeFile(types[t]) /\ Tested(types[t])
           /\ \E k \in 1..loaded : types[t] = input.files[k]
    /\ \A t, u \in DOMAIN types : types[t].name = types[u].name => t = u
    /\ \A k \in 1..loaded : Tested(input.files[k]) => \E t \in DOMAIN types : types[t] = input.files[k]

\* Another file was read: with cases it is a new type, under a new name.
LEMMA FileLoaded ==
    ASSUME input \in Inputs, LoadInv, LoadFile, LoadsTypeFile(input.files[loaded + 1])
    PROVE  LoadInv'
<1> SUFFICES ASSUME NEW f, f = input.files[loaded + 1], NEW n, n = loaded PROVE LoadInv'
  OBVIOUS
<1>1. /\ n \in Nat /\ n + 1 \in DOMAIN input.files /\ Len(input.files) \in Nat
      /\ DOMAIN input.files = 1..Len(input.files)
  BY FilesType DEF LoadInv, LoadFile
<1>2. input' = input /\ Files' = Files /\ f \in Files /\ LoadsTypeFile(f)
  BY <1>1 DEF LoadFile, Files
<1>3. loaded' \in 0..Len(input'.files) /\ 1..loaded' = 1..n \cup {n + 1}
  <2>1. loaded' = n + 1 \/ (~LoadsTypeFile(f) /\ loaded' = n)
    BY DEF LoadFile
  <2> QED
    BY <1>1, <1>2, <2>1
<1>4. CASE Tested(f)
  <2>1. types' = Append(types, f)
    BY <1>2, <1>4 DEF LoadFile
  <2>2. types \in Seq(Files)
    BY DEF LoadInv
  <2>3. /\ types' \in Seq(Files) /\ Len(types') = Len(types) + 1 /\ Len(types) \in Nat
        /\ DOMAIN types = 1..Len(types) /\ DOMAIN types' = 1..(Len(types) + 1)
        /\ \A t \in DOMAIN types : types'[t] = types[t]
        /\ types'[Len(types) + 1] = f
    BY <1>2, <2>1, <2>2
  <2>4. \A t \in DOMAIN types' : t \in DOMAIN types \/ t = Len(types) + 1
    BY <2>3
  <2>5. \A t \in DOMAIN types' :
           /\ LoadsTypeFile(types'[t]) /\ Tested(types'[t])
           /\ \E k \in 1..loaded' : types'[t] = input.files[k]
    <3>1. ASSUME NEW t \in DOMAIN types
          PROVE  /\ LoadsTypeFile(types[t]) /\ Tested(types[t])
                 /\ \E k \in 1..loaded' : types[t] = input.files[k]
      <4>1. PICK k \in 1..n : types[t] = input.files[k]
        BY DEF LoadInv
      <4> QED
        BY <1>3, <4>1 DEF LoadInv
    <3>2. n + 1 \in 1..loaded'
      BY <1>3
    <3> QED
      BY <1>2, <1>4, <2>3, <2>4, <3>1, <3>2
  <2>6. \A t \in DOMAIN types : types[t].name # f.name
    <3>1. \A k \in 1..n : k \in DOMAIN input.files /\ k # n + 1
      BY <1>1
    <3>2. \A k \in 1..n : input.files[k].name # f.name
      BY <1>1, <3>1, FilesType
    <3> QED
      BY <3>2 DEF LoadInv
  <2>7. \A t, u \in DOMAIN types' : types'[t].name = types'[u].name => t = u
    BY <2>3, <2>4, <2>6 DEF LoadInv
  <2>8. \A k \in 1..loaded' : Tested(input.files[k]) => \E t \in DOMAIN types' : types'[t] = input.files[k]
    <3>1. Len(types) + 1 \in DOMAIN types' /\ DOMAIN types \subseteq DOMAIN types'
      BY <2>3
    <3>2. \A k \in 1..n : Tested(input.files[k]) => \E t \in DOMAIN types : types[t] = input.files[k]
      BY DEF LoadInv
    <3> QED
      BY <1>3, <2>3, <3>1, <3>2
  <2> QED
    BY <1>2, <1>3, <2>3, <2>5, <2>7, <2>8 DEF LoadInv
<1>5. CASE ~Tested(f)
  <2>1. types' = types
    BY <1>2, <1>5 DEF LoadFile
  <2>2. /\ types' \in Seq(Files)
        /\ \A t, u \in DOMAIN types' : types'[t].name = types'[u].name => t = u
    BY <2>1 DEF LoadInv
  <2>3. ASSUME NEW t \in DOMAIN types'
        PROVE  /\ LoadsTypeFile(types'[t]) /\ Tested(types'[t])
               /\ \E k \in 1..loaded' : types'[t] = input.files[k]
    <3>1. PICK k \in 1..n : types[t] = input.files[k]
      BY <2>1 DEF LoadInv
    <3>2. LoadsTypeFile(types[t]) /\ Tested(types[t])
      BY <2>1 DEF LoadInv
    <3> QED
      BY <1>3, <2>1, <3>1, <3>2
  <2>4. \A k \in 1..n : Tested(input.files[k]) => \E t \in DOMAIN types : types[t] = input.files[k]
    BY DEF LoadInv
  <2>5. ASSUME NEW k \in 1..loaded', Tested(input.files[k])
        PROVE  \E t \in DOMAIN types' : types'[t] = input.files[k]
    <3>1. k \in 1..n
      BY <1>3, <1>5, <2>5
    <3> QED
      BY <2>1, <2>4, <2>5, <3>1
  <2> QED
    BY <1>2, <1>3, <2>2, <2>3, <2>5 DEF LoadInv
<1> QED
  BY <1>4, <1>5

\* Every step keeps the types in line with the files.
LEMMA LoadStep == WorkersInv /\ LoadInv /\ [Next]_vars => LoadInv'
<1> SUFFICES ASSUME WorkersInv, LoadInv, [Next]_vars PROVE LoadInv'
  OBVIOUS
<1>1. CASE LoadFile /\ LoadsTypeFile(input.files[loaded + 1])
  BY <1>1, FileLoaded DEF WorkersInv
<1>2. CASE UNCHANGED <<input, loaded, types>>
  <2>1. Files' = Files
    BY <1>2 DEF Files
  <2> QED
    BY <1>2, <2>1 DEF LoadInv
<1>3. LoadFile /\ ~LoadsTypeFile(input.files[loaded + 1]) => UNCHANGED <<input, loaded, types>>
  BY DEF LoadFile
<1>4. \/ LoadFile
      \/ UNCHANGED <<input, loaded, types>>
  BY DEF Next, CheckFlags, Loaded, DetectAndBuild, Built, StartWorker, AllUp, RunTest, CheckSkips,
         PrintReport, Interrupt, Done, vars, given
<1> QED
  BY <1>1, <1>2, <1>3, <1>4

\* How far a run has come: the whole suite is loaded before a worker is built, every
\* directory has its worker before one starts, and all are up before a test is run.
SetUp ==
    /\ pc \in {"detect", "start", "suite", "skips", "print"} \/ why = "ok" =>
           loaded = Len(input.files) /\ types # <<>>
    /\ pc \in {"start", "suite", "skips", "print"} \/ why = "ok" =>
           Len(infos) = Len(input.dirs)
    /\ pc \in {"suite", "skips", "print"} \/ why = "ok" =>
           started = Len(infos) /\ ref \in DOMAIN workers

\* Every step keeps that order.
LEMMA SetUpStep == WorkersInv /\ SetUp /\ [Next]_vars => SetUp'
<1> SUFFICES ASSUME WorkersInv, SetUp, [Next]_vars PROVE SetUp'
  OBVIOUS
<1> USE DEF given
<1>0. why = "none" \/ pc = "done"
  BY DEF WorkersInv
<1>1. CASE CheckFlags
  BY <1>0, <1>1 DEF CheckFlags, Return, SetUp
<1>2. CASE LoadFile
  BY <1>0, <1>2 DEF LoadFile, Return, SetUp
<1>3. CASE Loaded
  BY <1>0, <1>3 DEF Loaded, Return, SetUp
<1>4. CASE DetectAndBuild
  BY <1>0, <1>4 DEF DetectAndBuild, Return, SetUp
<1>5. CASE Built
  BY <1>0, <1>5 DEF Built, Return, SetUp
<1>6. CASE StartWorker
  BY <1>0, <1>6 DEF StartWorker, Return, SetUp
<1>7. CASE AllUp
  BY <1>0, <1>7 DEF AllUp, Return, SetUp
<1>8. ASSUME NEW o, NEW encodes \in BOOLEAN, NEW lost, RunTest(o, encodes, lost) PROVE SetUp'
  BY <1>0, <1>8 DEF RunTest, SetUp
<1>9. CASE CheckSkips
  BY <1>0, <1>9 DEF CheckSkips, Return, SetUp
<1>10. CASE PrintReport
  BY <1>0, <1>10 DEF PrintReport, Return, SetUp
<1>11. CASE Interrupt
  BY <1>11 DEF Interrupt, SetUp
<1>12. CASE UNCHANGED vars
  BY <1>12 DEF vars, SetUp
<1> QED
  BY <1>1, <1>2, <1>3, <1>4, <1>5, <1>6, <1>7, <1>8, <1>9, <1>10, <1>11, <1>12 DEF Next, Done

-----------------------------------------------------------------------------
(* The order in which RunSuite runs the tests.                              *)

\* Types, then formats, then cases.
Before(p, q) ==
    p[1] < q[1] \/ (p[1] = q[1] /\ (p[2] < q[2] \/ (p[2] = q[2] /\ p[3] < q[3])))

\* What the loader made sure of: every type has formats and cases.
LEMMA TypeParts ==
    ASSUME input \in Inputs, LoadInv
    PROVE  /\ Len(types) \in Nat /\ DOMAIN types = 1..Len(types)
           /\ \A t \in DOMAIN types :
                 /\ Len(types[t].formats) \in Nat \ {0} /\ Len(types[t].cases) \in Nat \ {0}
                 /\ DOMAIN types[t].formats = 1..Len(types[t].formats)
                 /\ DOMAIN types[t].cases = 1..Len(types[t].cases)
                 /\ \A n \in DOMAIN types[t].formats : types[t].formats[n].name \in Seq(STRING)
                 /\ \A n \in DOMAIN types[t].cases : types[t].cases[n] \in Seq(STRING)
<1>1. Len(types) \in Nat /\ DOMAIN types = 1..Len(types)
  BY DEF LoadInv
<1>2. ASSUME NEW t \in DOMAIN types, NEW f, f = types[t]
      PROVE  /\ Len(f.formats) \in Nat \ {0} /\ Len(f.cases) \in Nat \ {0}
             /\ DOMAIN f.formats = 1..Len(f.formats) /\ DOMAIN f.cases = 1..Len(f.cases)
             /\ \A n \in DOMAIN f.formats : f.formats[n].name \in Seq(STRING)
             /\ \A n \in DOMAIN f.cases : f.cases[n] \in Seq(STRING)
  <2>1. PICK k \in 1..loaded : f = input.files[k]
    BY <1>2 DEF LoadInv
  <2>2. k \in DOMAIN input.files
    BY FilesType DEF LoadInv
  <2>3. /\ Len(f.formats) \in Nat /\ DOMAIN f.formats = 1..Len(f.formats)
        /\ Len(f.cases) \in Nat /\ DOMAIN f.cases = 1..Len(f.cases)
        /\ \A n \in DOMAIN f.formats : f.formats[n].name \in Seq(STRING)
        /\ \A n \in DOMAIN f.cases : f.cases[n] \in Seq(STRING)
    BY <2>1, <2>2, FilesType
  <2>4. f.cases # <<>> /\ f.formats # <<>>
    BY <1>2 DEF LoadInv, LoadsTypeFile, Tested
  <2>5. f.formats \in Seq({f.formats[n] : n \in DOMAIN f.formats}) /\ f.cases \in Seq(Seq(STRING))
    <3>1. \A j \in DOMAIN input.files :
             LET h == input.files[j] IN
             /\ h.formats \in Seq({h.formats[n] : n \in DOMAIN h.formats})
             /\ h.cases \in Seq(Seq(STRING))
      BY InputAssumption, Zenon
    <3> QED
      BY <2>1, <2>2, <3>1, Zenon
  <2>6. Len(f.formats) # 0 /\ Len(f.cases) # 0
    BY <2>4, <2>5
  <2> QED
    BY <2>3, <2>6
<1> QED
  BY <1>1, <1>2

\* A test is a type, a format and a case of it.
LEMMA TestsAre ==
    ASSUME NEW p
    PROVE  p \in Tests <=>
              /\ p = <<p[1], p[2], p[3]>>
              /\ p[1] \in DOMAIN types
              /\ p[2] \in DOMAIN types[p[1]].formats /\ p[3] \in DOMAIN types[p[1]].cases
<1>1. ASSUME p \in Tests
      PROVE  /\ p = <<p[1], p[2], p[3]>>
             /\ p[1] \in DOMAIN types
             /\ p[2] \in DOMAIN types[p[1]].formats /\ p[3] \in DOMAIN types[p[1]].cases
  <2>1. PICK t \in DOMAIN types :
           p \in {<<t, f, c>> : f \in DOMAIN types[t].formats, c \in DOMAIN types[t].cases}
    BY <1>1 DEF Tests
  <2>2. PICK f \in DOMAIN types[t].formats, c \in DOMAIN types[t].cases : p = <<t, f, c>>
    BY <2>1
  <2> QED
    BY <2>2
<1>2. ASSUME NEW t \in DOMAIN types, NEW f \in DOMAIN types[t].formats,
             NEW c \in DOMAIN types[t].cases
      PROVE  <<t, f, c>> \in Tests
  BY DEF Tests
<1> QED
  BY <1>1, <1>2

\* The first test of a type, or of a format.
LEMMA AfterIsNext ==
    ASSUME input \in Inputs, LoadInv, NEW q \in Tests, NEW p \in Tests
    PROVE  /\ After(q) = <<>> => Before(p, q) \/ p = q
           /\ After(q) # <<>> =>
                 /\ After(q) \in Tests
                 /\ Before(q, After(q))
                 /\ Before(p, q) => Before(p, After(q))
                 /\ Before(p, After(q)) => Before(p, q) \/ p = q
<1> DEFINE ty == types[q[1]]
<1>1. /\ q = <<q[1], q[2], q[3]>> /\ q[1] \in 1..Len(types) /\ Len(types) \in Nat
      /\ q[2] \in 1..Len(ty.formats) /\ q[3] \in 1..Len(ty.cases)
      /\ Len(ty.formats) \in Nat /\ Len(ty.cases) \in Nat
  BY TestsAre, TypeParts
<1>2. /\ p = <<p[1], p[2], p[3]>> /\ p[1] \in 1..Len(types)
      /\ p[2] \in 1..Len(types[p[1]].formats) /\ p[3] \in 1..Len(types[p[1]].cases)
      /\ Len(types[p[1]].formats) \in Nat /\ Len(types[p[1]].cases) \in Nat
  BY TestsAre, TypeParts
<1>3. p[1] = q[1] => p[2] \in 1..Len(ty.formats) /\ p[3] \in 1..Len(ty.cases)
  BY <1>2
<1>4. (p[1] = q[1] /\ p[2] = q[2] /\ p[3] = q[3]) => p = q
  BY <1>1, <1>2
<1>5. CASE q[3] < Len(ty.cases)
  <2>1. After(q) = <<q[1], q[2], q[3] + 1>>
    BY <1>5 DEF After
  <2>2. <<q[1], q[2], q[3] + 1>> \in Tests
    <3>1. q[3] + 1 \in DOMAIN ty.cases /\ q[2] \in DOMAIN ty.formats /\ q[1] \in DOMAIN types
      BY <1>1, <1>5, TypeParts
    <3> QED
      BY <3>1 DEF Tests
  <2>3. <<q[1], q[2], q[3] + 1>> # <<>>
    OBVIOUS
  <2>4. Before(q, <<q[1], q[2], q[3] + 1>>)
    BY <1>1 DEF Before
  <2>5. Before(p, q) => Before(p, <<q[1], q[2], q[3] + 1>>)
    BY <1>1, <1>2 DEF Before
  <2>6. Before(p, <<q[1], q[2], q[3] + 1>>) => Before(p, q) \/ p = q
    BY <1>1, <1>2, <1>4 DEF Before
  <2> QED
    BY <2>1, <2>2, <2>3, <2>4, <2>5, <2>6
<1>6. CASE ~(q[3] < Len(ty.cases)) /\ q[2] < Len(ty.formats)
  <2>1. After(q) = <<q[1], q[2] + 1, 1>>
    BY <1>6 DEF After
  <2>2. <<q[1], q[2] + 1, 1>> \in Tests
    <3>1. 1 \in DOMAIN ty.cases /\ q[2] + 1 \in DOMAIN ty.formats /\ q[1] \in DOMAIN types
      BY <1>1, <1>6, TypeParts
    <3> QED
      BY <3>1 DEF Tests
  <2>3. <<q[1], q[2] + 1, 1>> # <<>>
    OBVIOUS
  <2>4. Before(q, <<q[1], q[2] + 1, 1>>)
    BY <1>1 DEF Before
  <2>5. Before(p, q) => Before(p, <<q[1], q[2] + 1, 1>>)
    BY <1>1, <1>2 DEF Before
  <2>6. Before(p, <<q[1], q[2] + 1, 1>>) => Before(p, q) \/ p = q
    BY <1>1, <1>2, <1>3, <1>4, <1>6 DEF Before
  <2> QED
    BY <2>1, <2>2, <2>3, <2>4, <2>5, <2>6
<1>7. CASE ~(q[3] < Len(ty.cases)) /\ ~(q[2] < Len(ty.formats)) /\ q[1] < Len(types)
  <2>1. After(q) = <<q[1] + 1, 1, 1>>
    BY <1>7 DEF After
  <2>2. <<q[1] + 1, 1, 1>> \in Tests
    <3>1. q[1] + 1 \in DOMAIN types
      BY <1>1, <1>7, TypeParts
    <3>2. 1 \in DOMAIN types[q[1] + 1].formats /\ 1 \in DOMAIN types[q[1] + 1].cases
      BY <3>1, TypeParts
    <3> QED
      BY <3>1, <3>2 DEF Tests
  <2>3. <<q[1] + 1, 1, 1>> # <<>>
    OBVIOUS
  <2>4. Before(q, <<q[1] + 1, 1, 1>>)
    BY <1>1 DEF Before
  <2>5. Before(p, q) => Before(p, <<q[1] + 1, 1, 1>>)
    BY <1>1, <1>2 DEF Before
  <2>6. Before(p, <<q[1] + 1, 1, 1>>) => Before(p, q) \/ p = q
    <3>1. ASSUME Before(p, <<q[1] + 1, 1, 1>>) PROVE p[1] <= q[1]
      BY <1>1, <1>2, <3>1 DEF Before
    <3>2. p[1] = q[1] => Before(p, q) \/ p = q
      BY <1>1, <1>2, <1>3, <1>4, <1>7 DEF Before
    <3> QED
      BY <1>1, <1>2, <3>1, <3>2 DEF Before
  <2> QED
    BY <2>1, <2>2, <2>3, <2>4, <2>5, <2>6
<1>8. CASE ~(q[3] < Len(ty.cases)) /\ ~(q[2] < Len(ty.formats)) /\ ~(q[1] < Len(types))
  <2>1. After(q) = <<>>
    BY <1>8 DEF After
  <2>2. Before(p, q) \/ p = q
    BY <1>1, <1>2, <1>3, <1>4, <1>8 DEF Before
  <2> QED
    BY <2>1, <2>2
<1> QED
  BY <1>5, <1>6, <1>7, <1>8

\* The run starts with the first test, and no test is before itself.
LEMMA StartIsFirst ==
    ASSUME input \in Inputs, LoadInv, types # <<>>
    PROVE  Start \in Tests /\ \A p \in Tests : ~Before(p, Start) /\ ~Before(p, p)
<1>1. Len(types) # 0
  BY DEF LoadInv
<1>2. 1 \in DOMAIN types
  BY <1>1, TypeParts
<1>3. 1 \in DOMAIN types[1].formats /\ 1 \in DOMAIN types[1].cases
  BY <1>2, TypeParts
<1>4. Start \in Tests
  BY <1>2, <1>3 DEF Start, Tests
<1>5. ASSUME NEW p \in Tests PROVE ~Before(p, Start) /\ ~Before(p, p)
  <2>1. p[1] \in Nat \ {0} /\ p[2] \in Nat \ {0} /\ p[3] \in Nat \ {0}
    BY TestsAre, TypeParts
  <2> QED
    BY <2>1 DEF Before, Start
<1> QED
  BY <1>4, <1>5

\* A test id begins with the name of the type.
LEMMA IdOfType ==
    ASSUME input \in Inputs, LoadInv, NEW p \in Tests
    PROVE  TestID(p)[1] = types[p[1]].name
<1> DEFINE n == types[p[1]].name
           a == types[p[1]].formats[p[2]].name
           b == types[p[1]].cases[p[3]]
<1>1. a \in Seq(STRING) /\ b \in Seq(STRING)
  BY TestsAre, TypeParts
<1>2. a \in Seq(STRING \cup {n}) /\ b \in Seq(STRING \cup {n}) /\ <<n>> \in Seq(STRING \cup {n})
  <2>1. STRING \subseteq STRING \cup {n}
    OBVIOUS
  <2> HIDE DEF n, a, b
  <2> QED
    BY <1>1, <2>1
<1>3. (<<n>> \o a \o b)[1] = n
  <2> HIDE DEF n, a, b
  <2> QED
    BY <1>2
<1> QED
  BY <1>3 DEF TestID

-----------------------------------------------------------------------------
(* Nothing is left out: NothingLeftOut.                                     *)

Running == pc \in {"suite", "skips", "print"} \/ why = "ok"

\* The tests the run has behind it, and what that means.
Past(p) == p \in Tests /\ (pc = "suite" => Before(p, at))
WasRun(p) ==
    /\ \A l \in DOMAIN workers : \E e \in ran :
           /\ e[1] = p /\ e[2] = workers[l]
           /\ \A op \in Rounds \ e[5] : <<TestID(p), l, op>> \in DOMAIN results
    /\ \E l \in DOMAIN workers, op \in Rounds : <<TestID(p), l, op>> \in DOMAIN results

RanInv ==
    /\ pc \in {"flags", "load", "detect", "start"} =>
           at = Start /\ ran = {} /\ DOMAIN results = {} /\ failures = {} /\ csv = {}
    /\ pc = "suite" => at \in Tests
    /\ \A e \in ran : Past(e[1]) /\ \E l \in DOMAIN workers : workers[l] = e[2]
    /\ ~cancelled => \A e \in ran : e[5] = {}
    /\ Running => \A p \in Tests : Past(p) => WasRun(p)
    /\ why = "ok" /\ input.flags.csv => csv = Records

\* The suite stays what it is once it was loaded.
LEMMA SuiteKept ==
    ASSUME UNCHANGED types
    PROVE  /\ Tests' = Tests /\ TestIDs' = TestIDs /\ (UniqueIds' <=> UniqueIds)
           /\ \A p : TestID(p)' = TestID(p)
<1>1. Tests' = Tests /\ \A p : TestID(p)' = TestID(p)
  BY DEF Tests, TestID
<1>2. TestIDs' = TestIDs
  BY <1>1 DEF TestIDs
<1>3. UniqueIds' <=> UniqueIds
  BY <1>1 DEF UniqueIds
<1> QED
  BY <1>1, <1>2, <1>3

\* The keys of a test's rows: both rounds of every worker, but for the lost replies.
Keys(q, lost) ==
    {k \in {TestID(q)} \X (DOMAIN workers) \X Rounds : <<k[2], k[3]>> \notin lost}

\* The rows of a test.
LEMMA RowsAre ==
    ASSUME NEW o, NEW encodes, NEW lost
    PROVE  /\ DOMAIN TestRows(o, encodes, lost) = Keys(at, lost)
           /\ \A l \in DOMAIN workers, op \in Rounds :
                 <<l, op>> \notin lost =>
                     TestRows(o, encodes, lost)[<<TestID(at), l, op>>]
                         = Status(o, encodes, l, op, KnownFailure(l, TestID(at)))
  BY DEF TestRows, Keys

\* A key is a round of a worker whose reply was not lost.
LEMMA KeysAre ==
    ASSUME NEW q, NEW lost
    PROVE  /\ \A l \in DOMAIN workers, op \in Rounds :
                 <<l, op>> \notin lost => <<TestID(q), l, op>> \in Keys(q, lost)
           /\ \A k \in Keys(q, lost) :
                 /\ k[1] = TestID(q)
                 /\ \E l \in DOMAIN workers, op \in Rounds :
                       k = <<TestID(q), l, op>> /\ <<l, op>> \notin lost
<1>1. ASSUME NEW l \in DOMAIN workers, NEW op \in Rounds, <<l, op>> \notin lost
      PROVE  <<TestID(q), l, op>> \in Keys(q, lost)
  BY <1>1 DEF Keys
<1>2. ASSUME NEW k \in Keys(q, lost)
      PROVE  /\ k[1] = TestID(q)
             /\ \E l \in DOMAIN workers, op \in Rounds :
                   k = <<TestID(q), l, op>> /\ <<l, op>> \notin lost
  <2>1. k \in {TestID(q)} \X (DOMAIN workers) \X Rounds /\ <<k[2], k[3]>> \notin lost
    BY DEF Keys
  <2>2. PICK l \in DOMAIN workers, op \in Rounds : k = <<TestID(q), l, op>>
    BY <2>1
  <2> QED
    BY <2>1, <2>2
<1> QED
  BY <1>1, <1>2

\* An interrupt never takes both rounds of the reference.
LEMMA RefAnswers ==
    ASSUME NEW o, NEW encodes, NEW lost, LostReplies(o, encodes, lost)
    PROVE  \E op \in Rounds : <<ref, op>> \notin lost
<1>1. CASE <<ref, "serialize">> \notin lost
  BY <1>1 DEF Rounds
<1>2. CASE <<ref, "serialize">> \in lost
  <2>1. lost \subseteq {l \in DOMAIN workers : o[l] \notin Unbound} \X {"serialize"}
    BY <1>2 DEF LostReplies
  <2>2. <<ref, "deserialize">> \notin lost
    BY <2>1
  <2> QED
    BY <2>2 DEF Rounds
<1> QED
  BY <1>1, <1>2

\* What the report is once rows were added.
LEMMA AddFacts ==
    ASSUME NEW rows, Add(rows)
    PROVE  /\ DOMAIN results' = DOMAIN rows \cup DOMAIN results
           /\ \A k \in DOMAIN rows : results'[k] = rows[k]
           /\ \A k \in DOMAIN results \ DOMAIN rows : results'[k] = results[k]
           /\ failures' = failures \cup {k \in DOMAIN rows : rows[k] \in {"FAIL", "ERROR"}}
<1>1. results' = [k \in DOMAIN rows \cup DOMAIN results |->
                     IF k \in DOMAIN rows THEN rows[k] ELSE results[k]]
  BY DEF Add
<1> QED
  BY <1>1 DEF Add

\* The step of one test.
LEMMA RanTest ==
    ASSUME WorkersInv, LoadInv, SetUp, RanInv, NEW o, NEW encodes \in BOOLEAN, NEW lost,
           RunTest(o, encodes, lost)
    PROVE  RanInv'
<1> SUFFICES ASSUME NEW q, q = at PROVE RanInv'
  OBVIOUS
<1> DEFINE gone(l) == {op \in Rounds : <<l, op>> \in lost}
           entry(l) == <<q, workers[l], o[l], o[ref], gone(l)>>
<1>1. /\ UNCHANGED <<input, types, workers, why, csv>> /\ why = "none"
      /\ pc = "suite" /\ q \in Tests /\ input \in Inputs
      /\ at' = After(q) /\ pc' = IF After(q) = <<>> THEN "skips" ELSE "suite"
      /\ ran' = ran \cup {entry(l) : l \in DOMAIN workers}
      /\ ~cancelled' => ~cancelled /\ lost = {}
  <2>1. ran' = ran \cup {entry(l) : l \in DOMAIN workers}
    BY DEF RunTest, Entry
  <2>2. ~cancelled' => ~cancelled /\ lost = {}
    BY Zenon DEF RunTest
  <2> QED
    BY <2>1, <2>2 DEF RunTest, given, WorkersInv, RanInv
<1>2. Tests' = Tests /\ \A p : TestID(p)' = TestID(p)
  BY <1>1, SuiteKept
<1>3. ASSUME NEW p \in Tests
      PROVE  /\ (pc' = "suite" => Before(p, After(q))) => Before(p, q) \/ p = q
             /\ Before(p, q) \/ p = q => (pc' = "suite" => Before(p, After(q)))
  BY <1>1, AfterIsNext
<1>4. pc' = "suite" => at' \in Tests
  BY <1>1, AfterIsNext
<1>5. ASSUME NEW e \in ran'
      PROVE  \/ e \in ran
             \/ \E l \in DOMAIN workers :
                   e[1] = q /\ e[2] = workers[l] /\ e[5] = gone(l)
  <2>1. CASE e \notin ran
    <3>1. PICK l \in DOMAIN workers : e = entry(l)
      BY <1>1, <2>1
    <3> QED
      BY <3>1
  <2> QED
    BY <2>1
<1>6. \A e \in ran' : Past(e[1])' /\ \E l \in DOMAIN workers : workers[l] = e[2]
  <2>1. ASSUME NEW e \in ran'
        PROVE  /\ e[1] \in Tests /\ (Before(e[1], q) \/ e[1] = q)
               /\ \E l \in DOMAIN workers : workers[l] = e[2]
    <3> HIDE DEF gone
    <3> QED
      BY <1>1, <1>5 DEF RanInv, Past
  <2> QED
    BY <1>1, <1>2, <1>3, <2>1 DEF Past
<1>7. ~cancelled' => \A e \in ran' : e[5] = {}
  <2>1. ASSUME ~cancelled' PROVE \A l : gone(l) = {}
    BY <1>1, <2>1
  <2> HIDE DEF gone
  <2> QED
    BY <1>1, <1>5, <2>1 DEF RanInv
<1>8. DOMAIN results' = Keys(q, lost) \cup DOMAIN results
  <2>1. Add(TestRows(o, encodes, lost))
    BY DEF RunTest
  <2> QED
    BY <2>1, AddFacts, RowsAre
<1>9. ASSUME NEW p \in Tests, Before(p, q) \/ p = q PROVE WasRun(p)'
  <2>1. CASE p = q
    <3>1. ASSUME NEW l \in DOMAIN workers
          PROVE  \E e \in ran' : /\ e[1] = q /\ e[2] = workers[l]
                                 /\ \A op \in Rounds \ e[5] : <<TestID(q), l, op>> \in DOMAIN results'
      <4>1. entry(l) \in ran' /\ entry(l)[1] = q /\ entry(l)[2] = workers[l] /\ entry(l)[5] = gone(l)
        BY <1>1
      <4>2. \A op \in Rounds \ gone(l) : <<TestID(q), l, op>> \in DOMAIN results'
        BY <1>8, KeysAre
      <4> HIDE DEF entry, gone
      <4> QED
        BY <4>1, <4>2
    <3>2. \E l \in DOMAIN workers, op \in Rounds : <<TestID(q), l, op>> \in DOMAIN results'
      <4>1. PICK op \in Rounds : <<ref, op>> \notin lost
        BY RefAnswers DEF RunTest
      <4>2. ref \in DOMAIN workers
        BY <1>1 DEF SetUp
      <4> QED
        BY <1>8, <4>1, <4>2, KeysAre
    <3> QED
      BY <1>1, <1>2, <2>1, <3>1, <3>2 DEF WasRun
  <2>2. CASE Before(p, q)
    <3>1. WasRun(p)
      BY <1>1, <2>2 DEF RanInv, Past, Running
    <3>2. ran \subseteq ran' /\ DOMAIN results \subseteq DOMAIN results'
      BY <1>1, <1>8
    <3> QED
      BY <1>1, <1>2, <3>1, <3>2 DEF WasRun
  <2> QED
    BY <1>9, <2>1, <2>2
<1>10. \A p \in Tests : Past(p)' => WasRun(p)'
  BY <1>1, <1>2, <1>3, <1>9 DEF Past
<1> QED
  BY <1>1, <1>2, <1>4, <1>6, <1>7, <1>10 DEF RanInv

\* Steps that only add rows, and leave nothing unrun behind.
LEMMA RanKept ==
    ASSUME RanInv, UNCHANGED <<input, types, workers, ran, cancelled>>,
           DOMAIN results \subseteq DOMAIN results',
           pc # "suite", pc' \in {"skips", "print", "done"},
           Running' => Running, why' = "ok" /\ input.flags.csv => csv' = Records'
    PROVE  RanInv'
<1>1. Tests' = Tests /\ \A p : TestID(p)' = TestID(p)
  BY SuiteKept
<1>2. \A p : Past(p)' <=> Past(p)
  BY <1>1 DEF Past
<1>3. \A p : WasRun(p) => WasRun(p)'
  BY <1>1 DEF WasRun
<1> QED
  BY <1>1, <1>2, <1>3 DEF RanInv

\* Every step keeps it.
LEMMA RanStep == WorkersInv /\ LoadInv /\ SetUp /\ RanInv /\ [Next]_vars => RanInv'
<1> SUFFICES ASSUME WorkersInv, LoadInv, SetUp, RanInv, [Next]_vars PROVE RanInv'
  OBVIOUS
<1> USE DEF given
<1>0. why = "none" \/ pc = "done"
  BY DEF WorkersInv
<1>1. CASE CheckFlags \/ LoadFile \/ Loaded \/ DetectAndBuild \/ Built \/ StartWorker \/ AllUp
  <2>1. pc \in {"flags", "load", "detect", "start"} /\ UNCHANGED <<at, ran, results, failures, csv>>
    BY <1>1 DEF CheckFlags, LoadFile, Loaded, DetectAndBuild, Built, StartWorker, AllUp, suiteVars,
                reportVars
  <2>2. at = Start /\ ran = {} /\ DOMAIN results = {} /\ failures = {} /\ csv = {} /\ why = "none"
    BY <1>0, <2>1 DEF RanInv
  <2>3. /\ why' # "ok"
        /\ pc' \in {"flags", "load", "detect", "start", "done"} \/ (AllUp /\ pc' = "suite")
    BY <1>1, <2>1, <2>2 DEF CheckFlags, LoadFile, Loaded, DetectAndBuild, Built, StartWorker, AllUp,
                            Return
  <2>4. CASE pc' = "suite"
    <3>1. Start \in Tests /\ \A p \in Tests : ~Before(p, Start)
      BY <2>1, <2>3, <2>4, StartIsFirst DEF WorkersInv, SetUp, AllUp
    <3>2. Tests' = Tests
      BY <2>3, <2>4, SuiteKept DEF AllUp
    <3> QED
      BY <2>1, <2>2, <2>3, <2>4, <3>1, <3>2 DEF RanInv, Past
  <2>5. CASE pc' # "suite"
    BY <2>1, <2>2, <2>3, <2>5 DEF RanInv, Running
  <2> QED
    BY <2>4, <2>5
<1>2. ASSUME NEW o, NEW encodes \in BOOLEAN, NEW lost, RunTest(o, encodes, lost) PROVE RanInv'
  BY <1>2, RanTest
<1>3. CASE CheckSkips
  <2>1. DOMAIN results \subseteq DOMAIN results'
    <3>1. UNCHANGED reportVars \/ \E rows : Add(rows)
      BY <1>3 DEF CheckSkips
    <3> QED
      BY <3>1, AddFacts DEF reportVars
  <2>2. pc = "skips" /\ pc' \in {"print", "done"} /\ why' # "ok"
    BY <1>0, <1>3 DEF CheckSkips, Return
  <2> QED
    BY <1>3, <2>1, <2>2, RanKept DEF CheckSkips, Running
<1>4. CASE PrintReport
  <2>1. pc = "print" /\ pc' = "done" /\ UNCHANGED <<input, types, results>>
    BY <1>4 DEF PrintReport, Return, suiteVars, reportVars
  <2>2. Records' = Records
    BY <2>1, SuiteKept DEF Records
  <2>3. why' = "ok" /\ input.flags.csv => csv' = Records
    BY <1>4 DEF PrintReport, Return
  <2> QED
    BY <1>4, <2>1, <2>2, <2>3, RanKept DEF PrintReport, Running, suiteVars, reportVars
<1>5. CASE Interrupt \/ UNCHANGED vars
  <2>1. /\ UNCHANGED <<input, types, pc, why, at, ran, workers, results, failures, csv>>
        /\ ~cancelled' => ~cancelled
    BY <1>5 DEF Interrupt, vars, reportVars
  <2>2. Tests' = Tests /\ TestIDs' = TestIDs /\ \A p : TestID(p)' = TestID(p)
    BY <2>1, SuiteKept
  <2>3. Records' = Records
    BY <2>1, <2>2 DEF Records
  <2>4. \A p : (Past(p)' <=> Past(p)) /\ (WasRun(p)' <=> WasRun(p))
    BY <2>1, <2>2 DEF Past, WasRun
  <2> QED
    BY <2>1, <2>2, <2>3, <2>4 DEF RanInv, Running
<1> QED
  BY <1>1, <1>2, <1>3, <1>4, <1>5 DEF Next, Done

\* What a green run has behind it.
LEMMA GreenRan ==
    ASSUME WorkersInv, LoadInv, SetUp, RanInv, Green, ~cancelled
    PROVE  AllThere
<1>1. /\ why = "ok" /\ pc = "done" /\ loaded = Len(input.files) /\ input \in Inputs
      /\ started = Len(infos) /\ Len(infos) = Len(input.dirs)
  BY DEF Green, WorkersInv, SetUp
<1>2. ASSUME NEW k \in DOMAIN input.files, Tested(input.files[k])
      PROVE  \E t \in DOMAIN types : types[t] = input.files[k]
  <2>1. k \in 1..loaded
    BY <1>1, FilesType
  <2> QED
    BY <1>2, <2>1 DEF LoadInv
<1>3. ASSUME NEW p \in Tests, NEW d \in Dirs
      PROVE  /\ \E e \in ran : e[1] = p /\ e[2] = d /\ e[5] = {}
             /\ input.flags.csv => \A op \in Rounds : <<TestID(p), infos[d], op>> \in csv
  <2>1. d \in 1..started
    <3>1. input.dirs \in Seq([markers : SUBSET Langs, manifest : BOOLEAN, builds : BOOLEAN,
                              starts : BOOLEAN])
      BY <1>1, InputAssumption
    <3>2. DOMAIN input.dirs = 1..Len(input.dirs)
      BY <3>1
    <3> QED
      BY <1>1, <3>2 DEF Dirs
  <2>2. infos[d] \in DOMAIN workers /\ workers[infos[d]] = d
    BY <2>1 DEF WorkersInv
  <2>3. WasRun(p)
    BY <1>1 DEF RanInv, Running, Past
  <2>4. PICK e \in ran : /\ e[1] = p /\ e[2] = d
                         /\ \A op \in Rounds \ e[5] : <<TestID(p), infos[d], op>> \in DOMAIN results
    BY <2>2, <2>3 DEF WasRun
  <2>6. e[5] = {}
    BY DEF RanInv
  <2>5. ASSUME input.flags.csv, NEW op \in Rounds PROVE <<TestID(p), infos[d], op>> \in csv
    <3>1. <<TestID(p), infos[d], op>> \in DOMAIN results
      BY <2>4, <2>6
    <3>2. TestID(p) \in TestIDs
      BY DEF TestIDs
    <3> QED
      BY <1>1, <2>5, <3>1, <3>2 DEF RanInv, Records
  <2> QED
    BY <2>4, <2>5, <2>6
<1> QED
  BY <1>2, <1>3 DEF AllThere

\* The invariant of the suite's progress, from the start of the run.
LEMMA RanInit == Init => LoadInv /\ SetUp /\ RanInv
<1> SUFFICES ASSUME Init PROVE LoadInv /\ SetUp /\ RanInv
  OBVIOUS
<1>1. /\ input \in Inputs /\ loaded = 0 /\ types = <<>> /\ pc = "flags" /\ why = "none"
      /\ ran = {} /\ at = Start /\ failures = {} /\ csv = {}
  BY DEF Init
<1>2. DOMAIN results = {}
  BY DEF Init, NoRows
<1>3. Len(input.files) \in Nat
  BY <1>1, FilesType
<1>4. types \in Seq(Files) /\ DOMAIN types = {} /\ 1..0 = {}
  BY <1>1
<1>5. LoadInv
  BY <1>1, <1>3, <1>4 DEF LoadInv
<1> QED
  BY <1>1, <1>2, <1>5 DEF SetUp, RanInv, Running

\* In a run that nobody interrupted green means that every case of every type file was
\* run, in each of its formats, by the worker of every directory, and has its rows in the
\* CSV file (conf.go:284-322, run.go:217-248, records.go:92-168).
THEOREM NothingLeftOutCorrect == Spec => []NothingLeftOut
<1>1. WorkersInv /\ LoadInv /\ SetUp /\ RanInv => NothingLeftOut
  BY GreenRan DEF NothingLeftOut
<1> QED
  BY <1>1, WorkersInit, WorkersStep, RanInit, LoadStep, SetUpStep, RanStep, PTL DEF Spec

-----------------------------------------------------------------------------
(* What the rows say of the tests: SkipNeverHidden and NoteExact.           *)

Quiet == {"SKIP", "CASCADE"}
Wrong == {"FAIL", "ERROR"}

\* The rows that say that a worker was asked to do something stand for one that did, and
\* the other way round; a round a worker was seen to decline is a skip until the skips are
\* checked, and then declared or a failure.  All of it as long as no later test has the
\* same id, and every case could be encoded.
RowInv ==
    /\ \A k \in DOMAIN results : results[k] \in Wrong => k \in failures
    /\ \A k \in DOMAIN results :
           \/ results[k] \in Quiet \cup Wrong \cup {"WARN"}
           \/ \E e \in ran : k[1] = TestID(e[1]) /\ Live(e)
    /\ ~suiteErr /\ UniqueIds =>
           \A e \in ran : \A l \in DOMAIN workers : workers[l] = e[2] /\ Live(e) =>
               \E op \in Rounds :
                   /\ <<TestID(e[1]), l, op>> \in DOMAIN results
                   /\ results[<<TestID(e[1]), l, op>>] \notin Quiet
    /\ pc \in {"suite", "skips"} /\ ~suiteErr /\ UniqueIds =>
           \A e \in ran : \A l \in DOMAIN workers : \A op \in SkippedRounds(e) :
               workers[l] = e[2] =>
                   /\ <<TestID(e[1]), l, op>> \in DOMAIN results
                   /\ results[<<TestID(e[1]), l, op>>] = "SKIP"
    /\ pc = "print" \/ why = "ok" => ~suiteErr
    /\ (pc = "print" \/ why = "ok") /\ input.enforce /\ UniqueIds /\ failures = {} =>
           \A e \in ran : \A l \in DOMAIN workers : \A op \in SkippedRounds(e) :
               workers[l] = e[2] => Covers(l, types[e[1][1]].name, op)
    /\ why = "ok" => failures = {} /\ (input.flags.table => noted = Unimplemented)

\* A round the worker declines is a skip, when the case is encoded at all.
LEMMA StatusOfSkip ==
    ASSUME NEW o, Possible(o), NEW encodes \in BOOLEAN, encodes \/ o[ref] \in Unbound,
           NEW lost, LostReplies(o, encodes, lost), NEW l \in DOMAIN workers, NEW q,
           NEW op \in SkippedRounds(<<q, workers[l], o[l], o[ref], {x \in Rounds : <<l, x>> \in lost}>>),
           NEW known
    PROVE  /\ op \in Rounds /\ <<l, op>> \notin lost
           /\ Status(o, encodes, l, op, known) = "SKIP"
<1> DEFINE gone == {x \in Rounds : <<l, x>> \in lost}
<1>0. SkippedRounds(<<q, workers[l], o[l], o[ref], gone>>) =
         CASE o[l] = "skip" -> Rounds
           [] o[l] = "skipSer" -> {"serialize"} \ gone
           [] o[l] = "skipDes" -> {"deserialize"} \ gone
           [] OTHER -> {}
  BY DEF SkippedRounds
<1>1. CASE o[l] = "skip"
  <2>1. op \in Rounds
    BY <1>0, <1>1
  <2>2. o[l] \in Unbound
    BY <1>1 DEF Unbound
  <2>3. <<l, op>> \notin lost
    BY <2>2 DEF LostReplies
  <2>4. Status(o, encodes, l, op, known) = "SKIP"
    BY <1>1 DEF Status, Unbound
  <2> QED
    BY <2>1, <2>3, <2>4
<1>2. CASE o[l] = "skipSer"
  <2>1. op = "serialize" /\ op \notin gone /\ o[l] \notin Unbound
    BY <1>0, <1>2 DEF Unbound
  <2>2. o[ref] \notin Unbound /\ encodes
    BY <1>2 DEF Possible, Unbound
  <2>3. op \in Rounds /\ <<l, op>> \notin lost
    BY <2>1 DEF Rounds
  <2> QED
    BY <1>2, <2>1, <2>2, <2>3 DEF Status
<1>3. CASE o[l] = "skipDes"
  <2>1. op = "deserialize" /\ op \notin gone /\ o[l] \notin Unbound
    BY <1>0, <1>3 DEF Unbound
  <2>2. o[ref] \notin Unbound /\ o[ref] # "skipSer" /\ encodes
    BY <1>3 DEF Possible, Unbound
  <2>3. op \in Rounds /\ <<l, op>> \notin lost
    BY <2>1 DEF Rounds
  <2> QED
    BY <1>3, <2>1, <2>2, <2>3 DEF Status
<1>4. o[l] \in {"skip", "skipSer", "skipDes"}
  BY <1>0
<1> QED
  BY <1>1, <1>2, <1>3, <1>4

\* A worker that took part has a row that shows it.
LEMMA StatusOfLive ==
    ASSUME NEW o, Possible(o), NEW encodes \in BOOLEAN, encodes \/ o[ref] \in Unbound,
           NEW l \in DOMAIN workers, o[l] \in Outcomes, NEW known,
           NEW q, NEW gone, Live(<<q, workers[l], o[l], o[ref], gone>>)
    PROVE  \E op \in Rounds \ gone : Status(o, encodes, l, op, known) \notin Quiet
<1>1. /\ o[l] \notin Unbound /\ o[ref] \notin Unbound /\ encodes
      /\ \/ o[l] # "skipSer" /\ "serialize" \notin gone
         \/ o[l] # "skipDes" /\ o[ref] # "skipSer" /\ "deserialize" \notin gone
  BY DEF Live
<1>2. CASE o[l] # "skipDes" /\ o[ref] # "skipSer" /\ "deserialize" \notin gone
  <2>1. Status(o, encodes, l, "deserialize", known) \notin Quiet
    BY <1>1, <1>2 DEF Status, Quiet
  <2> QED
    BY <1>2, <2>1 DEF Rounds
<1>3. CASE o[l] # "skipSer" /\ "serialize" \notin gone
  <2>1. Status(o, encodes, l, "serialize", known) \notin Quiet
    BY <1>1, <1>3 DEF Status, Quiet
  <2> QED
    BY <1>3, <2>1 DEF Rounds
<1> QED
  BY <1>1, <1>2, <1>3

\* Only such a worker has one.
LEMMA StatusShows ==
    ASSUME NEW o, NEW encodes \in BOOLEAN, NEW l \in DOMAIN workers, NEW known,
           o[l] \in Outcomes, NEW op \in Rounds, NEW q, NEW gone, op \notin gone,
           Status(o, encodes, l, op, known) \notin Quiet \cup Wrong
    PROVE  Live(<<q, workers[l], o[l], o[ref], gone>>)
<1>1. o[l] \notin Unbound
  BY DEF Status, Quiet, Wrong, Unbound
<1>2. o[ref] \notin Unbound
  BY <1>1 DEF Status, Quiet
<1>3. encodes
  BY <1>1, <1>2 DEF Status, Wrong
<1>4. CASE op = "serialize"
  <2>1. o[l] # "skipSer"
    BY <1>1, <1>2, <1>3, <1>4 DEF Status, Quiet
  <2> QED
    BY <1>1, <1>2, <1>4, <2>1 DEF Live
<1>5. CASE op = "deserialize"
  <2>1. o[ref] # "skipSer" /\ o[l] # "skipDes"
    BY <1>1, <1>2, <1>3, <1>5 DEF Status, Quiet
  <2> QED
    BY <1>1, <1>2, <1>5, <2>1 DEF Live
<1> QED
  BY <1>4, <1>5 DEF Rounds

\* The step of one test.
LEMMA RowTest ==
    ASSUME WorkersInv, LoadInv, SetUp, RanInv, RowInv,
           NEW o \in [DOMAIN workers -> Outcomes], NEW encodes \in BOOLEAN, NEW lost,
           RunTest(o, encodes, lost)
    PROVE  RowInv'
<1> SUFFICES ASSUME NEW q, q = at PROVE RowInv'
  OBVIOUS
<1> DEFINE known(l) == KnownFailure(l, TestID(q))
           status(l, op) == Status(o, encodes, l, op, known(l))
           gone(l) == {x \in Rounds : <<l, x>> \in lost}
           entry(l) == <<q, workers[l], o[l], o[ref], gone(l)>>
           keys == Keys(q, lost)
<1>1. /\ UNCHANGED <<input, types, workers, why, noted>> /\ why = "none"
      /\ pc = "suite" /\ q \in Tests /\ input \in Inputs
      /\ Possible(o) /\ LostReplies(o, encodes, lost)
      /\ pc' \in {"skips", "suite"}
      /\ ran' = ran \cup {entry(l) : l \in DOMAIN workers}
      /\ suiteErr' = (suiteErr \/ (~encodes /\ o[ref] \notin Unbound))
  <2>1. ran' = ran \cup {entry(l) : l \in DOMAIN workers}
    BY DEF RunTest, Entry
  <2> QED
    BY <2>1 DEF RunTest, given, WorkersInv, RanInv
<1>2. (UniqueIds' <=> UniqueIds) /\ \A p : TestID(p)' = TestID(p)
  BY <1>1, SuiteKept
<1>4. /\ \A l \in DOMAIN workers, op \in Rounds : <<l, op>> \notin lost => <<TestID(q), l, op>> \in keys
      /\ \A k \in keys :
            /\ k[1] = TestID(q)
            /\ \E l \in DOMAIN workers, op \in Rounds :
                  k = <<TestID(q), l, op>> /\ <<l, op>> \notin lost
  <2>1. \A l \in DOMAIN workers, op \in Rounds : <<l, op>> \notin lost => <<TestID(q), l, op>> \in keys
    BY KeysAre
  <2>2. ASSUME NEW k \in keys
        PROVE  /\ k[1] = TestID(q)
               /\ \E l \in DOMAIN workers, op \in Rounds :
                     k = <<TestID(q), l, op>> /\ <<l, op>> \notin lost
    <3> HIDE DEF known, gone
    <3>1. k \in Keys(q, lost)
      OBVIOUS
    <3>2. k[1] = TestID(q)
      BY <3>1, KeysAre
    <3>3. \E l \in DOMAIN workers, op \in Rounds : k = <<TestID(q), l, op>> /\ <<l, op>> \notin lost
      BY <3>1, KeysAre
    <3> QED
      BY <3>2, <3>3
  <2> QED
    BY <2>1, <2>2
<1> HIDE DEF keys
<1>3. /\ DOMAIN results' = keys \cup DOMAIN results
      /\ \A l \in DOMAIN workers, op \in Rounds :
            <<l, op>> \notin lost => results'[<<TestID(q), l, op>>] = status(l, op)
      /\ \A k \in DOMAIN results : k[1] # TestID(q) => results'[k] = results[k]
      /\ \A k \in DOMAIN results : k \notin keys => results'[k] = results[k]
      /\ failures \subseteq failures'
      /\ \A k \in keys : results'[k] \in Wrong => k \in failures'
  <2> DEFINE rows == TestRows(o, encodes, lost)
  <2>1. Add(rows) /\ DOMAIN rows = keys
    BY RowsAre DEF RunTest, keys
  <2>2. \A l \in DOMAIN workers, op \in Rounds :
           <<l, op>> \notin lost => rows[<<TestID(q), l, op>>] = status(l, op)
    BY RowsAre
  <2> HIDE DEF rows, status
  <2>5. /\ DOMAIN results' = keys \cup DOMAIN results
        /\ \A k \in keys : results'[k] = rows[k]
        /\ \A k \in DOMAIN results \ keys : results'[k] = results[k]
        /\ failures' = failures \cup {k \in keys : rows[k] \in Wrong}
    BY <2>1, AddFacts DEF Wrong
  <2>6. \A l \in DOMAIN workers, op \in Rounds :
           <<l, op>> \notin lost => results'[<<TestID(q), l, op>>] = status(l, op)
    BY <1>4, <2>2, <2>5
  <2> QED
    BY <1>4, <2>5, <2>6
<1>5. ~suiteErr' => ~suiteErr /\ (encodes \/ o[ref] \in Unbound)
  BY <1>1
<1>6. \A e \in ran : e[1] \in Tests /\ e[1] # q
  <2>1. \A p \in Tests : ~Before(p, p)
    BY <1>1, StartIsFirst DEF SetUp
  <2> QED
    BY <1>1, <2>1 DEF RanInv, Past
<1>7. UniqueIds => \A e \in ran : TestID(e[1]) # TestID(q)
  BY <1>1, <1>6 DEF UniqueIds
<1>8. ASSUME NEW e \in ran', e \notin ran
      PROVE  \E m \in DOMAIN workers :
                e = entry(m) /\ \A l \in DOMAIN workers : workers[l] = e[2] => l = m
  <2>1. PICK m \in DOMAIN workers : e = entry(m)
    BY <1>1, <1>8
  <2> QED
    BY <2>1, WorkersInjective
<1> HIDE DEF known
<1>a. \A k \in DOMAIN results' : results'[k] \in Wrong => k \in failures'
  BY <1>3 DEF RowInv
<1>b. ASSUME NEW k \in DOMAIN results', results'[k] \notin Quiet \cup Wrong \cup {"WARN"}
      PROVE  \E e \in ran' : k[1] = TestID(e[1]) /\ Live(e)
  <2>1. CASE k \in keys
    <3>1. PICK l \in DOMAIN workers, op \in Rounds : k = <<TestID(q), l, op>> /\ <<l, op>> \notin lost
      BY <1>4, <2>1
    <3>2. status(l, op) \notin Quiet \cup Wrong
      BY <1>b, <1>3, <3>1
    <3>3. Live(entry(l))
      <4>1. op \notin gone(l) /\ o[l] \in Outcomes
        BY <3>1
      <4> HIDE DEF gone
      <4> QED
        BY <3>2, <4>1, StatusShows
    <3>4. entry(l) \in ran' /\ entry(l)[1] = q /\ k[1] = TestID(q)
      BY <1>1, <3>1
    <3> QED
      BY <3>3, <3>4
  <2>2. CASE k \notin keys
    <3>1. k \in DOMAIN results /\ results[k] \notin Quiet \cup Wrong \cup {"WARN"}
      BY <1>b, <1>3, <2>2
    <3> QED
      BY <1>1, <3>1 DEF RowInv
  <2> QED
    BY <2>1, <2>2
<1>c. ASSUME ~suiteErr', UniqueIds, NEW e \in ran', NEW l \in DOMAIN workers, workers[l] = e[2], Live(e)
      PROVE  \E op \in Rounds :
                /\ <<TestID(e[1]), l, op>> \in DOMAIN results'
                /\ results'[<<TestID(e[1]), l, op>>] \notin Quiet
  <2>1. CASE e \in ran
    <3>1. PICK op \in Rounds : /\ <<TestID(e[1]), l, op>> \in DOMAIN results
                               /\ results[<<TestID(e[1]), l, op>>] \notin Quiet
      BY <1>5, <1>c, <2>1 DEF RowInv
    <3>2. <<TestID(e[1]), l, op>>[1] # TestID(q)
      BY <1>7, <1>c, <2>1
    <3> QED
      BY <1>3, <3>1, <3>2
  <2>2. CASE e \notin ran
    <3>1. e = entry(l)
      BY <1>8, <1>c, <2>2
    <3>2. PICK op \in Rounds \ gone(l) : status(l, op) \notin Quiet
      <4>1. o[l] \in Outcomes
        OBVIOUS
      <4> HIDE DEF gone
      <4> QED
        BY <1>1, <1>5, <1>c, <3>1, <4>1, StatusOfLive
    <3>3. <<TestID(q), l, op>> \in DOMAIN results' /\ results'[<<TestID(q), l, op>>] = status(l, op)
      BY <1>3, <1>4, <3>2
    <3> QED
      BY <3>1, <3>2, <3>3
  <2> QED
    BY <2>1, <2>2
<1>d. ASSUME ~suiteErr', UniqueIds, NEW e \in ran', NEW l \in DOMAIN workers, workers[l] = e[2],
             NEW op \in SkippedRounds(e)
      PROVE  /\ <<TestID(e[1]), l, op>> \in DOMAIN results'
             /\ results'[<<TestID(e[1]), l, op>>] = "SKIP"
  <2>1. CASE e \in ran
    <3>1. /\ <<TestID(e[1]), l, op>> \in DOMAIN results
          /\ results[<<TestID(e[1]), l, op>>] = "SKIP"
      BY <1>1, <1>5, <1>d, <2>1 DEF RowInv
    <3>2. <<TestID(e[1]), l, op>>[1] # TestID(q)
      BY <1>7, <1>d, <2>1
    <3> QED
      BY <1>3, <3>1, <3>2
  <2>2. CASE e \notin ran
    <3>1. e = entry(l) /\ op \in SkippedRounds(entry(l))
      BY <1>8, <1>d, <2>2
    <3>2. op \in Rounds /\ <<l, op>> \notin lost /\ status(l, op) = "SKIP"
      BY <1>1, <1>5, <1>d, <3>1, StatusOfSkip
    <3>3. <<TestID(q), l, op>> \in DOMAIN results' /\ results'[<<TestID(q), l, op>>] = status(l, op)
      BY <1>3, <1>4, <3>2
    <3> QED
      BY <3>1, <3>2, <3>3
  <2> QED
    BY <2>1, <2>2
<1> QED
  BY <1>1, <1>2, <1>a, <1>b, <1>c, <1>d DEF RowInv

\* What CheckSkips adds: failures for undeclared skips, warnings for stale entries.
LEMMA SkipRowsAre ==
    /\ DOMAIN SkipRows = Undeclared \cup Stale
    /\ \A k \in DOMAIN SkipRows : SkipRows[k] \in {"FAIL", "WARN"}
    /\ \A k \in Undeclared : k \in DOMAIN SkipRows /\ SkipRows[k] = "FAIL"
    /\ Undeclared \subseteq DOMAIN results
  BY DEF SkipRows, Undeclared, Skips

\* Checking the skips.
LEMMA RowSkips ==
    ASSUME WorkersInv, LoadInv, RanInv, RowInv, CheckSkips
    PROVE  RowInv'
<1>1. /\ UNCHANGED <<input, types, workers, ran, suiteErr, noted>> /\ why = "none" /\ pc = "skips"
      /\ why' # "ok" /\ input \in Inputs
  BY DEF CheckSkips, Return, given, WorkersInv
<1>2. (UniqueIds' <=> UniqueIds) /\ \A p : TestID(p)' = TestID(p)
  BY <1>1, SuiteKept
<1>3. CASE suiteErr
  <2>1. UNCHANGED reportVars /\ pc' = "done"
    BY <1>3 DEF CheckSkips, Return
  <2> QED
    BY <1>1, <1>2, <2>1 DEF RowInv, reportVars
<1>4. CASE ~suiteErr
  <2>1. PICK rows : /\ Add(rows)
                    /\ rows = IF input.enforce THEN SkipRows ELSE NoRows
    BY <1>4 DEF CheckSkips
  <2>2. /\ \A k \in DOMAIN rows : rows[k] \in {"FAIL", "WARN"}
        /\ input.enforce => \A k \in Undeclared : k \in DOMAIN rows /\ rows[k] = "FAIL"
    BY <2>1, SkipRowsAre DEF NoRows
  <2>3. /\ DOMAIN results' = DOMAIN rows \cup DOMAIN results
        /\ \A k \in DOMAIN rows : results'[k] = rows[k]
        /\ \A k \in DOMAIN results \ DOMAIN rows : results'[k] = results[k]
        /\ failures' = failures \cup {k \in DOMAIN rows : rows[k] \in Wrong}
    BY <2>1, AddFacts DEF Wrong
  <2>4. \A k \in DOMAIN results' : results'[k] \in Wrong => k \in failures'
    BY <2>3 DEF RowInv
  <2>5. ASSUME NEW k \in DOMAIN results', results'[k] \notin Quiet \cup Wrong \cup {"WARN"}
        PROVE  \E e \in ran : k[1] = TestID(e[1]) /\ Live(e)
    <3>1. k \in DOMAIN results /\ results[k] \notin Quiet \cup Wrong \cup {"WARN"}
      BY <2>2, <2>3, <2>5 DEF Wrong
    <3> QED
      BY <3>1 DEF RowInv
  <2>6. ASSUME UniqueIds, NEW e \in ran, NEW l \in DOMAIN workers, workers[l] = e[2], Live(e)
        PROVE  \E op \in Rounds :
                  /\ <<TestID(e[1]), l, op>> \in DOMAIN results'
                  /\ results'[<<TestID(e[1]), l, op>>] \notin Quiet
    <3>1. PICK op \in Rounds : /\ <<TestID(e[1]), l, op>> \in DOMAIN results
                               /\ results[<<TestID(e[1]), l, op>>] \notin Quiet
      BY <1>4, <2>6 DEF RowInv
    <3> QED
      BY <2>2, <2>3, <3>1 DEF Quiet
  <2>7. ASSUME input.enforce, UniqueIds, failures' = {}, NEW e \in ran, NEW l \in DOMAIN workers,
               NEW op \in SkippedRounds(e), workers[l] = e[2]
        PROVE  Covers(l, types[e[1][1]].name, op)
    <3> DEFINE k == <<TestID(e[1]), l, op>>
    <3>1. k \in DOMAIN results /\ results[k] = "SKIP"
      BY <1>1, <1>4, <2>7 DEF RowInv
    <3>2. k[1][1] = types[e[1][1]].name /\ k[2] = l /\ k[3] = op
      <4>1. e[1] \in Tests
        BY DEF RanInv, Past
      <4> QED
        BY <1>1, <4>1, IdOfType
    <3>3. k \notin Undeclared
      BY <2>2, <2>3, <2>7 DEF Wrong
    <3>4. k \in Skips
      BY <3>1 DEF Skips
    <3> HIDE DEF k
    <3>5. Covers(k[2], k[1][1], k[3])
      BY <3>3, <3>4 DEF Undeclared
    <3> QED
      BY <3>2, <3>5
  <2>8. pc' = "print"
    BY <1>4 DEF CheckSkips
  <2>9. \A l, t, op : Covers(l, t, op)' <=> Covers(l, t, op)
    BY <1>1 DEF Covers
  <2> QED
    BY <1>1, <1>2, <1>4, <2>4, <2>5, <2>6, <2>7, <2>8, <2>9 DEF RowInv
<1> QED
  BY <1>3, <1>4

\* The invariant says nothing new of what is left alone.
LEMMA RowKept ==
    ASSUME RowInv, UNCHANGED <<input, types, workers, ran, suiteErr, reportVars>>,
           pc' \in {"suite", "skips"} => pc \in {"suite", "skips"},
           pc' = "print" \/ why' = "ok" => pc = "print" \/ why = "ok",
           why' = "ok" => failures = {} /\ (input.flags.table => noted' = Unimplemented')
    PROVE  RowInv'
<1>1. (UniqueIds' <=> UniqueIds) /\ \A p : TestID(p)' = TestID(p)
  BY SuiteKept
<1>2. \A l, t, op : Covers(l, t, op)' <=> Covers(l, t, op)
  BY DEF Covers
<1>3. results' = results /\ failures' = failures
  BY DEF reportVars
<1> QED
  BY <1>1, <1>2, <1>3 DEF RowInv

\* Every step keeps it.
LEMMA RowStep == WorkersInv /\ LoadInv /\ SetUp /\ RanInv /\ RowInv /\ [Next]_vars => RowInv'
<1> SUFFICES ASSUME WorkersInv, LoadInv, SetUp, RanInv, RowInv, [Next]_vars PROVE RowInv'
  OBVIOUS
<1> USE DEF given
<1>0. why = "none" \/ pc = "done"
  BY DEF WorkersInv
<1>1. CASE CheckFlags \/ LoadFile \/ Loaded \/ DetectAndBuild \/ Built \/ StartWorker \/ AllUp
  <2>1. pc \in {"flags", "load", "detect", "start"} /\ UNCHANGED <<ran, results, failures>>
    BY <1>1 DEF CheckFlags, LoadFile, Loaded, DetectAndBuild, Built, StartWorker, AllUp, suiteVars,
                reportVars
  <2>2. ran' = {} /\ DOMAIN results' = {} /\ why = "none"
    BY <1>0, <2>1 DEF RanInv
  <2>3. why' # "ok" /\ pc' # "print"
    BY <1>1, <2>1, <2>2 DEF CheckFlags, LoadFile, Loaded, DetectAndBuild, Built, StartWorker, AllUp,
                            Return
  <2> QED
    BY <2>2, <2>3 DEF RowInv
<1>2. ASSUME NEW o \in [DOMAIN workers -> Outcomes], NEW encodes \in BOOLEAN, NEW lost,
             RunTest(o, encodes, lost)
      PROVE  RowInv'
  BY <1>2, RowTest
<1>3. CASE CheckSkips
  BY <1>3, RowSkips
<1>4. CASE PrintReport
  <2>1. UNCHANGED <<input, types, workers, ran, suiteErr, reportVars>> /\ pc = "print" /\ pc' = "done"
    BY <1>4 DEF PrintReport, Return, suiteVars
  <2>2. why' = "ok" => failures = {}
    BY <1>4 DEF PrintReport, Return
  <2>3. input.flags.table => noted' = Unimplemented'
    BY <1>4, <2>1 DEF PrintReport, Unimplemented, reportVars
  <2> QED
    BY <2>1, <2>2, <2>3, RowKept
<1>5. CASE Interrupt \/ UNCHANGED vars
  <2>1. UNCHANGED <<input, types, workers, ran, suiteErr, reportVars, pc, why, noted>>
    BY <1>5 DEF Interrupt, vars
  <2>2. why' = "ok" => failures = {} /\ (input.flags.table => noted' = Unimplemented')
    BY <2>1 DEF RowInv, Unimplemented, reportVars
  <2> QED
    BY <2>1, <2>2, RowKept
<1> QED
  BY <1>1, <1>2, <1>3, <1>4, <1>5 DEF Next, Done

\* Nothing was run, and there are no rows, before the run begins.
LEMMA RowInit == Init => RowInv
<1> SUFFICES ASSUME Init PROVE RowInv
  OBVIOUS
<1>1. DOMAIN results = {} /\ ran = {} /\ why = "none" /\ pc = "flags"
  BY DEF Init, NoRows
<1> QED
  BY <1>1 DEF RowInv

\* With an expected-skips directory a skip ends green only when a readable file declares
\* it, interrupted or not, as long as test ids are distinct (coverage.go:38-47, run.go:299-316).
THEOREM SkipNeverHiddenCorrect == Spec => []SkipNeverHidden
<1>1. RowInv => SkipNeverHidden
  <2> SUFFICES ASSUME RowInv, why = "ok", input.enforce, UniqueIds PROVE SkipNeverHidden
    BY DEF SkipNeverHidden, Green
  <2>1. failures = {}
    BY DEF RowInv
  <2> QED
    BY <2>1 DEF RowInv, SkipNeverHidden
<1> QED
  BY <1>1, WorkersInit, WorkersStep, RanInit, LoadStep, SetUpStep, RanStep, RowInit, RowStep,
     PTL DEF Spec

\* A type is noted exactly if none of its rows shows that a worker did something.
LEMMA GreenNotes ==
    ASSUME WorkersInv, LoadInv, SetUp, RanInv, RowInv, Green, input.flags.table, UniqueIds,
           NEW t \in DOMAIN types
    PROVE  types[t].name \in noted <=>
              /\ ~\E e \in ran : e[1][1] = t /\ Live(e)
              /\ ~\E k \in DOMAIN results : k[1][1] = types[t].name /\ results[k] = "WARN"
<1> DEFINE live == {k \in DOMAIN results : results[k] \notin {"SKIP", "CASCADE"}}
<1>1. /\ why = "ok" /\ pc = "done" /\ input \in Inputs /\ failures = {} /\ ~suiteErr
      /\ noted = {k[1][1] : k \in DOMAIN results} \ {k[1][1] : k \in live}
  BY DEF Green, WorkersInv, RowInv, Unimplemented
<1>2. \A e \in ran : e[1] \in Tests
  BY DEF RanInv, Past
<1>3. types[t].name \in {k[1][1] : k \in DOMAIN results}
  <2> DEFINE p == <<t, 1, 1>>
  <2>1. 1 \in DOMAIN types[t].formats /\ 1 \in DOMAIN types[t].cases
    BY <1>1, TypeParts
  <2>2. p \in Tests /\ p[1] = t
    BY <2>1 DEF Tests
  <2>3. Past(p) /\ Running
    BY <1>1, <2>2 DEF Past, Running
  <2>4. WasRun(p)
    BY <2>2, <2>3 DEF RanInv
  <2>5. PICK l \in DOMAIN workers, op \in Rounds : <<TestID(p), l, op>> \in DOMAIN results
    BY <2>4 DEF WasRun
  <2>6. TestID(p)[1] = types[t].name
    BY <1>1, <2>2, IdOfType
  <2>7. PICK k \in DOMAIN results : k[1][1] = types[t].name
    BY <2>5, <2>6
  <2> QED
    BY <2>7
<1>4. ASSUME NEW k \in live, k[1][1] = types[t].name
      PROVE  \/ \E e \in ran : e[1][1] = t /\ Live(e)
             \/ \E j \in DOMAIN results : j[1][1] = types[t].name /\ results[j] = "WARN"
  <2>1. CASE results[k] = "WARN"
    BY <1>4, <2>1
  <2>2. CASE results[k] # "WARN"
    <3>1. results[k] \notin Wrong
      BY <1>1 DEF RowInv
    <3>2. PICK e \in ran : k[1] = TestID(e[1]) /\ Live(e)
      BY <2>2, <3>1 DEF RowInv, Quiet
    <3>3. types[e[1][1]].name = types[t].name /\ e[1][1] \in DOMAIN types
      BY <1>1, <1>2, <1>4, <3>2, IdOfType, TestsAre
    <3>4. e[1][1] = t
      BY <3>3 DEF LoadInv
    <3> QED
      BY <3>2, <3>4
  <2> QED
    BY <2>1, <2>2
<1>5. ASSUME NEW e \in ran, e[1][1] = t, Live(e)
      PROVE  \E k \in live : k[1][1] = types[t].name
  <2>1. PICK l \in DOMAIN workers : workers[l] = e[2]
    BY DEF RanInv
  <2>2. PICK op \in Rounds : /\ <<TestID(e[1]), l, op>> \in DOMAIN results
                             /\ results[<<TestID(e[1]), l, op>>] \notin Quiet
    BY <1>1, <1>5, <2>1 DEF RowInv
  <2>3. TestID(e[1])[1] = types[t].name
    BY <1>1, <1>2, <1>5, IdOfType
  <2> QED
    BY <2>2, <2>3 DEF Quiet
<1>6. ASSUME NEW k \in DOMAIN results, k[1][1] = types[t].name, results[k] = "WARN"
      PROVE  k \in live
  BY <1>6
<1> HIDE DEF live
<1>7. types[t].name \in noted <=> ~\E k \in live : k[1][1] = types[t].name
  BY <1>1, <1>3
<1> QED
  BY <1>4, <1>5, <1>6, <1>7

\* A green table names exactly the types no worker did anything with, but for those a
\* stale entry hides, as long as test ids are distinct (report.go:242-268).
THEOREM NoteExactCorrect == Spec => []NoteExact
<1>1. WorkersInv /\ LoadInv /\ SetUp /\ RanInv /\ RowInv => NoteExact
  BY GreenNotes DEF NoteExact
<1> QED
  BY <1>1, WorkersInit, WorkersStep, RanInit, LoadStep, SetUpStep, RanStep, RowInit, RowStep,
     PTL DEF Spec
=============================================================================
