# serify in TLA+

serify is a conformance harness for serializers. The runner (`cmd/serify`,
`internal/`) starts one *worker* process per language, sends each of them the
same cases over an NDJSON protocol on stdin and stdout, compares what comes back
with the answers of a trusted reference worker, and reports. A worker is a
user's serializers linked against one of the libraries in `lib/`.

What makes the harness correct is that its verdicts can be believed: a row that
says PASS stands for a real comparison, a response belongs to the request it is
attached to, a worker that died is not hidden, and the run ends. These modules
model the parts of the program those verdicts depend on, check them with TLC on
small instances, and prove the central invariants with TLAPS for all instances.

## 1. The system

| Component | State it keeps | Operations | What is hard |
|---|---|---|---|
| Worker transport, `internal/worker` | `dead`, the mutex, three pipes, a Scanner, the process | Start (ping), Bind, Send, Stop, stderr drainer | goroutines that share one mutex, timeouts that race late answers, a child that hangs, crashes or prints stray lines |
| Framing, `internal/proto` Writer and Reader | the Scanner | one line out, one line in | a line above 4 MB breaks the Scanner for good |
| Orchestrator, `internal/orch` | bound workers, outputs of round 1, the first error | RunSuite, runTypeFormat, Run, runMatrix, CheckExpectedSkips | goroutines recording in any order, interrupts, workers lost in the middle, the reference being both oracle and subject |
| Report, `internal/report` | Results, Failures, Warnings | Add, Print, Success | three views of one run that must agree |
| Run command, `cmd/serify/run.go` | the map of workers, the ids of the suite | flags, load, detect and build, startWorkers, RunSuite, coverage check, report, CSV, exit code | many early returns; one map by language; optional files that cannot be read; ids that collide |
| Worker detection and build, `internal/builder` | none | DetectLanguage, Detect, Build | a second worker of one language |
| Suite loading, `internal/conf/conf.go` | CasesSet | LoadSuite, validate, expected skips, known failures | what is left unchecked: ids, nested keys, nested enums |
| Schema resolver, `internal/conf/schema.go` | type registry, `resolving`, `resolved` | loadImportable, typeOf, namedType, sumType | imports may be circular, types may not |
| Case data, `internal/conf/casedata.go` | none | decodeCaseData by schema | exactness of 64- and 128-bit integers, null, sums |
| Go worker library, `lib/go/serify` | bound functions, schema, audit holder per serializer | ping, bind, serialize, deserialize, exit; audit probes | state that outlives a refused bind; probes that overwrite the memory the answer is made of |
| Wire values, `internal/proto`, `internal/cmp` | none | EncodeData, SchemaFields, DataDiff | width, exactness and NaN at every boundary |
| Go worker values, `lib/go/serify/{protocol,fieldmap,reflect}.go` | none | DecodeFieldMap, EncodeFieldMap, fill, extract | narrowing without a range check, silent drops, types without a case |
| Schema command, `cmd/serify/schema.go` | none | the JSON schema of a case file | must agree with the loader and the encoder |
| Other libraries, `lib/{rust,cpp,csharp,java,python,node,elixir,php}` | as the Go library | as the Go library | as the Go library |

How they interact: `runTests` loads the suite (conf), starts the workers
(worker), hands them to `orch.RunSuite`, which calls `Bind` once per worker and
(type, format) group, and `Send` from one goroutine per worker in each round.
Results reach the shared `Report` under its mutex. One context, cancelled by
SIGINT or SIGTERM, is shared by every `Send` and every process.

## 2. The modules

| Module | Models | Proofs | Instances |
|---|---|---|---|
| `RequestReply` | what a Worker promises the orchestrator (abstract) | | |
| `WorkerSession` | `worker.go`, Reader and Writer of `proto.go` | `WorkerSessionProofs`, `WorkerSessionRefinement` | `MCWorkerSession` |
| `BoundWorker` | what a worker promises the runner about binds (abstract) | | |
| `ReportLedger` | what a run promises about its rows and its exit code (abstract) | | |
| `Orchestrator` | `orch.go`, `coverage.go`, parts of `report.go`, `run.go` | `OrchestratorProofs`, `OrchestratorMatchProofs`, `OrchestratorReportProofs` | `MCOrchestrator` |
| `BoundRun` | a run of the suite together with its workers; composes `Orchestrator` and `BoundWorker` | `OrchestratorMatchProofs` | `MCBoundRun` |
| `GoWorker` | `lib/go/serify/run.go`, `suite.go`, `auditcheck.go` | `GoWorkerProofs` | `MCGoWorker` |
| `SchemaResolver` | `internal/conf/schema.go`, `loadTypeFile` | `SchemaResolverProofs` | `MCSchemaResolver` |
| `CaseData` | `casedata.go`, `validate`, EncodeData, SchemaFields, DataDiff, the generated schema | | |
| `GoFieldMap` | `lib/go/serify/protocol.go`, `fieldmap.go`, `reflect.go` | | |
| `CaseFlow` | one case from its YAML file through a Go worker to the verdict; composes the two | | `MCCaseFlow` |
| `RunCommand` | `cmd/serify/run.go`, `LoadSuite`, `internal/builder`, the rows of `records.go` | `RunCommandProofs` | `MCRunCommand` |

They compose by contract. `WorkerSession` is shown to implement `RequestReply`,
and `Orchestrator` uses a worker only as `RequestReply` describes it: every call
returns an answer or an error, and after a fatal error nothing but errors
(operator `Sends`). `WorkerSession` assumes nothing about the child, so any
worker library, `GoWorker` included, is one of the children it allows.
What `Orchestrator` leaves open, which functions produce an answer, `BoundRun` settles:
there each worker has a selection, and every bind and request is a step of
`BoundWorker`, which `GoWorker` is shown to implement. What a reader of the report may
rely on is `ReportLedger`, which `Orchestrator` is shown to implement.
`RunCommand` in turn sees a test as one outcome per worker, which is what
`Orchestrator` details, and `Orchestrator` a value as right, different or empty,
which is what `CaseFlow` details.

`PROJECT.json` maps every definition to the lines it translates. A definition
named "Mutant of ..." is a plausible wrong version of the next one; TLC finds the
property it is paired with violated when it takes the definition's place.

### WorkerSession

A *call* is one execution of `ping`, `Bind` or `Send` in a goroutine of its own.
It queues for the mutex (`Lock`), writes (`Write`, which blocks on a full pipe,
without a timer), starts a reader goroutine that is then `parked` in
`Reader.Read`, and waits in a select with three arms: `Receive`, `Timeout`,
`Cancelled`. The two timing facts that matter are kept: the select may take the
timer although a result is there, and an abandoned reader stays in the Scanner.
`ReadError` and `IsFatal` are the correlation checks and the choice of which
errors make the session unusable; EOF, a malformed line and `ErrTooLong` do not.
`Stop` is modelled step by step. The child takes requests, answers, logs, prints
stray lines, hangs and exits at will. The drainer, too, has a Scanner: a log line above its
64 KB limit ends it for good.

What a worker says of a bind it keeps to: accepted, declined or, after an error, either.

Abstractions: a line is the request it answers and a status; the pipes count
lines, not bytes; a second cancellation or signal changes nothing.

### Orchestrator

`stage` is the program point of the sequential part; in stages `ser` and `des`
one goroutine per worker is between `Send` returning (`Replied`) and recording
(`SerRecord`, `DesRecord`), and an interrupt can fall in between. A reply is a
status, a value that is right, different or empty, and whether it carries audit
findings. A SKIP with one of the two cascade details is written `CASCADE`,
because `isCascadeSkip` tells them apart. `Finish` is everything after
`RunSuite`: the coverage check, the report and the exit code. `answers` is a
history variable: the reply behind each row.

`ReportLedger` sees only the rows and the exit code. The suite is run and its verdicts
are written (`Record`), once each; at the end the coverage check turns every skip that no entry
allows, and only those, into a failure, and the exit code follows from the rows (`Close`);
or the run ends with exit code 1 and the rows it had (`Abort`).

### BoundWorker and BoundRun

`BoundWorker` has one pair selected, or none. A bind that is accepted selects the pair, or
none if the pair is registered with neither direction; a bind that is declined clears the
selection; a bind in error leaves it. A request is answered by what is selected, skipped if that
lacks the direction, and an error if nothing is selected. `BoundRun` gives each worker of a run such
a state (`chosen`, `said`) and lets what it is registered for vary from request to
request, which is more than any worker does. A request lost with the transport says nothing: after a
lost bind the worker may have selected the pair or not. `origin` is a history
variable: the group whose functions gave the answer behind a key.

### GoWorker

One action per request. A call of a user's function is a record saying whether
it fails, what it changes in place and what memory it shares. A *shape* is the
nesting of Go constructors a value is held in; `Cloned` and `Snapped` follow
`cloneValue` and `collectFieldSnaps` through it and say whether a probe reaches
the leaf; `ByBits` follows `valuesEqual` and says whether a float at the leaf is compared
by its bits, or by `reflect.DeepEqual`, for which a NaN differs from itself (`Noisy`). An
output is one of two of the same length, or empty: a serializer that writes over its last
buffer changes what is sent, also when it fails afterwards. `truth` is a history variable:
what the functions really did.

### SchemaResolver

The mutual recursion of `typeOf`, `namedType`, `sumType` and `fields` is run on
an explicit stack, so each call and return is a step. A file is the kind of type
it declares, the files it imports and the names it refers to, in order; the two lists
need not agree.

### CaseData, GoFieldMap and CaseFlow

`CaseData` and `GoFieldMap` are operators only: one per function of the code, over
values that are records naming what they are (`[int |-> 3]`, `[hex |-> ...]`).
Strings are kept by what they spell, because the code turns numbers, bytes and
floats into strings and back. Integer kinds keep the order of their widths, not
their sizes, and narrowing wraps. The float types have few bits and few exponents but
are real floats: a conversion rounds to the nearest, to even between two, and overflows to an
infinity (`FloatOf`). A FieldMap entry carries its dynamic Go type:
a typed accessor or a struct field of another type finds nothing in it, which is
where values get lost.

`CaseFlow` runs one case through them. `stage` is the next step, each step may fail
and end the case (`Step`), and the worker's own code is one action that may give
back what it was given, with other NaN bits, with one value changed at any depth (a list
cut short or longer, a map entry more or less, a null turned into a value included),
or with a field left out. `style` is how the worker declares its data.

### RunCommand

`pc` follows `runTests`; every early return is the disjunct of an action that
ends in `Return`, which stops the workers in the map as the deferred calls do.
`LoadFile` reads one type file (`loaded` counts them) and drops one without cases;
the names of type files are distinct, being the names of files in one directory. A
worker is the index of its directory, so a process that the map has lost is still
in `up`. An id is a sequence of the parts between its slashes, so that different
names can give the same id, as they can in the code. A test is one outcome per
worker: refused or dead at bind, skipping one round, deserializing to something
else, or right. A cancelled context makes a goroutine drop its reply without a row: `lost`
names the rounds this happened to, and `cancelled` remembers that the user interrupted the
run, before a test or in the middle of one.

## 3. What TLC checks

| Run | Instance | Result |
|---|---|---|
| `session_strays` | ping and three overlapping Sends (two rounds of a case, which share an id, and a matrix request), one stray line, one log line, interrupt; 1.6M states | `TypeOK`, `SessionInv`, `SendCorrelated`, `AtMostOneReader`, `ImplementsRequestReply` hold |
| `session_live` | ping and two Binds, one stray line, one log line, room for one request on stdin; 199k states | `CleanBindTakesEffect` holds; `CallsReturn` and `StopReaps` hold on the condition that no write stays blocked for ever |
| `session_stderr` | a stderr pipe smaller than what one request logs | `NoStderrDeadlock` violated |
| `run_suite` | two workers, a group under each oracle, a known failure in each, enforced expected skips; workers that keep the contract of `BoundWorker`; 803k states | all invariants, `RunEnds` and `ImplementsLedger` hold |
| `run_matrix` | full matrix, two cases of which one cannot be encoded, empty outputs, audit findings, interrupt; 1.3M states | `PassMeansMatch`, `MatrixCovers` hold |
| `run_cancel` | one group, interrupt | `ExitZeroComplete` violated |
| `schema` | every set of three files with up to two references each, importing what they name; every set of two that import more or less than they name, beside a third; 2.2M states | `TypeOK`, `MarksExact`, `MemoComplete`, `VerdictCorrect`, `LoadEnds` hold |
| `schema_newtypes` | two files | `NoOverflow` violated |
| `go_worker` | three pairs, one without a serializer, one without a deserializer, one returning strings, and an unknown pair; eight serializer behaviours and every deserializer behaviour, a field that holds NaN; 36k states | all invariants and `ImplementsBoundWorker` hold |
| `go_worker_blobs` | a `list<bytes>` field | `AuditHarmless` violated |
| `case_flow` | cases of two fields, the first of each of 31 types with each of 121 YAML nodes, right and wrong, six declarations, every single change by the worker; 35k states | `PassMeansDelivered`, `ChangeNeverPasses`, `FaithfulPasses` hold |
| `run_command` | 90 command lines: suites that do not load, colliding ids, directories that are not detected, built or started, unreadable known failures and expected skips, two workers, two tests; an interrupt at any moment; 580k states | `NoProcessLeft`, `BadNeverGreen`, `SkipNeverHidden`, `NothingLeftOut`, `NoteExact` hold |

Why the bounds are enough to mean something:

- *Session.* Confusing two requests needs two of them and a line too many: three
  Sends and one stray line give every order of late, lost and repeated answer.
  Three Sends also let one wait while a second marks the worker dead and a third
  arrives. In `session_live` the stdin pipe has room for one request, so that the second
  bind, and the exit, do find it full: without their conditions `CallsReturn` and `StopReaps`
  are violated in this very instance. A condition excludes only that the pipe stays full
  for ever while somebody writes; hangs, crashes, logs and junk are all still there.
- *Run.* One reference and one candidate suffice for every comparison, because
  rows of different candidates never meet. Two groups let a worker die in one
  and be asked again in the other, or stay bound to the first; each oracle has one group. A second case
  matters only for the error that encoding leaves behind.
- *Schema.* Three names give cycles of length one, two and three, a diamond, and
  a memoized type met again inside a cycle. `MaxDepth` 14 is above the bound that
  `VerdictIsCorrect` proves for three names (13 calls), so it is reached by endless
  recursion only. Two files are enough for one to name what only the other imports.
- *Case flow.* The functions go through a value field by field and element by
  element, so one field of each type, containers of up to two elements and a
  second field to be missing or null meet every branch. Numbers that a float32 or a
  float64 does not have, and some past the largest of each, are among those written.
  Widths of 2, 4 and 5 bits keep
  byte < 64 < 128, and the numbers written are those on both sides of each bound.
- *Run command.* Rows of different workers meet only through the reference, so
  one other worker is enough. Two tests are enough for one to overwrite the rows of the
  other, and two types for one to be implemented and the other not.
- *Go worker.* The loop has no counters: the state is finite by itself, and two
  fields are enough for one to be touched and the other not.

### Fairness

- `WorkerSession!Fairness`: weak fairness of each runner step (the Go scheduler
  runs a goroutine that can run, timers fire, a SIGKILL is delivered) and strong
  fairness of taking the mutex, which `sync.Mutex` gives since its starvation
  mode. Nothing is assumed of the worker, which may hang, or of the user.
- `BoundRun!BoundFairSpec`: weak fairness of the steps of the run. That a Bind or
  a Send returns is what `CallsReturn` establishes, unless its write is held on a full
  pipe: a run whose worker never reads again hangs, and `RunEnds` is about the others.
- `SchemaResolver!FairSpec`: one goroutine runs to the end.

### Where the program and its documents disagree

1. The stderr drainer and a waiting `Send` need the same mutex. A worker that
   logs more than the pipe holds during one request waits for the drainer, which
   waits for `Send`, which waits for the worker, until the timeout kills it
   (`session_stderr`).
2. An interrupt in the last group leaves rows out and exits 0 (`run_cancel`).
3. Transparent types that name each other exhaust the stack (`schema_newtypes`).
4. The zero-copy probe does not restore a `list<bytes>` that shares the input,
   so `--audit` changes the answer (`go_worker_blobs`).

### Seen while modelling

Each of these limits a property above, or lies outside all of them.

The session:

- No write has a time limit (worker.go:206, 238, 348). A worker that prints junk and
  does not read ends each call at once, with its request still in the pipe; when the pipe is
  full the next call hangs past `--timeout`, with the mutex held. `Stop` writes the exit
  request before its grace period starts and then neither returns nor kills, although its
  comment says "If the worker doesn't exit within ~5 seconds, it is killed."
  (worker.go:338-339). Hence the conditions in `CallsReturn` and `StopReaps`, which say of
  nothing else a worker may do that it holds a call. Neither forbids the hang.
- A stderr line above 64 KB ends the drainer (worker.go:130-132). From then on the worker
  blocks once the stderr pipe is full, until a timeout kills it.
- A bind response has no id, so a repeated answer to an earlier bind is taken for
  the current one, although "once it returns, the worker's serialize and deserialize
  operate on that pair" (worker.go:177-178). Hence `strays = 0` in `CleanBindTakesEffect`.

Cases and values:

- Numbers are rounded without a word on their way to a float field: `float32(f)`
  (proto.go:245), `float64(x)` of an integer above 2^53 (proto.go:415) and `ParseFloat`
  (proto.go:417). 0.1 in a float32 field is delivered as its neighbour, and 1e40 as +Inf;
  both are echoed and pass. `PassMeansDelivered` therefore says "exactly, or as a neighbour in
  the type", and an infinity is the neighbour past the largest.
- README.md:583 says "Containers nest freely"; the Go library decodes the
  elements of a container with `decodeScalar`, which knows structs apart but no
  containers and no enums, so `map<string, list<uint32>>` is an error in every Go worker
  (`Supported`).
- README.md:592 allows a quoted decimal for "integers (any width)"; only 64- and
  128-bit integers are read from their text, and a quoted `uint8` fails in the worker.
- Keys a schema does not have are kept "so validate() can still report them"
  (casedata.go:47-48), but `validate` looks at the top level: a misspelt key in a nested
  struct is dropped by the encoder and the case passes without it. The same holds
  of the payload written under a unit variant.
- "conf.validate has already checked the name is a declared one." (proto.go:330) is
  true of enums at the top level only.
- `array<struct,N>` has no element schema on the wire; the worker sees empty structs.
- The generated editor schema accepts bytes in capital hex, which come back in small
  letters and fail; quoted decimals of any size; and integers above int64 for a
  float, which `toFloat64` does not take (`Gap`).
- The tolerance for NaN bits is for floats at the top level only (`Faithful`).
- A null for a field that is not optional equals an omitted field to `DataDiff`;
  it fails with a worker bound to a struct, whose `extract` writes every field.
- `optional<uint128>` declared as `*big.Int` fails on null. A small integer out of range
  wraps in the worker without an error and shows as a difference.

The run:

- A reply that arrives after an interrupt leaves no row, and `RunSuite` returns no error. A
  run interrupted in its last test can be green with rows missing: `NothingLeftOut` and
  `ExitZeroComplete` are about runs nobody interrupts, and `BadNeverGreen` and `SkipNeverHidden`
  about replies that were not dropped.
- The note "No worker implements" is part of the table only (report.go:119-127): with
  another output format nothing says it.
- Test ids are "globally unique" for docs/protocol.md:169, but two cases of one name, or
  slashes in format and case names, give one id. A later row then hides an
  undeclared skip (hence `UniqueIds` in `SkipNeverHidden`), and the exit code printed from
  Results can differ from the one derived from Failures.
- An expected-skips entry reported as stale is a row whose test id is the entry, so
  the type it begins with counts as implemented in the note "No worker implements"
  (`NoteExact`). As an entry may begin with an operation, a type called `serialize` or
  `deserialize` is hidden by entries about others too. A cascade skip does not count as
  a use of an entry.
- The format registry of `_config.yaml` is enforced by `serify schema` only; `run`
  reads it and looks at the reference language.
- Without bytes of the reference, a worker that serialized has a PASS row with
  nothing compared.
- A build command runs without a time limit and outside the run's context.
- In `Orchestrator`, cascade skips are not failures: a run whose reference skips
  everything is green unless expected skips are enforced.
- A case that cannot be encoded makes `RunSuite` return an error, so `runTests`
  leaves before it prints the report.
- The matrix compares data only for a row resolved as PASS, so for a known
  failure an OK answer with wrong data is XPASS. The instance of `run_matrix` has
  no known failure.
- The matrix treats zero bytes of output as a source that failed.
- An expected-skips file has no entry that a matrix row could be charged to: with
  enforcement and `--full-matrix` together a declared gap fails the run.
- The JUnit report leaves matrix rows out, hence the condition in `ReportsAgree`,
  and it shows a test without a row as passed.
- The Go worker takes the schema of a bind it then refuses for a missing type or
  format, and keeps the old functions.
- A serializer that returns one buffer from every call is compared with itself
  by the stability check; `AuditTruthful` and `AuditHarmless` say so.
- The comparisons of the audit are by bits for a float, or a record or map of them, but not
  for a float in `[]any`, `[]float64` or a `*Variant`, which go to `reflect.DeepEqual`
  (auditcheck.go:204) although "a field holding NaN would raise three false audit warnings"
  (auditcheck.go:155-156): a NaN there is reported as a mutation or as instability. Numbers
  changed in place in a `[]float64` are not reported, as its clone is the slice itself.
  `AllKnown` excludes both.

## 4. What is proved

`WorkerSessionProofs`, for every set of calls, every op and id table and every
pipe size that satisfy the assumptions of `WorkerSession`:

- `TypeCorrect`: `Spec => []TypeOK`.
- `SessionCorrect`: `Spec => []SessionInv`, the inductive invariant.
  `AtMostOneReader` is not inductive: that a call does not start a reader while
  an older one is parked depends on who may be inside a round trip at all. The
  invariant says it: ping alone while `Start` runs, then exactly the holder of
  the mutex, nobody once `dead` is set; and a parked reader either belongs to the
  call still waiting for it or was left behind by a call that killed the worker.
- `OneReader`: `Spec => []AtMostOneReader`, from it.
- `Correlation`: `Spec => []SendCorrelated`. Only `Receive` hands out responses,
  and the comparison of op and id identifies the call by `KeysAssumption`, which
  is where the orchestrator's choice of ids and distinct case names are used.
- `BindTakesEffect`: `Spec => CleanBindTakesEffect`. A bind response has no id, so that
  the one a bind receives is its own depends on there being no other. `CleanInv` says
  so: as long as nothing stray was printed and the worker is not dead, the open call is
  in one place only (on stdin, with the worker, on stdout, or in its reader's channel),
  and a bind response on its way says what the worker now operates on. A request is
  given up only by errors that mark the worker dead, or at the end of its process.

`GoWorkerProofs`, for every Suite and every behaviour of the user's functions:

- `TypeCorrect`, and `BindingCorrect`: `Spec => []BindingInv`, the inductive
  invariant: what is bound is what was asked for last, and the audit holder
  belongs to it and is enabled as that bind said.
- `AskedCorrect`: `Spec => []RunsWhatWasAsked`, from it.
- `ContractCorrect`: `Spec => ImplementsBoundWorker`. Every request is a step of
  `BoundWorker` or of no consequence to it. The mapping reads the selection off the two function
  variables, so `BindingInv` also says that each direction is bound exactly
  when the pair asked for has it; without that a request for the direction a pair lacks could not be told
  from a request to a worker with nothing bound.
- `AuditCorrect`: assuming `AllKnown` (each field is held in a shape that both
  probes look into, and no NaN in one that is compared other than by its bits), audit
  findings are exact and auditing changes no answer.
  `go_worker_blobs` shows the assumption is needed.

`RunCommandProofs`, for every set of languages, suites, worker directories and
optional files that satisfy `InputAssumption`:

- `NoProcessLeftCorrect`: `Spec => []NoProcessLeft`. The inductive invariant
  `WorkersInv` says that the languages detected are distinct, that the map has
  exactly the workers started so far under their languages, and that no other
  process runs. Distinctness is what `detectAndBuild` refuses duplicates for: without it
  a process drops out of the map and the deferred calls miss it.
- `BadNeverGreenCorrect`: `Spec => []BadNeverGreen`, interrupted runs included. `BadInv`
  says that a recorded difference is excused by its worker's own file or is in Failures, which only
  grows; it needs `WorkersInv` for two languages never to share a process. No
  assumption on test ids is needed.
- `TypeCorrect`: `Spec => []TypeOK`.
- `NothingLeftOutCorrect`: `Spec => []NothingLeftOut`, whose condition is that nobody
  interrupted the run. `LoadInv` says that the types are
  the files with cases among those read, `SetUp` the order of a run (all files are read
  before a directory is looked at, each directory has its worker before one starts, all are
  up before a test runs), and `RanInv` that the tests before the current one, in the order
  of types, formats and cases, were run by each worker and have their rows,
  but for those an interrupt dropped.
- `SkipNeverHiddenCorrect` and `NoteExactCorrect`: both properties are about suites whose
  test ids are distinct (`UniqueIds`), and need it only where a row has to stay what it was
  when it was written. `RowInv` relates rows and outcomes in both directions: a row
  that is not a skip or a failure stands for a worker that did something, a worker that
  did something has such a row, and a declined round is a skip until the skips are
  checked, then declared or a failure.

`WorkerSessionRefinement`: `Implements`, that `WorkerSession` implements
`RequestReply`, when op and id tell any two requests apart (`DistinctKeys`, which allows
one bind per session), and `ImplementsClean`, that it does so with any number of binds when
the worker prints nothing but answers (`StrayLimit = 0`). Every step of the session is
mapped to a step of the abstraction or to none. Two steps need more than `SessionInv`: an answer may be given only to a
call the process has handled, and the process handles only calls that went out. `ServedInv`
says why: every response on its way, in the pipe or in the channel of a reader,
answers a handled request, and every request on its way was sent. `Believable`, that what
passes the comparison is the answer to the request itself, follows from `DistinctKeys`, and
without it from `CleanInv`. With neither the statement is false: TLC finds that with two
binds and a line printed twice, the second bind is answered before the process has seen it.

The proofs about `Orchestrator` hold for every suite, every set of workers, every
table of known failures and expected skips, and every order of replies, subject to
the assumptions named with each. `Distinct` says that the case names of a type differ; without
it a second case overwrites the rows of the first.

- `OrchestratorProofs` has `TypeCorrect` and `DeadNeverGreenCorrect`. They rest on
  `Flow`, the order of a run: what is true of `sub`, `todo`, `hex` and `inbox` at
  each stage, in particular that a reply waiting to be recorded belongs to a worker the stage
  still waits for (`g.Wait`). `DeadNeverGreenCorrect` assumes that nobody interrupts
  the run. `DeadNeverGreen` is not inductive: between the death and the row that
  shows it the worker is only in `inbox`, or it is the reference, lost inside
  the semantic oracle, whose loss only round 2 will show. `DeadInv` lists these places.
- `OrchestratorMatchProofs` has `PassMeansMatchCorrect`, assuming `Distinct` and, with
  the full matrix, no known failures (section 3, "Seen while modelling", says what
  happens otherwise). `MatchInv` adds where in the order of the run a passing row and an
  answer can stand, and that `hex` holds what the answers of round 1 said (`HexInv`), so that
  no later answer can be the one an earlier row was judged by. `MatrixCoversCorrect` assumes
  `Distinct` alone. `CoverInv` follows a pair of a source that has output and a worker that
  deserializes: it has its answer, or it belongs to the current case and round 2 has not
  ended, or the matrix is at work on the case and has the pair still to do.
  `PassedByItsPairCorrect` is about `BoundRun` and any workers that keep their contract, with the
  assumptions of `PassMeansMatchCorrect`, which it uses: a passing row has an answer
  of kind `ok`. `PairInv` says why that answer is the group's: whoever counts as bound has
  the group selected or nothing, since `sub` is emptied when the group changes and only an
  accepted bind adds to it, and an answer waits in `inbox` with its origin, because nobody binds while a
  round is on (`Flow`). Every step of `BoundRun` is a step of `Orchestrator` (`BoundIsRun`), so
  that the invariants proved for one hold in the other.
- `OrchestratorReportProofs` has `ExitZeroCompleteCorrect` (assuming no interrupt),
  `ReportsAgreeCorrect` and `SkipsEnforcedCorrect` (without the matrix), all for
  distinct names. `RowsInv` says which rows are due at each stage: none is there before it
  is due, and none is missing once it is, unless a cancelled context dropped it. Hence a
  row is written once (`Kept`), so `Failures`, which only grows, is what a reader of
  `Results` counts (`FailInv`), and a skipped request is a SKIP row until the coverage
  check (`SkipInv`). `LedgerCorrect`: `Spec => ImplementsLedger`, with `Distinct`, from the
  same invariants. A step of the run writes rows that were not there, or is
  `Finish`; `ErrInv` says that an error to return has rows of kind ERROR in Failures behind it, so that
  the early exit of `runTests` never contradicts the rows.

`SchemaResolverProofs`, for every set of files, any imports and references:

- `TypeCorrect` and `MarksCorrect` (`Spec => []MarksExact`), from `CallInv`. It adds to
  the two that a caller stands at the reference its callee resolves, and that only readable
  files are registered and only records memoized: a sum is marked too, and would
  otherwise be taken from the memo while it is in progress.
- `MemoCorrect` and `VerdictIsCorrect`: `Spec => []MemoComplete` and, for a finite set of
  files, n names and `MaxDepth` above (n + 1) n + 1, `Spec => []VerdictCorrect`. What a name leads to is the least set closed under
  the references (`Closure`), so each inclusion is shown by giving a closed set, without
  induction. `VerdictInv` says of what is loaded that it is imported; of two calls one above
  the other that the upper resolves a reference of the lower; and of the memo and what a
  call has gone through that it is known, complete below and not circular. For the overflow: without a
  loop of newtypes, a call is told apart from all others by its name and by the innermost
  marked type it was made for, so there are no more of them than such pairs.
- `NoOverflowWithoutNewtypes`: with no transparent type and room for one call per file,
  `Spec => []NoOverflow`. The calls in progress and the one about to begin have
  different names by `MarksExact`, so there are no more of them than files. `schema_newtypes` shows
  what the missing guard on newtypes does to this.

Only model-checked: all liveness (`CallsReturn`, `StopReaps`, `RunEnds`, `LoadEnds`: fairness
and ENABLED are out of the prover's reach), and the four properties of `CaseFlow`, whose
operators follow the nesting of types and are recursive, so that proofs about them
would be inductions over data. Every other property of a passing run is a theorem.

## 5. What is not modelled

- The other language libraries: eight reimplementations of the loop `GoWorker`
  models and of the values `GoFieldMap` models. The runner side assumes nothing of
  them; `case_flow` is about Go workers only.
- `validate` and `table`: the first loads a suite as `run` does and prints what it
  found, the second prints a CSV file. Of `schema`, everything but the data of a case.
- Which of two imported files a name means when both have the same base name (the
  later one, schema.go:193): in `SchemaResolver` a file is the name of its type.
- The syntax of type expressions (`internal/kind`) and of YAML.
- Layout and wording of reports.

## 6. Plan

Done: the modules above and their proofs. Next, in this order:

1. The audit probes over the values of `GoFieldMap` instead of shapes.
2. Type files in directories, so that two of them can have one base name.
3. Proofs: a refinement of `Orchestrator` to one row per test and worker, as `RunCommand`
   sees it.

## 7. Running

    tlc -config MCSessionStrays.cfg MCWorkerSession
    tlapm WorkerSessionProofs.tla
