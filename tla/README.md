# Verification of reranker-service

TLA+ modules that model the reranker service of this repository, TLC
configurations that check them on small instances, and TLAPS proofs that hold for
every instance. Paths are relative to the repository, which is `src/` here; line
numbers are those of `PROJECT.json`.

## The system

`FastAPI application → RerankService → (ScoreCache, DynamicBatcher) → ModelRuntime → backend`,
in one process with one asyncio event loop; a thread pool runs the backends; Redis
holds scores; a web console talks HTTP. Code between two awaits is atomic on the
event loop, so every hazard sits at an await, at a lock, at a cancellation, between
two requests, between two threads inside a backend, or between two processes that
share the artifact directory.

| Component | State | Operations | What is hard | What makes it correct |
|---|---|---|---|---|
| Micro-batcher, `batching.py` | bounded queue, worker task, jobs with cursor, scores, future | predict, start, reconfigure, close, the worker's window and packing loop | jobs combined and split over calls, deadlines, cancellation of the worker, settings patched between awaits | nobody gets another's scores; a job is in one place; calls keep to the limits; every job is decided |
| Inference concurrency, `runtime.py` | semaphore object, device, executor | predict, `_configure_concurrency`, `_sync_active_backend_state` | the semaphore is replaced under its users; cancelled callers leave threads running | permits conserved; waiters of a replaced semaphore served |
| Model lifecycle, `runtime.py` | active model, candidate, previous, lock, operation record, ready | initial load, load_candidate, activate, rollback, reconfigure, close | operations overlap, loads fail half way, the initial load takes no lock, checks go stale | the served model is the one named; rollback undoes; nothing unloaded is used; operations end and settle |
| Rerank service and cache, `service.py`, `cache.py` | per-request scores, Redis keys | rerank, get_many, set_many, clear | settings change between lookup, inference and storing; Redis fails part way; cache outlives the process; scores put back by position | a score is stored under the configuration that computed it; a response compares scores of one model; limits, order and positions are right |
| HTTP application, `main.py` | request history, app state | admission, rerank_batch, admin handlers, lifespan | gathered requests, one of which fails; shutdown order | a batch is recorded whole or not at all |
| Settings and history, `admin.py` | current and previous settings, bounded deques | record, apply, rollback | the deque drops records; the record and the settings in force drift apart | the history keeps the newest; the audit log is true |
| Rate limit, `security.py` | a window of times per client | rate_limit | boundary of the window, refused requests | exactly the limit in any minute |
| Benchmarks, `benchmark.py` | runs, tasks | start, delete, close, execute, baseline | deletions race with each other, with execution and with shutdown | no task out of reach; the audit log tells each life; shutdown leaves nothing |
| ONNX backend, `backends/onnx.py` | session, provider, fallback | load, infer, fallback, unload | threads share a model without a lock and leave CUDA together | forced CUDA never falls back; a serving model does only for an error of CUDA; metadata is true |
| Artifacts, exporter, `artifacts.py`, `exporter.py` | files, manifest, staging directory | prepare, load, verify | kills, losses of power, concurrent exporters and loaders, removal | a loaded artifact is one export's, complete and undamaged |
| Parity, `parity.py` | none | comparisons of rankings | ties, single entries, lists of other documents | a measure of order: symmetric, 1 only for the same ranking, -1 only for the reverse |
| Web console, `web/src/main.tsx` | browser storage, inputs, result | persist, restore, forget | layout | not modelled |
| Other backends, registry, metrics, configuration, scripts | little or none | load, infer | framework code | see `PROJECT.json` |

## Modules

Each module lists its constants with the assumption they satisfy, one action per
stretch of code between two suspensions, and its properties last. `PROJECT.json` maps
every definition to its lines.

- **PairScoring**: the abstract specification of what `predict` promises: each
  request is accepted and then answered with its own scores, or refused as a whole.
- **DynamicBatcher**: the batcher as it is, with the requests' deadlines and the
  administrators' PATCH handlers. A pair is `<<request, index>>` and is its own
  score, so a misplaced score is visible. `Enqueue`/`Reject`/`PredictDirectly` are
  `predict` up to its await, `Resume` the rest; `Collect` and `CloseWindow` are
  `_run`; `PackPair`, `CloseSlice`, `IssueCall` are the packing loop, pair by pair;
  `PredictReturns` and `PredictFails` the two outcomes of the call; `BeginClose`,
  `WorkerStops`, `CloseReturns` are `close()` around its await. The packing loop has
  no await, so while a worker packs nothing else moves (`LoopFree`). Jobs already
  decided are passed over where the code filters them out of `active`; a slice carries
  the offset the code accumulates. A request's deadline and its client's disconnection
  are both `Timeout`. `Workers` bounds the restarts of the worker.
- **InferenceGate**: the semaphore `predict` enters, as a set of named semaphore
  objects, because callers stay with the one they entered when it is replaced. The
  rules of `asyncio.Semaphore` (FIFO, a permit handed to the first waiter, a waiter
  that leaves wakes others) and of the executor are external and modelled from
  their use.
- **ModelLifecycle**: the model slots, the lock with its FIFO line, the requests of
  administrators at their awaits, the initial load, the threads that captured a
  model, and the shutdown. A name stands for model and revision. Memory is counted
  in models (`Room`). The only error of `rollback` is unreachable through its
  handler, which looks at `previous` first, and `previous` is never None again.
  `overtaken` is a history variable: the initial load, which takes no lock, replaced
  a model that an administrator had activated.
- **ServedModel**: what a request meets of settings and runtime, and no more: the
  settings, the active model with the name and the length it infers with, the previous
  one, and the initial load. Settings and active model are two things, as in the code,
  and come apart in it without any request: a model is installed with the length it was
  loaded with (`runtime.py:204`), a PATCH reaches only the active one (`runtime.py:321`),
  and the initial load installs its model over an activated one (`runtime.py:82`).
  ModelLifecycle implements it; PlainRerank and RerankPipeline extend it.
- **PlainRerank**: the abstract specification of what `rerank` promises: no cache, no
  batches, each request answered in one step or failed, and decided. An answer has the
  scores and the name of the model in force, each as long as it is promised: the name of
  the model and its length are each lost to `disturbed` when a request meets settings and
  model that differ in it, or its change. From then on a score is only that of some model.
- **RerankPipeline**: one `rerank` call from the cache lookup to the response, over
  Redis. A key is made from the settings at the moment of the lookup, and again from
  those at the moment of storing; a score is known by the name and length of the active
  model that computed it. An inference may cover any part of the misses, as the batcher
  may split a request; a listwise request is one call. MGET is one Redis command; the
  SETs of a pipeline are separate. `disturbed` is the history variable of PlainRerank.
- **Ranking**: the data side of the same call: cutting to the character limits, the
  total limit, the merge of found and computed scores, the scatter of a listwise
  model's entries by their index, the stable descending sort, `top_n`, and
  `ranking_parity` of the answer and another list. Its steps are the stages of one
  request; its initial states enumerate the requests. Sums, the scatter and the sort are
  recursive functions, one step per number, entry or document, as the code's loops take
  them.
- **OnnxSession**: one loaded ONNX model under several threads. A thread calls the
  session it read, meets an error, retries, decides, and assigns the session, the
  provider and the reason one by one, as the code does without a lock. Loading and
  warm-up are the first steps, unloading may come at any time after. The history variable
  `cudaFailed` records that CUDA was missing or that a session on it failed with an error
  of CUDA; the fallback at load, which catches everything, does not set it by itself.
- **ArtifactExport**: one artifact directory shared by exporters and loaders of
  several processes. A directory is a function from its three files to their
  contents, or `Absent`; `Publish` is the rename, which fails if the target is there;
  a process may be killed at every step, an operator may remove the directory, and power
  may be lost before anything is flushed: files are then torn, or the rename itself is
  undone, as the directory is never synced. Loaders read the manifest and verify the
  files against it one by one; the model ends there, and the backend opens the files once
  more by the paths it was given, unverified (`onnx.py:125`, `131`, `164`).
- **BenchmarkRuns**: the benchmarks' tasks, the list of runs, the dictionary of tasks
  and the audit log, under overlapping deletions and the shutdown, which deletes what is
  left. `delete()` is split at its await (`Delete`, `DeleteResumes`). The audit log is a
  history of everything recorded; the code's deque (`admin.py:22`) forgets all but the
  newest 1000 entries.
- **RequestAdmission**: a request's way through the middlewares, the sliding window of
  the rate limiter, the gathered calls of a batch, and the bounded history. `passed`
  and `recorded` are history variables: everything the bounded structures forget.
- **MC…**: instances of the module of that name for TLC.
- **…Proofs**: theorems about the module of that name. `OnnxSessionProofs` holds those
  of ArtifactExport as well, whose names (`ArtifactInit`, `ArtifactSpec`) keep the two
  apart.

Composition. The components are cut where the code's interface is one call. What
RerankPipeline sees of the batcher (a request may be split, refused or given up) is
what DynamicBatcher and PairScoring establish. What it sees of the lifecycle is
ServedModel, and that ModelLifecycle does no more than that is checked (LifecycleSafe)
and proved (`RequestsMeetServedModel`). ServedModel is coarser in what it leaves out: the
lock and the candidate, so that an activation installs a model of any name and length; a
process that has ended is started again, where ModelLifecycle ends with its process. What
ModelLifecycle sees of a backend (load and infer return or raise) is what OnnxSession
details.

Operators whose comment begins with "Faulty" are variants of a definition with a
plausible bug; each property is violated when one of them takes the definition's
place.

## Runs

Passing runs:

| Run | Instance | Shows |
|---|---|---|
| BatcherSteady | 3 requests of 1 or 2 pairs, one pair over the token limit, queue of 2 | types, limits of calls, every job scored when inference ends |
| BatcherPatched | the same, 2 administrators, 2 workers, two pair limits | isolation, single custody, no stuck queue, settled once |
| BatcherImplements | 2 requests, 1 administrator, a predictor that may hang | refinement of PairScoring with fairness |
| GateAdministered | 3 callers, 4 semaphores, one permit each | permits conserved, waiters of replaced semaphores are served |
| LifecycleSafe | 2 administrators, an inference, 6 model objects, 2 names, room for 2 models | nothing unloaded in use, operations settle, served under its own name, rollback undoes, requests end; refinement of ServedModel |
| PipelineServes | 1 request, 2 documents, 2 names, changes and restarts at any time | until the name is disturbed, the cache is honest about it and responses name their model; listwise answers are of one model; refinement of PlainRerank with fairness: the cache cannot be seen in an answer, and requests are decided if Redis answers or refuses |
| OnnxFallback | 3 threads, every policy, every kind of failure | forced CUDA fails closed, a serving model leaves CUDA only for its errors, metadata true, errors surface only in one race, the fallback is final |
| ArtifactRaces | 3 exporters, 1 loader, 3 files | what is verified is one undamaged export, the same for all; published is complete |
| BenchmarkDeletions | 3 benchmarks, 2 administrators, the shutdown | no orphan task, true audit log, quiet shutdown, everything ends |
| AdmissionSteady | 3 requests of one client, limit 2 per window of 1 tick, history of 2 | the limiter is exact, batches whole, history the newest |
| RankingExact | up to 4 documents sent and 3 ranked, texts of length 1 or 3, 2 scores, rankings of 3 | limits kept, each document its own score, best first and stable, parity measures order |

One violation, a disagreement of code and documentation (`findings`):

| Run | Disagreement |
|---|---|
| PipelinePoisoned | old scores are stored under the new model's keys when the model changes during an inference (`service.py:103`, against `ARCHITECTURE.md:20`); the run keeps settings and active model equal at every moment (`SpecAgreeing`), so that nothing else is to blame |

Seven more configurations are not among the runs of `PROJECT.json`. Three of them pass,
on other instances than the runs:

| Configuration | Module | Instance | Shows |
|---|---|---|---|
| LifecycleServes | MCModelLifecycle | 1 administrator, 2 names, 2 lengths | refinement of ServedModel where models get lengths other than the configured one |
| PipelineLengths | MCRerankPipeline | 1 request, 2 documents, 2 lengths | HonestUnlessDisturbed where models are installed with an old length |
| PipelineShared | MCRerankPipeline | 2 requests for 1 document, 2 names | HonestUnlessDisturbed where requests share keys |

The other four find what the code does against its documentation, each in one property
that no run or theorem claims:

| Configuration | Module and property | What it finds |
|---|---|---|
| BatcherUnserved | MCDynamicBatcher, BatchingIsServed | two overlapping PATCHes leave batching on without a worker: `close()` clears `_worker` after its await (`batching.py:53`), and the PATCH that turned batching on meanwhile saw the old one there; nothing in `main.py:346` keeps PATCHes apart, and `ARCHITECTURE.md:28` has the batcher combine the pairs of requests |
| PipelineOutdated | MCRerankPipeline, CacheIsHonest | a model installed with an older length than is configured (`runtime.py:321`) has its scores stored under the configured length's keys (`cache.py:30`, against `ARCHITECTURE.md:20`); nothing changes under a request, and only what has the configuration in force is installed, or what a rollback restores (`SpecCalm`): activation, PATCH, rollback |
| PipelineRedisHangs | MCRerankPipeline, LookupEnds | a request waits in its lookup for ever if Redis does not answer (`cache.py:19`, against `README.md:92`); nothing is assumed of Redis (`SpecRedisMayHang`) |
| OnnxLoadFallback | MCOnnxSession, OnlyCudaFailureFallsBack | a CUDA session that fails for any other reason than CUDA while it is created or warmed up leaves the model on the CPU (`onnx.py:188`, against `ARCHITECTURE.md:34`) |

More things the documentation can be read to promise and the code does not keep are
part of the models, and no property asks for them:

- replacing the semaphore admits more inferences than the limit (`runtime.py:354`,
  `ARCHITECTURE.md:28`); `PermitsConserved` states what each semaphore keeps;
- a candidate activated before the initial load ends is overwritten
  (`runtime.py:82`), and responses then name another model than the one that computes;
  `ServedAsNamed` exempts exactly that by `overtaken`, and `NamesItsModel` where a
  request meets it;
- one pair longer than the token limit goes alone in a call above it
  (`batching.py:99`); `CallWithinCaps` states what holds;
- the memory check is not repeated after the wait for the lock (`runtime.py:193`,
  `LoadCandidate` and `ResumeLoad`);
- a response whose inference was split over two calls may rank scores of two models
  when the model changes in between (`service.py:101`, `Infer`);
- without a previous model, the settings rollback changes what is shown and not what
  is in force (`main.py:376`; not modelled);
- of two overlapping deletions of a benchmark the one that did not wait takes the run,
  and the one that cancelled the task answers 404 (`benchmark.py:74`, `Forget`);
- an existing artifact is returned for other parameters than it was exported with
  (`exporter.py:92`, `BeginExport`);
- a score that is no number passes the legacy backend into sort and cache
  (`legacy.py:79`; `Ranking` has finite scores);
- failed requests are never recorded, so the errors of the time series are always 0
  (`main.py:171`, `Fail`).

Bounds. Every race above needs two actors and one overlapped await.

- Batcher: three requests let a call combine two jobs while a third is queued or
  rejected. Weights are chosen so that a job is split, a call is filled exactly, and
  one pair is over the limit. Two workers let one be cancelled while its successor
  runs.
- Gate: with one permit and three callers one holds it while two are in line; it needs
  one more semaphore than callers for a fresh one always to exist.
- Lifecycle: five more objects than inferences (active, candidate, previous, one being
  tested, and a fresh one); room for two models makes a load refused and a load that
  passed its check before another one took the room. LifecycleSafe has one length, as
  only its refinement of ServedModel looks at lengths, and `Reconfigure` is idle in it;
  LifecycleServes has two, and one administrator, whose operations suffice to leave a
  model active with another name or length than is configured. The theorem has any
  number.
- Pipeline: a mixed answer needs one request with two documents, one of them cached; a
  score that one request stores and another finds needs two requests or a request that is
  followed by the next (an ended one starts again). The run has two names and one length,
  as the names are what an answer shows; PipelineLengths has it the other way round, and
  the theorems have any number of each.
- ONNX: two threads in the switch and a third that reads the session between two
  assignments.
- Artifacts: two exporters race and a third exports again after a removal, while the
  loader stands between manifest and files.
- Benchmarks: two deleters of one run and a second and third run for the shutdown to
  close in turn.
- Admission: three requests around a limit of two, a clock of two ticks around a
  window of one (`MaxTime`): both sides of the boundary and the boundary itself. One
  client, as the windows of two never meet.
- Ranking: `MaxSent` and `MaxRanked` bound documents and rankings; three entries are
  the least in which a stable sort and a pairwise agreement can go wrong partly.

Which free name a new object takes is immaterial, so it is a CHOOSE. CHECK_DEADLOCK is
off where the system comes to rest when the bounded requests are done. Symmetry is never
used over a set that a CHOOSE ranges over. Where a run has symmetry and a liveness
property (`NameSymmetry`, `DataSymmetry`), neither the property nor a fairness condition
tells the symmetric values apart, and a step that fairness asks for always changes
something other than such values, so that none of them is lost by taking states up to
a permutation.

## Fairness

The event loop runs every ready task and fires timers: weak fairness per task
(`Resume`, `Collect`, `CloseWindow`, packing, `WorkerStops`, `CloseReturns`,
`Submit`, `Return`, `Raise`). Deadlines exist only around inference
(`service.py:94`), so `Timeout` is fair in `Spec`, where the predictor may hang, and
inference is fair instead in `SpecUntimed`. The gate assumes that an inference ends,
which the thread pool cannot enforce; the lifecycle that loading returns or raises;
the pipeline, that inference ends,
which its deadline sees to (`InferenceEnds`), and that Redis answers or its client raises,
which nothing in the code sees to (`RedisAnswers`): the client has no `socket_timeout`, and
lookups and stores are outside the deadline. That every request is decided rests on it,
and PipelineRedisHangs shows what happens without it; the ONNX model that each thread
proceeds; the benchmarks that the rerank a run awaits is decided, and that the event
loop resumes deletions and the shutdown. No fairness is assumed of administrators,
clients, or of Redis executing a SET, and RequestAdmission, ArtifactExport and Ranking
assume none at all: their properties are about safety.

## Proofs

Each proof module proves its theorems for every value of the constants that satisfies
the assumptions of its module, from an inductive invariant stated at its head: `Init`
implies it, every step keeps it, and it implies the properties. None of the properties
below but the types is inductive on its own.

- **DynamicBatcherProofs** (`WeightsAssumption`, `LimitsAssumption`): `TypeCorrect`,
  `NoMixedResults`, `NoSharedJob`, `QueueIsAttended`, `FuturesSettleOnce`,
  `CallsWithinCaps`, and `BatcherImplementsScoring`: every step is a step of
  `PairScoring` or a stutter. The inductive invariant `Inv` has four parts. `JobInv`:
  the scores of a job are the prefix of its own pairs up to its cursor, and a request is
  answered only from a job whose scores are all its own. `Custody`: a job is once in the
  queue or once with one worker, and not in two. `CallInv`, per worker with a call: the
  slices recorded so far, each with its offset, cut from the call's pairs exactly the
  next pairs of their jobs, and slices of different jobs are apart; the pairs still
  uncounted are the next ones of the current job. `Custody` is what makes `CallInv`
  stable: no other worker can move the cursor of a job held here. Crediting then extends
  each job's scores by its next pairs, which is `JobInv` again. `QueueInv`: a queue that
  is not empty has a running worker or a close under way; it rests on `WorkerInv`, that
  the worker `_worker` names runs unless a close is under way. `CapInv`: the tokens of a
  call are the last of the running totals of its pairs (`Counted`), so that the worker's
  counter, which decides, is the sum that the limit is about.
- **RerankPipelineProofs** (`PipelineAssumption`): `PipelineTypes`, `ListwiseAnswers`,
  `CacheStaysHonest`, `ResponsesNameTheirModel`, and `PipelineImplementsPlainRerank`:
  every step is a step of `PlainRerank` or hidden, where a request is waiting from its
  lookup to its response. `KeysInv`: a request has keys while a cache command of it is
  under way. `ScoresInv`: a request that stores or has answered has a score for
  every document it asked for, and stores no other document. `ListwiseInv`: a
  listwise request meets no cache, and its scores are equal. `DownInv`: no
  request is in progress in a process that has ended. `SteadyInv(r, p)`, for each part p
  of the configuration that is not disturbed: a request in progress knows only the
  settings' p, in its keys, its scores and the model it reports, and the active model has
  it too, so that what it stores keeps the cache honest and what it answers is of one
  model. It is for each part by itself that it is inductive: a wrong length, which no
  request need have met yet, takes nothing from the names.
- **OnnxSessionProofs**: `SessionTypes`, `ForcedCudaIsKept`, `FallbackHasCause`,
  `MetadataTellsTruth`, `ErrorsAreHidden`. `FallbackHasCause` is about the model once it
  is loaded, as loading does fall back without an error of CUDA (OnnxLoadFallback).
  `ThreadInv`: only where a fallback is allowed and CUDA failed does a thread get as far
  as the retry or the switch, and once it is past the first assignment the session is
  off CUDA for good. `ModelInv`: a CPU session whose provider or reason does not say so
  yet has a thread between the assignments that will.
- **OnnxSessionProofs**, of ArtifactExport (`ExportAssumption`): `ArtifactTypes`,
  `LoadsAreOneBuild`, `AllLoadTheSame`, `PublishedAtOnce`. `StagingInv`: what an
  export's staging directory holds before it is published. `ReadInv`: what a process has
  verified so far is of the export its manifest names. `SameInv`: until it is removed,
  or its rename lost, the artifact has the manifest that was read, or a torn one.
- **BenchmarkRunsProofs** (`RunsAssumption`): `BenchmarkTypes`, `TasksStayInReach`,
  `AuditIsTrue`, `ShutdownIsQuiet`. `ReachInv` says who can still reach a run (the list,
  the dictionary, a deletion that awaits it), `CallInv` that a deletion awaits one run,
  `CloseInv` that what is still tracked at shutdown is still to be closed, `LifeInv`
  how a task's step and its run's status go together.
- **InferenceGateProofs** (`GateAssumption`): `GateTypes`, `NoPermitLost`. `Line`: who
  is in a semaphore's line waits for that semaphore, and is in it once. `Inside`: a
  caller inside `predict` has entered a semaphore. `HandOutStep` shows that waking the
  first of a line moves exactly as many permits as there are callers woken, counted by
  the cardinality of `Holders`; each action then changes free permits and holders by the
  same number. That a replacement always finds an unused semaphore is the pigeonhole
  principle, with more semaphores than callers.

- **ModelLifecycleProofs** (`LifecycleAssumption`): `LifecycleTypes`, `UnloadedIsGone`,
  `OperationsSettle`, `ModelsServeAsNamed`, `SwitchesCanBeUndone`, and
  `RequestsMeetServedModel`: every step is a step of `ServedModel` or hidden. `LockInv`:
  who loads or tests has the lock, and the line behind it holds only requests that wait,
  each once. `TestInv`: a model under test is in no slot and no inference has it, so
  that a failed test unloads nothing in use. `BootInv`: while the initial load runs,
  which takes no lock, the place it will fill is active or is what a rollback restores,
  under the name it was started for. `NameInv` needs it, as the load names a model long
  before it installs one. `ClosedInv`: the shutdown ends what was in progress.
  `SlotInv`, for the refinement: no two slots hold the same object, so that a PATCH that
  changes the active model leaves the others what they are, and a candidate goes by the
  name it was loaded under. That a load finds an unused object is counted: the callers'
  models and four more are all that can be in use.
- **RequestAdmissionProofs** (`AdmissionAssumption`): `AdmissionTypes`,
  `HistoryStaysNewest`, `BatchesStayWhole`, `RateStaysExact`. `NewestInv`: the history
  entry by entry, from the end of what was recorded. `WholeInv` with `ItemsInv`: until a
  request is answered it has no record, and after that none of its calls is still running.
  `WindowInv`: times never decrease, and the window is what passed without its first k
  entries, all expired. `ExpiredPrefix` then shows that the loop which takes old entries
  from the left leaves a suffix that is exactly the last minute, and `RecentCounts` that
  its length is the number the limit is about.

- **RankingProofs** (`RankingAssumption`): `LimitsAreKept`, `DocumentsKeepTheirScores`,
  `AnswerIsBestFirst`, `ParityIsAMeasure`, each for lists of any length. `RankInv`: a
  request has texts, a decided one has a score for each, and an answer has no document
  twice. The work is in what the operators compute:
  - Induction. A set of numbers that is not empty has a least one (`LeastNatural`, from
    the library's well-founded order of the naturals), so what holds at 0 and passes from
    each number to the next holds up to any bound (`InductionTo`). From that,
    `Recursion`: a function defined step by step exists and has the type the steps keep.
    The library's induction theorems take an operator as a parameter, which the provers
    cannot instantiate; a set takes its place here.
  - `ScatterPlaces`: after k entries the list has the scores of the entries at the places
    they name, or is refused if one was bad. `FullList` and `GapInList`: the list is full
    exactly if each document was named once. `InOrderCounts`: the misses come back by the
    number of misses before them.
  - `SortedOrders`: inserting one document after those at least as good keeps the list
    sorted (`InsertKeepsSorted`), where those at least as good are a first part of it
    (`Segment`). `FirstAreBest`: so the first ones are the best, each once.
  - `SumInAnyOrder`: a permutation does not change a sum. Two rankings of the same
    documents make a permutation q of their places (`PlacesPermute`), and a guard that
    counts accepts exactly those (`ComparableIsSame`). `ApartAndAway`: the squares of
    `i - q[i]` and of `i + q[i] - (n + 1)` together have the sum `n(n * n - 1) / 3`
    whatever q is. Neither is negative, which bounds Spearman's measure, and a sum of
    squares is 0 only if each is, which makes the bounds exact (`SquaresBounded`).
    `PairsCounted`, `KeptBounded`: there are `n(n - 1) / 2` pairs; all are in order only
    if q rises, and a q that rises is the identity (`RisingIsSame`); none is only if it
    falls. Both measures are the same for the inverse of q (`SquaresSymmetric`,
    `KeptSymmetric`).

Every safety property of a passing run, invariant or action property, is stated by a
theorem. Only model-checked: the liveness properties (`EveryJobScored`, `WaiterServed`,
`EveryRequestEnds`, `FallbackTakesHold`, `EverythingEnds`) and the fairness part of the
two refinements that have one, as liveness under fairness and `ENABLED` are out of the
prover's reach.

## Not modelled

Formatting, metrics, tracing, tokenisation, framework code, HTTP parsing, bearer
tokens, the validation of bodies field by field. The settings copy that `admin.py` keeps
to show, and its rollback. `score_deviation`, the percentiles of a benchmark and the
aggregation of the time series: arithmetic on observed numbers. Memory estimates and
NVML queries. Resolution of revisions and path checks: functions of strings. The web
console and the deployment scripts. A component without a module is listed in
`PROJECT.json` with the reason.

## Plan

1. Done: DynamicBatcher with PairScoring, InferenceGate, ModelLifecycle, RerankPipeline
   with PlainRerank; BenchmarkRuns, RequestAdmission, OnnxSession, ArtifactExport,
   Ranking; the proofs above.
2. Done: every safety property of the passing runs is proved.
3. Done: the composition of RerankPipeline with ModelLifecycle, by ServedModel, which the
   one implements and the other is built on.
4. AdminConfig: the settings shown and in force.
