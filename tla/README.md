# Verification of the ShadowGen ML service

TLA+ models of the ShadowGen ML service (its job manager and API, its caches
and batches, the choice of its backends, its two pipelines and their talk with
Triton), TLC runs that check them on small instances, and theorems about them
checked by TLAPS. Paths of code are relative to `src/shadowgen_ml_service/`
unless they start with `docs/`, `ops/` or `tests/`.

## 1. The system

The service takes a product photo and renders a shadow for it. It is one
process: a FastAPI application on one uvicorn event loop, a pool of daemon
threads that render asynchronous jobs, and an optional Triton server that runs
heavy models.

| Component | State | Operations | Talks to |
|---|---|---|---|
| HTTP routes and façade (`interfaces/http/public_routes.py`, `service.py`, `app.py`) | none of its own; one event loop | health, capabilities, render, submit, get, cancel | use cases, admission |
| Job admission (`application/services/job_admission.py`) | `_sync_running` under a lock | check for async, check for sync, track a sync render, snapshot | job manager's snapshot |
| Submit, get, cancel (`application/use_cases/*_render_job.py`) | locals | lookup by request id, create, enqueue; get, cancel, get | admission, job manager |
| Job manager (`infrastructure/jobs/in_memory.py`) | `_jobs`, `_request_index`, `_queue`, `_cancelled`, `_running_jobs`, one lock, one condition | create, get, update, submit, cancel, snapshot; the worker loop | render pipeline, by the closure in the queue |
| Render pipeline (`application/use_cases/render_pipeline.py`), stage runner and executor | a context per render | decode, load, stages, save, shadow, compose, encode | selector, cache, stages |
| Debug pipeline (`application/use_cases/debug_pipeline.py`) | a context per call | the stages one after the other, up to one | selector, stages |
| Preprocess cache (`infrastructure/cache/preprocess_cache_repository.py`) | a directory of seven files per key | make_key, load, save | file system |
| Backend policy and selector (`application/services/backend_policy.py`, `backend_selector.py`) | none | candidates, defaults, selection and fallback | registry, descriptor |
| Container, registry, descriptor (`bootstrap/`, `application/dependencies.py`) | backends and defaults, fixed at start | registration, probing, description | Triton client, settings |
| Triton batch coordinator (`infrastructure/backends/triton/batching.py`) | `_groups`; items, events and results of each group | execute | Triton client, by `run_batch` |
| Triton client and serializers (`infrastructure/backends/triton/`) | a lazily made native client | ping, model_ready, probe_binding, infer | Triton |
| Lazy stage adapter (`infrastructure/stages/lazy.py`) | `_delegate` | first use of a stage | model factories |
| Local models (`bootstrap/probes.py`, `infrastructure/stages/`) | memos of loaded models | probe, construct, run | packages, files and GPU of the host |
| Triton-served Python models (`ops/triton/model_repository/`) | none between calls | execute | Triton |
| Settings, schemas, mappers, imaging, stage models, playground | none that outlives a call | conversions and numerics | |

How they interact: a route calls a use case in the event loop's thread; the use
case calls admission and the job manager, each of which takes its own lock for
a moment; a worker thread takes a job from the queue and runs the pipeline; the
pipeline's threads (workers, and the event loop when it renders synchronously)
share the cache directory, the lazy stages, the batch coordinator and the
Triton client.

### What is hard

* **Interleaving.** Handler and workers meet at every lock section: pop and
  cancel, look at `_cancelled` and update, notify and wait, join and close of a
  batch, load and save of a key.
* **Order.** Results of a batch are handed out by position; the snapshot's
  files are written in one order and read in another.
* **Failure.** A render, a stage or a batch raises; a write fails; the service
  stops in the middle of a save.
* **Limits.** The queue, the pool, the synchronous slots, the batch size.
* **Liveness.** Lost wake-ups, followers that wait without a timeout, an event
  loop busy with a render.

### What makes each component correct

* *Job manager*: a job is in one place and never lost; a cancelled job is
  never rendered; a status only moves forward and a terminal one is final;
  `_running_jobs` and `_cancelled` are exact; no wake-up is lost; every
  accepted job ends.
* *Submit, cancel, admission*: a request id is an idempotency key; the queue
  is bounded; answers tell the truth; sync slots are given back; every call is
  answered.
* *Batch coordinator*: every item is served once, with its own result, in a
  batch of its own key; every call returns.
* *Preprocess cache*: a hit is complete; a key is absent or whole unless a
  save was cut off.
* *Selection*: little of what a host lacks or Triton serves keeps the service
  from starting; a usable backend is found if there is one; a fallback that is
  reported is real; start-up and debug selection agree; a lazy backend can be
  made when it is first used.
* *Pipelines*: stages run in order on values that exist and belong to this
  render; a hit makes the same picture as a miss, and after a restart only with
  the backends that made its snapshot; a fault ends the render as what it is; a
  fallback is reported.
* *Lazy resources*: created once (under the lock) or at most once per thread
  (without), and a creation that failed is tried again.

`PROJECT.json` lists the components with what is and is not modelled, the
hazards at their lines, and which lines each definition stands for.

## 2. Modules

| Module | Models | Kind |
|---|---|---|
| `JobManager` | `InMemoryRenderJobManager` | component |
| `RenderService` | event loop, routes, use cases, admission; EXTENDS `JobManager` | composition |
| `JobLifecycle` | what the asynchronous API promises about jobs | abstract specification |
| `BatchCoordinator` | `TritonStageBatchCoordinator` | component |
| `PreprocessCache` | the file-system cache and the pipeline's use of it | component |
| `BackendPolicy` | `backend_policy.py`, `backend_selector.py` | functions |
| `TritonProtocol` | Triton client, its errors, probes and serializers | functions |
| `LocalHost` | what the local models' probes and constructors ask of the host | functions |
| `BackendRegistry` | registration and description of the backends; EXTENDS the three above | functions |
| `BackendSelection` | start-up; EXTENDS `BackendRegistry` | composition |
| `DetectionBoxes` | arithmetic of the detected box | functions |
| `ServedModels` | `execute` of the models Triton serves from Python; EXTENDS `DetectionBoxes` | functions |
| `RenderPipeline` | render and debug pipeline, restarts and what the cache keeps over them; EXTENDS `BackendRegistry`, `ServedModels` | composition |
| `ModelResources` | lazy stage adapter, diffusers pipeline, native client | component |
| `OnceCell` | what a lazily created object promises | abstract specification |
| `MC*` | instances for TLC | |
| `JobManagerProofs`, `RenderServiceProofs`, `ModelResourcesProofs`, `BatchCoordinatorProofs`, `PreprocessCacheProofs`, `BackendSelectionProofs`, `RenderPipelineProofs` | theorems about the module of that name | proofs |
| `BackendRegistryProofs` | what the functions of `BackendRegistry` return, for the last two of these | lemmas |

Every component has one type invariant. `JobTypeOK` is checked and proved;
`ServiceTypeOK`, `ResourceTypeOK`, `BatchTypeOK`, `CacheTypeOK` and
`SelectionTypeOK` are proved (the first four as theorems of their own) as parts
of the inductive invariants of section 4, and no run repeats them. The
pipeline's is spread over the parts of `PipelineInv`.

The modules of functions hold what is computed in one sequential call; they have
no state, and the two compositions that extend them bring every one of their
branches to bear.

A definition whose comment begins with "Mutant" is a plausible bug in the one
after it: put in its place it must violate the property it is meant for. It is
part of no specification.

### JobManager

One action per `with self._lock` section, and one per step of a worker between
sections. `pc[w]` is the worker's line: `idle` (top of the loop), `waiting`
(asleep in `condition.wait`), `check` (job popped, `_cancelled` not looked at),
`render` (inside `work()`), `raised`/`returned`, `fail`/`complete` (before the
`update` call), `finally`. `AfterRender` and `Update` are two actions because
the code releases the lock in between. `inSubmit` holds the jobs between
`create` and `submit`, the one piece of a caller's state the manager depends on.
`job_cancel_mode` has one legal value, `pending_only` (`config.py:164`), and
`cancel` is modelled in it. Job ids are drawn from `Jobs` and not reused.
`capacity_snapshot`, timestamps and error texts are left out.

### RenderService

All routes are `async def` and call the service synchronously, in one process
(`Dockerfile.service:36` starts one uvicorn worker), so a handler runs from
its first line to its answer; `loop` is the call being handled. A handler is
nevertheless split at every lock it takes, because the workers run in between.
`at[c]` is the position of client `c`'s call: `idle`, `sent` (in the loop's
ready queue) or a section of its handler. `OneLiveJobPerRequest` rests on this
single loop: its mutant runs the routes on a thread pool and fails.
Whether asynchronous jobs are enabled and whether the manager accepts jobs are
settings of the deployment (`config.py:67` and `71`); the service starts in any
of the four combinations and, as `set_accepting` is never called, stays in it.
A call that only reads is one action. Bound: `IdsLeft` sends a submit only
while a job id is left for it.

`ImplementsLifecycle` is the refinement of `JobLifecycle`, under the identity
on `status` and `requestOf`. It is checked, and proved in section 4. Every step
of the service is one of `JobManager` or leaves its variables alone, by the form
of its actions; the lemma `ServiceUsesJobManager` says so, and hands the theorems
about `JobSpec` to the service.

### BatchCoordinator

A group is named by its leader, an item by its thread. `OpenGroup`/`JoinGroup`
are the first lock section, `CloseGroup` the end of the leader's, after its
wait: `Deadline` may happen at any time, so every window length is covered.
`Deliver` hands out one item at a time, since followers run as soon as their
own event is set. `results[l] = <<>>` is a `run_batch` that raised or returned
the wrong number of results; both take the same path. `_BatchGroup.closed` is
set in the section that deletes the group and is never seen.

### PreprocessCache

One key, since keys do not interact. A write truncates (`Open`) and then fills
(`Fill`). A file is absent, cut short or whole: renders of one key save the same
snapshot, so a whole file is a whole file whoever wrote it. `Begin` to `Leave`
is the part of the pipeline around the cache. `save` writes the foreground only
if there is one; its only caller always has one.

### BackendPolicy, TritonProtocol, LocalHost, BackendRegistry, BackendSelection

`build_runtime` is one sequential call that depends on three things: the
settings, what is installed (`LocalHost`) and what Triton answers
(`TritonProtocol`). `Registry(settings, environment)` is the list of backends of
each stage, `Component` the default chosen from it with
`resolve_active_backend`, `Described` what `describe_runtime` reports, and
`StartRaises` all that ends a start, from the import of `torch` and the making
of the service's directories to what a probe lets through. `BackendSelection`
makes a step of the start-up.

A host is its packages (absent, *broken*, i.e. found but not importable, or
present), its GPU, its directories, its model files and what cannot be loaded or
downloaded: the probes look at less than the constructors need, and a lazy
backend is not constructed before its first use. A file is there or not, or
cannot even be looked for; the bundle's config may be no JSON, or JSON that is
no object. A model on the server is in one of nine conditions
(`ServerConditions`): not there, serving as bound, with other tensor names, with
more channels, or with metadata that is no JSON, is JSON of another kind, does
not arrive, or whose connection breaks before or within its body. `RequestJson`
and the like map each thing that can go wrong in an exchange to the class of the
exception that comes out, for the JSON transport (`Translated`, and `Untranslated`
for what the client lets through) and for the native client. There a failure and
the text of its exception are two things: any failure may come with any text of
`NativeTexts`, and the text alone decides the class, as in `client.py:151-160`.
The reason texts of a fallback are a Boolean; names, device labels and details
are left out.

### DetectionBoxes, ServedModels, RenderPipeline

Pictures are their *lineage*: a value of the context is the set of all
`<<stage, request>>` that had a part in it. That is enough to say that a picture
is made by the right stages, from the right values, of the right request, and
never of a neighbour in a Triton batch (request 0). One action is one stage: the
choice of its backend, its call, the runner's normalisation of its exception and
the assignment of its value. `Outcomes` is what can come of calling a backend,
and is computed from the functions below it: for Triton, every failure on the
wire, and every layout of the answer (`Answered`, `HandOut`) for every number of
renders and every place in the batch; for the detectors, every box the network
may answer, also beyond the picture, on one axis of the picture (both are
treated alike). The ways a box goes from the network to `prepare_working_crop`
differ per detector, and only one of them lets a box without an area through.
The interleaving of threads is not here but in `BatchCoordinator` and
`PreprocessCache`; the debug pipeline shares the stages but not the cache.

What nothing catches ends a request as "raw" (`RaisesRaw`): the look-up of a
snapshot that another thread is writing, that a crash cut off or that is damaged
(`cache_race` shows how one comes about), a save that cannot write, a picture
that cannot be encoded, and the previews of a debug run that are encoded or drawn
outside the runner's try (`Drawn`).

`Restart` ends the process at any moment and starts it again as any deployment
that starts; the snapshots are all that is left. A snapshot's key has the
runtime's `signature` (name, kind, variant and `model_version` of each default)
in it, and `under` remembers which runtime each request ran on, so that
`AnswerIsOfThisRuntime` can compare what made a picture's parts with what would
make them now. Two backends have a version that settings or files decide
(`ModelVersion`): Stable Normal's is a setting, the diffusion shadow's is in the
bundle's config. The signature has nothing of settings such as the detector's
prompt, nor of the weights themselves, and neither has the model.

`rmbg-2.0` is constructed without a batcher (`container.py`, the segmenter's
registration); the model lets it batch, which allows more than the code does.

### ModelResources, OnceCell

`LazyStageAdapter._get_delegate` line by line (test, lock, test, factory, label,
unlock, the read of the return), then the look, creation and keeping of what has
no lock: the diffusers pipeline of `v2_diff.py` and the native Triton client.
Each creation may raise. `AdapterIsOnceCell` is the refinement of `OnceCell`,
with the adapter's `_delegate` as the cell: created at most once, every use gets
that one, a failure leaves it to the next.

## 3. Runs

| Run | Instance | Shows |
|---|---|---|
| `jobs_safety` | 4 jobs, 2 requests, 2 workers; symmetric | the safety of the job manager, `StatusMovesForward` |
| `service_safety` | 3 jobs, 1 request id, 2 workers, 2 clients, queue of 1; symmetric | idempotency, bounded queue, truthful answers, exact sync counter, refinement; 1.2 million states |
| `service_live` | 2 jobs, 1 worker, 2 clients | `EveryCallAnswered`, `AcceptedJobEnds`, `CancelMarksGo` |
| `batch` | 3 threads, two batched keys and a plain one, `max_size` 2 | every item once, own result, a leader of its key; `EveryCallReturns` |
| `cache_safety` | 3 renders, 2 faults; symmetric | complete hits, whole keys |
| `selection` | every setting of one stage at a time, all conditions of its models, hosts that lack or break one thing; 32 thousand states | start-up fails only by the faults it does not catch, true fallbacks, mock as last resort, lazy backends can be made, both selections agree |
| `pipeline` | 2 requests of 11 kinds in 7 deployments, with restarts from any to any, batches of up to 4, pictures of 3 by 5 pixels; 1.6 million states | inputs present, no part of a neighbour's, pictures of this image and of this runtime, hits like misses, faults as what they are, a late render leaves its snapshot, fallbacks warned, debug lists |
| `resources` | 3 threads, 2 calls each, 1 creation that raises | refinement of `OnceCell`, bounded creations, `EveryUseEnds` |
| `sync_blocks` | violation | POST /v1/render waits behind another instead of being refused |
| `cache_race` | violation | a load raises on a half-saved key |
| `hidden_fallback` | violation | Triton is asked for, a local estimator runs, and no fallback is reported |
| `probe_channels` | violation | a model with other channels than its binding is taken for ready |

Bounds. Two workers show every race between workers; four jobs fill both and
leave two in the queue, so that a cancelled entry can sit before, behind or
between live ones. Two clients are enough for the service because one handler
runs at a time: one in a handler, one waiting; one request id makes all submits
with an id collide, and three jobs allow original, dead and repeated job. A
queue of one is full after one submit. Three threads and `max_size` 2 give full,
short and overfull groups and two groups at a time. Three renders allow a
reader while two savers overlap; two faults, a second fault in the repair of
the first. Selection treats each stage by itself, so the instance varies one
stage and leaves the others at their defaults; the conditions of the second
model of a stage are fewer, since the first has met the rest. Two requests are
a miss and its hit, in one life of the service or across a restart, or a failed
render and its retry; the seven deployments reach each kind of backend of each
stage and both transports, and two of them differ in nothing but the version of
the normals' model; the batches of up
to 4 include one as long as an image has channels (3), the length that can hide
a missing batch dimension, and shorter and longer ones; 3 pixels have an inside and two edges, and 5 make a letterbox.
Three threads meet at each step of the lazy adapter (one in the lock, one before
it, one past it).

Symmetry is used by safety runs only. `CHECK_DEADLOCK` is off in `jobs_safety`,
`selection`, `pipeline` and `resources`, whose instances stop when their bounded
numbers of job ids, starts, requests and calls are used up; everywhere else
deadlock is checked.

The violations are findings: `PROJECT.json` quotes the line each contradicts.
`cache_race` is a defect of the code; the others are statements of documents the
code does not follow.

Facts met on the way that contradict no stated intent, and have no run of their
own: `pending_jobs` counts cancelled entries, so that a queue of dead jobs
refuses a submit until a worker has popped them; a batch can be larger than
`max_size` when more threads than that can meet (with the defaults, two workers,
the event loop and `max_size` 4, they cannot); a key whose save was cut off is
never repaired, since its hit raises before anything is saved; the debug schema
offers a mock composer that is not registered, so that asking for one fails the
stage; the settings take any name as the shadow's variant, and with one that
does not exist a request for a local shadow falls back to the mock where the GAN
could run (the proof of `MocksAreLastResort` came upon it, and has the two names
as its hypothesis); a box without an area ends a render with a plain `ZeroDivisionError`, and
errors of the cache's files and of the encoder end it as they are
(`RawFaultsAreKnown` says exactly where); a start ends with a bare exception when
a directory cannot be made, when a model file cannot be looked for, when the
bundle's config or a model's metadata is JSON of another kind, or when the
connection of a metadata request breaks (`OnlyRawFaultsStopStartup` has the
list); the native client calls a failure a timeout by the word in its message, so
that a read that "timed out" is answered `processing_failed` and a refused
connection with "timeout" in its message is answered `timeout`
(`TimeoutsAreTimeouts` says what holds of either transport); a mock replaced by
another mock, an unknown name for the normals' model and normals from depth in
place of Triton's are not reported as fallbacks (the exceptions named in
`FallbacksAreWarned`, the last being the finding `hidden_fallback`); an answer without a batch dimension is
accepted for a single render and refused for a batch of several; the container
imports `torch` through the ONNX detector, so that the mock mode needs it too.

### Fairness

* `WF` of each worker's steps: operating-system threads are scheduled, the lock
  is released after a few lines, and a render ends, since its Triton calls have
  timeouts and its local models terminate.
* `WF` of each handler's steps: the loop's thread is scheduled, too. That a job
  which was created is submitted follows from it.
* `SF` of taking up a call: the loop's ready queue is FIFO, so a call is taken
  up however often others come in between. `SlowSyncSpec` leaves out the
  assumption that a synchronous render ends.
* `WF` of each batching thread's steps: time passes, and a Triton call ends.
  Nothing forces a thread to call `execute`.
* `WF` of each thread's steps in `ModelResources`: threads are scheduled, and a
  factory returns or raises. The adapter's lock is not fair and need not be: it
  is held only until one creation has succeeded. Nothing forces a call.

## 4. Proofs

TLAPS proves every safety property that a passing run checks, both refinements
and the one action property, for every value of the constants that the
assumptions admit. Each theorem below is `Spec => []Property` (or the property
itself, when it is temporal).

| Theorem | Property |
|---|---|
| **`JobManagerProofs`** | |
| `JobTypeCorrect` | `JobTypeOK` |
| `JobsAreNeitherSharedNorLost` | `OneHolder`, `NoJobLost` |
| `CancelIsEffective` | `CancelledNeverRendered` |
| `CancelMarksDoNotLeak` | `CancelMarksConsumed` |
| `CountsAndWakeups` | `RunningCounted`, `NoLostWakeup` |
| `RunningIsBounded` | `RunningBounded`, which no run checks: it follows from `NoJobLost` and `OneHolder` |
| `StatusesMoveForward` | `StatusMovesForward` |
| **`RenderServiceProofs`** | |
| `ServiceTypeCorrect` | `ServiceTypeOK` |
| `JobsAreSafeInService` | `OneHolder`, `NoJobLost`, `CancelledNeverRendered`, `StatusMovesForward`, now of the service |
| `RequestsAreIdempotent` | `OneLiveJobPerRequest` |
| `QueueIsBounded` | `QueueBounded` |
| `CancelAnswersTruthfully` | `CancelNeverAnswersPending` |
| `SyncIsCounted` | `SyncCounted` |
| `ServiceImplementsLifecycle` | `ImplementsLifecycle` (refinement of `JobLifecycle`) |
| **`ModelResourcesProofs`** | |
| `ResourceTypeCorrect` | `ResourceTypeOK` |
| `AdapterImplementsOnceCell` | `AdapterIsOnceCell` (refinement of `OnceCell`) |
| `CreationsBounded` | `CreationsAreBounded` |
| **`BatchCoordinatorProofs`** | |
| `BatchTypeCorrect` | `BatchTypeOK` |
| `EveryWaiterHasOneLeader` | `ServedByOneLeader` |
| `CallsGetTheirOwn` | `OwnOutcome` |
| `NothingUnsetReturned` | `NeverReturnsUnset` |
| **`PreprocessCacheProofs`** | |
| `CacheTypeCorrect` | `CacheTypeOK` |
| `HitsAreComplete` | `HitIsComplete` |
| `QuiescentKeysAreWhole` | `QuiescentKeyIsWhole` |
| **`BackendSelectionProofs`** | |
| `RawFaultsOnly` | `OnlyRawFaultsStopStartup` |
| `FallbackReasonsAreTrue` | `FallbackReasonIsTrue` |
| `MocksAreLastResort` | `MockIsLastResort`, if the settings name one of the two shadow variants |
| `LazyBackendsCanBeMade` | `LazyBackendCanBeMade` |
| `DebugAndStartupAgree` | `DebugAgreesWithDefault` |
| **`RenderPipelineProofs`** | |
| `NothingIsMissing` | `InputsPresent` |
| `NothingOfOthers` | `OwnSample` |
| `AnswersAreOfTheirImage` | `AnswerIsOfThisImage` |
| `AnswersAreOfTheirRuntime` | `AnswerIsOfThisRuntime` |
| `HitsLookLikeMisses` | `HitLooksLikeMiss` |
| `RawFaultsOfRuns` | `RawFaultsAreKnown` |
| `TimeoutsAreRight` | `TimeoutsAreTimeouts` |
| `FallbacksAreTold` | `FallbacksAreWarned` |
| `DebugListsAreTrue` | `DebugListsWhatRan` |

### Assumptions

Only those the modules declare, each of which TLC evaluates in a run:
finitely many workers and threads (`WorkersAssumption`, `ThreadsAssumption`;
the counts need it); markers such as `NoJob` that are no member of the set they
stand beside, and ids that are no status word; bounds that are natural
numbers, the sizes of queue, batch and picture positive, as `config.py` has
them; `BatchedAssumption` (batched keys are keys). `WorldsAssumption` and
`DeploymentsAssumption` say that settings are such as `Settings.__post_init__`
lets through (`ValidSettings`) and environments such as a host and a server can
be (`PossibleEnvironments`); `RequestsAssumption`, that requests are such as the
schemas let in. The runs check some dozens of these deployments; the theorems
hold for all of them, and that is what they add most. What a Triton call is
shared by in `RenderPipeline` is bounded by `MaxBatch`, a constant of any value.
Two bounds are part of the model and hold in the theorems, too: the server
brings at most one other call to either side of this one (`OtherCalls`), and a
network's boxes end within a margin around the picture (`Network`).

### The inductive invariants

TLC checked each of them on the runs' instances before it was proved.

**`JobInv`.** The safety properties are not
inductive by themselves: that a worker which finds no mark may render needs to
know that a popped job is running *or* cancelled and marked (`PlaceStatus`),
which needs the same of queued jobs, which in turn needs that a job is in one
place only (`OneHolder`); and a worker in its `finally` block must hold a
terminal job, or `NoJobLost` would break when it lets go. There is one lemma per
action (`CreateInv`, ..., `FinallyInv`); those about the queue rest on `AppendIn`
and `TailIn`. The counter and the wake-ups have an invariant of their own
(`CountInv`), which needs cardinalities of finite sets and little of `JobInv`.
`RunningIsBounded` maps running jobs injectively to the workers that hold them.

**`ServiceInv`** is `JobInv` and what a handler may rely on between its lock
sections: one handler runs at a time (`OneHandler`), and at a line of its own
call (`HandlerOfCall`). From this follow the facts that a check of an earlier
section still holds in a later one, although the workers go on in between:
nobody else creates a job for the request that was looked up
(`LookupStillTrue`), nobody else fills the queue (`AdmissionStillTrue`), and a
job that a cancel was applied to is not pending again (`CancelStillTrue`).
`OneLiveJobPerRequest` is the index (`LiveJobIndexed`: the entry of a request is
its live job) together with the first of these. `SyncTracked` says who is
counted; the bound on all renders then takes `CountInv` from the job manager,
to which the lemma `ServiceUsesJobManager` carries the service. The refinement of `JobLifecycle` takes
one step for each step of the manager and none for those of the handlers.

**`AdapterInv`** is mutual exclusion (`LockHeld`) and what the second test under
the lock makes true (`StageKnown`): the factory runs only while there is no
stage, and who has left it leaves with one. `CreationsAreBounded` is about what
has no lock, and has an invariant of another kind (`CreationsLeft`): until
something is kept all that was made is in the hands of its makers, and from then
on those that are at it are all that can still come.

**`BatchInv`** follows a waiting thread: `ServedByOneLeader` needs that it has a
place with a leader (`WaitersAwaited`), not two (`OnePlace`), and that the group
is of its key (`SameKey`, by `OpenGroupsLead`: an open group of a key is led by
a thread that waits in it). `OwnOutcome` needs that a leader's own item is the
first of its batch and that it hands out results of that batch and no other
(`LeaderFirst`, `NothingHandedOut`): the position of a result is all that says
whose it is.

**`CacheInv`** uses the orders in which a snapshot is written and read. Files come
into being in the order of saving (`PrefixSaved`, `SavedSoFar`), so the one
that a load looks for says that all others are there; `RestoredSoFar` and
`AtFirstFile` follow a load through its files. Without a fault a file that is
not whole yet has a save at it or before it (`SavesGoOn`), so none is left when
nobody saves.

**`SelectionInv`** says that the runtime is what `build_runtime` makes of these
settings and this environment (`RuntimeIsBuilt`), and that a failed start is one
that raised (`FailuresAreRaised`), so that the invariants become
statements about functions, which the lemmas of `BackendRegistryProofs` and
`BackendSelectionProofs` make: the candidates of a stage and their order, what is
registered under which id, that some candidate of every stage can be called.

**`PipelineInv`** has one part per concern, and a lemma `...Next` that every step
keeps it:

* `RuntimeMade`: which backends can be called, after every restart too. No stage
  of the public pipeline is without one (`PublicBackend`).
* `ControlOK`: the steps a request may be at, and that it runs on the runtime it
  arrived at.
* `LineageOK`, `CacheOK`: all values are of renders of the current cache key, the
  signature of the runtime they ran on included (`KeyOf`). A hit brings in an
  earlier render's, so it has to be said of the cache too. That
  a Triton call brings in no neighbour's is `HandedIsOwn`, by the cases of the
  layouts of an answer.
* `RunOrder`: which stages have made what is in the context, at each line of the
  two pipelines (`MadeBy`), and that a snapshot has everything up to the
  normals. `InputsPresent` and `HitLooksLikeMiss` read it off.
* `MadeNow`: shadow and composition are never from a snapshot.
* `TimeoutsInv`: from the shadow stage on the snapshot is there (`SavedByNow`).
* `BoxesInv`: a bad box is one without an area and from Triton's plain detector
  (`BadBoxOfServed`), and a raw end is one of the places `RaisesRaw` names
  (`EndsRaw`). Below it are facts about numbers: that the clamps of the
  other detectors leave an area, whatever the network says (`ClampedHasArea`),
  and that the box of a mask has one (`MaskHasArea`).
* `WarnedInv`: the warnings of the runtime are kept until the answer, and the one
  about the request's shadow model is added where its stage ran. That a default
  which is no fallback is what was preferred, but for the named exceptions, is
  `FirstDefault`.
* `ListInv`: what is listed has run, and its mark is still there
  (`ListedSoFar`), although the refined cutout replaces the segmenter's.

### Only model-checked

Liveness: `EveryCallAnswered`, `AcceptedJobEnds`, `CancelMarksGo`,
`EveryCallReturns`, `EveryUseEnds`. It rests on fairness and therefore on
ENABLED, which the installed provers cannot reason about. Induction over data is
beyond them too, and not needed: the sequences of the model that a proof must
look into are bounded by the code (nine stages, four candidates, seven files),
and the others are used by their elements or indexes only.

## 5. Not modelled

* Pixel arithmetic, encoding and the neural networks: an operation that ends
  with a value or an exception. Which of several candidates a detector takes
  depends on scores; here any may win.
* The conversions of schemas and mappers, apart from what the debug schema lets
  in; the parsing of settings; metrics, low-confidence warnings and all texts.
* `initialize` of the models Triton serves, and the per-process memos of loaded
  local models, by which a second stage need not load again.
* The debug routes as calls of `RenderService`: they would occupy the loop as a
  synchronous render does, without admission. What they do is in
  `RenderPipeline`.
* The playground, the development switch and the tools, which have no part in
  serving a render.
* A restart of the service loses all jobs; `JobManager` is one life of the
  process. `RenderPipeline` and `PreprocessCache` have restarts.
* Settings and weights that change a backend's results under the same version:
  the signature does not see them either.

## 6. Plan

What the project does not have yet, in this order:

1. Lemmas and theorems about the service as a whole: a job's render is a run of
   `RenderPipeline` whose Triton calls are those of `BatchCoordinator`; that the
   three fit is argued in section 2 and not stated as a formula.
2. The debug routes in `RenderService`.
3. The memos of loaded local models, shared by stages, in `ModelResources`.
