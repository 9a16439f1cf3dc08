# Orbit: formal models

TLA+ models, TLC configurations and TLAPS proofs for the `orbit` workspace: an
openEO server written in Rust (`apps/orbit-openeo`), a gRPC ETL server
(`apps/orbit-server`, `crates/orbit-etl`), and the crates under them.
`PROJECT.json` is the machine-readable index: components, runs, the map from
definitions to source lines, hazards, findings, theorems.

Run a model with `tlc -config <X>.cfg <Module>`, a proof with `tlapm <Module>.tla`.

## 1. Inventory

| component | state | operations | talks to |
|---|---|---|---|
| **Batch-job service** `routes/jobs.rs`, `job_registry.rs` | the registry (job id -> supervisor handle and cancel `Notify`), the permit semaphore | POST/GET/PATCH/DELETE `/jobs`, POST/DELETE/GET `/jobs/{id}/results`, one supervisor task per accepted start, `drain` at shutdown | job store, file store, event bus, runner |
| **Job runner** `runner.rs` | its position only | `run_job`: Queued, Running, 10 %, executor under a timeout, 80 %, put, add_asset, 95 %, Finished, 100 %, or Error | job store, file store, executor, event bus |
| **Job store** `job_store.rs` | job records, in memory or in SQLite | create, get, list, patch, delete, set_status, set_progress, add_asset, append_log, recover_orphans | - |
| **File store** `file_store.rs`, `routes/files.rs` | objects by scope and path, in memory or on disk | put, get, delete, list | - |
| **Event bus** `event_bus.rs` | a broadcast channel | publish, subscribe | runner |
| **Server process** `main.rs`, `lib.rs`, `state.rs` | - | start (orphan recovery before the listener is bound), serve, graceful shutdown with drain | all of the above |
| **ETL engine** `crates/orbit-etl` | map of job statuses, map of cancel flags, table `orbit_jobs`, destination tables, one bounded event channel per pipeline | `run`, `cancel_job`, `status`, `list`, the spawned pipeline task | SQLite, DataFusion, gRPC clients |
| **Circuit breaker and retry** `crates/orbit-resilience` | breaker state, atomic failure counter, time of opening | `try_acquire`, `record_success`, `record_failure`, `RetryPolicy::delay_for_attempt` | any remote call |
| **STAC search and catalogs** `geo_executor/stac.rs`, `catalog.rs`, `eo-catalog`, `url_policy.rs` | attempt counter of one search | one POST with retries and a limit, scenes from features, in-memory search, signing | HTTP, URL policy |
| **COG download** `orbit-geo` (`async_download.rs`, `providers.rs`), `geo_executor/download.rs`, `eo-io/vsi.rs` | pool of S3 clients by bucket and region | open, decide the CRS, cut the window, fetch tiles, stitch; fall back to GDAL | HTTP, S3, GDAL |
| **File cache** `crates/orbit-cache`, `orbit-geo/cache.rs` | index by key, files on disk, access times | open, get, insert, evict, clear | executor |
| **Asset tools and openEO client** `orbit-geo` (`gdal_utils.rs`, `stac.rs`, `openeo.rs`), `eo-io/atomic.rs` | files in a directory; a job at another backend | warp, convert, download to a temporary name and rename; create, start, poll, download, delete a remote job | GDAL tools, HTTP |
| **Graph executor** `executor.rs`, `geo_executor/` | values of evaluated nodes per evaluation; shared by all: scratch directory, download permits | evaluate nodes in order, callbacks, download, mask and reduce processes | STAC, COG download, cubes |
| **Process-graph analysis** `process_graph.rs`, `process_graph_ir.rs`, `routes/validation.rs` | - (pure) | parse, links, cycle check, evaluation order, unsupported processes | executor, job creation |
| **Processes** `geo_executor/` (`sub_graph`, `registry`, `eval_*`), `data_cube.rs`, `eo-vector`, `orbit-geo/ml.rs` | - (pure, or one file to another) | apply, reduce_dimension, the scalar, logical and array processes, cube operations, zones and classifiers | executor, raster engine |
| **Raster engine** `orbit-geo` (`builder`, `dataset`, `block`, `processing`, `writer`, `composition`, `sampling`), `eo-core`, `eo-kernel`, `chunk_plan.rs`, `alignment.rs`, `block_executor.rs` | open datasets, files being written; the block executor's permits, memory budget and cancel flag | cut a raster into blocks, map, read, compute, write, overviews; run blocks in parallel | GDAL |
| **Pixel rules** `eo-mask`, `orbit-geo/cloud_mask.rs`, `eval_mask.rs` | - (pure) | decode SCL and Landsat QA, mask, NDVI composites, PNG scaling, output types | raster engine |
| **Credentials** `auth/`, `auth_layer.rs`, `security.rs`, `routes/credentials.rs` | issued tokens, device codes | basic login, device-code start / approve / poll, middleware | all routes |
| **Requests, discovery** `routes/` | user-defined processes | path checks, body checks, validation, listings | stores |
| **Configuration and observability** `orbit-config`, `orbit-observability` | counters and histograms | load the layers, increment, observe, render | - |
| **gRPC server and CLI** `apps/orbit-server`, `apps/orbit-cli` | a second bounded channel and the response stream | `run_pipeline`, `orbit etl run` | ETL engine |
| **API-diff tool** `tools/api-diff` | - (pure) | collect public items of two trees, compare | - |

What is hard, and where: two requests on the same job between one handler's read
and its write (`routes/jobs.rs`); the supervisor of one run touching the registry
entry of the next; `abort()` of a task that is in the middle of a store write;
store calls that fail between two steps that belong together; a crash after any
step and what a restart repairs; permits and registry entries on every exit path;
a bounded event channel whose reader is slow or gone; a cancel flag polled only
between batches; batches of two pipelines interleaving on one UNIQUE index;
evaluations that write to one scratch directory, and download closures that
outlive them; results that arrive after the circuit tripped; a cache insert
overtaken by an eviction; files half written when the process dies; transactions
that read first and write later; blocks that go on after their call has returned;
windows and blocks at the edges of pixels, tiles and images; callbacks whose
evaluators must agree on every pixel, the missing ones included.
`PROJECT.json`/`hazards` lists each one at its line.

What makes the components correct: a job's status never claims what its stored
assets do not back; permits are neither leaked nor duplicated; a job in progress
always has somebody working on it and ends; a deleted job stays deleted; a
pipeline reported completed is loaded completely and is still reported completed
after a crash; an outcome is final; a cancelled pipeline stops within a batch; a
graph's answer is computed from the windows it asked for, and download permits
survive every failure; an acknowledged write is found again; a token was earned
and is not expired; what a command reports is what the engine recorded; every
pixel is computed once and lands where it belongs; a cube's description is true
of its files; no file under a final name is partial.

## 2. Modules

| module | role |
|---|---|
| `JobService` | batch-job service, runner, store, registry, semaphore, process life cycle |
| `JobLifecycle` | abstract specification: a job's status and whether its results can be fetched; `JobService!Servable` maps record, asset entry and stored bytes to the latter |
| `MCJobService` | TLC instance of `JobService` (symmetry set) |
| `JobServiceProofs` | theorems about `JobService` |
| `EtlEngine` | ETL engine, its task, channel, tables, cancel, crash |
| `MCEtlEngine` | TLC instance of `EtlEngine` (the frames) |
| `EtlEngineProofs` | theorems about `EtlEngine` |
| `GeoExecutor` | graph executor: evaluations side by side, downloads, raster processes, scratch directory |
| `MCGeoExecutor` | TLC instances of `GeoExecutor` (graphs, scenes) |
| `GeoExecutorProofs` | theorems about `GeoExecutor` |
| `CircuitBreaker` | the breaker of `orbit-resilience` under concurrent callers |
| `StacSearch`, `UrlPolicy` | one STAC search with its retries, scenes and host checks |
| `Catalogs` | in-memory search, item helpers, collections, signing (questions and answers) |
| `MCClients`, `ClientProofs` | TLC instance of the four above; theorems about them |
| `Orderings`, `OrderingProofs` | sorting and filtering, as `StacSearch`, `Catalogs` and `CubeOps` use them, and what they return |
| `FileCache` | the file cache under concurrent fetches and restarts |
| `WindowDownload` | the three downloaders and the shared S3 clients |
| `AssetFiles` | the tools that put files in place, and crashes |
| `OpenEoClient` | submit, poll, fetch and delete a job at another backend; writes through `AssetFiles` |
| `MCDownloads`, `DownloadProofs` | TLC instance of the four above; theorems about them |
| `Fractions` | exact fractions with NA, the numbers of the process modules |
| `Callbacks`, `ScalarProcesses` | the callback evaluators; the registry's scalar, logical and array processes |
| `GraphAnalysis` | parsing, links, order, submission checks, local executor, typed IR |
| `CubeOps`, `Zonal` | chains of cube operations; polygons, zones and classifiers |
| `MCProcesses` | TLC instance of the process modules |
| `RasterGrid`, `PixelRules` | blocks, mappings, joins, plans and alignment; quality codes and pixel formats (questions and answers) |
| `RasterRun` | one block-parallel call of a dataset |
| `BlockExecutor` | `run_blocks`: permits, memory budget, cancel, progress |
| `MCRasters`, `RasterProofs` | TLC instance of the raster modules; theorems about `RasterRun`, `BlockExecutor` and `CubeOps` |
| `JobRecords` | both job stores, call by call |
| `Access`, `Requests` | credentials and middleware; file stores, user processes, body checks |
| `Operations`, `ApiDiff` | routes, metrics, configuration; the API-diff tool |
| `EtlRemote` | `orbit etl run` over the gRPC server |
| `MCApi`, `ApiProofs` | TLC instance of the API modules; theorems about `Access`, `Requests`, `EtlRemote` and `JobRecords` |

`MCClients`, `MCDownloads`, `MCProcesses`, `MCRasters` and `MCApi` put together
modules that share no state, and a behaviour explores one of them while the others
rest: the product of independent components has no states of interest beyond
those of its factors. Where components do share state they are composed:
`OpenEoClient` writes through the files of `AssetFiles`, `StacSearch` asks
`UrlPolicy` before it sends, `GeoExecutor` walks a graph that the analysis has
ordered, `RasterRun` cuts its rasters with `RasterGrid`.

Definitions keep the source's names. An operator marked "Faulty variant" is not
part of a specification: it is a plausible bug of the operator that follows it,
and `PROJECT.json`/`mutants` says which property notices it.

### JobService

One action is one call on shared state (store, file store, registry, semaphore)
with what follows it until the next such call; the runtime is multi-threaded, so
every interleaving of these is possible.

| TLA+ | code |
|---|---|
| `status`, `progress`, `assets` | the job's record; `"none"`/`"deleted"` mean no record |
| `bytes` | the object under `<job id>/<asset name>`: the run that wrote it, or `Uploaded`/`Erased` when a client put or deleted `/files/<job id>/<asset name>`, which is the same object |
| `registry`, `permits` | `JobRegistry`'s map; free permits of `job_sem` |
| `hpc` | a POST `/jobs/{id}/results` request inside `start_processing` |
| `spc` | the supervisor task that request spawned (owns the permit from `"spawn"` on) |
| `rpc` | the `run_job` task the supervisor spawned |
| `notified`, `aborted` | a permit stored in the run's `Notify`; `abort()` was called |
| `dpc` | a DELETE `/jobs/{id}/results` request inside `discard_results` |
| `phase`, `draining`, `restarts` | serving, shutting down, draining; crash and restart |
| `create_job`, `delete_job` | the handlers of the same name (one store call each) |
| `upload_file`, `delete_file` | PUT and DELETE `/files/{job_id}/{asset}`, for the jobs in `Touched` |
| `StartGet`, `StartAdmit`, `StartQueueFull`, `StartRegister` | `start_processing` |
| `DiscardGet`, `DiscardCancel`, `DiscardSet` | `discard_results`; `was_active` is the read in `DiscardGet` |
| `Supervisor*` | the spawned async block: `select!` of join and cancel, then deregister |
| `Runner*` | `run_job`, one action per store call |
| `Restart`, `Crash`, `ShutdownSignal`, `DrainStart`, `DrainEnd` | `main` and `drain` |

Store calls return NotFound for an absent record, and any of them may fail when
`StoreFaults` holds. A runner's put can also fail because a client has made a
directory of the asset's name. Aborting is modelled as tokio does it: an aborted task may
go on until it yields, and a write already handed to SQLite completes.

### EtlEngine

| TLA+ | code |
|---|---|
| `memState`, `memRows` | the entry in `Engine::jobs`, what `status` answers first |
| `dbState`, `dbRows` | the row of `orbit_jobs`, what `list` answers |
| `cancels` | the pipeline's `AtomicBool` in `Engine::cancels` |
| `table`, `mode` | the destination table and whether it was created with UNIQUE |
| `pc`, `at`, `written` | the spawned task: next await, `chunk_start`, `rows_written` |
| `channel`, `stream`, `heard` | the mpsc channel of capacity 32, the receiver, the last event received |
| `overrun` | history variable: batches inserted after `cancel_job` returned true |
| `run`, `cancel_job` | the methods of the same name |
| `mark_*`, `bump_progress`, `insert_chunk`, `ensure_table`, `read_source`, `send` | the helpers of the same name |
| `Loop`, `CheckCancelled`, `EndExecute` | the control of `execute` and of the spawned block |
| `QueryReturns`, `QueryTimeout` | `run_blocking_with_timeout` around the DataFusion query |

### GeoExecutor

| TLA+ | code |
|---|---|
| `phase`, `cur` | where `run_sync` of an evaluation stands and the node whose handler runs |
| `graph`, `memo` | the process graph; the memo map of `evaluate`, a cube being band -> paths by scene |
| `scenes`, `task` | the search result of `load_collection` and the state of its `FuturesUnordered` entries |
| `permits` | free permits of `download_sem`; a fetch in state `"writing"` is a `spawn_blocking` closure that owns one |
| `made`, `open`, `via` | the raster process that runs: completed outputs, the one created but not completed, resampled SCL paths |
| `disk` | the scratch directory: file name (by template) -> what its pixels are, and their grid |
| `result` | the bytes answered |
| `want`, `disturbed` | history: the contents every cube should have; whether a file was written by another writer, overwritten while in use, or found on disk |
| `run_sync`, `evaluate`, `finalise_save_result` | the methods of the same name |
| `search`, `fetch*`, `next_fetched`, `load_ends` | `eval_load_collection` and `fetch_with_cache_async_with_meta` |
| `resample_scl_to_data_grid`, `gdalwarp` | the function of that name; its subprocess |
| `writer_create`, `apply_reduction`, `compute_ends` | the file loops of `eval_ndvi`, `eval_mask`, `eval_mask_from_values`, `eval_mask_scl_dilation` |
| `drop` | the future is dropped at an await: job timeout, cancel, client gone |

Pixels are terms: `<<"ndvi", red, nir>>` is the NDVI of two crops. Two cubes are
equal exactly when they were computed the same way from the same windows, which
is what the properties need. A handler that decodes a value that is not a cube
gets a cube without bands. Any topological order and any order of the output
loops is allowed; the code takes one of each. A band list is a set (a name given
twice would fetch one file twice).

### Clients: CircuitBreaker, StacSearch, Catalogs

| TLA+ | code |
|---|---|
| `state`, `opened_at` | `CircuitInner` under its mutex; the time is kept as the time since opening, capped at the cooldown |
| `consecutive_failures`, `prev` | the atomic counter, which is touched **before** the lock is taken, and the count a failing caller saw |
| `call` | where a caller stands: `record_*` and `*_locked` are the two steps of one method |
| `target`, `phase`, `attempt`, `sent`, `waited` | the retry loop of `StacSearcher::search`: check the URL, send, sleep |
| `scenes` | the answer, built by the two loops over assets as the code builds it |
| `question`, `answer` | one call of a pure function of a catalog and what it returned |

### Downloads: WindowDownload, FileCache, AssetFiles, OpenEoClient

| TLA+ | code |
|---|---|
| `req`, `at`, `client`, `pool`, `file` | a download, its position, its S3 client, the pool behind `shared_s3_for`, the file written; coordinates are in thousandths of a pixel so that the code's epsilons count |
| `index`, `disk` | the cache's map and its directory |
| `pc`, `url`, `crop`, `size` | `fetch_with_cache`: look up, download, and `insert` in its four steps (copy, measure, index, evict) |
| `torn`, `rescanned` | history: removed during an insert; nothing evicted since the cache was opened |
| `order`, `stage`, `dir`, `body` | a tool's order and position; names to inodes; inodes to contents. A rename moves a name, a crash keeps inodes as they are |
| `doing`, `remote`, `elapsed`, `left`, `paths` | `submit_and_download`: its position, the remote job, the time polled, what is still to fetch, what is returned |

### Processes: Callbacks, ScalarProcesses, GraphAnalysis, CubeOps, Zonal

These are functions of the code as functions of TLA+: a question is a small graph,
pixel stack, array, ring or JSON body, and the answer is compared with a reference
definition written without the code's loops. Pixels are exact fractions or NA, and
libm is an arbitrary function `Fn` of its operands, so two evaluators agree only if
they apply the same operation to the same operands. The tolerances of the code
(1e-9 for `eq`, the smallest span of `linear_scale_range`) are the constant
`TOLERANCE`, large enough in the run to tell the evaluators apart. In `CubeOps` `value` is the
cube after `steps` processes; a file is described by what its pixels stem from
(acquisitions, bands, conversions to physical units, area, projection), and `mixed`
and `shown` record merges of unlike cubes and what callbacks were given.

### Rasters: RasterGrid, RasterRun, BlockExecutor, PixelRules

| TLA+ | code |
|---|---|
| `job`, `phase`, `todo`, `work` | a call of `apply*` on a dataset: the blocks not taken, per thread the block it works on and its step |
| `opened`, `failed`, `output`, `overviews` | the probe, the first error, the pixels as the open dataset has them, what the overviews were built from |
| `disk`, `unflushed`, `cogs` | the pixels in the file once the dataset was dropped, those the drop could not flush, the Cloud-Optimized copy |
| `caller`, `next`, `task` | `run_blocks` and its tasks on the blocking pool |
| `cur`, `used` | a worker's compare-and-swap loop on the budget: the value it compares with, the counter |
| `cancelled`, `done`, `progress`, `outcome` | the flag, the counter of finished blocks, the reports, the answer |

### API: JobRecords, Access, Requests, Operations, ApiDiff, EtlRemote

| TLA+ | code |
|---|---|
| `backend`, `table`, `logs` | the store in use; the rows; the second map, or the `logs` column |
| `calls`, `commits`, `writer` | a call in the middle: between two mutexes, or in a SQLite transaction with the snapshot it read |
| `acked`, `raced` | history: the calls answered Ok; appends past their check when the job was deleted |
| `policy`, `now`, `tokens`, `sessions` | `AppState::auth`, the clock, `TokenStore`, `DeviceCodeStore` |
| `mem`, `disk`, `made`, `refused` | the two file stores, given the same requests; on disk a key is a path, `made` are the files it ever held (their directories stay), `refused` what it could not put |
| `udps`, `handled` | user-defined processes; how many requests were handled |
| `task`, `outcome`, `recorded`, `events` | the engine's side of a pipeline, as `EtlEngine` has it, reduced to its record and its channel |
| `stream`, `link`, `cli`, `shown` | the server's channel and response stream, the connection, the command, the last event it showed |

`Operations` and `ApiDiff`, the header and path rules of `Access` and `Requests`,
and the calendar of `job_store.rs` are functions, asked one question each.

## 3. Runs

| run | instance | what it shows |
|---|---|---|
| `job_faults` | 1 job, 2 starts, 1 cancel, delete, 1 permit, every store call may fail | permits, concurrency cap, servable results, finality of deletion, end of every accepted run |
| `job_settles` | 2 concurrent starts, panics, timeouts, a crash or shutdown | no job stays in progress without a task; it leaves that state |
| `job_serial` | 3 starts one after another, delete, a restart | refinement of `JobLifecycle`; a settled job's record is stable; a finished job was announced |
| `job_double_start` | 2 concurrent starts | **violation**: two runners for one job |
| `etl_engine` | 2 pipelines on one table, one deduplicating with a repeated and a NULL key in 2 batches, cancels, dropped streams, store faults, a crash | all properties of `EtlEngine` |
| `geo_executor` | one evaluation of any of 9 graphs beside one that loads another area, at most 2 scenes, 4 bands, 2 permits, faults and drops | all properties of `GeoExecutor` |
| `geo_shared_scratch` | 2 overlapping ndvi graphs of different areas | **violation**: an answer is computed from a band file that the other evaluation was overwriting |
| `clients` | 3 callers, threshold 2, cooldown 2; at most 4 attempts; every order of failures; payloads of up to 3 features; hosts on both sides of every address block | late failures do not prolong an open circuit and it recovers; retries are bounded; scenes, hosts and catalog answers are right |
| `downloads` | cache of 2 bytes with 2 tasks, files of 1 and 2 bytes and a restart; 2 downloads, windows at and around pixel edges over 6 source layouts; 3 asset tools on 2 paths with a crash; 2 submitters | hits can be opened, the cap holds, a file holds exactly the asked window, names never show half a file, no remote result is lost |
| `processes` | callbacks of 3 nodes, stacks of 4 pixels, arrays of 4 elements, options given and left out, rings on a 3 by 3 grid, bodies of 2 nodes nested up to 6 deep, chains of 3 cube operations on two branches, with two sets of bands and four lists of names | evaluators agree with their definitions; what the analysis accepts can be walked; a cube's description stays true |
| `rasters` | rasters up to 5 by 5 with blocks up to 4 by 3, all Landsat codes of 9 bits and SCL codes to 20; a call with 2 threads over 4 blocks (6 for one raster), without and with an overlap, sizes overridden both ways, errors anywhere and at the last flush; 4 blocks on 2 permits with a budget for one | blocks cover a raster once, pixels land where they belong, limits hold and answers agree with what the blocks did |
| `api` | 2 callers, 2 jobs, 5 store calls, a restart; tokens and codes that live 2 ticks over 6; 5 requests to both file stores; channels of 2 and 3 progress events; every small header, path, body, configuration, metric and pair of trees | acknowledged writes are kept, tokens are earned, the file stores agree but for names a disk cannot hold, the command tells the truth, single requests are judged rightly |

Why the bounds are enough. Every conflict in the job service is between two
requests on one job (start/start, start/cancel, start/delete, an old supervisor
and a new run), and a third start is in `job_serial`, where a stale entry of the
first run could meet the third. One permit makes the semaphore contended; with
two the concurrent starts get through. Jobs share nothing but permits, so one job
with two runs contends for them as two jobs would. One restart suffices: a
restart forgets everything but the stores, and `Init` together with any recovered
store is where a second would start. For the ETL engine two pipelines are the
smallest number that can conflict on UNIQUE, two batches the smallest number with
a poll of the flag between them, and capacity 1 makes the channel full as soon as
an event waits. For the executor two evaluations are the smallest number that can
share a file, two scenes the smallest with an order and with a band one of them
lacks, and with two permits a load of two bands leaves none to the other
evaluation. `job_faults` has no restart (crashes with store faults are in
`JobServiceProofs`, for every constant); `job_settles` and `job_serial` have one.

`Clients.cfg` and `Downloads.cfg` check for deadlock: a search, a download, an
asset tool or a submitter stops in a named final state only. The other
configurations set `CHECK_DEADLOCK FALSE`: requests are finite in number and a
server without requests is idle, and a question is answered once, so a final
state is legitimate. That nothing waits for ever is what `AcceptedRunEnds`,
`ActiveSettles`, `PipelineEnds` and `EvaluationsEnd` say there.

Fairness. Weak fairness of handler, supervisor and runner steps: tokio polls a
woken task, and every store call returns. The executor and the SQL query get no
fairness (they may hang); their `tokio::time::timeout` does. Nothing makes a
client send a request, a job be deleted or the process crash. In `EtlEngine` a
client is fair in `Receive`: with an open stream it goes on reading. A client that
neither reads nor drops its stream blocks the task for ever (the channel is
bounded), and `PipelineEnds` does not claim otherwise. In `GeoExecutor` every step
of an evaluation and the end of a download are fair: the async-tiff downloader's
client has request timeouts and bounded retries (`async_download.rs:92-112`). The
GDAL downloaders set no timeout, so for a build without that feature
`EvaluationsEnd` assumes that the storage server answers. In `CircuitBreaker`
time passes, callers go on calling, and a call that was let in reports one way or
the other (remote calls have timeouts); that calls succeed is not assumed. A
breaker nobody calls has nothing to recover for.

## 4. Proofs

`JobServiceProofs`, for all sets of jobs, requests, permits and restarts:

* `Inductive`: `IInv == TypeOK /\ Links /\ DiscardLinks /\ PermitsAccounted` is
  inductive. `Links` says that a request past its first read names a job, that
  its runner exists only once its supervisor left `"spawn"`, and which supervisor
  states a live unaborted runner goes with; `DiscardLinks` the same for cancel
  requests. Without them a step could write the record of `NoJob`.
* `TypeCorrect`, `PermitsAreAccounted` follow; `ConcurrencyCapHolds` needs in
  addition that live unaborted runners are a subset of the supervised runs,
  hence no more than the permits taken (cardinality lemmas). `CapacityIsKept` is
  the conjunction, the run's `CapacityHolds`.
* `FinishedJobsAreServable` (for durable files) needs `ResultKept`: between put
  and Finished a runner's job has bytes, after add_asset also an entry, unless
  it was deleted. No step of the service takes either away; a client can replace
  or remove the bytes through the `/files` routes, and then the theorem says that
  it was the client (`ClientsOwn`), not that they can be fetched.
* `DeletionIsFinal`: every status write goes through a statement that touches no
  absent row, and no id is created twice.
* `ActiveJobsHaveDrivers` (no cancel requests, no store faults): `Uncancelled` (no
  run is signalled or aborted) and `Driven`, that the run which brought a job into
  progress has its terminal write still before it. `ActiveHasDriver` says that some
  task will write; which one is what makes it inductive. Both hypotheses are needed:
  a cancel can leave a job `running` (see 5), and so can a failing write.
* `FinishedJobsAreAnnounced`, `SettledJobsAreStable`, `ServiceImplementsLifecycle`
  (in addition a client that waits for the end of a run before the next start; the
  last two with durable files): `SerialInv == Uncancelled /\ OneAtATime /\
  StatusTied`. `OneAtATime`: of two runs of a job one has ended. `StatusTied`: a
  run's position determines the status of its job, which is what lets one run's
  write be read as a transition of the life cycle. The refinement maps the pair of
  `status` and the set of servable jobs; every step is a transition of
  `JobLifecycle` or leaves the pair alone. The four theorems hold in the instances
  `job_settles` and `job_serial`, with any number of jobs, starts and restarts.

`EtlEngineProofs`, for all frames, batch sizes and capacities:

* `TypeCorrect` (with the channel and loop bounds).
* `CompletedPipelinesAreLoaded`: `LoadInv == TypeOK /\ PrefixLoaded /\
  CompletedAtEnd`. `PrefixLoaded`: the first `at[j]` rows are in the table, or a
  row with the same key is; `CompletedAtEnd`: a pipeline marked completed has
  `at[j] = Len(Frame[j])`. The step for `insert_chunk` is `ChunkIsLoaded`: of the
  rows of a chunk with one key the first (`LeastElement`) either is inserted or
  conflicts with the table. Other pipelines' rows are never removed (`LoadedStays`).
* `AnnouncementsAreDurable`, `CancelsStopWithinABatch`, `OutcomesAreFinal`:
  `OutcomeInv`, which ties the task's position to the row's state, the queued and
  received events, and the count of batches since the cancel.
* `ReportedRowsAreStored`: `RowsInv`, that `written` counts the pipeline's rows in
  the table (`CountOf`, a cardinality over the rows that carry its name, all at
  most `at`), and where map and row may lag behind `written` (`BumpedOf`).

`GeoExecutorProofs`, for all finite sets of evaluations and bands, all graphs,
search results and permits:

* `DownloadsAreBounded`: `PermitInv == TaskTypes /\ FetchesOfLoads /\
  DownloadsBounded`. `FetchesOfLoads` (an evaluation that is not in a load and has
  not ended has no fetch) is needed because a search overwrites the states of the
  fetches: without it a search could forget a closure that holds a permit.
  `fetch` and `fetched` change the set of running closures by one element, every
  other step leaves it alone (`SameDownloads`, `LettingGo`, `TasksUntouched`).
* `TypeCorrect`: `PermitInv` with `CubeInv`, which says that cubes are remembered
  for nodes of the graph alone and that a handler at work belongs to one.
* `CubesHoldTheirPixels`, `UndisturbedAnswersAreMeant` (graphs with `WellFormed`
  links): `MeantInv` says for each evaluation where the files of its cubes can be
  (`Placed`) and, while nobody disturbed it, that every file it holds or is about to
  hold has the pixels meant (`Intact`). The claim must reach back into the handler at
  work: a cube is remembered only after its last file was written, and by then other
  evaluations have taken steps. `WellFormed` excludes graphs on which the handlers
  themselves go astray: an argument that is an object with more than `from_node` is
  passed on as it is written, and a process without its cube fails.

`ClientProofs`, for all finite sets of callers and all thresholds:
`BreakerInv == BreakerTypeOK /\ OpenIsDated` is inductive (`BreakerIsDated`); that a
step never makes an open circuit younger (`CooldownRunsFromTheTrip`) follows from
it, since a late `failure_locked` finds the circuit open and leaves the date alone.

`SearchInv` ties the attempts to the requests sent (`Counted`),
and to what the policy allows (`Allowed`), and the time slept to the attempts
(`Slept`); `RetriesBounded` follows. `InternalHostsAreNeverAsked` needs `Policed`,
that nothing is sent before the check has passed, and that the bit masks of the
code are the blocks of addresses the policy names, for every address
(`MasksAreBlocks`, `MaskedSegments`, `PolicyNamesTheBlocks`). The run checks both as
`RequestsAreAllowed` (`SearchesAskWhatTheyMay`).

* `SearchesReturnFaithfulScenes`: the inductive part is small (`SceneInv`: the scenes
  of a search that succeeded are those made of the features it was sent); the work is
  in what sorting and filtering return. tlapm knows no definition of `SelectSeq` and
  `SortSeq`, which take operators, so the models sort and filter with `Orderings`, a
  relation and a set in their place, and TLC compares the two on short sequences
  (`OrderingsAreTheLibrarys`). `OrderingProofs` shows for every finite set and total
  order that `Listed` lists each element once and in order, and for every sequence
  that `Filtered` keeps exactly the elements of the set in their order
  (`KeptInOrder` joins them). That a sorted list exists needs no induction: an
  element's place is the number of those before it, later ones have more before them,
  and so every place is taken once (`RanksAreTaken`).
* `CatalogsAnswerExactly`: `CatalogInv` says that an answer is the code's answer to its
  question; one lemma per kind of question compares the code with what was asked:
  four comparisons are a common point for ordered boxes (`MeetIsIntersect`; the
  claim itself leaves open what becomes of boxes that only touch), parsing an
  interval keeps its ends (`ParsedIsTime`), the limit cuts the chosen items
  (`SearchAnswersExactly`), get answers 404 when the backend does and else the first
  that has the id (`GotIsTheFirst`),
  datetimes are complete and in order (`SortedIsChronological`, `UniqueIsRising`), and
  a signed URL keeps its query (`SigningOnlyAdds`).

`DownloadProofs`: `CacheInv` is `IndexedIsOnDisk` with `InsertingIsOnDisk`, that a
file being copied, measured or indexed is on disk or was removed meanwhile. The
former alone is not inductive: indexing would make an entry out of nothing.

* `CacheKeepsItsBudget`: `BudgetInv` is `WithinBudget` with the types it needs. The sum
  over the index is the library's `SumFunction`, and two facts about it suffice: it is
  a function of the sizes, so dating an entry keeps it (`IndexKept`), and it is 0 for
  an index that was cleared (`EmptySum`). An eviction ends with an index that it has
  compared with the budget.
* `DownloadsAreTheWindow`: `WindowInv`. What is asked for is stated without rounding:
  the cells that reach into the crop by more than a thousandth of a cell
  (`Reaching`). That floor and ceiling with the code's tolerance give exactly those
  is `WindowIsReaching`, from the two laws of integer division (`DivBounds`,
  `FloorGalois`). Tiles from `tile_range` cover the window (`TilesCover`), so
  stitching leaves no pixel unfilled and puts each in its place (`StitchIsFilled`);
  a file of several bands is read by GDAL with the box of that window, which has the
  same window again (`AlignedAgain`); a hint's code is the file's unless `HintIsWrong`
  (`CodesAgree`); and the GDAL fall-backs end with the same window (`ProjectedIsExact`).
* `BucketsShareTheirClient`: an entry of the pool is never replaced, and who has a
  client has the pool's (`Pooled`).
* `PublishedFilesAreWhole`: `FileInv` describes the directory as names that lead to
  inodes. A name leads to an inode made for its destination and no two names to the
  same (`Directory`); two downloads of one destination do not both have its part file
  (`Alone`); who writes has open what the temporary name leads to, and nobody else
  has (`Writing`); what is about to be renamed is whole (`Written`), hence what is
  published is (`Published`). The last alone is not inductive: a rename publishes
  whatever is under the temporary name.
* `NoResultIsLost`, `ClientFilesAreWhole`: `ClientInv` adds what a submitter has
  fetched, is fetching and has still to fetch, and how far the job at the backend is
  by then (`ToCome`, `Progress`). Together they are `FilesAreWhole`
  (`SharedFilesAreWhole`).

`ApiProofs`: `RemoteInv` says that the record agrees with what the task
decided (`Decided`), that an outcome's event, wherever it is in the two channels,
is of that outcome (`Honest`), that while somebody reads it is the last one on its
way (`OnItsWay`), and with what the command ended (`EndedWell`).

* `RedeemedTokensAreEarned`: `TokenInv`, that the token's end is within both
  lifetimes from the issue of its code and that an approval is never taken back.
* `LoginsKnowThePassword`, for every header that decodes to bytes or not at all
  (`Decodable`): the cut at the first colon loses nothing (`CutAt`,
  `FirstOccurrence`), so a header that matches name and password carries exactly
  their bytes (`MatchingIsCarrying`). With the former, every token is earned
  (`TokensAreAlwaysEarned`).
* `BothStoresKeepTheSameFiles`: `StoreInv == SameFiles /\ Tree /\ OwnIds`. The disk's
  keys are user, slash and path in one string, and are those of the in-memory map,
  less what the disk refused, because the first slash ends the user (`KeysAreApart`,
  `UnderIsOwn`). `Tree` says that no file lies below another and that a refused name
  clashed with one the disk had held. The hypothesis `Plain`
  says that a user id has no slash: the routes take it from one segment of the URL
  and check the path only, so an id with an encoded slash is outside the theorem.

`ApiProofs` also has, for all callers, jobs and asset names, `RecordsInv`: it has
`StoreTypeOK`; for each job `Fresh`, `Issued` and `Kept`, `RecordsKept` of that job;
for each call under way that its number is its own and was acknowledged to nobody
(`Numbered`, `OwnNumber`), in memory that an append past its check is of a job that
is there or was raced by its deletion (`InMemory`), in SQLite that a snapshot is the
table as long as nobody commits and that only the holder of the write lock does
(`Snapshot`); and that a reader was given what it was owed (`Told`).
`NothingAcknowledgedIsLost` rests on `Snapshot`: a transaction that writes what it
read a while ago loses nothing because its upgrade fails once another has committed.

`RasterProofs`, for any number of blocks, permits (one where none is asked for) and
any budget, a worker's error that reads "cancelled" included: `ExecInv`
has `Limits` (permits held and bytes reserved, as cardinalities), `Numbers` (every
number up to `done` was reported once or is about to be), `Tally` (`done` lies
between the blocks that passed and those that left) and `Caller` (what the caller's
position says about the blocks before `next`).

* `PixelsReachTheirPlace`, for any rasters, blocks, overlaps, overridden sizes, masks
  and threads: `RasterInv` says that a dataset holds nodata or a pixel's own value
  everywhere (`Filled`), that a block nobody is to take and nobody holds has landed
  (`Covering`), which is what Ok needs, and what file, overviews and COG are made of
  (`Derived`). That trimming the overlap and shifting to the write window keep pixel
  and value together is `BlocksWriteOwnPixels`. Ok promises the pixels that trimming
  leaves of each block; that these are all pixels is claimed where there is no overlap
  and the blocks cover the image (`Full`), and of the file except for pixels the last
  flush lost. The mask's value is claimed for a mask with the same blocks, as the code
  compares the number of blocks alone.
* `CubesNeverMisstateTheirFiles`, for chains of any length over any bands, areas and
  times: `CubeInv` says of both branches that a cube is true. Truth needs more than
  `CubesStayTrue` says. That no file is converted twice follows from
  `RawWhileScaled`: as long as a cube knows scale factors, all its files are raw. A
  list of datetimes has the length of every band and names the acquisition of each of
  its files (`Dated`), also after a filter has kept some of them (`Rising` on the
  kept positions). Counts and area are claimed until cubes of different kinds are
  merged, which `mixed` remembers and the code does not (`Sized`, `Placed`).

Assumptions on constants are named `ASSUME`s of the module that declares them, and
TLC evaluates each on the instance of a run: finite sets and natural numbers, that a
value for "none" is none of the values it stands beside, that a configured name and
password are byte strings (`AccessAssumption`), that a URL's host is an address or a
name (`HostsAssumption`), that each submitter is one of the tasks that write files
(`ClientAssumption`), that band names are strings (`GeoAssumption`,
`CubeAssumption`), that the budget of the cache is a number of bytes
(`CacheAssumption`), that features have a cloud cover from 0 to 100 or none
(`FeaturesAssumption`), that boxes have their lower corner first and times are whole
numbers (`CatalogAssumption`), and that a source has square pixels, whole coordinates
and, where it has an EPSG code, the CRS of that code (`DownloadAssumption`). The hypotheses of
single theorems (`WellFormed`, `Decodable`, `Plain`, `JobsAreCut`, which only says
that the windows and overlaps of blocks are natural numbers) are operators, and
TLC evaluates `WellFormed`, `Decodable` and `JobsAreCut` on the instances too.

Every inductive invariant was checked by TLC on the instance of its run before it was
proved. Type correctness is proved rather than run, where it is part of one
(`TypeCorrect`, `StoreTypeCorrect`, `BreakerIsDated` and the invariants above).

Only model-checked:

* every liveness property (`AcceptedRunEnds`, `ActiveSettles`, `PipelineEnds`,
  `EvaluationsEnd`, `TrippedCircuitRecovers`): tlapm has no rules for fairness and
  ENABLED;
* what a recursive definition or a fold computes for every input, which is induction
  over data: `RequestsAreJudged`, `ProcessesAreExact`, `GraphsAreSound`,
  `RastersAreExact`;
* that `partition_blocks` covers a raster (the assumption `JobsAreCutAlike` of
  `MCRasters`) and that `b64_decode` answers bytes (`Decodable`, a hypothesis of two
  theorems), for the same reason.

## 5. Findings

The violation runs are behaviours of the code that contradict a line of the
repository; `PROJECT.json`/`findings` quotes the lines. Others seen while
modelling and allowed by the models, not given a run of their own:

* `register` runs after `spawn`: a run that ends first leaves an entry behind that
  nothing removes (`routes/jobs.rs:413`).
* A cancel that read an active job writes Canceled after the run wrote Finished
  (`routes/jobs.rs:559`).
* A store error at `set_status` Running or Finished ends `run_job` and leaves the
  job in progress until the next restart (`runner.rs:73`); for this reason
  `ActiveSettles` is claimed without store faults only.
* `JobEvent::Cancelled` is declared but never published (`event_bus.rs:41`).
* `--db-url` without `--files-dir`: finished jobs survive a restart, their bytes
  do not; `FinishedIsServable` is claimed for durable files.
* Results lie in the user file store under the job's id, and the `/files` routes ask
  nobody whose id that is: PUT and DELETE `/files/{job_id}/{asset}` overwrite or
  remove a finished job's result (`routes/files.rs:76`, `runner.rs:138`).
* ETL: `cancel_job` answers true although the pipeline completes when the flag is
  set after its last poll; a pipeline running at a crash is reported running for
  ever (`Engine::open` recovers nothing); when the UPDATE of `mark_completed`
  fails the map says completed first and failed later; `run` leaves both map
  entries behind when its INSERT fails; a deduplicating pipeline whose table was
  created without UNIQUE inserts duplicates.

The models also show these disagreements between a comment and the code. The
properties named here are in the modules and are part of no passing run; named as
an INVARIANT in the configuration given, each makes TLC print the behaviour.

* `DrainCoversAll` (`JobSettles.cfg`, `routes/jobs.rs:408`): drain misses the second
  run of a job that was restarted before its first supervisor ended.
* `CancelledIsNotInProgress` (`JobFaults.cfg`, `routes/jobs.rs:381`): a cancelled job
  can be left `running`, when its runner writes Running after the cancel.
* `ServedSizeIsStoredSize` (`JobFaults.cfg`, `job_store.rs:344`): after a rerun the
  first run's size is served with the second run's bytes.
* `ResultsAreMeant` (`GeoSharedScratch.cfg` with other `Graphs`) also fails for two
  `mask_scl_dilation` graphs one after the other (`SclGraphs`, `MaxActive = 1`),
  since the resampled SCL is found on disk (`eval_mask.rs:56`), and for a mask of a
  mask (`ChainedGraphs`), which truncates its own input (`eval_mask.rs:564`).
* `HintIsAdvisory` (`Downloads.cfg`, `async_download.rs:497`): the catalog's EPSG
  code, called advisory, replaces the file's own (`:646`).
* `ServesTheCrop` (`Downloads.cfg` with two `Crops`): the key is the URL without the crop, so a hit may
  hold another area. The server does not switch the cache on.
* `CallbackSeesReflectance` (`Processes.cfg`): `rename_labels` leaves a band's scale
  under its old name, so in load, rename, apply the callback sees digital numbers.
* `OverlapLosesNothing` (`Rasters.cfg`): `partition_blocks` ignores the overlap, and
  trimming it from the result loses the pixels at the rim of every block.

Behaviours the models contain as they are in the code, each at odds with a comment
or surprising enough to record. Where a comment is contradicted, no property claims
what the comment says; the property that comes nearest says in its own comment what
it leaves out.

* Callbacks: the trial evaluation of `apply` with x = 0 refuses `1/x`, although its
  comment says it surfaces errors of the graph's shape only; the worker of
  `reduce_dimension` turns every error into NA, although a bad graph "fails at
  parse time"; `clamp` panics when min > max; `count` of a pixel without values is
  NA; the sign of 0 is 1. The callbacks of apply and reduce "accept the same
  pure-numeric process set" (`eval_apply.rs:306-310`), but comparisons, logic and
  `log` are missing from the reducer; `eq` and `neq` take numbers within 1e-9 for
  equal there and are exact or within `delta` in the registry (`registry.rs:357`);
  `between` honours `exclude_max` in the registry only (`:449`); `round` differs for
  a fractional number of places. `Differ` lists these, and `KernelsAgree` claims
  agreement everywhere else. The median of an even number of values is their mean,
  `eval_reduce.rs:30` says "no interpolation".
* Graphs: the collection of process ids stops at a node named `process_graph`;
  `evaluation_order` returns all nodes, in an order in which the result need not be
  the last, where its comment has only those the result depends on, result last
  (`process_graph.rs:117-118`); the catalog calls `array_element`'s index optional
  (`process_catalog.rs:137`) and the handler requires it
  (`eval_arrays.rs:36-40`), and `resample_spatial`'s projection optional (`:75`)
  where the handler requires it (`eval_misc.rs:653-656`).
* Cubes: `merge_cubes` keeps the first cube's `scene_count` and `bbox`;
  `rename_labels` leaves `layers` and `band_scales` behind and drops a band when
  names collide; `filter_bands` counts a band named twice as two layers;
  `filter_bbox` "intersects" (`eval_cube_ops.rs:102-103`) but cuts to the whole box.
* Pixels: the two quality decoders disagree on SCL 2 and above 11 and on Landsat
  fill, dilated cloud and water; snow (11) is kept as clear sky against
  `mod.rs:1043-1046`; `zonal_histogram` counts per data value within the zones where
  `eval_misc.rs:587-590` has one count per zone; `apply_mask` leaves what lies beyond a smaller mask
  as it is and panics on a larger one; the rasteriser's
  "odd → inside" at pixel centres (`eo-vector/src/lib.rs:116-117`) fails for the
  first pixel of a span that the border cuts (`Zonal!CutOff`);
  `predict_classifier` panics on a length mismatch.
* Rasters: a block size of 0 loops for ever; an overridden image size does not
  partition again; only the first band of the first layer is mapped by default;
  `apply` builds no overviews where its variants do, and two of these say that they
  do not either (`processing.rs:152-153`, `:194`); the output is flushed when it is
  dropped and an error then is ignored (`writer.rs:22`); two grids called the same
  may be half a pixel apart at coarse resolutions (`alignment.rs:54`, tolerance
  against resolution 600); `run_blocks` returns at the first error while spawned
  blocks go on, and reports may arrive out of order; a worker's error with the text
  "cancelled" is answered as a cancellation.
* Downloads: outside the source the async-tiff path writes zeros, its module doc
  promises nodata padding (`async_download.rs:21-23` against `:961`), and it sets no
  CRS on the file it says is in the source's (`:17-18` against `:1044-1051`).
* Clients: `HalfOpen` lets several probes through, `lib.rs:139` says one;
  `shared_s3_for` keeps the first client, its doc says the last (`:68-69`; the
  comment at the insert, `:136`, agrees with the code, and so does
  `OneClientPerBucket`); boxes that touch intersect, the comment of
  `bbox_intersects` says not (`eo-catalog/src/client.rs:209-210`); `retry_async`
  panics for `max_attempts` 0; GET `/collections` swallows backend errors, and a
  backend that answers 404 to everything looks like one without the collection;
  `download_asset` of the openEO client checks that a file exists, not its size.
* Stores: an in-memory `append_log` that races a delete leaves an orphan entry;
  SQLite's `add_asset` and `append_log` fail at once when another transaction
  commits between their read and their write; `delete_job` never answers 404;
  listings swallow errors. Of the file stores the in-memory one holds `a` and `a/b`
  side by side and a name like `a#1`, the disk answers 500 for the second of the two
  and for the reserved name; `%2F` is "caught" (`file_store.rs:88-90`), but `a%2Fb` is
  accepted and is one segment; a user id with an encoded slash is not checked at all
  and is assumed away (`Plain`).
* Access: tokens from `/credentials` are never accepted by the policy; a device
  code can be redeemed repeatedly and approved after it has expired; the base64
  decoder skips blanks and takes padded pieces one after another; routes the
  specification does not name pass the middleware; the capabilities leave out the
  routes of `Operations!Unlisted`, although the list "mirrors the routes we actually
  serve" (`discovery.rs:126-127`).
* Remote pipelines: `orbit etl run` exits 0 when the engine's task panics; an
  outcome is announced even if its record could not be written; a cancelled
  pipeline arrives as failed.
* Tools: api-diff compares neither trait items nor enum payloads nor where clauses
  nor `const`, `extern` and the type of a by-value `self` (`lib.rs:348-356`); it takes
  every file for a public module (`:111-123`), and its keys ignore the crate; a name
  used for a counter and for a histogram gets two TYPE lines.

## 6. Not modelled

GDAL, PROJ, reprojection, TIFF decoding and floating point (pixels are exact
fractions, terms, or an arbitrary function); HTTP transport, TLS, SQL text,
formatting, logging and tracing; GET handlers that only read a record; the wording
of static documents; the CLI commands that print what one call returns; parsing of
Rust (`syn`), TOML and command lines. `typed_errors`, the typed process-graph DSL,
the product templates and the engine bridge have no caller that keeps state: they
fill records or translate one value.

In `GeoExecutor`: the VRT streaming mode (`ORBIT_VSICURL_STREAM`), pixel types (f32
index bands against i16 masks) and the processes other than the four file-to-file
ones. Callbacks, the other processes, PNG output, the file cache and the partition
into blocks are in the modules above.

## 7. Plan

Done: the job service with its abstract life cycle and the refinement, both checked
and proved; the ETL engine, and its server and command; the graph executor; both job
stores; access, requests and operations; circuit breaker, search and catalogs;
downloads, file cache, asset tools and the openEO client; callbacks, processes, graph
analysis and cube operations; raster grids, runs and the block executor; theorems for
every safety property of a protocol, and for scenes, catalog answers, downloaded
windows and cubes.

Left, in this order:

1. Theorems: `ActiveHasDriver` with cancel requests, in the weaker form that excepts
   jobs a cancel has read.
2. The VRT streaming mode of `load_collection`, which reads assets in place of
   downloading them.
3. `GeoExecutor` composed with `FileCache`, once the server switches the cache on.
4. The error translation of `typed_errors`, once a route uses it.
