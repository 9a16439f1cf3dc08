----------------------------- MODULE JobService -----------------------------
(***************************************************************************)
(* The batch-job service of the openEO server: the job store, the file     *)
(* store, the permit semaphore, the registry of in-flight jobs, the HTTP   *)
(* handlers of /jobs that change them, the supervisor task and the runner  *)
(* task that POST /jobs/{id}/results spawns, and the process life cycle    *)
(* (crash, graceful shutdown with drain, restart with orphan recovery).    *)
(*                                                                         *)
(* Grain of atomicity.  The runtime is multi-threaded, so handlers,        *)
(* supervisors and runners interleave between any two calls on shared      *)
(* state.  One action is one call on the job store, the file store, the    *)
(* registry or the semaphore, with the event publication and the branching *)
(* on its result that follow it without another such call.                 *)
(*                                                                         *)
(* Data kept abstract: a job is its status, progress, asset list and       *)
(* stored bytes; a result is identified by the run that produced it; a job *)
(* has one asset name (its graph fixes the media type, hence the name);    *)
(* titles, log lines, timestamps and metrics are left out.                 *)
(***************************************************************************)
EXTENDS Integers, Sequences, FiniteSets

CONSTANTS
    Jobs,              \* job ids (v4 UUIDs, never reused)
    Runs,              \* POST /jobs/{id}/results requests
    Discards,          \* DELETE /jobs/{id}/results requests
    Deletable,         \* the jobs some client deletes
    Touched,           \* the jobs in whose directory a client uses the /files routes
    MaxConcurrentJobs, \* permits of job_sem
    SerialClient,      \* BOOLEAN: a job is started only when no run of it is unfinished
    StoreFaults,       \* BOOLEAN: store and file operations may fail
    MaxRestarts,       \* bound: how often the process dies or is shut down
    DurableFiles,      \* BOOLEAN: --files-dir is set (else bytes are in memory)
    NoRun, NoJob,
    Uploaded, Erased   \* what a client left in place of a result: its upload, nothing

ASSUME ConstantsAssumption ==
    /\ IsFiniteSet(Runs)
    /\ {NoRun, Uploaded, Erased} \cap Runs = {}
    /\ Uploaded # Erased /\ NoRun \notin {Uploaded, Erased}
    /\ NoJob \notin Jobs
    /\ Deletable \subseteq Jobs
    /\ Touched \subseteq Jobs
    /\ MaxConcurrentJobs \in Nat \ {0}
    /\ SerialClient \in BOOLEAN
    /\ StoreFaults \in BOOLEAN
    /\ MaxRestarts \in Nat
    /\ DurableFiles \in BOOLEAN

VARIABLES
    status,     \* per job: its JobStatus, or "none" (not created), "deleted"
    progress,   \* per job: percentage last stored
    assets,     \* per job: the runs whose asset entry was appended, in order
    bytes,      \* per job: the run whose result the file store holds, or what a client left
    lastEvent,  \* per job: kind of the last JobEvent published for it
    permits,    \* free permits of job_sem
    registry,   \* per job: the run whose RegEntry is in the JobRegistry
    target,     \* per start request: the job it names
    hpc,        \* per start request: where start_processing is
    spc,        \* per start request: where its supervisor task is
    rpc,        \* per start request: where its run_job task is
    notified,   \* per start request: a cancel signal is buffered in its Notify
    aborted,    \* per start request: its run_job task was abort()ed
    dpc,        \* per cancel request: where discard_results is
    dtarget,    \* per cancel request: the job it names
    phase,      \* "up", "stopping" (no new requests) or "draining"
    draining,   \* the runs whose supervisor handle drain() waits for
    restarts    \* how often the process was restarted

storeVars == <<status, progress, assets, bytes>>
handlerVars == <<target, hpc>>
taskVars == <<spc, rpc, notified, aborted>>
discardVars == <<dpc, dtarget>>
processVars == <<phase, draining, restarts>>
vars == <<storeVars, lastEvent, permits, registry, handlerVars, taskVars,
          discardVars, processVars>>

-----------------------------------------------------------------------------
JobStatus == {"created", "queued", "running", "canceled", "finished", "error"}
Active == {"queued", "running"}
Terminal == {"finished", "error", "canceled"}
JobEventKind == {"started", "progress", "completed", "failed", "cancelled"}

\* Steps of start_processing, named for the call they are about to make.
HandlerPc == {"idle", "admit", "register", "done"}
\* Steps of the supervisor task; the permit is held from "spawn" on.
SupervisorPc == {"none", "spawn", "select", "cancelGet", "cancelSet",
                 "panicGet", "panicSet", "deregister", "done"}
\* Steps of run_job, named for the call they are about to make.
RunnerLive == {"queue", "run", "p10", "exec", "p80ok", "p80err", "put",
               "asset", "p95", "finish", "p100", "error"}
RunnerPc == {"none", "panicked", "done"} \cup RunnerLive
\* Steps of discard_results; "cancelActive" has read a queued/running job.
DiscardPc == {"idle", "cancelActive", "cancelOnly", "set", "done"}

SupervisorLive(r) == spc[r] \notin {"none", "done"}
RunnerIsLive(r) == rpc[r] \in RunnerLive

Init ==
    /\ status = [j \in Jobs |-> "none"]
    /\ progress = [j \in Jobs |-> 0]
    /\ assets = [j \in Jobs |-> << >>]
    /\ bytes = [j \in Jobs |-> NoRun]
    /\ lastEvent = [j \in Jobs |-> "none"]
    /\ permits = MaxConcurrentJobs
    /\ registry = [j \in Jobs |-> NoRun]
    /\ target = [r \in Runs |-> NoJob]
    /\ hpc = [r \in Runs |-> "idle"]
    /\ spc = [r \in Runs |-> "none"]
    /\ rpc = [r \in Runs |-> "none"]
    /\ notified = [r \in Runs |-> FALSE]
    /\ aborted = [r \in Runs |-> FALSE]
    /\ dpc = [d \in Discards |-> "idle"]
    /\ dtarget = [d \in Discards |-> NoJob]
    /\ phase = "up"
    /\ draining = {}
    /\ restarts = 0

-----------------------------------------------------------------------------
(* The JobStore operations.  Each is one statement or one locked section;  *)
(* each answers NotFound for a job without a record, and any of them may   *)
(* fail in the backend (SQLITE_BUSY, I/O) when StoreFaults holds.          *)

Present(j) == status[j] \in JobStatus
MayFail(j) == StoreFaults \/ ~Present(j)

\* Faulty variant: an upsert, which writes a status for an absent record too.
set_status_upsert(j, s) ==
    status' = [status EXCEPT ![j] = s]

set_status(j, s) ==
    Present(j) /\ status' = [status EXCEPT ![j] = s]

\* let _ = store.set_status(..).await
TrySetStatus(j, s) ==
    \/ set_status(j, s)
    \/ MayFail(j) /\ UNCHANGED status

set_progress(j, p) ==
    Present(j) /\ progress' = [progress EXCEPT ![j] = p]

\* let _ = store.set_progress(..).await
TrySetProgress(j, p) ==
    \/ set_progress(j, p)
    \/ MayFail(j) /\ UNCHANGED progress

add_asset(j, r) ==
    Present(j) /\ assets' = [assets EXCEPT ![j] = Append(@, r)]

\* FileStore::put: replaces the object stored under job id and asset name.
put(j, r) ==
    bytes' = [bytes EXCEPT ![j] = r]

\* Faulty variants: queued jobs are forgotten; orphans are put back to created.
recover_orphans_running ==
    [j \in Jobs |-> IF status[j] = "running" THEN "error" ELSE status[j]]

recover_orphans_reset ==
    [j \in Jobs |-> IF status[j] \in Active THEN "created" ELSE status[j]]

\* recover_orphans: one statement over the whole table.
recover_orphans ==
    [j \in Jobs |-> IF status[j] \in Active THEN "error" ELSE status[j]]

publish(j, kind) ==
    lastEvent' = [lastEvent EXCEPT ![j] = kind]

-----------------------------------------------------------------------------
(* Handlers that are one store call.                                       *)

\* POST /jobs with a graph that passed validation.
create_job(j) ==
    /\ phase = "up"
    /\ status[j] = "none"
    /\ status' = [status EXCEPT ![j] = "created"]
    /\ UNCHANGED <<progress, assets, bytes, lastEvent, permits, registry,
                   handlerVars, taskVars, discardVars, processVars>>

\* DELETE /jobs/{id}: removes the record only; a running job, its registry
\* entry and its stored bytes are left alone.
delete_job(j) ==
    /\ phase = "up"
    /\ j \in Deletable
    /\ Present(j)
    /\ status' = [status EXCEPT ![j] = "deleted"]
    /\ progress' = [progress EXCEPT ![j] = 0]
    /\ assets' = [assets EXCEPT ![j] = << >>]
    /\ UNCHANGED <<bytes, lastEvent, permits, registry,
                   handlerVars, taskVars, discardVars, processVars>>

\* PUT /files/{user_id}/{path} with a job's id and asset name: the file store is
\* one, and the routes do not tell users' files from results.
upload_file(j) ==
    /\ phase = "up"
    /\ j \in Touched /\ status[j] # "none"
    /\ bytes' = [bytes EXCEPT ![j] = Uploaded]
    /\ UNCHANGED <<status, progress, assets, lastEvent, permits, registry,
                   handlerVars, taskVars, discardVars, processVars>>

\* DELETE /files/{user_id}/{path} of a stored result.
delete_file(j) ==
    /\ phase = "up"
    /\ j \in Touched /\ bytes[j] # NoRun
    /\ bytes' = [bytes EXCEPT ![j] = Erased]
    /\ UNCHANGED <<status, progress, assets, lastEvent, permits, registry,
                   handlerVars, taskVars, discardVars, processVars>>

-----------------------------------------------------------------------------
(* start_processing: POST /jobs/{id}/results.                              *)

\* Client discipline assumed when SerialClient holds: every earlier start of
\* the job was answered, and its runner (if any) has ended and, if it
\* panicked, was marked so.
NoUnfinishedRun(j) ==
    \A r \in Runs : target[r] = j =>
        /\ hpc[r] = "done"
        /\ \/ spc[r] = "none"
           \/ rpc[r] = "done"
           \/ rpc[r] = "panicked" /\ spc[r] \in {"deregister", "done"}

\* jobs.get, then 404, 409 JobLocked, 500, or on to the semaphore.
StartGet(r, j) ==
    /\ phase = "up"
    /\ hpc[r] = "idle"
    /\ status[j] # "none"
    /\ SerialClient => NoUnfinishedRun(j)
    /\ target' = [target EXCEPT ![r] = j]
    /\ \/ /\ Present(j) /\ status[j] \notin Active
          /\ hpc' = [hpc EXCEPT ![r] = "admit"]
       \/ /\ status[j] \in Active \/ MayFail(j)
          /\ hpc' = [hpc EXCEPT ![r] = "done"]
    /\ UNCHANGED <<storeVars, lastEvent, permits, registry, taskVars,
                   discardVars, processVars>>

\* Faulty variant: the permit is dropped when the handler returns.
StartAdmitPermitDropped(r) ==
    /\ hpc[r] = "admit"
    /\ permits > 0
    /\ spc' = [spc EXCEPT ![r] = "spawn"]
    /\ hpc' = [hpc EXCEPT ![r] = "register"]
    /\ UNCHANGED <<storeVars, lastEvent, permits, registry, target, rpc,
                   notified, aborted, discardVars, processVars>>

\* try_acquire_owned, and tokio::spawn of the supervisor that owns the permit.
StartAdmit(r) ==
    /\ hpc[r] = "admit"
    /\ permits > 0
    /\ permits' = permits - 1
    /\ spc' = [spc EXCEPT ![r] = "spawn"]
    /\ hpc' = [hpc EXCEPT ![r] = "register"]
    /\ UNCHANGED <<storeVars, lastEvent, registry, target, rpc, notified,
                   aborted, discardVars, processVars>>

\* try_acquire_owned fails: 503 QueueFull.
StartQueueFull(r) ==
    /\ hpc[r] = "admit"
    /\ permits = 0
    /\ hpc' = [hpc EXCEPT ![r] = "done"]
    /\ UNCHANGED <<storeVars, lastEvent, permits, registry, target, taskVars,
                   discardVars, processVars>>

\* JobRegistry::register (an insert, which replaces an older entry), then 202.
StartRegister(r) ==
    /\ hpc[r] = "register"
    /\ registry' = [registry EXCEPT ![target[r]] = r]
    /\ hpc' = [hpc EXCEPT ![r] = "done"]
    /\ UNCHANGED <<storeVars, lastEvent, permits, target, taskVars,
                   discardVars, processVars>>

-----------------------------------------------------------------------------
(* discard_results: DELETE /jobs/{id}/results.                             *)

\* jobs.get: remembers whether the job was active, or answers 404/500.
DiscardGet(d, j) ==
    /\ phase = "up"
    /\ dpc[d] = "idle"
    /\ status[j] # "none"
    /\ dtarget' = [dtarget EXCEPT ![d] = j]
    /\ \/ /\ Present(j)
          /\ dpc' = [dpc EXCEPT ![d] = IF status[j] \in Active
                                       THEN "cancelActive" ELSE "cancelOnly"]
       \/ /\ MayFail(j)
          /\ dpc' = [dpc EXCEPT ![d] = "done"]
    /\ UNCHANGED <<storeVars, lastEvent, permits, registry, handlerVars,
                   taskVars, processVars>>

\* JobRegistry::cancel: notify_one on the registered entry, if there is one.
DiscardCancel(d) ==
    /\ dpc[d] \in {"cancelActive", "cancelOnly"}
    /\ notified' = [r \in Runs |->
                      notified[r] \/ registry[dtarget[d]] = r]
    /\ dpc' = [dpc EXCEPT ![d] = IF @ = "cancelActive" THEN "set" ELSE "done"]
    /\ UNCHANGED <<storeVars, lastEvent, permits, registry, handlerVars, spc,
                   rpc, aborted, dtarget, processVars>>

\* if was_active, set_status(Canceled) on what was read before the cancel.
DiscardSet(d) ==
    /\ dpc[d] = "set"
    /\ TrySetStatus(dtarget[d], "canceled")
    /\ dpc' = [dpc EXCEPT ![d] = "done"]
    /\ UNCHANGED <<progress, assets, bytes, lastEvent, permits, registry,
                   handlerVars, taskVars, dtarget, processVars>>

-----------------------------------------------------------------------------
(* The supervisor task.                                                    *)

\* First poll: spawns run_job and enters the select!.
SupervisorSpawn(r) ==
    /\ spc[r] = "spawn"
    /\ spc' = [spc EXCEPT ![r] = "select"]
    /\ rpc' = [rpc EXCEPT ![r] = "queue"]
    /\ UNCHANGED <<storeVars, lastEvent, permits, registry, handlerVars,
                   notified, aborted, discardVars, processVars>>

\* select! takes the cancel branch: inner.abort().
SupervisorCancel(r) ==
    /\ spc[r] = "select"
    /\ notified[r]
    /\ notified' = [notified EXCEPT ![r] = FALSE]
    /\ aborted' = [aborted EXCEPT ![r] = TRUE]
    /\ spc' = [spc EXCEPT ![r] = "cancelGet"]
    /\ UNCHANGED <<storeVars, lastEvent, permits, registry, handlerVars, rpc,
                   discardVars, processVars>>

\* Faulty variants: a panic is taken for a return; a return for a failure.
SupervisorJoinPanicIgnored(r) ==
    /\ spc[r] = "select"
    /\ rpc[r] \in {"done", "panicked"}
    /\ spc' = [spc EXCEPT ![r] = "deregister"]
    /\ UNCHANGED <<storeVars, lastEvent, permits, registry, handlerVars, rpc,
                   notified, aborted, discardVars, processVars>>

SupervisorJoinUnchecked(r) ==
    /\ spc[r] = "select"
    /\ rpc[r] \in {"done", "panicked"}
    /\ spc' = [spc EXCEPT ![r] = "panicSet"]
    /\ UNCHANGED <<storeVars, lastEvent, permits, registry, handlerVars, rpc,
                   notified, aborted, discardVars, processVars>>

\* select! takes the join branch: run_job returned, or panicked.
SupervisorJoin(r) ==
    /\ spc[r] = "select"
    /\ rpc[r] \in {"done", "panicked"}
    /\ spc' = [spc EXCEPT ![r] = IF rpc[r] = "panicked" THEN "panicGet"
                                 ELSE "deregister"]
    /\ UNCHANGED <<storeVars, lastEvent, permits, registry, handlerVars, rpc,
                   notified, aborted, discardVars, processVars>>

\* get; go on to set_status only when the job is present and not terminal.
SupervisorGet(r, from, to) ==
    /\ spc[r] = from
    /\ \/ /\ Present(target[r])
          /\ spc' = [spc EXCEPT ![r] = IF status[target[r]] \in Terminal
                                       THEN "deregister" ELSE to]
       \/ /\ MayFail(target[r])
          /\ spc' = [spc EXCEPT ![r] = "deregister"]
    /\ UNCHANGED <<storeVars, lastEvent, permits, registry, handlerVars, rpc,
                   notified, aborted, discardVars, processVars>>

SupervisorSet(r, from, s) ==
    /\ spc[r] = from
    /\ TrySetStatus(target[r], s)
    /\ spc' = [spc EXCEPT ![r] = "deregister"]
    /\ UNCHANGED <<progress, assets, bytes, lastEvent, permits, registry,
                   handlerVars, rpc, notified, aborted, discardVars,
                   processVars>>

\* registry.deregister(&jid) removes whatever entry the job has.
deregister(j) == registry' = [registry EXCEPT ![j] = NoRun]

\* Faulty variant: the cancel path forgets the permit.
SupervisorEndLeaky(r) ==
    /\ spc[r] = "deregister"
    /\ deregister(target[r])
    /\ permits' = IF aborted[r] THEN permits ELSE permits + 1
    /\ spc' = [spc EXCEPT ![r] = "done"]
    /\ UNCHANGED <<storeVars, lastEvent, handlerVars, rpc, notified, aborted,
                   discardVars, processVars>>

\* The last step: deregister, then the permit is dropped with the task.  (A
\* start that arrives between the two is refused as one just before.)
SupervisorEnd(r) ==
    /\ spc[r] = "deregister"
    /\ deregister(target[r])
    /\ permits' = permits + 1
    /\ spc' = [spc EXCEPT ![r] = "done"]
    /\ UNCHANGED <<storeVars, lastEvent, handlerVars, rpc, notified, aborted,
                   discardVars, processVars>>

Supervisor(r) ==
    \/ SupervisorSpawn(r)
    \/ SupervisorCancel(r)
    \/ SupervisorJoin(r)
    \/ SupervisorGet(r, "cancelGet", "cancelSet")
    \/ SupervisorSet(r, "cancelSet", "canceled")
    \/ SupervisorGet(r, "panicGet", "panicSet")
    \/ SupervisorSet(r, "panicSet", "error")
    \/ SupervisorEnd(r)

-----------------------------------------------------------------------------
(* The runner task, run_job.  An abort() takes effect only where the task  *)
(* yields, so an aborted runner may take further steps of its current poll *)
(* before it disappears (RunnerDropped).                                   *)

RunnerFrame == UNCHANGED <<permits, registry, handlerVars, spc, notified,
                           aborted, discardVars, processVars>>

RunnerGoto(r, from, to) ==
    rpc[r] = from /\ rpc' = [rpc EXCEPT ![r] = to]

\* set_status(Queued), then Started; a store error ends the run here.
RunnerQueue(r) ==
    /\ \/ /\ RunnerGoto(r, "queue", "run")
          /\ set_status(target[r], "queued")
          /\ publish(target[r], "started")
       \/ /\ RunnerGoto(r, "queue", "done")
          /\ MayFail(target[r])
          /\ UNCHANGED <<status, lastEvent>>
    /\ UNCHANGED <<progress, assets, bytes>>
    /\ RunnerFrame

\* set_status(Running); a store error ends the run here.
RunnerRun(r) ==
    /\ \/ /\ RunnerGoto(r, "run", "p10")
          /\ set_status(target[r], "running")
       \/ /\ RunnerGoto(r, "run", "done")
          /\ MayFail(target[r])
          /\ UNCHANGED status
    /\ UNCHANGED <<progress, assets, bytes, lastEvent>>
    /\ RunnerFrame

\* A best-effort progress write, then its event.
RunnerProgress(r, from, p, kind, to) ==
    /\ RunnerGoto(r, from, to)
    /\ TrySetProgress(target[r], p)
    /\ publish(target[r], kind)
    /\ UNCHANGED <<status, assets, bytes>>
    /\ RunnerFrame

\* executor.run_sync returns a result, an error, or panics.
RunnerExecuted(r) ==
    /\ \E to \in {"p80ok", "p80err", "panicked"} : RunnerGoto(r, "exec", to)
    /\ UNCHANGED <<storeVars, lastEvent>>
    /\ RunnerFrame

\* Faulty variant: no timeout around the executor.
RunnerNoTimeout(r) ==
    /\ FALSE
    /\ RunnerGoto(r, "exec", "error")

\* tokio::time::timeout elapses: the executor's future is dropped.
RunnerTimeout(r) ==
    /\ RunnerGoto(r, "exec", "error")
    /\ UNCHANGED <<storeVars, lastEvent>>
    /\ RunnerFrame

\* files.put of the result bytes.  On disk it also fails when a client made a
\* directory of the asset's name (PUT /files/{job}/{asset}%2F...).
RunnerPut(r) ==
    /\ \/ /\ RunnerGoto(r, "put", "asset")
          /\ put(target[r], r)
       \/ /\ RunnerGoto(r, "put", "error")
          /\ StoreFaults \/ (DurableFiles /\ target[r] \in Touched)
          /\ UNCHANGED bytes
    /\ UNCHANGED <<status, progress, assets, lastEvent>>
    /\ RunnerFrame

\* Faulty variant: the result of add_asset is ignored.
RunnerAssetIgnored(r) ==
    /\ RunnerGoto(r, "asset", "p95")
    /\ \/ add_asset(target[r], r)
       \/ MayFail(target[r]) /\ UNCHANGED assets
    /\ UNCHANGED <<status, progress, bytes, lastEvent>>
    /\ RunnerFrame

\* add_asset of the metadata; its failure fails the job.
RunnerAsset(r) ==
    /\ \/ /\ RunnerGoto(r, "asset", "p95")
          /\ add_asset(target[r], r)
       \/ /\ RunnerGoto(r, "asset", "error")
          /\ MayFail(target[r])
          /\ UNCHANGED assets
    /\ UNCHANGED <<status, progress, bytes, lastEvent>>
    /\ RunnerFrame

\* Faulty variant: returns before the last progress write and event.
RunnerFinishSilent(r) ==
    /\ RunnerGoto(r, "finish", "done")
    /\ TrySetStatus(target[r], "finished")
    /\ UNCHANGED <<progress, assets, bytes, lastEvent>>
    /\ RunnerFrame

\* set_status(Finished); a store error ends the run here.
RunnerFinish(r) ==
    /\ \/ /\ RunnerGoto(r, "finish", "p100")
          /\ set_status(target[r], "finished")
       \/ /\ RunnerGoto(r, "finish", "done")
          /\ MayFail(target[r])
          /\ UNCHANGED status
    /\ UNCHANGED <<progress, assets, bytes, lastEvent>>
    /\ RunnerFrame

\* Every failure path: best-effort set_status(Error), Failed, return.
RunnerError(r) ==
    /\ RunnerGoto(r, "error", "done")
    /\ TrySetStatus(target[r], "error")
    /\ publish(target[r], "failed")
    /\ UNCHANGED <<progress, assets, bytes>>
    /\ RunnerFrame

\* The runtime drops an aborted task.
RunnerDropped(r) ==
    /\ aborted[r]
    /\ RunnerIsLive(r)
    /\ rpc' = [rpc EXCEPT ![r] = "done"]
    /\ UNCHANGED <<storeVars, lastEvent>>
    /\ RunnerFrame

\* The steps of run_job other than the executor's answer.
RunnerStep(r) ==
    \/ RunnerQueue(r)
    \/ RunnerRun(r)
    \/ RunnerProgress(r, "p10", 10, "progress", "exec")
    \/ RunnerProgress(r, "p80ok", 80, "progress", "put")
    \/ RunnerProgress(r, "p80err", 80, "progress", "error")
    \/ RunnerPut(r)
    \/ RunnerAsset(r)
    \/ RunnerProgress(r, "p95", 95, "progress", "finish")
    \/ RunnerFinish(r)
    \/ RunnerProgress(r, "p100", 100, "completed", "done")
    \/ RunnerError(r)
    \/ RunnerDropped(r)

-----------------------------------------------------------------------------
(* The process.                                                            *)

\* The process is gone and comes back on the same --db-url: tasks, registry,
\* permits and subscribers are lost, job records are not, result bytes are lost only
\* without --files-dir; orphan recovery runs before the listener is bound, and
\* its failure is only logged.
Restart ==
    /\ restarts < MaxRestarts
    /\ restarts' = restarts + 1
    /\ \/ status' = recover_orphans
       \/ StoreFaults /\ UNCHANGED status
    /\ bytes' = IF DurableFiles THEN bytes ELSE [j \in Jobs |-> NoRun]
    /\ lastEvent' = [j \in Jobs |-> "none"]
    /\ permits' = MaxConcurrentJobs
    /\ registry' = [j \in Jobs |-> NoRun]
    /\ hpc' = [r \in Runs |-> IF hpc[r] = "idle" THEN "idle" ELSE "done"]
    /\ spc' = [r \in Runs |-> IF spc[r] = "none" THEN "none" ELSE "done"]
    /\ rpc' = [r \in Runs |-> IF spc[r] = "none" THEN "none" ELSE "done"]
    /\ notified' = [r \in Runs |-> FALSE]
    /\ aborted' = [r \in Runs |-> FALSE]
    /\ dpc' = [d \in Discards |-> IF dpc[d] = "idle" THEN "idle" ELSE "done"]
    /\ phase' = "up"
    /\ draining' = {}
    /\ UNCHANGED <<progress, assets, target, dtarget>>

\* The process dies between any two steps.
Crash == Restart

\* SIGTERM or Ctrl-C: axum stops accepting requests.
ShutdownSignal ==
    /\ phase = "up"
    /\ restarts < MaxRestarts
    /\ phase' = "stopping"
    /\ UNCHANGED <<storeVars, lastEvent, permits, registry, handlerVars,
                   taskVars, discardVars, draining, restarts>>

\* The in-flight requests are answered; drain() takes every registered handle.
DrainStart ==
    /\ phase = "stopping"
    /\ \A r \in Runs : hpc[r] \in {"idle", "done"}
    /\ \A d \in Discards : dpc[d] \in {"idle", "done"}
    /\ phase' = "draining"
    /\ draining' = {registry[j] : j \in Jobs} \ {NoRun}
    /\ registry' = [j \in Jobs |-> NoRun]
    /\ UNCHANGED <<storeVars, lastEvent, permits, handlerVars, taskVars,
                   discardVars, restarts>>

DrainComplete == phase = "draining" /\ \A r \in draining : spc[r] = "done"

\* drain() returns, all handles joined or the deadline passed: main returns,
\* and the process is started again.
DrainEnd == phase = "draining" /\ Restart

-----------------------------------------------------------------------------
HandlerStep(r) == StartAdmit(r) \/ StartQueueFull(r) \/ StartRegister(r)
DiscardStep(d) == DiscardCancel(d) \/ DiscardSet(d)

Next ==
    \/ \E j \in Jobs : create_job(j) \/ delete_job(j)
    \/ \E j \in Jobs : upload_file(j) \/ delete_file(j)
    \/ \E r \in Runs, j \in Jobs : StartGet(r, j)
    \/ \E r \in Runs : HandlerStep(r)
    \/ \E d \in Discards, j \in Jobs : DiscardGet(d, j)
    \/ \E d \in Discards : DiscardStep(d)
    \/ \E r \in Runs : Supervisor(r)
    \/ \E r \in Runs : RunnerStep(r) \/ RunnerExecuted(r) \/ RunnerTimeout(r)
    \/ Crash
    \/ ShutdownSignal
    \/ DrainStart
    \/ DrainEnd

\* Spawned tasks and accepted requests are polled until they end; the
\* executor may hang, but its timeout fires; a shutdown in progress goes on.
\* Nothing makes a client send a request or the process crash.
Fairness ==
    /\ \A r \in Runs : /\ WF_vars(HandlerStep(r))
                       /\ WF_vars(Supervisor(r))
                       /\ WF_vars(RunnerStep(r))
                       /\ WF_vars(RunnerTimeout(r))
    /\ \A d \in Discards : WF_vars(DiscardStep(d))
    /\ WF_vars(DrainStart)
    /\ WF_vars(DrainEnd)

Spec == Init /\ [][Next]_vars
FairSpec == Spec /\ Fairness

-----------------------------------------------------------------------------
(* Properties that hold in every configuration.                            *)

\* Every variable has its type.
TypeOK ==
    /\ status \in [Jobs -> JobStatus \cup {"none", "deleted"}]
    /\ progress \in [Jobs -> 0..100]
    /\ assets \in [Jobs -> Seq(Runs)]
    /\ bytes \in [Jobs -> Runs \cup {NoRun, Uploaded, Erased}]
    /\ lastEvent \in [Jobs -> JobEventKind \cup {"none"}]
    /\ permits \in Nat
    /\ registry \in [Jobs -> Runs \cup {NoRun}]
    /\ target \in [Runs -> Jobs \cup {NoJob}]
    /\ hpc \in [Runs -> HandlerPc]
    /\ spc \in [Runs -> SupervisorPc]
    /\ rpc \in [Runs -> RunnerPc]
    /\ notified \in [Runs -> BOOLEAN]
    /\ aborted \in [Runs -> BOOLEAN]
    /\ dpc \in [Discards -> DiscardPc]
    /\ dtarget \in [Discards -> Jobs \cup {NoJob}]
    /\ phase \in {"up", "stopping", "draining"}
    /\ draining \subseteq Runs
    /\ restarts \in Nat

\* The concurrency cap start_processing enforces: however starts, cancels,
\* panics, failures and restarts interleave, at most MaxConcurrentJobs
\* run_job tasks that nobody aborted exist at a time.
RunnersBounded ==
    Cardinality({r \in Runs : RunnerIsLive(r) /\ ~aborted[r]})
        <= MaxConcurrentJobs

\* The permit of a run is neither leaked nor returned twice on any path
\* through the supervisor (join, panic, cancel, store error).
PermitsAccounted ==
    permits + Cardinality({r \in Runs : SupervisorLive(r)})
        = MaxConcurrentJobs

\* The semaphore does its work: it caps the runners of start_processing, and no
\* permit is lost that a later start would need.
CapacityHolds == RunnersBounded /\ PermitsAccounted

\* A job reported finished has an asset entry and stored bytes behind it, so
\* GET /jobs/{id}/results lists something that can be downloaded, whatever
\* failed, crashed or was cancelled in earlier runs of the job: the service
\* itself never drops a result, and the bytes are those of a run unless a client
\* overwrote or removed the file through /files/{job_id}/{asset}, which nothing
\* forbids.  (It holds for durable files; with --db-url but no --files-dir a
\* restart breaks it.)
FinishedIsServable ==
    \A j \in Jobs : status[j] = "finished" =>
        /\ assets[j] # << >>
        /\ \/ bytes[j] \in Runs
           \/ j \in Touched /\ bytes[j] \in {Uploaded, Erased}

\* No late write of a runner, a supervisor or a cancel request brings a
\* deleted job's record back, or gives it a status.
DeletedForever ==
    [][\A j \in Jobs : status[j] = "deleted" => status'[j] = "deleted"]_vars

\* Every start the service accepts ends: its supervisor finishes and its
\* permit is dropped, even if the executor hangs or store calls fail.
AcceptedRunEnds ==
    \A r \in Runs : SupervisorLive(r) ~> spc[r] = "done"

-----------------------------------------------------------------------------
(* Properties that hold without cancel requests and store faults.          *)

\* A queued or running job has a run_job task, or a supervisor, that will
\* still write a terminal status: no interleaving of runs, panics, timeouts
\* and restarts leaves a job in progress with nobody working on it.
ActiveHasDriver ==
    \A j \in Jobs : status[j] \in Active =>
        \E r \in Runs : target[r] = j /\ (RunnerIsLive(r) \/ SupervisorLive(r))

\* A job in progress leaves that state (job timeout, orphan recovery).
ActiveSettles ==
    \A j \in Jobs : status[j] \in Active ~> status[j] \notin Active

-----------------------------------------------------------------------------
(* Properties that hold when in addition starts are serial.                *)

NoTaskOf(j) ==
    \A r \in Runs : target[r] = j =>
        ~RunnerIsLive(r) /\ ~SupervisorLive(r) /\ hpc[r] \in {"idle", "done"}

\* When nothing runs for a finished job, its progress reads 100 and, unless
\* the process was restarted since, Completed is the last event published.
FinishedIsAnnounced ==
    \A j \in Jobs : status[j] = "finished" /\ NoTaskOf(j) =>
        /\ lastEvent[j] \in {"completed", "none"}
        /\ restarts = 0 => progress[j] = 100

\* While a job is finished or failed nothing but a new start or a deletion
\* changes what its record says: status, assets and bytes (the latter but for
\* what a client does itself through the /files routes).
SettledIsStable ==
    [][\A j \in Jobs :
         /\ status[j] \in {"finished", "error"}
         /\ \A r \in Runs : target[r] = j => ~RunnerIsLive(r) /\ spc[r] # "spawn"
         => /\ status'[j] \in {status[j], "deleted"}
            /\ assets'[j] = assets[j] \/ status'[j] = "deleted"
            /\ \/ bytes'[j] = bytes[j]
               \/ j \in Touched /\ bytes'[j] \in {Uploaded, Erased}]_vars

\* What GET /jobs/{id}/results hands out: the status, the asset entry and the
\* bytes are three writes of run_job, to two stores.  A file that a client took
\* away itself is still offered.
Servable == {j \in Jobs : status[j] = "finished" /\ assets[j] # << >> /\ bytes[j] # NoRun}

\* The life cycle that JobStatus documents, as an abstract specification: to a
\* client the writes of handlers, supervisors, runners and orphan recovery look
\* like one record that moves from state to state and whose results appear with
\* Finished and vanish with the next start or the deletion.
Lifecycle == INSTANCE JobLifecycle WITH Jobs <- Jobs, status <- status, served <- Servable
ImplementsLifecycle == Lifecycle!Spec

-----------------------------------------------------------------------------
(* Statements of the repository that the code does not satisfy.            *)

\* routes/jobs.rs: starting a job that is already queued or running "must NOT
\* spawn a second runner".
AtMostOneRunner ==
    \A r1, r2 \in Runs :
        r1 # r2 /\ RunnerIsLive(r1) /\ RunnerIsLive(r2) => target[r1] # target[r2]

\* job_registry.rs: graceful shutdown drains in-flight jobs "instead of
\* dropping them": when drain() has joined its handles, no job is in flight.
DrainCoversAll ==
    DrainComplete => \A r \in Runs : ~SupervisorLive(r)

\* job_store.rs: JobAsset.size is the "Byte count of the stored object": the
\* entry download_asset finds describes the bytes it serves.
ServedSizeIsStoredSize ==
    \A j \in Jobs : status[j] = "finished" => Head(assets[j]) = bytes[j]

\* job_registry.rs: of a cancelled run "its result is discarded and the job is
\* marked `Canceled`": once its tasks are gone the job is not in progress.
CancelledIsNotInProgress ==
    \A r \in Runs : aborted[r] /\ NoTaskOf(target[r]) =>
        status[target[r]] \notin Active
=============================================================================
