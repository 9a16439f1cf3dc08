-------------------------- MODULE JobServiceProofs --------------------------
(***************************************************************************)
(* Theorems about JobService, for any jobs, start and cancel requests,     *)
(* permits, faults and restarts.                                           *)
(*                                                                         *)
(* The inductive invariant adds to the stated properties how a request's   *)
(* handler, its supervisor and its runner constrain each other (Links) and *)
(* what a runner that got past put and add_asset has left behind           *)
(* (ResultKept).                                                           *)
(* Without cancels and store faults every active job is Driven; with a     *)
(* serial client an unfinished run is alone with its job (OneAtATime) and  *)
(* its place tells the job's status (StatusTied), which carries the        *)
(* refinement of JobLifecycle.                                             *)
(***************************************************************************)
EXTENDS JobService, FiniteSetTheorems, TLAPS

\* How far handler, supervisor and runner of one start request can be.
Links ==
    \A r \in Runs :
        /\ hpc[r] # "idle" => target[r] \in Jobs
        /\ hpc[r] \in {"idle", "admit"} => spc[r] = "none"
        /\ spc[r] \in {"none", "spawn"} => rpc[r] = "none"
        /\ RunnerIsLive(r) /\ ~aborted[r] => spc[r] = "select"

DiscardLinks ==
    \A d \in Discards : dpc[d] # "idle" => dtarget[d] \in Jobs

\* A runner beyond put has left bytes, one beyond add_asset an asset entry
\* (unless the record was deleted); what a client does to the bytes afterwards
\* leaves its own mark, never NoRun.
ResultKept ==
    \A r \in Runs :
        /\ rpc[r] \in {"asset", "p95", "finish"} => bytes[target[r]] # NoRun
        /\ rpc[r] \in {"p95", "finish"}
             => assets[target[r]] # << >> \/ status[target[r]] = "deleted"

ResultThere ==
    \A j \in Jobs : status[j] = "finished" => assets[j] # << >> /\ bytes[j] # NoRun

ResultInv == ResultKept /\ ResultThere

\* Only where a client uses the /files routes is there anything but a result.
ClientsOwn == \A j \in Jobs : bytes[j] \in {Uploaded, Erased} => j \in Touched

IInv == TypeOK /\ Links /\ DiscardLinks /\ PermitsAccounted

-----------------------------------------------------------------------------
\* A request that has a task names a job.
LEMMA TargetIsJob ==
    ASSUME TypeOK, Links, NEW r \in Runs, spc[r] # "none" \/ rpc[r] # "none"
    PROVE  target[r] \in Jobs
BY DEF TypeOK, Links, HandlerPc

StatusType == [Jobs -> JobStatus \cup {"none", "deleted"}]

\* What the store operations leave behind is well typed.
LEMMA StatusTyped ==
    ASSUME TypeOK, NEW j \in Jobs, NEW s \in JobStatus, TrySetStatus(j, s)
    PROVE  status' \in StatusType
BY DEF TypeOK, TrySetStatus, set_status, StatusType

LEMMA ProgressTyped ==
    ASSUME TypeOK, NEW j \in Jobs, NEW p \in 0..100, TrySetProgress(j, p)
    PROVE  progress' \in [Jobs -> 0..100]
BY DEF TypeOK, TrySetProgress, set_progress

LEMMA AssetsTyped ==
    ASSUME TypeOK, NEW j \in Jobs, NEW r \in Runs, add_asset(j, r)
    PROVE  assets' \in [Jobs -> Seq(Runs)]
BY DEF TypeOK, add_asset

LEMMA BytesTyped ==
    ASSUME TypeOK, NEW j \in Jobs, NEW r \in Runs, put(j, r)
    PROVE  bytes' \in [Jobs -> Runs \cup {NoRun, Uploaded, Erased}]
BY DEF TypeOK, put

LEMMA EventTyped ==
    ASSUME TypeOK, NEW j \in Jobs, NEW kind \in JobEventKind, publish(j, kind)
    PROVE  lastEvent' \in [Jobs -> JobEventKind \cup {"none"}]
BY DEF TypeOK, publish

\* The progress steps of run_job keep the types.
LEMMA ProgressTypeStep ==
    ASSUME TypeOK, Links, NEW r \in Runs, NEW from \in RunnerLive,
           NEW p \in 0..100, NEW kind \in JobEventKind, NEW to \in RunnerPc,
           RunnerProgress(r, from, p, kind, to)
    PROVE  TypeOK'
<1>1. target[r] \in Jobs
  BY TargetIsJob DEF RunnerProgress, RunnerGoto, RunnerLive
<1>2. /\ progress' \in [Jobs -> 0..100]
      /\ lastEvent' \in [Jobs -> JobEventKind \cup {"none"}]
  BY <1>1, ProgressTyped, EventTyped DEF RunnerProgress
<1> QED
  BY <1>2 DEF TypeOK, RunnerProgress, RunnerFrame, RunnerGoto, handlerVars,
              discardVars, processVars

\* Every step keeps every variable in its type.
LEMMA TypeStep ==
    TypeOK /\ Links /\ DiscardLinks /\ [Next]_vars => TypeOK'
<1> SUFFICES ASSUME TypeOK, Links, DiscardLinks, [Next]_vars PROVE TypeOK'
    OBVIOUS
<1> USE DEF TypeOK
<1>1. ASSUME NEW j \in Jobs, create_job(j) PROVE TypeOK'
  BY <1>1 DEF create_job, JobStatus, handlerVars, taskVars, discardVars,
              processVars
<1>2. ASSUME NEW j \in Jobs, delete_job(j) PROVE TypeOK'
  BY <1>2 DEF delete_job, handlerVars, taskVars, discardVars, processVars
<1>3. ASSUME NEW r \in Runs, NEW j \in Jobs, StartGet(r, j) PROVE TypeOK'
  BY <1>3 DEF StartGet, HandlerPc, storeVars, taskVars, discardVars,
              processVars
<1>4. ASSUME NEW r \in Runs, HandlerStep(r) PROVE TypeOK'
  <2>1. CASE StartAdmit(r)
    BY <2>1 DEF StartAdmit, HandlerPc, SupervisorPc, storeVars, discardVars,
                processVars
  <2>2. CASE StartQueueFull(r)
    BY <2>2 DEF StartQueueFull, HandlerPc, storeVars, taskVars, discardVars,
                processVars
  <2>3. CASE StartRegister(r)
    BY <2>3 DEF StartRegister, Links, HandlerPc, storeVars, taskVars,
                discardVars, processVars
  <2> QED BY <1>4, <2>1, <2>2, <2>3 DEF HandlerStep
<1>5. ASSUME NEW d \in Discards, NEW j \in Jobs, DiscardGet(d, j) PROVE TypeOK'
  BY <1>5 DEF DiscardGet, DiscardPc, storeVars, handlerVars, taskVars,
              processVars
<1>6. ASSUME NEW d \in Discards, DiscardStep(d) PROVE TypeOK'
  <2>1. CASE DiscardCancel(d)
    BY <2>1 DEF DiscardCancel, DiscardPc, storeVars, handlerVars, processVars
  <2>2. CASE DiscardSet(d)
    <3>1. status' \in StatusType
      BY <2>2, StatusTyped DEF DiscardSet, DiscardLinks, JobStatus
    <3> QED
      BY <2>2, <3>1 DEF DiscardSet, StatusType, DiscardPc, handlerVars,
                        taskVars, processVars
  <2> QED BY <1>6, <2>1, <2>2 DEF DiscardStep
<1>7. ASSUME NEW r \in Runs, Supervisor(r) PROVE TypeOK'
  <2> USE DEF SupervisorPc, handlerVars, discardVars, processVars
  <2>1. CASE SupervisorSpawn(r)
    BY <2>1 DEF SupervisorSpawn, RunnerPc, RunnerLive, storeVars
  <2>2. CASE SupervisorCancel(r)
    BY <2>2 DEF SupervisorCancel, storeVars
  <2>3. CASE SupervisorJoin(r)
    BY <2>3 DEF SupervisorJoin, storeVars
  <2>4. ASSUME NEW from, NEW to \in SupervisorPc, SupervisorGet(r, from, to)
        PROVE TypeOK'
    <3>1. spc' \in [Runs -> SupervisorPc]
      BY <2>4 DEF SupervisorGet
    <3> QED BY <2>4, <3>1 DEF SupervisorGet, storeVars
  <2>5. ASSUME NEW from \in SupervisorPc \ {"none"}, NEW s \in JobStatus,
               SupervisorSet(r, from, s)
        PROVE TypeOK'
    <3>1. status' \in StatusType
      BY <2>5, TargetIsJob, StatusTyped DEF SupervisorSet
    <3> QED BY <2>5, <3>1 DEF SupervisorSet, StatusType
  <2>6. CASE SupervisorEnd(r)
    <3>1. registry' \in [Jobs -> Runs \cup {NoRun}]
      BY <2>6, TargetIsJob DEF SupervisorEnd, deregister
    <3> QED BY <2>6, <3>1 DEF SupervisorEnd, storeVars
  <2> QED BY <1>7, <2>1, <2>2, <2>3, <2>4, <2>5, <2>6 DEF Supervisor, JobStatus
<1>8. ASSUME NEW r \in Runs,
             RunnerStep(r) \/ RunnerExecuted(r) \/ RunnerTimeout(r)
      PROVE TypeOK'
  <2> USE DEF RunnerFrame, RunnerGoto, RunnerPc, RunnerLive, handlerVars,
              discardVars, processVars
  <2>0. target[r] \in Jobs \/ rpc[r] = "none"
    BY TargetIsJob
  <2>1. CASE RunnerQueue(r)
    <3>1. status' \in StatusType /\ lastEvent' \in [Jobs -> JobEventKind \cup {"none"}]
      BY <2>0, <2>1, StatusTyped, EventTyped
      DEF RunnerQueue, TrySetStatus, StatusType, JobStatus, JobEventKind
    <3> QED BY <2>1, <3>1 DEF RunnerQueue, StatusType
  <2>2. CASE RunnerRun(r)
    <3>1. status' \in StatusType
      BY <2>0, <2>2, StatusTyped DEF RunnerRun, TrySetStatus, StatusType, JobStatus
    <3> QED BY <2>2, <3>1 DEF RunnerRun, StatusType
  <2>4. CASE RunnerPut(r)
    <3>1. bytes' \in [Jobs -> Runs \cup {NoRun, Uploaded, Erased}]
      BY <2>0, <2>4, BytesTyped DEF RunnerPut
    <3>2. rpc' \in [Runs -> RunnerPc]
      BY <2>4 DEF RunnerPut
    <3> QED BY <2>4, <3>1, <3>2 DEF RunnerPut
  <2>5. CASE RunnerAsset(r)
    <3>1. assets' \in [Jobs -> Seq(Runs)]
      BY <2>0, <2>5, AssetsTyped DEF RunnerAsset
    <3> QED BY <2>5, <3>1 DEF RunnerAsset
  <2>6. CASE RunnerFinish(r)
    <3>1. status' \in StatusType
      BY <2>0, <2>6, StatusTyped DEF RunnerFinish, TrySetStatus, StatusType, JobStatus
    <3> QED BY <2>6, <3>1 DEF RunnerFinish, StatusType
  <2>7. CASE RunnerError(r)
    <3>1. status' \in StatusType /\ lastEvent' \in [Jobs -> JobEventKind \cup {"none"}]
      BY <2>0, <2>7, StatusTyped, EventTyped DEF RunnerError, JobStatus, JobEventKind
    <3> QED BY <2>7, <3>1 DEF RunnerError, StatusType
  <2>8. CASE RunnerDropped(r)
    BY <2>8 DEF RunnerDropped, storeVars
  <2>9. CASE RunnerExecuted(r)
    BY <2>9 DEF RunnerExecuted, storeVars
  <2>10. CASE RunnerTimeout(r)
    BY <2>10 DEF RunnerTimeout, storeVars
  <2>3. /\ {"p10", "p80ok", "p80err", "p95", "p100"} \subseteq RunnerLive
        /\ {"exec", "put", "error", "finish", "done"} \subseteq RunnerPc
        /\ {10, 80, 95, 100} \subseteq 0..100
        /\ {"progress", "completed"} \subseteq JobEventKind
    BY DEF JobEventKind
  <2> HIDE DEF TypeOK, RunnerFrame, RunnerGoto, RunnerLive, RunnerPc
  <2>11. CASE RunnerProgress(r, "p10", 10, "progress", "exec")
    BY <2>3, <2>11, ProgressTypeStep, Zenon
  <2>12. CASE RunnerProgress(r, "p80ok", 80, "progress", "put")
    BY <2>3, <2>12, ProgressTypeStep, Zenon
  <2>13. CASE RunnerProgress(r, "p80err", 80, "progress", "error")
    BY <2>3, <2>13, ProgressTypeStep, Zenon
  <2>14. CASE RunnerProgress(r, "p95", 95, "progress", "finish")
    BY <2>3, <2>14, ProgressTypeStep, Zenon
  <2>15. CASE RunnerProgress(r, "p100", 100, "completed", "done")
    BY <2>3, <2>15, ProgressTypeStep, Zenon
  <2> QED
    BY <1>8, <2>1, <2>2, <2>4, <2>5, <2>6, <2>7, <2>8, <2>9, <2>10, <2>11,
       <2>12, <2>13, <2>14, <2>15 DEF RunnerStep
<1>9. CASE Restart
  BY <1>9, ConstantsAssumption DEF Restart, recover_orphans, JobStatus, Active, HandlerPc,
              SupervisorPc, RunnerPc, DiscardPc
<1>10. CASE ShutdownSignal
  BY <1>10 DEF ShutdownSignal, storeVars, handlerVars, taskVars, discardVars
<1>11. CASE DrainStart
  BY <1>11 DEF DrainStart, storeVars, handlerVars, taskVars, discardVars
<1>12. CASE UNCHANGED vars
  BY <1>12 DEF vars, storeVars, handlerVars, taskVars, discardVars, processVars
<1>13. ASSUME NEW j \in Jobs, upload_file(j) \/ delete_file(j) PROVE TypeOK'
  BY <1>13 DEF upload_file, delete_file, handlerVars, taskVars, discardVars,
               processVars
<1> QED
  BY <1>1, <1>2, <1>3, <1>4, <1>5, <1>6, <1>7, <1>8, <1>9, <1>10, <1>11, <1>12,
     <1>13
  DEF Next, Crash, DrainEnd

-----------------------------------------------------------------------------
\* The /files routes change stored bytes and nothing else.
LEMMA FileRouteFrame ==
    ASSUME NEW j \in Jobs, upload_file(j) \/ delete_file(j)
    PROVE  /\ UNCHANGED <<status, progress, assets, lastEvent, permits, registry>>
           /\ UNCHANGED <<handlerVars, taskVars, discardVars, processVars>>
           /\ UNCHANGED <<target, hpc, spc, rpc, notified, aborted, restarts>>
           /\ bytes' = [bytes EXCEPT ![j] = Uploaded] \/ bytes' = [bytes EXCEPT ![j] = Erased]
           /\ j \in Touched
BY DEF upload_file, delete_file, handlerVars, taskVars, discardVars, processVars

\* The types of the variables Links is about.
TaskTypes ==
    /\ target \in [Runs -> Jobs \cup {NoJob}]
    /\ hpc \in [Runs -> HandlerPc]
    /\ spc \in [Runs -> SupervisorPc]
    /\ rpc \in [Runs -> RunnerPc]
    /\ aborted \in [Runs -> BOOLEAN]

LEMMA TaskTyped == TypeOK => TaskTypes
BY DEF TypeOK, TaskTypes

\* A step of one runner alone moves its program counter from a live place.
RunnerMove(r) ==
    /\ rpc[r] \in RunnerLive
    /\ \E to \in RunnerPc : rpc' = [rpc EXCEPT ![r] = to]
    /\ UNCHANGED <<target, hpc, spc, aborted>>

LEMMA RunnerMoves ==
    ASSUME NEW r \in Runs, RunnerStep(r) \/ RunnerExecuted(r) \/ RunnerTimeout(r)
    PROVE  RunnerMove(r)
<1> USE DEF RunnerMove, RunnerGoto, RunnerFrame, RunnerPc, RunnerLive,
            handlerVars
<1>1. CASE RunnerQueue(r) BY <1>1 DEF RunnerQueue
<1>2. CASE RunnerRun(r) BY <1>2 DEF RunnerRun
<1>3. ASSUME NEW from \in RunnerLive, NEW p, NEW kind, NEW to \in RunnerPc,
             RunnerProgress(r, from, p, kind, to)
      PROVE RunnerMove(r)
  BY <1>3 DEF RunnerProgress
<1>4. CASE RunnerPut(r) BY <1>4 DEF RunnerPut
<1>5. CASE RunnerAsset(r) BY <1>5 DEF RunnerAsset
<1>6. CASE RunnerFinish(r) BY <1>6 DEF RunnerFinish
<1>7. CASE RunnerError(r) BY <1>7 DEF RunnerError
<1>8. CASE RunnerDropped(r) BY <1>8 DEF RunnerDropped, RunnerIsLive
<1>9. CASE RunnerExecuted(r) BY <1>9 DEF RunnerExecuted
<1>10. CASE RunnerTimeout(r) BY <1>10 DEF RunnerTimeout
<1>11. /\ {"p10", "p80ok", "p80err", "p95", "p100"} \subseteq RunnerLive
       /\ {"exec", "put", "error", "finish", "done"} \subseteq RunnerPc
  OBVIOUS
<1> HIDE DEF RunnerMove, RunnerGoto, RunnerFrame, RunnerPc, RunnerLive,
            handlerVars
<1>12. CASE RunnerProgress(r, "p10", 10, "progress", "exec")
  BY <1>3, <1>11, <1>12, Zenon
<1>13. CASE RunnerProgress(r, "p80ok", 80, "progress", "put")
  BY <1>3, <1>11, <1>13, Zenon
<1>14. CASE RunnerProgress(r, "p80err", 80, "progress", "error")
  BY <1>3, <1>11, <1>14, Zenon
<1>15. CASE RunnerProgress(r, "p95", 95, "progress", "finish")
  BY <1>3, <1>11, <1>15, Zenon
<1>16. CASE RunnerProgress(r, "p100", 100, "completed", "done")
  BY <1>3, <1>11, <1>16, Zenon
<1> QED
  BY <1>1, <1>2, <1>4, <1>5, <1>6, <1>7, <1>8, <1>9, <1>10, <1>12, <1>13,
     <1>14, <1>15, <1>16 DEF RunnerStep

\* A handler, its supervisor and its runner stay in step.
LEMMA LinksStep == TypeOK /\ Links /\ [Next]_vars => Links'
<1> SUFFICES ASSUME TaskTypes, Links, [Next]_vars PROVE Links'
    BY TaskTyped
<1> USE DEF TaskTypes, Links, RunnerIsLive
<1>1. ASSUME NEW j \in Jobs, create_job(j) \/ delete_job(j) PROVE Links'
  BY <1>1 DEF create_job, delete_job, handlerVars, taskVars
<1>2. ASSUME NEW r \in Runs, NEW j \in Jobs, StartGet(r, j) PROVE Links'
  BY <1>2 DEF StartGet, taskVars
<1>3. ASSUME NEW r \in Runs, HandlerStep(r) PROVE Links'
  <2>1. CASE StartAdmit(r)
    BY <2>1 DEF StartAdmit, RunnerLive
  <2>2. CASE StartQueueFull(r)
    BY <2>2 DEF StartQueueFull, taskVars
  <2>3. CASE StartRegister(r)
    BY <2>3 DEF StartRegister, taskVars
  <2> QED BY <1>3, <2>1, <2>2, <2>3 DEF HandlerStep
<1>4. ASSUME NEW d \in Discards, NEW j \in Jobs, DiscardGet(d, j) PROVE Links'
  BY <1>4 DEF DiscardGet, handlerVars, taskVars
<1>5. ASSUME NEW d \in Discards, DiscardStep(d) PROVE Links'
  BY <1>5 DEF DiscardStep, DiscardCancel, DiscardSet, handlerVars, taskVars
<1>6. ASSUME NEW r \in Runs, Supervisor(r) PROVE Links'
  <2> USE DEF handlerVars
  <2>1. CASE SupervisorSpawn(r)
    BY <2>1 DEF SupervisorSpawn
  <2>2. CASE SupervisorCancel(r)
    BY <2>2 DEF SupervisorCancel
  <2>3. CASE SupervisorJoin(r)
    BY <2>3 DEF SupervisorJoin, RunnerLive
  <2>4. ASSUME NEW from \in {"cancelGet", "panicGet"},
               NEW to \in {"cancelSet", "panicSet"}, SupervisorGet(r, from, to)
        PROVE Links'
    BY <2>4 DEF SupervisorGet
  <2>5. ASSUME NEW from \in {"cancelSet", "panicSet"}, NEW s,
               SupervisorSet(r, from, s)
        PROVE Links'
    BY <2>5 DEF SupervisorSet
  <2>6. CASE SupervisorEnd(r)
    BY <2>6 DEF SupervisorEnd
  <2> HIDE DEF TaskTypes, Links, handlerVars
  <2> QED BY <1>6, <2>1, <2>2, <2>3, <2>4, <2>5, <2>6 DEF Supervisor
<1>7. ASSUME NEW r \in Runs, RunnerMove(r) PROVE Links'
  BY <1>7 DEF RunnerMove, RunnerLive, RunnerPc
<1>8. CASE Restart
  BY <1>8 DEF Restart, RunnerLive
<1>9. CASE ShutdownSignal \/ DrainStart
  BY <1>9 DEF ShutdownSignal, DrainStart, handlerVars, taskVars
<1>10. CASE UNCHANGED vars
  BY <1>10 DEF vars, handlerVars, taskVars
<1>11. ASSUME NEW j \in Jobs, upload_file(j) \/ delete_file(j) PROVE Links'
  BY <1>11, FileRouteFrame
<1> HIDE DEF TaskTypes, Links
<1> QED
  BY <1>1, <1>2, <1>3, <1>4, <1>5, <1>6, <1>7, <1>8, <1>9, <1>10, <1>11,
     RunnerMoves
  DEF Next, Crash, DrainEnd

\* A cancel request under way names a job.
LEMMA DiscardLinksStep ==
    TypeOK /\ DiscardLinks /\ [Next]_vars => DiscardLinks'
<1> SUFFICES ASSUME dpc \in [Discards -> DiscardPc],
                    dtarget \in [Discards -> Jobs \cup {NoJob}],
                    DiscardLinks, [Next]_vars
             PROVE  DiscardLinks'
    BY DEF TypeOK
<1> USE DEF DiscardLinks, discardVars
<1>1. ASSUME NEW d \in Discards, NEW j \in Jobs, DiscardGet(d, j)
      PROVE DiscardLinks'
  BY <1>1 DEF DiscardGet
<1>2. ASSUME NEW d \in Discards, DiscardStep(d) PROVE DiscardLinks'
  BY <1>2 DEF DiscardStep, DiscardCancel, DiscardSet
<1>3. CASE Restart
  BY <1>3 DEF Restart
<1>4. ASSUME UNCHANGED discardVars PROVE DiscardLinks'
  BY <1>4
<1>5. ASSUME NEW r \in Runs,
             RunnerStep(r) \/ RunnerExecuted(r) \/ RunnerTimeout(r)
      PROVE UNCHANGED discardVars
  BY <1>5 DEF RunnerStep, RunnerExecuted, RunnerTimeout, RunnerQueue,
      RunnerRun, RunnerProgress, RunnerPut, RunnerAsset, RunnerFinish,
      RunnerError, RunnerDropped, RunnerFrame
<1>6. ASSUME NEW r \in Runs, Supervisor(r) PROVE UNCHANGED discardVars
  BY <1>6 DEF Supervisor, SupervisorSpawn, SupervisorCancel, SupervisorJoin,
      SupervisorGet, SupervisorSet, SupervisorEnd
<1>7. CASE \/ \E j \in Jobs : create_job(j) \/ delete_job(j)
           \/ \E j \in Jobs : upload_file(j) \/ delete_file(j)
           \/ \E r \in Runs, j \in Jobs : StartGet(r, j)
           \/ \E r \in Runs : HandlerStep(r)
           \/ ShutdownSignal
           \/ DrainStart
           \/ UNCHANGED vars
  BY <1>4, <1>7, FileRouteFrame DEF create_job, delete_job, StartGet, HandlerStep, StartAdmit,
      StartQueueFull, StartRegister, ShutdownSignal, DrainStart, vars
<1> HIDE DEF DiscardLinks, discardVars
<1> QED
  BY <1>1, <1>2, <1>3, <1>4, <1>5, <1>6, <1>7 DEF Next, Crash, DrainEnd

-----------------------------------------------------------------------------
\* The supervisors that hold a permit.
Supervised == {r \in Runs : SupervisorLive(r)}

LEMMA SupervisedFinite == IsFiniteSet(Supervised) /\ Cardinality(Supervised) \in Nat
BY ConstantsAssumption, FS_Subset, FS_CardinalityType DEF Supervised

\* A step that moves no supervisor in or out keeps the account.
LEMMA PermitsFrame ==
    ASSUME PermitsAccounted, permits' = permits, Supervised' = Supervised
    PROVE  PermitsAccounted'
BY DEF PermitsAccounted, Supervised

\* Admission takes a permit for the supervisor it spawns, the supervisor's
\* last step gives it back, a restart starts with none out.
LEMMA PermitsStep ==
    TypeOK /\ Links /\ PermitsAccounted /\ [Next]_vars => PermitsAccounted'
<1> SUFFICES ASSUME spc \in [Runs -> SupervisorPc], permits \in Nat, Links,
                    PermitsAccounted, [Next]_vars
             PROVE  PermitsAccounted'
    BY DEF TypeOK
<1>1. ASSUME NEW r \in Runs, StartAdmit(r) PROVE PermitsAccounted'
  <2>1. r \notin Supervised /\ Supervised' = Supervised \cup {r}
    BY <1>1 DEF StartAdmit, Links, Supervised, SupervisorLive
  <2>2. Cardinality(Supervised') = Cardinality(Supervised) + 1
    BY <2>1, SupervisedFinite, FS_AddElement
  <2> QED
    BY <1>1, <2>2, SupervisedFinite
    DEF StartAdmit, PermitsAccounted, Supervised
<1>2. ASSUME NEW r \in Runs, SupervisorEnd(r) PROVE PermitsAccounted'
  <2>1. r \in Supervised /\ Supervised' = Supervised \ {r}
    BY <1>2 DEF SupervisorEnd, Supervised, SupervisorLive
  <2>2. Cardinality(Supervised') = Cardinality(Supervised) - 1
    BY <2>1, SupervisedFinite, FS_RemoveElement
  <2> QED
    BY <1>2, <2>2, SupervisedFinite
    DEF SupervisorEnd, PermitsAccounted, Supervised
<1>3. CASE Restart
  <2>1. Supervised' = {}
    BY <1>3 DEF Restart, Supervised, SupervisorLive
  <2>2. Cardinality(Supervised') = 0
    BY <2>1, FS_EmptySet
  <2>3. permits' = MaxConcurrentJobs /\ MaxConcurrentJobs \in Nat
    BY <1>3, ConstantsAssumption DEF Restart
  <2> QED BY <2>2, <2>3 DEF PermitsAccounted, Supervised
<1>4. ASSUME UNCHANGED <<spc, permits>> PROVE PermitsAccounted'
  BY <1>4, PermitsFrame DEF Supervised, SupervisorLive
<1>5. ASSUME NEW r \in Runs, Supervisor(r), ~SupervisorEnd(r)
      PROVE PermitsAccounted'
  <2>1. /\ spc[r] \notin {"none", "done"}
        /\ \E to \in SupervisorPc \ {"none", "done"} :
             spc' = [spc EXCEPT ![r] = to]
        /\ permits' = permits
    BY <1>5 DEF Supervisor, SupervisorSpawn, SupervisorCancel, SupervisorJoin,
        SupervisorGet, SupervisorSet, SupervisorPc
  <2>2. Supervised' = Supervised
    BY <2>1 DEF Supervised, SupervisorLive
  <2> QED BY <2>1, <2>2, PermitsFrame
<1>6. ASSUME NEW r \in Runs,
             RunnerStep(r) \/ RunnerExecuted(r) \/ RunnerTimeout(r)
      PROVE UNCHANGED <<spc, permits>>
  BY <1>6 DEF RunnerStep, RunnerExecuted, RunnerTimeout, RunnerQueue,
      RunnerRun, RunnerProgress, RunnerPut, RunnerAsset, RunnerFinish,
      RunnerError, RunnerDropped, RunnerFrame
<1>7. CASE \/ \E j \in Jobs : create_job(j) \/ delete_job(j)
           \/ \E j \in Jobs : upload_file(j) \/ delete_file(j)
           \/ \E r \in Runs, j \in Jobs : StartGet(r, j)
           \/ \E r \in Runs : StartQueueFull(r) \/ StartRegister(r)
           \/ \E d \in Discards, j \in Jobs : DiscardGet(d, j)
           \/ \E d \in Discards : DiscardStep(d)
           \/ ShutdownSignal
           \/ DrainStart
           \/ UNCHANGED vars
  BY <1>4, <1>7, FileRouteFrame DEF create_job, delete_job, StartGet, StartQueueFull,
      StartRegister, DiscardGet, DiscardStep, DiscardCancel, DiscardSet,
      ShutdownSignal, DrainStart, vars, taskVars
<1> QED
  BY <1>1, <1>2, <1>3, <1>4, <1>5, <1>6, <1>7
  DEF Next, HandlerStep, Crash, DrainEnd

-----------------------------------------------------------------------------
\* The types of the variables ResultInv is about.
ResultTypes ==
    /\ status \in StatusType
    /\ assets \in [Jobs -> Seq(Runs)]
    /\ bytes \in [Jobs -> Runs \cup {NoRun, Uploaded, Erased}]
    /\ rpc \in [Runs -> RunnerPc]
    /\ \A r \in Runs : rpc[r] # "none" => target[r] \in Jobs

LEMMA ResultTyped == TypeOK /\ Links => ResultTypes
BY TargetIsJob DEF TypeOK, ResultTypes, StatusType

LEMMA AppendIsNonempty ==
    ASSUME NEW S, NEW s \in Seq(S), NEW e \in S
    PROVE  Append(s, e) # << >>
<1>1. Len(Append(s, e)) = Len(s) + 1 /\ Len(s) \in Nat
  OBVIOUS
<1>2. Len(<< >>) = 0
  OBVIOUS
<1> QED BY <1>1, <1>2

\* A status write other than Finished, with no runner moved into the
\* persisting phase, keeps ResultInv.
LEMMA ResultStatusWrite ==
    ASSUME ResultTypes, ResultInv, NEW j \in Jobs,
           NEW s \in JobStatus \ {"finished"}, TrySetStatus(j, s),
           UNCHANGED <<assets, bytes, target>>,
           \A r \in Runs : rpc'[r] # rpc[r] =>
               rpc'[r] \notin {"asset", "p95", "finish"}
    PROVE  ResultInv'
<1>1. \A k \in Jobs : /\ status'[k] = "finished" => status[k] = "finished"
                      /\ status[k] = "deleted" => status'[k] = "deleted"
  BY DEF ResultTypes, StatusType, TrySetStatus, set_status, Present, JobStatus
<1>2. assets' = assets /\ bytes' = bytes /\ target' = target
  OBVIOUS
<1>3. ResultThere'
  BY <1>1, <1>2, Zenon DEF ResultInv, ResultThere
<1>4. ResultKept'
  BY <1>1, <1>2, Zenon DEF ResultInv, ResultKept, ResultTypes
<1> QED BY <1>3, <1>4 DEF ResultInv

\* So does a step that moves only program counters, and none into it.
LEMMA ResultFrame ==
    ASSUME ResultInv, UNCHANGED <<status, assets, bytes>>,
           \A r \in Runs : /\ rpc'[r] # rpc[r] =>
                                  rpc'[r] \notin {"asset", "p95", "finish"}
                           /\ rpc[r] # "none" => target'[r] = target[r]
    PROVE  ResultInv'
BY DEF ResultInv, ResultKept, ResultThere

\* No step breaks the chain put, add_asset, Finished that makes a finished
\* job servable.
LEMMA ResultStep ==
    ASSUME DurableFiles
    PROVE  TypeOK /\ Links /\ DiscardLinks /\ ResultInv /\ [Next]_vars => ResultInv'
<1> SUFFICES ASSUME TypeOK, Links, DiscardLinks, ResultInv, [Next]_vars,
                    ResultTypes
             PROVE  ResultInv'
    BY ResultTyped
<1>1. ASSUME NEW j \in Jobs, create_job(j) PROVE ResultInv'
  BY <1>1 DEF create_job, ResultInv, ResultKept, ResultThere,
      ResultTypes, StatusType, handlerVars, taskVars
<1>2. ASSUME NEW j \in Jobs, delete_job(j) PROVE ResultInv'
  BY <1>2 DEF delete_job, ResultInv, ResultKept, ResultThere,
      ResultTypes, StatusType, handlerVars, taskVars
<1>3. ASSUME NEW r \in Runs, NEW j \in Jobs, StartGet(r, j) PROVE ResultInv'
  <2>1. rpc[r] = "none"
    BY <1>3 DEF StartGet, Links, TypeOK, HandlerPc
  <2> QED BY <1>3, <2>1, ResultFrame DEF StartGet, storeVars, taskVars, TypeOK
<1>4. ASSUME NEW d \in Discards, DiscardSet(d) PROVE ResultInv'
  BY <1>4, ResultStatusWrite DEF DiscardSet, DiscardLinks, JobStatus,
      handlerVars, taskVars
<1>5. ASSUME NEW r \in Runs, Supervisor(r) PROVE ResultInv'
  <2>1. CASE SupervisorSpawn(r)
    <3>1. \A q \in Runs : rpc'[q] # rpc[q] =>
              rpc'[q] \notin {"asset", "p95", "finish"}
      BY <2>1 DEF SupervisorSpawn, ResultTypes
    <3> QED
      BY <2>1, <3>1, ResultFrame DEF SupervisorSpawn, storeVars, handlerVars
  <2>2. CASE SupervisorSet(r, "cancelSet", "canceled")
    BY <2>2, TargetIsJob, ResultStatusWrite
    DEF SupervisorSet, JobStatus, handlerVars
  <2>3. CASE SupervisorSet(r, "panicSet", "error")
    BY <2>3, TargetIsJob, ResultStatusWrite
    DEF SupervisorSet, JobStatus, handlerVars
  <2>4. CASE UNCHANGED <<storeVars, rpc, target>>
    BY <2>4, ResultFrame DEF storeVars
  <2> QED
    BY <1>5, <2>1, <2>2, <2>3, <2>4 DEF Supervisor, SupervisorCancel,
       SupervisorJoin, SupervisorGet, SupervisorEnd, handlerVars
<1>6. ASSUME NEW r \in Runs,
             RunnerStep(r) \/ RunnerExecuted(r) \/ RunnerTimeout(r)
      PROVE ResultInv'
  <2>0. target[r] \in Jobs /\ target' = target
    BY <1>6, RunnerMoves, TargetIsJob DEF RunnerMove, RunnerLive
  <2>1. CASE RunnerQueue(r) \/ RunnerRun(r) \/ RunnerError(r)
    <3>1. TrySetStatus(target[r], "queued") \/ TrySetStatus(target[r], "running")
          \/ TrySetStatus(target[r], "error")
      BY <2>1 DEF RunnerQueue, RunnerRun, RunnerError, TrySetStatus
    <3>2. \A q \in Runs : rpc'[q] # rpc[q] =>
              rpc'[q] \notin {"asset", "p95", "finish"}
      BY <2>1 DEF RunnerQueue, RunnerRun, RunnerError, RunnerGoto, ResultTypes
    <3>3. UNCHANGED <<assets, bytes>>
      BY <2>1 DEF RunnerQueue, RunnerRun, RunnerError
    <3>4. {"queued", "running", "error"} \subseteq JobStatus \ {"finished"}
      BY DEF JobStatus
    <3> QED BY <2>0, <3>1, <3>2, <3>3, <3>4, ResultStatusWrite
  <2>2. CASE RunnerPut(r)
    BY <2>0, <2>2, ConstantsAssumption DEF RunnerPut, put, RunnerGoto, ResultInv, ResultKept,
       ResultThere, ResultTypes
  <2>3. CASE RunnerAsset(r)
    <3>1. CASE RunnerGoto(r, "asset", "p95") /\ add_asset(target[r], r)
      <4>1. assets'[target[r]] # << >>
        BY <2>0, <3>1, AppendIsNonempty DEF add_asset, ResultTypes
      <4>2. \A k \in Jobs : assets[k] # << >> => assets'[k] # << >>
        BY <2>0, <3>1, <4>1 DEF add_asset, ResultTypes
      <4> QED
        BY <2>0, <2>3, <3>1, <4>1, <4>2 DEF RunnerAsset, RunnerGoto,
           ResultInv, ResultKept, ResultThere, ResultTypes
    <3>2. CASE RunnerGoto(r, "asset", "error") /\ UNCHANGED assets
      <4>1. \A q \in Runs : rpc'[q] # rpc[q] =>
                rpc'[q] \notin {"asset", "p95", "finish"}
        BY <3>2 DEF RunnerGoto, ResultTypes
      <4> QED BY <2>0, <2>3, <3>2, <4>1, ResultFrame DEF RunnerAsset
    <3> QED BY <2>3, <3>1, <3>2 DEF RunnerAsset
  <2>4. CASE RunnerProgress(r, "p95", 95, "progress", "finish")
    BY <2>0, <2>4 DEF RunnerProgress, RunnerGoto, ResultInv, ResultKept,
       ResultThere, ResultTypes
  <2>5. CASE RunnerFinish(r)
    BY <2>0, <2>5 DEF RunnerFinish, RunnerGoto, set_status, Present, JobStatus,
       ResultInv, ResultKept, ResultThere, ResultTypes, StatusType
  <2>6. CASE \/ RunnerProgress(r, "p10", 10, "progress", "exec")
             \/ RunnerProgress(r, "p80ok", 80, "progress", "put")
             \/ RunnerProgress(r, "p80err", 80, "progress", "error")
             \/ RunnerProgress(r, "p100", 100, "completed", "done")
             \/ RunnerDropped(r) \/ RunnerExecuted(r) \/ RunnerTimeout(r)
    <3>1. \A q \in Runs : rpc'[q] # rpc[q] =>
              rpc'[q] \notin {"asset", "p95", "finish"}
      BY <2>6 DEF RunnerProgress, RunnerDropped, RunnerExecuted, RunnerTimeout,
                  RunnerGoto, ResultTypes
    <3>2. UNCHANGED <<status, assets, bytes>>
      BY <2>6 DEF RunnerProgress, RunnerDropped, RunnerExecuted, RunnerTimeout,
                  storeVars
    <3> QED BY <2>0, <3>1, <3>2, ResultFrame
  <2> QED
    BY <1>6, <2>1, <2>2, <2>3, <2>4, <2>5, <2>6 DEF RunnerStep
<1>7. CASE Restart
  <2>1. \A q \in Runs : rpc'[q] \notin {"asset", "p95", "finish"}
    BY <1>7 DEF Restart
  <2>2. \A k \in Jobs : status'[k] = "finished" => status[k] = "finished"
    BY <1>7 DEF Restart, recover_orphans
  <2> QED
    BY <1>7, <2>1, <2>2 DEF Restart, ResultInv, ResultKept, ResultThere
<1>8. ASSUME UNCHANGED <<storeVars, rpc, target>> PROVE ResultInv'
  BY <1>8, ResultFrame DEF storeVars
<1>9. CASE \/ \E r \in Runs : HandlerStep(r)
           \/ \E d \in Discards, j \in Jobs : DiscardGet(d, j)
           \/ \E d \in Discards : DiscardCancel(d)
           \/ ShutdownSignal
           \/ DrainStart
           \/ UNCHANGED vars
  BY <1>8, <1>9 DEF HandlerStep, StartAdmit, StartQueueFull, StartRegister,
      DiscardGet, DiscardCancel, ShutdownSignal, DrainStart, vars, handlerVars,
      taskVars
<1>10. ASSUME NEW j \in Jobs, upload_file(j) \/ delete_file(j) PROVE ResultInv'
  <2>1. \A k \in Jobs : bytes[k] # NoRun => bytes'[k] # NoRun
    BY <1>10, FileRouteFrame, ConstantsAssumption DEF ResultTypes
  <2>2. UNCHANGED <<status, assets, rpc, target>>
    BY <1>10, FileRouteFrame
  <2> QED BY <2>1, <2>2 DEF ResultInv, ResultKept, ResultThere, ResultTypes
<1> QED
  BY <1>1, <1>2, <1>3, <1>4, <1>5, <1>6, <1>7, <1>9, <1>10
  DEF Next, DiscardStep, Crash, DrainEnd

\* What is not a result was put there by a client.
LEMMA ClientsOwnStep ==
    TypeOK /\ Links /\ ClientsOwn /\ [Next]_vars => ClientsOwn'
<1> SUFFICES ASSUME TypeOK, Links, ResultTypes, ClientsOwn, [Next]_vars PROVE ClientsOwn'
    BY ResultTyped
<1>1. ASSUME NEW j \in Jobs, upload_file(j) \/ delete_file(j) PROVE ClientsOwn'
  BY <1>1, FileRouteFrame DEF ClientsOwn, ResultTypes
<1>2. ASSUME NEW r \in Runs, put(target[r], r), rpc[r] # "none" PROVE ClientsOwn'
  BY <1>2, ConstantsAssumption DEF ClientsOwn, ResultTypes, put
<1>3. CASE bytes' = bytes \/ bytes' = [j \in Jobs |-> NoRun]
  BY <1>3, ConstantsAssumption DEF ClientsOwn
<1>4. ASSUME NEW r \in Runs,
             RunnerStep(r) \/ RunnerExecuted(r) \/ RunnerTimeout(r)
      PROVE  bytes' = bytes \/ (put(target[r], r) /\ rpc[r] # "none")
  BY <1>4 DEF RunnerStep, RunnerExecuted, RunnerTimeout, RunnerQueue, RunnerRun,
     RunnerProgress, RunnerPut, RunnerAsset, RunnerFinish, RunnerError,
     RunnerDropped, RunnerGoto, storeVars
<1>5. ASSUME NEW r \in Runs, Supervisor(r) PROVE bytes' = bytes
  BY <1>5 DEF Supervisor, SupervisorSpawn, SupervisorCancel, SupervisorJoin,
     SupervisorGet, SupervisorSet, SupervisorEnd, storeVars
<1>6. CASE \/ \E j \in Jobs : create_job(j) \/ delete_job(j)
           \/ \E r \in Runs, j \in Jobs : StartGet(r, j)
           \/ \E r \in Runs : HandlerStep(r)
           \/ \E d \in Discards, j \in Jobs : DiscardGet(d, j)
           \/ \E d \in Discards : DiscardStep(d)
           \/ ShutdownSignal \/ DrainStart \/ UNCHANGED vars
  BY <1>3, <1>6 DEF create_job, delete_job, StartGet, HandlerStep, StartAdmit,
     StartQueueFull, StartRegister, DiscardGet, DiscardStep, DiscardCancel,
     DiscardSet, ShutdownSignal, DrainStart, vars, storeVars
<1>7. CASE Restart
  BY <1>3, <1>7 DEF Restart
<1> QED
  BY <1>1, <1>2, <1>3, <1>4, <1>5, <1>6, <1>7 DEF Next, Crash, DrainEnd

-----------------------------------------------------------------------------
\* The inductive invariant holds of every behaviour of the service.
THEOREM Inductive == Spec => []IInv
<1>1. Init => IInv
  <2> SUFFICES ASSUME Init PROVE IInv
    OBVIOUS
  <2> USE ConstantsAssumption DEF Init
  <2>1. TypeOK
    BY DEF TypeOK, JobStatus, HandlerPc, SupervisorPc, RunnerPc, DiscardPc
  <2>2. Links /\ DiscardLinks
    BY DEF Links, DiscardLinks, RunnerIsLive, RunnerLive
  <2>3. PermitsAccounted
    <3>1. {r \in Runs : SupervisorLive(r)} = {}
      BY DEF SupervisorLive
    <3>2. Cardinality({r \in Runs : SupervisorLive(r)}) = 0
      BY <3>1, FS_EmptySet
    <3> QED BY <3>2 DEF PermitsAccounted
  <2> QED BY <2>1, <2>2, <2>3 DEF IInv
<1>2. IInv /\ [Next]_vars => IInv'
  BY TypeStep, LinksStep, DiscardLinksStep, PermitsStep DEF IInv
<1> QED BY <1>1, <1>2, PTL DEF Spec

\* Type correctness of the job service.
THEOREM TypeCorrect == Spec => []TypeOK
<1>1. IInv => TypeOK
  BY DEF IInv
<1> QED BY <1>1, Inductive, PTL

\* No path through start_processing and its supervisor leaks a permit or
\* returns one twice, for any number of jobs, requests and restarts.
THEOREM PermitsAreAccounted == Spec => []PermitsAccounted
<1>1. IInv => PermitsAccounted
  BY DEF IInv
<1> QED BY <1>1, Inductive, PTL

\* The concurrency cap holds: an unaborted runner has a supervisor that still
\* awaits it, and every such supervisor holds one of the permits.
THEOREM ConcurrencyCapHolds == Spec => []RunnersBounded
<1>1. IInv => RunnersBounded
  <2> SUFFICES ASSUME IInv PROVE RunnersBounded
    OBVIOUS
  <2> DEFINE R == {r \in Runs : RunnerIsLive(r) /\ ~aborted[r]}
  <2>1. R \subseteq Supervised
    BY DEF IInv, Links, Supervised, SupervisorLive
  <2>2. Cardinality(R) <= Cardinality(Supervised) /\ Cardinality(R) \in Nat
    BY <2>1, SupervisedFinite, FS_Subset, FS_CardinalityType
  <2>3. permits \in Nat /\ permits + Cardinality(Supervised) = MaxConcurrentJobs
    BY DEF IInv, TypeOK, PermitsAccounted, Supervised
  <2> HIDE DEF R
  <2>4. Cardinality(R) <= MaxConcurrentJobs
    BY <2>2, <2>3, SupervisedFinite, ConstantsAssumption
  <2> QED BY <2>4 DEF R, RunnersBounded
<1> QED BY <1>1, Inductive, PTL

\* Both together: start_processing never runs more jobs than it may, and is
\* never left with fewer permits than no supervisor holds.
THEOREM CapacityIsKept == Spec => []CapacityHolds
<1>1. RunnersBounded /\ PermitsAccounted => CapacityHolds
  BY DEF CapacityHolds
<1> QED BY <1>1, PermitsAreAccounted, ConcurrencyCapHolds, PTL

\* A finished job can be served, whatever else happens, when the bytes are
\* kept on disk: the order put, add_asset, set_status(Finished) of run_job
\* is what makes it so, and only a client's own use of the /files routes on the
\* job's directory replaces or removes what a run stored.
THEOREM FinishedJobsAreServable ==
    ASSUME DurableFiles
    PROVE  Spec => []FinishedIsServable
<1>1. Init => ResultInv /\ ClientsOwn
  BY ConstantsAssumption DEF Init, ResultInv, ResultKept, ResultThere, ClientsOwn
<1>2. IInv /\ ResultInv /\ ClientsOwn /\ [Next]_vars => (ResultInv /\ ClientsOwn)'
  BY ResultStep, ClientsOwnStep DEF IInv
<1>3. IInv /\ ResultInv /\ ClientsOwn => FinishedIsServable
  BY DEF IInv, TypeOK, ResultInv, ResultThere, ClientsOwn, FinishedIsServable
<1> QED BY <1>1, <1>2, <1>3, Inductive, PTL DEF Spec

\* A deleted job never comes back: every writer of a status other than
\* create_job finds no record.
THEOREM DeletionIsFinal == Spec => DeletedForever
<1> DEFINE Kept == \A j \in Jobs : status[j] = "deleted" => status'[j] = "deleted"
<1>1. TypeOK /\ [Next]_vars => [Kept]_vars
  <2> SUFFICES ASSUME status \in StatusType, [Next]_vars PROVE Kept
    BY DEF TypeOK, StatusType
  <2>1. ASSUME NEW j, NEW s, TrySetStatus(j, s) PROVE Kept
    BY <2>1 DEF TrySetStatus, set_status, Present, JobStatus, StatusType
  <2>2. ASSUME NEW j \in Jobs, create_job(j) \/ delete_job(j) PROVE Kept
    BY <2>2 DEF create_job, delete_job, StatusType
  <2>3. ASSUME NEW d \in Discards, DiscardSet(d) PROVE Kept
    BY <2>1, <2>3 DEF DiscardSet
  <2>4. ASSUME NEW r \in Runs, Supervisor(r) PROVE Kept
    <3>1. status' = status \/ \E j, s : TrySetStatus(j, s)
      BY <2>4 DEF Supervisor, SupervisorSpawn, SupervisorCancel,
          SupervisorJoin, SupervisorGet, SupervisorSet, SupervisorEnd, storeVars
    <3> QED BY <2>1, <3>1
  <2>5. ASSUME NEW r \in Runs,
               RunnerStep(r) \/ RunnerExecuted(r) \/ RunnerTimeout(r)
        PROVE Kept
    <3>1. status' = status \/ \E j, s : TrySetStatus(j, s)
      BY <2>5 DEF RunnerStep, RunnerExecuted, RunnerTimeout, RunnerQueue,
          RunnerRun, RunnerProgress, RunnerPut, RunnerAsset, RunnerFinish,
          RunnerError, RunnerDropped, TrySetStatus, storeVars
    <3> QED BY <2>1, <3>1
  <2>6. CASE Restart
    BY <2>6 DEF Restart, recover_orphans, Active
  <2>7. CASE UNCHANGED status
    BY <2>7
  <2> QED
    <3>1. \/ \E j \in Jobs : create_job(j) \/ delete_job(j)
          \/ \E d \in Discards : DiscardSet(d)
          \/ \E r \in Runs : Supervisor(r)
          \/ \E r \in Runs : RunnerStep(r) \/ RunnerExecuted(r) \/ RunnerTimeout(r)
          \/ Restart
          \/ UNCHANGED status
      BY FileRouteFrame DEF Next, HandlerStep, StartGet, StartAdmit,
          StartQueueFull, StartRegister, DiscardStep, DiscardGet, DiscardCancel,
          Crash, DrainEnd, ShutdownSignal, DrainStart, vars, storeVars
    <3> QED BY <3>1, <2>2, <2>3, <2>4, <2>5, <2>6, <2>7
<1> QED BY <1>1, TypeCorrect, PTL DEF Spec, DeletedForever

-----------------------------------------------------------------------------
\* Without cancel requests no run is ever signalled or aborted, and only a
\* panicked runner sends its supervisor to the panic path.
Uncancelled ==
    \A r \in Runs :
        /\ ~notified[r] /\ ~aborted[r]
        /\ spc[r] \notin {"cancelGet", "cancelSet"}
        /\ spc[r] \in {"panicGet", "panicSet"} => rpc[r] = "panicked"
        /\ hpc[r] = "idle" => target[r] = NoJob

\* The run still has a status write before it: its runner up to Finished or
\* Error, or its supervisor on the way to the panic's Error.
Driver(r) ==
    \/ rpc[r] \in RunnerLive \ {"p100"}
    \/ rpc[r] = "panicked" /\ spc[r] \in {"select", "panicGet", "panicSet"}

Driven ==
    \A j \in Jobs : status[j] \in Active =>
        \E r \in Runs : target[r] = j /\ Driver(r)

\* The run is over for a serial client: see NoUnfinishedRun.
Ended(r) ==
    /\ hpc[r] = "done"
    /\ \/ spc[r] = "none"
       \/ rpc[r] = "done"
       \/ rpc[r] = "panicked" /\ spc[r] \in {"deregister", "done"}

\* A serial client has at most one unfinished run of a job.
OneAtATime ==
    \A q, r \in Runs :
        q # r /\ target[q] \in Jobs /\ target[r] = target[q] => Ended(q) \/ Ended(r)

\* Where run_job holds the job in Running.
Working == {"p10", "exec", "p80ok", "p80err", "put", "asset", "p95", "finish", "error"}

\* What an unfinished run knows of its job's status, unless it was deleted.
Tied(r, s) ==
    /\ hpc[r] = "admit" \/ spc[r] = "spawn" \/ rpc[r] = "queue"
         => s \in {"created", "finished", "error", "canceled"}
    /\ rpc[r] = "run" => s = "queued"
    /\ rpc[r] \in Working => s = "running"
    /\ rpc[r] = "p100" => s = "finished"
    /\ rpc[r] = "panicked" /\ spc[r] \notin {"deregister", "done"} => s = "running"

StatusTied ==
    \A r \in Runs : target[r] \in Jobs =>
        status[target[r]] = "deleted" \/ Tied(r, status[target[r]])

\* A finished job is announced as soon as its runner made its last step.
Announced ==
    \A j \in Jobs :
        status[j] = "finished" /\ (\A r \in Runs : target[r] = j => rpc[r] # "p100")
        => /\ lastEvent[j] \in {"completed", "none"}
           /\ restarts = 0 => progress[j] = 100

\* Without store faults and cancels, a runner's step is one of these, as far
\* as the status of its job is concerned.
Writes(r, from, to, s) ==
    /\ rpc[r] = from
    /\ rpc' = [rpc EXCEPT ![r] = to]
    /\ Present(target[r])
    /\ status' = [status EXCEPT ![target[r]] = s]
    /\ UNCHANGED <<assets, bytes>>

\* The record is gone: the runner returns.
GivesUp(r) ==
    /\ rpc[r] \in {"queue", "run", "finish", "error"}
    /\ rpc' = [rpc EXCEPT ![r] = "done"]
    /\ ~Present(target[r])
    /\ UNCHANGED <<status, assets, bytes>>

\* Between Running and the last status write only the result changes.
Works(r) ==
    /\ rpc[r] \in Working
    /\ \E to \in Working : rpc' = [rpc EXCEPT ![r] = to]
    /\ status' = status
    /\ \A k \in Jobs : k # target[r] => assets'[k] = assets[k] /\ bytes'[k] = bytes[k]

Panics(r) ==
    /\ rpc[r] = "exec"
    /\ rpc' = [rpc EXCEPT ![r] = "panicked"]
    /\ UNCHANGED <<status, assets, bytes>>

Completes(r) ==
    /\ rpc[r] = "p100"
    /\ rpc' = [rpc EXCEPT ![r] = "done"]
    /\ UNCHANGED <<status, assets, bytes>>
    /\ lastEvent'[target[r]] = "completed"
    /\ Present(target[r]) => progress'[target[r]] = 100

RunnerCase(r) ==
    \/ Writes(r, "queue", "run", "queued")
    \/ Writes(r, "run", "p10", "running")
    \/ Writes(r, "finish", "p100", "finished")
    \/ Writes(r, "error", "done", "error")
    \/ GivesUp(r)
    \/ Works(r)
    \/ Panics(r)
    \/ Completes(r)

\* A runner touches its own job only, and no other task.
RunnerLocal(r) ==
    /\ UNCHANGED <<target, hpc, spc, notified, aborted, restarts>>
    /\ \A k \in Jobs : k # target[r] =>
         lastEvent'[k] = lastEvent[k] /\ progress'[k] = progress[k]

LEMMA RunnerIsLocal ==
    ASSUME TypeOK, Links, NEW r \in Runs,
           RunnerStep(r) \/ RunnerExecuted(r) \/ RunnerTimeout(r)
    PROVE  RunnerLocal(r)
<1>0. target[r] \in Jobs
  BY RunnerMoves, TargetIsJob DEF RunnerMove, RunnerLive
<1>1. UNCHANGED <<target, hpc, spc, notified, aborted, restarts>>
  BY DEF RunnerStep, RunnerExecuted, RunnerTimeout, RunnerQueue, RunnerRun,
         RunnerProgress, RunnerPut, RunnerAsset, RunnerFinish, RunnerError,
         RunnerDropped, RunnerFrame, handlerVars, processVars
<1>2. lastEvent' = lastEvent \/ \E kind : publish(target[r], kind)
  BY DEF RunnerStep, RunnerExecuted, RunnerTimeout, RunnerQueue, RunnerRun,
         RunnerProgress, RunnerPut, RunnerAsset, RunnerFinish, RunnerError,
         RunnerDropped, storeVars
<1>3. progress' = progress \/ \E p : TrySetProgress(target[r], p)
  BY DEF RunnerStep, RunnerExecuted, RunnerTimeout, RunnerQueue, RunnerRun,
         RunnerProgress, RunnerPut, RunnerAsset, RunnerFinish, RunnerError,
         RunnerDropped, storeVars
<1>4. \A k \in Jobs : k # target[r] => lastEvent'[k] = lastEvent[k]
  BY <1>0, <1>2 DEF publish, TypeOK
<1>5. \A k \in Jobs : k # target[r] => progress'[k] = progress[k]
  BY <1>0, <1>3 DEF TrySetProgress, set_progress, TypeOK
<1> QED BY <1>1, <1>4, <1>5 DEF RunnerLocal

LEMMA RunnerHasCase ==
    ASSUME ~StoreFaults, TypeOK, Links, Uncancelled, NEW r \in Runs,
           RunnerStep(r) \/ RunnerExecuted(r) \/ RunnerTimeout(r)
    PROVE  RunnerCase(r)
<1>0. target[r] \in Jobs
  BY RunnerMoves, TargetIsJob DEF RunnerMove, RunnerLive
<1> USE DEF RunnerGoto
<1>1. CASE RunnerQueue(r)
  BY <1>1 DEF RunnerQueue, RunnerCase, Writes, GivesUp, set_status, MayFail
<1>2. CASE RunnerRun(r)
  BY <1>2 DEF RunnerRun, RunnerCase, Writes, GivesUp, set_status, MayFail
<1>3. CASE RunnerFinish(r)
  BY <1>3 DEF RunnerFinish, RunnerCase, Writes, GivesUp, set_status, MayFail
<1>4. CASE RunnerError(r)
  BY <1>4 DEF RunnerError, RunnerCase, Writes, GivesUp, TrySetStatus, set_status, MayFail
<1>5. CASE RunnerProgress(r, "p100", 100, "completed", "done")
  <2>1. lastEvent'[target[r]] = "completed"
    BY <1>0, <1>5 DEF RunnerProgress, publish, TypeOK
  <2>2. Present(target[r]) => progress'[target[r]] = 100
    BY <1>0, <1>5 DEF RunnerProgress, TrySetProgress, set_progress, MayFail, TypeOK
  <2> QED BY <1>5, <2>1, <2>2 DEF RunnerProgress, RunnerCase, Completes
<1>6. ASSUME NEW from \in Working, NEW to \in Working, NEW p, NEW kind,
             RunnerProgress(r, from, p, kind, to)
      PROVE  Works(r)
  BY <1>6 DEF RunnerProgress, Works
<1>7. CASE RunnerPut(r)
  BY <1>0, <1>7 DEF RunnerPut, RunnerCase, Works, Working, put, TypeOK
<1>8. CASE RunnerAsset(r)
  BY <1>0, <1>8 DEF RunnerAsset, RunnerCase, Works, Working, add_asset, TypeOK
<1>9. CASE RunnerExecuted(r)
  BY <1>9 DEF RunnerExecuted, RunnerCase, Works, Panics, Working, storeVars
<1>10. CASE RunnerTimeout(r)
  BY <1>10 DEF RunnerTimeout, RunnerCase, Works, Working, storeVars
<1>11. CASE RunnerDropped(r)
  BY <1>11 DEF RunnerDropped, Uncancelled
<1>12. {"p10", "exec", "p80ok", "p80err", "put", "error", "p95", "finish"} \subseteq Working
  BY DEF Working
<1>13. CASE \/ RunnerProgress(r, "p10", 10, "progress", "exec")
            \/ RunnerProgress(r, "p80ok", 80, "progress", "put")
            \/ RunnerProgress(r, "p80err", 80, "progress", "error")
            \/ RunnerProgress(r, "p95", 95, "progress", "finish")
  BY <1>6, <1>12, <1>13, Zenon DEF RunnerCase
<1> QED
  BY <1>1, <1>2, <1>3, <1>4, <1>5, <1>7, <1>8, <1>9, <1>10, <1>11, <1>13
  DEF RunnerStep

-----------------------------------------------------------------------------
\* The types of the variables Uncancelled adds to TaskTypes.
SignalTypes == TaskTypes /\ notified \in [Runs -> BOOLEAN]

LEMMA SignalTyped == TypeOK => SignalTypes
BY DEF TypeOK, SignalTypes, TaskTypes

\* Without cancel requests no cancel path is ever entered.
LEMMA UncancelledStep ==
    ASSUME Discards = {}
    PROVE  TypeOK /\ Links /\ Uncancelled /\ [Next]_vars => Uncancelled'
<1> SUFFICES ASSUME TypeOK, SignalTypes, Links, Uncancelled, [Next]_vars
             PROVE  Uncancelled'
    BY SignalTyped
<1> USE DEF SignalTypes, TaskTypes, Uncancelled
<1>1. ASSUME NEW j \in Jobs, create_job(j) \/ delete_job(j) PROVE Uncancelled'
  BY <1>1 DEF create_job, delete_job, handlerVars, taskVars
<1>2. ASSUME NEW r \in Runs, NEW j \in Jobs, StartGet(r, j) PROVE Uncancelled'
  BY <1>2 DEF StartGet, taskVars
<1>3. ASSUME NEW r \in Runs, HandlerStep(r) PROVE Uncancelled'
  BY <1>3 DEF HandlerStep, StartAdmit, StartQueueFull, StartRegister, taskVars
<1>4. ASSUME NEW r \in Runs, Supervisor(r) PROVE Uncancelled'
  <2> USE DEF handlerVars
  <2>1. CASE SupervisorSpawn(r)
    BY <2>1 DEF SupervisorSpawn
  <2>2. CASE SupervisorCancel(r)
    BY <2>2 DEF SupervisorCancel
  <2>3. CASE SupervisorJoin(r)
    BY <2>3 DEF SupervisorJoin
  <2>4. CASE SupervisorGet(r, "panicGet", "panicSet")
    BY <2>4 DEF SupervisorGet
  <2>5. CASE SupervisorSet(r, "panicSet", "error")
    BY <2>5 DEF SupervisorSet
  <2>6. CASE SupervisorEnd(r)
    BY <2>6 DEF SupervisorEnd
  <2>7. CASE \/ SupervisorGet(r, "cancelGet", "cancelSet")
             \/ SupervisorSet(r, "cancelSet", "canceled")
    BY <2>7 DEF SupervisorGet, SupervisorSet
  <2> QED BY <1>4, <2>1, <2>2, <2>3, <2>4, <2>5, <2>6, <2>7 DEF Supervisor
<1>5. ASSUME NEW r \in Runs,
             RunnerStep(r) \/ RunnerExecuted(r) \/ RunnerTimeout(r)
      PROVE Uncancelled'
  <2>1. RunnerMove(r) /\ RunnerLocal(r)
    BY <1>5, RunnerMoves, RunnerIsLocal
  <2> QED BY <2>1 DEF RunnerMove, RunnerLocal, RunnerLive, RunnerPc
<1>6. CASE Restart
  BY <1>6 DEF Restart
<1>7. CASE ShutdownSignal \/ DrainStart \/ UNCHANGED vars
  BY <1>7 DEF ShutdownSignal, DrainStart, vars, handlerVars, taskVars
<1> HIDE DEF SignalTypes, TaskTypes, Uncancelled
<1>8. ASSUME NEW j \in Jobs, upload_file(j) \/ delete_file(j) PROVE Uncancelled'
  BY <1>8, FileRouteFrame DEF Uncancelled
<1> QED
  BY <1>1, <1>2, <1>3, <1>4, <1>5, <1>6, <1>7, <1>8 DEF Next, Crash, DrainEnd

\* A step that neither makes a job active nor moves or retargets a driver
\* keeps every active job driven.
LEMMA DrivenFrame ==
    ASSUME Driven,
           \A j \in Jobs : status'[j] \in Active => status[j] \in Active,
           \A r \in Runs : Driver(r) => Driver(r)' /\ target'[r] = target[r]
    PROVE  Driven'
BY Zenon DEF Driven

\* What a run's step has to do so that its job, if active afterwards, has a
\* driver: keep driving it, or have had no part in it.
LEMMA DrivenRun ==
    ASSUME TaskTypes, Driven, NEW r \in Runs, target' = target,
           \A j \in Jobs : j # target[r] => status'[j] = status[j],
           \A q \in Runs : q # r => rpc'[q] = rpc[q] /\ spc'[q] = spc[q],
           status'[target[r]] \in Active =>
               Driver(r)' \/ (~Driver(r) /\ status'[target[r]] = status[target[r]])
    PROVE  Driven'
<1> SUFFICES ASSUME NEW j \in Jobs, status'[j] \in Active
             PROVE  \E q \in Runs : target'[q] = j /\ Driver(q)'
    BY DEF Driven
<1>1. \A q \in Runs : q # r /\ Driver(q) => Driver(q)'
  BY DEF Driver
<1>2. CASE j = target[r] /\ Driver(r)'
  BY <1>2
<1>3. CASE status[j] = status'[j] /\ (j = target[r] => ~Driver(r))
  <2>1. PICK q \in Runs : target[q] = j /\ Driver(q)
    BY <1>3, Zenon DEF Driven
  <2> QED BY <1>1, <1>3, <2>1, Zenon
<1> QED BY <1>2, <1>3, Zenon

\* An active job keeps a task that will settle it.
LEMMA DrivenStep ==
    ASSUME Discards = {}, ~StoreFaults
    PROVE  TypeOK /\ Links /\ Uncancelled /\ Driven /\ [Next]_vars => Driven'
<1> SUFFICES ASSUME TypeOK, TaskTypes, Links, Uncancelled, Driven, [Next]_vars,
                    status \in StatusType
             PROVE  Driven'
    BY TaskTyped DEF TypeOK, StatusType
<1>1. ASSUME NEW j \in Jobs, create_job(j) \/ delete_job(j) PROVE Driven'
  BY <1>1, DrivenFrame
  DEF create_job, delete_job, handlerVars, taskVars, Driver, Active, StatusType
<1>2. ASSUME NEW r \in Runs, NEW j \in Jobs, StartGet(r, j) PROVE Driven'
  <2>1. rpc[r] = "none"
    BY <1>2 DEF StartGet, Links
  <2> QED
    BY <1>2, <2>1, DrivenFrame DEF StartGet, storeVars, taskVars, TaskTypes,
       Driver, RunnerLive
<1>3. ASSUME NEW r \in Runs, HandlerStep(r) PROVE Driven'
  <2>1. CASE StartAdmit(r)
    BY <2>1, DrivenFrame DEF StartAdmit, storeVars, TaskTypes, Driver, Links,
       RunnerLive
  <2>2. CASE StartQueueFull(r) \/ StartRegister(r)
    BY <2>2, DrivenFrame DEF StartQueueFull, StartRegister, storeVars, taskVars,
       Driver
  <2> QED BY <1>3, <2>1, <2>2 DEF HandlerStep
<1>4. ASSUME NEW r \in Runs, Supervisor(r) PROVE Driven'
  <2>0. target' = target /\ (spc[r] # "none" => target[r] \in Jobs)
    BY <1>4, TargetIsJob DEF Supervisor, SupervisorSpawn, SupervisorCancel,
       SupervisorJoin, SupervisorGet, SupervisorSet, SupervisorEnd, handlerVars
  <2> USE DEF TaskTypes
  <2>1. CASE SupervisorSpawn(r)
    BY <2>1, DrivenFrame
    DEF SupervisorSpawn, Driver, Links, RunnerLive, storeVars, handlerVars
  <2>2. CASE SupervisorCancel(r)
    BY <2>2 DEF SupervisorCancel, Uncancelled
  <2>3. CASE SupervisorJoin(r)
    BY <2>3, DrivenFrame DEF SupervisorJoin, Driver, RunnerLive, storeVars, handlerVars
  <2>4. CASE SupervisorGet(r, "panicGet", "panicSet")
    <3>1. status' = status /\ rpc' = rpc /\ \A q \in Runs : q # r => spc'[q] = spc[q]
      BY <2>4 DEF SupervisorGet, storeVars
    <3>2. status[target[r]] \in Active => spc'[r] = "panicSet"
      BY <2>4 DEF SupervisorGet, MayFail, Active, Terminal, Present, JobStatus
    <3>3. rpc[r] = "panicked"
      BY <2>4 DEF SupervisorGet, Uncancelled
    <3>4. status'[target[r]] \in Active => Driver(r)'
      BY <3>1, <3>2, <3>3 DEF Driver
    <3> QED BY <2>0, <3>1, <3>4, DrivenRun
  <2>5. CASE SupervisorSet(r, "panicSet", "error")
    <3>1. rpc' = rpc /\ \A q \in Runs : q # r => spc'[q] = spc[q]
      BY <2>5 DEF SupervisorSet
    <3>2. \A k \in Jobs : k # target[r] => status'[k] = status[k]
      BY <2>5 DEF SupervisorSet, TrySetStatus, set_status, StatusType
    <3>3. status'[target[r]] \notin Active
      BY <2>0, <2>5 DEF SupervisorSet, TrySetStatus, set_status, StatusType,
         MayFail, Active, Present, JobStatus
    <3> QED BY <2>0, <3>1, <3>2, <3>3, DrivenRun
  <2>6. CASE SupervisorEnd(r)
    BY <2>6, DrivenFrame DEF SupervisorEnd, Driver, RunnerLive, storeVars, handlerVars
  <2>7. CASE \/ SupervisorGet(r, "cancelGet", "cancelSet")
             \/ SupervisorSet(r, "cancelSet", "canceled")
    BY <2>7 DEF SupervisorGet, SupervisorSet, Uncancelled
  <2> QED BY <1>4, <2>1, <2>2, <2>3, <2>4, <2>5, <2>6, <2>7 DEF Supervisor
<1>5. ASSUME NEW r \in Runs,
             RunnerStep(r) \/ RunnerExecuted(r) \/ RunnerTimeout(r)
      PROVE Driven'
  <2>0. /\ RunnerCase(r) /\ RunnerLocal(r)
        /\ target[r] \in Jobs
        /\ rpc[r] \in RunnerLive
        /\ spc[r] = "select"
    BY <1>5, RunnerHasCase, RunnerIsLocal, RunnerMoves, TargetIsJob
    DEF RunnerMove, RunnerLive, Links, RunnerIsLive, Uncancelled
  <2>1. \A q \in Runs : q # r => rpc'[q] = rpc[q] /\ spc'[q] = spc[q]
    BY <2>0 DEF RunnerCase, RunnerLocal, Writes, GivesUp, Works, Panics,
       Completes, TaskTypes
  <2>2. \A k \in Jobs : k # target[r] => status'[k] = status[k]
    BY <2>0 DEF RunnerCase, Writes, GivesUp, Works, Panics, Completes, StatusType
  <2>3. status'[target[r]] \in Active =>
            Driver(r)' \/ (~Driver(r) /\ status'[target[r]] = status[target[r]])
    BY <2>0 DEF RunnerCase, RunnerLocal, Writes, GivesUp, Works, Working,
       Panics, Completes, TaskTypes, StatusType, Driver, RunnerLive, Active,
       Present, JobStatus
  <2> QED BY <2>0, <2>1, <2>2, <2>3, DrivenRun DEF RunnerLocal
<1>6. CASE Restart
  BY <1>6 DEF Restart, recover_orphans, Driven, Active
<1>7. CASE ShutdownSignal \/ DrainStart \/ UNCHANGED vars
  BY <1>7, DrivenFrame DEF ShutdownSignal, DrainStart, vars, storeVars,
     handlerVars, taskVars, Driver
<1>8. ASSUME NEW j \in Jobs, upload_file(j) \/ delete_file(j) PROVE Driven'
  BY <1>8, FileRouteFrame, DrivenFrame DEF Driver
<1> QED
  BY <1>1, <1>2, <1>3, <1>4, <1>5, <1>6, <1>7, <1>8 DEF Next, Crash, DrainEnd

\* No job is left in progress with nobody working on it: without cancel
\* requests and store faults, whatever starts race, panics, timeouts, restarts
\* and deletions there are, the last task that wrote Queued or Running still
\* has the write of a terminal status before it.
THEOREM ActiveJobsHaveDrivers ==
    ASSUME Discards = {}, ~StoreFaults
    PROVE  Spec => []ActiveHasDriver
<1>1. Init => Uncancelled /\ Driven
  BY DEF Init, Uncancelled, Driven, Active
<1>2. IInv /\ Uncancelled /\ Driven /\ [Next]_vars => (Uncancelled /\ Driven)'
  BY UncancelledStep, DrivenStep DEF IInv
<1>3. Uncancelled /\ Driven => ActiveHasDriver
  BY DEF Driven, Driver, ActiveHasDriver, RunnerIsLive, SupervisorLive
<1> QED BY <1>1, <1>2, <1>3, Inductive, PTL DEF Spec

-----------------------------------------------------------------------------
\* A run that is over has no claim on its job's status.
LEMMA EndedIsFree ==
    ASSUME TaskTypes, Links, NEW r \in Runs, Ended(r), NEW s
    PROVE  Tied(r, s)
BY DEF TaskTypes, Links, Ended, Tied, Working

\* The two invariants survive a step of one run that writes a status only
\* while the run is unfinished, and only one its own position allows.
LEMMA SerialRun ==
    ASSUME TaskTypes, Links, OneAtATime, StatusTied, NEW r \in Runs,
           target' = target,
           \A q \in Runs : q # r =>
               hpc'[q] = hpc[q] /\ spc'[q] = spc[q] /\ rpc'[q] = rpc[q],
           Ended(r) => Ended(r)' /\ status' = status,
           \A j \in Jobs : j # target[r] => status'[j] = status[j],
           target[r] \in Jobs =>
               status'[target[r]] = "deleted" \/ Tied(r, status[target[r]])'
    PROVE  (OneAtATime /\ StatusTied)'
<1>1. \A q \in Runs : Ended(q) => Ended(q)'
  BY DEF Ended
<1>2. OneAtATime'
  BY <1>1, Zenon DEF OneAtATime
<1>3. ASSUME NEW q \in Runs, target[q] \in Jobs
      PROVE  status'[target[q]] = "deleted" \/ Tied(q, status[target[q]])'
  <2>1. CASE q = r
    BY <1>3, <2>1
  <2>2. CASE q # r /\ status'[target[q]] = status[target[q]]
    BY <1>3, <2>2 DEF StatusTied, Tied
  <2>3. CASE q # r /\ target[q] = target[r] /\ ~Ended(r)
    <3>1. Ended(q)
      BY <1>3, <2>3, Zenon DEF OneAtATime
    <3>2. Tied(q, status'[target[q]])
      BY <3>1, EndedIsFree
    <3> QED BY <2>3, <3>2 DEF Tied
  <2> QED BY <1>3, <2>1, <2>2, <2>3, Zenon
<1> QED BY <1>2, <1>3 DEF StatusTied

\* What deletion, creation and everything that is no run's step may do.
LEMMA SerialFrame ==
    ASSUME OneAtATime, StatusTied, UNCHANGED <<target, hpc, spc, rpc>>,
           \A j \in Jobs : \/ status'[j] = status[j]
                           \/ status'[j] = "deleted"
                           \/ status[j] = "none" /\ status'[j] = "created"
    PROVE  (OneAtATime /\ StatusTied)'
<1>1. OneAtATime'
  BY DEF OneAtATime, Ended
<1>2. ASSUME NEW r \in Runs, target[r] \in Jobs
      PROVE  status'[target[r]] = "deleted" \/ Tied(r, status[target[r]])'
  <2>1. status[target[r]] = "deleted" \/ Tied(r, status[target[r]])
    BY <1>2 DEF StatusTied
  <2>2. CASE status'[target[r]] = status[target[r]]
    BY <2>1, <2>2 DEF Tied
  <2>3. CASE status[target[r]] = "none" /\ status'[target[r]] = "created"
    BY <2>1, <2>3 DEF Tied
  <2> QED BY <1>2, <2>2, <2>3
<1> QED BY <1>1, <1>2 DEF StatusTied

\* With a serial client an unfinished run is alone with its job, and where it
\* is tells the job's status.
LEMMA SerialStep ==
    ASSUME Discards = {}, ~StoreFaults, SerialClient
    PROVE  TypeOK /\ Links /\ Uncancelled /\ OneAtATime /\ StatusTied /\ [Next]_vars
           => (OneAtATime /\ StatusTied)'
<1> SUFFICES ASSUME TypeOK, TaskTypes, Links, Uncancelled, OneAtATime,
                    StatusTied, [Next]_vars, status \in StatusType
             PROVE  (OneAtATime /\ StatusTied)'
    BY TaskTyped DEF TypeOK, StatusType
<1>1. ASSUME NEW j \in Jobs, create_job(j) \/ delete_job(j)
      PROVE (OneAtATime /\ StatusTied)'
  <2>1. UNCHANGED <<target, hpc, spc, rpc>>
    BY <1>1 DEF create_job, delete_job, handlerVars, taskVars
  <2>2. \A k \in Jobs : \/ status'[k] = status[k]
                        \/ status'[k] = "deleted"
                        \/ status[k] = "none" /\ status'[k] = "created"
    BY <1>1 DEF create_job, delete_job, StatusType
  <2> QED BY <2>1, <2>2, SerialFrame
<1>2. ASSUME NEW r \in Runs, NEW j \in Jobs, StartGet(r, j)
      PROVE (OneAtATime /\ StatusTied)'
  <2>1. /\ target' = [target EXCEPT ![r] = j]
        /\ hpc' \in {[hpc EXCEPT ![r] = "admit"], [hpc EXCEPT ![r] = "done"]}
        /\ hpc'[r] = "admit" => status[j] \in JobStatus \ Active
        /\ UNCHANGED <<status, spc, rpc>>
    BY <1>2 DEF StartGet, storeVars, taskVars, TaskTypes, Present
  <2>2. \A q \in Runs : target[q] = j => Ended(q)
    BY <1>2 DEF StartGet, NoUnfinishedRun, Ended
  <2>3. spc[r] = "none" /\ rpc[r] = "none"
    BY <1>2 DEF StartGet, Links
  <2>4. \A q \in Runs : q # r => /\ target'[q] = target[q]
                                 /\ (Ended(q) => Ended(q)')
    BY <2>1 DEF Ended, TaskTypes
  <2>5. target'[r] = j
    BY <2>1 DEF TaskTypes
  <2>6. OneAtATime'
    BY <2>2, <2>4, <2>5, Zenon DEF OneAtATime
  <2>7. ASSUME NEW q \in Runs, q # r, target[q] \in Jobs
        PROVE  status'[target'[q]] = "deleted" \/ Tied(q, status[target[q]])'
    BY <2>1, <2>4, <2>7 DEF StatusTied, Tied, TaskTypes
  <2>8. Tied(r, status[target[r]])'
    BY <2>1, <2>3, <2>5 DEF Tied, Working, JobStatus, Active
  <2> QED BY <2>4, <2>5, <2>6, <2>7, <2>8 DEF StatusTied
<1>3. ASSUME NEW r \in Runs, HandlerStep(r) PROVE (OneAtATime /\ StatusTied)'
  <2>1. /\ target[r] \in Jobs
        /\ UNCHANGED <<target, status>>
        /\ hpc[r] # "done"
    BY <1>3 DEF HandlerStep, StartAdmit, StartQueueFull, StartRegister,
       storeVars, Links
  <2>2. ~Ended(r)
    BY <2>1 DEF Ended
  <2>3. \A q \in Runs : q # r =>
             hpc'[q] = hpc[q] /\ spc'[q] = spc[q] /\ rpc'[q] = rpc[q]
    BY <1>3 DEF HandlerStep, StartAdmit, StartQueueFull, StartRegister,
       taskVars, TaskTypes
  <2>4. status'[target[r]] = "deleted" \/ Tied(r, status[target[r]])'
    BY <1>3, <2>1 DEF HandlerStep, StartAdmit, StartQueueFull, StartRegister,
       taskVars, TaskTypes, StatusTied, Tied, Links
  <2> QED BY <2>1, <2>2, <2>3, <2>4, SerialRun
<1>4. ASSUME NEW r \in Runs, Supervisor(r) PROVE (OneAtATime /\ StatusTied)'
  <2>0. /\ target[r] \in Jobs
        /\ UNCHANGED <<target, hpc>>
        /\ spc[r] \notin {"none", "done", "cancelGet", "cancelSet"}
    BY <1>4, TargetIsJob DEF Supervisor, SupervisorSpawn, SupervisorCancel,
       SupervisorJoin, SupervisorGet, SupervisorSet, SupervisorEnd, handlerVars,
       Uncancelled
  <2>1. \A q \in Runs : q # r => spc'[q] = spc[q] /\ rpc'[q] = rpc[q]
    BY <1>4 DEF Supervisor, SupervisorSpawn, SupervisorCancel,
       SupervisorJoin, SupervisorGet, SupervisorSet, SupervisorEnd, TaskTypes
  <2>2. \A k \in Jobs : k # target[r] => status'[k] = status[k]
    BY <1>4 DEF Supervisor, SupervisorSpawn, SupervisorCancel, SupervisorJoin,
       SupervisorGet, SupervisorSet, SupervisorEnd, storeVars, TrySetStatus,
       set_status, StatusType
  <2>3. Ended(r) => Ended(r)' /\ status' = status
    <3>1. CASE SupervisorSpawn(r) \/ SupervisorSet(r, "panicSet", "error")
      BY <2>0, <3>1 DEF SupervisorSpawn, SupervisorSet, Ended, Uncancelled, Links
    <3>2. CASE SupervisorJoin(r) \/ SupervisorGet(r, "panicGet", "panicSet") \/ SupervisorEnd(r)
      BY <2>0, <3>2 DEF SupervisorJoin, SupervisorGet, SupervisorEnd, Ended,
         Uncancelled, storeVars, TaskTypes
    <3> QED
      BY <1>4, <2>0, <3>1, <3>2
      DEF Supervisor, SupervisorCancel, SupervisorGet, SupervisorSet, Uncancelled
  <2>4. status'[target[r]] = "deleted" \/ Tied(r, status[target[r]])'
    <3>0. status[target[r]] = "deleted" \/ Tied(r, status[target[r]])
      BY <2>0 DEF StatusTied
    <3> USE DEF TaskTypes, Tied, Working
    <3>1. CASE SupervisorSpawn(r)
      BY <2>0, <3>0, <3>1 DEF SupervisorSpawn, storeVars
    <3>2. CASE SupervisorJoin(r)
      BY <2>0, <3>0, <3>2 DEF SupervisorJoin, storeVars
    <3>3. CASE SupervisorGet(r, "panicGet", "panicSet")
      BY <2>0, <3>0, <3>3 DEF SupervisorGet, storeVars
    <3>4. CASE SupervisorEnd(r)
      BY <2>0, <3>0, <3>4 DEF SupervisorEnd, storeVars
    <3>5. CASE SupervisorSet(r, "panicSet", "error")
      BY <2>0, <3>0, <3>5 DEF SupervisorSet, TrySetStatus, set_status, MayFail,
         Present, JobStatus, StatusType, Uncancelled, Links
    <3> QED
      BY <1>4, <2>0, <3>1, <3>2, <3>3, <3>4, <3>5
      DEF Supervisor, SupervisorCancel, SupervisorGet, SupervisorSet, Uncancelled
  <2> QED BY <2>0, <2>1, <2>2, <2>3, <2>4, SerialRun
<1>5. ASSUME NEW r \in Runs,
             RunnerStep(r) \/ RunnerExecuted(r) \/ RunnerTimeout(r)
      PROVE (OneAtATime /\ StatusTied)'
  <2>0. /\ RunnerCase(r) /\ RunnerLocal(r)
        /\ target[r] \in Jobs
        /\ rpc[r] \in RunnerLive
        /\ spc[r] = "select"
        /\ hpc[r] # "admit"
    BY <1>5, RunnerHasCase, RunnerIsLocal, RunnerMoves, TargetIsJob
    DEF RunnerMove, RunnerLive, Links, RunnerIsLive, Uncancelled
  <2>1. \A q \in Runs : q # r => rpc'[q] = rpc[q]
    BY <2>0 DEF RunnerCase, Writes, GivesUp, Works, Panics, Completes, TaskTypes
  <2>2. \A k \in Jobs : k # target[r] => status'[k] = status[k]
    BY <2>0 DEF RunnerCase, Writes, GivesUp, Works, Panics, Completes, StatusType
  <2>3. ~Ended(r)
    BY <2>0 DEF Ended, RunnerLive
  <2>4. status'[target[r]] = "deleted" \/ Tied(r, status[target[r]])'
    <3>0. status[target[r]] = "deleted" \/ Tied(r, status[target[r]])
      BY <2>0 DEF StatusTied
    <3> QED
      BY <2>0, <3>0 DEF RunnerCase, RunnerLocal, Writes, GivesUp, Works, Working,
         Panics, Completes, TaskTypes, StatusType, Tied, Present, JobStatus,
         RunnerLive
  <2> QED BY <2>0, <2>1, <2>2, <2>3, <2>4, SerialRun DEF RunnerLocal
<1>6. CASE Restart
  <2>1. \A r \in Runs : target[r] \in Jobs => Ended(r)'
    BY <1>6, ConstantsAssumption DEF Restart, Ended, Uncancelled
  <2>2. \A r \in Runs : target[r] \in Jobs => Tied(r, status[target[r]])'
    BY <1>6, <2>1 DEF Restart, Tied, Working, Ended
  <2> QED BY <1>6, <2>1, <2>2 DEF Restart, OneAtATime, StatusTied
<1>7. CASE ShutdownSignal \/ DrainStart \/ UNCHANGED vars
  <2>1. UNCHANGED <<status, target, hpc, spc, rpc>>
    BY <1>7 DEF ShutdownSignal, DrainStart, vars, storeVars, handlerVars, taskVars
  <2> QED BY <2>1, SerialFrame
<1>8. ASSUME NEW j \in Jobs, upload_file(j) \/ delete_file(j)
      PROVE (OneAtATime /\ StatusTied)'
  BY <1>8, FileRouteFrame, SerialFrame
<1> QED
  BY <1>1, <1>2, <1>3, <1>4, <1>5, <1>6, <1>7, <1>8 DEF Next, Crash, DrainEnd

-----------------------------------------------------------------------------
\* The types of the variables Announced adds.
AnnounceTypes ==
    /\ status \in StatusType
    /\ progress \in [Jobs -> 0..100]
    /\ lastEvent \in [Jobs -> JobEventKind \cup {"none"}]
    /\ restarts \in Nat
    /\ target \in [Runs -> Jobs \cup {NoJob}]
    /\ rpc \in [Runs -> RunnerPc]

LEMMA AnnounceTyped == TypeOK => AnnounceTypes
BY DEF TypeOK, AnnounceTypes, StatusType

\* A step that publishes nothing, stores no progress and takes no runner out
\* of its last step.
LEMMA AnnouncedFrame ==
    ASSUME Announced, UNCHANGED <<progress, lastEvent, restarts>>,
           \A j \in Jobs : status'[j] = "finished" => status[j] = "finished",
           \A r \in Runs : rpc[r] = "p100" => rpc'[r] = "p100" /\ target'[r] = target[r]
    PROVE  Announced'
BY DEF Announced

\* A finished job whose runner is through has been announced.
LEMMA AnnouncedStep ==
    ASSUME Discards = {}, ~StoreFaults, SerialClient
    PROVE  TypeOK /\ Links /\ Uncancelled /\ StatusTied /\ Announced /\ [Next]_vars
           => Announced'
<1> SUFFICES ASSUME TypeOK, AnnounceTypes, Links, Uncancelled, StatusTied,
                    Announced, [Next]_vars
             PROVE  Announced'
    BY AnnounceTyped
<1>1. ASSUME NEW j \in Jobs, create_job(j) PROVE Announced'
  <2>1. /\ UNCHANGED <<progress, lastEvent, restarts, rpc, target>>
        /\ \A k \in Jobs : status'[k] = "finished" => status[k] = "finished"
    BY <1>1 DEF create_job, handlerVars, taskVars, processVars, AnnounceTypes, StatusType
  <2> QED BY <2>1, AnnouncedFrame
<1>2. ASSUME NEW j \in Jobs, delete_job(j) PROVE Announced'
  BY <1>2 DEF delete_job, handlerVars, taskVars, processVars, AnnounceTypes,
     StatusType, Announced
<1>3. ASSUME NEW r \in Runs, NEW j \in Jobs, StartGet(r, j) PROVE Announced'
  <2>1. rpc[r] = "none"
    BY <1>3 DEF StartGet, Links
  <2> QED
    BY <1>3, <2>1, AnnouncedFrame DEF StartGet, storeVars, taskVars,
       processVars, AnnounceTypes
<1>4. ASSUME NEW r \in Runs, HandlerStep(r) PROVE Announced'
  BY <1>4, AnnouncedFrame DEF HandlerStep, StartAdmit, StartQueueFull,
     StartRegister, storeVars, taskVars, processVars
<1>5. ASSUME NEW r \in Runs, Supervisor(r) PROVE Announced'
  <2>1. /\ UNCHANGED <<progress, lastEvent, restarts, target>>
        /\ \A q \in Runs : rpc[q] = "p100" => rpc'[q] = "p100"
    BY <1>5 DEF Supervisor, SupervisorSpawn, SupervisorCancel, SupervisorJoin,
       SupervisorGet, SupervisorSet, SupervisorEnd, handlerVars, processVars,
       storeVars, Links, AnnounceTypes
  <2>2. \A k \in Jobs : status'[k] = "finished" => status[k] = "finished"
    BY <1>5 DEF Supervisor, SupervisorSpawn, SupervisorCancel, SupervisorJoin,
       SupervisorGet, SupervisorSet, SupervisorEnd, storeVars, TrySetStatus,
       set_status, AnnounceTypes, StatusType
  <2> QED BY <2>1, <2>2, AnnouncedFrame
<1>6. ASSUME NEW r \in Runs,
             RunnerStep(r) \/ RunnerExecuted(r) \/ RunnerTimeout(r)
      PROVE Announced'
  <2>0. RunnerCase(r) /\ RunnerLocal(r) /\ target[r] \in Jobs
    BY <1>6, RunnerHasCase, RunnerIsLocal, RunnerMoves, TargetIsJob
    DEF RunnerMove, RunnerLive
  <2>1. \A q \in Runs : q # r => rpc'[q] = rpc[q]
    BY <2>0 DEF RunnerCase, Writes, GivesUp, Works, Panics, Completes, AnnounceTypes
  <2>2. \A k \in Jobs : k # target[r] => status'[k] = status[k]
    BY <2>0 DEF RunnerCase, Writes, GivesUp, Works, Panics, Completes,
       AnnounceTypes, StatusType
  <2>3. ASSUME status'[target[r]] = "finished", rpc'[r] # "p100"
        PROVE  lastEvent'[target[r]] = "completed" /\ progress'[target[r]] = 100
    BY <2>0, <2>3 DEF RunnerCase, Writes, GivesUp, Works, Working, Panics,
       Completes, StatusTied, Tied, AnnounceTypes, StatusType, Present, JobStatus
  <2>4. UNCHANGED <<target, restarts>>
    BY <2>0 DEF RunnerLocal
  <2>5. ASSUME NEW k \in Jobs, k # target[r], status'[k] = "finished",
               \A q \in Runs : target'[q] = k => rpc'[q] # "p100"
        PROVE  /\ lastEvent'[k] \in {"completed", "none"}
               /\ restarts' = 0 => progress'[k] = 100
    BY <2>0, <2>1, <2>2, <2>4, <2>5 DEF Announced, RunnerLocal
  <2> QED BY <2>0, <2>3, <2>4, <2>5 DEF Announced
<1>7. CASE Restart
  <2>1. restarts' # 0 /\ \A k \in Jobs : lastEvent'[k] = "none"
    BY <1>7 DEF Restart, AnnounceTypes
  <2> QED BY <2>1 DEF Announced
<1>8. CASE ShutdownSignal \/ DrainStart \/ UNCHANGED vars
  BY <1>8, AnnouncedFrame DEF ShutdownSignal, DrainStart, vars, storeVars,
     handlerVars, taskVars, processVars
<1>9. ASSUME NEW j \in Jobs, upload_file(j) \/ delete_file(j) PROVE Announced'
  BY <1>9, FileRouteFrame, AnnouncedFrame
<1> QED
  BY <1>1, <1>2, <1>3, <1>4, <1>5, <1>6, <1>7, <1>8, <1>9 DEF Next, Crash, DrainEnd

SerialInv == Uncancelled /\ OneAtATime /\ StatusTied

\* A job has at most one unfinished run, which knows its status.
LEMMA SerialInductive ==
    ASSUME Discards = {}, ~StoreFaults, SerialClient
    PROVE  Spec => []SerialInv
<1>1. Init => SerialInv
  BY ConstantsAssumption
  DEF Init, SerialInv, Uncancelled, OneAtATime, StatusTied
<1>2. IInv /\ SerialInv /\ [Next]_vars => SerialInv'
  BY UncancelledStep, SerialStep DEF IInv, SerialInv
<1> QED BY <1>1, <1>2, Inductive, PTL DEF Spec

\* What a finished job shows is consistent once its tasks are gone: run_job's
\* last two calls, the progress of 100 and the event, are never overtaken.
THEOREM FinishedJobsAreAnnounced ==
    ASSUME Discards = {}, ~StoreFaults, SerialClient
    PROVE  Spec => []FinishedIsAnnounced
<1>1. Init => Announced
  BY DEF Init, Announced
<1>2. IInv /\ SerialInv /\ Announced /\ [Next]_vars => Announced'
  BY AnnouncedStep DEF IInv, SerialInv
<1>3. Announced => FinishedIsAnnounced
  BY DEF Announced, FinishedIsAnnounced, NoTaskOf, RunnerIsLive, RunnerLive
<1> QED BY <1>1, <1>2, <1>3, Inductive, SerialInductive, PTL DEF Spec

\* The record of a job that ended stays as it is until the next start or the
\* deletion: no supervisor, recovery or late runner rewrites it.
THEOREM SettledJobsAreStable ==
    ASSUME Discards = {}, ~StoreFaults, SerialClient, DurableFiles
    PROVE  Spec => SettledIsStable
<1> DEFINE Settled(j) ==
             /\ status[j] \in {"finished", "error"}
             /\ \A r \in Runs : target[r] = j => ~RunnerIsLive(r) /\ spc[r] # "spawn"
           Keeps(j) ==
             /\ status'[j] \in {status[j], "deleted"}
             /\ assets'[j] = assets[j] \/ status'[j] = "deleted"
             /\ \/ bytes'[j] = bytes[j]
                \/ j \in Touched /\ bytes'[j] \in {Uploaded, Erased}
           Stable == \A j \in Jobs : Settled(j) => Keeps(j)
<1>1. IInv /\ SerialInv /\ [Next]_vars => [Stable]_vars
  <2> SUFFICES ASSUME TypeOK, Links, Uncancelled, StatusTied, ResultTypes, [Next]_vars,
                      NEW j \in Jobs, Settled(j)
               PROVE  Keeps(j)
    BY ResultTyped DEF IInv, SerialInv
  <2>1. ASSUME NEW k \in Jobs, create_job(k) \/ delete_job(k) PROVE Keeps(j)
    BY <2>1 DEF create_job, delete_job, ResultTypes, StatusType
  <2>2. CASE UNCHANGED storeVars
    BY <2>2 DEF storeVars
  <2>3. ASSUME NEW r \in Runs, SupervisorSet(r, "panicSet", "error") PROVE Keeps(j)
    <3>1. target[r] \in Jobs /\ rpc[r] = "panicked"
      BY <2>3, TargetIsJob DEF SupervisorSet, Uncancelled
    <3>2. target[r] # j
      BY <2>3, <3>1 DEF SupervisorSet, StatusTied, Tied
    <3> QED
      BY <2>3, <3>1, <3>2 DEF SupervisorSet, TrySetStatus, set_status,
         ResultTypes, StatusType
  <2>4. ASSUME NEW r \in Runs, Supervisor(r) PROVE Keeps(j)
    <3>1. SupervisorSet(r, "panicSet", "error") \/ UNCHANGED storeVars
      BY <2>4 DEF Supervisor, SupervisorSpawn, SupervisorCancel, SupervisorJoin,
         SupervisorGet, SupervisorSet, SupervisorEnd, Uncancelled
    <3> QED BY <2>2, <2>3, <3>1
  <2>5. ASSUME NEW r \in Runs,
               RunnerStep(r) \/ RunnerExecuted(r) \/ RunnerTimeout(r)
        PROVE Keeps(j)
    <3>1. RunnerCase(r) /\ rpc[r] \in RunnerLive /\ target[r] \in Jobs
      BY <2>5, RunnerHasCase, RunnerMoves, TargetIsJob DEF RunnerMove, RunnerLive
    <3>2. target[r] # j
      BY <3>1 DEF RunnerIsLive
    <3> QED
      BY <3>1, <3>2 DEF RunnerCase, Writes, GivesUp, Works, Panics, Completes,
         ResultTypes, StatusType
  <2>6. CASE Restart
    BY <2>6 DEF Restart, recover_orphans, Active
  <2>7. ASSUME NEW k \in Jobs, upload_file(k) \/ delete_file(k) PROVE Keeps(j)
    BY <2>7, FileRouteFrame DEF ResultTypes
  <2> HIDE DEF Keeps, Settled
  <2> QED
    <3>1. \/ \E k \in Jobs : create_job(k) \/ delete_job(k)
          \/ \E k \in Jobs : upload_file(k) \/ delete_file(k)
          \/ \E r \in Runs : Supervisor(r)
          \/ \E r \in Runs : RunnerStep(r) \/ RunnerExecuted(r) \/ RunnerTimeout(r)
          \/ Restart
          \/ UNCHANGED storeVars
      BY DEF Next, HandlerStep, StartGet, StartAdmit, StartQueueFull,
         StartRegister, Crash, DrainEnd, ShutdownSignal, DrainStart, vars
    <3> QED BY <3>1, <2>1, <2>2, <2>4, <2>5, <2>6, <2>7
<1> QED BY <1>1, Inductive, SerialInductive, PTL DEF Spec, SettledIsStable

-----------------------------------------------------------------------------
\* A status write of the service, seen by a client.
LEMMA WriteIsMove ==
    ASSUME status \in StatusType, NEW j \in Jobs, NEW from, NEW to,
           status[j] \in from, status' = [status EXCEPT ![j] = to],
           \A k \in Jobs : k # j => assets'[k] = assets[k] /\ bytes'[k] = bytes[k],
           to = "finished" => assets'[j] # << >> /\ bytes'[j] # NoRun
    PROVE  Lifecycle!Move(j, from, to)
<1>1. Servable' = IF to = "finished" THEN Servable \cup {j} ELSE Servable \ {j}
  BY DEF Servable, StatusType
<1> QED BY <1>1 DEF Lifecycle!Move

\* To a client of a serial service the writes of handlers, supervisors,
\* runners and orphan recovery are the transitions of the documented life
\* cycle, and results appear with Finished and vanish with the next start.
THEOREM ServiceImplementsLifecycle ==
    ASSUME Discards = {}, ~StoreFaults, SerialClient, DurableFiles
    PROVE  Spec => ImplementsLifecycle
<1>1. Init => Lifecycle!Init
  BY DEF Init, Lifecycle!Init, Servable
<1>2. IInv /\ SerialInv /\ ResultInv /\ [Next]_vars
      => [Lifecycle!Next]_<<status, Servable>>
  <2> SUFFICES ASSUME TypeOK, Links, Uncancelled, StatusTied, ResultInv,
                      ResultTypes, [Next]_vars
               PROVE  Lifecycle!Next \/ UNCHANGED <<status, Servable>>
    BY ResultTyped DEF IInv, SerialInv
  <2>0. status \in StatusType
    BY DEF ResultTypes
  <2>1. ASSUME NEW j \in Jobs, create_job(j) PROVE Lifecycle!Create(j)
    <3>1. /\ status[j] \in {"none"}
          /\ status' = [status EXCEPT ![j] = "created"]
          /\ \A k \in Jobs : k # j => assets'[k] = assets[k] /\ bytes'[k] = bytes[k]
      BY <2>1 DEF create_job
    <3> DEFINE From == {"none"}
    <3>2. status[j] \in From
      BY <3>1
    <3> HIDE DEF From
    <3>3. Lifecycle!Move(j, From, "created")
      BY <2>0, <3>1, <3>2, WriteIsMove
    <3> QED BY <3>3 DEF Lifecycle!Create, From
  <2>2. ASSUME NEW j \in Jobs, delete_job(j) PROVE Lifecycle!Delete(j)
    <3>1. /\ status[j] \in {"created"} \cup Lifecycle!InProgress \cup Lifecycle!Ended
          /\ status' = [status EXCEPT ![j] = "deleted"]
          /\ \A k \in Jobs : k # j => assets'[k] = assets[k] /\ bytes'[k] = bytes[k]
      BY <2>2 DEF delete_job, Present, JobStatus, Lifecycle!InProgress,
         Lifecycle!Ended, ResultTypes
    <3> QED BY <2>0, <3>1, WriteIsMove DEF Lifecycle!Delete
  <2>3. CASE UNCHANGED <<status, assets, bytes>>
    BY <2>3 DEF Servable
  <2>4. ASSUME NEW r \in Runs, SupervisorSet(r, "panicSet", "error")
        PROVE Lifecycle!Fail(target[r]) \/ UNCHANGED <<status, assets, bytes>>
    <3>1. target[r] \in Jobs /\ rpc[r] = "panicked"
      BY <2>4, TargetIsJob DEF SupervisorSet, Uncancelled
    <3>2. status[target[r]] \in {"running", "deleted"}
      BY <2>4, <3>1 DEF SupervisorSet, StatusTied, Tied
    <3>3. CASE /\ Present(target[r])
               /\ status' = [status EXCEPT ![target[r]] = "error"]
      <4>1. status[target[r]] \in Lifecycle!InProgress
        BY <3>2, <3>3 DEF Present, JobStatus, Lifecycle!InProgress
      <4>2. UNCHANGED <<assets, bytes>>
        BY <2>4 DEF SupervisorSet
      <4> QED
        BY <2>0, <3>1, <3>3, <4>1, <4>2, WriteIsMove DEF Lifecycle!Fail
    <3> QED BY <2>4, <3>3 DEF SupervisorSet, TrySetStatus, set_status
  <2>5. ASSUME NEW r \in Runs, Supervisor(r)
        PROVE Lifecycle!Fail(target[r]) \/ UNCHANGED <<status, assets, bytes>>
    <3>1. SupervisorSet(r, "panicSet", "error") \/ UNCHANGED <<status, assets, bytes>>
      BY <2>5 DEF Supervisor, SupervisorSpawn, SupervisorCancel, SupervisorJoin,
         SupervisorGet, SupervisorSet, SupervisorEnd, Uncancelled, storeVars
    <3> QED BY <2>4, <3>1
  <2>6. ASSUME NEW r \in Runs,
               RunnerStep(r) \/ RunnerExecuted(r) \/ RunnerTimeout(r)
        PROVE Lifecycle!Next \/ UNCHANGED <<status, Servable>>
    <3>0. RunnerCase(r) /\ target[r] \in Jobs
      BY <2>6, RunnerHasCase, RunnerMoves, TargetIsJob DEF RunnerMove, RunnerLive
    <3>1. status[target[r]] = "deleted" \/ Tied(r, status[target[r]])
      BY <3>0 DEF StatusTied
    <3>2. ASSUME NEW from, NEW to, NEW s, NEW S, Writes(r, from, to, s),
                 status[target[r]] \in S,
                 s = "finished" => assets[target[r]] # << >> /\ bytes[target[r]] # NoRun
          PROVE  Lifecycle!Move(target[r], S, s)
      BY <2>0, <3>0, <3>2, WriteIsMove DEF Writes
    <3>3. CASE Writes(r, "queue", "run", "queued")
      <4>1. status[target[r]] \in {"created"} \cup Lifecycle!Ended
        BY <3>1, <3>3 DEF Writes, Tied, Present, JobStatus, Lifecycle!Ended
      <4>2. Lifecycle!Start(target[r])
        BY <3>2, <3>3, <4>1 DEF Lifecycle!Start
      <4> QED BY <3>0, <4>2 DEF Lifecycle!Next
    <3>4. CASE Writes(r, "run", "p10", "running")
      <4>1. status[target[r]] \in {"queued"}
        BY <3>1, <3>4 DEF Writes, Tied, Present, JobStatus
      <4>2. Lifecycle!Execute(target[r])
        BY <3>2, <3>4, <4>1 DEF Lifecycle!Execute
      <4> QED BY <3>0, <4>2 DEF Lifecycle!Next
    <3>5. CASE Writes(r, "finish", "p100", "finished")
      <4>1. status[target[r]] \in {"running"}
        BY <3>1, <3>5 DEF Writes, Tied, Working, Present, JobStatus
      <4>2. assets[target[r]] # << >> /\ bytes[target[r]] # NoRun
        BY <3>0, <3>5, <4>1 DEF Writes, ResultInv, ResultKept
      <4>3. Lifecycle!Finish(target[r])
        BY <3>2, <3>5, <4>1, <4>2 DEF Lifecycle!Finish
      <4> QED BY <3>0, <4>3 DEF Lifecycle!Next
    <3>6. CASE Writes(r, "error", "done", "error")
      <4>1. status[target[r]] \in Lifecycle!InProgress
        BY <3>1, <3>6 DEF Writes, Tied, Working, Present, JobStatus, Lifecycle!InProgress
      <4>2. Lifecycle!Fail(target[r])
        BY <3>2, <3>6, <4>1 DEF Lifecycle!Fail
      <4> QED BY <3>0, <4>2 DEF Lifecycle!Next
    <3>7. CASE Works(r)
      <4>1. status[target[r]] # "finished"
        BY <3>1, <3>7 DEF Works, Tied
      <4> QED BY <3>7, <4>1 DEF Works, Servable
    <3> QED
      BY <2>3, <3>0, <3>3, <3>4, <3>5, <3>6, <3>7
      DEF RunnerCase, GivesUp, Panics, Completes
  <2>7. CASE Restart
    <3>1. /\ bytes' = bytes /\ assets' = assets
          /\ status' = [j \in Jobs |-> IF status[j] \in Lifecycle!InProgress
                                       THEN "error" ELSE status[j]]
      BY <2>7 DEF Restart, recover_orphans, Active, Lifecycle!InProgress
    <3>2. Servable' = Servable
      BY <3>1 DEF Servable, Lifecycle!InProgress
    <3> QED BY <3>1, <3>2 DEF Lifecycle!Next, Lifecycle!Recover
  <2>8. ASSUME NEW j \in Jobs, upload_file(j) \/ delete_file(j)
        PROVE UNCHANGED <<status, Servable>>
    <3>1. \A k \in Jobs : status[k] = "finished" => bytes[k] # NoRun /\ bytes'[k] # NoRun
      <4>1. \A k \in Jobs : status[k] = "finished" => bytes[k] # NoRun
        BY DEF ResultInv, ResultThere
      <4> QED BY <2>8, <4>1, FileRouteFrame, ConstantsAssumption DEF ResultTypes
    <3> QED BY <2>8, <3>1, FileRouteFrame DEF Servable
  <2> QED
    <3>1. \/ \E j \in Jobs : create_job(j) \/ delete_job(j)
          \/ \E j \in Jobs : upload_file(j) \/ delete_file(j)
          \/ \E r \in Runs : Supervisor(r)
          \/ \E r \in Runs : RunnerStep(r) \/ RunnerExecuted(r) \/ RunnerTimeout(r)
          \/ Restart
          \/ UNCHANGED <<status, assets, bytes>>
      BY DEF Next, HandlerStep, StartGet, StartAdmit, StartQueueFull,
         StartRegister, Crash, DrainEnd, ShutdownSignal, DrainStart, vars, storeVars
    <3>2. ASSUME NEW r \in Runs, Supervisor(r) PROVE target[r] \in Jobs
      BY <3>2, TargetIsJob DEF Supervisor, SupervisorSpawn, SupervisorCancel,
         SupervisorJoin, SupervisorGet, SupervisorSet, SupervisorEnd
    <3> QED
      BY <3>1, <3>2, <2>1, <2>2, <2>3, <2>5, <2>6, <2>7, <2>8 DEF Lifecycle!Next
<1>3. Init => ResultInv
  BY DEF Init, ResultInv, ResultKept, ResultThere
<1>4. IInv /\ ResultInv /\ [Next]_vars => ResultInv'
  BY ResultStep DEF IInv
<1> QED
  BY <1>1, <1>2, <1>3, <1>4, Inductive, SerialInductive, PTL
  DEF Spec, ImplementsLifecycle, Lifecycle!Spec
=============================================================================
