-------------------------- MODULE GeoExecutorProofs --------------------------
(***************************************************************************)
(* Proofs about GeoExecutor, for any evaluations, graphs, scenes, bands    *)
(* and number of permits: the permits of the downloads, types, and that an *)
(* evaluation whose files nobody else writes computes what its graph means *)
(* (for graphs that are WellFormed).                                       *)
(***************************************************************************)
EXTENDS GeoExecutor, FiniteSetTheorems, SequenceTheorems, NaturalsInduction,
        WellFoundedInduction, TLAPS

TaskTypes == /\ phase \in [Evals -> Phases]
             /\ task \in [Evals -> [Slots -> TaskStates]]
             /\ permits \in Nat

\* Downloads belong to a load: an evaluation that is not in one and has not
\* ended has no fetch in any state.
FetchesOfLoads ==
    \A e \in Evals : phase[e] \notin {"download"} \cup Ended => task[e] = NoTasks

\* The inductive invariant: where fetches may be, and the permits they hold.
PermitInv == TaskTypes /\ FetchesOfLoads /\ DownloadsBounded

LEMMA SlotsFinite == IsFiniteSet(Slots) /\ IsFiniteSet(Evals \X Slots)
<1>1. IsFiniteSet(1..MaxScenes)
  BY FS_Interval, GeoAssumption
<1>2. IsFiniteSet(Slots)
  BY <1>1, FS_Product, GeoAssumption DEF Slots
<1> QED
  BY <1>2, FS_Product, GeoAssumption

LEMMA DownloadingFinite == IsFiniteSet(Downloading)
  BY SlotsFinite, FS_Subset DEF Downloading

\* A step of a fetch that starts or ends no closure moves no permit.
LEMMA SameDownloads ==
  ASSUME TaskTypes, DownloadsBounded, permits' = permits,
         \A e \in Evals, s \in Slots : task'[e][s] = "writing" <=> task[e][s] = "writing"
  PROVE  DownloadsBounded'
<1>1. Downloading' = Downloading
  BY DEF Downloading
<1> QED
  BY <1>1 DEF DownloadsBounded

\* Initially nothing downloads.
LEMMA PermitInit == Init => PermitInv
<1> SUFFICES ASSUME Init PROVE PermitInv
  OBVIOUS
<1>1. TaskTypes
  BY GeoAssumption DEF Init, TaskTypes, Phases, TaskStates, NoTasks
<1>2. FetchesOfLoads
  BY DEF Init, FetchesOfLoads
<1>3. Downloading = {}
  BY DEF Init, Downloading, NoTasks
<1>4. DownloadsBounded
  BY <1>3, FS_EmptySet, GeoAssumption DEF Init, DownloadsBounded
<1> QED
  BY <1>1, <1>2, <1>4 DEF PermitInv

\* Fail and drop leave the closures that run alone.
LEMMA LettingGo ==
  ASSUME PermitInv, NEW e \in Evals, LetGo(e), permits' = permits,
         NEW to \in Ended, Goto(e, to)
  PROVE  PermitInv'
<1>1. TaskTypes'
  BY DEF PermitInv, TaskTypes, LetGo, Goto, Phases, TaskStates
<1>2. FetchesOfLoads'
  BY DEF PermitInv, TaskTypes, FetchesOfLoads, LetGo, Goto
<1>3. \A f \in Evals, s \in Slots : task'[f][s] = "writing" <=> task[f][s] = "writing"
  BY DEF PermitInv, TaskTypes, LetGo
<1> QED
  BY <1>1, <1>2, <1>3, SameDownloads DEF PermitInv

\* A step that touches no task and does not leave a load or an end.
LEMMA TasksUntouched ==
  ASSUME PermitInv, task' = task, permits' = permits, phase' \in [Evals -> Phases],
         \A e \in Evals : \/ phase'[e] = phase[e]
                          \/ phase'[e] \in {"download"} \cup Ended
                          \/ phase[e] \notin {"download"} \cup Ended
  PROVE  PermitInv'
<1>1. TaskTypes'
  BY DEF PermitInv, TaskTypes
<1>2. FetchesOfLoads'
  BY DEF PermitInv, FetchesOfLoads
<1> QED
  BY <1>1, <1>2, SameDownloads DEF PermitInv

\* Each step keeps the permits accounted for.
LEMMA PermitStep == PermitInv /\ [Next]_vars => PermitInv'
<1> SUFFICES ASSUME PermitInv, [Next]_vars PROVE PermitInv'
  OBVIOUS
<1> USE DEF PermitInv
<1>0. CASE UNCHANGED vars
  BY <1>0, TasksUntouched DEF vars, TaskTypes
<1>1. ASSUME NEW e \in Evals, run_sync(e) PROVE PermitInv'
  BY <1>1, TasksUntouched DEF run_sync, Goto, TaskTypes, Phases, Ended
<1>2. ASSUME NEW e \in Evals, drop(e) PROVE PermitInv'
  BY <1>2, LettingGo DEF drop, Ended
<1>3. ASSUME NEW e \in Evals, NEW n \in Nodes(graph[e]), evaluate(e, n) PROVE PermitInv'
  <2>1. CASE Fail(e)
    BY <1>3, <2>1, LettingGo DEF evaluate, Fail, Ended
  <2>2. CASE UNCHANGED <<phase, task>>
    BY <1>3, <2>2, TasksUntouched DEF evaluate, TaskTypes
  <2>3. CASE /\ UNCHANGED task
             /\ \/ Goto(e, "search")
                \/ Goto(e, "compute")
    BY <1>3, <2>3, TasksUntouched DEF evaluate, Goto, TaskTypes, Phases, Ended
  <2> QED
    BY <1>3, <2>1, <2>2, <2>3 DEF evaluate
<1>4. ASSUME NEW e \in Evals, search(e) PROVE PermitInv'
  <2>1. CASE Fail(e)
    BY <1>4, <2>1, LettingGo DEF search, Fail, Ended
  <2>2. ASSUME NEW sc \in SceneLists, Goto(e, "download"),
               task' = [task EXCEPT ![e] = [s \in Slots |->
                    IF s[1] \in DOMAIN sc /\ s[2] \in Nd(e).bands \cap sc[s[1]]
                    THEN "waiting" ELSE task[e][s]]]
        PROVE PermitInv'
    <3>1. task[e] = NoTasks
      BY <1>4 DEF search, FetchesOfLoads, Ended
    <3>2. TaskTypes'
      BY <2>2, <1>4 DEF search, TaskTypes, Goto, Phases, TaskStates
    <3>3. FetchesOfLoads'
      BY <2>2 DEF FetchesOfLoads, Goto, TaskTypes
    <3>4. \A f \in Evals, s \in Slots : task'[f][s] = "writing" <=> task[f][s] = "writing"
      BY <2>2, <3>1 DEF TaskTypes, NoTasks
    <3> QED
      BY <3>2, <3>3, <3>4, <1>4, SameDownloads DEF search
  <2> QED
    BY <1>4, <2>1, <2>2 DEF search
<1>5. ASSUME NEW e \in Evals, NEW s \in Slots, fetch_refused(e, s) PROVE PermitInv'
  <2>1. TaskTypes' /\ FetchesOfLoads'
    BY <1>5 DEF fetch_refused, SetTask, TaskTypes, TaskStates, FetchesOfLoads, Ended
  <2>2. \A f \in Evals, r \in Slots : task'[f][r] = "writing" <=> task[f][r] = "writing"
    BY <1>5 DEF fetch_refused, SetTask, TaskTypes
  <2> QED
    BY <1>5, <2>1, <2>2, SameDownloads DEF fetch_refused
<1>6. ASSUME NEW e \in Evals, NEW s \in Slots, fetch(e, s) PROVE PermitInv'
  <2>1. TaskTypes' /\ FetchesOfLoads'
    BY <1>6 DEF fetch, SetTask, TaskTypes, TaskStates, FetchesOfLoads, Ended
  <2>0. \A f \in Evals, r \in Slots :
            task'[f][r] = "writing" <=> (task[f][r] = "writing" \/ <<f, r>> = <<e, s>>)
    BY <1>6 DEF fetch, SetTask, TaskTypes
  <2>2. Downloading' = Downloading \cup {<<e, s>>} /\ <<e, s>> \notin Downloading
    <3>1. task[e][s] = "waiting"
      BY <1>6 DEF fetch, SetTask
    <3> QED
      BY <2>0, <3>1 DEF Downloading
  <2>3. Cardinality(Downloading') = Cardinality(Downloading) + 1
    BY <2>2, DownloadingFinite, FS_AddElement
  <2>4. Cardinality(Downloading) \in Int
    BY DownloadingFinite, FS_CardinalityType
  <2>7. permits' = permits - 1 /\ permits \in Int
    BY <1>6 DEF fetch, TaskTypes
  <2>8. DownloadsBounded'
    BY <2>3, <2>4, <2>7, GeoAssumption DEF DownloadsBounded
  <2> QED
    BY <2>1, <2>8
<1>7. ASSUME NEW e \in Evals, NEW s \in Slots, fetched(e, s) PROVE PermitInv'
  <2>1. PICK st \in {"none", "done", "failed"} :
            SetTask(e, s, "writing", st) /\ (st = "none" \/ phase[e] = "download")
    BY <1>7 DEF fetched
  <2>2. TaskTypes'
    BY <1>7, <2>1 DEF fetched, SetTask, TaskTypes, TaskStates
  <2>3. FetchesOfLoads'
    <3>1. phase[e] \in {"download"} \cup Ended
      BY <2>1 DEF FetchesOfLoads, SetTask, NoTasks
    <3> QED
      BY <1>7, <2>1, <3>1 DEF fetched, SetTask, TaskTypes, FetchesOfLoads
  <2>0. \A f \in Evals, r \in Slots :
            task'[f][r] = "writing" <=> (task[f][r] = "writing" /\ <<f, r>> # <<e, s>>)
    BY <2>1 DEF SetTask, TaskTypes
  <2>4. Downloading' = Downloading \ {<<e, s>>} /\ <<e, s>> \in Downloading
    BY <2>0, <2>1 DEF SetTask, Downloading
  <2>5. Cardinality(Downloading') = Cardinality(Downloading) - 1
    BY <2>4, DownloadingFinite, FS_RemoveElement
  <2>6. Cardinality(Downloading) \in Int
    BY DownloadingFinite, FS_CardinalityType
  <2>7. permits' = permits + 1 /\ permits \in Int
    BY <1>7 DEF fetched, TaskTypes
  <2>8. DownloadsBounded'
    BY <2>5, <2>6, <2>7, GeoAssumption DEF DownloadsBounded
  <2> QED
    BY <2>2, <2>3, <2>8
<1>8. ASSUME NEW e \in Evals, NEW s \in Slots, next_fetched(e, s) PROVE PermitInv'
  <2>1. CASE Fail(e)
    BY <1>8, <2>1, LettingGo DEF next_fetched, Fail, Ended
  <2>2. CASE SetTask(e, s, "done", "slotted") /\ UNCHANGED phase
    <3>1. TaskTypes' /\ FetchesOfLoads'
      BY <1>8, <2>2 DEF next_fetched, SetTask, TaskTypes, TaskStates, FetchesOfLoads, Ended
    <3>2. \A f \in Evals, r \in Slots : task'[f][r] = "writing" <=> task[f][r] = "writing"
      BY <2>2 DEF SetTask, TaskTypes
    <3> QED
      BY <1>8, <3>1, <3>2, SameDownloads DEF next_fetched
  <2> QED
    BY <1>8, <2>1, <2>2 DEF next_fetched
<1>9. ASSUME NEW e \in Evals, load_ends(e) PROVE PermitInv'
  <2>1. TaskTypes' /\ FetchesOfLoads'
    BY <1>9 DEF load_ends, Goto, TaskTypes, TaskStates, Phases, Ended, FetchesOfLoads, NoTasks
  <2>2. \A f \in Evals, r \in Slots : task'[f][r] = "writing" <=> task[f][r] = "writing"
    BY <1>9 DEF load_ends, TaskTypes, NoTasks
  <2> QED
    BY <1>9, <2>1, <2>2, SameDownloads DEF load_ends
<1>10. ASSUME NEW e \in Evals, gdalwarp(e) PROVE PermitInv'
  <2>1. CASE Fail(e)
    BY <1>10, <2>1, LettingGo DEF gdalwarp, Fail, Ended
  <2>2. CASE UNCHANGED <<phase, task>>
    BY <1>10, <2>2, TasksUntouched DEF gdalwarp, TaskTypes
  <2> QED
    BY <1>10, <2>1, <2>2 DEF gdalwarp
<1>11. ASSUME NEW e \in Evals, apply_reduction(e) PROVE PermitInv'
  <2>1. CASE Fail(e)
    BY <1>11, <2>1, LettingGo DEF apply_reduction, Fail, Ended
  <2>2. CASE UNCHANGED <<phase, task>>
    BY <1>11, <2>2, TasksUntouched DEF apply_reduction, TaskTypes
  <2> QED
    BY <1>11, <2>1, <2>2 DEF apply_reduction
<1>12. ASSUME NEW e \in Evals, NEW o \in Outputs(e),
              resample_scl_to_data_grid(e, o) \/ writer_create(e, o)
       PROVE PermitInv'
  BY <1>12, TasksUntouched DEF resample_scl_to_data_grid, writer_create, TaskTypes
<1>13. ASSUME NEW e \in Evals, compute_ends(e) \/ finalise_save_result(e) PROVE PermitInv'
  <2>1. \E to \in {"evaluate", "ok", "err"} : Goto(e, to)
    BY <1>13 DEF compute_ends, finalise_save_result
  <2>2. phase[e] \in {"compute", "evaluate"} /\ task' = task /\ permits' = permits
    BY <1>13 DEF compute_ends, finalise_save_result
  <2> QED
    BY <2>1, <2>2, TasksUntouched DEF Goto, TaskTypes, Phases, Ended
<1> QED
  BY <1>0, <1>1, <1>2, <1>3, <1>4, <1>5, <1>6, <1>7, <1>8, <1>9, <1>10, <1>11,
     <1>12, <1>13 DEF Next, Step

\* For any number of evaluations, bands, scenes and permits: the closures that
\* download and the free permits always add up to the permits configured, so
\* no failure, timeout or cancel loses a permit or exceeds the limit.
THEOREM DownloadsAreBounded == Spec => []DownloadsBounded
<1>1. PermitInv => DownloadsBounded
  BY DEF PermitInv
<1> QED
  BY <1>1, PermitInit, PermitStep, PTL DEF Spec

-----------------------------------------------------------------------------
\* The rest of the type invariant: cubes are remembered for nodes of the graph
\* alone, and a handler at work belongs to one.
Marks == disturbed \in [Evals -> BOOLEAN]
Cubes == /\ DOMAIN memo = Evals
         /\ DOMAIN want = Evals
         /\ \A e \in Evals : DOMAIN memo[e] = DOMAIN want[e]
         /\ \A e \in Evals : DOMAIN memo[e] \subseteq Nodes(graph[e])
Handlers ==
    /\ DOMAIN cur = Evals
    /\ \A e \in Evals : graph[e] \in Graphs[e]
    /\ \A e \in Evals : phase[e] \in {"search", "download", "compute"} =>
            cur[e] \in Nodes(graph[e])
CubeInv == Marks /\ Cubes /\ Handlers

\* Remembering a cube of a node of the graph.
LEMMA Remembering ==
  ASSUME CubeInv, NEW e \in Evals, NEW n \in Nodes(graph[e]), NEW cube, NEW contents,
         Remember(e, n, cube, contents), graph' = graph
  PROVE  Cubes'
<1>1. /\ DOMAIN memo' = Evals
      /\ DOMAIN want' = Evals
  BY DEF CubeInv, Cubes, Remember
<1>2. ASSUME NEW f \in Evals
      PROVE  DOMAIN memo'[f] = DOMAIN want'[f] /\ DOMAIN memo'[f] \subseteq Nodes(graph[f])
  <2>1. CASE f = e
    <3>1. memo'[e] = With(memo[e], n, cube) /\ want'[e] = With(want[e], n, contents)
      BY DEF CubeInv, Cubes, Remember
    <3>2. DOMAIN memo'[e] = DOMAIN memo[e] \cup {n} /\ DOMAIN want'[e] = DOMAIN want[e] \cup {n}
      BY <3>1 DEF With
    <3> QED
      BY <2>1, <3>2 DEF CubeInv, Cubes
  <2>2. CASE f # e
    <3>1. memo'[f] = memo[f] /\ want'[f] = want[f]
      BY <2>2 DEF CubeInv, Cubes, Remember
    <3> QED
      BY <3>1 DEF CubeInv, Cubes
  <2> QED
    BY <2>1, <2>2
<1> QED
  BY <1>1, <1>2 DEF Cubes

\* Creating and completing files only marks evaluations.
LEMMA Marking ==
  ASSUME CubeInv, NEW e \in Evals, NEW p, NEW c,
         \/ Create(e, p, c) \/ Complete(e, p, c) \/ NoWrite
         \/ disturbed' = [disturbed EXCEPT ![e] = TRUE]
  PROVE  Marks'
<1>1. CASE Create(e, p, c)
  BY <1>1 DEF Create, Marks
<1>2. CASE Complete(e, p, c)
  BY <1>2 DEF Complete, Marks
<1>3. CASE NoWrite \/ disturbed' = [disturbed EXCEPT ![e] = TRUE]
  BY <1>3 DEF NoWrite, CubeInv, Marks
<1> QED
  BY <1>1, <1>2, <1>3

\* A step that remembers nothing and starts no handler.
LEMMA CubesUntouched ==
  ASSUME CubeInv, graph' = graph, cur' = cur, memo' = memo, want' = want,
         Marks',
         \A f \in Evals : \/ phase'[f] = phase[f]
                          \/ phase'[f] \notin {"search", "download", "compute"}
                          \/ phase[f] \in {"search", "download", "compute"}
  PROVE  CubeInv'
<1>1. Cubes'
  BY DEF CubeInv, Cubes
<1>2. Handlers'
  BY DEF CubeInv, Handlers
<1> QED
  BY <1>1, <1>2 DEF CubeInv

LEMMA CubeInit == Init => CubeInv
  BY DEF Init, CubeInv, Marks, Cubes, Handlers

LEMMA CubeStep == TaskTypes /\ CubeInv /\ [Next]_vars => CubeInv'
<1> SUFFICES ASSUME TaskTypes, CubeInv, [Next]_vars PROVE CubeInv'
  OBVIOUS
<1>0. CASE UNCHANGED vars
  BY <1>0, CubesUntouched DEF vars, nodeVars, memoVars, CubeInv, Marks
<1>1. ASSUME NEW e \in Evals, run_sync(e) \/ drop(e) PROVE CubeInv'
  <2>1. \E to \in {"evaluate", "err", "dropped"} : Goto(e, to)
    BY <1>1 DEF run_sync, drop
  <2> QED
    BY <1>1, <2>1, CubesUntouched DEF run_sync, drop, Goto, TaskTypes, nodeVars, memoVars, CubeInv, Marks
<1>2. ASSUME NEW e \in Evals, NEW n \in Nodes(graph[e]), evaluate(e, n) PROVE CubeInv'
  <2>0. graph' = graph /\ Marks'
    BY <1>2 DEF evaluate, CubeInv, Marks
  <2>1. CASE Fail(e) /\ UNCHANGED <<cur, memoVars>>
    BY <2>0, <2>1, CubesUntouched DEF Fail, Goto, TaskTypes, memoVars
  <2>2. ASSUME NEW cube, NEW contents, Remember(e, n, cube, contents),
               UNCHANGED <<phase, cur, task>>
        PROVE CubeInv'
    <3>1. Cubes'
      BY <2>0, <2>2, Remembering
    <3>2. Handlers'
      BY <2>0, <2>2 DEF CubeInv, Handlers
    <3> QED
      BY <2>0, <3>1, <3>2 DEF CubeInv
  <2>3. ASSUME NEW to \in {"search", "compute"}, Goto(e, to),
               cur' = [cur EXCEPT ![e] = n], UNCHANGED <<memoVars, task>>
        PROVE CubeInv'
    <3>1. Cubes'
      BY <2>0, <2>3 DEF CubeInv, Cubes, memoVars
    <3>2. Handlers'
      BY <2>0, <2>3 DEF CubeInv, Handlers, Goto, TaskTypes
    <3> QED
      BY <2>0, <3>1, <3>2 DEF CubeInv
  <2> QED
    BY <1>2, <2>1, <2>2, <2>3 DEF evaluate
<1>3. ASSUME NEW e \in Evals, search(e) PROVE CubeInv'
  <2>1. \E to \in {"download", "err"} : Goto(e, to)
    BY <1>3 DEF search, Fail
  <2> QED
    BY <1>3, <2>1, CubesUntouched DEF search, Goto, TaskTypes, memoVars, CubeInv, Marks
<1>4. ASSUME NEW e \in Evals, NEW s \in Slots, fetch_refused(e, s) \/ fetch(e, s) \/ fetched(e, s)
      PROVE CubeInv'
  <2>1. Marks'
    BY <1>4, Marking DEF fetch_refused, fetch, fetched
  <2> QED
    BY <1>4, <2>1, CubesUntouched DEF fetch_refused, fetch, fetched, nodeVars, memoVars
<1>5. ASSUME NEW e \in Evals, NEW s \in Slots, next_fetched(e, s) PROVE CubeInv'
  <2>1. UNCHANGED phase \/ Goto(e, "err")
    BY <1>5 DEF next_fetched, Fail
  <2> QED
    BY <1>5, <2>1, CubesUntouched DEF next_fetched, Goto, TaskTypes, nodeVars, memoVars, CubeInv, Marks
<1>6. ASSUME NEW e \in Evals, load_ends(e) \/ compute_ends(e) PROVE CubeInv'
  <2>0. /\ cur[e] \in Nodes(graph[e]) /\ UNCHANGED nodeVars
        /\ Marks'
    BY <1>6 DEF load_ends, compute_ends, CubeInv, Handlers, Marks
  <2>1. CASE Goto(e, "err") /\ UNCHANGED memoVars
    BY <2>0, <2>1, CubesUntouched DEF Goto, TaskTypes, nodeVars, memoVars
  <2>2. ASSUME NEW cube, NEW contents, Remember(e, cur[e], cube, contents), Goto(e, "evaluate")
        PROVE CubeInv'
    <3>1. Cubes'
      BY <2>0, <2>2, Remembering DEF nodeVars
    <3>2. Handlers'
      BY <2>0, <2>2 DEF CubeInv, Handlers, Goto, TaskTypes, nodeVars
    <3> QED
      BY <2>0, <3>1, <3>2 DEF CubeInv
  <2> QED
    BY <1>6, <2>1, <2>2 DEF load_ends, compute_ends
<1>7. ASSUME NEW e \in Evals, gdalwarp(e) \/ apply_reduction(e) PROVE CubeInv'
  <2>1. Marks'
    BY <1>7, Marking DEF gdalwarp, apply_reduction
  <2>2. UNCHANGED phase \/ Goto(e, "err")
    BY <1>7 DEF gdalwarp, apply_reduction, Fail
  <2> QED
    BY <1>7, <2>1, <2>2, CubesUntouched DEF gdalwarp, apply_reduction, Goto, TaskTypes, nodeVars, memoVars
<1>8. ASSUME NEW e \in Evals, NEW o \in Outputs(e),
             resample_scl_to_data_grid(e, o) \/ writer_create(e, o)
      PROVE CubeInv'
  <2>1. Marks'
    BY <1>8, Marking DEF resample_scl_to_data_grid, writer_create
  <2> QED
    BY <1>8, <2>1, CubesUntouched DEF resample_scl_to_data_grid, writer_create, nodeVars, memoVars
<1>9. ASSUME NEW e \in Evals, finalise_save_result(e) PROVE CubeInv'
  <2>1. \E to \in {"ok", "err"} : Goto(e, to)
    BY <1>9 DEF finalise_save_result
  <2> QED
    BY <1>9, <2>1, CubesUntouched DEF finalise_save_result, Goto, TaskTypes, nodeVars, memoVars, CubeInv, Marks
<1> QED
  BY <1>0, <1>1, <1>2, <1>3, <1>4, <1>5, <1>6, <1>7, <1>8, <1>9 DEF Next, Step

\* Types hold in every state, in particular the free permits stay between 0 and
\* the number configured.
THEOREM TypeCorrect == Spec => []TypeOK
<1>1. PermitInv /\ CubeInv => TypeOK
  <2> SUFFICES ASSUME PermitInv, CubeInv PROVE TypeOK
    OBVIOUS
  <2>1. Cardinality(Downloading) \in Nat
    BY DownloadingFinite, FS_CardinalityType
  <2>2. permits \in 0..MaxDownloads
    BY <2>1, GeoAssumption DEF PermitInv, TaskTypes, DownloadsBounded
  <2> QED
    BY <2>2 DEF TypeOK, PermitInv, TaskTypes, CubeInv, Marks, Cubes, Handlers
<1>2. PermitInv /\ CubeInv /\ [Next]_vars => (PermitInv /\ CubeInv)'
  BY PermitStep, CubeStep DEF PermitInv
<1> QED
  BY <1>1, <1>2, PermitInit, CubeInit, PTL DEF Spec
-----------------------------------------------------------------------------
(* What an undisturbed evaluation computes.                                *)

\* On disk d, file p holds c; m is a cube of file names and w the cube of
\* contents it should have: the same bands, each with the same scenes, at
\* least one, and the files hold them.
FileIs(d, p, c) == p \in DOMAIN d /\ d[p] = c
Stack(s) == DOMAIN s = 1..Len(s) /\ Len(s) \in Nat /\ Len(s) > 0
CubeMeant(d, m, w) ==
    /\ DOMAIN m = DOMAIN w
    /\ \A b \in DOMAIN m :
        /\ Stack(m[b]) /\ Stack(w[b]) /\ Len(m[b]) = Len(w[b])
        /\ \A t \in 1..Len(m[b]) : FileIs(d, m[b][t], w[b][t])

\* What the worker of output o should be given beside the data, and make.
GivenAux(nd, in, o) ==
    IF nd.process = "mask_scl_dilation"
    THEN SclOn(AuxOf(nd, in, o[1], o[2]), DataOf(nd, in, o[1], o[2]))
    ELSE AuxOf(nd, in, o[1], o[2])
Product(nd, in, o) == Worker(nd, DataOf(nd, in, o[1], o[2]), GivenAux(nd, in, o))

\* The files of e that are complete, and the one its node is writing.
MemoFile(e, p) == \E n \in DOMAIN memo[e] : \E b \in DOMAIN memo[e][n] :
                      \E t \in DOMAIN memo[e][n][b] : p = memo[e][n][b][t]
Settled(e, p) ==
    \/ MemoFile(e, p)
    \/ \E s \in Slots : task[e][s] \in {"done", "slotted"} /\ p = BandFile(s[2], s[1])
    \/ \E o \in made[e] : p = OutFile(Nd(e), o[1], o[2])
    \/ \E o \in DOMAIN via[e] : p = via[e][o]
Pending(e) ==
    IF Nd(e).process = "mask_scl_dilation" /\ open[e] \notin DOMAIN via[e]
    THEN SclFile(open[e][1], open[e][2])
    ELSE OutFile(Nd(e), open[e][1], open[e][2])

Shapes == /\ DOMAIN scenes = Evals /\ DOMAIN made = Evals /\ DOMAIN open = Evals
          /\ DOMAIN via = Evals /\ DOMAIN result = Evals

\* Where an evaluation is, whoever writes its files.
AtRest(e) == made[e] = {} /\ open[e] = NoOutput /\ via[e] = << >>
InLoad(e) ==
    /\ scenes[e] \in SceneLists /\ scenes[e] # << >>
    /\ \A s \in Slots : task[e][s] # "none" <=>
            s[1] \in DOMAIN scenes[e] /\ s[2] \in Nd(e).bands \cap scenes[e][s[1]]
InWork(e) ==
    /\ Nd(e).process \in Compute
    /\ collect_from_node_refs(graph[e], cur[e]) \subseteq DOMAIN memo[e]
    /\ Accepts(Nd(e), In(e))
    /\ made[e] \subseteq Outputs(e) /\ DOMAIN via[e] \subseteq Outputs(e)
    /\ open[e] # NoOutput => open[e] \in Outputs(e)
    /\ open[e] # NoOutput /\ Resampling(e) => open[e] \notin DOMAIN via[e]
Placed(e) ==
    /\ phase[e] \notin Ended \cup {"compute"} => AtRest(e)
    /\ phase[e] = "idle" => memo[e] = << >>
    /\ Live(e) => graph[e].result # {}
    /\ phase[e] \in {"search", "download"} => Nd(e).process = "load_collection"
    /\ phase[e] = "download" => InLoad(e)
    /\ phase[e] = "compute" => InWork(e)

\* What its files hold while nobody disturbs it: the cubes, the bands it has
\* fetched and the outputs of the node are complete, and what is being written
\* is none of them.
CubesKept(e) == \A n \in DOMAIN memo[e] : CubeMeant(disk, memo[e][n], want[e][n])
LoadKept(e) ==
    \A s \in Slots : task[e][s] \in {"done", "slotted"} =>
        FileIs(disk, BandFile(s[2], s[1]), Crop(Nd(e).src, s[2], s[1]))
WorkKept(e) ==
    /\ \A o \in made[e] :
        FileIs(disk, OutFile(Nd(e), o[1], o[2]), Product(Nd(e), WantIn(e), o))
    /\ \A o \in DOMAIN via[e] : FileIs(disk, via[e][o], GivenAux(Nd(e), WantIn(e), o))
Apart(e) ==
    /\ \A s \in Slots : task[e][s] = "writing" => ~Settled(e, BandFile(s[2], s[1]))
    /\ open[e] # NoOutput => ~Settled(e, Pending(e))
    /\ open[e] # NoOutput /\ Resampling(e) =>
        AuxOf(Nd(e), WantIn(e), open[e][1], open[e][2]).grid
            # DataOf(Nd(e), WantIn(e), open[e][1], open[e][2]).grid
Intact(e) == CubesKept(e) /\ LoadKept(e) /\ WorkKept(e) /\ Apart(e)

\* The inductive invariant.
MeantFor(e) ==
    /\ Placed(e)
    /\ Live(e) /\ ~disturbed[e] => Intact(e)
    /\ phase[e] = "ok" /\ ~disturbed[e] => ResultIsMeant(e)
MeantInv == Shapes /\ \A e \in Evals : MeantFor(e)


LEMMA StackOf ==
  ASSUME NEW k \in Nat, k > 0, NEW f, DOMAIN f = 1..k, f = [i \in 1..k |-> f[i]]
  PROVE  Stack(f) /\ Len(f) = k
<1> DEFINE S == {f[i] : i \in 1..k}
<1>1. f \in [1..k -> S]
  OBVIOUS
<1>2. f \in Seq(S)
  BY <1>1, SeqDef
<1>3. Len(f) \in Nat /\ DOMAIN f = 1..Len(f)
  BY <1>2, LenProperties
<1>4. 1..k = 1..Len(f)
  BY <1>3
<1>5. Len(f) = k
  <2>1. k \in 1..k /\ Len(f) + 1 \notin 1..Len(f)
    BY <1>3
  <2>2. k <= Len(f)
    BY <1>3, <1>4, <2>1
  <2>3. Len(f) + 1 \notin 1..k
    BY <1>4, <2>1
  <2> QED
    BY <1>3, <2>2, <2>3
<1> QED
  BY <1>3, <1>5 DEF Stack

\* The bands a handler asks of its cubes are there, in the cubes of files as in
\* the cubes of contents, for as many scenes, and the files hold the contents.
LEMMA InputsAreMeant ==
  ASSUME NEW d, NEW nd, NEW in, NEW win, nd.process \in Compute,
         Takes(nd.process) \subseteq DOMAIN in, DOMAIN win = DOMAIN in,
         \A i \in DOMAIN in : CubeMeant(d, in[i], win[i]), Accepts(nd, in)
  PROVE  /\ NewBands(nd, in[1]) = NewBands(nd, win[1])
         /\ KeptBands(nd, in[1]) = KeptBands(nd, win[1])
         /\ KeptBands(nd, in[1]) \subseteq DOMAIN in[1]
         /\ Times(nd, in) = Times(nd, win) /\ Times(nd, in) \in Nat /\ Times(nd, in) > 0
         /\ \A b \in NewBands(nd, in[1]), t \in 1..Times(nd, in) :
             /\ FileIs(d, DataOf(nd, in, b, t), DataOf(nd, win, b, t))
             /\ FileIs(d, AuxOf(nd, in, b, t), AuxOf(nd, win, b, t))
<1>1. 1 \in DOMAIN in /\ CubeMeant(d, in[1], win[1])
  BY DEF Takes, Compute
<1>2. DOMAIN in[1] = DOMAIN win[1]
  BY <1>1 DEF CubeMeant
<1>3. NewBands(nd, in[1]) = NewBands(nd, win[1]) /\ KeptBands(nd, in[1]) = KeptBands(nd, win[1])
  BY <1>2 DEF NewBands, KeptBands
<1>4. CASE nd.process = "ndvi"
  <2>1. /\ "B04" \in DOMAIN in[1] /\ "B08" \in DOMAIN in[1]
        /\ Len(in[1]["B04"]) = Len(in[1]["B08"])
    BY <1>4 DEF Accepts, eval_ndvi_ok, Alike
  <2> QED
    BY <1>1, <1>3, <1>4, <2>1 DEF CubeMeant, Stack, NewBands, KeptBands, Times, DataOf, AuxOf
<1>5. CASE nd.process = "mask_from_values"
  <2>1. nd.band \in DOMAIN in[1]
    BY <1>5 DEF Accepts, eval_mask_from_values_ok
  <2> QED
    BY <1>1, <1>3, <1>5, <2>1 DEF CubeMeant, Stack, NewBands, KeptBands, Times, DataOf, AuxOf
<1>6. CASE nd.process = "mask"
  <2>1. 2 \in DOMAIN in /\ CubeMeant(d, in[2], win[2])
    BY <1>6 DEF Takes, Compute
  <2>2. /\ DOMAIN in[2] # {}
        /\ \A b \in NewBands(nd, in[1]) : Len(in[1][b]) = Len(in[2][TheBand(in[2])])
    <3>1. /\ Cardinality(DOMAIN in[2]) = 1
          /\ \A b \in NewBands(nd, in[1]) : Len(in[1][b]) = Len(in[2][TheBand(in[2])])
      BY <1>6 DEF Accepts, eval_mask_ok
    <3>2. ASSUME DOMAIN in[2] = {} PROVE FALSE
      BY <3>1, <3>2, FS_EmptySet
    <3> QED
      BY <3>1, <3>2
  <2>3. DOMAIN in[2] = DOMAIN win[2]
    BY <2>1 DEF CubeMeant
  <2>4. TheBand(in[2]) \in DOMAIN in[2] /\ TheBand(win[2]) = TheBand(in[2])
    BY <2>2, <2>3 DEF TheBand
  <2>5. NewBands(nd, in[1]) \subseteq DOMAIN in[1]
    BY <1>6 DEF NewBands
  <2> QED
    BY <1>1, <1>3, <1>6, <2>1, <2>2, <2>4, <2>5 DEF CubeMeant, Stack, KeptBands, Times, DataOf, AuxOf
<1>7. CASE nd.process = "mask_scl_dilation"
  <2>1. /\ SCL \in DOMAIN in[1]
        /\ \A b, c \in DOMAIN in[1] : Len(in[1][b]) = Len(in[1][c])
    BY <1>7 DEF Accepts, eval_mask_scl_dilation_ok, Alike
  <2>2. NewBands(nd, in[1]) \subseteq DOMAIN in[1]
    BY <1>7 DEF NewBands
  <2> QED
    BY <1>1, <1>3, <1>7, <2>1, <2>2 DEF CubeMeant, Stack, KeptBands, Times, DataOf, AuxOf
<1> QED
  BY <1>4, <1>5, <1>6, <1>7 DEF Compute

\* The cube a handler returns once all its outputs are made.
LEMMA OutputIsMeant ==
  ASSUME NEW d, NEW nd, NEW in, NEW win, nd.process \in Compute,
         Takes(nd.process) \subseteq DOMAIN in, DOMAIN win = DOMAIN in,
         \A i \in DOMAIN in : CubeMeant(d, in[i], win[i]), Accepts(nd, in),
         \A b \in NewBands(nd, in[1]), t \in 1..Times(nd, in) :
             FileIs(d, OutFile(nd, b, t), Product(nd, win, <<b, t>>))
  PROVE  CubeMeant(d, OutCube(nd, in), Meaning(nd, win))
<1> DEFINE New == NewBands(nd, in[1])
           Kept == KeptBands(nd, in[1])
           k == Times(nd, in)
           m == OutCube(nd, in)
           w == Meaning(nd, win)
<1>1. /\ New = NewBands(nd, win[1]) /\ Kept = KeptBands(nd, win[1]) /\ Kept \subseteq DOMAIN in[1]
      /\ k = Times(nd, win) /\ k \in Nat /\ k > 0
  BY InputsAreMeant
<1>2. DOMAIN m = New \cup Kept /\ DOMAIN w = New \cup Kept
  BY <1>1, Zenon DEF OutCube, Meaning
<1>3. ASSUME NEW b \in New
      PROVE  /\ Stack(m[b]) /\ Stack(w[b]) /\ Len(m[b]) = Len(w[b])
             /\ \A t \in 1..Len(m[b]) : FileIs(d, m[b][t], w[b][t])
  <2>1. m[b] = [t \in 1..k |-> OutFile(nd, b, t)]
    BY <1>3 DEF OutCube
  <2>2. w[b] = [t \in 1..k |-> Product(nd, win, <<b, t>>)]
    BY <1>1, <1>3 DEF Meaning, Product, GivenAux
  <2> HIDE DEF m, w, k, New
  <2>3. Stack(m[b]) /\ Len(m[b]) = k
    BY <1>1, <2>1, StackOf
  <2>4. Stack(w[b]) /\ Len(w[b]) = k
    BY <1>1, <2>2, StackOf
  <2>5. \A t \in 1..k : FileIs(d, m[b][t], w[b][t])
    BY <1>3, <2>1, <2>2 DEF New, k
  <2> QED
    BY <2>3, <2>4, <2>5
<1>4. ASSUME NEW b \in Kept, b \notin New
      PROVE  /\ Stack(m[b]) /\ Stack(w[b]) /\ Len(m[b]) = Len(w[b])
             /\ \A t \in 1..Len(m[b]) : FileIs(d, m[b][t], w[b][t])
  <2>1. m[b] = in[1][b] /\ w[b] = win[1][b]
    BY <1>1, <1>4, Zenon DEF OutCube, Meaning
  <2>2. CubeMeant(d, in[1], win[1])
    BY DEF Takes, Compute
  <2>3. b \in DOMAIN in[1]
    BY <1>1
  <2> HIDE DEF m, w
  <2> QED
    BY <2>1, <2>2, <2>3 DEF CubeMeant
<1> HIDE DEF m, w, New, Kept
<1> QED
  BY <1>2, <1>3, <1>4 DEF CubeMeant, m, w

\* Every set of numbers that is not empty has a least one.
LEMMA LeastIndex ==
  ASSUME NEW S, S \subseteq Nat, S # {}
  PROVE  \E k \in S : \A l \in S : k <= l
<1>1. PICK k \in S : \A l \in S : ~ (<<l, k>> \in OpToRel(<, Nat))
  BY NatLessThanWellFounded, WFMin, Zenon
<1>2. \A l \in S : <<l, k>> \in Nat \X Nat /\ <<l, k>>[1] = l /\ <<l, k>>[2] = k
  OBVIOUS
<1>3. \A l \in S : ~ (l < k)
  BY <1>1, <1>2, Zenon DEF OpToRel
<1> QED
  BY <1>3

\* The band to answer depends on the bands alone and is one of them.
LEMMA PickedBand ==
  ASSUME NEW m, NEW w, DOMAIN m = DOMAIN w
  PROVE  /\ PickBand(m) = PickBand(w)
         /\ PickBand(m) # None => PickBand(m) \in DOMAIN m
<1> DEFINE order == F32_INDEX_BANDS \o BandOrder
           J == {k \in DOMAIN order : order[k] \in DOMAIN m}
           K == {k \in DOMAIN order : order[k] \in DOMAIN w}
<1>1. PickBand(m) = PickBand(w)
  <2>1. J = K
    OBVIOUS
  <2>2. PickBand(m) = IF J = {} THEN None ELSE order[CHOOSE k \in J : \A l \in J : k <= l]
    BY DEF PickBand
  <2>3. PickBand(w) = IF K = {} THEN None ELSE order[CHOOSE k \in K : \A l \in K : k <= l]
    BY DEF PickBand
  <2> HIDE DEF J, K, order
  <2> QED
    BY <2>1, <2>2, <2>3
<1> DEFINE S == STRING \cup {F32_INDEX_BANDS[k] : k \in 1..6}
<1>2. F32_INDEX_BANDS \in Seq(S) /\ BandOrder \in Seq(S)
  <2>1. DOMAIN F32_INDEX_BANDS = 1..6
    BY DEF F32_INDEX_BANDS
  <2>2. F32_INDEX_BANDS = [k \in 1..6 |-> F32_INDEX_BANDS[k]]
    BY <2>1 DEF F32_INDEX_BANDS
  <2>3. F32_INDEX_BANDS \in [1..6 -> S]
    BY <2>2
  <2>4. [1..6 -> S] \subseteq Seq(S)
    <3>1. 6 \in Nat
      OBVIOUS
    <3> HIDE DEF S
    <3> QED
      BY <3>1, SeqDef, Zenon
  <2>5. Seq(STRING) \subseteq Seq(S)
    BY SeqMonotonic
  <2> HIDE DEF S
  <2> QED
    BY <2>3, <2>4, <2>5, GeoAssumption
<1> HIDE DEF S
<1>3. order \in Seq(S)
  BY <1>2, ConcatProperties
<1>4. J \subseteq Nat
  BY <1>3, LenProperties
<1> HIDE DEF order
<1>5. CASE J # {}
  <2>1. PICK k \in J : \A l \in J : k <= l
    BY <1>4, <1>5, LeastIndex, Zenon
  <2>2. (CHOOSE i \in J : \A l \in J : i <= l) \in J
    BY <2>1, Zenon
  <2>3. PickBand(m) = order[CHOOSE i \in J : \A l \in J : i <= l]
    BY <1>5, Zenon DEF PickBand, order
  <2> QED
    BY <1>1, <2>2, <2>3, Zenon
<1>6. CASE J = {}
  BY <1>1, <1>6, Zenon DEF PickBand, order
<1> QED
  BY <1>5, <1>6


-----------------------------------------------------------------------------
\* A step of f changes nobody else's walk, and its writes mark whoever counts
\* on the file.
Same(e) ==
    /\ phase'[e] = phase[e] /\ cur'[e] = cur[e] /\ memo'[e] = memo[e]
    /\ want'[e] = want[e] /\ scenes'[e] = scenes[e] /\ task'[e] = task[e]
    /\ made'[e] = made[e] /\ open'[e] = open[e] /\ via'[e] = via[e]
    /\ result'[e] = result[e]
Local(f) == graph' = graph /\ \A e \in Evals \ {f} : Same(e)
Touches(f) ==
    \/ NoWrite
    \/ disk' = disk /\ disturbed' = [disturbed EXCEPT ![f] = TRUE]
    \/ \E p, c : Create(f, p, c) \/ Complete(f, p, c)

Moves(f) == run_sync(f) \/ Step(f) \/ drop(f)
Kinds == TaskTypes /\ FetchesOfLoads /\ CubeInv /\ Shapes

\* One disjunct per operation of f.
LEMMA MoveHasCase ==
  ASSUME NEW f \in Evals, Moves(f)
  PROVE  \/ run_sync(f) \/ drop(f) \/ search(f) \/ load_ends(f)
         \/ compute_ends(f) \/ finalise_save_result(f) \/ gdalwarp(f) \/ apply_reduction(f)
         \/ \E n \in Nodes(graph[f]) : evaluate(f, n)
         \/ \E s \in Slots : fetch_refused(f, s)
         \/ \E s \in Slots : fetch(f, s)
         \/ \E s \in Slots : fetched(f, s)
         \/ \E s \in Slots : next_fetched(f, s)
         \/ \E o \in Outputs(f) : phase[f] = "compute" /\ resample_scl_to_data_grid(f, o)
         \/ \E o \in Outputs(f) : phase[f] = "compute" /\ writer_create(f, o)
  BY Zenon DEF Moves, Step

\* A step of f touches the entries of f alone and the disk as Touches says.
LEMMA StepIsLocal ==
  ASSUME Kinds, NEW f \in Evals, Moves(f)
  PROVE  Local(f) /\ Touches(f) /\ Shapes'
<1>t. /\ DOMAIN phase = Evals /\ DOMAIN task = Evals /\ DOMAIN cur = Evals
      /\ DOMAIN memo = Evals /\ DOMAIN want = Evals /\ Shapes
  BY DEF Kinds, TaskTypes, CubeInv, Cubes, Handlers
<1> USE DEF nodeVars, memoVars, itemVars, Goto, LetGo, Fail, NoWrite
<1>1. CASE run_sync(f) \/ drop(f)
  <2>1. Local(f)
    BY <1>t, <1>1 DEF run_sync, drop, Local, Same
  <2>2. Touches(f) /\ Shapes'
    BY <1>t, <1>1 DEF run_sync, drop, Touches, Shapes
  <2> QED
    BY <2>1, <2>2
<1>2. ASSUME NEW n \in Nodes(graph[f]), evaluate(f, n) PROVE Local(f) /\ Touches(f) /\ Shapes'
  <2>1. Touches(f) /\ Shapes'
    BY <1>t, <1>2 DEF evaluate, Touches, Shapes
  <2>2. /\ UNCHANGED <<graph, scenes, made, open, via, result>>
        /\ phase' = phase \/ \E to : phase' = [phase EXCEPT ![f] = to]
        /\ cur' = cur \/ cur' = [cur EXCEPT ![f] = n]
        /\ task' = task \/ \E v : task' = [task EXCEPT ![f] = v]
        /\ UNCHANGED memo \/ \E v : memo' = [memo EXCEPT ![f] = v]
        /\ UNCHANGED want \/ \E v : want' = [want EXCEPT ![f] = v]
    BY <1>2 DEF evaluate, Remember
  <2> QED
    BY <1>t, <2>1, <2>2 DEF Local, Same
<1>3. CASE search(f)
  <2>1. /\ UNCHANGED <<graph, cur, memo, want, made, open, via, result>>
        /\ \E to : phase' = [phase EXCEPT ![f] = to]
        /\ scenes' = scenes \/ \E v : scenes' = [scenes EXCEPT ![f] = v]
        /\ \E v : task' = [task EXCEPT ![f] = v]
    BY <1>3, Zenon DEF search
  <2>2. Local(f)
    BY <1>t, <2>1 DEF Local, Same, Shapes
  <2> QED
    BY <1>t, <1>3, <2>2 DEF search, Touches, Shapes
<1>4. CASE load_ends(f) \/ compute_ends(f) \/ finalise_save_result(f)
  <2>1. Local(f)
    BY <1>t, <1>4 DEF load_ends, compute_ends, finalise_save_result, Local, Same, Remember, Shapes
  <2> QED
    BY <1>t, <1>4, <2>1 DEF load_ends, compute_ends, finalise_save_result, Touches, Shapes
<1>5. ASSUME NEW s \in Slots, fetch_refused(f, s) \/ fetch(f, s) \/ fetched(f, s)
      PROVE  Local(f) /\ Touches(f) /\ Shapes'
  <2>1. Local(f) /\ Shapes'
    BY <1>t, <1>5 DEF fetch_refused, fetch, fetched, SetTask, Local, Same, Shapes
  <2>2. Touches(f)
    BY <1>5 DEF fetch_refused, fetch, fetched, Touches
  <2> QED
    BY <2>1, <2>2
<1>6. ASSUME NEW s \in Slots, next_fetched(f, s) PROVE Local(f) /\ Touches(f) /\ Shapes'
  BY <1>t, <1>6 DEF next_fetched, SetTask, Local, Same, Touches, Shapes
<1>7. CASE gdalwarp(f)
  <2>1. Local(f) /\ Shapes'
    BY <1>t, <1>7 DEF gdalwarp, Answer, Local, Same, Shapes
  <2>2. Touches(f)
    BY <1>7 DEF gdalwarp, Touches
  <2> QED
    BY <2>1, <2>2
<1>8. CASE apply_reduction(f)
  <2>1. Local(f) /\ Shapes'
    BY <1>t, <1>8 DEF apply_reduction, Local, Same, Shapes
  <2>2. Touches(f)
    BY <1>8 DEF apply_reduction, Touches
  <2> QED
    BY <2>1, <2>2
<1>9. ASSUME NEW o \in Outputs(f), resample_scl_to_data_grid(f, o)
      PROVE  Local(f) /\ Touches(f) /\ Shapes'
  <2>1. Local(f) /\ Shapes'
    BY <1>t, <1>9 DEF resample_scl_to_data_grid, Answer, Local, Same, Shapes
  <2>2. Touches(f)
    BY <1>9 DEF resample_scl_to_data_grid, Touches
  <2> QED
    BY <2>1, <2>2
<1>10. ASSUME NEW o \in Outputs(f), writer_create(f, o) PROVE Local(f) /\ Touches(f) /\ Shapes'
  <2>1. Local(f) /\ Shapes'
    BY <1>t, <1>10 DEF writer_create, Local, Same, Shapes
  <2>2. Touches(f)
    BY <1>10 DEF writer_create, Touches
  <2> QED
    BY <2>1, <2>2
<1> QED
  BY MoveHasCase, <1>1, <1>2, <1>3, <1>4, <1>5, <1>6, <1>7, <1>8, <1>9, <1>10

\* The complete files of e are as they were.
Spares(e) == \A p \in DOMAIN disk : Settled(e, p) => p \in DOMAIN disk' /\ disk'[p] = disk[p]

LEMMA SettledIsHeld ==
  ASSUME NEW e \in Evals, Live(e), NEW p, Settled(e, p)
  PROVE  p \in Held(e)
<1> DEFINE Band(n, b) == {memo[e][n][b][t] : t \in DOMAIN memo[e][n][b]}
           Cube(n) == UNION {Band(n, b) : b \in DOMAIN memo[e][n]}
           A == UNION {Cube(n) : n \in DOMAIN memo[e]}
           B == {BandFile(s[2], s[1]) : s \in {r \in Slots :
                    task[e][r] \in {"writing", "done", "slotted"}}}
           C == {OutFile(Nd(e), o[1], o[2]) : o \in made[e]}
           D == {via[e][o] : o \in DOMAIN via[e]}
           E == IF open[e] = NoOutput THEN {}
                ELSE IF Nd(e).process = "mask_scl_dilation" /\ open[e] \notin DOMAIN via[e]
                THEN {SclFile(open[e][1], open[e][2])}
                ELSE {OutFile(Nd(e), open[e][1], open[e][2])}
<1>0. A \cup B \cup C \cup D \subseteq Held(e)
  <2>1. Held(e) = IF ~Live(e) THEN {} ELSE A \cup B \cup C \cup D \cup E
    BY Zenon DEF Held
  <2> HIDE DEF A, B, C, D, E
  <2> QED
    BY <2>1
<1>1. CASE MemoFile(e, p)
  <2>1. PICK n \in DOMAIN memo[e] : \E b \in DOMAIN memo[e][n] :
            \E t \in DOMAIN memo[e][n][b] : p = memo[e][n][b][t]
    BY <1>1, Zenon DEF MemoFile
  <2>2. PICK b \in DOMAIN memo[e][n] : \E t \in DOMAIN memo[e][n][b] : p = memo[e][n][b][t]
    BY <2>1, Zenon
  <2>3. p \in Band(n, b)
    BY <2>2, Zenon
  <2> HIDE DEF Band
  <2>4. p \in Cube(n)
    BY <2>3, Zenon
  <2> HIDE DEF Cube
  <2>5. p \in A
    BY <2>4, Zenon
  <2> QED
    BY <1>0, <2>5, Zenon
<1>2. CASE \E s \in Slots : task[e][s] \in {"done", "slotted"} /\ p = BandFile(s[2], s[1])
  <2>1. p \in B
    BY <1>2
  <2> QED
    BY <1>0, <2>1, Zenon
<1>3. CASE \E o \in made[e] : p = OutFile(Nd(e), o[1], o[2])
  <2>1. p \in C
    BY <1>3, Zenon
  <2> QED
    BY <1>0, <2>1, Zenon
<1>4. CASE \E o \in DOMAIN via[e] : p = via[e][o]
  <2>1. p \in D
    BY <1>4, Zenon
  <2> QED
    BY <1>0, <2>1, Zenon
<1> QED
  BY <1>1, <1>2, <1>3, <1>4, Zenon DEF Settled

\* Writing a file that is not one of them leaves the complete files alone.
LEMMA PutSpares ==
  ASSUME NEW e \in Evals, NEW p, NEW c, Put(p, c), ~Settled(e, p)
  PROVE  Spares(e)
<1>1. DOMAIN disk' = DOMAIN disk \cup {p}
  BY DEF Put, With
<1>2. \A q \in DOMAIN disk : q # p => disk'[q] = disk[q]
  BY DEF Put, With
<1> QED
  BY <1>1, <1>2 DEF Spares

LEMMA PutIs ==
  ASSUME NEW p, NEW c, Put(p, c)
  PROVE  FileIs(disk', p, c)
  BY DEF Put, With, FileIs

\* Whoever stays undisturbed was, and keeps its complete files when others write.
LEMMA UndisturbedIsSpared ==
  ASSUME Kinds, NEW f \in Evals, Touches(f), NEW e \in Evals, ~disturbed'[e]
  PROVE  /\ ~disturbed[e]
         /\ e # f /\ Live(e) => Spares(e)
<1>1. CASE disk' = disk /\ (disturbed' = disturbed \/ disturbed' = [disturbed EXCEPT ![f] = TRUE])
  BY <1>1 DEF Kinds, CubeInv, Marks, Spares
<1>2. ASSUME NEW p, NEW c, Create(f, p, c) \/ Complete(f, p, c)
      PROVE  /\ ~disturbed[e]
             /\ e # f /\ Live(e) => Spares(e)
  <2>1. ~disturbed[e] /\ Put(p, c) /\ (e # f => p \notin Held(e))
    BY <1>2 DEF Create, Complete
  <2> QED
    BY <2>1, SettledIsHeld, PutSpares
<1> QED
  BY <1>1, <1>2 DEF Touches, NoWrite

\* The operators of an evaluation depend on its own entries.
LEMMA SameNode ==
  ASSUME NEW e \in Evals, graph' = graph, cur'[e] = cur[e], memo'[e] = memo[e], want'[e] = want[e]
  PROVE  /\ Nd(e)' = Nd(e) /\ In(e)' = In(e) /\ WantIn(e)' = WantIn(e)
         /\ Outputs(e)' = Outputs(e)
<1>1. Nd(e)' = Nd(e)
  BY DEF Nd
<1>2. In(e)' = In(e) /\ WantIn(e)' = WantIn(e)
  BY <1>1 DEF In, WantIn
<1> QED
  BY <1>1, <1>2 DEF Outputs

LEMMA CubesSurvive ==
  ASSUME NEW e \in Evals, CubesKept(e), memo'[e] = memo[e], want'[e] = want[e], Spares(e)
  PROVE  CubesKept(e)'
<1> SUFFICES ASSUME NEW n \in DOMAIN memo[e]
             PROVE  CubeMeant(disk', memo[e][n], want[e][n])
  BY DEF CubesKept
<1>1. CubeMeant(disk, memo[e][n], want[e][n])
  BY DEF CubesKept
<1>2. ASSUME NEW b \in DOMAIN memo[e][n], NEW t \in 1..Len(memo[e][n][b])
      PROVE  FileIs(disk', memo[e][n][b][t], want[e][n][b][t])
  <2>1. /\ t \in DOMAIN memo[e][n][b]
        /\ FileIs(disk, memo[e][n][b][t], want[e][n][b][t])
    BY <1>1 DEF CubeMeant, Stack
  <2>2. Settled(e, memo[e][n][b][t])
    BY <2>1 DEF Settled, MemoFile
  <2> QED
    BY <2>1, <2>2 DEF FileIs, Spares
<1> QED
  BY <1>1, <1>2 DEF CubeMeant

LEMMA LoadSurvives ==
  ASSUME NEW e \in Evals, LoadKept(e), Nd(e)' = Nd(e), task'[e] = task[e], Spares(e)
  PROVE  LoadKept(e)'
  BY DEF LoadKept, Spares, Settled, FileIs

LEMMA WorkSurvives ==
  ASSUME NEW e \in Evals, WorkKept(e), Nd(e)' = Nd(e), WantIn(e)' = WantIn(e),
         made'[e] = made[e], via'[e] = via[e], Spares(e)
  PROVE  WorkKept(e)'
  BY DEF WorkKept, Spares, Settled, FileIs

\* Steps that leave the entries of e and its complete files alone.
LEMMA FrameKeepsMeaning ==
  ASSUME NEW e \in Evals, MeantFor(e), graph' = graph, Same(e),
         ~disturbed'[e] => ~disturbed[e] /\ (Live(e) => Spares(e))
  PROVE  MeantFor(e)'
<1>s. /\ phase'[e] = phase[e] /\ cur'[e] = cur[e] /\ memo'[e] = memo[e]
      /\ want'[e] = want[e] /\ scenes'[e] = scenes[e] /\ task'[e] = task[e]
      /\ made'[e] = made[e] /\ open'[e] = open[e] /\ via'[e] = via[e]
      /\ result'[e] = result[e]
  BY DEF Same
<1>n. /\ Nd(e)' = Nd(e) /\ In(e)' = In(e) /\ WantIn(e)' = WantIn(e)
      /\ Outputs(e)' = Outputs(e)
  BY <1>s, SameNode
<1>l. Live(e)' = Live(e) /\ Resampling(e)' = Resampling(e) /\ Pending(e)' = Pending(e)
  BY <1>s, <1>n DEF Live, Resampling, Pending
<1>1. Placed(e)'
  <2>1. AtRest(e) => AtRest(e)'
    BY <1>s DEF AtRest
  <2>2. InLoad(e) => InLoad(e)'
    BY <1>s, <1>n DEF InLoad
  <2>3. InWork(e) => InWork(e)'
    BY <1>s, <1>n, <1>l DEF InWork
  <2> QED
    BY <1>s, <1>n, <1>l, <2>1, <2>2, <2>3 DEF MeantFor, Placed
<1>2. ASSUME Live(e), ~disturbed'[e] PROVE Intact(e)'
  <2>1. Intact(e) /\ Spares(e)
    BY <1>2 DEF MeantFor
  <2>2. CubesKept(e)' /\ LoadKept(e)' /\ WorkKept(e)'
    BY <1>s, <1>n, <2>1, CubesSurvive, LoadSurvives, WorkSurvives DEF Intact
  <2>3. \A p : Settled(e, p)' <=> Settled(e, p)
    BY <1>s, <1>n DEF Settled, MemoFile
  <2>4. Apart(e)'
    BY <1>s, <1>n, <1>l, <2>1, <2>3 DEF Intact, Apart
  <2> QED
    BY <2>2, <2>4 DEF Intact
<1>3. ASSUME phase[e] = "ok", ~disturbed'[e] PROVE ResultIsMeant(e)'
  <2>1. ResultIsMeant(e)
    BY <1>3 DEF MeantFor
  <2> QED
    BY <1>s, <2>1 DEF ResultIsMeant
<1> QED
  BY <1>s, <1>l, <1>1, <1>2, <1>3 DEF MeantFor


-----------------------------------------------------------------------------
\* The steps of the evaluation itself.

\* One that has failed or was dropped promises nothing.
LEMMA QuitsKeepMeaning ==
  ASSUME NEW e \in Evals, phase'[e] \in {"err", "dropped"}
  PROVE  MeantFor(e)'
  BY DEF MeantFor, Placed, Live, Ended

\* One that has ended only has closures left.
LEMMA EndedKeepMeaning ==
  ASSUME Kinds, NEW e \in Evals, phase[e] \in Ended, MeantFor(e), Moves(e), Touches(e)
  PROVE  MeantFor(e)'
<1>1. gdalwarp(e) \/ \E s \in Slots : fetched(e, s)
  <2>1. phase[e] \notin {"idle", "evaluate", "search", "download", "compute"}
    BY DEF Ended
  <2>2. /\ ~run_sync(e) /\ ~drop(e) /\ ~search(e) /\ ~load_ends(e)
        /\ ~compute_ends(e) /\ ~finalise_save_result(e) /\ ~apply_reduction(e)
    BY <2>1 DEF run_sync, drop, search, load_ends, compute_ends, finalise_save_result, apply_reduction
  <2>3. /\ \A n \in Nodes(graph[e]) : ~evaluate(e, n)
        /\ \A s \in Slots : ~fetch_refused(e, s) /\ ~fetch(e, s) /\ ~next_fetched(e, s)
    BY <2>1 DEF evaluate, fetch_refused, fetch, next_fetched
  <2> QED
    BY <2>1, <2>2, <2>3, MoveHasCase
<1>2. phase' = phase /\ UNCHANGED <<graph, want, result>>
  BY <1>1 DEF gdalwarp, fetched, Live, nodeVars, memoVars
<1>3. ~disturbed'[e] => ~disturbed[e]
  BY UndisturbedIsSpared
<1>4. ResultIsMeant(e) => ResultIsMeant(e)'
  BY <1>2 DEF ResultIsMeant
<1>5. Placed(e)' /\ ~Live(e)'
  BY <1>2 DEF Placed, Live, Ended
<1> QED
  BY <1>2, <1>3, <1>4, <1>5 DEF MeantFor

\* The links of a node lead to cubes that are remembered.
LEMMA LinksResolve ==
  ASSUME WellFormed, Kinds, NEW e \in Evals, NEW n \in Nodes(graph[e]),
         collect_from_node_refs(graph[e], n) \subseteq DOMAIN memo[e],
         NEW i \in DOMAIN graph[e].nodes[n].from
  PROVE  /\ graph[e].nodes[n].from[i].to \in DOMAIN memo[e]
         /\ resolve_value(memo[e], graph[e].nodes[n].from[i]) = memo[e][graph[e].nodes[n].from[i].to]
<1>1. graph[e] \in Graphs[e]
  BY DEF Kinds, CubeInv, Handlers
<1>2. graph[e].nodes[n].from[i].plain
  BY <1>1 DEF WellFormed
<1> QED
  BY <1>2 DEF collect_from_node_refs, resolve_value

\* Its process finds the cubes it takes.
LEMMA ArgumentsPresent ==
  ASSUME WellFormed, Kinds, NEW e \in Evals, NEW n \in Nodes(graph[e])
  PROVE  Takes(graph[e].nodes[n].process) \subseteq DOMAIN graph[e].nodes[n].from
  BY DEF WellFormed, Kinds, CubeInv, Handlers

\* A handler at work is given cubes that hold what they should.
LEMMA InputsOfWork ==
  ASSUME WellFormed, Kinds, NEW e \in Evals, phase[e] = "compute", InWork(e), CubesKept(e)
  PROVE  /\ Nd(e).process \in Compute
         /\ Takes(Nd(e).process) \subseteq DOMAIN In(e)
         /\ DOMAIN WantIn(e) = DOMAIN In(e)
         /\ \A i \in DOMAIN In(e) : CubeMeant(disk, In(e)[i], WantIn(e)[i])
         /\ Accepts(Nd(e), In(e))
<1>1. cur[e] \in Nodes(graph[e])
  BY DEF Kinds, CubeInv, Handlers
<1>2. Takes(Nd(e).process) \subseteq DOMAIN Nd(e).from
  BY <1>1, ArgumentsPresent DEF Nd
<1>3. DOMAIN In(e) = DOMAIN Nd(e).from /\ DOMAIN WantIn(e) = DOMAIN Nd(e).from
  BY DEF In, WantIn
<1>4. ASSUME NEW i \in DOMAIN Nd(e).from
      PROVE  CubeMeant(disk, In(e)[i], WantIn(e)[i])
  <2>1. /\ Nd(e).from[i].to \in DOMAIN memo[e]
        /\ resolve_value(memo[e], Nd(e).from[i]) = memo[e][Nd(e).from[i].to]
    BY <1>1, LinksResolve DEF Nd, InWork
  <2>2. In(e)[i] = memo[e][Nd(e).from[i].to] /\ WantIn(e)[i] = want[e][Nd(e).from[i].to]
    BY <2>1 DEF In, WantIn, Meant
  <2> QED
    BY <2>1, <2>2 DEF CubesKept
<1> QED
  BY <1>2, <1>3, <1>4 DEF InWork

\* Back in the walk, the cubes are all that counts.
LEMMA WalkKeepsMeaning ==
  ASSUME NEW e \in Evals, phase'[e] = "evaluate", AtRest(e)', task'[e] = NoTasks,
         graph' = graph, graph[e].result # {}, ~disturbed'[e] => CubesKept(e)'
  PROVE  MeantFor(e)'
<1>1. Placed(e)'
  BY DEF Placed, Ended
<1>2. LoadKept(e)' /\ WorkKept(e)' /\ Apart(e)'
  BY DEF LoadKept, WorkKept, Apart, AtRest, NoTasks
<1> QED
  BY <1>1, <1>2 DEF MeantFor, Intact

LEMMA RememberKeeps ==
  ASSUME Kinds, NEW e \in Evals, NEW n, NEW cube, NEW contents, Remember(e, n, cube, contents),
         CubesKept(e), disk' = disk, CubeMeant(disk, cube, contents)
  PROVE  CubesKept(e)'
<1>1. memo'[e] = With(memo[e], n, cube) /\ want'[e] = With(want[e], n, contents)
  BY DEF Remember, Kinds, CubeInv, Cubes
<1>2. DOMAIN want[e] = DOMAIN memo[e]
  BY DEF Kinds, CubeInv, Cubes
<1>3. /\ DOMAIN memo'[e] = DOMAIN memo[e] \cup {n}
      /\ memo'[e][n] = cube /\ want'[e][n] = contents
      /\ \A k \in DOMAIN memo[e] \ {n} : memo'[e][k] = memo[e][k] /\ want'[e][k] = want[e][k]
  BY <1>1, <1>2 DEF With
<1>4. ASSUME NEW k \in DOMAIN memo'[e] PROVE CubeMeant(disk', memo'[e][k], want'[e][k])
  BY <1>3 DEF CubesKept
<1> QED
  BY <1>4 DEF CubesKept

LEMMA NonEmptyResult ==
  ASSUME NEW g, build(g)
  PROVE  g.result # {}
<1>1. Cardinality(g.result) = 1
  BY DEF build
<1> QED
  BY <1>1, FS_EmptySet

\* The walk starts and goes on.
LEMMA StartKeepsMeaning ==
  ASSUME Kinds, NEW e \in Evals, MeantFor(e), run_sync(e)
  PROVE  MeantFor(e)'
<1>1. CASE ~build(graph[e])
  BY <1>1, QuitsKeepMeaning DEF run_sync, Goto, Kinds, TaskTypes
<1>2. CASE build(graph[e])
  <2>1. phase[e] = "idle" /\ phase'[e] = "evaluate"
    BY <1>2 DEF run_sync, Goto, Kinds, TaskTypes
  <2>2. /\ graph' = graph /\ task' = task /\ memo' = memo
        /\ made' = made /\ open' = open /\ via' = via
    BY DEF run_sync, nodeVars, memoVars, itemVars
  <2>3. task[e] = NoTasks
    BY <2>1 DEF Kinds, FetchesOfLoads, Ended
  <2>4. AtRest(e)' /\ CubesKept(e)'
    BY <2>1, <2>2 DEF MeantFor, Placed, AtRest, Ended, CubesKept
  <2> QED
    BY <1>2, <2>1, <2>2, <2>3, <2>4, NonEmptyResult, WalkKeepsMeaning
<1> QED
  BY <1>1, <1>2

LEMMA EvaluateKeepsMeaning ==
  ASSUME WellFormed, Kinds, NEW e \in Evals, MeantFor(e), NEW n \in Nodes(graph[e]), evaluate(e, n)
  PROVE  MeantFor(e)'
<1> DEFINE nd == graph[e].nodes[n]
           in == [i \in DOMAIN nd.from |-> resolve_value(memo[e], nd.from[i])]
<1>1. /\ phase[e] = "evaluate" /\ collect_from_node_refs(graph[e], n) \subseteq DOMAIN memo[e]
      /\ UNCHANGED <<graph, scenes, made, open, via, disk, result, disturbed>>
  BY DEF evaluate, itemVars
<1>2. AtRest(e) /\ AtRest(e)' /\ graph[e].result # {} /\ task[e] = NoTasks
  BY <1>1 DEF MeantFor, Placed, Live, Ended, AtRest, Kinds, FetchesOfLoads
<1>3. ~disturbed[e] => CubesKept(e)
  BY <1>1 DEF MeantFor, Live, Ended, Intact
<1>4. ASSUME NEW cube, NEW contents, Remember(e, n, cube, contents), UNCHANGED <<phase, cur, task>>,
             ~disturbed[e] => CubeMeant(disk, cube, contents)
      PROVE  MeantFor(e)'
  <2>1. ~disturbed'[e] => CubesKept(e)'
    BY <1>1, <1>3, <1>4, RememberKeeps
  <2> QED
    BY <1>1, <1>2, <1>4, <2>1, WalkKeepsMeaning
<1>5. ASSUME NEW to \in {"search", "compute"}, Goto(e, to), cur' = [cur EXCEPT ![e] = n],
             UNCHANGED <<memo, want, task>>,
             to = "search" => nd.process = "load_collection",
             to = "compute" => nd.process \in Compute /\ Accepts(nd, in)
      PROVE  MeantFor(e)'
  <2>1. /\ phase'[e] = to /\ cur'[e] = n /\ memo'[e] = memo[e] /\ want'[e] = want[e]
        /\ task'[e] = NoTasks
    BY <1>2, <1>5 DEF Goto, Kinds, TaskTypes, CubeInv, Handlers
  <2>2. Nd(e)' = nd /\ In(e)' = in
    BY <1>1, <1>5, <2>1 DEF Nd, In
  <2>3. LoadKept(e)' /\ WorkKept(e)' /\ Apart(e)'
    BY <1>2, <2>1 DEF LoadKept, WorkKept, Apart, AtRest, NoTasks
  <2>4. ~disturbed'[e] => CubesKept(e)'
    BY <1>1, <1>3, <2>1 DEF CubesKept
  <2>5. to = "compute" => InWork(e)'
    BY <1>1, <1>2, <1>5, <2>1, <2>2 DEF InWork, AtRest
  <2>6. Placed(e)'
    BY <1>1, <1>2, <1>5, <2>1, <2>2, <2>5 DEF Placed, Ended
  <2> QED
    BY <1>5, <2>1, <2>3, <2>4, <2>6 DEF MeantFor, Intact
<1>6. CASE Fail(e)
  BY <1>6, QuitsKeepMeaning DEF Fail, Goto, Kinds, TaskTypes
<1>7. CASE nd.process = "save_result" /\ Remember(e, n, in[1], Meant(want[e], nd.from[1]))
           /\ UNCHANGED <<phase, cur, task>>
  <2>1. 1 \in DOMAIN nd.from
    BY <1>7, ArgumentsPresent DEF Takes, Compute
  <2>2. nd.from[1].to \in DOMAIN memo[e] /\ in[1] = memo[e][nd.from[1].to]
    BY <1>1, <2>1, LinksResolve
  <2>3. ~disturbed[e] => CubeMeant(disk, in[1], Meant(want[e], nd.from[1]))
    BY <1>3, <2>2 DEF CubesKept, Meant
  <2> QED
    BY <1>4, <1>7, <2>3
<1>8. CASE Remember(e, n, NoBands, NoBands) /\ UNCHANGED <<phase, cur, task>>
  <2>1. CubeMeant(disk, NoBands, NoBands)
    BY DEF CubeMeant, NoBands
  <2> QED
    BY <1>4, <1>8, <2>1
<1> QED
  BY <1>5, <1>6, <1>7, <1>8 DEF evaluate, memoVars


\* The load: a search that answers, fetches, and the cube they make.
LEMMA SearchKeepsMeaning ==
  ASSUME Kinds, NEW e \in Evals, MeantFor(e), search(e)
  PROVE  MeantFor(e)'
<1>1. CASE Fail(e)
  BY <1>1, QuitsKeepMeaning DEF Fail, Goto, Kinds, TaskTypes
<1>2. ASSUME NEW sc \in SceneLists, sc # << >>, Goto(e, "download"),
             scenes' = [scenes EXCEPT ![e] = sc],
             task' = [task EXCEPT ![e] = [s \in Slots |->
                    IF s[1] \in DOMAIN sc /\ s[2] \in Nd(e).bands \cap sc[s[1]]
                    THEN "waiting" ELSE task[e][s]]]
      PROVE  MeantFor(e)'
  <2>1. /\ phase[e] = "search" /\ phase'[e] = "download" /\ scenes'[e] = sc
        /\ UNCHANGED <<graph, cur, memo, want, made, open, via, disk, disturbed>>
    BY <1>2 DEF search, memoVars, itemVars, Goto, Kinds, TaskTypes, Shapes
  <2>2. Nd(e)' = Nd(e)
    BY <2>1 DEF Nd
  <2>3. AtRest(e) /\ AtRest(e)' /\ graph[e].result # {} /\ Nd(e).process = "load_collection"
    BY <2>1 DEF MeantFor, Placed, Live, Ended, AtRest
  <2>4. \A s \in Slots : task'[e][s] =
            IF s[1] \in DOMAIN sc /\ s[2] \in Nd(e).bands \cap sc[s[1]] THEN "waiting" ELSE "none"
    <3>1. task[e] = NoTasks
      BY <2>1 DEF Kinds, FetchesOfLoads, Ended
    <3> QED
      BY <1>2, <3>1 DEF NoTasks, Kinds, TaskTypes
  <2>5. InLoad(e)'
    BY <1>2, <2>1, <2>2, <2>4 DEF InLoad
  <2>6. LoadKept(e)' /\ WorkKept(e)' /\ Apart(e)'
    BY <2>3, <2>4 DEF LoadKept, WorkKept, Apart, AtRest
  <2>7. ~disturbed'[e] => CubesKept(e)'
    BY <2>1 DEF MeantFor, Live, Ended, Intact, CubesKept
  <2>8. Placed(e)'
    BY <2>1, <2>2, <2>3, <2>5 DEF Placed, Ended
  <2> QED
    BY <2>1, <2>6, <2>7, <2>8 DEF MeantFor, Intact
<1> QED
  BY <1>1, <1>2 DEF search

\* A fetch moves on; only closures that end settle a file.
LEMMA FetchKeepsMeaning ==
  ASSUME Kinds, NEW e \in Evals, MeantFor(e), phase[e] = "download", phase' = phase,
         UNCHANGED <<nodeVars, memoVars, itemVars>>, ~disturbed'[e] => ~disturbed[e],
         \A s \in Slots : task'[e][s] = "none" <=> task[e][s] = "none",
         ~disturbed'[e] => Spares(e) /\ LoadKept(e)',
         ~disturbed'[e] => \A s \in Slots : task'[e][s] = "writing" =>
                                                ~Settled(e, BandFile(s[2], s[1]))'
  PROVE  MeantFor(e)'
<1>1. /\ UNCHANGED <<graph, cur, scenes, memo, want, made, open, via>>
      /\ phase'[e] = "download"
  BY DEF nodeVars, memoVars, itemVars
<1>2. Nd(e)' = Nd(e)
  BY <1>1 DEF Nd
<1>3. AtRest(e) /\ AtRest(e)' /\ graph[e].result # {} /\ Nd(e).process = "load_collection" /\ InLoad(e)
  BY <1>1 DEF MeantFor, Placed, Live, Ended, AtRest
<1>4. InLoad(e)'
  BY <1>1, <1>2, <1>3 DEF InLoad
<1>5. Placed(e)'
  BY <1>1, <1>2, <1>3, <1>4 DEF Placed, Ended
<1>6. ASSUME ~disturbed'[e] PROVE Intact(e)'
  <2>1. CubesKept(e)
    BY <1>6 DEF MeantFor, Live, Ended, Intact
  <2>2. CubesKept(e)'
    BY <1>1, <1>6, <2>1, CubesSurvive
  <2>3. WorkKept(e)' /\ Apart(e)'
    BY <1>3, <1>6 DEF WorkKept, Apart, AtRest
  <2> QED
    BY <1>6, <2>2, <2>3 DEF Intact
<1> QED
  BY <1>1, <1>5, <1>6 DEF MeantFor

LEMMA FilesOfSlots ==
  \A r, s \in Slots : BandFile(r[2], r[1]) = BandFile(s[2], s[1]) => r = s
  BY DEF BandFile, Slots

LEMMA FetchesKeepMeaning ==
  ASSUME Kinds, NEW e \in Evals, MeantFor(e), phase[e] = "download", NEW s \in Slots,
         \/ fetch_refused(e, s) \/ fetch(e, s) \/ fetched(e, s) \/ next_fetched(e, s),
         Touches(e)
  PROVE  MeantFor(e)'
<1> DEFINE p == BandFile(s[2], s[1])
<1>t. /\ task \in [Evals -> [Slots -> TaskStates]] /\ phase \in [Evals -> Phases]
      /\ e \in Evals /\ s \in Slots
  BY DEF Kinds, TaskTypes
<1>d. ~disturbed'[e] => ~disturbed[e]
  BY UndisturbedIsSpared
<1>i. ~disturbed'[e] => LoadKept(e) /\ Apart(e)
  BY <1>d DEF MeantFor, Live, Ended, Intact
<1>1. CASE Fail(e)
  BY <1>1, QuitsKeepMeaning DEF Fail, Goto, Kinds, TaskTypes
<1>2. ASSUME NEW from \in {"waiting", "writing", "done"}, NEW to \in {"failed", "writing", "done", "slotted"},
             SetTask(e, s, from, to), phase' = phase,
             UNCHANGED <<nodeVars, memoVars, itemVars>>,
             ~disturbed'[e] => Spares(e),
             to = "slotted" <=> from = "done",
             to = "done" /\ ~disturbed'[e] => FileIs(disk', p, Crop(Nd(e).src, s[2], s[1])),
             to = "writing" /\ ~disturbed'[e] => ~Settled(e, p)
      PROVE  MeantFor(e)'
  <2>1. /\ task[e][s] = from /\ task'[e][s] = to
        /\ \A r \in Slots \ {s} : task'[e][r] = task[e][r]
    BY <1>t, <1>2 DEF SetTask
  <2>2. Nd(e)' = Nd(e) /\ memo' = memo /\ made' = made /\ via' = via
    BY <1>2 DEF Nd, nodeVars, memoVars, itemVars
  <2>3. \A r \in Slots : task'[e][r] = "none" <=> task[e][r] = "none"
    BY <1>2, <2>1
  <2>4. ~disturbed'[e] => LoadKept(e)'
    <3> SUFFICES ASSUME ~disturbed'[e], NEW r \in Slots, task'[e][r] \in {"done", "slotted"}
                 PROVE  FileIs(disk', BandFile(r[2], r[1]), Crop(Nd(e).src, r[2], r[1]))
      BY <2>2 DEF LoadKept
    <3>1. CASE task[e][r] \in {"done", "slotted"}
      BY <1>2, <1>i, <3>1 DEF LoadKept, Spares, Settled, FileIs
    <3>2. CASE task[e][r] \notin {"done", "slotted"}
      BY <1>2, <2>1, <3>2
    <3> QED
      BY <3>1, <3>2
  <2>5. ASSUME ~disturbed'[e], NEW r \in Slots, task'[e][r] = "writing"
        PROVE  ~Settled(e, BandFile(r[2], r[1]))'
    <3>1. ~Settled(e, BandFile(r[2], r[1]))
      BY <1>2, <1>i, <2>1, <2>5 DEF Apart
    <3>2. ASSUME NEW q \in Slots, task'[e][q] \in {"done", "slotted"}
          PROVE  BandFile(r[2], r[1]) # BandFile(q[2], q[1])
      <4>1. CASE q = s
        <5>1. r # s
          BY <2>1, <2>5, <3>2, <4>1
        <5> QED
          BY <4>1, <5>1, FilesOfSlots
      <4>2. CASE q # s
        BY <2>1, <3>1, <3>2, <4>2 DEF Settled
      <4> QED
        BY <4>1, <4>2
    <3> QED
      BY <2>2, <3>1, <3>2 DEF Settled, MemoFile
  <2> QED
    BY <1>2, <1>d, <2>3, <2>4, <2>5, FetchKeepsMeaning
<1>3. CASE fetch_refused(e, s)
  <2>1. Spares(e)
    BY <1>3 DEF fetch_refused, NoWrite, Spares
  <2> QED
    BY <1>2, <1>3, <2>1 DEF fetch_refused
<1>4. CASE fetch(e, s)
  <2>1. Put(p, Partial) /\ (~disturbed'[e] => p \notin Held(e))
    BY <1>4 DEF fetch, Create
  <2>2. ~disturbed'[e] => ~Settled(e, p)
    BY <2>1, SettledIsHeld DEF Live, Ended
  <2>3. ~disturbed'[e] => Spares(e)
    BY <2>1, <2>2, PutSpares
  <2>4. SetTask(e, s, "waiting", "writing") /\ phase' = phase /\ UNCHANGED <<nodeVars, memoVars, itemVars>>
    BY <1>4 DEF fetch
  <2> HIDE DEF p
  <2> QED
    BY <1>2, <2>2, <2>3, <2>4
<1>5. CASE fetched(e, s)
  <2>1. phase' = phase /\ UNCHANGED <<nodeVars, memoVars, itemVars>>
    BY <1>5 DEF fetched
  <2>2. CASE SetTask(e, s, "writing", "failed") /\ NoWrite
    <3>1. Spares(e)
      BY <2>2 DEF NoWrite, Spares
    <3> HIDE DEF p
    <3> QED
      BY <1>2, <2>1, <2>2, <3>1
  <2>3. CASE SetTask(e, s, "writing", "done") /\ Complete(e, p, Crop(Nd(e).src, s[2], s[1]))
    <3>1. Put(p, Crop(Nd(e).src, s[2], s[1])) /\ task[e][s] = "writing"
      BY <2>3 DEF Complete, SetTask
    <3>2. ~disturbed'[e] => ~Settled(e, p)
      BY <1>i, <3>1 DEF Apart
    <3>3. ~disturbed'[e] => Spares(e)
      BY <3>1, <3>2, PutSpares
    <3>4. FileIs(disk', p, Crop(Nd(e).src, s[2], s[1]))
      BY <3>1, PutIs
    <3> HIDE DEF p
    <3> QED
      BY <1>2, <2>1, <2>3, <3>3, <3>4
  <2> QED
    BY <1>5, <2>2, <2>3 DEF fetched
<1>6. CASE next_fetched(e, s)
  <2>1. CASE SetTask(e, s, "done", "slotted") /\ UNCHANGED phase
    <3>1. UNCHANGED <<nodeVars, memoVars, itemVars, disk, disturbed>>
      BY <1>6 DEF next_fetched
    <3>2. Spares(e)
      BY <3>1 DEF Spares
    <3> HIDE DEF p
    <3> QED
      BY <1>2, <2>1, <3>1, <3>2
  <2> QED
    BY <1>1, <1>6, <2>1 DEF next_fetched
<1> QED
  BY <1>3, <1>4, <1>5, <1>6

\* All-or-none: the bands with a file for every scene are those every scene has.
LEMMA LoadEndKeepsMeaning ==
  ASSUME WellFormed, Kinds, NEW e \in Evals, MeantFor(e), load_ends(e)
  PROVE  MeantFor(e)'
<1>1. CASE Goto(e, "err")
  BY <1>1, QuitsKeepMeaning DEF Goto, Kinds, TaskTypes
<1>2. CASE /\ Goto(e, "evaluate")
           /\ Remember(e, cur[e], CubeOf(e, FullBands(e)), LoadMeaning(Nd(e), scenes[e]))
  <2>1. /\ phase[e] = "download" /\ phase'[e] = "evaluate" /\ task'[e] = NoTasks
        /\ \A s \in Slots : task[e][s] \in {"none", "slotted"}
        /\ UNCHANGED <<graph, cur, made, open, via, disk, disturbed>>
    BY <1>2 DEF load_ends, Goto, Kinds, TaskTypes, nodeVars, itemVars
  <2>2. AtRest(e)' /\ graph[e].result # {} /\ Nd(e).process = "load_collection" /\ InLoad(e)
    BY <2>1 DEF MeantFor, Placed, Live, Ended, AtRest
  <2>3. Nd(e).bands \subseteq Bands
    BY <2>1, <2>2 DEF WellFormed, Kinds, CubeInv, Handlers, Nd
  <2>4. /\ scenes[e] \in Seq(SUBSET Bands) /\ scenes[e] # << >>
        /\ DOMAIN scenes[e] \subseteq 1..MaxScenes
    <3>1. scenes[e] \in Seq(SUBSET Bands) /\ Len(scenes[e]) <= MaxScenes /\ scenes[e] # << >>
      BY <2>2, GeoAssumption DEF InLoad
    <3>2. DOMAIN scenes[e] = 1..Len(scenes[e]) /\ Len(scenes[e]) \in Nat
      BY <3>1, LenProperties
    <3> QED
      BY <3>1, <3>2, GeoAssumption
  <2>5. \A b \in Nd(e).bands, i \in DOMAIN scenes[e] : <<i, b>> \in Slots
    BY <2>3, <2>4 DEF Slots
  <2>6. \A b \in Nd(e).bands, i \in DOMAIN scenes[e] :
            task[e][<<i, b>>] = "slotted" <=> b \in scenes[e][i]
    BY <2>1, <2>2, <2>5 DEF InLoad
  <2>7. FullBands(e) = LoadedBands(Nd(e), scenes[e])
    BY <2>6 DEF FullBands, LoadedBands
  <2>8. ~disturbed[e] => \A b \in FullBands(e), i \in DOMAIN scenes[e] :
            FileIs(disk, BandFile(b, i), Crop(Nd(e).src, b, i))
    <3> SUFFICES ASSUME ~disturbed[e], NEW b \in FullBands(e), NEW i \in DOMAIN scenes[e]
                 PROVE  FileIs(disk, BandFile(b, i), Crop(Nd(e).src, b, i))
      OBVIOUS
    <3>1. <<i, b>> \in Slots /\ task[e][<<i, b>>] = "slotted"
      BY <2>5 DEF FullBands
    <3>2. LoadKept(e)
      BY <2>1 DEF MeantFor, Live, Ended, Intact
    <3>3. <<i, b>>[1] = i /\ <<i, b>>[2] = b
      OBVIOUS
    <3> QED
      BY <3>1, <3>2, <3>3 DEF LoadKept
  <2>9. ~disturbed[e] =>
            CubeMeant(disk, CubeOf(e, FullBands(e)), LoadMeaning(Nd(e), scenes[e]))
    <3> DEFINE B == FullBands(e)
               sc == scenes[e]
               src == Nd(e).src
               m == CubeOf(e, B)
               w == LoadMeaning(Nd(e), sc)
    <3>1. DOMAIN m = B /\ \A b \in B : m[b] = [i \in DOMAIN sc |-> BandFile(b, i)]
      BY DEF CubeOf
    <3>2. DOMAIN w = B /\ \A b \in B : w[b] = [i \in DOMAIN sc |-> Crop(src, b, i)]
      BY <2>7 DEF LoadMeaning
    <3> HIDE DEF B, sc, src, m, w
    <3>3. Len(sc) \in Nat /\ Len(sc) > 0 /\ DOMAIN sc = 1..Len(sc)
      BY <2>4, LenProperties, EmptySeq DEF sc
    <3>4. ASSUME NEW b \in B
          PROVE  /\ Stack(m[b]) /\ Len(m[b]) = Len(sc)
                 /\ Stack(w[b]) /\ Len(w[b]) = Len(sc)
      <4>1. m[b] = [i \in 1..Len(sc) |-> BandFile(b, i)] /\ w[b] = [i \in 1..Len(sc) |-> Crop(src, b, i)]
        BY <3>1, <3>2, <3>3
      <4>2. Stack(m[b]) /\ Len(m[b]) = Len(sc)
        BY <3>3, <4>1, StackOf
      <4>3. Stack(w[b]) /\ Len(w[b]) = Len(sc)
        BY <3>3, <4>1, StackOf
      <4> QED
        BY <4>2, <4>3
    <3>5. ~disturbed[e] => \A b \in B, i \in DOMAIN sc : FileIs(disk, BandFile(b, i), Crop(src, b, i))
      BY <2>8 DEF B, sc, src
    <3>6. ~disturbed[e] => \A b \in B, i \in 1..Len(sc) : FileIs(disk, m[b][i], w[b][i])
      BY <3>1, <3>2, <3>3, <3>5
    <3>7. ~disturbed[e] => CubeMeant(disk, m, w)
      BY <3>1, <3>2, <3>4, <3>6 DEF CubeMeant
    <3> QED
      BY <3>7 DEF B, sc, m, w
  <2>10. ~disturbed'[e] => CubesKept(e)'
    <3>1. ~disturbed[e] => CubesKept(e)
      BY <2>1 DEF MeantFor, Live, Ended, Intact
    <3> QED
      BY <1>2, <2>1, <2>9, <3>1, RememberKeeps
  <2> QED
    BY <2>1, <2>2, <2>10, WalkKeepsMeaning
<1> QED
  BY <1>1, <1>2 DEF load_ends


\* The handlers that compute: what the files of an output hold.
LEMMA InputFiles ==
  ASSUME WellFormed, Kinds, NEW e \in Evals, phase[e] = "compute", InWork(e), CubesKept(e),
         NEW o \in Outputs(e)
  PROVE  /\ FileIs(disk, DataOf(Nd(e), In(e), o[1], o[2]), DataOf(Nd(e), WantIn(e), o[1], o[2]))
         /\ FileIs(disk, AuxOf(Nd(e), In(e), o[1], o[2]), AuxOf(Nd(e), WantIn(e), o[1], o[2]))
<1>1. o[1] \in NewBands(Nd(e), In(e)[1]) /\ o[2] \in 1..Times(Nd(e), In(e))
  BY DEF Outputs
<1> QED
  BY <1>1, InputsOfWork, InputsAreMeant

\* A handler at work: its cubes stay, its outputs are what the step makes them.
LEMMA WorkKeepsMeaning ==
  ASSUME Kinds, NEW e \in Evals, MeantFor(e), phase[e] = "compute", phase' = phase,
         UNCHANGED <<nodeVars, memoVars, task>>, InWork(e)',
         ~disturbed'[e] => ~disturbed[e] /\ Spares(e) /\ WorkKept(e)' /\ Apart(e)'
  PROVE  MeantFor(e)'
<1>1. UNCHANGED <<graph, memo, want>> /\ phase'[e] = "compute" /\ task'[e] = NoTasks
  BY DEF nodeVars, memoVars, Kinds, FetchesOfLoads, Ended
<1>2. Placed(e)'
  BY <1>1 DEF MeantFor, Placed, Live, Ended
<1>3. LoadKept(e)'
  BY <1>1 DEF LoadKept, NoTasks
<1>4. ASSUME ~disturbed'[e] PROVE CubesKept(e)'
  <2>1. CubesKept(e)
    BY <1>4 DEF MeantFor, Live, Ended, Intact
  <2> QED
    BY <1>1, <1>4, <2>1, CubesSurvive
<1> QED
  BY <1>1, <1>2, <1>3, <1>4 DEF MeantFor, Intact

\* An output that is begun: its file is none that counts.
LEMMA BeginKeepsApart ==
  ASSUME Kinds, NEW e \in Evals, phase[e] = "compute", UNCHANGED <<nodeVars, memoVars, task, made, via>>,
         NEW p, p = Pending(e)', ~Settled(e, p),
         open'[e] # NoOutput /\ Resampling(e)' =>
            AuxOf(Nd(e), WantIn(e), open'[e][1], open'[e][2]).grid
                # DataOf(Nd(e), WantIn(e), open'[e][1], open'[e][2]).grid
  PROVE  Apart(e)'
<1>1. UNCHANGED <<graph, cur, memo, want, made, via>> /\ task'[e] = NoTasks /\ task' = task
  BY DEF nodeVars, memoVars, Kinds, FetchesOfLoads, Ended
<1>2. Nd(e)' = Nd(e) /\ WantIn(e)' = WantIn(e)
  BY <1>1, SameNode
<1>3. ~Settled(e, p)'
  BY <1>1, <1>2 DEF Settled, MemoFile
<1>4. ~(Settled(e, Pending(e))')
  BY <1>3
<1> QED
  BY <1>1, <1>2, <1>4 DEF Apart, NoTasks

LEMMA ResampleKeepsMeaning ==
  ASSUME WellFormed, Kinds, NEW e \in Evals, MeantFor(e), phase[e] = "compute",
         NEW o \in Outputs(e), resample_scl_to_data_grid(e, o), Touches(e)
  PROVE  MeantFor(e)'
<1> DEFINE scl == In(e)[1][SCL][o[2]]
           data == In(e)[1][o[1]][o[2]]
           out == SclFile(o[1], o[2])
           same == disk[scl].grid = disk[data].grid
<1>1. /\ InWork(e) /\ Nd(e).process = "mask_scl_dilation" /\ Resampling(e)
      /\ open[e] = NoOutput /\ o \notin DOMAIN via[e]
      /\ phase' = phase /\ UNCHANGED <<nodeVars, memoVars, task, made>>
  BY DEF resample_scl_to_data_grid, MeantFor, Placed, Resampling
<1>2. /\ Nd(e)' = Nd(e) /\ In(e)' = In(e) /\ WantIn(e)' = WantIn(e) /\ Outputs(e)' = Outputs(e)
      /\ UNCHANGED <<graph, cur, memo, want, made, phase>>
  BY <1>1, SameNode DEF nodeVars, memoVars
<1>d. ~disturbed'[e] => ~disturbed[e]
  BY UndisturbedIsSpared
<1>i. ~disturbed'[e] => CubesKept(e) /\ WorkKept(e) /\ Apart(e)
  BY <1>d DEF MeantFor, Live, Ended, Intact
<1>3. ~disturbed'[e] =>
        /\ FileIs(disk, data, DataOf(Nd(e), WantIn(e), o[1], o[2]))
        /\ FileIs(disk, scl, AuxOf(Nd(e), WantIn(e), o[1], o[2]))
  <2>1. DataOf(Nd(e), In(e), o[1], o[2]) = data /\ AuxOf(Nd(e), In(e), o[1], o[2]) = scl
    BY <1>1 DEF DataOf, AuxOf
  <2> QED
    BY <1>1, <1>i, <2>1, InputFiles
<1>4. ASSUME NEW p, Answer(e, o, p), disk' = disk, open' = open,
             ~disturbed'[e] => FileIs(disk, p, GivenAux(Nd(e), WantIn(e), o))
      PROVE  MeantFor(e)'
  <2>1. /\ DOMAIN via'[e] = DOMAIN via[e] \cup {o} /\ via'[e][o] = p
        /\ \A q \in DOMAIN via[e] : via'[e][q] = via[e][q]
    BY <1>1, <1>4 DEF Answer, With, Kinds, Shapes
  <2>2. InWork(e)'
    BY <1>1, <1>2, <1>4, <2>1 DEF InWork
  <2>3. Spares(e)
    BY <1>4 DEF Spares
  <2>4. ~disturbed'[e] => WorkKept(e)'
    BY <1>2, <1>4, <1>i, <2>1 DEF WorkKept
  <2>5. ~disturbed'[e] => Apart(e)'
    <3>1. task'[e] = NoTasks
      BY <1>1 DEF Kinds, FetchesOfLoads, Ended
    <3> QED
      BY <1>1, <1>4, <3>1 DEF Apart, NoTasks
  <2> QED
    BY <1>1, <1>d, <2>2, <2>3, <2>4, <2>5, WorkKeepsMeaning
<1>5. CASE same /\ Answer(e, o, scl) /\ NoWrite /\ UNCHANGED open
  <2>1. ~disturbed'[e] => FileIs(disk, scl, GivenAux(Nd(e), WantIn(e), o))
    BY <1>1, <1>3, <1>5 DEF GivenAux, SclOn, FileIs
  <2> HIDE DEF scl
  <2> QED
    BY <1>4, <1>5, <2>1 DEF NoWrite
<1>6. CASE Answer(e, o, out) /\ UNCHANGED <<disk, open>> /\ disturbed' = [disturbed EXCEPT ![e] = TRUE]
  <2>1. disturbed'[e]
    BY <1>6 DEF Kinds, CubeInv, Marks
  <2> HIDE DEF out
  <2> QED
    BY <1>4, <1>6, <2>1
<1>7. CASE ~same /\ Create(e, out, Partial) /\ open' = [open EXCEPT ![e] = o] /\ UNCHANGED via
  <2>1. open'[e] = o /\ via' = via /\ Put(out, Partial) /\ (~disturbed'[e] => out \notin Held(e))
    BY <1>7 DEF Create, Kinds, Shapes
  <2>2. ~disturbed'[e] => ~Settled(e, out)
    BY <1>1, <2>1, SettledIsHeld DEF Live, Ended
  <2>3. Pending(e)' = out
    BY <1>1, <1>2, <2>1 DEF Pending
  <2>4. InWork(e)'
    BY <1>1, <1>2, <2>1 DEF InWork
  <2>5. ~disturbed'[e] => Spares(e)
    BY <2>1, <2>2, PutSpares
  <2>6. ~disturbed'[e] => WorkKept(e)'
    BY <1>2, <1>i, <2>1, <2>5, WorkSurvives
  <2>7. ~disturbed'[e] => AuxOf(Nd(e), WantIn(e), o[1], o[2]).grid
                            # DataOf(Nd(e), WantIn(e), o[1], o[2]).grid
    BY <1>3, <1>7 DEF FileIs
  <2>8. ~disturbed'[e] => Apart(e)'
    <3> HIDE DEF out
    <3> QED
      BY <1>1, <2>1, <2>2, <2>3, <2>7, BeginKeepsApart
  <2> QED
    BY <1>1, <1>d, <2>4, <2>5, <2>6, <2>8, WorkKeepsMeaning
<1> QED
  BY <1>5, <1>6, <1>7 DEF resample_scl_to_data_grid

LEMMA WarpKeepsMeaning ==
  ASSUME WellFormed, Kinds, NEW e \in Evals, MeantFor(e), Live(e), gdalwarp(e), Touches(e)
  PROVE  MeantFor(e)'
<1> DEFINE o == open[e]
           scl == In(e)[1][SCL][o[2]]
           data == In(e)[1][o[1]][o[2]]
           out == SclFile(o[1], o[2])
           c == Resampled(disk[scl], disk[data].grid)
<1>1. CASE Fail(e)
  BY <1>1, QuitsKeepMeaning DEF Fail, Goto, Kinds, TaskTypes
<1>2. CASE Complete(e, out, c) /\ Answer(e, o, out) /\ UNCHANGED <<phase, task>>
  <2>0. o # NoOutput /\ Resampling(e) /\ open'[e] = NoOutput /\ UNCHANGED <<nodeVars, memoVars, made>>
    BY DEF gdalwarp, Kinds, Shapes
  <2>1. phase[e] = "compute" /\ InWork(e) /\ Nd(e).process = "mask_scl_dilation"
    BY <2>0 DEF MeantFor, Placed, AtRest, Live, Resampling
  <2>2. o \in Outputs(e) /\ o \notin DOMAIN via[e]
    BY <2>0, <2>1 DEF InWork
  <2>3. /\ Nd(e)' = Nd(e) /\ In(e)' = In(e) /\ WantIn(e)' = WantIn(e) /\ Outputs(e)' = Outputs(e)
        /\ UNCHANGED <<graph, cur, memo, want, made>>
    BY <2>0, SameNode DEF nodeVars, memoVars
  <2>d. ~disturbed'[e] => ~disturbed[e]
    BY UndisturbedIsSpared
  <2>i. ~disturbed'[e] => CubesKept(e) /\ WorkKept(e) /\ Apart(e)
    BY <2>d DEF MeantFor, Live, Ended, Intact
  <2>4. Put(out, c) /\ Pending(e) = out
    BY <1>2, <2>1, <2>2 DEF Complete, Pending
  <2>5. ~disturbed'[e] => ~Settled(e, out)
    BY <2>0, <2>4, <2>i DEF Apart
  <2>6. ~disturbed'[e] => Spares(e)
    BY <2>4, <2>5, PutSpares
  <2>7. ~disturbed'[e] => c = GivenAux(Nd(e), WantIn(e), o)
    <3>1. DataOf(Nd(e), In(e), o[1], o[2]) = data /\ AuxOf(Nd(e), In(e), o[1], o[2]) = scl
      BY <2>1 DEF DataOf, AuxOf
    <3>2. ~disturbed'[e] =>
            /\ disk[data] = DataOf(Nd(e), WantIn(e), o[1], o[2])
            /\ disk[scl] = AuxOf(Nd(e), WantIn(e), o[1], o[2])
      BY <2>1, <2>2, <2>i, <3>1, InputFiles DEF FileIs
    <3>3. ~disturbed'[e] => disk[scl].grid # disk[data].grid
      BY <2>0, <2>i, <3>2 DEF Apart
    <3> QED
      BY <2>1, <3>2, <3>3 DEF GivenAux, SclOn
  <2>8. FileIs(disk', out, c)
    BY <2>4, PutIs
  <2>9. /\ DOMAIN via'[e] = DOMAIN via[e] \cup {o} /\ via'[e][o] = out
        /\ \A q \in DOMAIN via[e] : via'[e][q] = via[e][q]
    BY <1>2, <2>2 DEF Answer, With, Kinds, Shapes
  <2>10. InWork(e)'
    BY <2>0, <2>1, <2>2, <2>3, <2>9 DEF InWork
  <2>11. ~disturbed'[e] => WorkKept(e)'
    <3> SUFFICES ASSUME ~disturbed'[e] PROVE WorkKept(e)'
      OBVIOUS
    <3>1. \A q \in made[e] : FileIs(disk', OutFile(Nd(e), q[1], q[2]), Product(Nd(e), WantIn(e), q))
      BY <2>6, <2>i DEF WorkKept, Spares, Settled, FileIs
    <3>2. \A q \in DOMAIN via[e] : FileIs(disk', via[e][q], GivenAux(Nd(e), WantIn(e), q))
      BY <2>6, <2>i DEF WorkKept, Spares, Settled, FileIs
    <3> HIDE DEF o, out, c
    <3> QED
      BY <2>3, <2>7, <2>8, <2>9, <3>1, <3>2 DEF WorkKept
  <2>12. Apart(e)'
    <3>1. task'[e] = NoTasks
      BY <1>2, <2>1 DEF Kinds, FetchesOfLoads, Ended
    <3> QED
      BY <2>0, <3>1 DEF Apart, NoTasks
  <2> QED
    BY <1>2, <2>0, <2>1, <2>d, <2>6, <2>10, <2>11, <2>12, WorkKeepsMeaning
<1> QED
  BY <1>1, <1>2 DEF gdalwarp


LEMMA CreateKeepsMeaning ==
  ASSUME Kinds, NEW e \in Evals, MeantFor(e), phase[e] = "compute",
         NEW o \in Outputs(e), writer_create(e, o), Touches(e)
  PROVE  MeantFor(e)'
<1> DEFINE p == OutFile(Nd(e), o[1], o[2])
           c == Blank(disk[DataOf(Nd(e), In(e), o[1], o[2])].grid)
<1>1. /\ InWork(e) /\ ~Resampling(e) /\ open'[e] = o
      /\ phase' = phase /\ UNCHANGED <<nodeVars, memoVars, task, made, via>>
  BY DEF writer_create, MeantFor, Placed, Kinds, Shapes
<1>2. /\ Nd(e)' = Nd(e) /\ In(e)' = In(e) /\ WantIn(e)' = WantIn(e) /\ Outputs(e)' = Outputs(e)
      /\ UNCHANGED <<graph, cur, memo, want, made, via>>
  BY <1>1, SameNode DEF nodeVars, memoVars
<1>3. ~Resampling(e)'
  BY <1>1, <1>2 DEF Resampling
<1>4. Pending(e)' = p
  BY <1>1, <1>2, <1>3 DEF Pending, Resampling
<1>d. ~disturbed'[e] => ~disturbed[e]
  BY UndisturbedIsSpared
<1>i. ~disturbed'[e] => WorkKept(e)
  BY <1>d DEF MeantFor, Live, Ended, Intact
<1>5. Put(p, c) /\ (~disturbed'[e] => p \notin Held(e))
  BY DEF writer_create, Create
<1> HIDE DEF p, c
<1>6. ~disturbed'[e] => ~Settled(e, p)
  BY <1>5, SettledIsHeld DEF Live, Ended
<1>7. ~disturbed'[e] => Spares(e)
  BY <1>5, <1>6, PutSpares
<1>8. InWork(e)'
  BY <1>1, <1>2, <1>3 DEF InWork
<1>9. ~disturbed'[e] => WorkKept(e)'
  BY <1>2, <1>7, <1>i, WorkSurvives
<1>10. ~disturbed'[e] => Apart(e)'
  BY <1>1, <1>3, <1>4, <1>6, BeginKeepsApart
<1> QED
  BY <1>1, <1>d, <1>7, <1>8, <1>9, <1>10, WorkKeepsMeaning

LEMMA ReductionKeepsMeaning ==
  ASSUME WellFormed, Kinds, NEW e \in Evals, MeantFor(e), apply_reduction(e), Touches(e)
  PROVE  MeantFor(e)'
<1> DEFINE o == open[e]
           p == OutFile(Nd(e), o[1], o[2])
           data == DataOf(Nd(e), In(e), o[1], o[2])
           aux == AuxFile(e, o)
           c == Worker(Nd(e), disk[data], disk[aux])
<1>1. CASE Fail(e)
  BY <1>1, QuitsKeepMeaning DEF Fail, Goto, Kinds, TaskTypes
<1>2. CASE Complete(e, p, c) /\ made' = [made EXCEPT ![e] = @ \cup {o}] /\ UNCHANGED <<phase, task>>
  <2>1. /\ phase[e] = "compute" /\ ~Resampling(e) /\ o # NoOutput /\ open'[e] = NoOutput
        /\ UNCHANGED <<nodeVars, memoVars, via>> /\ made'[e] = made[e] \cup {o}
    BY <1>2 DEF apply_reduction, Kinds, Shapes
  <2>2. InWork(e) /\ o \in Outputs(e)
    BY <2>1 DEF MeantFor, Placed, InWork
  <2>3. /\ Nd(e)' = Nd(e) /\ In(e)' = In(e) /\ WantIn(e)' = WantIn(e) /\ Outputs(e)' = Outputs(e)
        /\ UNCHANGED <<graph, cur, memo, want, via>>
    BY <2>1, SameNode DEF nodeVars, memoVars
  <2>d. ~disturbed'[e] => ~disturbed[e]
    BY UndisturbedIsSpared
  <2>i. ~disturbed'[e] => CubesKept(e) /\ WorkKept(e) /\ Apart(e)
    BY <2>1, <2>d DEF MeantFor, Live, Ended, Intact
  <2>4. Put(p, c) /\ Pending(e) = p
    BY <1>2, <2>1, <2>2 DEF Complete, Pending, Resampling
  <2>5. ~disturbed'[e] => ~Settled(e, p)
    BY <2>1, <2>4, <2>i DEF Apart
  <2>6. ~disturbed'[e] => Spares(e)
    BY <2>4, <2>5, PutSpares
  <2>7. ~disturbed'[e] => c = Product(Nd(e), WantIn(e), o)
    <3>1. ~disturbed'[e] =>
            /\ disk[data] = DataOf(Nd(e), WantIn(e), o[1], o[2])
            /\ disk[AuxOf(Nd(e), In(e), o[1], o[2])] = AuxOf(Nd(e), WantIn(e), o[1], o[2])
      BY <2>1, <2>2, <2>i, InputFiles DEF FileIs
    <3>2. ~disturbed'[e] => disk[aux] = GivenAux(Nd(e), WantIn(e), o)
      <4>1. CASE Nd(e).process = "mask_scl_dilation"
        <5>1. aux = via[e][o] /\ o \in DOMAIN via[e]
          BY <2>1, <2>2, <4>1 DEF AuxFile, Resampling
        <5> QED
          BY <2>i, <5>1 DEF WorkKept, FileIs
      <4>2. CASE Nd(e).process # "mask_scl_dilation"
        BY <3>1, <4>2 DEF AuxFile, GivenAux
      <4> QED
        BY <4>1, <4>2
    <3> QED
      BY <3>1, <3>2 DEF Product
  <2>8. FileIs(disk', p, c)
    BY <2>4, PutIs
  <2>9. InWork(e)'
    BY <2>1, <2>2, <2>3 DEF InWork
  <2>10. ~disturbed'[e] => WorkKept(e)'
    <3> SUFFICES ASSUME ~disturbed'[e] PROVE WorkKept(e)'
      OBVIOUS
    <3>1. \A q \in made[e] : FileIs(disk', OutFile(Nd(e), q[1], q[2]), Product(Nd(e), WantIn(e), q))
      BY <2>6, <2>i DEF WorkKept, Spares, Settled, FileIs
    <3>2. \A q \in DOMAIN via[e] : FileIs(disk', via[e][q], GivenAux(Nd(e), WantIn(e), q))
      BY <2>6, <2>i DEF WorkKept, Spares, Settled, FileIs
    <3>3. FileIs(disk', OutFile(Nd(e), o[1], o[2]), Product(Nd(e), WantIn(e), o))
      BY <2>7, <2>8
    <3> HIDE DEF o, p, c
    <3> QED
      BY <2>1, <2>3, <3>1, <3>2, <3>3 DEF WorkKept
  <2>11. Apart(e)'
    <3>1. task'[e] = NoTasks
      BY <1>2, <2>1 DEF Kinds, FetchesOfLoads, Ended
    <3> QED
      BY <2>1, <3>1 DEF Apart, NoTasks
  <2> QED
    BY <1>2, <2>1, <2>d, <2>6, <2>9, <2>10, <2>11, WorkKeepsMeaning
<1> QED
  BY <1>1, <1>2 DEF apply_reduction

LEMMA ComputeEndKeepsMeaning ==
  ASSUME WellFormed, Kinds, NEW e \in Evals, MeantFor(e), compute_ends(e)
  PROVE  MeantFor(e)'
<1>1. /\ phase[e] = "compute" /\ phase'[e] = "evaluate" /\ made[e] = Outputs(e)
      /\ UNCHANGED <<graph, disk, disturbed>>
      /\ Remember(e, cur[e], OutCube(Nd(e), In(e)), Meaning(Nd(e), WantIn(e)))
  BY DEF compute_ends, Goto, Kinds, TaskTypes, nodeVars
<1>2. AtRest(e)'
  BY DEF compute_ends, AtRest, Kinds, Shapes
<1>3. InWork(e) /\ graph[e].result # {} /\ task'[e] = NoTasks
  BY <1>1 DEF MeantFor, Placed, Live, Ended, compute_ends, Kinds, FetchesOfLoads
<1>4. ASSUME ~disturbed[e] PROVE CubesKept(e)'
  <2>1. CubesKept(e) /\ WorkKept(e)
    BY <1>1, <1>4 DEF MeantFor, Live, Ended, Intact
  <2>2. ASSUME NEW b \in NewBands(Nd(e), In(e)[1]), NEW t \in 1..Times(Nd(e), In(e))
        PROVE  FileIs(disk, OutFile(Nd(e), b, t), Product(Nd(e), WantIn(e), <<b, t>>))
    <3>1. <<b, t>> \in made[e] /\ <<b, t>>[1] = b /\ <<b, t>>[2] = t
      BY <1>1 DEF Outputs
    <3> QED
      BY <2>1, <3>1 DEF WorkKept
  <2>3. CubeMeant(disk, OutCube(Nd(e), In(e)), Meaning(Nd(e), WantIn(e)))
    BY <1>1, <1>3, <2>1, <2>2, InputsOfWork, OutputIsMeant
  <2> QED
    BY <1>1, <2>1, <2>3, RememberKeeps
<1> QED
  BY <1>1, <1>2, <1>3, <1>4, WalkKeepsMeaning

LEMMA AnswerIsMeant ==
  ASSUME WellFormed, Kinds, NEW e \in Evals, MeantFor(e), finalise_save_result(e)
  PROVE  MeantFor(e)'
<1> DEFINE r == CHOOSE n \in graph[e].result : TRUE
           nd == graph[e].nodes[r]
           cube == memo[e][r]
           means == want[e][r]
<1>1. CASE Goto(e, "err")
  BY <1>1, QuitsKeepMeaning DEF Goto, Kinds, TaskTypes
<1>2. CASE /\ Goto(e, "ok")
           /\ result' = [result EXCEPT ![e] =
                    IF nd.process # "save_result" \/ nd.format = "json"
                    THEN <<"json", DOMAIN cube>>
                    ELSE IF PickBand(cube) = None THEN Stub
                    ELSE disk[extract_save_path(cube)].what]
  <2>1. /\ phase[e] = "evaluate" /\ phase'[e] = "ok" /\ DOMAIN memo[e] = Nodes(graph[e])
        /\ UNCHANGED <<graph, want, disturbed>>
    BY <1>2 DEF finalise_save_result, Goto, Kinds, TaskTypes, nodeVars, memoVars
  <2>2. result'[e] = IF nd.process # "save_result" \/ nd.format = "json"
                     THEN <<"json", DOMAIN cube>>
                     ELSE IF PickBand(cube) = None THEN Stub
                     ELSE disk[extract_save_path(cube)].what
    BY <1>2 DEF Kinds, Shapes
  <2>3. Placed(e)' /\ ~Live(e)'
    BY <2>1 DEF Placed, Live, Ended
  <2>4. ASSUME ~disturbed[e] PROVE ResultIsMeant(e)'
    <3>1. r \in DOMAIN memo[e]
      <4>1. graph[e].result # {} /\ graph[e].result \subseteq Nodes(graph[e])
        BY <2>1 DEF MeantFor, Placed, Live, Ended, WellFormed, Kinds, CubeInv, Handlers
      <4> QED
        BY <2>1, <4>1
    <3>2. CubeMeant(disk, cube, means)
      BY <2>1, <2>4, <3>1 DEF MeantFor, Live, Ended, Intact, CubesKept
    <3> HIDE DEF cube, means, nd
    <3>3. DOMAIN cube = DOMAIN means
      BY <3>2 DEF CubeMeant
    <3>4. PickBand(cube) = PickBand(means) /\ (PickBand(cube) # None => PickBand(cube) \in DOMAIN cube)
      BY <3>3, PickedBand
    <3>5. PickBand(cube) # None =>
            disk[extract_save_path(cube)] = means[PickBand(means)][1]
      <4> DEFINE b == PickBand(cube)
      <4>1. b \in DOMAIN cube => 1 \in 1..Len(cube[b])
        BY <3>2 DEF CubeMeant, Stack
      <4>2. b \in DOMAIN cube => disk[cube[b][1]] = means[b][1]
        BY <3>2, <4>1 DEF CubeMeant, FileIs
      <4> QED
        BY <3>4, <4>2 DEF extract_save_path
    <3>6. result'[e] = IF nd.process # "save_result" \/ nd.format = "json"
                       THEN <<"json", DOMAIN means>>
                       ELSE IF PickBand(means) = None THEN Stub
                       ELSE means[PickBand(means)][1].what
      BY <2>2, <3>3, <3>4, <3>5
    <3> QED
      BY <2>1, <3>6, Zenon DEF ResultIsMeant, nd, means
  <2> QED
    BY <2>1, <2>3, <2>4 DEF MeantFor
<1> QED
  BY <1>1, <1>2 DEF finalise_save_result

\* Each step keeps the invariant: f moves, and e is f or watches.
LEMMA MeantStep ==
  ASSUME WellFormed
  PROVE  Kinds /\ MeantInv /\ [Next]_vars => MeantInv'
<1> SUFFICES ASSUME Kinds, MeantInv, [Next]_vars PROVE MeantInv'
  OBVIOUS
<1>1. CASE UNCHANGED vars
  <2>1. UNCHANGED <<phase, graph, cur, scenes, memo, want, task, made, open, via, disk, permits,
                    result, disturbed>>
    BY <1>1 DEF vars, nodeVars, memoVars, itemVars
  <2>2. Shapes'
    BY <2>1 DEF MeantInv, Shapes
  <2>3. ASSUME NEW e \in Evals PROVE MeantFor(e)'
    <3>1. MeantFor(e)
      BY DEF MeantInv
    <3>2. Same(e) /\ Spares(e)
      BY <2>1 DEF Same, Spares
    <3> QED
      BY <2>1, <3>1, <3>2, FrameKeepsMeaning
  <2> QED
    BY <2>2, <2>3 DEF MeantInv
<1>2. ASSUME NEW f \in Evals, Moves(f) PROVE MeantInv'
  <2>1. Local(f) /\ Touches(f) /\ Shapes'
    BY <1>2, StepIsLocal
  <2>2. MeantFor(f)
    BY DEF MeantInv
  <2>3. MeantFor(f)'
    <3>1. CASE phase[f] \in Ended
      BY <1>2, <2>1, <2>2, <3>1, EndedKeepMeaning
    <3>2. CASE phase[f] \notin Ended
      <4>1. CASE run_sync(f)
        BY <2>2, <4>1, StartKeepsMeaning
      <4>2. CASE drop(f)
        BY <4>2, QuitsKeepMeaning DEF drop, Goto, Kinds, TaskTypes
      <4>3. ASSUME NEW n \in Nodes(graph[f]), evaluate(f, n) PROVE MeantFor(f)'
        BY <2>2, <4>3, EvaluateKeepsMeaning
      <4>4. CASE search(f)
        BY <2>2, <4>4, SearchKeepsMeaning
      <4>5. CASE load_ends(f)
        BY <2>2, <4>5, LoadEndKeepsMeaning
      <4>6. CASE compute_ends(f)
        BY <2>2, <4>6, ComputeEndKeepsMeaning
      <4>7. CASE finalise_save_result(f)
        BY <2>2, <4>7, AnswerIsMeant
      <4>8. CASE gdalwarp(f)
        <5>1. Live(f)
          <6>1. open[f] # NoOutput
            BY <4>8 DEF gdalwarp
          <6> QED
            BY <2>2, <3>2, <6>1 DEF MeantFor, Placed, AtRest, Live, Ended
        <5> QED
          BY <2>1, <2>2, <4>8, <5>1, WarpKeepsMeaning
      <4>9. CASE apply_reduction(f)
        BY <2>1, <2>2, <4>9, ReductionKeepsMeaning
      <4>10. ASSUME NEW s \in Slots, \/ fetch_refused(f, s) \/ fetch(f, s)
                                     \/ fetched(f, s) \/ next_fetched(f, s)
             PROVE MeantFor(f)'
        <5>1. phase[f] = "download"
          <6>1. CASE fetched(f, s)
            <7>1. task[f][s] = "writing"
              BY <6>1 DEF fetched, SetTask
            <7> QED
              BY <3>2, <7>1 DEF Kinds, FetchesOfLoads, NoTasks
          <6> QED
            BY <4>10, <6>1 DEF fetch_refused, fetch, next_fetched
        <5> QED
          BY <2>1, <2>2, <4>10, <5>1, FetchesKeepMeaning
      <4>11. ASSUME NEW o \in Outputs(f), phase[f] = "compute", resample_scl_to_data_grid(f, o)
             PROVE MeantFor(f)'
        BY <2>1, <2>2, <4>11, ResampleKeepsMeaning
      <4>12. ASSUME NEW o \in Outputs(f), phase[f] = "compute", writer_create(f, o)
             PROVE MeantFor(f)'
        BY <2>1, <2>2, <4>12, CreateKeepsMeaning
      <4> QED
        BY <1>2, <4>1, <4>2, <4>3, <4>4, <4>5, <4>6, <4>7, <4>8, <4>9, <4>10, <4>11, <4>12,
           MoveHasCase, Zenon
    <3> QED
      BY <3>1, <3>2
  <2>4. ASSUME NEW e \in Evals \ {f} PROVE MeantFor(e)'
    <3>1. MeantFor(e)
      BY DEF MeantInv
    <3> QED
      BY <2>1, <3>1, FrameKeepsMeaning, UndisturbedIsSpared DEF Local
  <2> QED
    BY <2>1, <2>3, <2>4 DEF MeantInv
<1> QED
  BY <1>1, <1>2 DEF Next, Moves

LEMMA MeantInit == Init => MeantInv
<1> SUFFICES ASSUME Init PROVE MeantInv
  OBVIOUS
<1>1. Shapes
  BY DEF Init, Shapes
<1>2. ASSUME NEW e \in Evals PROVE MeantFor(e)
  <2>1. phase[e] = "idle" /\ AtRest(e) /\ memo[e] = << >>
    BY DEF Init, AtRest
  <2> QED
    BY <2>1 DEF MeantFor, Placed, Live, Ended
<1> QED
  BY <1>1, <1>2 DEF MeantInv

LEMMA MeantInductive ==
  ASSUME WellFormed
  PROVE  Spec => [](PermitInv /\ CubeInv /\ MeantInv)
<1>1. Init => PermitInv /\ CubeInv /\ MeantInv
  BY PermitInit, CubeInit, MeantInit
<1>2. PermitInv /\ CubeInv /\ MeantInv => Kinds
  BY DEF PermitInv, MeantInv, Kinds
<1>3. PermitInv /\ CubeInv /\ MeantInv /\ [Next]_vars => (PermitInv /\ CubeInv /\ MeantInv)'
  BY <1>2, PermitStep, CubeStep, MeantStep DEF PermitInv
<1> QED
  BY <1>1, <1>3, PTL DEF Spec

\* Of graphs whose links are written plainly: as long as nobody else writes a
\* file an evaluation counts on, every cube it passes from node to node has
\* the bands it should have, each with one file per scene that holds the pixels
\* of that band and scene, in whatever order fetches, other evaluations, failures
\* and drops come (load_collection's slots, the resampled SCL, OutFile names).
THEOREM CubesHoldTheirPixels ==
  ASSUME WellFormed
  PROVE  Spec => []CubesAreMeant
<1>1. MeantInv => CubesAreMeant
  BY DEF MeantInv, MeantFor, Intact, CubesKept, CubeMeant, CubesAreMeant, Stack, FileIs
<1> QED
  BY <1>1, MeantInductive, PTL

\* Of the same graphs: an evaluation whose files nobody else wrote answers the
\* bytes its graph means (extract_save_path reads a file that is complete), so
\* shared or found scratch files are the only way to a wrong answer.
THEOREM UndisturbedAnswersAreMeant ==
  ASSUME WellFormed
  PROVE  Spec => []UndisturbedIsMeant
<1>1. MeantInv => UndisturbedIsMeant
  BY DEF MeantInv, MeantFor, UndisturbedIsMeant
<1> QED
  BY <1>1, MeantInductive, PTL
=============================================================================
