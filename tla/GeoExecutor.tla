----------------------------- MODULE GeoExecutor -----------------------------
(***************************************************************************)
(* The graph executor of orbit-openeo: evaluations of process graphs that  *)
(* run side by side on ONE GeoExecutor (every batch job and every POST     *)
(* /result shares it), the concurrent band downloads of load_collection    *)
(* with their semaphore, the processes that turn raster files into raster  *)
(* files (ndvi, mask, mask_from_values, mask_scl_dilation), save_result,   *)
(* and the scratch directory all of them write to.                         *)
(*                                                                         *)
(* Grain of atomicity.  A download and a block computation each take two   *)
(* steps, the one that creates or truncates the output file and the one    *)
(* that completes it: between them other evaluations run.  An evaluation   *)
(* is dropped (job timeout, cancel, client gone) only at an await.  A      *)
(* closure that spawn_blocking has started runs to its end even when the   *)
(* evaluation that awaited it is gone.                                     *)
(*                                                                         *)
(* Data kept abstract: the pixels of a file are the term that produced     *)
(* them, with the grid (extent and resolution) the file was written on; a  *)
(* file is named by the parts of its name template; JSON outside links,    *)
(* URLs and raster metadata only decide whether a step fails.  The file    *)
(* cache is off, as in the shipped server, and so is ORBIT_VSICURL_STREAM. *)
(***************************************************************************)
EXTENDS Integers, Sequences, FiniteSets

CONSTANTS
    Evals,         \* evaluations: jobs started and POST /result requests
    Graphs,        \* per evaluation: the process graphs its client may send
    Bands,         \* band names
    BandOrder,     \* band names other than SCL in map order, computed ones too
    Resolution,    \* per band: pixel size in metres
    AoiGrid,       \* per spatial extent: the window it covers
    SceneLists,    \* what a STAC search may return: per scene, its bands
    MaxScenes,     \* bound: scenes of a search
    MaxDownloads,  \* permits of download_sem (6 in the code)
    MaxActive,     \* evaluations running at once
    Faults,        \* BOOLEAN: searches, downloads and computations may fail
    Drops          \* BOOLEAN: an evaluation may be dropped at an await

ASSUME GeoAssumption ==
    /\ IsFiniteSet(Evals)
    /\ IsFiniteSet(Bands)
    /\ MaxScenes \in Nat
    /\ MaxDownloads \in Nat \ {0}
    /\ MaxActive \in Nat
    /\ Faults \in BOOLEAN
    /\ Drops \in BOOLEAN
    /\ BandOrder \in Seq(STRING)
    /\ \A sc \in SceneLists : sc \in Seq(SUBSET Bands) /\ Len(sc) <= MaxScenes

VARIABLES
    phase,      \* per evaluation: where it stands
    graph,      \* per evaluation: its process graph
    cur,        \* per evaluation: the node whose handler runs
    memo,       \* per evaluation: node -> cube (band -> file names, by scene)
    scenes,     \* per evaluation: scenes of the load that runs
    task,       \* per evaluation: state of the fetch of a scene's band
    made,       \* per evaluation: outputs (band, scene) the node has completed
    open,       \* per evaluation: the output it has created and not completed
    via,        \* per evaluation: output -> SCL file its resample answered
    disk,       \* file name -> contents, for the files of the scratch directory
    permits,    \* free permits of download_sem
    result,     \* per evaluation: the bytes it answered
    want,       \* history: like memo, with the contents each file should have
    disturbed   \* history: a file it counts on was not its own to count on

nodeVars == <<graph, cur, scenes>>
itemVars == <<made, open, via>>
memoVars == <<memo, want>>
vars == <<phase, nodeVars, memoVars, task, itemVars, disk, permits, result,
          disturbed>>

-----------------------------------------------------------------------------
(* Process graphs: the analysis before the walk, and links.                *)

None == "none"
Nodes(g) == DOMAIN g.nodes

\* A link is `plain' when the argument is {"from_node": id} and nothing else.
\* The analysis sees every link, also one with sibling keys or inside an array.
collect_from_node_refs(g, n) ==
    {g.nodes[n].from[i].to : i \in DOMAIN g.nodes[n].from}

is_cyclic_directed(g) ==
    \E S \in (SUBSET Nodes(g)) \ {{}} :
        \A n \in S : collect_from_node_refs(g, n) \cap S # {}

build(g) ==
    /\ \A n \in Nodes(g) : collect_from_node_refs(g, n) \subseteq Nodes(g)
    /\ ~is_cyclic_directed(g)
    /\ Cardinality(g.result) = 1

NoBands == [b \in {} |-> << >>]

\* The walk replaces a plain link by the upstream cube; any other argument is
\* passed as it was written, which decodes to a cube without bands.
resolve_value(m, link) == IF link.plain THEN m[link.to] ELSE NoBands
Meant(m, link) == m[link.to]

-----------------------------------------------------------------------------
(* Files of the scratch directory.                                         *)

\* File names, by template.
BandFile(b, i) == <<b, "", i>>                    \* {band}_{i}.tif
SclFile(b, t) == <<"scl_resampled", b, t>>        \* scl_resampled_{band}_t{t}.tif
OutFile(nd, b, t) ==
    CASE nd.process = "ndvi" -> <<b, "t", t>>                   \* {target}_t{t}.tif
      [] nd.process = "mask" -> <<b, "mask_t", t>>              \* {band}_mask_t{t}.tif
      [] nd.process = "mask_scl_dilation" -> <<b, "masked_t", t>>
      [] nd.process = "mask_from_values" -> <<b, "from_values_t", t>>

\* Contents: what the pixels are, and the grid they are on.
Crop(src, b, i) ==
    [what |-> <<"crop", src, b, i>>, grid |-> <<AoiGrid[src], Resolution[b]>>]
Partial == [what |-> <<"partial">>, grid |-> << >>]
Blank(grid) == [what |-> <<"blank">>, grid |-> grid]
Resampled(scl, grid) == [what |-> <<"near", scl.what, grid>>, grid |-> grid]
Worker(nd, data, aux) ==
    [what |-> <<nd.process, data.what, aux.what>>, grid |-> data.grid]
Stub == <<"1x1">>

-----------------------------------------------------------------------------
(* What a process takes and gives, on cubes of file names and, alike, on   *)
(* cubes of contents.                                                      *)

Compute == {"ndvi", "mask", "mask_from_values", "mask_scl_dilation"}
registered == Compute \cup {"load_collection", "save_result"}
F32_INDEX_BANDS == <<"ndvi", "ndmi", "ndwi", "evi", "savi", "msavi">>
IndexBands == {F32_INDEX_BANDS[k] : k \in DOMAIN F32_INDEX_BANDS}
\* Band names a graph does not give have their defaults: SCL, red B04, nir B08.
SCL == "SCL"
SclNames == {SCL, "scl"}

Scenes(cube) == IF DOMAIN cube = {} THEN 0 ELSE Len(cube[CHOOSE b \in DOMAIN cube : TRUE])
Alike(cube, B) == \A b, c \in B : Len(cube[b]) = Len(cube[c])
TheBand(cube) == CHOOSE b \in DOMAIN cube : TRUE

\* The bands a process computes, and the ones it forwards.
NewBands(nd, cube) ==
    CASE nd.process \in {"ndvi", "mask_from_values"} -> {nd.target}
      [] nd.process = "mask" -> DOMAIN cube \ (SclNames \cup IndexBands)
      [] nd.process = "mask_scl_dilation" -> DOMAIN cube \ {SCL}
KeptBands(nd, cube) ==
    CASE nd.process = "ndvi" -> DOMAIN cube \ {"B04", "B08", nd.target}
      [] nd.process = "mask_from_values" -> {}
      [] nd.process = "mask" -> SclNames \cap DOMAIN cube
      [] nd.process = "mask_scl_dilation" -> {SCL}

\* The checks a handler makes on its cubes before it touches a file.
eval_ndvi_ok(data) ==
    /\ {"B04", "B08"} \subseteq DOMAIN data
    /\ Alike(data, {"B04", "B08"})
eval_mask_from_values_ok(nd, data) == nd.band \in DOMAIN data
eval_mask_ok(nd, data, mask) ==
    /\ NewBands(nd, data) # {}
    /\ Cardinality(DOMAIN mask) = 1
    /\ \A b \in NewBands(nd, data) : Len(data[b]) = Len(mask[TheBand(mask)])
eval_mask_scl_dilation_ok(nd, data) ==
    /\ SCL \in DOMAIN data
    /\ NewBands(nd, data) # {}
    /\ Alike(data, DOMAIN data)
Accepts(nd, in) ==
    CASE nd.process = "ndvi" -> eval_ndvi_ok(in[1])
      [] nd.process = "mask_from_values" -> eval_mask_from_values_ok(nd, in[1])
      [] nd.process = "mask" -> eval_mask_ok(nd, in[1], in[2])
      [] nd.process = "mask_scl_dilation" -> eval_mask_scl_dilation_ok(nd, in[1])

\* The two files (or contents) that scene t of an output band is made of.
\* The SCL of mask_scl_dilation is resampled to the grid of the band first.
DataOf(nd, in, b, t) ==
    CASE nd.process = "ndvi" -> in[1]["B04"][t]
      [] nd.process = "mask_from_values" -> in[1][nd.band][t]
      [] nd.process \in {"mask", "mask_scl_dilation"} -> in[1][b][t]
AuxOf(nd, in, b, t) ==
    CASE nd.process = "ndvi" -> in[1]["B08"][t]
      [] nd.process = "mask_from_values" -> in[1][nd.band][t]
      [] nd.process = "mask" -> in[2][TheBand(in[2])][t]
      [] nd.process = "mask_scl_dilation" -> in[1][SCL][t]

\* Scenes of the cube a process returns: of the band that drives its loop.
Times(nd, in) ==
    CASE nd.process = "ndvi" -> Len(in[1]["B04"])
      [] nd.process = "mask_from_values" -> Len(in[1][nd.band])
      [] nd.process = "mask" -> Len(in[2][TheBand(in[2])])
      [] nd.process = "mask_scl_dilation" -> Len(in[1][SCL])

\* The cube of file names a process returns.
OutCube(nd, in) ==
    [b \in NewBands(nd, in[1]) \cup KeptBands(nd, in[1]) |->
        IF b \in NewBands(nd, in[1])
        THEN [t \in 1..Times(nd, in) |-> OutFile(nd, b, t)]
        ELSE in[1][b]]

\* The cube of contents it should return, given the contents it was given.
SclOn(scl, data) == IF scl.grid = data.grid THEN scl ELSE Resampled(scl, data.grid)
Meaning(nd, in) ==
    [b \in NewBands(nd, in[1]) \cup KeptBands(nd, in[1]) |->
        IF b \in NewBands(nd, in[1])
        THEN [t \in 1..Times(nd, in) |->
                LET data == DataOf(nd, in, b, t)
                    aux == AuxOf(nd, in, b, t)
                IN  Worker(nd, data, IF nd.process = "mask_scl_dilation"
                                     THEN SclOn(aux, data) ELSE aux)]
        ELSE in[1][b]]

\* The contents a load_collection should return: bands every scene has.
LoadedBands(nd, sc) == {b \in nd.bands : \A i \in DOMAIN sc : b \in sc[i]}
LoadMeaning(nd, sc) ==
    [b \in LoadedBands(nd, sc) |-> [i \in DOMAIN sc |-> Crop(nd.src, b, i)]]

\* extract_save_path: an index band first, else the first band that is not SCL.
PickBand(cube) ==
    LET order == F32_INDEX_BANDS \o BandOrder
        J == {k \in DOMAIN order : order[k] \in DOMAIN cube}
    IN  IF J = {} THEN None ELSE order[CHOOSE k \in J : \A l \in J : k <= l]

-----------------------------------------------------------------------------
(* The state of an evaluation.                                             *)

Ended == {"ok", "err", "dropped"}
Live(e) == phase[e] \notin Ended \cup {"idle"}
Slots == (1..MaxScenes) \X Bands
NoTasks == [s \in Slots |-> "none"]
NoOutput == << >>

Init ==
    /\ phase = [e \in Evals |-> "idle"]
    /\ graph \in {g \in [Evals -> UNION {Graphs[e] : e \in Evals}] :
                    \A e \in Evals : g[e] \in Graphs[e]}
    /\ cur = [e \in Evals |-> None]
    /\ memo = [e \in Evals |-> << >>]
    /\ scenes = [e \in Evals |-> << >>]
    /\ task = [e \in Evals |-> NoTasks]
    /\ made = [e \in Evals |-> {}]
    /\ open = [e \in Evals |-> NoOutput]
    /\ via = [e \in Evals |-> << >>]
    /\ disk = << >>
    /\ permits = MaxDownloads
    /\ result = [e \in Evals |-> << >>]
    /\ want = [e \in Evals |-> << >>]
    /\ disturbed = [e \in Evals |-> FALSE]

Nd(e) == graph[e].nodes[cur[e]]
In(e) == [i \in DOMAIN Nd(e).from |-> resolve_value(memo[e], Nd(e).from[i])]
WantIn(e) == [i \in DOMAIN Nd(e).from |-> Meant(want[e], Nd(e).from[i])]
Outputs(e) == NewBands(Nd(e), In(e)[1]) \X (1..Times(Nd(e), In(e)))

\* The closures of load_collection that hold a permit, of ended evaluations too.
Downloading == {d \in Evals \X Slots : task[d[1]][d[2]] = "writing"}

Goto(e, to) == phase' = [phase EXCEPT ![e] = to]

\* An evaluation that ends lets go of the fetches it has not started and of
\* the answers it has not read; closures that run keep running.
LetGo(e) ==
    task' = [task EXCEPT ![e] = [s \in Slots |->
                IF task[e][s] = "writing" THEN "writing" ELSE "none"]]
Fail(e) == Goto(e, "err") /\ LetGo(e)

\* Files an evaluation counts on: those of its cubes, the ones it fetched or
\* is fetching, the outputs of the node that runs.
Held(e) ==
    IF ~Live(e) THEN {}
    ELSE (UNION {UNION {{memo[e][n][b][t] : t \in DOMAIN memo[e][n][b]}
                        : b \in DOMAIN memo[e][n]} : n \in DOMAIN memo[e]})
         \cup {BandFile(s[2], s[1]) : s \in {r \in Slots :
                    task[e][r] \in {"writing", "done", "slotted"}}}
         \cup {OutFile(Nd(e), o[1], o[2]) : o \in made[e]}
         \cup {via[e][o] : o \in DOMAIN via[e]}
         \cup (IF open[e] = NoOutput THEN {}
               ELSE IF Nd(e).process = "mask_scl_dilation" /\ open[e] \notin DOMAIN via[e]
               THEN {SclFile(open[e][1], open[e][2])}
               ELSE {OutFile(Nd(e), open[e][1], open[e][2])})

\* Map f with key k bound to v.
With(f, k, v) == [x \in DOMAIN f \cup {k} |-> IF x = k THEN v ELSE f[x]]

\* Evaluation e creates file p, or completes the one it has created.
Put(p, c) == disk' = With(disk, p, c)
Create(e, p, c) ==
    /\ Put(p, c)
    /\ disturbed' = [f \in Evals |-> disturbed[f] \/ p \in Held(f)]
Complete(e, p, c) ==
    /\ Put(p, c)
    /\ disturbed' = [f \in Evals |-> disturbed[f] \/ (f # e /\ p \in Held(f))]
NoWrite == UNCHANGED <<disk, disturbed>>

-----------------------------------------------------------------------------
(* run_sync: the walk over the graph.                                      *)

run_sync(e) ==
    /\ phase[e] = "idle"
    /\ Cardinality({f \in Evals : Live(f)}) < MaxActive
    /\ Goto(e, IF build(graph[e]) THEN "evaluate" ELSE "err")
    /\ UNCHANGED <<nodeVars, memoVars, task, itemVars, disk, permits, result,
                   disturbed>>

Remember(e, n, cube, contents) ==
    /\ memo' = [memo EXCEPT ![e] = With(memo[e], n, cube)]
    /\ want' = [want EXCEPT ![e] = With(want[e], n, contents)]

\* The next node of the topological order: one whose links are all evaluated.
\* A save_result keeps its data; a load without a spatial extent is a cube
\* without bands; the other handlers check their cubes and go to work.
evaluate(e, n) ==
    LET nd == graph[e].nodes[n]
        in == [i \in DOMAIN nd.from |-> resolve_value(memo[e], nd.from[i])]
        Keep(cube, contents) ==
            Remember(e, n, cube, contents) /\ UNCHANGED <<phase, cur, task>>
        Work(to) == /\ Goto(e, to) /\ cur' = [cur EXCEPT ![e] = n]
                    /\ UNCHANGED <<memoVars, task>>
    IN  /\ phase[e] = "evaluate"
        /\ n \in Nodes(graph[e]) \ DOMAIN memo[e]
        /\ collect_from_node_refs(graph[e], n) \subseteq DOMAIN memo[e]
        /\ \/ /\ nd.process = "save_result"
              /\ Keep(in[1], Meant(want[e], nd.from[1]))
           \/ /\ nd.process = "load_collection" /\ nd.src = None
              /\ Keep(NoBands, NoBands)
           \/ /\ nd.process = "load_collection" /\ nd.src # None
              /\ Work("search")
           \/ /\ nd.process \in Compute
              /\ IF Accepts(nd, in) THEN Work("compute")
                 ELSE Fail(e) /\ UNCHANGED <<cur, memoVars>>
           \/ /\ nd.process \notin registered
              /\ Fail(e) /\ UNCHANGED <<cur, memoVars>>
        /\ UNCHANGED <<graph, scenes, itemVars, disk, permits, result, disturbed>>

\* The file to answer: the first scene of the picked band.
\* Faulty variant: its last scene.
extract_save_path_last(cube) == cube[PickBand(cube)][Len(cube[PickBand(cube)])]
extract_save_path(cube) == cube[PickBand(cube)][1]

\* Every node is evaluated: finalise_save_result reads the file it answers.
finalise_save_result(e) ==
    LET r == CHOOSE n \in graph[e].result : TRUE
        nd == graph[e].nodes[r]
        cube == memo[e][r]
    IN  /\ phase[e] = "evaluate"
        /\ DOMAIN memo[e] = Nodes(graph[e])
        /\ \/ /\ Goto(e, "ok")
              /\ result' = [result EXCEPT ![e] =
                    IF nd.process # "save_result" \/ nd.format = "json"
                    THEN <<"json", DOMAIN cube>>
                    ELSE IF PickBand(cube) = None THEN Stub
                    ELSE disk[extract_save_path(cube)].what]
           \/ Faults /\ Goto(e, "err") /\ UNCHANGED result
        /\ UNCHANGED <<nodeVars, memoVars, task, itemVars, disk, permits, disturbed>>

-----------------------------------------------------------------------------
(* load_collection.                                                        *)

\* The STAC search answers: an error, no scene (an error too), or scenes,
\* for each of which the fetch of every requested band it has is queued.
search(e) ==
    /\ phase[e] = "search"
    /\ \/ \E sc \in SceneLists :
            /\ sc # << >>
            /\ Goto(e, "download")
            /\ scenes' = [scenes EXCEPT ![e] = sc]
            /\ task' = [task EXCEPT ![e] = [s \in Slots |->
                    IF s[1] \in DOMAIN sc /\ s[2] \in Nd(e).bands \cap sc[s[1]]
                    THEN "waiting" ELSE task[e][s]]]
       \/ Faults /\ Fail(e) /\ UNCHANGED scenes
    /\ UNCHANGED <<graph, cur, memoVars, itemVars, disk, permits, result, disturbed>>

SetTask(e, s, from, to) ==
    task[e][s] = from /\ task' = [task EXCEPT ![e][s] = to]

\* fetch_with_cache_async_with_meta: refused by the URL policy, or a permit is
\* taken and the closure starts writing its file.  (A signer that fails is a
\* closure that fails: it runs with the permit.)
fetch_refused(e, s) ==
    /\ Faults /\ phase[e] = "download"
    /\ SetTask(e, s, "waiting", "failed")
    /\ NoWrite
    /\ UNCHANGED <<phase, nodeVars, memoVars, itemVars, permits, result>>

fetch(e, s) ==
    /\ phase[e] = "download" /\ permits > 0
    /\ SetTask(e, s, "waiting", "writing")
    /\ permits' = permits - 1
    /\ Create(e, BandFile(s[2], s[1]), Partial)
    /\ UNCHANGED <<phase, nodeVars, memoVars, itemVars, result>>

\* The closure ends, whether or not its evaluation still waits for it.
fetched(e, s) ==
    LET to(st) == IF phase[e] = "download" THEN st ELSE "none"
    IN  /\ \/ /\ SetTask(e, s, "writing", to("done"))
              /\ Complete(e, BandFile(s[2], s[1]), Crop(Nd(e).src, s[2], s[1]))
           \/ /\ Faults
              /\ SetTask(e, s, "writing", to("failed"))
              /\ NoWrite
        /\ permits' = permits + 1
        /\ UNCHANGED <<phase, nodeVars, memoVars, itemVars, result>>

\* tasks.next() yields a finished fetch: its path goes to the slot of its
\* scene, an error ends the load and the evaluation.
\* Faulty variant: failed fetches are skipped and still counted as pending.
next_fetched_skips(e, s) ==
    /\ phase[e] = "download"
    /\ SetTask(e, s, "done", "slotted")
    /\ UNCHANGED <<phase, nodeVars, memoVars, itemVars, disk, permits, result,
                   disturbed>>

next_fetched(e, s) ==
    /\ phase[e] = "download"
    /\ \/ SetTask(e, s, "done", "slotted") /\ UNCHANGED phase
       \/ task[e][s] = "failed" /\ Fail(e)
    /\ UNCHANGED <<nodeVars, memoVars, itemVars, disk, permits, result, disturbed>>

\* No fetch is left: the bands with a file for every scene make the cube.
\* Faulty variant: every band with a file for some scene.
FullBands_some(e) ==
    {b \in Nd(e).bands : \E i \in DOMAIN scenes[e] : task[e][<<i, b>>] = "slotted"}
CubeOf(e, B) ==
    [b \in B |-> [i \in DOMAIN scenes[e] |-> BandFile(b, i)]]
FullBands(e) ==
    {b \in Nd(e).bands : \A i \in DOMAIN scenes[e] : task[e][<<i, b>>] = "slotted"}

load_ends(e) ==
    /\ phase[e] = "download"
    /\ \A s \in Slots : task[e][s] \in {"none", "slotted"}
    /\ IF FullBands(e) = {} THEN Goto(e, "err") /\ UNCHANGED memoVars
       ELSE /\ Goto(e, "evaluate")
            /\ Remember(e, cur[e], CubeOf(e, FullBands(e)),
                        LoadMeaning(Nd(e), scenes[e]))
    /\ task' = [task EXCEPT ![e] = NoTasks]
    /\ UNCHANGED <<nodeVars, itemVars, disk, permits, result, disturbed>>

-----------------------------------------------------------------------------
(* ndvi, mask, mask_from_values, mask_scl_dilation: one output file per    *)
(* band and scene.  The order in which a loop takes them is left open.     *)

Resampling(e) == Nd(e).process = "mask_scl_dilation" /\ DOMAIN via[e] # Outputs(e)

\* resample_scl_to_data_grid for one band and scene: the SCL as it is when
\* the grids agree, else a file found under the name with the right size,
\* else gdalwarp, which writes it.
Answer(e, o, p) == via' = [via EXCEPT ![e] = With(via[e], o, p)]

resample_scl_to_data_grid(e, o) ==
    LET scl == In(e)[1][SCL][o[2]]
        data == In(e)[1][o[1]][o[2]]
        out == SclFile(o[1], o[2])
        same == disk[scl].grid = disk[data].grid
        found == out \in DOMAIN disk /\ disk[out].grid = disk[data].grid
    IN  /\ phase[e] = "compute" /\ Resampling(e)
        /\ open[e] = NoOutput /\ o \in Outputs(e) \ DOMAIN via[e]
        /\ \/ same /\ Answer(e, o, scl) /\ NoWrite /\ UNCHANGED open
           \/ /\ ~same /\ found /\ Answer(e, o, out) /\ UNCHANGED <<disk, open>>
              /\ disturbed' = [disturbed EXCEPT ![e] = TRUE]
           \/ /\ ~same /\ ~found /\ Create(e, out, Partial)
              /\ open' = [open EXCEPT ![e] = o] /\ UNCHANGED via
        /\ UNCHANGED <<phase, nodeVars, memoVars, task, made, permits, result>>

gdalwarp(e) ==
    LET o == open[e]
        scl == In(e)[1][SCL][o[2]]
        data == In(e)[1][o[1]][o[2]]
        out == SclFile(o[1], o[2])
    IN  /\ o # NoOutput /\ Resampling(e)
        /\ open' = [open EXCEPT ![e] = NoOutput]
        /\ \/ /\ Complete(e, out, Resampled(disk[scl], disk[data].grid))
              /\ IF Live(e) THEN Answer(e, o, out) ELSE UNCHANGED via
              /\ UNCHANGED <<phase, task>>
           \/ /\ Faults /\ NoWrite /\ UNCHANGED via
              /\ IF Live(e) THEN Fail(e) ELSE UNCHANGED <<phase, task>>
        /\ UNCHANGED <<nodeVars, memoVars, made, permits, result>>

\* The second input of an output: for mask_scl_dilation what was resampled.
AuxFile(e, o) ==
    IF Nd(e).process = "mask_scl_dilation" THEN via[e][o]
    ELSE AuxOf(Nd(e), In(e), o[1], o[2])

\* ParallelGeoTiffWriter::create writes an empty file on the grid of the data,
\* then the blocks of the inputs are read, computed and written.
writer_create(e, o) ==
    /\ phase[e] = "compute" /\ ~Resampling(e)
    /\ open[e] = NoOutput /\ o \in Outputs(e) \ made[e]
    /\ open' = [open EXCEPT ![e] = o]
    /\ Create(e, OutFile(Nd(e), o[1], o[2]),
              Blank(disk[DataOf(Nd(e), In(e), o[1], o[2])].grid))
    /\ UNCHANGED <<phase, nodeVars, memoVars, task, made, via, permits, result>>

apply_reduction(e) ==
    LET o == open[e]
        data == disk[DataOf(Nd(e), In(e), o[1], o[2])]
        aux == disk[AuxFile(e, o)]
    IN  /\ phase[e] = "compute" /\ ~Resampling(e) /\ o # NoOutput
        /\ open' = [open EXCEPT ![e] = NoOutput]
        /\ \/ /\ Complete(e, OutFile(Nd(e), o[1], o[2]), Worker(Nd(e), data, aux))
              /\ made' = [made EXCEPT ![e] = @ \cup {o}]
              /\ UNCHANGED <<phase, task>>
           \/ /\ Faults \/ data.grid # aux.grid
              /\ Fail(e) /\ NoWrite /\ UNCHANGED made
        /\ UNCHANGED <<nodeVars, memoVars, via, permits, result>>

compute_ends(e) ==
    /\ phase[e] = "compute" /\ ~Resampling(e)
    /\ open[e] = NoOutput /\ made[e] = Outputs(e)
    /\ Goto(e, "evaluate")
    /\ Remember(e, cur[e], OutCube(Nd(e), In(e)), Meaning(Nd(e), WantIn(e)))
    /\ made' = [made EXCEPT ![e] = {}]
    /\ via' = [via EXCEPT ![e] = << >>]
    /\ UNCHANGED <<nodeVars, task, open, disk, permits, result, disturbed>>

-----------------------------------------------------------------------------
\* The evaluation is dropped at an await: in a search, among downloads, or
\* while a resample runs.
\* Faulty variant: the permit belongs to the future, not to the closure.
drop_refunds(e) ==
    /\ Drops
    /\ phase[e] \in {"search", "download"}
    /\ Goto(e, "dropped") /\ LetGo(e)
    /\ permits' = permits + Cardinality({s \in Slots : task[e][s] = "writing"})
    /\ UNCHANGED <<nodeVars, memoVars, itemVars, disk, result, disturbed>>

drop(e) ==
    /\ Drops
    /\ \/ phase[e] \in {"search", "download"}
       \/ phase[e] = "compute" /\ Resampling(e) /\ open[e] # NoOutput
    /\ Goto(e, "dropped") /\ LetGo(e)
    /\ UNCHANGED <<nodeVars, memoVars, itemVars, disk, permits, result, disturbed>>

Step(e) ==
    \/ \E n \in Nodes(graph[e]) : evaluate(e, n)
    \/ search(e) \/ load_ends(e) \/ compute_ends(e) \/ finalise_save_result(e)
    \/ gdalwarp(e) \/ apply_reduction(e)
    \/ \E s \in Slots : \/ fetch_refused(e, s) \/ fetch(e, s)
                         \/ fetched(e, s) \/ next_fetched(e, s)
    \/ /\ phase[e] = "compute"
       /\ \E o \in Outputs(e) :
            resample_scl_to_data_grid(e, o) \/ writer_create(e, o)

Next == \E e \in Evals : run_sync(e) \/ Step(e) \/ drop(e)

\* Tasks and blocking closures run until they end.  Downloads end because the
\* client of the async-tiff downloader has request timeouts and bounded
\* retries; the GDAL downloaders set none, so for them this assumes a peer
\* that answers.  Nobody has to send a graph or drop one.
Spec == Init /\ [][Next]_vars /\ \A e \in Evals : WF_vars(Step(e))

-----------------------------------------------------------------------------
(* Properties.                                                             *)

Phases == {"idle", "evaluate", "search", "download", "compute"} \cup Ended

TaskStates == {"none", "waiting", "writing", "done", "failed", "slotted"}

\* Types: phases, tasks and permits.
TypeOK ==
    /\ phase \in [Evals -> Phases]
    /\ \A e \in Evals : graph[e] \in Graphs[e]
    /\ task \in [Evals -> [Slots -> TaskStates]]
    /\ permits \in 0..MaxDownloads
    /\ disturbed \in [Evals -> BOOLEAN]
    /\ \A e \in Evals : /\ DOMAIN memo[e] = DOMAIN want[e]
                         /\ DOMAIN memo[e] \subseteq Nodes(graph[e])

\* At most MaxDownloads closures download at any time and no permit is lost,
\* counting the closures of evaluations that failed or were dropped
\* (fetch_with_cache_async_with_meta moves the permit into the closure).
DownloadsBounded == permits + Cardinality(Downloading) = MaxDownloads

\* While nobody else writes the files of an evaluation, every cube it passes
\* between nodes has the bands it should have, each with one file per scene,
\* and each file holds the pixels of that band and scene: no band is kept that
\* a scene lacks ("all-or-none"), no answer lands in another scene's slot.
CubesAreMeant ==
    \A e \in Evals : Live(e) /\ ~disturbed[e] =>
        \A n \in DOMAIN memo[e] :
            /\ DOMAIN memo[e][n] = DOMAIN want[e][n]
            /\ \A b \in DOMAIN memo[e][n] :
                /\ DOMAIN memo[e][n][b] = DOMAIN want[e][n][b]
                /\ \A t \in DOMAIN memo[e][n][b] :
                    /\ memo[e][n][b][t] \in DOMAIN disk
                    /\ disk[memo[e][n][b][t]] = want[e][n][b][t]

\* An evaluation answers the bytes its graph means: every band of every scene
\* is the window that was asked for, processed as the graph says.
ResultIsMeant(e) ==
    LET r == CHOOSE n \in graph[e].result : TRUE
        nd == graph[e].nodes[r]
        b == PickBand(want[e][r])
    IN  result[e] = IF nd.process # "save_result" \/ nd.format = "json"
                    THEN <<"json", DOMAIN want[e][r]>>
                    ELSE IF b = None THEN Stub ELSE want[e][r][b][1].what

\* No evaluation answers anything else, also when another runs beside it
\* (finalise_save_result after the downloads of load_collection).
ResultsAreMeant == \A e \in Evals : phase[e] = "ok" => ResultIsMeant(e)

\* The only way to a wrong answer is a file name that two writers share or a
\* file found in the scratch directory: an evaluation whose files nobody else
\* wrote answers what its graph means, in whatever order downloads end.
UndisturbedIsMeant ==
    \A e \in Evals : phase[e] = "ok" /\ ~disturbed[e] => ResultIsMeant(e)

\* Graphs whose handlers find their arguments: every link is written
\* {"from_node": id} and nothing else, the cubes a process takes are there,
\* loads ask for known bands and the result is a node.
Takes(process) == CASE process = "mask" -> {1, 2}
                    [] process \in (Compute \cup {"save_result"}) \ {"mask"} -> {1}
                    [] OTHER -> {}
WellFormed ==
    \A e \in Evals : \A g \in Graphs[e] :
        /\ g.result \subseteq Nodes(g)
        /\ \A n \in Nodes(g) :
            /\ Takes(g.nodes[n].process) \subseteq DOMAIN g.nodes[n].from
            /\ \A i \in DOMAIN g.nodes[n].from : g.nodes[n].from[i].plain
            /\ g.nodes[n].process = "load_collection" => g.nodes[n].bands \subseteq Bands

\* Every evaluation that starts answers, fails or is dropped, also when the
\* permits it waits for are held by closures of evaluations that are gone.
EvaluationsEnd ==
    \A e \in Evals : phase[e] # "idle" ~> phase[e] \in Ended
=============================================================================
