------------------------------- MODULE CubeOps -------------------------------
(***************************************************************************)
(* The processes on data cubes, applied one after another to the cube that *)
(* load_collection answered: what each does to the files of the bands and  *)
(* to what the cube says about them.                                       *)
(*                                                                         *)
(* A file is described by what its pixels stem from: acquisitions, source  *)
(* bands, how often digital numbers were converted to physical units, the  *)
(* extent asked for when it was last cut (what the source lacks of it is   *)
(* filled with nodata, so the file has that extent) and its projection.    *)
(***************************************************************************)
EXTENDS SequencesExt, Orderings

CONSTANTS
    BandOrder,     \* band names in the order of a BTreeMap
    Absent,        \* an optional field that is not set
    Times,         \* acquisition times
    Boxes,         \* spatial extents
    BandSets,      \* what collections have: sets of bands
    NameLists,     \* lists of band names that processes are given
    MaxSteps       \* bound: processes applied to the cubes

ASSUME CubeAssumption ==
    /\ BandOrder \in Seq(STRING) /\ NameLists \subseteq Seq(STRING)
    /\ IsFiniteSet(Times)

VARIABLES
    value,         \* what the last node answered
    other,         \* a second load_collection, for merge_cubes
    steps,         \* processes applied so far
    mixed,         \* history: cubes of other lengths or areas were merged
    shown          \* history: files `apply' gave to a callback: <<source bands, units>>

cubeVars == <<value, other, steps, mixed, shown>>

F32_INDEX_BANDS == <<"ndvi", "ndmi", "ndwi", "evi", "savi", "msavi">>
SCL == "SCL"

Error(e) == [kind |-> "error", e |-> e]
InvalidArgs == Error("InvalidGraph")
Backend == Error("Backend")
IsError(v) == v.kind = "error"

\* DataCube::new; extras hold the added dimensions.
NewCube ==
    [kind |-> "cube", bands |-> << >>, band_scales |-> {}, bbox |-> Absent, scene_count |-> Absent,
     datetimes |-> Absent, times |-> Absent, layers |-> Absent, layer_names |-> Absent, extras |-> << >>]

Raster(file) == [kind |-> "raster", path |-> file]

\* A raster becomes a cube of one band; any JSON object decodes, without bands.
from_envelope_owned(v) ==
    CASE v.kind = "raster" -> [NewCube EXCEPT !.bands = [b \in {"result"} |-> <<v.path>>], !.scene_count = 1]
      [] v.kind = "object" -> NewCube
      [] v.kind = "number" -> InvalidArgs
      [] OTHER -> v

Keys(cube) == Filtered(BandOrder, DOMAIN cube.bands)
NonScl(cube) == Filtered(BandOrder, DOMAIN cube.bands \ {SCL})
\* The band that stands for the cube: a known index, else the first that is not SCL.
PrimaryBand(cube) ==
    LET index == Filtered(F32_INDEX_BANDS, DOMAIN cube.bands)
    IN  IF index # << >> THEN Head(index) ELSE IF NonScl(cube) # << >> THEN Head(NonScl(cube)) ELSE Absent

\* A file computed from others.
Merged(files) ==
    [at |-> UNION {f.at : f \in files}, of |-> UNION {f.of : f \in files}, units |-> UNION {f.units : f \in files},
     area |-> UNION {f.area : f \in files}, epsg |-> UNION {f.epsg : f \in files}]
EachFile(cube, op(_)) ==
    [b \in DOMAIN cube.bands |-> [t \in DOMAIN cube.bands[b] |-> op(cube.bands[b][t])]]

-----------------------------------------------------------------------------
(* Subsets and labels.                                                     *)

Within(t, start, end) == (start = Absent \/ start <= t) /\ (end = Absent \/ t <= end)
\* Faulty variant: the timestamps are left as they were.
eval_filter_temporal_stale(v, start, end) ==
    LET cube == from_envelope_owned(v)
        keep == Rising({i \in DOMAIN cube.datetimes : Within(cube.datetimes[i], start, end)})
        prune(s) == [k \in DOMAIN keep |-> s[keep[k]]]
    IN  IF IsError(cube) THEN cube ELSE IF cube.datetimes = Absent THEN InvalidArgs
        ELSE [cube EXCEPT !.bands = [b \in DOMAIN @ |-> IF Len(@[b]) = Len(cube.datetimes) THEN prune(@[b]) ELSE @[b]]]

eval_filter_temporal(v, start, end) ==
    LET cube == from_envelope_owned(v)
        keep == Rising({i \in DOMAIN cube.datetimes : Within(cube.datetimes[i], start, end)})
        prune(s) == [k \in DOMAIN keep |-> s[keep[k]]]
    IN  IF IsError(cube) THEN cube
        ELSE IF cube.datetimes = Absent THEN InvalidArgs
        ELSE IF keep = << >> THEN Backend
        ELSE [cube EXCEPT !.bands = [b \in DOMAIN @ |-> IF Len(@[b]) = Len(cube.datetimes) THEN prune(@[b]) ELSE @[b]],
                          !.datetimes = prune(@), !.scene_count = Len(keep)]

recrop_cube_to_bbox(v, bbox) ==
    LET cube == from_envelope_owned(v)
    IN  IF IsError(cube) THEN cube
        ELSE IF DOMAIN cube.bands = {} THEN InvalidArgs
        ELSE [cube EXCEPT !.bands = EachFile(cube, LAMBDA f : [f EXCEPT !.area = {bbox}]), !.bbox = bbox]

Ordered(box) == box[1] < box[3] /\ box[2] < box[4]
\* A box: <<west, south, east, north>>; parse_bbox wants west < east, south < north.
eval_filter_bbox(v, box) ==
    IF ~Ordered(box) THEN InvalidArgs ELSE recrop_cube_to_bbox(v, box)

\* Geometries are a BoundingBox object, or GeoJSON: here the set of its pairs.
BoxObject(box) == [type |-> "BoundingBox", box |-> box]
GeoJson(points) == [type |-> "GeoJSON", points |-> points]
Corners(box) == {<<box[1], box[2]>>, <<box[3], box[4]>>}
Geometries == {BoxObject(box) : box \in Boxes} \cup {GeoJson(P) : P \in UNION {SUBSET Corners(box) : box \in Boxes}}

\* A BoundingBox object as it stands, ordered or not; else the envelope of all
\* pairs, none when it is flat.
geojson_bbox(g) ==
    LET xs == {p[1] : p \in g.points}
        ys == {p[2] : p \in g.points}
    IN  IF g.type = "BoundingBox" THEN g.box
        ELSE IF Cardinality(xs) < 2 \/ Cardinality(ys) < 2 THEN Absent
        ELSE <<Min(xs), Min(ys), Max(xs), Max(ys)>>
eval_filter_spatial(v, g) ==
    IF geojson_bbox(g) = Absent THEN InvalidArgs ELSE recrop_cube_to_bbox(v, geojson_bbox(g))

eval_filter_bands(v, requested) ==
    LET cube == from_envelope_owned(v)
    IN  IF requested = << >> THEN InvalidArgs
        ELSE IF IsError(cube) THEN cube
        ELSE IF ~Range(requested) \subseteq DOMAIN cube.bands THEN InvalidArgs
        ELSE [cube EXCEPT !.bands = [b \in Range(requested) |-> @[b]],
                          !.layers = Len(requested), !.layer_names = requested]

\* A renamed band wins over one that is forwarded under the same name.
eval_rename_labels(v, dimension, target, source) ==
    LET cube == from_envelope_owned(v)
        old == IF source = Absent THEN Keys(cube) ELSE source
        lastOf(b) == Max({i \in DOMAIN target : target[i] = b})
        kept == DOMAIN cube.bands \ Range(old)
        bands == [b \in Range(target) \cup kept |->
                     IF b \in Range(target) THEN cube.bands[old[lastOf(b)]] ELSE cube.bands[b]]
        out == [cube EXCEPT !.bands = bands]
    IN  IF dimension \notin {"bands", "band"} THEN InvalidArgs
        ELSE IF IsError(cube) THEN cube
        ELSE IF Len(old) # Len(target) \/ ~Range(old) \subseteq DOMAIN cube.bands \/ Cardinality(Range(old)) # Len(old)
             THEN InvalidArgs
        ELSE [out EXCEPT !.layer_names = Keys(out)]

eval_add_dimension(v, name) ==
    LET cube == from_envelope_owned(v)
    IN  IF IsError(cube) THEN cube ELSE [cube EXCEPT !.extras = Append(@, name)]
eval_drop_dimension(v, name) ==
    LET cube == from_envelope_owned(v)
    IN  IF name \in {"bands", "band", "t", "time", "x", "y", "spatial"} THEN InvalidArgs
        ELSE IF IsError(cube) THEN cube
        ELSE IF name \notin Range(cube.extras) THEN InvalidArgs
        ELSE [cube EXCEPT !.extras = Filtered(@, Range(@) \ {name})]

-----------------------------------------------------------------------------
(* Computations: each writes a file per scene.                             *)

\* reduce_dimension over time: one band of one file, and nothing else of the cube.
eval_reduce_dimension_t(v) ==
    LET cube == from_envelope_owned(v)
        band == PrimaryBand(cube)
    IN  IF IsError(cube) THEN cube
        ELSE IF band = Absent THEN InvalidArgs
        ELSE IF cube.bands[band] = << >> THEN Backend
        ELSE [NewCube EXCEPT !.bands = [b \in {band} |-> <<Merged(Range(cube.bands[band]))>>], !.scene_count = 1]

\* Over bands: scene by scene; a single band is only renamed.
eval_reduce_dimension_bands(v) ==
    LET cube == from_envelope_owned(v)
        names == NonScl(cube)
        n == Len(cube.bands[names[1]])
        scene(t) == Merged({cube.bands[b][t] : b \in Range(names)})
    IN  IF IsError(cube) THEN cube
        ELSE IF names = << >> THEN InvalidArgs
        ELSE IF \E b \in Range(names) : Len(cube.bands[b]) # n THEN InvalidArgs
        ELSE [NewCube EXCEPT !.bands = [b \in {"result"} |-> [t \in 1..n |-> scene(t)]], !.scene_count = n]

eval_reduce_dimension(v, dimension) ==
    CASE dimension \in {"bands", "band"} -> eval_reduce_dimension_bands(v)
      [] dimension \in {"t", "time", "temporal"} -> eval_reduce_dimension_t(v)
      [] OTHER -> InvalidArgs

\* The unit a callback sees: raw numbers are converted where the scale is known.
Converted(cube, b, f) == IF b \in cube.band_scales THEN [f EXCEPT !.units = {u + 1 : u \in @}] ELSE f

\* `apply' without a process answers its data; else every band but SCL.
eval_apply(v) ==
    LET cube == from_envelope_owned(v)
        names == NonScl(cube)
        longest == Max({Len(cube.bands[b]) : b \in Range(names)})
    IN  IF IsError(cube) THEN cube
        ELSE IF names = << >> THEN InvalidArgs
        ELSE IF \E b \in Range(names) : cube.bands[b] = << >> THEN Backend
        ELSE [NewCube EXCEPT
                !.bands = [b \in DOMAIN cube.bands |->
                             IF b = SCL THEN cube.bands[b]
                             ELSE [t \in DOMAIN cube.bands[b] |-> Converted(cube, b, cube.bands[b][t])]],
                !.bbox = cube.bbox, !.scene_count = longest, !.times = longest,
                !.layers = Len(names), !.layer_names = names]

\* ndvi of two bands, scene by scene, in place of both.
eval_ndvi(v, red, nir, target) ==
    LET cube == from_envelope_owned(v)
        n == Len(cube.bands[red])
    IN  IF IsError(cube) THEN cube
        ELSE IF ~{red, nir} \subseteq DOMAIN cube.bands \/ red = nir THEN InvalidArgs
        ELSE IF Len(cube.bands[nir]) # n \/ n = 0 THEN Backend
        ELSE [NewCube EXCEPT
                !.bands = [b \in (DOMAIN cube.bands \ {red, nir}) \cup {target} |->
                             IF b # target THEN cube.bands[b]
                             ELSE [t \in 1..n |-> [Merged({cube.bands[red][t], cube.bands[nir][t]}) EXCEPT !.units = {1}]]],
                !.bbox = cube.bbox, !.scene_count = n, !.times = n, !.layers = 1, !.layer_names = <<target>>]

\* resample_spatial: a resolution other than zero is refused.
eval_resample_spatial(v, epsg, resolution) ==
    LET warped(f) == [f EXCEPT !.epsg = {epsg}]
    IN  IF resolution # 0 THEN InvalidArgs
        ELSE IF v.kind = "raster" THEN Raster(warped(v.path))
        ELSE IF v.kind # "cube" THEN InvalidArgs
        ELSE IF DOMAIN v.bands = {} THEN Backend
        ELSE [v EXCEPT !.bands = EachFile(v, warped), !.bbox = Absent]

extract_raster_path(v) ==
    CASE v.kind = "raster" -> v
      [] v.kind = "cube" -> LET b == PrimaryBand(v)
                            IN  IF b = Absent THEN InvalidArgs
                                ELSE IF v.bands[b] = << >> THEN InvalidArgs ELSE Raster(Head(v.bands[b]))
      [] OTHER -> InvalidArgs

\* What both merges keep of the first cube.
MergedCube(c1, bands) == [NewCube EXCEPT !.bands = bands, !.bbox = c1.bbox, !.scene_count = c1.scene_count]

merge_cubes_resolve_overlap(c1, c2) ==
    LET both == DOMAIN c1.bands \cap DOMAIN c2.bands
    IN  IF \E b \in both : Len(c1.bands[b]) # Len(c2.bands[b]) THEN InvalidArgs
        ELSE MergedCube(c1, [b \in DOMAIN c1.bands \cup DOMAIN c2.bands |->
                CASE b \in both -> [t \in DOMAIN c1.bands[b] |-> Merged({c1.bands[b][t], c2.bands[b][t]})]
                  [] b \notin DOMAIN c2.bands -> c1.bands[b]
                  [] OTHER -> c2.bands[b]])

\* Disjoint bands are joined, common ones resolved by a callback; without one
\* the first files of the primary bands are mosaicked.
eval_merge_cubes(c1, c2, resolver) ==
    LET p1 == extract_raster_path(c1)
        p2 == extract_raster_path(c2)
        disjoint == DOMAIN c1.bands \cap DOMAIN c2.bands = {}
    IN  IF c1.kind = "cube" /\ c2.kind = "cube" /\ disjoint
        THEN MergedCube(c1, [b \in DOMAIN c1.bands \cup DOMAIN c2.bands |->
                                IF b \in DOMAIN c1.bands THEN c1.bands[b] ELSE c2.bands[b]])
        ELSE IF c1.kind = "cube" /\ c2.kind = "cube" /\ resolver THEN merge_cubes_resolve_overlap(c1, c2)
        ELSE IF IsError(p1) THEN p1 ELSE IF IsError(p2) THEN p2
        ELSE Raster(Merged({p1.path, p2.path}))

-----------------------------------------------------------------------------
(* A graph: two branches, each a chain of processes, that may be merged.   *)

\* load_collection: every band has a scale but SCL; times only if all scenes have one.
Loaded(B, times, dated, box) ==
    [NewCube EXCEPT
        !.bands = [b \in B |-> [i \in DOMAIN times |->
                     [at |-> {times[i]}, of |-> {b}, units |-> {0}, area |-> {box}, epsg |-> {0}]]],
        !.band_scales = B \ {SCL}, !.bbox = box, !.scene_count = Len(times),
        !.datetimes = IF dated THEN times ELSE Absent]

CubeInit ==
    /\ \E B \in BandSets, times \in SetToSeqs(Times), dated \in BOOLEAN :
          value = Loaded(B, times, dated, CHOOSE box \in Boxes : Ordered(box))
    /\ \E B \in BandSets, n \in 1..Cardinality(Times), box \in {b \in Boxes : Ordered(b)} :
          other = Loaded(B, [i \in 1..n |-> CHOOSE t \in Times : TRUE], FALSE, box)
    /\ steps = 0 /\ mixed = FALSE /\ shown = {}

\* No graph of cubes runs.
CubeIdle == value = NewCube /\ other = NewCube /\ steps = MaxSteps /\ mixed = FALSE /\ shown = {}

Ready == steps < MaxSteps /\ ~IsError(value)
Answered(r) == steps' = steps + 1 /\ value' = r /\ UNCHANGED other
\* A process that reads and writes files may fail in the middle.
Compute(r) == \E out \in {r, Backend} : Answered(out)

filter_temporal ==
    /\ Ready /\ \E start, end \in Times \cup {Absent} : Answered(eval_filter_temporal(value, start, end))
    /\ UNCHANGED <<mixed, shown>>
filter_bbox == Ready /\ (\E box \in Boxes : Compute(eval_filter_bbox(value, box))) /\ UNCHANGED <<mixed, shown>>
filter_spatial ==
    /\ Ready /\ \E g \in Geometries : Compute(eval_filter_spatial(value, g))
    /\ UNCHANGED <<mixed, shown>>
filter_bands ==
    /\ Ready /\ \E s \in NameLists : Answered(eval_filter_bands(value, s))
    /\ UNCHANGED <<mixed, shown>>
rename_labels ==
    /\ Ready /\ \E target \in NameLists, source \in NameLists \cup {Absent}, dimension \in {"bands", "t"} :
                 Answered(eval_rename_labels(value, dimension, target, source))
    /\ UNCHANGED <<mixed, shown>>
add_dimension == Ready /\ Answered(eval_add_dimension(value, "q")) /\ UNCHANGED <<mixed, shown>>
drop_dimension == Ready /\ (\E d \in {"q", "t"} : Answered(eval_drop_dimension(value, d))) /\ UNCHANGED <<mixed, shown>>
reduce_dimension ==
    /\ Ready /\ \E d \in {"t", "bands", "x"} : Compute(eval_reduce_dimension(value, d))
    /\ UNCHANGED <<mixed, shown>>
apply ==
    LET cube == from_envelope_owned(value)
    IN  /\ Ready /\ Compute(eval_apply(value))
        /\ shown' = shown \cup UNION {{<<f.of, Converted(cube, b, f).units>> : f \in Range(cube.bands[b])} : b \in Range(NonScl(cube))}
        /\ UNCHANGED mixed
ndvi == Ready /\ (\E t \in {"ndvi", "B04"} : Compute(eval_ndvi(value, "B04", "B08", t))) /\ UNCHANGED <<mixed, shown>>
resample_spatial == Ready /\ (\E res \in {0, 10} : Compute(eval_resample_spatial(value, 1, res))) /\ UNCHANGED <<mixed, shown>>

Lengths(v) == {Len(v.bands[b]) : b \in DOMAIN v.bands}
Areas(v) == UNION {{f.area : f \in Range(v.bands[b])} : b \in DOMAIN v.bands}
\* The second branch is processed in turn, and joined to the first.
branch == Ready /\ ~IsError(other) /\ value' = other /\ other' = value /\ UNCHANGED <<steps, mixed, shown>>
merge_cubes ==
    /\ Ready /\ ~IsError(other) /\ \E resolver \in BOOLEAN : Compute(eval_merge_cubes(value, other, resolver))
    /\ mixed' = (mixed \/ (value.kind = "cube" /\ other.kind = "cube"
                             /\ (Lengths(value) # Lengths(other) \/ Areas(value) # Areas(other))))
    /\ UNCHANGED shown

CubeNext ==
    \/ filter_temporal \/ filter_bbox \/ filter_spatial \/ filter_bands \/ rename_labels \/ add_dimension
    \/ drop_dimension \/ reduce_dimension \/ apply \/ ndvi \/ resample_spatial \/ branch \/ merge_cubes

CubeSpec == CubeInit /\ [][CubeNext]_cubeVars

-----------------------------------------------------------------------------
(* Properties.                                                             *)

Files(v) == IF v.kind = "raster" THEN {v.path} ELSE UNION {Range(v.bands[b]) : b \in DOMAIN v.bands}

\* Scene i of every band is the one acquired at datetimes[i].
TimesFollowScenes(v) ==
    v.datetimes # Absent => \A b \in DOMAIN v.bands : /\ Len(v.bands[b]) = Len(v.datetimes)
                                                     /\ \A i \in DOMAIN v.bands[b] : v.bands[b][i].at = {v.datetimes[i]}
\* layer_names are bands of the cube; scene_count and bbox are those of its
\* files, unless unlike cubes were merged: merge_cubes takes them from the first.
StatedIsTrue(v) ==
    /\ v.layer_names # Absent => Range(v.layer_names) \subseteq DOMAIN v.bands
    /\ ~mixed /\ v.scene_count # Absent => Lengths(v) \subseteq {v.scene_count}
    /\ ~mixed /\ v.bbox # Absent => \A f \in Files(v) : f.area = {v.bbox}
\* No file is converted to physical units twice.
ConvertedOnce(v) == \A f \in Files(v) : 2 \notin f.units

\* After any chain of processes (filter_*, rename_labels, reduce_dimension,
\* merge_cubes, apply, ...) these fields of a cube are true of its files:
\* datetimes (one per scene, and of that scene), scene_count, bbox (the extent
\* last asked for) and layer_names (bands it has); no scale factor is applied
\* twice.  Nothing is claimed of `layers' and `times': filter_bands(["B04",
\* "B04"]) states two layers of one band, rename_labels leaves the old number.
\* The comment of eval_filter_bbox (eval_cube_ops.rs:102) has the files cut to
\* the intersection with their extent; the code cuts them to all of the box.
CubesStayTrue ==
    value.kind \in {"cube", "raster"} =>
        /\ ConvertedOnce(value)
        /\ value.kind = "cube" => TimesFollowScenes(value) /\ StatedIsTrue(value)

\* What the comments of eval_apply and DataCube promise: a callback computes on
\* physical values, never on raw digital numbers.
CallbackSeesReflectance == \A s \in shown : SCL \notin s[1] => 0 \notin s[2]
=============================================================================
