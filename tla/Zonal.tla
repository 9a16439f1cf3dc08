------------------------------- MODULE Zonal -------------------------------
(***************************************************************************)
(* Statistics over polygons: the rings of a GeoJSON value, the scanline     *)
(* rasteriser, aggregate_spatial and its two extensions; and the logistic   *)
(* classifier's prediction.                                                *)
(*                                                                         *)
(* Coordinates are exact fractions. A raster is [rows, cols, px, gt, moved] *)
(* with px row-major and moved what the change of reference system adds to  *)
(* a coordinate.                                                           *)
(***************************************************************************)
EXTENDS Callbacks

CONSTANT Lost   \* an argument that is not there

BackendFailure == [tag |-> "backend", v |-> << >>]
Refuses(r) == r.tag \in {"invalid", "backend"}
JsonNull == NaN
Mask(pixels) == [tag |-> "mask", v |-> pixels]
InvalidRing == [tag |-> "ring", v |-> {}]

-----------------------------------------------------------------------------
(* Rings. A GeoJSON value is [pairs], [list], [type, items] or [other].     *)

ring_from_value(v) == IF "pairs" \in DOMAIN v /\ Len(v.pairs) >= 3 THEN <<v.pairs>> ELSE << >>
\* The first ring of a polygon's coordinates; holes are left out.
Exterior(v) == IF "list" \in DOMAIN v /\ v.list # << >> THEN ring_from_value(v.list[1]) ELSE << >>
RECURSIVE collect_rings_inner(_)
collect_rings_inner(v) ==
    LET each(s) == FlattenSeq([i \in DOMAIN s |-> collect_rings_inner(s[i])])
    IN  CASE "type" \in DOMAIN v ->
               (CASE v.type = "MultiPolygon" ->
                        IF "list" \in DOMAIN v.items THEN FlattenSeq([i \in DOMAIN v.items.list |-> Exterior(v.items.list[i])])
                        ELSE << >>
                  [] v.type = "Feature" -> collect_rings_inner(v.items)
                  [] v.type \in {"FeatureCollection", "GeometryCollection"} ->
                        IF "list" \in DOMAIN v.items THEN each(v.items.list) ELSE << >>
                  [] OTHER -> Exterior(v.items))
          [] "pairs" \in DOMAIN v -> ring_from_value(v)
          [] "list" \in DOMAIN v -> each(v.list)
          [] OTHER -> << >>
collect_exterior_rings(v) == collect_rings_inner(v)

-----------------------------------------------------------------------------
(* The rasteriser.                                                         *)

is_valid(ring) == Len(ring) >= 3
bbox(ring) ==
    LET along(k, op(_, _)) == FoldLeft(op, NaN, [i \in DOMAIN ring |-> ring[i][k]])
    IN  <<along(1, QMin), along(2, QMin), along(1, QMax), along(2, QMax)>>
Half(n) == Q(2 * n + 1, 2)
\* `as usize': truncated, negative numbers are 0.
AsUsize(q) == Max({0, QFloor(q)[1]})

\* Where the edges cross the line through the centres of row y, in order.
Crossings(ring, y) ==
    LET yc == Half(y)
        n == Len(ring)
        to(i) == ring[(i % n) + 1]
        met(i) == LET y0 == ring[i][2]
                      y1 == to(i)[2]
                  IN  QLe(QMin(y0, y1), yc) /\ QLt(yc, QMax(y0, y1))
        at(i) == QAdd(ring[i][1], QMul(QDiv(QSub(yc, ring[i][2]), QSub(to(i)[2], ring[i][2])), QSub(to(i)[1], ring[i][1])))
        hits == SelectSeq([i \in 1..n |-> i], met)
    IN  SortSeq([k \in DOMAIN hits |-> at(hits[k])], QLt)

\* Faulty variant: an odd crossing is filled up to the border.
fill_to_border(ring, rows, cols) ==
    IF ~is_valid(ring) THEN InvalidRing
    ELSE Mask({p \in (0..(rows - 1)) \X (0..(cols - 1)) :
            \E i \in DOMAIN Crossings(ring, p[1]) : i % 2 = 1 /\ QLe(Crossings(ring, p[1])[i], Half(p[2]))})
rasterise(ring, rows, cols) ==
    LET box == bbox(ring)
        yStart == Min({AsUsize(box[2]), rows - 1})
        yEnd == Min({AsUsize(QCeil(box[4])), rows})
        filled(y) == LET xs == Crossings(ring, y)
                         span(i) == {x \in Min({AsUsize(QCeil(xs[i])), cols})..(Min({AsUsize(xs[i + 1]) + 1, cols}) - 1) :
                                       QLe(xs[i], Half(x)) /\ QLt(Half(x), xs[i + 1])}
                     IN  UNION {span(i) : i \in {k \in 1..(Len(xs) - 1) : k % 2 = 1}}
    IN  IF ~is_valid(ring) THEN InvalidRing
        ELSE IF rows = 0 \/ cols = 0 THEN Mask({})
        ELSE Mask(UNION {{<<y, x>> : x \in filled(y)} : y \in yStart..(yEnd - 1)})
\* The pixels inside a valid ring, row by row.
Inside(r, ring) ==
    LET mask == rasterise(ring, r.rows, r.cols).v
        ids == SelectSeq([i \in 1..(r.rows * r.cols) |-> i], LAMBDA i : <<(i - 1) \div r.cols, (i - 1) % r.cols>> \in mask)
    IN  [k \in DOMAIN ids |-> r.px[ids[k]]]

\* SimpleZonalStats: NA counts like any value, an empty polygon has no mean.
zonal_mean(rings, r) ==
    IF Len(r.px) # r.rows * r.cols \/ \E g \in DOMAIN rings : rasterise(rings[g], r.rows, r.cols) = InvalidRing
    THEN BackendFailure
    ELSE Arr([g \in DOMAIN rings |-> LET s == Inside(r, rings[g])
                                     IN  IF s = << >> THEN JsonNull ELSE QDiv(QSum(s), Whole(Len(s)))])

-----------------------------------------------------------------------------
(* The processes.                                                          *)

transform_coords(p, moved) == <<QAdd(p[1], moved[1]), QAdd(p[2], moved[2])>>
ToPixels(ring, r) ==
    [i \in DOMAIN ring |-> LET p == transform_coords(ring[i], r.moved)
                           IN  <<QDiv(QSub(p[1], r.gt.x), r.gt.w), QDiv(QSub(p[2], r.gt.y), r.gt.h)>>]
ZonalBands == <<"ndvi", "ndmi", "ndwi", "evi", "savi", "msavi">>
ZonalBand(bands, order_) ==
    LET known == SelectSeq(ZonalBands, LAMBDA b : b \in DOMAIN bands)
        rest == SelectSeq(order_, LAMBDA b : b \in DOMAIN bands /\ b # "SCL")
    IN  Head(known \o rest \o <<Lost>>)
\* One value per geometry and scene.
Collapsed(ring, r, reducer) ==
    LET s == SelectSeq(Inside(r, ToPixels(ring, r)), LAMBDA v : Finite(v) /\ v # NA)
    IN  IF ~is_valid(ring) \/ s = << >> THEN JsonNull ELSE apply_reducer(s, reducer)
eval_aggregate_spatial(args) ==
    LET red == parse_reducer_subgraph(args.reducer)
        rings == collect_exterior_rings(args.geometries)
        band == ZonalBand(args.data.bands, args.data.order)
        scenes == args.data.bands[band]
    IN  IF args.reducer = Lost THEN InvalidGraph
        ELSE IF Failed(red) THEN red
        ELSE IF red.tag = "subgraph" \/ args.geometries = Lost THEN InvalidGraph
        ELSE IF rings = << >> THEN InvalidGraph
        ELSE IF args.data = Lost THEN InvalidGraph
        ELSE IF band = Lost THEN InvalidGraph
        ELSE IF \E t \in DOMAIN scenes : scenes[t].gt.w = Whole(0) \/ scenes[t].gt.h = Whole(0) THEN BackendFailure
        ELSE [tag |-> "table", v |-> [g \in DOMAIN rings |-> [t \in DOMAIN scenes |-> Collapsed(rings[g], scenes[t], red.v)]]]
eval_aggregate_spatial_polygon(geoms, r) ==
    IF geoms = << >> \/ \E g \in DOMAIN geoms : ~is_valid(geoms[g]) THEN InvalidGraph ELSE zonal_mean(geoms, r)

\* json_to_array2: rows of one length.
json_to_array2(x) ==
    IF x = << >> \/ \E i \in DOMAIN x : Len(x[i]) # Len(x[1]) THEN InvalidGraph ELSE Arr(x)
json_to_array1_u8(y) == IF \E i \in DOMAIN y : y[i] \notin 0..255 THEN InvalidGraph ELSE Arr(y)
\* The logistic function is at least a half exactly when its argument is not negative.
predict_classifier(model, x) ==
    [i \in DOMAIN x |-> LET z == QAdd(model.bias, QSum([k \in DOMAIN x[i] |-> QMul(model.weights[k], x[i][k])]))
                        IN  IF z[1] >= 0 THEN 1 ELSE 0]
\* One level of { "model": .. } is taken off.
eval_predict_classifier(model, x) ==
    LET inner == IF "model" \in DOMAIN model THEN model.model ELSE model
    IN  IF "weights" \notin DOMAIN inner \/ "bias" \notin DOMAIN inner THEN InvalidGraph
        ELSE IF Failed(json_to_array2(x)) THEN InvalidGraph
        ELSE IF Len(inner.weights) # Len(x[1]) THEN Panic
        ELSE Arr(predict_classifier(inner, x))
eval_fit_classifier(x, y) ==
    IF Failed(json_to_array2(x)) \/ Failed(json_to_array1_u8(y)) THEN InvalidGraph
    ELSE IF Len(x) # Len(y) THEN BackendFailure ELSE [tag |-> "model", v |-> Len(x[1])]

-----------------------------------------------------------------------------
(* Questions and what their answers must satisfy.                          *)

ZonalAnswer(q) ==
    CASE q.op = "raster" -> rasterise(q.ring, q.rows, q.cols)
      [] q.op = "rings" -> collect_exterior_rings(q.geometry)
      [] q.op = "zonal" -> <<eval_aggregate_spatial(q.args),
                             eval_aggregate_spatial_polygon(q.rings, q.raster)>>
      [] q.op = "learn" -> <<eval_fit_classifier(q.x, q.y), eval_predict_classifier(q.model, q.x)>>

\* A pixel is inside when a ray from its centre to the right crosses an odd
\* number of edges.
EvenOdd(ring, p) == Cardinality({i \in DOMAIN Crossings(ring, p[1]) : QLt(Half(p[2]), Crossings(ring, p[1])[i])}) % 2 = 1
\* The first pixel of a span is left out when its centre is inside and its left
\* border is not.
CutOff(ring, p) == \E i \in DOMAIN Crossings(ring, p[1]) :
    LET x == Crossings(ring, p[1])[i]
    IN  i % 2 = 1 /\ QLt(Whole(p[2]), x) /\ QLe(x, Half(p[2]))
\* No pixel outside the polygon is counted, and of those inside only such first
\* ones are not, though the comment on ScanlineRasterizer has every centre with
\* an odd count inside (eo-vector lib.rs:116); less than a triangle is refused.
RasterIsInside(q, r) ==
    LET all == (0..(q.rows - 1)) \X (0..(q.cols - 1))
    IN  IF Len(q.ring) < 3 THEN r = InvalidRing
        ELSE r.v \subseteq all /\ \A p \in all : (p \in r.v) <=> (EvenOdd(q.ring, p) /\ ~CutOff(q.ring, p))
RECURSIVE PolygonsIn(_)
PolygonsIn(v) ==
    IF "type" \in DOMAIN v
    THEN CASE v.type = "Polygon" -> <<v.items.list[1].pairs>>
           [] v.type = "MultiPolygon" -> [i \in DOMAIN v.items.list |-> v.items.list[i].list[1].pairs]
           [] v.type = "Feature" -> PolygonsIn(v.items)
           [] OTHER -> FlattenSeq([i \in DOMAIN v.items.list |-> PolygonsIn(v.items.list[i])])
    ELSE FlattenSeq([i \in DOMAIN v.list |-> PolygonsIn(v.list[i])])
\* The table has a row for each ring, in the geometry's order, and a column for
\* each scene; for whole pixels of an unmoved raster the mean agrees with the
\* extension's, which keeps NA.
ZonalAgrees(q, r) ==
    LET rings == collect_exterior_rings(q.args.geometries)
        scenes == q.args.data.bands[ZonalBand(q.args.data.bands, q.args.data.order)]
    IN  ~Refuses(r[1]) =>
            /\ Len(r[1].v) = Len(rings)
            /\ \A g \in DOMAIN rings : Len(r[1].v[g]) = Len(scenes)
            /\ (parse_reducer_subgraph(q.args.reducer).v = "mean" /\ q.rings = rings /\ NA \notin Range(q.raster.px) /\ ~Refuses(r[2])) =>
                   \A g \in DOMAIN rings, t \in DOMAIN scenes : scenes[t] = q.raster => r[1].v[g][t] = r[2].v[g]
ZonalExact(q, r) ==
    CASE q.op = "raster" -> RasterIsInside(q, r)
      [] q.op = "rings" -> r = PolygonsIn(q.geometry)
      [] q.op = "zonal" -> ZonalAgrees(q, r)
      [] q.op = "learn" -> (~Refuses(r[1]) /\ r[2].tag = "arr") => /\ Len(r[2].v) = Len(q.y)
                                                                  /\ Range(r[2].v) \subseteq {0, 1}
=============================================================================
