----------------------------- MODULE RasterGrid -----------------------------
(***************************************************************************)
(* Rasters cut into blocks: sources, the dataset builder, block windows and *)
(* overlaps, datasets joined along time or layers, point lookups, the       *)
(* chunk planner and the alignment check.                                   *)
(*                                                                         *)
(* Coordinates are whole numbers; a pixel is several units wide.            *)
(***************************************************************************)
EXTENDS Integers, FiniteSets, SequencesExt

CONSTANTS
    MIN_BLOCK, MAX_BLOCK,   \* limits of the chunk planner, 64 and 4096
    NoFile,                 \* a path at which there is nothing
    Nothing                 \* an optional value that is absent

Err(e) == [error |-> e]
Ok(v) == [ok |-> v]
Failed(x) == "error" \in DOMAIN x

-----------------------------------------------------------------------------
(* Windows.                                                                *)

ReadWindow(row, col, rows, cols) == [row |-> row, col |-> col, rows |-> rows, cols |-> cols]
PixelsOf(w) == (w.row..(w.row + w.rows - 1)) \X (w.col..(w.col + w.cols - 1))
Overlap(n) == [top |-> n, bottom |-> n, left |-> n, right |-> n]
is_zero(ov) == \A side \in DOMAIN ov : ov[side] = 0

inner_size(region) ==
    [rows |-> region.window.rows - (region.overlap.top + region.overlap.bottom),
     cols |-> region.window.cols - (region.overlap.left + region.overlap.right)]
write_window(region) ==
    ReadWindow(region.window.row + region.overlap.top, region.window.col + region.overlap.left,
               inner_size(region).rows, inner_size(region).cols)

\* A worker's answer without its overlap; slicing past the end panics.
trim_overlap(data, region) ==
    LET ov == region.overlap
        h == region.window.rows
        w == region.window.cols
        rowEnd == Max({h - ov.bottom, 0})
        colEnd == Max({w - ov.right, 0})
    IN  IF is_zero(ov) THEN Ok(data)
        ELSE IF ov.top > rowEnd \/ ov.left > colEnd THEN Err("panic")
        ELSE Ok([p \in (0..(rowEnd - ov.top - 1)) \X (0..(colEnd - ov.left - 1)) |-> data[<<p[1] + ov.top, p[2] + ov.left>>]])

-----------------------------------------------------------------------------
(* Block grids.                                                            *)

\* Faulty variant: edge blocks are dropped instead of clipped.
whole_blocks_only(shape, block) ==
    LET nCols == shape.cols \div block.cols
    IN  [i \in 1..((shape.rows \div block.rows) * nCols) |->
            ReadWindow(((i - 1) \div nCols) * block.rows, ((i - 1) % nCols) * block.cols, block.rows, block.cols)]

\* eo-kernel: row-major, edge blocks clipped to the raster.
enumerate_blocks(shape, block) ==
    LET nRows == (shape.rows + block.rows - 1) \div block.rows
        nCols == (shape.cols + block.cols - 1) \div block.cols
        at(i) == <<((i - 1) \div nCols) * block.rows, ((i - 1) % nCols) * block.cols>>
    IN  [i \in 1..(nRows * nCols) |->
            ReadWindow(at(i)[1], at(i)[2], Min({block.rows, shape.rows - at(i)[1]}), Min({block.cols, shape.cols - at(i)[2]}))]

\* orbit-geo: steps of a block over rows, then columns. The overlap of a region
\* is not added to its window.
partition_blocks(shape, block, overlap, gt) ==
    LET starts(n, b) == SelectSeq([i \in 1..n |-> i - 1], LAMBDA k : k % b = 0)
        rs == starts(shape.rows, block.rows)
        cs == starts(shape.cols, block.cols)
        region(i) == LET r == rs[((i - 1) \div Len(cs)) + 1]
                         c == cs[((i - 1) % Len(cs)) + 1]
                     IN  [index |-> i - 1, overlap |-> overlap,
                          window |-> ReadWindow(r, c, Min({block.rows, shape.rows - r}), Min({block.cols, shape.cols - c})),
                          gt |-> [gt EXCEPT !.x = @ + c * gt.w, !.y = @ + r * gt.h]]
    IN  [i \in 1..(Len(rs) * Len(cs)) |-> region(i)]

-----------------------------------------------------------------------------
(* Sources and datasets. A file is [rows, cols, bands, epsg, gt].           *)

\* DataSource::validate; GDAL's virtual paths are looked at when opened.
validate(fs, source) ==
    CASE source.kind = "files" /\ (\E i \in DOMAIN source.paths : ~source.paths[i].vsi /\ fs[source.paths[i].name] = NoFile) -> Err("SourceNotFound")
      [] source.kind = "openeo" /\ source.backend_url = "" -> Err("InvalidBuilder")
      [] OTHER -> Ok(source)
local_paths(source) == IF source.kind = "files" THEN source.paths ELSE << >>

inspect_first_file(fs, path) == fs[path.name]
LayerMapping(source, t, l, b) == [source |-> source, time_pos |-> t, layer_pos |-> l, band |-> b]

\* The first file describes all; overrides replace what it says, not the blocks.
build(fs, source, block, overlap, imageSize) ==
    LET paths == local_paths(source)
        first == inspect_first_file(fs, paths[1])
    IN  IF Failed(validate(fs, source)) THEN validate(fs, source)
        ELSE IF paths = << >> THEN Err("InvalidBuilder")
        ELSE IF first = NoFile THEN Err("Gdal")
        ELSE [shape |-> [times |-> Len(paths), layers |-> first.bands,
                         rows |-> IF imageSize = Nothing THEN first.rows ELSE imageSize[1],
                         cols |-> IF imageSize = Nothing THEN first.cols ELSE imageSize[2]],
              epsg |-> first.epsg, gt |-> first.gt,
              blocks |-> partition_blocks(first, block, overlap, first.gt),
              mappings |-> [i \in DOMAIN paths |-> LayerMapping(paths[i], i - 1, 0, 1)],
              files |-> paths]

layer_mappings_for_scene(fs, path, t) ==
    IF fs[path.name] = NoFile THEN Err("Gdal")
    ELSE IF fs[path.name].bands = 0 THEN Err("InconsistentMetadata")
    ELSE Ok([b \in 1..fs[path.name].bands |-> LayerMapping(path, t, b - 1, b)])
layer_mappings_for_scenes(fs, paths) ==
    LET per == [t \in DOMAIN paths |-> layer_mappings_for_scene(fs, paths[t], t - 1)]
        bad == SelectSeq([t \in DOMAIN paths |-> t], LAMBDA t : Failed(per[t]) \/ (~Failed(per[1]) /\ Len(per[t].ok) # Len(per[1].ok)))
    IN  IF bad = << >> THEN Ok(FlattenSeq([t \in DOMAIN per |-> per[t].ok]))
        ELSE IF Failed(per[bad[1]]) THEN per[bad[1]] ELSE Err("InconsistentMetadata")

\* extend joins along time, stack along layers; both keep the blocks of the first.
check_spatial_alignment(a, b) == a.shape.rows = b.shape.rows /\ a.shape.cols = b.shape.cols /\ a.epsg = b.epsg
extend(a, b) ==
    IF ~check_spatial_alignment(a, b) \/ a.shape.layers # b.shape.layers THEN Err("InconsistentMetadata")
    ELSE [a EXCEPT !.shape.times = @ + b.shape.times, !.files = @ \o b.files,
                   !.mappings = @ \o [i \in DOMAIN b.mappings |-> [b.mappings[i] EXCEPT !.time_pos = @ + a.shape.times]]]
stack(a, b) ==
    IF ~check_spatial_alignment(a, b) \/ a.shape.times # b.shape.times THEN Err("InconsistentMetadata")
    ELSE [a EXCEPT !.shape.layers = @ + b.shape.layers, !.files = @ \o b.files,
                   !.mappings = @ \o [i \in DOMAIN b.mappings |-> [b.mappings[i] EXCEPT !.layer_pos = @ + a.shape.layers]]]

\* What (time, layer) of the tensor read_block fills from: the last mapping wins,
\* an unmapped layer stays zero, a mapping outside the shape is an error.
Tensor(rds) ==
    LET slot(m) == <<m.time_pos, m.layer_pos>>
        last(s) == Max({i \in DOMAIN rds.mappings : slot(rds.mappings[i]) = s})
    IN  IF \E i \in DOMAIN rds.mappings : rds.mappings[i].time_pos >= rds.shape.times \/ rds.mappings[i].layer_pos >= rds.shape.layers
        THEN Err("InconsistentMetadata")
        ELSE Ok([s \in (0..(rds.shape.times - 1)) \X (0..(rds.shape.layers - 1)) |->
                IF \E i \in DOMAIN rds.mappings : slot(rds.mappings[i]) = s
                THEN [source |-> rds.mappings[last(s)].source, band |-> rds.mappings[last(s)].band] ELSE Nothing])
\* read_block_layer_idx: one layer of it.
read_block_layer_idx(rds, block, layer) ==
    LET t == Tensor([rds EXCEPT !.mappings = SelectSeq(@, LAMBDA m : m.layer_pos = layer)])
    IN  IF layer >= rds.shape.layers \/ block >= Len(rds.blocks) THEN Err("range")
        ELSE IF Failed(t) THEN t ELSE Ok([k \in 0..(rds.shape.times - 1) |-> t.ok[<<k, layer>>]])

-----------------------------------------------------------------------------
(* Point lookups.                                                          *)

geo_to_pixel(x, y, gt) == <<(gt.y - y) \div (IF gt.h < 0 THEN -gt.h ELSE gt.h), (x - gt.x) \div gt.w>>
InExtent(rds, p) == p[1] \in 0..(rds.shape.rows - 1) /\ p[2] \in 0..(rds.shape.cols - 1)
\* The first layer of the first time step, or nothing.
sample_at_point(rds, x, y) ==
    LET p == geo_to_pixel(x, y, rds.gt)
        m == SelectSeq(rds.mappings, LAMBDA k : k.time_pos = 0 /\ k.layer_pos = 0)
    IN  IF ~InExtent(rds, p) \/ m = << >> THEN Nothing ELSE <<m[1].source, m[1].band, p>>
\* The process over them: each point, in order, with the raster reduced to its first band.
eval_aggregate_spatial_point(rds, points) ==
    LET one == [rds EXCEPT !.shape.times = 1, !.shape.layers = 1, !.mappings = <<LayerMapping(rds.files[1], 0, 0, 1)>>]
    IN  IF \E i \in DOMAIN points : Len(points[i]) # 2 THEN Err("InvalidGraph")
        ELSE Ok([i \in DOMAIN points |-> sample_at_point(one, points[i][1], points[i][2])])
\* zonal_histogram: how often each value occurs where the mask is set. Blocks are
\* paired by number and their pixels one after the other, row by row.
Flat(block, px) ==
    LET w == block.window IN [i \in 1..(w.rows * w.cols) |-> px[<<w.row + ((i - 1) \div w.cols), w.col + ((i - 1) % w.cols)>>]]
zonal_histogram(data, px, mask, zones) ==
    LET hits(v) == {h \in (DOMAIN data.blocks) \X (1..(data.shape.rows * data.shape.cols)) :
                      LET d == Flat(data.blocks[h[1]], px)
                          m == Flat(mask.blocks[h[1]], zones)
                      IN  h[2] <= Min({Len(d), Len(m)}) /\ m[h[2]] # 0 /\ d[h[2]] = v}
    IN  IF Len(data.blocks) # Len(mask.blocks) THEN Err("InconsistentMetadata")
        ELSE Ok([v \in {px[p] : p \in DOMAIN px} |-> Cardinality(hits(v))])
\* The process: zones nobody counted are left out, the rest is added up.
eval_zonal_histogram(data, px, mask, zones) ==
    LET h == zonal_histogram(data, px, mask, zones)
        seen == {v \in DOMAIN h.ok : h.ok[v] > 0}
    IN  IF Failed(h) THEN Err("Backend")
        ELSE Ok([histogram |-> [v \in seen |-> h.ok[v]], total |-> FoldSet(LAMBDA v, n : n + h.ok[v], 0, seen)])
block_id_rowcol(rds, row, col) ==
    LET hit == SelectSeq(rds.blocks, LAMBDA b : <<row, col>> \in PixelsOf(b.window))
    IN  IF hit = << >> THEN Nothing ELSE <<hit[1].index, row - hit[1].window.row, col - hit[1].window.col>>
pixel_to_crs(gt, col, row) == <<gt.x + col * gt.w, gt.y + row * gt.h>>
get_class(v, thresholds) ==
    LET above == SelectSeq([i \in DOMAIN thresholds |-> i], LAMBDA i : v < thresholds[i])
    IN  IF above = << >> THEN Len(thresholds) ELSE above[1] - 1
argmax(xs) == (CHOOSE i \in DOMAIN xs : /\ \A j \in DOMAIN xs : xs[j] <= xs[i]
                                        /\ \A j \in 1..(i - 1) : xs[j] < xs[i]) - 1

-----------------------------------------------------------------------------
(* The chunk planner.                                                      *)

bytes_per_pixel_overhead(op) == CASE op = "pixelwise" -> 8 [] op = "reduction" -> 16 [] op = "window" -> 32
Clamp3(x, lo, hi) == Max({lo, Min({x, hi})})
isqrt(n) == Max({k \in 0..MAX_BLOCK : k * k <= n})
PerPixel(input, op) ==
    input.bytes_per_pixel + bytes_per_pixel_overhead(op) * Max({input.bands, 1}) * Max({input.times, 1})
plan(input, op, nThreads, budget) ==
    LET threads == Max({nThreads, 1})
        perPixel == PerPixel(input, op)
        perThread == budget \div threads
        target == Clamp3(isqrt(Min({Max({perThread \div perPixel, 1}), MAX_BLOCK * MAX_BLOCK})), MIN_BLOCK, MAX_BLOCK)
        snapped == IF input.cog >= MIN_BLOCK /\ input.cog <= target THEN (target \div input.cog) * input.cog ELSE target
        block == Min({Clamp3(snapped, MIN_BLOCK, MAX_BLOCK), Max({input.rows, MIN_BLOCK}), Max({input.cols, MIN_BLOCK})})
    IN  IF perThread < MIN_BLOCK * MIN_BLOCK * perPixel THEN Err("BudgetTooSmall")
        ELSE [block |-> block, threads |-> threads, peak |-> block * block * perPixel * threads]

-----------------------------------------------------------------------------
(* Typed cubes and their alignment. Resolutions are positive whole numbers; *)
(* 1000 * offset mod pixel is compared with the resolution, as in the code. *)

\* A band is given by the words its name contains, in small letters.
MaskWords == {"scl", "qa", "mask", "class"}
suggest_method_for_band_names(cube) ==
    IF \E i \in DOMAIN cube.bands : cube.bands[i] \cap MaskWords # {} THEN "NearestNeighbor" ELSE "Bilinear"
\* The offset, in pixels, is compared with a tolerance in units of the grid.
grids_snap(a, b, res) ==
    LET off(d) == 1000 * (d % res)                 \* thousandths of a pixel, times res
        near(d) == off(d) < res * res \/ 1000 * res - off(d) < res * res
        abs(d) == IF d < 0 THEN -d ELSE d
    IN  near(abs(a.x - b.x)) /\ near(abs(a.y - b.y))
align(lhs, rhs) ==
    IF lhs.crs # rhs.crs THEN Err("CrsMismatch")
    ELSE IF lhs.res # rhs.res THEN [method |-> suggest_method_for_band_names(rhs), target |-> lhs.res]
    ELSE IF ~grids_snap(lhs.origin, rhs.origin, lhs.res) THEN Err("GridNotSnapped")
    ELSE [method |-> "Aligned", target |-> lhs.res]

-----------------------------------------------------------------------------
(* Questions and what their answers must satisfy.                          *)

GridAnswer(q) ==
    CASE q.op = "grid" -> <<enumerate_blocks(q.shape, q.block), partition_blocks(q.shape, q.block, Overlap(q.overlap), q.gt)>>
      [] q.op = "dataset" -> build(q.fs, q.source, q.block, Overlap(0), q.image)
      [] q.op = "join" -> LET a == build(q.fs, q.a, q.block, Overlap(0), Nothing)
                              b == build(q.fs, q.b, q.block, Overlap(0), Nothing)
                          IN  <<a, b, IF Failed(a) \/ Failed(b) THEN Err("build") ELSE IF q.time THEN extend(a, b) ELSE stack(a, b)>>
      [] q.op = "scenes" -> layer_mappings_for_scenes(q.fs, q.paths)
      [] q.op = "plan" -> plan(q.input, q.pid, q.threads, q.budget)
      [] q.op = "align" -> align(q.lhs, q.rhs)
      [] q.op = "points" -> eval_aggregate_spatial_point(build(q.fs, q.source, q.block, Overlap(0), Nothing), q.points)
      [] q.op = "histogram" -> eval_zonal_histogram(build(q.fs, q.data, q.block, Overlap(0), Nothing), q.px,
                                                  build(q.fs, q.mask, q.block, Overlap(0), Nothing), q.zones)
      [] q.op = "class" -> <<get_class(q.v, q.thresholds), argmax(q.thresholds)>>

\* Every pixel of the raster is in exactly one block.
Tiles(windows, shape) ==
    \A p \in (0..(shape.rows - 1)) \X (0..(shape.cols - 1)) :
        Cardinality({i \in DOMAIN windows : p \in PixelsOf(windows[i])}) = 1
\* A georeferenced pixel is found again, in the block that holds it.
FoundAgain(rds) ==
    \A row \in 0..(rds.shape.rows - 1), col \in 0..(rds.shape.cols - 1) :
        LET at == pixel_to_crs(rds.gt, col, row)
            b == block_id_rowcol(rds, row, col)
            gt == rds.blocks[b[1] + 1].gt
        IN  /\ geo_to_pixel(at[1], at[2] - 1, rds.gt) = <<row, col>>
            /\ sample_at_point(rds, at[1], at[2] - 1)[3] = <<row, col>>
            /\ pixel_to_crs(gt, b[3], b[2]) = at
JoinKeeps(a, b, joined, time) ==
    LET shift(s) == IF time THEN <<s[1] - a.shape.times, s[2]>> ELSE <<s[1], s[2] - a.shape.layers>>
    IN  \A s \in DOMAIN Tensor(joined).ok :
            /\ Tensor(joined).ok[s] = IF s \in DOMAIN Tensor(a).ok THEN Tensor(a).ok[s] ELSE Tensor(b).ok[shift(s)]
            /\ read_block_layer_idx(joined, 0, s[2]).ok[s[1]] = Tensor(joined).ok[s]
\* Of rasters with one grid, a histogram counts each pixel of a zone once, under
\* its value (its documentation says under its zone).
CountsOnce(q, r) ==
    DOMAIN q.px = DOMAIN q.zones =>
        /\ ~Failed(r)
        /\ r.ok.total = Cardinality({p \in DOMAIN q.px : q.zones[p] # 0})
        /\ \A v \in DOMAIN r.ok.histogram : r.ok.histogram[v] = Cardinality({p \in DOMAIN q.px : q.px[p] = v /\ q.zones[p] # 0})
\* The two grids share their lines.
OneGrid(a, b) == \A d \in {a.origin.x - b.origin.x, a.origin.y - b.origin.y} : d % a.res = 0
\* Cubes found aligned share one grid, and those not snapped do not; where a
\* tolerance of a thousandth of the resolution, taken in pixels, is a unit or
\* more (res * res >= 1000), an offset may pass as well.
Aligns(q, r) ==
    /\ Failed(r) <=> Failed(align(q.rhs, q.lhs))
    /\ r = Err("GridNotSnapped") => ~OneGrid(q.lhs, q.rhs)
    /\ ~Failed(r) =>
        /\ r.target = q.lhs.res
        /\ r.method = "Aligned" => q.lhs.res = q.rhs.res /\ (OneGrid(q.lhs, q.rhs) \/ q.lhs.res * q.lhs.res >= 1000)
GridExact(q, r) ==
    CASE q.op = "grid" ->
            /\ Tiles(r[1], q.shape)
            /\ [i \in DOMAIN r[2] |-> r[2][i].window] = r[1]
            /\ \A i \in DOMAIN r[2] : r[2][i].index = i - 1
      [] q.op = "dataset" -> IF Failed(r) THEN r.error = "SourceNotFound" => q.source.kind = "files"
                             ELSE q.image # Nothing \/ FoundAgain(r)
      [] q.op = "join" -> (~Failed(r[3]) /\ ~Failed(Tensor(r[1])) /\ ~Failed(Tensor(r[2]))) => JoinKeeps(r[1], r[2], r[3], q.time)
      [] q.op = "scenes" -> ~Failed(r) => \A i, j \in DOMAIN r.ok :
            (r.ok[i].time_pos = r.ok[j].time_pos /\ r.ok[i].layer_pos = r.ok[j].layer_pos) => i = j
      [] q.op = "plan" -> ~Failed(r) => /\ r.peak <= q.budget
                                        /\ r.block \in MIN_BLOCK..MAX_BLOCK
      [] q.op = "align" -> Aligns(q, r)
      [] q.op = "points" -> ~Failed(r) => /\ Len(r.ok) = Len(q.points)
                                          /\ \A i, j \in DOMAIN q.points : q.points[i] = q.points[j] => r.ok[i] = r.ok[j]
      [] q.op = "histogram" -> CountsOnce(q, r)
      [] q.op = "class" -> /\ \A j \in DOMAIN q.thresholds : q.thresholds[j] <= q.thresholds[r[2] + 1]
                           /\ \A j \in 1..r[1] : q.v >= q.thresholds[j]
=============================================================================
