---------------------------- MODULE WindowDownload ----------------------------
(***************************************************************************)
(* How one asset window reaches a local file: the downloaders of           *)
(* geo_executor/download.rs over orbit-geo's in-process GDAL path          *)
(* (providers.rs) and its streaming path (async_download.rs), with the     *)
(* process-wide pool of S3 clients that concurrent downloads share.        *)
(*                                                                         *)
(* Coordinates are integers in thousandths, so that the 0.001-pixel        *)
(* tolerance of the window arithmetic is exact.  A pixel of a source holds *)
(* its own position, so that a misplaced one shows.  PROJ and OSR are      *)
(* external: a CRS is an EPSG code and `Offset' places its axes.           *)
(***************************************************************************)
EXTENDS Integers, FiniteSets

CONSTANTS
    Loads,      \* download tasks
    Requests,   \* [downloader, src, crop, crop_crs, hint, cog]
    Offset      \* EPSG code -> where its origin lies

NoCode == 0
NoCrop == [kind |-> "no crop"]

\* A source is a grid of square pixels; where it has an EPSG code, that is its CRS.
IsCog(cog) ==
    /\ cog.scale \in Nat \ {0} /\ {cog.tie.i, cog.tie.j, cog.tie.x, cog.tie.y} \subseteq Int
    /\ {cog.cols, cog.rows, cog.tile_w, cog.tile_h} \subseteq Nat
    /\ cog.crs \in DOMAIN Offset \ {NoCode} /\ cog.epsg \in {NoCode, cog.crs}
IsRequest(r) ==
    /\ IsCog(r.cog)
    /\ r.crop_crs.kind \in {"none", "epsg", "wkt", "unsafe"}
    /\ r.crop_crs.kind \in {"epsg", "wkt"} => r.crop_crs.code \in DOMAIN Offset
    /\ r.crop = NoCrop \/ {r.crop.min_x, r.crop.max_x, r.crop.min_y, r.crop.max_y} \subseteq Int
ASSUME DownloadAssumption ==
    (\A e \in DOMAIN Offset : Offset[e] \in Int) /\ \A r \in Requests : IsRequest(r)

VARIABLES
    req,        \* per task: what it downloads
    at,         \* per task: the step it is at
    client,     \* per task: the object store it reads through
    pool,       \* S3_POOL_CACHE: <<bucket, region>> -> client
    file        \* per task: what it wrote, or Nothing

downloadVars == <<req, at, client, pool, file>>

Nothing == [kind |-> "nothing"]
\* Fills of a pixel outside the source; a source pixel is <<column, row>>.
Zero == << >>
NoData == <<0>>
NoClient == [kind |-> "no client"]
u16_MAX == 65535

Larger(a, b) == IF a >= b THEN a ELSE b
Smaller(a, b) == IF a <= b THEN a ELSE b
FloorDiv(a, b) == IF b > 0 THEN a \div b ELSE (-a) \div (-b)
CeilDiv(a, b) == -FloorDiv(-a, b)

-----------------------------------------------------------------------------
(* Sources.                                                                *)

\* A source URL is its form and, for S3, its bucket and region ("" where the
\* URL names none).
AwsForms == {"virtual", "virtual_dash", "path_style", "path_dash"}
parse_source(src) ==
    CASE src.form = "s3" -> [kind |-> "S3", key |-> <<src.bucket, "us-west-2">>]
      [] src.form \in AwsForms -> [kind |-> "S3", key |-> <<src.bucket, src.region>>]
      [] src.form \in {"local", "file"} -> [kind |-> "Local"]
      [] OTHER -> [kind |-> "Err"]

\* The path GDAL opens: only the two GDAL downloaders rewrite it.
vsi_rewrite(src) ==
    CASE src.form = "s3" -> "vsis3"
      [] src.form = "gs" -> "vsigs"
      [] src.form \in AwsForms \cup {"https"} -> "vsicurl"
      [] OTHER -> "plain"


-----------------------------------------------------------------------------
(* Windows.                                                                *)

\* A bounding box in another CRS (PROJ, OSR: external).
transform_bounds(c, from, to) ==
    LET d == Offset[from] - Offset[to]
    IN  [kind |-> "crop", min_x |-> c.min_x + d, max_x |-> c.max_x + d,
         min_y |-> c.min_y + d, max_y |-> c.max_y + d]

\* Pixel <<i, j>> of the tie point lies at <<x, y>>.
ifd_geo_transform(cog) ==
    [origin_x |-> cog.tie.x - cog.tie.i * cog.scale, pix_w |-> cog.scale,
     origin_y |-> cog.tie.y + cog.tie.j * cog.scale, pix_h |-> -cog.scale]

\* GDAL's projwin rule: floor(+0.001) for the offset, ceil(-0.001) for the size.
native_crs_pixel_window(c, gt) ==
    LET Off(u, o, p) == FloorDiv(1000 * (u - o) + p, 1000 * p)
        Size(l, o, p, off) == CeilDiv(1000 * (l - o - off * p) - p, 1000 * p)
        col == Off(c.min_x, gt.origin_x, gt.pix_w)
        row == Off(c.max_y, gt.origin_y, gt.pix_h)
    IN  [col_off |-> col, row_off |-> row,
         cols |-> Size(c.max_x, gt.origin_x, gt.pix_w, col),
         rows |-> Size(c.min_y, gt.origin_y, gt.pix_h, row)]
Degenerate(w) == w.cols < 1 \/ w.rows < 1

\* The part of the window the source has, as half-open pixel ranges.
ReadRange(off, n, total) == [start |-> Larger(off, 0), end |-> Smaller(Larger(off + n, 0), total)]
Read(w, cog) == [col |-> ReadRange(w.col_off, w.cols, cog.cols),
                 row |-> ReadRange(w.row_off, w.rows, cog.rows)]
Pixels(range) == range.start..(range.end - 1)

\* What a write leaves: the window's place and every pixel of it.
Raster(w, gt, srs, px) ==
    [kind |-> "raster", srs |-> srs, cols |-> w.cols, rows |-> w.rows,
     left |-> gt.origin_x + w.col_off * gt.pix_w, top |-> gt.origin_y + w.row_off * gt.pix_h,
     px |-> px]
Cells(w) == (0..(w.cols - 1)) \X (0..(w.rows - 1))

-----------------------------------------------------------------------------
(* The in-process path.                                                    *)

\* The read part lands where the window puts it, the rest is the fill.
copy_window_typed(w, cog) ==
    LET fill == IF cog.nodata THEN NoData ELSE Zero
        r == Read(w, cog)
        toCol == r.col.start - w.col_off
        toRow == r.row.start - w.row_off
    IN  [p \in Cells(w) |->
            LET c == p[1] - toCol + r.col.start
                l == p[2] - toRow + r.row.start
            IN  IF c \in Pixels(r.col) /\ l \in Pixels(r.row) THEN <<c, l>> ELSE fill]

\* path is what GDAL is asked to open; a bucket URL nobody rewrote is no path.
\* The source's own CRS is used when the spec of the crop's is unsafe.
download_in_process_with_crs(path, src, cog, crop, crs) ==
    LET gt == ifd_geo_transform(cog)
        work == IF crs.kind \in {"epsg", "wkt"} THEN crs.code ELSE cog.crs
        w == IF crop = NoCrop
             THEN [col_off |-> 0, row_off |-> 0, cols |-> cog.cols, rows |-> cog.rows]
             ELSE native_crs_pixel_window(transform_bounds(crop, work, cog.crs), gt)
        overlaps == /\ w.col_off + w.cols > 0 /\ w.col_off < cog.cols
                    /\ w.row_off + w.rows > 0 /\ w.row_off < cog.rows
    IN  IF \/ path = "plain" /\ src.form \in {"s3", "gs"}
           \/ Degenerate(w) \/ ~overlaps \/ ~cog.dtype_ok
        THEN Nothing
        ELSE Raster(w, gt, cog.crs, copy_window_typed(w, cog))

-----------------------------------------------------------------------------
(* The streaming path.                                                     *)

Decision(k, e) == [kind |-> k, src_epsg |-> e]
\* How the crop's CRS relates to the source's, before the file is open ...
classify_reproject_from_hint(epsg, crs) ==
    CASE crs.kind = "none" -> Decision("None", NoCode)
      [] crs.kind = "epsg" -> IF crs.code = epsg THEN Decision("None", NoCode)
                              ELSE Decision("EpsgToEpsg", epsg)
      [] OTHER -> Decision("Fallback", NoCode)
\* ... and from the codes of the file, which may have none.
reproject_decision(cog, crs) ==
    CASE crs.kind = "none" -> Decision("None", NoCode)
      [] crs.kind = "epsg" -> IF cog.epsg = NoCode THEN Decision("Fallback", NoCode)
                              ELSE IF crs.code = cog.epsg THEN Decision("None", NoCode)
                              ELSE Decision("EpsgToEpsg", cog.epsg)
      [] OTHER -> Decision("Fallback", NoCode)

HintDecision(r) ==
    IF r.hint # NoCode /\ r.hint <= u16_MAX
    THEN classify_reproject_from_hint(r.hint, r.crop_crs)
    ELSE Decision("no hint", NoCode)

\* Tiles that cover a half-open pixel range, as a half-open range.
\* Faulty variant: it forgets the tile the last pixel is in.
tile_range_short(r, size) ==
    IF r.end <= r.start \/ size = 0 THEN {} ELSE (r.start \div size)..((r.end - 1) \div size - 1)
tile_range(r, size) ==
    IF r.end <= r.start \/ size = 0 THEN {} ELSE (r.start \div size)..((r.end - 1) \div size)

\* The cells of the output a tile fills: its pixels inside the read window.
\* A tile holds tile_w by tile_h pixels, those past the source's edge too.
place_tile(t, w, cog) ==
    LET r == Read(w, cog)
        Copied(n, size, range) == Larger(n * size, range.start)..
                                  (Smaller((n + 1) * size, range.end) - 1)
    IN  {<<c - w.col_off, l - w.row_off>> :
            c \in Copied(t[1], cog.tile_w, r.col), l \in Copied(t[2], cog.tile_h, r.row)}

\* The tiles one after the other over a buffer of zeros.
stitch_and_write(w, cog, tiles) ==
    LET gt == ifd_geo_transform(cog)
        px == [p \in Cells(w) |->
                 IF \E t \in tiles : p \in place_tile(t, w, cog)
                 THEN <<p[1] + w.col_off, p[2] + w.row_off>> ELSE Zero]
    IN  Raster(w, gt, "unset", px)

\* A band of several, a layout in strips and a foreign CRS go to the in-process
\* path; a window without a tile is an error.
fetch_and_stitch_then_write(r, w) ==
    LET cog == r.cog
        gt == ifd_geo_transform(cog)
        native == [kind |-> "crop", min_x |-> gt.origin_x + w.col_off * gt.pix_w,
                   max_y |-> gt.origin_y + w.row_off * gt.pix_h,
                   max_x |-> gt.origin_x + (w.col_off + w.cols) * gt.pix_w,
                   min_y |-> gt.origin_y + (w.row_off + w.rows) * gt.pix_h]
        tiles == tile_range(Read(w, cog).col, cog.tile_w) \X tile_range(Read(w, cog).row, cog.tile_h)
    IN  IF cog.samples # 1
        THEN download_in_process_with_crs("plain", r.src, cog, native, [kind |-> "none"])
        ELSE IF tiles = {} \/ ~cog.dtype_ok THEN Nothing
        ELSE stitch_and_write(w, cog, tiles)

\* After the file is open: the window in the source's CRS.  A box that was
\* projected with the hint's code is used whatever the file says.
AfterOpen(r) ==
    LET cog == r.cog
        gt == ifd_geo_transform(cog)
        hinted == HintDecision(r)
        found == reproject_decision(cog, r.crop_crs)
        code == IF hinted.kind = "EpsgToEpsg" THEN hinted.src_epsg ELSE found.src_epsg
        projected == r.crop # NoCrop /\ (hinted.kind = "EpsgToEpsg" \/ found.kind = "EpsgToEpsg")
        crop == IF projected THEN transform_bounds(r.crop, r.crop_crs.code, code) ELSE r.crop
        crs == IF projected THEN [kind |-> "epsg", code |-> code] ELSE r.crop_crs
        w == IF crop = NoCrop
             THEN [col_off |-> 0, row_off |-> 0, cols |-> cog.cols, rows |-> cog.rows]
             ELSE native_crs_pixel_window(crop, gt)
    IN  IF ~projected /\ found.kind = "Fallback"
        THEN download_in_process_with_crs("plain", r.src, cog, r.crop, r.crop_crs)
        ELSE IF cog.tile_w = 0
        THEN download_in_process_with_crs("plain", r.src, cog, crop, crs)
        ELSE IF Degenerate(w) THEN Nothing
        ELSE fetch_and_stitch_then_write(r, w)

-----------------------------------------------------------------------------
(* Tasks.                                                                  *)

DownloadInit ==
    /\ req \in [Loads -> Requests]
    /\ at = [t \in Loads |-> "start"]
    /\ client = [t \in Loads |-> NoClient]
    /\ pool = [k \in {} |-> NoClient]
    /\ file = [t \in Loads |-> Nothing]

Move(t, from, to) == at[t] = from /\ at' = [at EXCEPT ![t] = to]
End(t, from, result) == Move(t, from, "done") /\ file' = [file EXCEPT ![t] = result]
Fail(t) == End(t, at[t], Nothing) /\ UNCHANGED <<req, client, pool>>

\* gdal_translate is run on the rewritten path; it fills like the in-process
\* path and keeps a window outside the source (GDAL: external).
download_via_gdal_translate_with_crs(t) ==
    LET r == req[t]
        gt == ifd_geo_transform(r.cog)
        work == IF r.crop_crs.kind \in {"epsg", "wkt"} THEN r.crop_crs.code ELSE r.cog.crs
        w == native_crs_pixel_window(transform_bounds(r.crop, work, r.cog.crs), gt)
    IN  /\ r.downloader = "gdal_translate" /\ r.crop # NoCrop
        /\ End(t, "start", IF Degenerate(w) THEN Nothing
                           ELSE Raster(w, gt, r.cog.crs, copy_window_typed(w, r.cog)))
        /\ UNCHANGED <<req, client, pool>>

InProcessGdalDownloader(t) ==
    /\ req[t].downloader = "in_process"
    /\ End(t, "start", download_in_process_with_crs(vsi_rewrite(req[t].src), req[t].src,
                          req[t].cog, req[t].crop, req[t].crop_crs))
    /\ UNCHANGED <<req, client, pool>>

\* The streaming downloader leaves sources it does not know, and crops whose
\* CRS the hint rules out, to GDAL; it opens local files directly.
download_via_async_tiff(t) ==
    LET r == req[t]
        parsed == parse_source(r.src)
    IN  /\ r.downloader = "async_tiff"
        /\ \/ /\ parsed.kind = "Err" \/ HintDecision(r).kind = "Fallback"
              /\ End(t, "start", download_in_process_with_crs("plain", r.src, r.cog, r.crop, r.crop_crs))
              /\ UNCHANGED client
           \/ /\ parsed.kind # "Err" /\ HintDecision(r).kind # "Fallback"
              /\ Move(t, "start", IF parsed.kind = "S3" THEN "lookup" ELSE "open")
              /\ client' = [client EXCEPT ![t] = IF parsed.kind = "S3" THEN @ ELSE [kind |-> "local"]]
              /\ UNCHANGED file
        /\ UNCHANGED <<req, pool>>

\* shared_s3_for: look under the read lock ...
shared_s3_lookup(t) ==
    LET k == parse_source(req[t].src).key
    IN  /\ Move(t, "lookup", IF k \in DOMAIN pool THEN "open" ELSE "build")
        /\ client' = [client EXCEPT ![t] = IF k \in DOMAIN pool THEN pool[k] ELSE NoClient]
        /\ UNCHANGED <<req, pool, file>>

\* ... build a client without a lock ...
shared_s3_build(t) ==
    /\ Move(t, "build", "insert")
    /\ client' = [client EXCEPT ![t] = [kind |-> "s3", by |-> t]]
    /\ UNCHANGED <<req, pool, file>>

\* ... and enter it, unless another task was first: then that one is used.
\* Faulty variant: the last writer wins.
shared_s3_insert_last(t) ==
    LET k == parse_source(req[t].src).key
    IN  /\ Move(t, "insert", "open")
        /\ pool' = [x \in DOMAIN pool \cup {k} |-> IF x = k THEN client[t] ELSE pool[x]]
        /\ UNCHANGED <<req, client, file>>
shared_s3_insert(t) ==
    LET k == parse_source(req[t].src).key
    IN  /\ Move(t, "insert", "open")
        /\ pool' = [x \in DOMAIN pool \cup {k} |-> IF x \in DOMAIN pool THEN pool[x] ELSE client[t]]
        /\ client' = [client EXCEPT ![t] = pool'[k]]
        /\ UNCHANGED <<req, file>>

\* The metadata is read, in parallel with the projection the hint allows.
open_async_inner(t) ==
    /\ Move(t, "open", "fetch")
    /\ UNCHANGED <<req, client, pool, file>>

\* The tiles are fetched and stitched.
fetch_tiles(t) ==
    /\ End(t, "fetch", AfterOpen(req[t]))
    /\ UNCHANGED <<req, client, pool>>

\* The client cannot be built, or a request fails after its retries.
download_failed(t) == at[t] \in {"build", "open", "fetch"} /\ Fail(t)

DownloadNext ==
    \E t \in Loads :
        \/ download_via_gdal_translate_with_crs(t)
        \/ InProcessGdalDownloader(t)
        \/ download_via_async_tiff(t)
        \/ shared_s3_lookup(t) \/ shared_s3_build(t) \/ shared_s3_insert(t)
        \/ open_async_inner(t) \/ fetch_tiles(t)
        \/ download_failed(t)
DownloadSpec == DownloadInit /\ [][DownloadNext]_downloadVars

-----------------------------------------------------------------------------

\* The cells of a grid with cells of width s that reach into from..to by more
\* than a thousandth of a cell; none lies outside the range it looks at.
Reaching(from, to, s) ==
    {c \in (from \div s)..(to \div s) : 1000 * ((c + 1) * s - from) > s /\ 1000 * (to - c * s) > s}

\* What a crop asks for, without rounding: the columns and rows of the source's
\* grid that reach into it, in the source's own CRS.
Shift(r) == IF r.crop_crs.kind \in {"epsg", "wkt"} THEN Offset[r.crop_crs.code] - Offset[r.cog.crs] ELSE 0
AskedCols(r) ==
    LET left == ifd_geo_transform(r.cog).origin_x - Shift(r)
    IN  Reaching(r.crop.min_x - left, r.crop.max_x - left, r.cog.scale)
AskedRows(r) ==
    LET top == ifd_geo_transform(r.cog).origin_y - Shift(r)
    IN  Reaching(top - r.crop.max_y, top - r.crop.min_y, r.cog.scale)

\* A hint of the catalog that contradicts the file.
HintIsWrong(r) == r.hint # NoCode /\ r.hint <= u16_MAX /\ r.hint # r.cog.crs

Meant(r, f) ==
    LET cols == AskedCols(r)
        rows == AskedRows(r)
        gt == ifd_geo_transform(r.cog)
        col(p) == p[1] + (f.left - gt.origin_x) \div r.cog.scale
        row(p) == p[2] + (gt.origin_y - f.top) \div r.cog.scale
    IN  /\ {col(p) : p \in DOMAIN f.px} = cols
        /\ {row(p) : p \in DOMAIN f.px} = rows
        /\ f.cols = Cardinality(cols) /\ f.rows = Cardinality(rows)
        /\ \A p \in DOMAIN f.px :
             IF col(p) \in 0..(r.cog.cols - 1) /\ row(p) \in 0..(r.cog.rows - 1)
             THEN f.px[p] = <<col(p), row(p)>>
             ELSE f.px[p] \in {Zero, NoData}

\* Whichever downloader, source layout, tiling and CRS: a file that was written
\* has exactly the asked window, each of its pixels is the source's pixel of
\* that place, and what lies outside the source holds no pixel of it.  The one
\* exception is a catalog hint that contradicts the file (download_via_async_tiff
\* and the GDAL fall-backs).  Which value fills the outside and which CRS the
\* file names is not claimed: the module's doc promises nodata padding and the
\* source's CRS, stitch_and_write starts from zeros and sets no CRS.
DownloadedIsTheWindow ==
    \A t \in Loads :
        at[t] = "done" /\ file[t] # Nothing /\ req[t].crop # NoCrop /\ ~HintIsWrong(req[t])
            => Meant(req[t], file[t])

\* The doc of BandMetadataHint: "Hint is advisory - IFD values always take
\* precedence when both are present".
HintIsAdvisory ==
    \A t \in Loads :
        at[t] = "done" /\ file[t] # Nothing /\ req[t].crop # NoCrop
            => Meant(req[t], file[t])

\* All downloads of a bucket go through one client, also those that met on an
\* empty pool and each built one: the first to insert wins, as the comment at the
\* insert says (shared_s3_for); the function's doc has the last one win, under
\* which two downloads would read through different clients.
OneClientPerBucket ==
    \A t, u \in Loads :
        LET Reads(x) == client[x].kind = "s3" /\ at[x] \in {"open", "fetch", "done"}
        IN  Reads(t) /\ Reads(u) /\ parse_source(req[t].src) = parse_source(req[u].src)
                => client[t] = client[u]
=============================================================================
