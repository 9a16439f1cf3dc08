----------------------------- MODULE MCDownloads -----------------------------
(***************************************************************************)
(* The way of an asset to the disk: window downloads through the shared    *)
(* S3 clients, the file cache, the tools that put files in place, and the  *)
(* results of a job at another openEO backend.  The parts share no state   *)
(* (the last two: no files) and are explored one at a time.                *)
(***************************************************************************)
EXTENDS FileCache, WindowDownload, OpenEoClient

VARIABLE part

vars == <<part, cacheVars, downloadVars, assetVars, clientVars>>

MCSizeOf == [u \in {"u1", "u2"} |-> IF u = "u1" THEN 1 ELSE 2]

MCOffset == [e \in {1, 2, 3, 70000} |-> CASE e = 1 -> 0 [] e = 2 -> 500 [] OTHER -> 2000]

\* A source of 3 by 2 pixels in tiles of 2 by 2, a narrow one in tiles of 1 by
\* 3, one in strips, one with two bands, one without EPSG code, one whose type
\* is not supported; the tie point is not the corner.
Cog(c, r, tw, th) ==
    [cols |-> c, rows |-> r, tile_w |-> tw, tile_h |-> th, samples |-> 1, epsg |-> 1, crs |-> 1,
     nodata |-> FALSE, dtype_ok |-> TRUE, scale |-> 1000,
     tie |-> [i |-> 1, j |-> 1, x |-> 1000, y |-> -1000]]
MCCogs == {Cog(3, 2, 2, 2), Cog(2, 4, 1, 3), Cog(3, 2, 0, 0),
           [Cog(3, 2, 2, 2) EXCEPT !.samples = 2, !.nodata = TRUE],
           [Cog(3, 2, 2, 2) EXCEPT !.epsg = NoCode],
           [Cog(3, 2, 2, 2) EXCEPT !.dtype_ok = FALSE]}
Box(x, y) == [kind |-> "crop", min_x |-> x[1], max_x |-> x[2], min_y |-> y[1], max_y |-> y[2]]
MCCols == {<<-1500, 1200>>, <<0, 3000>>, <<999, 2001>>, <<1002, 1998>>, <<2500, 9000>>, <<500, 501>>, <<5000, 6000>>, <<1000, 1000>>}
MCRows == {<<-2000, 0>>, <<-1999, 500>>, <<-6000, -999>>, <<-1001, -1>>, <<-1002, -998>>}
MCCrops == {Box(x, y) : x \in MCCols, y \in MCRows}
CrsNone == [kind |-> "none"]
Epsg(e) == [kind |-> "epsg", code |-> e]
Src(f, b, r) == [form |-> f, bucket |-> b, region |-> r]
Bucket == Src("virtual", "b1", "us-west-2")
Request(d, s, c, e, h, g) == [downloader |-> d, src |-> s, crop |-> c, crop_crs |-> e, hint |-> h, cog |-> g]
Plain == Request("async_tiff", Bucket, Box(<<0, 3000>>, <<-2000, 0>>), CrsNone, NoCode, Cog(3, 2, 2, 2))
MCRequests ==
    {Plain} \cup
    {Request(d, Bucket, c, Epsg(2), h, g) :
        d \in {"async_tiff"}, c \in MCCrops, h \in {NoCode, 1, 70000}, g \in MCCogs}
    \cup {Request(d, Src("https", "", ""), c, e, NoCode, Cog(3, 2, 2, 2)) :
        d \in {"in_process", "gdal_translate", "async_tiff"}, c \in MCCrops,
        e \in {CrsNone, Epsg(1), [kind |-> "wkt", code |-> 2], [kind |-> "unsafe"]}}
    \cup {Request("async_tiff", s, c, e, h, Cog(3, 2, 2, 2)) :
        s \in {Src(f, "b1", "r2") : f \in {"s3", "virtual_dash", "path_style", "local", "gs"}},
        c \in {Plain.crop, NoCrop}, e \in {CrsNone, Epsg(1), Epsg(2), [kind |-> "wkt", code |-> 2]}, h \in {NoCode, 1, 3}}
\* Only one task varies; the others load the plain request.
Varied == CHOOSE t \in Loads : TRUE

Init == /\ part \in {"cache", "download", "asset", "openeo"}
        /\ CacheInit
        /\ \E r \in IF part = "download" THEN MCRequests ELSE {Plain} :
             req = [t \in Loads |-> IF t = Varied THEN r ELSE Plain]
        /\ at = [t \in Loads |-> "start"]
        /\ client = [t \in Loads |-> NoClient]
        /\ pool = [k \in {} |-> NoClient]
        /\ file = [t \in Loads |-> Nothing]
        /\ ClientInit
        /\ IF part = "openeo" THEN IdleFiles ELSE AssetInit
        /\ part \notin {"asset", "openeo"} => order = [t \in Writers |-> [kind |-> "warp", dst |-> CHOOSE d \in Paths : TRUE]]
        /\ part # "cache" => \A t \in Tasks : url[t] = "u1"

Next ==
    \/ part = "cache" /\ CacheNext /\ UNCHANGED <<part, downloadVars, assetVars, clientVars>>
    \/ part = "download" /\ DownloadNext /\ UNCHANGED <<part, cacheVars, assetVars, clientVars>>
    \/ part = "asset" /\ AssetNext /\ UNCHANGED <<part, cacheVars, downloadVars, clientVars>>
    \/ part = "openeo" /\ ClientNext /\ UNCHANGED <<part, cacheVars, downloadVars>>
    \/ /\ \/ \A t \in Loads : at[t] = "done"
          \/ \A t \in Writers : stage[t] \in {"ok", "err", "dead"}
          \/ \A s \in Submitters : doing[s] \in {"done", "failed"} \/ stage[s] = "dead"
       /\ UNCHANGED vars

Spec == Init /\ [][Next]_vars
=============================================================================
