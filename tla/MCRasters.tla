------------------------------ MODULE MCRasters ------------------------------
(***************************************************************************)
(* The raster layer: questions about grids and pixels, one block-parallel  *)
(* call of a dataset, and one call of the block executor.                  *)
(***************************************************************************)
EXTENDS RasterRun, BlockExecutor, PixelRules

VARIABLES question, answer

vars == <<question, answer, rasterVars, execVars>>

GT == [x |-> 5, y |-> 40, w |-> 3, h |-> -3]
Shape(r, c) == [rows |-> r, cols |-> c]
File(r, c, b, e) == [rows |-> r, cols |-> c, bands |-> b, epsg |-> e, gt |-> GT]
P(n) == [name |-> n, vsi |-> FALSE]
MCFs == [a |-> File(3, 4, 2, 1), b |-> File(3, 4, 2, 1), c |-> File(3, 4, 1, 2), z |-> File(3, 4, 0, 1), gone |-> NoFile]
Files(s) == [kind |-> "files", paths |-> s]
Lists == {<< >>, <<P("a")>>, <<P("a"), P("b")>>, <<P("c")>>, <<P("a"), P("c")>>, <<P("gone")>>,
          <<[name |-> "gone", vsi |-> TRUE]>>, <<P("z")>>}
CubeOn(res, crs, x, bs) == [crs |-> crs, res |-> res, origin |-> [x |-> x, y |-> 0], bands |-> bs]
Places(r, c) == (0..(r - 1)) \X (0..(c - 1))
MCGridQuestions ==
    [op : {"grid"}, shape : {Shape(r, c) : r \in 1..5, c \in 1..5}, block : {Shape(r, c) : r \in 1..4, c \in 1..3}, overlap : {0}, gt : {GT}]
    \cup [op : {"dataset"}, fs : {MCFs}, block : {Shape(2, 3)}, image : {Nothing, <<2, 2>>},
          source : {Files(s) : s \in Lists} \cup {[kind |-> "openeo", backend_url |-> u] : u \in {"", "u"}}]
    \cup [op : {"join"}, fs : {MCFs}, a : {Files(s) : s \in Lists}, b : {Files(s) : s \in Lists}, block : {Shape(2, 3)}, time : BOOLEAN]
    \cup [op : {"scenes"}, fs : {MCFs}, paths : Lists]
    \cup [op : {"plan"}, input : [cog : {2, 5, 8}, rows : {1, 6, 40}, cols : {3, 30}, bands : {0, 2}, times : {1, 2}, bytes_per_pixel : {1, 4}],
          pid : {"pixelwise", "reduction", "window"}, threads : {0, 1, 3}, budget : {0, 200, 1000, 3000, 20000}]
    \cup [op : {"align"}, lhs : {CubeOn(r, c, x, <<{}>>) : r \in {1, 10, 600}, c \in {1, 2}, x \in {0, 5, 300}},
          rhs : {CubeOn(r, 1, x, bs) : r \in {1, 10, 600}, x \in {0, 10, 13}, bs \in {<<{}, {"scl"}>>, <<{}>>, <<{"class", "mask"}>>}}]
    \cup [op : {"points"}, fs : {MCFs}, source : {Files(<<P("a")>>)}, block : {Shape(2, 3)},
          points : {<< <<x, y>>, <<6, 39>>, <<x, y>> >> : x \in {4, 5, 16, 17}, y \in {28, 32, 40}} \cup {<< <<1>> >>}]
    \cup [op : {"histogram"}, fs : {MCFs @@ [w |-> File(2, 6, 1, 1)]}, data : {Files(<<P("a")>>)}, mask : {Files(<<P("b")>>)},
          block : {Shape(2, 3)}, px : {[p \in Places(3, 4) |-> (p[1] * p[2]) % 3]}, zones : {[p \in Places(3, 4) |-> IF p \in S THEN 1 ELSE 0] :
                      S \in SUBSET {<<0, 0>>, <<1, 2>>, <<1, 3>>, <<2, 1>>, <<2, 3>>}}]
    \cup [op : {"histogram"}, fs : {MCFs @@ [w |-> File(2, 6, 1, 1)]}, data : {Files(<<P("a")>>)}, mask : {Files(<<P("w")>>)},
          block : {Shape(2, 3)}, px : {[p \in Places(3, 4) |-> (p[1] * p[2]) % 3]}, zones : {[p \in Places(2, 6) |-> 1]}]
    \cup [op : {"class"}, v : 0..4, thresholds : {<<1, 3>>, <<2>>, <<1, 2, 2>>}]
MCPixelQuestions ==
    [op : {"landsat"}, v : 0..511] \cup [op : {"scl"}, v : 0..20]
    \cup [op : {"masking"}, data : {[p \in Places(2, 1) |-> p[1] + 4]},
          mask : [Places(2, 1) -> 0..3] \cup [Places(1, 1) -> 0..1] \cup [Places(2, 2) -> 0..1]]
    \cup [op : {"ndvi"}, scenes : UNION {[1..n -> [red : {0, 1, 3}, nir : {1, 2}, scl : {3, 4, 11}]] : n \in 0..2}]
    \cup [op : {"png"}, pixels : UNION {[1..n -> {NdviNA, NaN, Whole(-1), Q(1, 3), Whole(1), Whole(2)}] : n \in 1..3}]
    \cup [op : {"save"}, format : {"GTIFF", "COG", "JSON", "PNG", "NC", "ZARR"}, v : {Whole(-4), Q(7, 2), Whole(300)}]
AskedPixel(q) == q.op \in {"landsat", "scl", "masking", "ndvi", "png", "save"}

\* Calls over rasters in blocks of two by two; in blocks of three by three with
\* an overlap of one; and of datasets whose size was overridden.
On(r, c) == build([a |-> File(r, c, 1, 1)], Files(<<P("a")>>), Shape(2, 2), Overlap(0), Nothing)
Lapped(r, c) == build([a |-> File(r, c, 1, 1)], Files(<<P("a")>>), Shape(3, 3), Overlap(1), Nothing)
Sized(r, c, size) == build([a |-> File(r, c, 1, 1)], Files(<<P("a")>>), Shape(2, 2), Overlap(0), size)
Call(k, d, m, cog) == [kind |-> k, data |-> d, mask |-> m, cog |-> cog]
MCRasterJobs ==
    {Call("apply", On(3, 4), Nothing, TRUE), Call("apply_reduction", On(3, 4), Nothing, FALSE),
     Call("apply_with_mask", On(3, 4), On(3, 4), FALSE), Call("apply_reduction_with_mask", On(3, 4), On(5, 3), FALSE),
     Call("apply_reduction_with_mask", On(3, 4), On(4, 4), FALSE), Call("row_pixel_with_mask", On(3, 4), On(2, 2), TRUE),
     Call("apply_reduction", Lapped(5, 6), Nothing, FALSE), Call("apply_with_mask", Lapped(6, 6), Lapped(6, 6), TRUE),
     Call("apply_reduction", Sized(3, 4, <<2, 2>>), Nothing, FALSE), Call("apply", Sized(3, 4, <<4, 5>>), Nothing, FALSE),
     Call("apply", On(4, 6), Nothing, FALSE)}
\* What the builder makes: without an override the blocks cover the raster, and
\* rasters of one size have the same blocks.
ASSUME JobsAreCutAlike ==
    /\ JobsAreCut
    /\ \A r, c \in 1..6 : LET d == On(r, c) IN
            \A p \in PixelsIn(d) : \E i \in DOMAIN d.blocks : p \in PixelsOf(d.blocks[i].window)

RasterRunning == [op |-> "run"]
Executing == [op |-> "exec"]
Init ==
    /\ answer = << >>
    /\ \/ question \in MCGridQuestions \cup MCPixelQuestions /\ RasterIdle /\ ExecIdle
       \/ question = RasterRunning /\ RasterInit /\ ExecIdle
       \/ question = Executing /\ RasterIdle /\ ExecInit
ask ==
    /\ question.op \notin {"run", "exec"} /\ answer = << >>
    /\ answer' = <<IF AskedPixel(question) THEN PixelAnswer(question) ELSE GridAnswer(question)>>
    /\ UNCHANGED <<question, rasterVars, execVars>>
Next ==
    \/ ask
    \/ question = RasterRunning /\ RasterNext /\ UNCHANGED <<question, answer, execVars>>
    \/ question = Executing /\ ExecNext /\ UNCHANGED <<question, answer, rasterVars>>
Spec == Init /\ [][Next]_vars

\* Blocks cover a raster once; a joined dataset reads what its parts read; a
\* place is found again from its coordinates; a plan fits its budget; cubes called
\* aligned share one grid, up to a tolerance that only coarse grids feel; a
\* histogram counts each pixel of a zone once, under its value; the decoders never
\* keep cloud or shadow, and the mask workers agree wherever there is a mask.
RastersAreExact ==
    answer # << >> =>
        IF AskedPixel(question) THEN PixelsAreRight(question, answer[1]) ELSE GridExact(question, answer[1])
=============================================================================
