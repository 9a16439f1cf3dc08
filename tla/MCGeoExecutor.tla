---------------------------- MODULE MCGeoExecutor ----------------------------
(***************************************************************************)
(* Small instances of GeoExecutor: two evaluations, one or two scenes, the *)
(* graphs of the crate's documentation and tests with few bands.           *)
(***************************************************************************)
EXTENDS GeoExecutor

MCBands == {"B04", "B08", "B11", "SCL"}
MCBandOrder == <<"B04", "B08", "B11", "mask", "ndvi">>
MCResolution == [b \in MCBands |-> IF b \in {"B11", "SCL"} THEN 20 ELSE 10]
\* Two areas of interest of the same size: their windows have equal dimensions.
MCAoiGrid == [s \in {"aoi1", "aoi2"} |-> "256x256"]

Link(n) == [to |-> n, plain |-> TRUE]
Load(src, bands) ==
    [process |-> "load_collection", from |-> << >>, src |-> src, bands |-> bands]
Ndvi(n) == [process |-> "ndvi", from |-> <<Link(n)>>, target |-> "ndvi"]
Values(n) == [process |-> "mask_from_values", from |-> <<Link(n)>>,
              band |-> "SCL", target |-> "mask"]
Mask(n, m) == [process |-> "mask", from |-> <<Link(n), Link(m)>>]
MaskScl(n) == [process |-> "mask_scl_dilation", from |-> <<Link(n)>>]
Save(n, f) == [process |-> "save_result", from |-> <<Link(n)>>, format |-> f]

NdviOf(src) ==
    [nodes |-> [load |-> Load(src, {"B04", "B08"}), ndvi |-> Ndvi("load"),
                save |-> Save("ndvi", "GTiff")],
     result |-> {"save"}]
MaskedOf(src) ==
    [nodes |-> [load |-> Load(src, {"B11", "SCL"}), bin |-> Values("load"),
                mask |-> Mask("load", "bin"), save |-> Save("mask", "GTiff")],
     result |-> {"save"}]
SclMaskedOf(src, bands) ==
    [nodes |-> [load |-> Load(src, bands \cup {"SCL"}), scl |-> MaskScl("load"),
                save |-> Save("scl", "GTiff")],
     result |-> {"save"}]
\* A mask over a masked cube: the classes of one, then of another pass.
ChainedOf(src) ==
    [nodes |-> [load |-> Load(src, {"B11", "SCL"}), bin |-> Values("load"),
                mask |-> Mask("load", "bin"), again |-> Mask("mask", "bin"),
                save |-> Save("again", "GTiff")],
     result |-> {"save"}]
PlainOf(src, bands) ==
    [nodes |-> [load |-> Load(src, bands), save |-> Save("load", "GTiff")],
     result |-> {"save"}]
SclTwiceOf(src) ==
    [nodes |-> [load |-> Load(src, {"B04", "SCL"}), scl |-> MaskScl("load"),
                again |-> MaskScl("scl"), save |-> Save("again", "GTiff")],
     result |-> {"save"}]
StubOf ==
    [nodes |-> [load |-> Load(None, {"B04"}), save |-> Save("load", "GTiff")],
     result |-> {"save"}]
Json == [nodes |-> [load |-> Load(None, {"B04"})], result |-> {"load"}]
Cycle == [nodes |-> [a |-> Ndvi("b"), b |-> Ndvi("a")], result |-> {"a"}]
Unsound ==
    [nodes |-> [load |-> Load(None, {"B08"}), ndvi |-> Ndvi("load"),
                x |-> [process |-> "unheard_of", from |-> << >>]],
     result |-> {"ndvi"}]

MCGraphs == [e \in Evals |->
    IF e = "e1"
    THEN {NdviOf("aoi1"), PlainOf("aoi1", {"B04", "B08"}), SclTwiceOf("aoi1"),
          SclMaskedOf("aoi1", {"B11"}), MaskedOf("aoi1"), StubOf, Json, Cycle,
          Unsound}
    ELSE {PlainOf("aoi2", {"B04"})}]
SharedGraphs == [e \in Evals |-> {NdviOf(IF e = "e1" THEN "aoi1" ELSE "aoi2")}]
SclGraphs == [e \in Evals |->
    {SclMaskedOf("aoi1", {"B04"}), SclMaskedOf("aoi2", {"B04"})}]
ChainedGraphs == [e \in Evals |-> {ChainedOf("aoi1")}]

ASSUME GraphsAreWellFormed == WellFormed

OneScene == {<<MCBands>>}
MCScenes == {<<MCBands>>, <<{"B04"}, {"B04", "B08"}>>}
=============================================================================
