----------------------------- MODULE PixelRules -----------------------------
(***************************************************************************)
(* What happens to single pixels: the classes of Sentinel-2's scene         *)
(* classification and Landsat's quality bits, the two generations of their  *)
(* decoders, the mask workers, the masked NDVI, and the stretch to 8 bits   *)
(* of a PNG.                                                               *)
(***************************************************************************)
EXTENDS Fractions

NdviNA == Whole(-9999)   \* SENTINEL_NDVI_NA

-----------------------------------------------------------------------------
(* Classes.                                                                *)

Bit(v, k) == (v \div 2^k) % 2 = 1
from_2bits(v) == <<"None", "Low", "Medium", "High">>[(v % 4) + 1]
QaPixel(v) ==
    [fill |-> Bit(v, 0), dilated_cloud |-> Bit(v, 1), cirrus |-> Bit(v, 2), cloud |-> Bit(v, 3), cloud_shadow |-> Bit(v, 4),
     snow |-> Bit(v, 5), clear |-> Bit(v, 6), water |-> Bit(v, 7),
     cloud_confidence |-> from_2bits(v \div 2^8), cloud_shadow_confidence |-> from_2bits(v \div 2^10),
     snow_confidence |-> from_2bits(v \div 2^12), cirrus_confidence |-> from_2bits(v \div 2^14)]
\* Faulty variant: the clear bit is looked at first.
clear_first(p) ==
    CASE p.clear -> "Clear" [] ~p.clear /\ p.fill -> "NoData" [] ~p.clear /\ ~p.fill /\ (p.cloud \/ p.cirrus) -> "Cloud" [] OTHER -> "Clear"
qa_to_mask_value(p) ==
    IF p.fill THEN "NoData" ELSE IF p.cloud \/ p.dilated_cloud THEN "Cloud" ELSE IF p.cloud_shadow THEN "Shadow"
    ELSE IF p.cirrus THEN "Cloud" ELSE IF p.snow THEN "Snow" ELSE IF p.water THEN "Water" ELSE "Clear"

SceneClasses == <<"NoData", "Saturated", "DarkArea", "CloudShadows", "Vegetation", "BareSoil", "Water", "Unclassified",
                  "CloudMedium", "CloudHigh", "Cirrus", "Snow">>
from_u8(b) == IF b < 12 THEN SceneClasses[b + 1] ELSE "Unclassified"
scl_to_mask_value(c) ==
    CASE c \in {"NoData", "Saturated", "Water", "Snow"} -> c
      [] c = "CloudShadows" -> "Shadow"
      [] c \in {"CloudMedium", "CloudHigh", "Cirrus"} -> "Cloud"
      [] OTHER -> "Clear"
scl_is_clear_sky(scl) == scl_to_mask_value(from_u8(scl)) \in {"Clear", "Water", "Snow"}
landsat_qa_is_clear_sky(qa) == qa_to_mask_value(QaPixel(qa)) = "Clear"

\* The decoder of orbit-geo.
decode_qa_mask(v, type) ==
    IF type = "Sentinel2Scl" THEN v \in {4, 5, 6, 7, 11}
    ELSE Bit(v, 6) /\ \A k \in 2..5 : ~Bit(v, k)

-----------------------------------------------------------------------------
(* Workers over a block: pixels by place.                                   *)

\* apply_mask: where the mask says no, NA. Pixels beyond a smaller mask stay as
\* they are; a no beyond the data panics.
apply_mask(data, keep, na) ==
    [panics |-> \E p \in DOMAIN keep \ DOMAIN data : ~keep[p],
     px |-> [p \in DOMAIN data |-> IF p \in DOMAIN keep /\ ~keep[p] THEN na ELSE data[p]]]
\* mask_scl_dilation and mask: both stop at the border of the smaller block.
mask_band(data, scl, mask2) == [p \in DOMAIN data |-> IF p \in DOMAIN scl /\ scl[p] \notin mask2 THEN data[p] ELSE 0]
apply_one(data, mask, rep) == [p \in DOMAIN data |-> IF p \in DOMAIN mask /\ mask[p] <= 0 THEN data[p] ELSE rep]

\* The mean over the clear scenes with two positive bands.
ndvi_masked_worker(scenes) ==
    LET usable == SelectSeq(scenes, LAMBDA s : scl_is_clear_sky(s.scl) /\ s.red + s.nir > 1 /\ s.red > 0 /\ s.nir > 0)
    IN  IF usable = << >> THEN NdviNA
        ELSE QDiv(QSum([i \in DOMAIN usable |-> Q(usable[i].nir - usable[i].red, usable[i].nir + usable[i].red)]), Whole(Len(usable)))

\* raster_to_png_bytes: NA is black and does not count for the stretch.
is_nodata(p) == ~Finite(p) \/ QLt(QAbs(QSub(p, NdviNA)), Q(1, 2)) \/ QLt(QAbs(QSub(p, Whole(-32768))), Q(1, 2))
raster_to_png_bytes(pixels) ==
    LET seen == {i \in DOMAIN pixels : ~is_nodata(pixels[i])}
        mn == CHOOSE v \in {pixels[i] : i \in seen} : \A i \in seen : QLe(v, pixels[i])
        mx == CHOOSE v \in {pixels[i] : i \in seen} : \A i \in seen : QLe(pixels[i], v)
        \* a flat raster has a span of f32::EPSILON and only zeros above it
        shade(p) == IF mn = mx THEN 0 ELSE QFloor(QAdd(QDiv(QMul(QSub(p, mn), Whole(255)), QSub(mx, mn)), Q(1, 2)))[1]
    IN  [i \in DOMAIN pixels |-> IF i \in seen THEN shade(pixels[i]) ELSE 0]
write_png_1x1(v) == IF v[1] < 0 THEN 0 ELSE IF QLt(Whole(255), v) THEN 255 ELSE QFloor(v)[1]

OutputFormat(s) ==
    CASE s \in {"COG", "CLOUD_OPTIMIZED_GEOTIFF"} -> "Cog" [] s = "JSON" -> "Json" [] s = "PNG" -> "Png"
      [] s \in {"NETCDF", "NC"} -> "NetCdf" [] OTHER -> "GTiff"
media_type(f) == CASE f = "Json" -> "application/json" [] f = "Png" -> "image/png" [] OTHER -> "image/tiff"

-----------------------------------------------------------------------------
(* Questions and what their answers must satisfy.                          *)

PixelAnswer(q) ==
    CASE q.op = "landsat" -> [clear |-> landsat_qa_is_clear_sky(q.v), old |-> decode_qa_mask(q.v, "LandsatC2QaPixel")]
      [] q.op = "scl" -> [clear |-> scl_is_clear_sky(q.v), old |-> decode_qa_mask(q.v, "Sentinel2Scl")]
      [] q.op = "masking" -> <<mask_band(q.data, q.mask, {1, 3}), apply_one(q.data, q.mask, 7),
                            apply_mask(q.data, [p \in DOMAIN q.mask |-> q.mask[p] = 0], 7)>>
      [] q.op = "ndvi" -> ndvi_masked_worker(q.scenes)
      [] q.op = "png" -> raster_to_png_bytes(q.pixels)
      [] q.op = "save" -> <<OutputFormat(q.format), media_type(OutputFormat(q.format)), write_png_1x1(q.v)>>

\* The bits that say a Landsat pixel shows something other than clear ground.
Obscured(v) == \E k \in {0, 1, 2, 3, 4, 5, 7} : Bit(v, k)
\* A pixel either decoder keeps is not cloud, shadow or cirrus. They differ where
\* the older one ignores fill, dilated cloud and water, or needs the clear bit;
\* and on dark areas and unknown classes, which only the newer one keeps. Both
\* keep snow of the scene classification, which the documentation of the newer
\* one leaves out. The three mask workers agree on the pixels of the mask, and
\* not beyond it: two blank what a smaller mask does not cover, one keeps it.
PixelsAreRight(q, r) ==
    CASE q.op = "landsat" ->
            /\ r.clear <=> ~Obscured(q.v)
            /\ r.old => ~(Bit(q.v, 2) \/ Bit(q.v, 3) \/ Bit(q.v, 4))
            /\ (r.clear # r.old) => (Bit(q.v, 0) \/ Bit(q.v, 1) \/ Bit(q.v, 7) \/ ~Bit(q.v, 6))
      [] q.op = "scl" -> /\ r.clear <=> q.v \notin {0, 1, 3, 8, 9, 10}
                         /\ r.old => r.clear
                         /\ (r.clear # r.old) => (q.v = 2 \/ q.v > 11)
      [] q.op = "masking" ->
            /\ r[3].panics <=> \E p \in DOMAIN q.mask : p \notin DOMAIN q.data /\ q.mask[p] # 0
            /\ \A p \in DOMAIN q.data :
                /\ r[1][p] \in {0, q.data[p]} /\ r[2][p] \in {7, q.data[p]}
                /\ p \in DOMAIN q.mask => r[3].px[p] = r[2][p]
                /\ p \notin DOMAIN q.mask => r[1][p] = 0 /\ r[2][p] = 7 /\ r[3].px[p] = q.data[p]
      [] q.op = "ndvi" -> r = NdviNA \/ (QLt(Whole(-1), r) /\ QLt(r, Whole(1)))
      [] q.op = "png" -> \A i, j \in DOMAIN q.pixels :
            /\ r[i] \in 0..255
            /\ (~is_nodata(q.pixels[i]) /\ ~is_nodata(q.pixels[j]) /\ QLe(q.pixels[i], q.pixels[j])) => r[i] <= r[j]
      [] q.op = "save" -> (r[2] = "application/json" <=> q.format = "JSON") /\ r[3] \in 0..255
=============================================================================
