------------------------------ MODULE RasterRun ------------------------------
(***************************************************************************)
(* One call of RasterDataset::apply*: threads of a pool read blocks, run    *)
(* the worker, cut off the overlap and write into one GeoTIFF behind a      *)
(* mutex; overviews follow the last block, and a COG is made from the file. *)
(*                                                                         *)
(* A pixel of a source holds its own place; the worker answers, for each    *)
(* pixel, what it saw of the data and of the mask there.                    *)
(***************************************************************************)
EXTENDS RasterGrid

CONSTANTS
    Threads,      \* threads of the rayon pool
    RasterJobs,   \* calls: [kind, data, mask, cog]
    NoData        \* what create() fills the output with

VARIABLES
    job,          \* the call
    phase,        \* start, created, run, overviews, written, failing, closed, ok, error
    todo,         \* blocks no thread took yet
    work,         \* per thread: Idle, or the block it holds and how far it is
    opened,       \* per thread: it holds handles of the sources
    failed,       \* a block failed: no further one is taken
    output,       \* pixels of the output dataset, as its open handle sees them
    overviews,    \* what the overviews were computed from
    disk,         \* pixels of the output file
    unflushed,    \* pixels the closing dataset could not flush
    cogs          \* the Cloud-Optimized GeoTIFF: what is at its path

fileVars == <<disk, unflushed, cogs>>
rasterVars == <<job, phase, todo, work, opened, failed, output, overviews, disk, unflushed, cogs>>

Idle == <<"idle", 0>>
Masked(k) == k \in {"apply_with_mask", "apply_reduction_with_mask", "row_pixel_with_mask"}
PixelsIn(rds) == (0..(rds.shape.rows - 1)) \X (0..(rds.shape.cols - 1))

RasterInit ==
    /\ job \in RasterJobs /\ phase = "start" /\ failed = FALSE
    /\ todo = {} /\ work = [t \in Threads |-> Idle] /\ opened = [t \in Threads |-> FALSE]
    /\ output = Nothing /\ overviews = Nothing /\ disk = Nothing /\ unflushed = {} /\ cogs = Nothing
RasterIdle ==
    /\ job = [kind |-> Nothing] /\ phase = "none" /\ failed = FALSE
    /\ todo = {} /\ work = [t \in Threads |-> Idle] /\ opened = [t \in Threads |-> FALSE]
    /\ output = Nothing /\ overviews = Nothing /\ disk = Nothing /\ unflushed = {} /\ cogs = Nothing

fail == phase' = "error" /\ UNCHANGED <<job, todo, work, opened, failed, output, overviews, fileVars>>

\* apply and apply_with_mask run the worker on the first block to count its
\* bands; then the file is created, full of nodata.
probe_output_layers ==
    /\ phase = "start" /\ job.kind \in {"apply", "apply_with_mask"}
    /\ fail
create ==
    /\ phase = "start"
    /\ phase' = "created"
    /\ output' = [p \in PixelsIn(job.data) |-> NoData] /\ disk' = output'
    /\ UNCHANGED <<job, todo, work, opened, failed, overviews, unflushed, cogs>>
create_fails == phase = "start" /\ fail

\* Only the number of blocks of data and mask is compared.
start_pool ==
    /\ phase = "created"
    /\ IF Masked(job.kind) /\ Len(job.data.blocks) # Len(job.mask.blocks)
       THEN phase' = "failing" /\ UNCHANGED todo
       ELSE phase' = "run" /\ todo' = DOMAIN job.data.blocks
    /\ UNCHANGED <<job, work, opened, failed, output, overviews, fileVars>>

take(t) ==
    /\ phase = "run" /\ ~failed /\ work[t] = Idle
    /\ \E b \in todo : /\ work' = [work EXCEPT ![t] = <<"read", b>>]
                       /\ todo' = todo \ {b}
    /\ UNCHANGED <<job, phase, opened, failed, output, overviews, fileVars>>

\* read_block, of data and mask, over the handles this thread keeps.
read_block(t) ==
    /\ phase = "run" /\ work[t] # Idle /\ work[t][1] = "read"
    /\ opened' = [opened EXCEPT ![t] = TRUE]
    /\ \/ work' = [work EXCEPT ![t] = <<"write", @[2]>>] /\ UNCHANGED failed
       \/ work' = [work EXCEPT ![t] = Idle] /\ failed' = TRUE
    /\ UNCHANGED <<job, phase, todo, output, overviews, fileVars>>

\* What the worker answers for a block: a mask block that is smaller panics.
Worker(b) ==
    LET d == job.data.blocks[b].window
        m == job.mask.blocks[b].window
        at(w, p) == <<w.row + p[1], w.col + p[2]>>
        local == (0..(d.rows - 1)) \X (0..(d.cols - 1))
    IN  IF ~Masked(job.kind) THEN Ok([p \in local |-> <<at(d, p)>>])
        ELSE IF m.rows < d.rows \/ m.cols < d.cols THEN Err("panic")
        ELSE Ok([p \in local |-> <<at(d, p), at(m, p)>>])

\* Faulty variant: every block is written at the corner of the raster, untrimmed.
write_at_corner(t) ==
    LET b == work[t][2]
        region == job.data.blocks[b]
        result == Worker(b)
        inner == inner_size(region)
    IN  /\ phase = "run" /\ work[t] # Idle /\ work[t][1] = "write"
        /\ ~Failed(result)
        /\ output' = [p \in DOMAIN output |->
                        IF p[1] \in 0..(inner.rows - 1) /\ p[2] \in 0..(inner.cols - 1) THEN result.ok[p] ELSE output[p]]
        /\ work' = [work EXCEPT ![t] = Idle]
        /\ UNCHANGED <<job, phase, todo, opened, failed, overviews, fileVars>>

\* Worker, trim_overlap and write_block: the mutex makes the write one step.  A
\* window that is not all in the dataset is refused.
write_block(t) ==
    LET b == work[t][2]
        region == job.data.blocks[b]
        result == Worker(b)
        cut == IF Failed(result) THEN result ELSE trim_overlap(result.ok, region)
        w == write_window(region)
    IN  /\ phase = "run" /\ work[t] # Idle /\ work[t][1] = "write"
        /\ \/ /\ ~Failed(cut) /\ PixelsOf(w) \subseteq DOMAIN output
              /\ output' = [p \in DOMAIN output |->
                              IF p \in PixelsOf(w) THEN cut.ok[<<p[1] - w.row, p[2] - w.col>>] ELSE output[p]]
              /\ UNCHANGED failed
           \/ failed' = TRUE /\ UNCHANGED output
        /\ work' = [work EXCEPT ![t] = Idle]
        /\ UNCHANGED <<job, phase, todo, opened, overviews, fileVars>>

\* The pool is joined; overviews follow, except for a plain apply.
join ==
    /\ phase = "run" /\ \A t \in Threads : work[t] = Idle
    /\ failed \/ todo = {}
    /\ phase' = CASE failed -> "failing" [] ~failed /\ job.kind = "apply" -> "written" [] OTHER -> "overviews"
    /\ UNCHANGED <<job, todo, work, opened, failed, output, overviews, fileVars>>
build_overviews ==
    /\ phase = "overviews"
    /\ \/ phase' = "written" /\ overviews' = output
       \/ phase' = "failing" /\ UNCHANGED overviews
    /\ UNCHANGED <<job, todo, work, opened, failed, output, fileVars>>

\* The last reference to the writer goes: its dataset is flushed and closed, and
\* nobody hears of a flush that fails.  One block or all of them stand for what
\* is lost then.
Losses == {{}, DOMAIN job.data.blocks} \cup {{i} : i \in DOMAIN job.data.blocks}
close ==
    /\ phase \in {"written", "failing"}
    /\ phase' = IF phase = "written" THEN "closed" ELSE "error"
    /\ \E lost \in Losses : unflushed' = UNION {PixelsOf(job.data.blocks[i].window) : i \in lost}
    /\ disk' = [p \in DOMAIN output |-> IF p \in unflushed' THEN disk[p] ELSE output[p]]
    /\ UNCHANGED <<job, todo, work, opened, failed, output, overviews, cogs>>

\* The *_cog variants computed into a temporary file; convert_to_cog replaces
\* the destination in one step, and leaves it alone when it fails.
finish ==
    /\ phase = "closed"
    /\ \/ ~job.cog /\ phase' = "ok" /\ UNCHANGED cogs
       \/ job.cog /\ phase' = "ok" /\ cogs' = disk
       \/ job.cog /\ phase' = "error" /\ UNCHANGED cogs
    /\ UNCHANGED <<job, todo, work, opened, failed, output, overviews, disk, unflushed>>

RasterNext ==
    \/ probe_output_layers \/ create \/ create_fails \/ start_pool \/ join \/ build_overviews \/ close \/ finish
    \/ \E t \in Threads : take(t) \/ read_block(t) \/ write_block(t)
RasterSpec == RasterInit /\ [][RasterNext]_rasterVars

\* What any call of the dataset builder makes of a raster.
Cut(rds) ==
    /\ rds.shape.rows \in Nat /\ rds.shape.cols \in Nat
    /\ \A i \in DOMAIN rds.blocks :
        /\ rds.blocks[i].window \in [row : Nat, col : Nat, rows : Nat, cols : Nat]
        /\ rds.blocks[i].overlap \in [top : Nat, bottom : Nat, left : Nat, right : Nat]
JobsAreCut == \A j \in RasterJobs : Cut(j.data)

-----------------------------------------------------------------------------
(* Properties.                                                             *)

\* Data and mask have the same blocks; then a pixel's value is what the worker
\* saw there of both.  Otherwise the mask is read somewhere else.
SameBlocks == \A i \in DOMAIN job.data.blocks : job.mask.blocks[i].window = job.data.blocks[i].window
Own(p, v) == v[1] = p /\ (Masked(job.kind) /\ SameBlocks => v[2] = p)
\* The pixels that are in a block after its overlap is cut off.
Kept == UNION {PixelsOf(write_window(job.data.blocks[i])) : i \in DOMAIN job.data.blocks}
\* No overlap, and an image size that was not overridden with a larger one.
Full ==
    /\ \A i \in DOMAIN job.data.blocks : is_zero(job.data.blocks[i].overlap)
    /\ \A p \in PixelsIn(job.data) : \E i \in DOMAIN job.data.blocks : p \in PixelsOf(job.data.blocks[i].window)
Sound(px) == \A p \in DOMAIN px : px[p] = NoData \/ (p \in Kept /\ Own(p, px[p]))

\* In whatever order threads take, read and write the blocks, and wherever one
\* fails: no pixel ever gets a value that is not its own, and none is written
\* that lies in an overlap; a call that answers Ok has written every pixel of its
\* blocks within their overlaps, which are all pixels of the raster when there is
\* no overlap and no larger image size, and has built the overviews of every
\* variant but `apply' from them; a COG is a copy of the whole file or is not
\* there.  Excepted are the pixels of a flush that failed when the file was
\* closed: Ok is answered all the same (processing.rs: apply and its variants,
\* of which the comments of two, lines 152 and 194, still deny the overviews;
\* writer.rs).
PixelsLand ==
    (phase # "none" /\ output # Nothing) =>
        /\ Sound(output) /\ Sound(disk)
        /\ phase = "ok" => Kept \subseteq DOMAIN disk /\ \A p \in Kept \ unflushed : Own(p, disk[p])
        /\ phase = "ok" /\ Full => \A p \in DOMAIN disk \ unflushed : Own(p, disk[p])
        /\ phase = "ok" /\ job.kind # "apply" => overviews = output
        /\ cogs # Nothing => phase = "ok" /\ cogs = disk

\* The documentation of Overlap: the overlap is added to a block for the worker
\* and trimmed before it is written back, so no pixel is left out.
OverlapLosesNothing == phase = "ok" => \A p \in DOMAIN output : output[p] # NoData
=============================================================================
