------------------------------ MODULE AssetFiles ------------------------------
(***************************************************************************)
(* How orbit-geo puts files in place.  download_items writes `x.part' and  *)
(* renames it, convert_to_cog writes a staging file of its own and         *)
(* replaces the destination with it (eo-io/atomic.rs), mosaic, translate   *)
(* and warp let the GDAL tool write the destination itself.                *)
(*                                                                         *)
(* A name of the directory leads to an inode: opening an existing file for *)
(* writing truncates the same inode, a rename moves it, and whoever still  *)
(* writes goes on writing it under its new name.  The process may die at   *)
(* any point.                                                              *)
(***************************************************************************)
EXTENDS Integers, FiniteSets

CONSTANTS
    Writers,    \* tasks that each produce one file
    Paths       \* destinations

VARIABLES
    order,      \* per task: [kind, dst]
    stage,      \* per task: "start", "vrt", "get", "write", "rename", "ok", "err", "dead"
    dir,        \* name -> inode
    body,       \* inode -> [whole, open]: its contents, and who has it open
    contended   \* history: destinations whose part file two tasks wrote at once

assetVars == <<order, stage, dir, body, contended>>

Kinds == {"download_items", "convert_to_cog", "warp", "mosaic"}
\* Downloads that write a part file; download_asset is the openEO client's.
Fetches == {"download_items", "download_asset"}
Final(d) == <<"final", d>>
Part(d) == <<"part", d>>
\* staging_path_for: the process id and the time make it the writer's own.
\* Faulty variant: one staging name for all writers of a destination.
staging_path_for_shared(t, d) == <<"staging", d>>
staging_path_for(t, d) == <<"staging", d, t>>

\* The name a task writes first.
Target(t) ==
    LET o == order[t]
    IN  CASE o.kind \in Fetches -> Part(o.dst)
          [] o.kind = "convert_to_cog" -> staging_path_for(t, o.dst)
          [] OTHER -> Final(o.dst)

\* An inode is named after the task that made it and the name it was made for.
Inodes == Writers \X Paths
AssetInit ==
    /\ order \in [Writers -> [kind : Kinds, dst : Paths]]
    /\ stage = [t \in Writers |-> "start"]
    /\ dir = [n \in {} |-> 0]
    /\ body = [i \in Inodes |-> [whole |-> FALSE, open |-> {}]]
    /\ contended = {}

Step(t, from, to) == stage[t] = from /\ stage' = [stage EXCEPT ![t] = to]
\* The inode a task writes.
Held(t) == {i \in Inodes : t \in body[i].open}
Unlink(n) == [x \in DOMAIN dir \ {n} |-> dir[x]]

\* A download skips a file that is there; mosaic first has a tool build a
\* VRT in a temporary file.
begin(t) ==
    /\ \/ /\ order[t].kind \in Fetches
          /\ Step(t, "start", IF Final(order[t].dst) \in DOMAIN dir THEN "ok" ELSE "get")
       \/ order[t].kind = "mosaic" /\ (Step(t, "start", "vrt") \/ Step(t, "start", "err"))
       \/ order[t].kind \in {"convert_to_cog", "warp"} /\ Step(t, "start", "get")
    /\ UNCHANGED <<order, dir, body, contended>>

build_vrt(t) ==
    /\ Step(t, "vrt", "get") \/ Step(t, "vrt", "err")
    /\ UNCHANGED <<order, dir, body, contended>>

\* The request or the tool fails before it writes.
get_failed(t) ==
    /\ Step(t, "get", "err")
    /\ UNCHANGED <<order, dir, body, contended>>

\* The target is opened: an existing file is truncated, a new one made.
open_target(t) ==
    LET n == Target(t)
        i == IF n \in DOMAIN dir THEN dir[n] ELSE <<t, order[t].dst>>
    IN  /\ Step(t, "get", "write")
        /\ dir' = [x \in DOMAIN dir \cup {n} |-> IF x = n THEN i ELSE dir[x]]
        /\ body' = [body EXCEPT ![i] = [whole |-> FALSE, open |-> @.open \cup {t}]]
        /\ contended' = IF order[t].kind \in Fetches
                           /\ \E u \in Writers \ {t} : order[u] = order[t] /\ stage[u] \in {"write", "rename"}
                        THEN contended \cup {order[t].dst} ELSE contended
        /\ UNCHANGED order

\* The bytes are written: the file is whole when nobody else writes it.
write_end(t) ==
    /\ Step(t, "write", IF Target(t) = Final(order[t].dst) THEN "ok" ELSE "rename")
    /\ body' = [i \in Inodes |->
                  IF i \in Held(t) THEN [whole |-> body[i].open = {t}, open |-> body[i].open \ {t}]
                  ELSE body[i]]
    /\ UNCHANGED <<order, dir, contended>>

\* The write fails: convert_to_cog removes its staging file.
write_failed(t) ==
    /\ Step(t, "write", "err")
    /\ body' = [i \in Inodes |-> [body[i] EXCEPT !.open = @ \ {t}]]
    /\ dir' = IF order[t].kind = "convert_to_cog" THEN Unlink(Target(t)) ELSE dir
    /\ UNCHANGED <<order, contended>>

\* rename, atomic_replace: what the target leads to is the destination now; an
\* error when another task has renamed it already.
atomic_replace(t) ==
    LET n == Target(t)
        f == Final(order[t].dst)
    IN  /\ IF n \in DOMAIN dir
           THEN /\ Step(t, "rename", "ok")
                /\ dir' = [x \in (DOMAIN dir \ {n}) \cup {f} |-> IF x = f THEN dir[n] ELSE dir[x]]
           ELSE Step(t, "rename", "err") /\ UNCHANGED dir
        /\ UNCHANGED <<order, body, contended>>

\* The process dies: what was being written stays as it is.
crash ==
    /\ \E t \in Writers : stage[t] \in {"write", "rename"}
    /\ stage' = [t \in Writers |-> IF stage[t] \in {"ok", "err"} THEN stage[t] ELSE "dead"]
    /\ body' = [i \in Inodes |-> [body[i] EXCEPT !.open = {}]]
    /\ UNCHANGED <<order, dir, contended>>

AssetNext ==
    \/ crash
    \/ \E t \in Writers :
        \/ begin(t) \/ build_vrt(t) \/ get_failed(t) \/ open_target(t)
        \/ write_end(t) \/ write_failed(t) \/ atomic_replace(t)
AssetSpec == AssetInit /\ [][AssetNext]_assetVars

-----------------------------------------------------------------------------

\* What is under a destination's name is whole, at every moment and after any
\* crash, unless a tool writes that destination in place or two downloads of
\* one URL shared its part file (atomic.rs, stac.rs, gdal_utils.rs).
PublishedIsWhole ==
    \A d \in Paths :
        Final(d) \in DOMAIN dir =>
            \/ body[dir[Final(d)]].whole
            \/ d \in contended
            \/ \E t \in Writers : order[t].dst = d /\ order[t].kind \in {"warp", "mosaic"}
=============================================================================
