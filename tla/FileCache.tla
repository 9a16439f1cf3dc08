------------------------------ MODULE FileCache ------------------------------
(***************************************************************************)
(* The file cache (crates/orbit-cache and crates/orbit-geo/src/cache.rs    *)
(* hold the same one) under GeoExecutor::fetch_with_cache: tasks that look *)
(* an asset up, download it on a miss and insert the file, while others    *)
(* insert, evict or clear, and while the process may die.                  *)
(*                                                                         *)
(* insert copies the file into the cache directory without the lock, then  *)
(* reads its size, then takes the lock to index it, then takes it again to *)
(* evict: four steps.  A copy writes to the file it opened: when that file *)
(* is removed meanwhile, its bytes are gone with it.                       *)
(*                                                                         *)
(* Data kept abstract: a URL stands for its key (its SHA-256), contents    *)
(* are the crop they hold; hit and miss counters are left out.             *)
(***************************************************************************)
EXTENDS Integers, FiniteSets, Functions

CONSTANTS
    Tasks, Urls, Crops,
    SizeOf,         \* per URL: bytes of its file
    max_bytes,      \* 0 for unlimited
    MaxClock,       \* bound: seconds that pass
    MaxCrashes      \* bound: restarts

ASSUME CacheAssumption == max_bytes \in Nat

VARIABLES
    index,      \* URL -> [size_bytes, last_access]
    disk,       \* URL -> [crop, writers] for the files of the cache directory
    now_secs,
    pc, url, crop, size,    \* per task: the fetch it makes
    crashes,
    torn,       \* history: URLs whose file was removed during an insert of it
    rescanned   \* history: no eviction since the cache was opened

taskVars == <<pc, url, crop, size>>
cacheVars == <<index, disk, now_secs, taskVars, crashes, torn, rescanned>>

Partial == "partial"
Idle == {"idle", "fetch", "copy", "use"}
Inserting == {"copying", "measure", "index"}

Empty == [u \in {} |-> 0]
Bind(f, k, v) == [x \in DOMAIN f \cup {k} |-> IF x = k THEN v ELSE f[x]]
Without(f, S) == [x \in DOMAIN f \ S |-> f[x]]

Goto(t, from, to) == pc[t] = from /\ pc' = [pc EXCEPT ![t] = to]
Total(ix) == SumFunction([u \in DOMAIN ix |-> ix[u].size_bytes])

\* Files that disappear while a task is inserting them.
TornBy(U) == {u \in U : \E t \in Tasks : pc[t] \in Inserting /\ url[t] = u}

CacheInit ==
    /\ index = Empty /\ disk = Empty
    /\ now_secs = 0
    /\ pc = [t \in Tasks |-> "idle"]
    /\ url \in [Tasks -> Urls] /\ crop \in [Tasks -> Crops]
    /\ size = [t \in Tasks |-> 0]
    /\ crashes = 0 /\ torn = {} /\ rescanned = TRUE

-----------------------------------------------------------------------------
(* fetch_with_cache.                                                       *)

\* get: a hit touches the entry and answers its path, a miss downloads.
get(t) ==
    /\ IF url[t] \in DOMAIN index
       THEN /\ Goto(t, "idle", "use")
            /\ index' = [index EXCEPT ![url[t]].last_access = now_secs]
       ELSE Goto(t, "idle", "fetch") /\ UNCHANGED index
    /\ UNCHANGED <<disk, now_secs, url, crop, size, crashes, torn, rescanned>>

\* The signer and the downloader run; either may fail.
download(t) ==
    /\ Goto(t, "fetch", "copy") \/ Goto(t, "fetch", "idle")
    /\ UNCHANGED <<index, disk, now_secs, url, crop, size, crashes, torn, rescanned>>

-----------------------------------------------------------------------------
(* insert.                                                                 *)

\* The copy opens the file, creating or truncating it ...
copy_begin(t) ==
    /\ Goto(t, "copy", "copying")
    /\ disk' = Bind(disk, url[t], [crop |-> Partial,
                  writers |-> {t} \cup (IF url[t] \in DOMAIN disk
                                        THEN disk[url[t]].writers ELSE {})])
    /\ UNCHANGED <<index, now_secs, url, crop, size, crashes, torn, rescanned>>

\* ... and ends: the file is whole when nobody else is writing it.
copy_end(t) ==
    /\ Goto(t, "copying", "measure")
    /\ disk' = IF url[t] \in DOMAIN disk /\ t \in disk[url[t]].writers
               THEN LET w == disk[url[t]].writers \ {t}
                    IN  Bind(disk, url[t],
                             [crop |-> IF w = {} THEN crop[t] ELSE Partial, writers |-> w])
               ELSE disk
    /\ UNCHANGED <<index, now_secs, url, crop, size, crashes, torn, rescanned>>

\* It may fail half way (no space left): the file stays as it is.
copy_failed(t) ==
    /\ Goto(t, "copying", "idle")
    /\ disk' = [u \in DOMAIN disk |-> [disk[u] EXCEPT !.writers = @ \ {t}]]
    /\ UNCHANGED <<index, now_secs, url, crop, size, crashes, torn, rescanned>>

\* metadata: an error when the file is gone; a file another copy has just
\* truncated is short.
metadata(t) ==
    /\ IF url[t] \in DOMAIN disk
       THEN /\ Goto(t, "measure", "index")
            /\ size' = [size EXCEPT ![t] =
                          IF disk[url[t]].crop = Partial THEN 0 ELSE SizeOf[url[t]]]
       ELSE Goto(t, "measure", "idle") /\ UNCHANGED size
    /\ UNCHANGED <<index, disk, now_secs, url, crop, crashes, torn, rescanned>>

\* The entry is made with the size and the time of now.
index_insert(t) ==
    /\ Goto(t, "index", "evict")
    /\ index' = Bind(index, url[t], [size_bytes |-> size[t], last_access |-> now_secs])
    /\ torn' = IF url[t] \in DOMAIN disk THEN torn \ {url[t]} ELSE torn
    /\ UNCHANGED <<disk, now_secs, url, crop, size, crashes, rescanned>>

\* The sets an eviction may keep: the least recently used entries go, entries
\* of one second in any order, until the rest fits and no earlier.
\* Faulty variant: it stops one entry too soon.
Kept_soon(ix) ==
    {K \in SUBSET DOMAIN ix :
        /\ \A u \in K, v \in DOMAIN ix \ K : ix[v].last_access <= ix[u].last_access
        /\ Cardinality(DOMAIN ix \ K) <= 1}
Kept(ix) ==
    LET Fits(K) == max_bytes = 0 \/ Total(Without(ix, DOMAIN ix \ K)) <= max_bytes
    IN  {K \in SUBSET DOMAIN ix :
            LET gone == DOMAIN ix \ K
            IN  /\ Fits(K)
                /\ \A u \in K, v \in gone : ix[v].last_access <= ix[u].last_access
                /\ gone # {} => \E v \in gone : ~Fits(K \cup {v}) /\
                     \A w \in gone : ix[w].last_access <= ix[v].last_access}

\* evict_if_needed, and insert answers the path.
\* Faulty variant: it removes the files and keeps the entries.
evict_files_only(t) ==
    /\ Goto(t, "evict", "use")
    /\ \E K \in Kept(index) :
        LET gone == DOMAIN index \ K
        IN  /\ disk' = Without(disk, gone)
            /\ torn' = torn \cup TornBy(gone)
    /\ rescanned' = FALSE
    /\ UNCHANGED <<index, now_secs, url, crop, size, crashes>>
evict_if_needed(t) ==
    /\ Goto(t, "evict", "use")
    /\ \E K \in Kept(index) :
        LET gone == DOMAIN index \ K
        IN  /\ index' = Without(index, gone)
            /\ disk' = Without(disk, gone)
            /\ torn' = torn \cup TornBy(gone)
    /\ rescanned' = FALSE
    /\ UNCHANGED <<now_secs, url, crop, size, crashes>>

\* The caller opens the path it was answered and asks for something else.
use(t) ==
    /\ Goto(t, "use", "idle")
    /\ \E u \in Urls, c \in Crops :
        url' = [url EXCEPT ![t] = u] /\ crop' = [crop EXCEPT ![t] = c]
    /\ UNCHANGED <<index, disk, now_secs, size, crashes, torn, rescanned>>

\* clear drops every entry and its file.
clear ==
    /\ index # Empty
    /\ index' = Empty
    /\ disk' = Without(disk, DOMAIN index)
    /\ torn' = torn \cup TornBy(DOMAIN index)
    /\ UNCHANGED <<now_secs, taskVars, crashes, rescanned>>

\* The process dies; open() indexes every file it finds, whole or not, with
\* the access time the file system kept.
open ==
    /\ crashes < MaxCrashes
    /\ crashes' = crashes + 1
    /\ pc' = [t \in Tasks |-> "idle"]
    /\ disk' = [u \in DOMAIN disk |-> [disk[u] EXCEPT !.writers = {}]]
    /\ \E when \in [DOMAIN disk -> 0..now_secs] :
        index' = [u \in DOMAIN disk |->
                    [size_bytes |-> IF disk[u].crop = Partial THEN 0 ELSE SizeOf[u],
                     last_access |-> when[u]]]
    /\ torn' = {} /\ rescanned' = TRUE
    /\ UNCHANGED <<now_secs, url, crop, size>>

Second ==
    /\ now_secs < MaxClock
    /\ now_secs' = now_secs + 1
    /\ UNCHANGED <<index, disk, taskVars, crashes, torn, rescanned>>

CacheNext ==
    \/ clear \/ open \/ Second
    \/ \E t \in Tasks :
        \/ get(t) \/ download(t)
        \/ copy_begin(t) \/ copy_end(t) \/ copy_failed(t)
        \/ metadata(t) \/ index_insert(t) \/ evict_if_needed(t)
        \/ use(t)

CacheSpec == CacheInit /\ [][CacheNext]_cacheVars

-----------------------------------------------------------------------------

CacheTypeOK ==
    /\ DOMAIN index \subseteq Urls /\ DOMAIN disk \subseteq Urls
    /\ pc \in [Tasks -> {"idle", "fetch", "copy", "copying", "measure", "index",
                         "evict", "use"}]
    /\ url \in [Tasks -> Urls] /\ crop \in [Tasks -> Crops]
    /\ torn \subseteq Urls /\ rescanned \in BOOLEAN

\* A hit can be opened: an indexed file is on disk.  The one exception is a
\* file that was evicted or cleared while another task was inserting it again
\* (insert works without the lock until it indexes).
IndexedIsOnDisk ==
    \A u \in DOMAIN index : u \in DOMAIN disk \/ u \in torn

\* The entries fit the soft cap whenever no insert is about to evict; after a
\* restart, open() evicts nothing, and the first insert restores the cap
\* (evict_if_needed).
WithinBudget ==
    \/ max_bytes = 0
    \/ Total(index) <= max_bytes
    \/ rescanned
    \/ \E t \in Tasks : pc[t] = "evict"

\* Downloader::download: "Download the crop window described by `crop`": the
\* file a fetch answers holds that crop.
ServesTheCrop ==
    \A t \in Tasks : pc[t] = "use" /\ url[t] \in DOMAIN disk /\ disk[url[t]].crop # Partial
        => disk[url[t]].crop = crop[t]
=============================================================================
