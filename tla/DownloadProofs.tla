---------------------------- MODULE DownloadProofs ----------------------------
(***************************************************************************)
(* The way of an asset to the disk, for any number of tasks, sources and   *)
(* files: a cache hit can be opened whatever inserts, evictions, clears    *)
(* and restarts meet; the cache keeps its budget; concurrent downloads of  *)
(* a bucket share one S3 client; a file is exactly the window that was     *)
(* asked for; what is published is whole, whoever writes, fails or         *)
(* crashes; and a job at another backend is deleted only when its results  *)
(* are there.                                                              *)
(***************************************************************************)
EXTENDS FileCache, WindowDownload, OpenEoClient, FiniteSetTheorems, TLAPS

-----------------------------------------------------------------------------
(* The file cache.                                                         *)

\* A file that is being inserted is on disk, or was removed meanwhile and is
\* known to be.  Without it the step that indexes the file says nothing.
InsertingIsOnDisk ==
    \A t \in Tasks : pc[t] \in Inserting => url[t] \in DOMAIN disk \/ url[t] \in torn

CacheInv == pc \in [Tasks -> Idle \cup Inserting \cup {"evict"}] /\ IndexedIsOnDisk /\ InsertingIsOnDisk

LEMMA CacheInitInv == CacheInit => CacheInv
BY DEF CacheInit, CacheInv, Idle, Inserting, IndexedIsOnDisk, InsertingIsOnDisk, Empty

\* Steps that touch neither the index nor the disk nor what is torn.
LEMMA QuietSteps ==
    ASSUME CacheInv, NEW t \in Tasks,
           \/ download(t) \/ metadata(t) \/ get(t)
    PROVE  CacheInv'
<1> USE DEF CacheInv, Idle, Inserting, IndexedIsOnDisk, InsertingIsOnDisk, Goto
<1>1. CASE download(t)
    BY <1>1 DEF download
<1>2. CASE metadata(t)
    BY <1>2 DEF metadata
<1>3. CASE get(t)
    BY <1>3 DEF get
<1> QED BY <1>1, <1>2, <1>3

LEMMA UseStep == ASSUME CacheInv, NEW t \in Tasks, use(t) PROVE CacheInv'
<1> USE DEF CacheInv, Idle, Inserting, IndexedIsOnDisk, InsertingIsOnDisk, Goto
<1>1. PICK u \in Urls, c \in Crops : url' = [url EXCEPT ![t] = u]
    BY DEF use
<1>2. /\ pc[t] = "use" /\ pc' = [pc EXCEPT ![t] = "idle"] /\ UNCHANGED <<index, disk, torn>>
    BY DEF use
<1>3. \A s \in Tasks : s # t => url'[s] = url[s] /\ pc'[s] = pc[s]
    BY <1>1, <1>2
<1>4. pc'[t] = "idle"
    BY <1>2
<1> QED BY <1>2, <1>3, <1>4

\* A copy only ever adds its file to the disk.
LEMMA CopySteps ==
    ASSUME CacheInv, NEW t \in Tasks, copy_begin(t) \/ copy_end(t) \/ copy_failed(t)
    PROVE  CacheInv'
<1> USE DEF CacheInv, Idle, Inserting, IndexedIsOnDisk, InsertingIsOnDisk, Goto
<1>1. CASE copy_begin(t)
  <2>1. DOMAIN disk' = DOMAIN disk \cup {url[t]}
      BY <1>1 DEF copy_begin, Bind
  <2> QED BY <1>1, <2>1 DEF copy_begin
<1>2. CASE copy_end(t)
  <2>1. DOMAIN disk' = DOMAIN disk
      BY <1>2 DEF copy_end, Bind
  <2> QED BY <1>2, <2>1 DEF copy_end
<1>3. CASE copy_failed(t)
  <2>1. DOMAIN disk' = DOMAIN disk
      BY <1>3 DEF copy_failed
  <2> QED BY <1>3, <2>1 DEF copy_failed
<1> QED BY <1>1, <1>2, <1>3

\* The file is on disk when it is indexed, or its removal is on record.
LEMMA IndexStep == ASSUME CacheInv, NEW t \in Tasks, index_insert(t) PROVE CacheInv'
<1> USE DEF CacheInv, Idle, Inserting, IndexedIsOnDisk, InsertingIsOnDisk, Goto
<1>1. DOMAIN index' = DOMAIN index \cup {url[t]}
    BY DEF index_insert, Bind
<1>2. url[t] \in DOMAIN disk \/ url[t] \in torn
    BY DEF index_insert
<1>3. \A u \in DOMAIN disk \cup torn : u \in DOMAIN disk' \/ u \in torn'
    BY DEF index_insert
<1>4. IndexedIsOnDisk'
    BY <1>1, <1>2, <1>3
<1>5. InsertingIsOnDisk'
    BY <1>3 DEF index_insert
<1> QED BY <1>4, <1>5 DEF index_insert

\* What is removed from the disk is removed from the index, and a removal under
\* an insert is on record.
LEMMA RemovalStep ==
    ASSUME CacheInv, NEW gone \in SUBSET DOMAIN index,
           index' = Without(index, gone), disk' = Without(disk, gone),
           torn' = torn \cup TornBy(gone), UNCHANGED url,
           pc' \in [Tasks -> Idle \cup Inserting \cup {"evict"}],
           \A s \in Tasks : pc'[s] \in Inserting => pc[s] \in Inserting
    PROVE  CacheInv'
<1>1. DOMAIN index' = DOMAIN index \ gone /\ DOMAIN disk' = DOMAIN disk \ gone
    BY DEF Without
<1>2. IndexedIsOnDisk'
    BY <1>1 DEF CacheInv, IndexedIsOnDisk
<1>3. ASSUME NEW s \in Tasks, pc'[s] \in Inserting PROVE url'[s] \in DOMAIN disk' \/ url'[s] \in torn'
  <2>1. pc[s] \in Inserting /\ url'[s] = url[s]
      BY <1>3
  <2>2. url[s] \in DOMAIN disk \/ url[s] \in torn
      BY <2>1 DEF CacheInv, InsertingIsOnDisk
  <2>3. url[s] \in gone => url[s] \in TornBy(gone)
      BY <2>1 DEF TornBy
  <2> QED BY <1>1, <2>1, <2>2, <2>3
<1>4. InsertingIsOnDisk'
    BY <1>3 DEF InsertingIsOnDisk
<1> QED BY <1>2, <1>4 DEF CacheInv

LEMMA EvictStep == ASSUME CacheInv, NEW t \in Tasks, evict_if_needed(t) PROVE CacheInv'
<1>1. PICK K \in Kept(index) :
        LET gone == DOMAIN index \ K
        IN  index' = Without(index, gone) /\ disk' = Without(disk, gone) /\ torn' = torn \cup TornBy(gone)
    BY DEF evict_if_needed
<1> DEFINE gone == DOMAIN index \ K
<1>2. gone \in SUBSET DOMAIN index
    OBVIOUS
<1>3. pc' = [pc EXCEPT ![t] = "use"] /\ UNCHANGED url
    BY DEF evict_if_needed, Goto
<1>4. pc' \in [Tasks -> Idle \cup Inserting \cup {"evict"}] /\ \A s \in Tasks : pc'[s] \in Inserting => pc[s] \in Inserting
    BY <1>3 DEF CacheInv, Idle, Inserting
<1>5. index' = Without(index, gone) /\ disk' = Without(disk, gone) /\ torn' = torn \cup TornBy(gone)
    BY <1>1
<1> HIDE DEF gone
<1> QED BY <1>2, <1>3, <1>4, <1>5, RemovalStep

LEMMA ClearStep == ASSUME CacheInv, clear PROVE CacheInv'
<1>1. index' = Without(index, DOMAIN index)
    BY DEF clear, Without, Empty
<1>2. pc' = pc /\ url' = url
    BY DEF clear, taskVars
<1>3. pc' \in [Tasks -> Idle \cup Inserting \cup {"evict"}] /\ \A s \in Tasks : pc'[s] \in Inserting => pc[s] \in Inserting
    BY <1>2 DEF CacheInv
<1>4. disk' = Without(disk, DOMAIN index) /\ torn' = torn \cup TornBy(DOMAIN index)
    BY DEF clear
<1> QED BY <1>1, <1>2, <1>3, <1>4, RemovalStep

\* A restart indexes exactly what it finds, and no task is left.
LEMMA OpenStep == ASSUME CacheInv, open PROVE CacheInv'
<1>1. DOMAIN disk' = DOMAIN disk /\ DOMAIN index' = DOMAIN disk
    BY DEF open
<1>2. pc' = [s \in Tasks |-> "idle"]
    BY DEF open
<1> QED BY <1>1, <1>2 DEF CacheInv, IndexedIsOnDisk, InsertingIsOnDisk, Idle, Inserting

LEMMA CacheNextInv == CacheInv /\ [CacheNext]_cacheVars => CacheInv'
<1> SUFFICES ASSUME CacheInv, [CacheNext]_cacheVars PROVE CacheInv'
    OBVIOUS
<1>1. CASE Second
    BY <1>1 DEF Second, taskVars, CacheInv, IndexedIsOnDisk, InsertingIsOnDisk
<1>2. CASE UNCHANGED cacheVars
    BY <1>2 DEF cacheVars, taskVars, CacheInv, IndexedIsOnDisk, InsertingIsOnDisk
<1> QED
    BY <1>1, <1>2, QuietSteps, UseStep, CopySteps, IndexStep, EvictStep, ClearStep, OpenStep DEF CacheNext

\* An entry of the index has its file on disk, except where an eviction or a
\* clear removed the file while another task was inserting it again.
THEOREM IndexedFilesExist == CacheSpec => []IndexedIsOnDisk
<1>1. CacheInv => IndexedIsOnDisk
    BY DEF CacheInv
<1> QED BY <1>1, CacheInitInv, CacheNextInv, PTL DEF CacheSpec

\* An empty index takes no bytes.  The sum of the library is a recursion over
\* sets; for the empty one a single equation decides it.
LEMMA EmptySum == ASSUME NEW f, DOMAIN f = {} PROVE SumFunction(f) = 0
<1> DEFINE Body(g) == [s \in SUBSET {} |->
                         IF s = {} THEN 0 ELSE f[CHOOSE x \in s : TRUE] + g[s \ {CHOOSE x \in s : TRUE}]]
           sum == CHOOSE g : g = Body(g)
<1>1. SumFunction(f) = sum[{}]
    BY DEF SumFunction, SumFunctionOnSet, FoldFunctionOnSet, MapThenFoldSet
<1>2. SUBSET {} = {{}}
    OBVIOUS
<1>3. [s \in {{}} |-> 0] = Body([s \in {{}} |-> 0])
    BY <1>2
<1>4. sum = Body(sum)
    BY <1>3
<1>5. Body(sum)[{}] = 0
    OBVIOUS
<1> QED BY <1>1, <1>4, <1>5

\* What is kept of an index depends on the sizes alone: a hit, which only dates
\* its entry, takes nothing.
LEMMA TouchedTotal ==
    ASSUME NEW ix, NEW iy, DOMAIN ix = DOMAIN iy,
           \A u \in DOMAIN ix : ix[u].size_bytes = iy[u].size_bytes
    PROVE  Total(ix) = Total(iy)
<1>1. [u \in DOMAIN ix |-> ix[u].size_bytes] = [u \in DOMAIN iy |-> iy[u].size_bytes]
    OBVIOUS
<1> QED BY <1>1 DEF Total

\* The entries are records, and the cap holds.
BudgetInv ==
    /\ pc \in [Tasks -> Idle \cup Inserting \cup {"evict"}]
    /\ \A u \in DOMAIN index : DOMAIN index[u] = {"size_bytes", "last_access"}
    /\ WithinBudget

\* A step that leaves the index alone, or only dates an entry, while nobody
\* stops evicting.
LEMMA IndexKept ==
    ASSUME BudgetInv, UNCHANGED rescanned,
           pc' \in [Tasks -> Idle \cup Inserting \cup {"evict"}],
           \A s \in Tasks : pc[s] = "evict" => pc'[s] = "evict",
           \/ UNCHANGED index
           \/ \E u \in DOMAIN index : \E n : index' = [index EXCEPT ![u].last_access = n]
    PROVE  BudgetInv'
<1>1. /\ DOMAIN index' = DOMAIN index
      /\ \A u \in DOMAIN index : /\ DOMAIN index'[u] = {"size_bytes", "last_access"}
                                 /\ index'[u].size_bytes = index[u].size_bytes
  <2>1. CASE UNCHANGED index
      BY <2>1 DEF BudgetInv
  <2>2. ASSUME NEW u \in DOMAIN index, NEW n, index' = [index EXCEPT ![u].last_access = n]
        PROVE  /\ DOMAIN index' = DOMAIN index
               /\ \A v \in DOMAIN index : /\ DOMAIN index'[v] = {"size_bytes", "last_access"}
                                          /\ index'[v].size_bytes = index[v].size_bytes
      BY <2>2 DEF BudgetInv
  <2> QED BY <2>1, <2>2
<1>2. Total(index') = Total(index)
    BY <1>1, TouchedTotal
<1>3. WithinBudget'
    BY <1>2 DEF BudgetInv, WithinBudget
<1> QED BY <1>1, <1>3 DEF BudgetInv

LEMMA BudgetQuiet ==
    ASSUME BudgetInv, NEW t \in Tasks,
           \/ get(t) \/ download(t) \/ copy_begin(t) \/ copy_end(t) \/ copy_failed(t)
           \/ metadata(t) \/ use(t)
    PROVE  BudgetInv'
<1>1. UNCHANGED rescanned
    BY DEF get, download, copy_begin, copy_end, copy_failed, metadata, use
<1>2. \/ UNCHANGED index
      \/ \E u \in DOMAIN index : \E n : index' = [index EXCEPT ![u].last_access = n]
    BY DEF get, download, copy_begin, copy_end, copy_failed, metadata, use
<1>3. PICK from, to \in Idle \cup Inserting : pc[t] = from /\ pc' = [pc EXCEPT ![t] = to]
    BY DEF get, download, copy_begin, copy_end, copy_failed, metadata, use, Goto, Idle, Inserting
<1>4. /\ pc' \in [Tasks -> Idle \cup Inserting \cup {"evict"}]
      /\ \A s \in Tasks : pc[s] = "evict" => pc'[s] = "evict"
    BY <1>3 DEF BudgetInv, Idle, Inserting
<1> QED BY <1>1, <1>2, <1>4, IndexKept

LEMMA BudgetIndexed == ASSUME BudgetInv, NEW t \in Tasks, index_insert(t) PROVE BudgetInv'
<1>1. pc' = [pc EXCEPT ![t] = "evict"]
    BY DEF index_insert, Goto
<1>2. \A u \in DOMAIN index' : DOMAIN index'[u] = {"size_bytes", "last_access"}
    BY DEF index_insert, Bind, BudgetInv
<1> QED BY <1>1, <1>2 DEF BudgetInv, WithinBudget

\* Whatever an eviction keeps fits: that is when it stops.
LEMMA BudgetEvicted == ASSUME BudgetInv, NEW t \in Tasks, evict_if_needed(t) PROVE BudgetInv'
<1>1. PICK K \in Kept(index) : index' = Without(index, DOMAIN index \ K)
    BY DEF evict_if_needed
<1>2. max_bytes = 0 \/ Total(index') <= max_bytes
    BY <1>1 DEF Kept
<1>3. \A u \in DOMAIN index' : DOMAIN index'[u] = {"size_bytes", "last_access"}
    BY <1>1 DEF Without, BudgetInv
<1>4. pc' \in [Tasks -> Idle \cup Inserting \cup {"evict"}]
    BY DEF evict_if_needed, Goto, BudgetInv, Idle
<1> QED BY <1>2, <1>3, <1>4 DEF BudgetInv, WithinBudget

LEMMA BudgetCleared == ASSUME BudgetInv, clear PROVE BudgetInv'
<1>1. index' = Empty /\ DOMAIN index' = {} /\ UNCHANGED pc
    BY DEF clear, Empty, taskVars
<1>2. Total(index') = 0
    BY <1>1, EmptySum DEF Total
<1>3. WithinBudget'
    BY <1>2, CacheAssumption DEF WithinBudget
<1> QED BY <1>1, <1>3 DEF BudgetInv

LEMMA BudgetOpened == ASSUME BudgetInv, open PROVE BudgetInv'
<1>1. \A u \in DOMAIN index' : DOMAIN index'[u] = {"size_bytes", "last_access"}
    BY DEF open
<1> QED BY <1>1 DEF open, BudgetInv, WithinBudget, Idle

\* However hits, inserts, evictions, clears and restarts of any number of tasks
\* meet: once something was evicted, the entries fit the cap whenever nobody is
\* about to evict (orbit-cache: insert, evict_if_needed, clear, open).
THEOREM CacheKeepsItsBudget == CacheSpec => []WithinBudget
<1>1. CacheInit => BudgetInv
    BY DEF CacheInit, BudgetInv, WithinBudget, Idle, Empty
<1>2. BudgetInv /\ [CacheNext]_cacheVars => BudgetInv'
  <2> SUFFICES ASSUME BudgetInv, [CacheNext]_cacheVars PROVE BudgetInv'
      OBVIOUS
  <2>1. CASE Second \/ UNCHANGED cacheVars
    <3>1. UNCHANGED <<rescanned, pc, index>>
        BY <2>1 DEF Second, cacheVars, taskVars
    <3> QED BY <3>1, IndexKept DEF BudgetInv
  <2> QED BY <2>1, BudgetQuiet, BudgetIndexed, BudgetEvicted, BudgetCleared, BudgetOpened DEF CacheNext
<1>3. BudgetInv => WithinBudget
    BY DEF BudgetInv
<1> QED BY <1>1, <1>2, <1>3, PTL DEF CacheSpec

-----------------------------------------------------------------------------
(* The shared S3 clients.                                                  *)

Steps == {"start", "lookup", "build", "insert", "open", "fetch", "done"}
KeyOf(t) == parse_source(req[t].src).key

\* An entry of the pool is never replaced, so a task that reads through an S3
\* client has the pool's; before that it has none, or one of its own that it
\* has yet to enter.
Pooled(t) ==
    /\ at[t] \in {"lookup", "build", "insert"} => parse_source(req[t].src).kind = "S3"
    /\ at[t] \in {"start", "lookup", "build"} => client[t] = NoClient
    /\ at[t] \in {"open", "fetch", "done"} /\ client[t].kind = "s3" =>
          KeyOf(t) \in DOMAIN pool /\ client[t] = pool[KeyOf(t)]
PoolInv ==
    /\ at \in [Loads -> Steps] /\ client = [t \in Loads |-> client[t]]
    /\ \A t \in Loads : Pooled(t)

LEMMA DownloadInitInv == DownloadInit => PoolInv
BY DEF DownloadInit, PoolInv, Pooled, Steps, NoClient

\* A step of t that keeps the pool leaves the others as they are.
LEMMA OthersKeepTheirClient ==
    ASSUME PoolInv, NEW t \in Loads, NEW to \in Steps, NEW c,
           at' = [at EXCEPT ![t] = to], client' = [client EXCEPT ![t] = c], UNCHANGED <<req, pool>>,
           Pooled(t)'
    PROVE  PoolInv'
<1>1. ASSUME NEW u \in Loads, u # t PROVE Pooled(u)'
  <2>1. at'[u] = at[u] /\ client'[u] = client[u] /\ Pooled(u)
      BY <1>1 DEF PoolInv
  <2> QED BY <2>1 DEF Pooled, KeyOf
<1> QED BY <1>1 DEF PoolInv

LEMMA LocalSteps ==
    ASSUME PoolInv, NEW t \in Loads,
           \/ download_via_gdal_translate_with_crs(t) \/ InProcessGdalDownloader(t)
           \/ download_failed(t) \/ open_async_inner(t) \/ fetch_tiles(t)
    PROVE  PoolInv'
<1>1. PICK to \in {"fetch", "done"} : at' = [at EXCEPT ![t] = to]
    BY DEF download_via_gdal_translate_with_crs, InProcessGdalDownloader, download_failed, Fail,
           open_async_inner, fetch_tiles, End, Move
<1>2. at[t] \in {"start", "build", "open", "fetch"} /\ UNCHANGED <<req, client, pool>>
    BY DEF download_via_gdal_translate_with_crs, InProcessGdalDownloader, download_failed, Fail,
           open_async_inner, fetch_tiles, End, Move
<1>3. client' = [client EXCEPT ![t] = client[t]]
    BY <1>2 DEF PoolInv
<1>4. Pooled(t) /\ at'[t] = to /\ client'[t] = client[t]
    BY <1>1, <1>2 DEF PoolInv
<1>5. KeyOf(t)' = KeyOf(t) /\ NoClient.kind # "s3" /\ pool' = pool
    BY <1>2 DEF KeyOf, NoClient
<1>6. Pooled(t)'
    BY <1>1, <1>2, <1>4, <1>5 DEF Pooled
<1> QED BY <1>1, <1>2, <1>3, <1>6, OthersKeepTheirClient DEF Steps

LEMMA AsyncStep == ASSUME PoolInv, NEW t \in Loads, download_via_async_tiff(t) PROVE PoolInv'
<1>0. at[t] = "start" /\ client[t] = NoClient /\ UNCHANGED <<req, pool>>
    BY DEF download_via_async_tiff, End, Move, PoolInv, Pooled
<1>1. PICK to \in {"lookup", "open", "done"}, c \in {NoClient, [kind |-> "local"]} :
        /\ at' = [at EXCEPT ![t] = to] /\ client' = [client EXCEPT ![t] = c]
        /\ to = "lookup" => parse_source(req[t].src).kind = "S3" /\ c = NoClient
  <2>1. CASE parse_source(req[t].src).kind = "Err" \/ HintDecision(req[t]).kind = "Fallback"
    <3>1. at' = [at EXCEPT ![t] = "done"] /\ client' = client
        BY <2>1 DEF download_via_async_tiff, End, Move
    <3>2. client' = [client EXCEPT ![t] = NoClient]
        BY <1>0, <3>1 DEF PoolInv
    <3> QED BY <3>1, <3>2
  <2>2. CASE ~(parse_source(req[t].src).kind = "Err" \/ HintDecision(req[t]).kind = "Fallback")
    <3>1. /\ at' = [at EXCEPT ![t] = IF parse_source(req[t].src).kind = "S3" THEN "lookup" ELSE "open"]
          /\ client' = [client EXCEPT ![t] = IF parse_source(req[t].src).kind = "S3" THEN @ ELSE [kind |-> "local"]]
        BY <2>2 DEF download_via_async_tiff, Move
    <3> QED BY <1>0, <3>1
  <2> QED BY <2>1, <2>2
<1>2. at'[t] = to /\ client'[t] = c
    BY <1>1 DEF PoolInv
<1>3. c.kind # "s3"
  <2>1. CASE c = NoClient
      BY <2>1 DEF NoClient
  <2>2. CASE c = [kind |-> "local"]
      BY <2>2
  <2> QED BY <2>1, <2>2
<1>4. Pooled(t)'
    BY <1>0, <1>1, <1>2, <1>3 DEF Pooled
<1> QED BY <1>0, <1>1, <1>4, OthersKeepTheirClient DEF Steps

LEMMA LookupStep ==
    ASSUME PoolInv, NEW t \in Loads, shared_s3_lookup(t) \/ shared_s3_build(t)
    PROVE  PoolInv'
<1>1. CASE shared_s3_lookup(t)
  <2>1. PICK to, c :
          /\ to = IF KeyOf(t) \in DOMAIN pool THEN "open" ELSE "build"
          /\ c = IF KeyOf(t) \in DOMAIN pool THEN pool[KeyOf(t)] ELSE NoClient
          /\ at' = [at EXCEPT ![t] = to] /\ client' = [client EXCEPT ![t] = c]
      BY <1>1 DEF shared_s3_lookup, Move, KeyOf
  <2>2. at[t] = "lookup" /\ UNCHANGED <<req, pool>>
      BY <1>1 DEF shared_s3_lookup, Move
  <2>3. at'[t] = to /\ client'[t] = c /\ Pooled(t)
      BY <2>1 DEF PoolInv
  <2>4. Pooled(t)'
      BY <2>1, <2>2, <2>3 DEF Pooled, KeyOf
  <2>5. to \in Steps
      BY <2>1 DEF Steps
  <2> QED BY <2>1, <2>2, <2>4, <2>5, OthersKeepTheirClient
<1>2. CASE shared_s3_build(t)
  <2>1. /\ at[t] = "build" /\ at' = [at EXCEPT ![t] = "insert"]
        /\ client' = [client EXCEPT ![t] = [kind |-> "s3", by |-> t]] /\ UNCHANGED <<req, pool>>
      BY <1>2 DEF shared_s3_build, Move
  <2>2. at'[t] = "insert" /\ Pooled(t)
      BY <2>1 DEF PoolInv
  <2>3. Pooled(t)'
      BY <2>1, <2>2 DEF Pooled
  <2> QED BY <2>1, <2>3, OthersKeepTheirClient DEF Steps
<1> QED BY <1>1, <1>2

\* Entering a client replaces none.
LEMMA InsertStep == ASSUME PoolInv, NEW t \in Loads, shared_s3_insert(t) PROVE PoolInv'
<1>1. /\ at[t] = "insert" /\ at' = [at EXCEPT ![t] = "open"] /\ UNCHANGED req
      /\ pool' = [x \in DOMAIN pool \cup {KeyOf(t)} |-> IF x \in DOMAIN pool THEN pool[x] ELSE client[t]]
      /\ client' = [client EXCEPT ![t] = pool'[KeyOf(t)]]
    BY DEF shared_s3_insert, Move, KeyOf
<1>2. \A x \in DOMAIN pool : x \in DOMAIN pool' /\ pool'[x] = pool[x]
    BY <1>1
<1>3. Pooled(t)'
  <2>1. at'[t] = "open" /\ client'[t] = pool'[KeyOf(t)] /\ KeyOf(t) \in DOMAIN pool'
      BY <1>1 DEF PoolInv
  <2>2. KeyOf(t)' = KeyOf(t)
      BY <1>1 DEF KeyOf
  <2> QED BY <2>1, <2>2 DEF Pooled
<1>4. ASSUME NEW u \in Loads, u # t PROVE Pooled(u)'
  <2>1. at'[u] = at[u] /\ client'[u] = client[u] /\ Pooled(u) /\ KeyOf(u)' = KeyOf(u)
      BY <1>1, <1>4 DEF PoolInv, KeyOf
  <2> QED BY <1>1, <1>2, <2>1 DEF Pooled
<1> QED BY <1>1, <1>3, <1>4 DEF PoolInv, Steps

LEMMA DownloadNextInv == PoolInv /\ [DownloadNext]_downloadVars => PoolInv'
<1> SUFFICES ASSUME PoolInv, [DownloadNext]_downloadVars PROVE PoolInv'
    OBVIOUS
<1>1. CASE UNCHANGED downloadVars
    BY <1>1 DEF downloadVars, PoolInv, Pooled, KeyOf
<1> QED BY <1>1, LocalSteps, AsyncStep, LookupStep, InsertStep DEF DownloadNext

\* Downloads of one bucket read through one client, also those that met on an
\* empty pool and each built one (shared_s3_for).
THEOREM BucketsShareTheirClient == DownloadSpec => []OneClientPerBucket
<1>1. PoolInv => OneClientPerBucket
    BY DEF PoolInv, Pooled, KeyOf, OneClientPerBucket
<1> QED BY <1>1, DownloadInitInv, DownloadNextInv, PTL DEF DownloadSpec

-----------------------------------------------------------------------------
(* The downloaded window.                                                  *)

\* Division: rounding down is the greatest whole quotient.
LEMMA DivBounds ==
    ASSUME NEW a \in Int, NEW b \in Nat \ {0}
    PROVE  a \div b \in Int /\ (a \div b) * b <= a /\ a < (a \div b) * b + b
OBVIOUS

LEMMA ProductGrows ==
    ASSUME NEW x \in Int, NEW y \in Int, NEW b \in Nat \ {0}, x <= y
    PROVE  x * b <= y * b
<1>1. \A u, v \in Nat : u * v >= 0
    OBVIOUS
<1>2. (y - x) * b >= 0
    BY <1>1
<1> QED BY <1>2

LEMMA FloorGalois ==
    ASSUME NEW a \in Int, NEW b \in Nat \ {0}, NEW c \in Int
    PROVE  a \div b \in Int /\ (c * b <= a <=> c <= a \div b)
<1>1. PICK q \in Int : q = a \div b /\ q * b <= a /\ a < q * b + b
    BY DivBounds
<1>2. c <= q => c * b <= q * b
    BY ProductGrows
<1>3. c > q => (q + 1) * b <= c * b
  <2>1. c > q => q + 1 <= c
      OBVIOUS
  <2> QED BY <2>1, ProductGrows
<1>4. (q + 1) * b = q * b + b
    OBVIOUS
<1>5. c * b \in Int /\ q * b \in Int
    OBVIOUS
<1> QED BY <1>1, <1>2, <1>3, <1>4, <1>5

LEMMA ExactDiv ==
    ASSUME NEW n \in Int, NEW b \in Nat \ {0}
    PROVE  (n * b) \div b = n
<1>1. PICK q \in Int : q = (n * b) \div b
    BY DivBounds
<1>2. n <= q
    BY <1>1, FloorGalois
<1>3. q * b <= n * b
    BY <1>1, DivBounds
<1>4. n < q => (n + 1) * b <= q * b
    BY ProductGrows
<1>5. (n + 1) * b = n * b + b /\ n * b \in Int
    OBVIOUS
<1> QED BY <1>1, <1>2, <1>3, <1>4, <1>5

\* Where the window of a side begins, and how many cells it has.
FirstOf(from, s) == (1000 * from + s) \div (1000 * s)
CountOf(from, to, s) == -((-(1000 * (to - FirstOf(from, s) * s) - s)) \div (1000 * s))

\* The roundings of the window arithmetic give exactly the cells that reach in.
LEMMA WindowIsReaching ==
    ASSUME NEW from \in Int, NEW to \in Int, NEW s \in Nat \ {0}
    PROVE  /\ FirstOf(from, s) \in Int /\ CountOf(from, to, s) \in Int
           /\ Reaching(from, to, s) = FirstOf(from, s)..(FirstOf(from, s) + CountOf(from, to, s) - 1)
<1> DEFINE B == 1000 * s
           off == FirstOf(from, s)
           m == -(1000 * (to - off * s) - s)
           n == CountOf(from, to, s)
<1>1. B \in Nat \ {0}
    OBVIOUS
<1>2. off = (1000 * from + s) \div B /\ off \in Int
    BY <1>1, DivBounds DEF FirstOf
<1>3. m \in Int /\ n = -(m \div B) /\ m \div B \in Int
    BY <1>1, <1>2, DivBounds DEF CountOf
<1> HIDE DEF B, off, m, n
<1>4. ASSUME NEW c \in Int
      PROVE  /\ 1000 * ((c + 1) * s - from) > s <=> off <= c
             /\ 1000 * (to - c * s) > s <=> c < off + n
             /\ 1000 * ((c + 1) * s - from) > s => from \div s <= c
             /\ 1000 * (to - c * s) > s => c <= to \div s
  <2>1. (c + 1) * B <= 1000 * from + s <=> c + 1 <= off
      BY <1>1, <1>2, FloorGalois
  <2>2. (c + 1) * B = 1000 * ((c + 1) * s)
      BY DEF B
  <2>3. (off - c) * B <= m <=> off - c <= m \div B
      BY <1>1, <1>2, <1>3, FloorGalois
  <2>4. (off - c) * B = 1000 * (off * s) - 1000 * (c * s)
      BY <1>2 DEF B
  <2>5. m = s - 1000 * to + 1000 * (off * s)
      BY <1>2 DEF m
  <2>6. from \div s \in Int /\ ((c + 1) * s <= from <=> c + 1 <= from \div s)
      BY FloorGalois
  <2>7. to \div s \in Int /\ (c * s <= to <=> c <= to \div s)
      BY FloorGalois
  <2>8. PICK x, y, z \in Int : x = (c + 1) * s /\ y = c * s /\ z = off * s
      BY <1>2
  <2>9. 1000 * (x - from) > s <=> off <= c
      BY <1>2, <2>1, <2>2, <2>8
  <2>10. 1000 * (to - y) > s <=> c < off + n
      BY <1>2, <1>3, <2>3, <2>4, <2>5, <2>8
  <2>11. 1000 * (x - from) > s => from \div s <= c
      BY <2>6, <2>8
  <2>12. 1000 * (to - y) > s => c <= to \div s
      BY <2>7, <2>8
  <2> QED BY <2>8, <2>9, <2>10, <2>11, <2>12
<1>5. from \div s \in Int /\ to \div s \in Int
    BY DivBounds
<1>6. ASSUME NEW c PROVE c \in Reaching(from, to, s) <=> c \in off..(off + n - 1)
  <2>1. c \in Reaching(from, to, s) <=>
          /\ c \in (from \div s)..(to \div s)
          /\ 1000 * ((c + 1) * s - from) > s /\ 1000 * (to - c * s) > s
      BY DEF Reaching
  <2>2. ASSUME c \in Int PROVE c \in Reaching(from, to, s) <=> off <= c /\ c < off + n
    <3>1. off <= c /\ c < off + n <=> 1000 * ((c + 1) * s - from) > s /\ 1000 * (to - c * s) > s
        BY <1>4, <2>2
    <3>2. off <= c /\ c < off + n => c \in (from \div s)..(to \div s)
        BY <1>4, <1>5, <2>2
    <3> QED BY <2>1, <3>1, <3>2
  <2>3. c \in Reaching(from, to, s) => c \in Int
      BY <1>5, <2>1
  <2>4. c \in off..(off + n - 1) <=> c \in Int /\ off <= c /\ c < off + n
      BY <1>2, <1>3
  <2> QED BY <2>2, <2>3, <2>4
<1>7. Reaching(from, to, s) = off..(off + n - 1)
    BY <1>6, Zenon
<1>8. off \in Int /\ n \in Int
    BY <1>2, <1>3
<1> QED BY <1>7, <1>8 DEF off, n

\* The window of a box on a grid, side by side.
LEMMA GridWindow ==
    ASSUME NEW gt, gt.origin_x \in Int, gt.origin_y \in Int, gt.pix_w \in Nat \ {0}, gt.pix_h = -gt.pix_w,
           NEW c, c.min_x \in Int, c.max_x \in Int, c.min_y \in Int, c.max_y \in Int
    PROVE  native_crs_pixel_window(c, gt) =
             [col_off |-> FirstOf(c.min_x - gt.origin_x, gt.pix_w), row_off |-> FirstOf(gt.origin_y - c.max_y, gt.pix_w),
              cols |-> CountOf(c.min_x - gt.origin_x, c.max_x - gt.origin_x, gt.pix_w),
              rows |-> CountOf(gt.origin_y - c.max_y, gt.origin_y - c.min_y, gt.pix_w)]
<1>0. PICK ox, oy \in Int, s \in Nat \ {0} : gt.origin_x = ox /\ gt.origin_y = oy /\ gt.pix_w = s /\ gt.pix_h = -s
    OBVIOUS
<1> DEFINE Off(u, o, p) == FloorDiv(1000 * (u - o) + p, 1000 * p)
           Size(l, o, p, off) == CeilDiv(1000 * (l - o - off * p) - p, 1000 * p)
<1>1. /\ \A u \in Int : Off(u, ox, s) = FirstOf(u - ox, s)
      /\ \A u \in Int : Off(u, oy, -s) = FirstOf(oy - u, s)
  <2>1. ASSUME NEW u \in Int PROVE Off(u, ox, s) = FirstOf(u - ox, s)
      BY DEF FloorDiv, FirstOf
  <2>2. ASSUME NEW u \in Int PROVE Off(u, oy, -s) = FirstOf(oy - u, s)
    <3>1. Off(u, oy, -s) = (-(1000 * (u - oy) + (-s))) \div (-(1000 * (-s)))
        BY DEF FloorDiv
    <3>2. -(1000 * (u - oy) + (-s)) = 1000 * (oy - u) + s /\ -(1000 * (-s)) = 1000 * s
        OBVIOUS
    <3> QED BY <3>1, <3>2 DEF FirstOf
  <2> QED BY <2>1, <2>2
<1>2. ASSUME NEW u \in Int, NEW l \in Int PROVE Size(l, ox, s, FirstOf(u - ox, s)) = CountOf(u - ox, l - ox, s)
  <2>1. PICK off \in Int : off = FirstOf(u - ox, s)
      BY WindowIsReaching
  <2>2. Size(l, ox, s, off) = -((-(1000 * (l - ox - off * s) - s)) \div (1000 * s))
      BY DEF CeilDiv, FloorDiv
  <2>3. CountOf(u - ox, l - ox, s) = -((-(1000 * (l - ox - off * s) - s)) \div (1000 * s))
      BY <2>1 DEF CountOf
  <2> QED BY <2>1, <2>2, <2>3
<1>3. ASSUME NEW u \in Int, NEW l \in Int PROVE Size(l, oy, -s, FirstOf(oy - u, s)) = CountOf(oy - u, oy - l, s)
  <2>1. PICK off \in Int : off = FirstOf(oy - u, s)
      BY WindowIsReaching
  <2> DEFINE X == 1000 * (l - oy - off * (-s)) - (-s)
  <2>2. Size(l, oy, -s, off) = -((-(-X)) \div (-(1000 * (-s))))
      BY DEF CeilDiv, FloorDiv
  <2>3. CountOf(oy - u, oy - l, s) = -((-(1000 * (oy - l - off * s) - s)) \div (1000 * s))
      BY <2>1 DEF CountOf
  <2>4. -(-X) = -(1000 * (oy - l - off * s) - s) /\ -(1000 * (-s)) = 1000 * s
    <3>1. off * (-s) = -(off * s) /\ off * s \in Int
        OBVIOUS
    <3> QED BY <3>1
  <2> QED BY <2>1, <2>2, <2>3, <2>4
<1> HIDE DEF Off, Size
<1>4. native_crs_pixel_window(c, gt) =
        [col_off |-> Off(c.min_x, ox, s), row_off |-> Off(c.max_y, oy, -s),
         cols |-> Size(c.max_x, ox, s, Off(c.min_x, ox, s)),
         rows |-> Size(c.min_y, oy, -s, Off(c.max_y, oy, -s))]
    BY <1>0 DEF native_crs_pixel_window, Off, Size
<1>5. Off(c.min_x, ox, s) = FirstOf(c.min_x - ox, s) /\ Off(c.max_y, oy, -s) = FirstOf(oy - c.max_y, s)
    BY <1>1
<1>6. /\ Size(c.max_x, ox, s, FirstOf(c.min_x - ox, s)) = CountOf(c.min_x - ox, c.max_x - ox, s)
      /\ Size(c.min_y, oy, -s, FirstOf(oy - c.max_y, s)) = CountOf(oy - c.max_y, oy - c.min_y, s)
    BY <1>2, <1>3
<1> QED BY <1>0, <1>4, <1>5, <1>6, Zenon

\* A window is what a request asks for.
Exact(r, w) ==
    /\ w.col_off \in Int /\ w.row_off \in Int /\ w.cols \in Int /\ w.rows \in Int
    /\ AskedCols(r) = w.col_off..(w.col_off + w.cols - 1)
    /\ AskedRows(r) = w.row_off..(w.row_off + w.rows - 1)

LEMMA GridOf ==
    ASSUME NEW cog, IsCog(cog)
    PROVE  /\ ifd_geo_transform(cog).origin_x \in Int /\ ifd_geo_transform(cog).origin_y \in Int
           /\ ifd_geo_transform(cog).pix_w = cog.scale /\ ifd_geo_transform(cog).pix_h = -cog.scale
           /\ cog.scale \in Nat \ {0}
<1>1. /\ cog.scale \in Nat \ {0} /\ cog.tie.i \in Int /\ cog.tie.j \in Int /\ cog.tie.x \in Int /\ cog.tie.y \in Int
    BY DEF IsCog
<1>2. cog.tie.i * cog.scale \in Int /\ cog.tie.j * cog.scale \in Int
    BY <1>1
<1> QED BY <1>1, <1>2 DEF ifd_geo_transform

LEMMA ShiftOf ==
    ASSUME NEW r, IsRequest(r)
    PROVE  Shift(r) \in Int
BY DownloadAssumption DEF Shift, IsRequest, IsCog

\* The window of the crop's box in the source's CRS is what was asked for.
LEMMA ProjectedIsExact ==
    ASSUME NEW r, IsRequest(r), r.crop # NoCrop, NEW c,
           c.min_x = r.crop.min_x + Shift(r), c.max_x = r.crop.max_x + Shift(r),
           c.min_y = r.crop.min_y + Shift(r), c.max_y = r.crop.max_y + Shift(r)
    PROVE  Exact(r, native_crs_pixel_window(c, ifd_geo_transform(r.cog)))
<1> DEFINE gt == ifd_geo_transform(r.cog)
           w == native_crs_pixel_window(c, gt)
<1>1. PICK ox, oy \in Int : ox = gt.origin_x /\ oy = gt.origin_y
    BY GridOf DEF IsRequest
<1>2. PICK s \in Nat \ {0} : s = r.cog.scale /\ gt.pix_w = s /\ gt.pix_h = -s
    BY GridOf DEF IsRequest
<1>3. PICK d \in Int : d = Shift(r)
    BY ShiftOf
<1>4. r.crop.min_x \in Int /\ r.crop.max_x \in Int /\ r.crop.min_y \in Int /\ r.crop.max_y \in Int
    BY DEF IsRequest
<1> HIDE DEF gt
<1>5. c.min_x \in Int /\ c.max_x \in Int /\ c.min_y \in Int /\ c.max_y \in Int
    BY <1>3, <1>4
<1> DEFINE fx == c.min_x - ox
           tx == c.max_x - ox
           fy == oy - c.max_y
           ty == oy - c.min_y
<1>6. w = [col_off |-> FirstOf(fx, s), row_off |-> FirstOf(fy, s), cols |-> CountOf(fx, tx, s), rows |-> CountOf(fy, ty, s)]
  <2>1. gt.origin_x = ox /\ gt.origin_y = oy /\ gt.pix_w = s /\ gt.pix_h = -s
      BY <1>1, <1>2
  <2>2. w = [col_off |-> FirstOf(c.min_x - gt.origin_x, gt.pix_w), row_off |-> FirstOf(gt.origin_y - c.max_y, gt.pix_w),
             cols |-> CountOf(c.min_x - gt.origin_x, c.max_x - gt.origin_x, gt.pix_w),
             rows |-> CountOf(gt.origin_y - c.max_y, gt.origin_y - c.min_y, gt.pix_w)]
      BY <1>5, <2>1, GridWindow
  <2> HIDE DEF w
  <2> QED BY <2>1, <2>2, Zenon
<1>7. AskedCols(r) = Reaching(fx, tx, s) /\ AskedRows(r) = Reaching(fy, ty, s)
  <2>1. /\ r.crop.min_x - (ox - d) = fx /\ r.crop.max_x - (ox - d) = tx
        /\ (oy - d) - r.crop.max_y = fy /\ (oy - d) - r.crop.min_y = ty
      BY <1>1, <1>3, <1>4
  <2> QED BY <1>1, <1>2, <1>3, <2>1 DEF AskedCols, AskedRows, gt
<1>8. fx \in Int /\ tx \in Int /\ fy \in Int /\ ty \in Int
    BY <1>1, <1>5
<1> HIDE DEF fx, tx, fy, ty, w
<1>9. /\ FirstOf(fx, s) \in Int /\ CountOf(fx, tx, s) \in Int
      /\ Reaching(fx, tx, s) = FirstOf(fx, s)..(FirstOf(fx, s) + CountOf(fx, tx, s) - 1)
    BY <1>8, WindowIsReaching
<1>10. /\ FirstOf(fy, s) \in Int /\ CountOf(fy, ty, s) \in Int
       /\ Reaching(fy, ty, s) = FirstOf(fy, s)..(FirstOf(fy, s) + CountOf(fy, ty, s) - 1)
    BY <1>8, WindowIsReaching
<1>11. Exact(r, w)
    BY <1>6, <1>7, <1>9, <1>10 DEF Exact
<1> QED BY <1>11 DEF w, gt

\* Every cell of a window holds the source's pixel of that place, or a fill.
Filled(cog, w, px) ==
    /\ DOMAIN px = Cells(w)
    /\ \A p \in Cells(w) :
         LET c == p[1] + w.col_off
             l == p[2] + w.row_off
         IN  IF c \in 0..(cog.cols - 1) /\ l \in 0..(cog.rows - 1) THEN px[p] = <<c, l>> ELSE px[p] \in {Zero, NoData}

\* A raster of the exact window that is filled so is what was meant.
LEMMA RasterIsMeant ==
    ASSUME NEW r, IsRequest(r), NEW w, Exact(r, w), ~Degenerate(w), NEW px, Filled(r.cog, w, px), NEW srs
    PROVE  Meant(r, Raster(w, ifd_geo_transform(r.cog), srs, px))
<1> DEFINE gt == ifd_geo_transform(r.cog)
           f == Raster(w, gt, srs, px)
           col(p) == p[1] + (f.left - gt.origin_x) \div r.cog.scale
           row(p) == p[2] + (gt.origin_y - f.top) \div r.cog.scale
           co == w.col_off
           ro == w.row_off
<1>1. PICK ox, oy \in Int : ox = gt.origin_x /\ oy = gt.origin_y
    BY GridOf DEF IsRequest
<1>2. PICK s \in Nat \ {0} : s = r.cog.scale /\ gt.pix_w = s /\ gt.pix_h = -s
    BY GridOf DEF IsRequest
<1>3. co \in Int /\ ro \in Int /\ w.cols \in Int /\ w.rows \in Int /\ w.cols >= 1 /\ w.rows >= 1
    BY DEF Exact, Degenerate
<1>4. (f.left - gt.origin_x) \div r.cog.scale = co /\ (gt.origin_y - f.top) \div r.cog.scale = ro
  <2>1. f.left = ox + co * s /\ f.top = oy + ro * (-s)
      BY <1>1, <1>2 DEF Raster
  <2>2. (ox + co * s) - ox = co * s /\ oy - (oy + ro * (-s)) = ro * s
    <3>1. ro * (-s) = -(ro * s) /\ ro * s \in Int /\ co * s \in Int
        BY <1>3
    <3> QED BY <3>1
  <2>3. (co * s) \div s = co /\ (ro * s) \div s = ro
      BY <1>3, ExactDiv
  <2> HIDE DEF f, gt
  <2> QED BY <1>1, <1>2, <2>1, <2>2, <2>3
<1>5. f.cols = w.cols /\ f.rows = w.rows /\ f.px = px
    BY DEF Raster
<1> HIDE DEF f, gt, co, ro
<1>6. \A p \in Cells(w) : col(p) = p[1] + co /\ row(p) = p[2] + ro
    BY <1>4
<1>7. DOMAIN f.px = Cells(w)
    BY <1>5 DEF Filled
<1>8. \A p : p \in Cells(w) <=> p \in (0..(w.cols - 1)) \X (0..(w.rows - 1))
    BY DEF Cells
<1>9. {col(p) : p \in DOMAIN f.px} = AskedCols(r)
  <2>1. {p[1] + co : p \in Cells(w)} = co..(co + w.cols - 1)
    <3>1. ASSUME NEW p \in Cells(w) PROVE p[1] + co \in co..(co + w.cols - 1)
        BY <1>3, <1>8
    <3>2. ASSUME NEW c \in co..(co + w.cols - 1) PROVE \E p \in Cells(w) : c = p[1] + co
      <4>1. <<c - co, 0>> \in Cells(w) /\ c = <<c - co, 0>>[1] + co
          BY <1>3, <1>8
      <4> QED BY <4>1
    <3> QED BY <3>1, <3>2
  <2>2. {col(p) : p \in DOMAIN f.px} = {p[1] + co : p \in Cells(w)}
      BY <1>6, <1>7, Zenon
  <2> QED BY <2>1, <2>2 DEF Exact, co
<1>10. {row(p) : p \in DOMAIN f.px} = AskedRows(r)
  <2>1. {p[2] + ro : p \in Cells(w)} = ro..(ro + w.rows - 1)
    <3>1. ASSUME NEW p \in Cells(w) PROVE p[2] + ro \in ro..(ro + w.rows - 1)
        BY <1>3, <1>8
    <3>2. ASSUME NEW c \in ro..(ro + w.rows - 1) PROVE \E p \in Cells(w) : c = p[2] + ro
      <4>1. <<0, c - ro>> \in Cells(w) /\ c = <<0, c - ro>>[2] + ro
          BY <1>3, <1>8
      <4> QED BY <4>1
    <3> QED BY <3>1, <3>2
  <2>2. {row(p) : p \in DOMAIN f.px} = {p[2] + ro : p \in Cells(w)}
      BY <1>6, <1>7, Zenon
  <2> QED BY <2>1, <2>2 DEF Exact, ro
<1>11. f.cols = Cardinality(AskedCols(r)) /\ f.rows = Cardinality(AskedRows(r))
  <2>1. Cardinality(co..(co + w.cols - 1)) = w.cols /\ Cardinality(ro..(ro + w.rows - 1)) = w.rows
    <3>1. ASSUME NEW a \in Int, NEW n \in Int, n >= 1 PROVE Cardinality(a..(a + n - 1)) = n
      <4>1. PICK b \in Int : b = a + n - 1
          BY <3>1
      <4>2. Cardinality(a..b) = b - a + 1
          BY <3>1, <4>1, FS_Interval
      <4> QED BY <3>1, <4>1, <4>2
    <3> QED BY <1>3, <3>1
  <2> QED BY <1>5, <2>1 DEF Exact, co, ro
<1>12. ASSUME NEW p \in DOMAIN f.px
       PROVE  IF col(p) \in 0..(r.cog.cols - 1) /\ row(p) \in 0..(r.cog.rows - 1)
              THEN f.px[p] = <<col(p), row(p)>>
              ELSE f.px[p] \in {Zero, NoData}
    BY <1>5, <1>6, <1>7, Zenon DEF Filled, co, ro
<1>13. Meant(r, f)
    BY <1>9, <1>10, <1>11, <1>12, Zenon DEF Meant, gt
<1> QED BY <1>13 DEF f, gt

\* The in-process opened copies so.
LEMMA CopyIsFilled ==
    ASSUME NEW cog, IsCog(cog), NEW w, ~Degenerate(w),
           w.col_off \in Int, w.row_off \in Int, w.cols \in Int, w.rows \in Int
    PROVE  Filled(cog, w, copy_window_typed(w, cog))
<1> DEFINE px == copy_window_typed(w, cog)
           r == Read(w, cog)
           fill == IF cog.nodata THEN NoData ELSE Zero
<1>1. cog.cols \in Nat /\ cog.rows \in Nat
    BY DEF IsCog
<1>2. /\ r.col.start = Larger(w.col_off, 0) /\ r.col.end = Smaller(Larger(w.col_off + w.cols, 0), cog.cols)
      /\ r.row.start = Larger(w.row_off, 0) /\ r.row.end = Smaller(Larger(w.row_off + w.rows, 0), cog.rows)
    BY DEF Read, ReadRange
<1>3. /\ r.col.start \in Int /\ r.col.end \in Int /\ r.row.start \in Int /\ r.row.end \in Int
    BY <1>1, <1>2 DEF Larger, Smaller
<1>4. ASSUME NEW p \in Cells(w)
      PROVE  LET c == p[1] + w.col_off
                 l == p[2] + w.row_off
             IN  IF c \in 0..(cog.cols - 1) /\ l \in 0..(cog.rows - 1) THEN px[p] = <<c, l>> ELSE px[p] \in {Zero, NoData}
  <2> DEFINE c == p[1] + w.col_off
             l == p[2] + w.row_off
             c2 == p[1] - (r.col.start - w.col_off) + r.col.start
             l2 == p[2] - (r.row.start - w.row_off) + r.row.start
  <2>1. p[1] \in 0..(w.cols - 1) /\ p[2] \in 0..(w.rows - 1)
      BY DEF Cells
  <2>2. c2 = c /\ l2 = l /\ c \in Int /\ l \in Int
      BY <1>3, <2>1
  <2>3. px[p] = IF c2 \in Pixels(r.col) /\ l2 \in Pixels(r.row) THEN <<c2, l2>> ELSE fill
      BY <1>4, Zenon DEF copy_window_typed
  <2> HIDE DEF r
  <2>4. c \in Pixels(r.col) <=> c \in 0..(cog.cols - 1)
      BY <1>1, <1>2, <1>3, <2>1 DEF Pixels, Larger, Smaller
  <2>5. l \in Pixels(r.row) <=> l \in 0..(cog.rows - 1)
      BY <1>1, <1>2, <1>3, <2>1 DEF Pixels, Larger, Smaller
  <2> HIDE DEF px, c, l, c2, l2
  <2>6. IF c \in 0..(cog.cols - 1) /\ l \in 0..(cog.rows - 1) THEN px[p] = <<c, l>> ELSE px[p] = fill
      BY <2>2, <2>3, <2>4, <2>5, Zenon
  <2>7. fill \in {Zero, NoData}
      OBVIOUS
  <2> QED BY <2>6, <2>7, Zenon DEF c, l
<1>5. DOMAIN px = Cells(w)
    BY DEF copy_window_typed
<1> QED BY <1>4, <1>5, Zenon DEF Filled

\* The pixels of one side that tile n of that side fills.
TilePixels(n, width, range) == Larger(n * width, range.start)..(Smaller((n + 1) * width, range.end) - 1)

\* The tiles of a side fill the pixels of the range that is read, and no other.
LEMMA TilesCover ==
    ASSUME NEW width \in Nat, NEW range, range.start \in Int, range.end \in Int,
           tile_range(range, width) # {}, NEW c \in Int
    PROVE  (\E n \in tile_range(range, width) : c \in TilePixels(n, width, range)) <=> c \in Pixels(range)
<1>1. PICK a, b \in Int : a = range.start /\ b = range.end
    OBVIOUS
<1>2. width \in Nat \ {0} /\ a < b /\ tile_range(range, width) = (a \div width)..((b - 1) \div width)
    BY <1>1 DEF tile_range
<1>3. a \div width \in Int /\ (b - 1) \div width \in Int /\ c \div width \in Int
    BY <1>2, DivBounds
<1>4. ASSUME NEW n \in tile_range(range, width), c \in TilePixels(n, width, range) PROVE c \in Pixels(range)
  <2>1. n \in Int
      BY <1>2, <1>3
  <2>2. PICK x, y \in Int : x = n * width /\ y = (n + 1) * width
      BY <1>2, <2>1
  <2>3. c \in Larger(x, a)..(Smaller(y, b) - 1)
      BY <1>1, <1>4, <2>2 DEF TilePixels
  <2>4. a <= c /\ c <= b - 1
      BY <2>3 DEF Larger, Smaller
  <2> QED BY <1>1, <2>4 DEF Pixels
<1>5. ASSUME c \in Pixels(range) PROVE \E n \in tile_range(range, width) : c \in TilePixels(n, width, range)
  <2>1. a <= c /\ c <= b - 1
      BY <1>1, <1>5 DEF Pixels
  <2>2. PICK n \in Int : n = c \div width /\ n * width <= c /\ c < n * width + width
      BY <1>2, DivBounds
  <2>3. PICK m \in Int : m = a \div width /\ m * width <= a
      BY <1>2, DivBounds
  <2>4. m <= n
    <3>1. m * width <= c
        BY <1>2, <2>1, <2>3
    <3> QED BY <1>2, <2>2, <3>1, FloorGalois
  <2>5. n <= (b - 1) \div width
    <3>1. n * width <= b - 1
        BY <1>2, <2>1, <2>2
    <3> QED BY <1>2, <3>1, FloorGalois
  <2>6. n \in tile_range(range, width)
      BY <1>2, <1>3, <2>3, <2>4, <2>5
  <2>7. PICK x, y \in Int : x = n * width /\ y = (n + 1) * width /\ y = x + width
      BY <1>2
  <2>8. c \in Larger(x, a)..(Smaller(y, b) - 1)
      BY <1>2, <2>1, <2>2, <2>7 DEF Larger, Smaller
  <2> QED BY <1>1, <2>6, <2>7, <2>8 DEF TilePixels
<1> QED BY <1>4, <1>5

\* Stitched tiles fill a window.
LEMMA StitchIsFilled ==
    ASSUME NEW cog, IsCog(cog), NEW w, ~Degenerate(w),
           w.col_off \in Int, w.row_off \in Int, w.cols \in Int, w.rows \in Int,
           NEW X, X = tile_range(Read(w, cog).col, cog.tile_w),
           NEW Y, Y = tile_range(Read(w, cog).row, cog.tile_h), X \X Y # {}
    PROVE  \E px : Filled(cog, w, px) /\ stitch_and_write(w, cog, X \X Y) = Raster(w, ifd_geo_transform(cog), "unset", px)
<1> DEFINE r == Read(w, cog)
           px == [p \in Cells(w) |->
                    IF \E t \in X \X Y : p \in place_tile(t, w, cog)
                    THEN <<p[1] + w.col_off, p[2] + w.row_off>> ELSE Zero]
<1>1. cog.cols \in Nat /\ cog.rows \in Nat /\ cog.tile_w \in Nat /\ cog.tile_h \in Nat
    BY DEF IsCog
<1>2. /\ r.col.start = Larger(w.col_off, 0) /\ r.col.end = Smaller(Larger(w.col_off + w.cols, 0), cog.cols)
      /\ r.row.start = Larger(w.row_off, 0) /\ r.row.end = Smaller(Larger(w.row_off + w.rows, 0), cog.rows)
    BY DEF Read, ReadRange
<1>3. /\ r.col.start \in Int /\ r.col.end \in Int /\ r.row.start \in Int /\ r.row.end \in Int
    BY <1>1, <1>2 DEF Larger, Smaller
<1> DEFINE rc == r.col
           rr == r.row
<1>4. X # {} /\ Y # {}
    OBVIOUS
<1>5. stitch_and_write(w, cog, X \X Y) = Raster(w, ifd_geo_transform(cog), "unset", px)
    BY DEF stitch_and_write
<1>6. ASSUME NEW t \in X \X Y, NEW p
      PROVE  p \in place_tile(t, w, cog) <=>
               \E c \in TilePixels(t[1], cog.tile_w, rc), l \in TilePixels(t[2], cog.tile_h, rr) :
                   p = <<c - w.col_off, l - w.row_off>>
    BY DEF place_tile, TilePixels
<1>7. X = tile_range(rc, cog.tile_w) /\ Y = tile_range(rr, cog.tile_h)
    OBVIOUS
<1> HIDE DEF r, rc, rr
<1>8. ASSUME NEW p \in Cells(w)
      PROVE  LET c == p[1] + w.col_off
                 l == p[2] + w.row_off
             IN  IF c \in 0..(cog.cols - 1) /\ l \in 0..(cog.rows - 1) THEN px[p] = <<c, l>> ELSE px[p] \in {Zero, NoData}
  <2> DEFINE c == p[1] + w.col_off
             l == p[2] + w.row_off
             placed == \E t \in X \X Y : p \in place_tile(t, w, cog)
  <2>1. p[1] \in 0..(w.cols - 1) /\ p[2] \in 0..(w.rows - 1) /\ p = <<p[1], p[2]>>
      BY DEF Cells
  <2>2. c \in Int /\ l \in Int
      BY <2>1
  <2>3. c \in Pixels(rc) <=> c \in 0..(cog.cols - 1)
      BY <1>1, <1>2, <1>3, <2>1 DEF Pixels, Larger, Smaller, rc
  <2>4. l \in Pixels(rr) <=> l \in 0..(cog.rows - 1)
      BY <1>1, <1>2, <1>3, <2>1 DEF Pixels, Larger, Smaller, rr
  <2>5. (\E n \in X : c \in TilePixels(n, cog.tile_w, rc)) <=> c \in Pixels(rc)
    <3> HIDE DEF c
    <3> QED BY <1>1, <1>3, <1>4, <1>7, <2>2, TilesCover DEF rc
  <2>6. (\E n \in Y : l \in TilePixels(n, cog.tile_h, rr)) <=> l \in Pixels(rr)
    <3> HIDE DEF l
    <3> QED BY <1>1, <1>3, <1>4, <1>7, <2>2, TilesCover DEF rr
  <2>7. placed => c \in Pixels(rc) /\ l \in Pixels(rr)
    <3> SUFFICES ASSUME placed PROVE c \in Pixels(rc) /\ l \in Pixels(rr)
        OBVIOUS
    <3>1. PICK t \in X \X Y : p \in place_tile(t, w, cog)
        OBVIOUS
    <3>2. PICK c2 \in TilePixels(t[1], cog.tile_w, rc), l2 \in TilePixels(t[2], cog.tile_h, rr) :
            p = <<c2 - w.col_off, l2 - w.row_off>>
        BY <1>6, <3>1
    <3>3. c2 \in Int /\ l2 \in Int
        BY DEF TilePixels
    <3>4. c = c2 /\ l = l2
        BY <3>2, <3>3
    <3> HIDE DEF c, l
    <3>5. t[1] \in X /\ t[2] \in Y
        BY <3>1
    <3> QED BY <2>5, <2>6, <3>2, <3>4, <3>5
  <2>8. c \in Pixels(rc) /\ l \in Pixels(rr) => placed
    <3> SUFFICES ASSUME c \in Pixels(rc), l \in Pixels(rr) PROVE placed
        OBVIOUS
    <3>1. PICK n \in X, m \in Y : c \in TilePixels(n, cog.tile_w, rc) /\ l \in TilePixels(m, cog.tile_h, rr)
        BY <2>5, <2>6
    <3>2. <<n, m>> \in X \X Y /\ <<n, m>>[1] = n /\ <<n, m>>[2] = m
        OBVIOUS
    <3>3. p = <<c - w.col_off, l - w.row_off>>
        BY <2>1
    <3> HIDE DEF c, l
    <3>4. p \in place_tile(<<n, m>>, w, cog)
        BY <1>6, <3>1, <3>2, <3>3
    <3> QED BY <3>2, <3>4
  <2>9. px[p] = IF placed THEN <<c, l>> ELSE Zero
      BY <1>8, Zenon
  <2> HIDE DEF px, c, l, placed
  <2>10. IF c \in 0..(cog.cols - 1) /\ l \in 0..(cog.rows - 1) THEN px[p] = <<c, l>> ELSE px[p] = Zero
      BY <2>3, <2>4, <2>7, <2>8, <2>9, Zenon
  <2> QED BY <2>10, Zenon DEF c, l
<1>9. DOMAIN px = Cells(w)
    OBVIOUS
<1>10. Filled(cog, w, px)
    BY <1>8, <1>9, Zenon DEF Filled
<1> QED BY <1>5, <1>10, Zenon

\* The box of a window's own pixels has that window again.
LEMMA AlignedSide ==
    ASSUME NEW off \in Int, NEW n \in Int, NEW s \in Nat \ {0}
    PROVE  FirstOf(off * s, s) = off /\ CountOf(off * s, (off + n) * s, s) = n
<1> DEFINE B == 1000 * s
<1>1. B \in Nat \ {0}
    OBVIOUS
<1>2. ASSUME NEW k \in Int PROVE (k * B + s) \div B = k
  <2>1. PICK x \in Int : x = k * B /\ x + s \in Int
      BY <1>1
  <2>2. PICK q \in Int : q = (x + s) \div B
      BY <1>1, <2>1, DivBounds
  <2>3. k <= q
    <3>1. k * B <= x + s
        BY <2>1
    <3> QED BY <1>1, <2>1, <2>2, <3>1, FloorGalois
  <2>4. ~(k + 1 <= q)
    <3>1. (k + 1) * B = x + 1000 * s
        BY <2>1
    <3>2. ~((k + 1) * B <= x + s)
        BY <2>1, <3>1
    <3> HIDE DEF B
    <3> QED BY <1>1, <2>1, <2>2, <3>2, FloorGalois
  <2> QED BY <2>1, <2>2, <2>3, <2>4
<1>3. FirstOf(off * s, s) = off
  <2>1. 1000 * (off * s) + s = off * B + s
      OBVIOUS
  <2> QED BY <1>2, <2>1 DEF FirstOf
<1>4. CountOf(off * s, (off + n) * s, s) = n
  <2>1. -(1000 * ((off + n) * s - off * s) - s) = (-n) * B + s
      OBVIOUS
  <2>2. ((-n) * B + s) \div B = -n
      BY <1>2
  <2>3. -(-n) = n
      OBVIOUS
  <2> QED BY <1>3, <2>1, <2>2, <2>3 DEF CountOf
<1> QED BY <1>3, <1>4

LEMMA AlignedAgain ==
    ASSUME NEW cog, IsCog(cog), NEW w,
           w.col_off \in Int, w.row_off \in Int, w.cols \in Int, w.rows \in Int,
           NEW c,
           c.min_x = ifd_geo_transform(cog).origin_x + w.col_off * cog.scale,
           c.max_x = ifd_geo_transform(cog).origin_x + (w.col_off + w.cols) * cog.scale,
           c.max_y = ifd_geo_transform(cog).origin_y - w.row_off * cog.scale,
           c.min_y = ifd_geo_transform(cog).origin_y - (w.row_off + w.rows) * cog.scale
    PROVE  LET v == native_crs_pixel_window(c, ifd_geo_transform(cog))
           IN  v.col_off = w.col_off /\ v.row_off = w.row_off /\ v.cols = w.cols /\ v.rows = w.rows
<1> DEFINE gt == ifd_geo_transform(cog)
           v == native_crs_pixel_window(c, gt)
<1>1. PICK ox, oy \in Int : ox = gt.origin_x /\ oy = gt.origin_y
    BY GridOf
<1>2. PICK s \in Nat \ {0} : s = cog.scale /\ gt.pix_w = s /\ gt.pix_h = -s
    BY GridOf
<1>3. PICK co, ro, n, m \in Int : co = w.col_off /\ ro = w.row_off /\ n = w.cols /\ m = w.rows
    OBVIOUS
<1> HIDE DEF gt
<1>4. /\ c.min_x = ox + co * s /\ c.max_x = ox + (co + n) * s
      /\ c.max_y = oy - ro * s /\ c.min_y = oy - (ro + m) * s
    BY <1>1, <1>2, <1>3 DEF gt
<1>5. PICK x, x2, y, y2 \in Int : x = co * s /\ x2 = (co + n) * s /\ y = ro * s /\ y2 = (ro + m) * s
  <2>1. \A u \in Int : u * s \in Int
      OBVIOUS
  <2>2. co + n \in Int /\ ro + m \in Int
      OBVIOUS
  <2> QED BY <2>1, <2>2, Zenon
<1>6. /\ c.min_x \in Int /\ c.max_x \in Int /\ c.min_y \in Int /\ c.max_y \in Int
      /\ c.min_x - ox = x /\ c.max_x - ox = x2 /\ oy - c.max_y = y /\ oy - c.min_y = y2
    BY <1>1, <1>4, <1>5
<1>7. v = [col_off |-> FirstOf(x, s), row_off |-> FirstOf(y, s), cols |-> CountOf(x, x2, s), rows |-> CountOf(y, y2, s)]
  <2>1. gt.origin_x = ox /\ gt.origin_y = oy /\ gt.pix_w = s /\ gt.pix_h = -s
      BY <1>1, <1>2
  <2>2. v = [col_off |-> FirstOf(c.min_x - gt.origin_x, gt.pix_w), row_off |-> FirstOf(gt.origin_y - c.max_y, gt.pix_w),
             cols |-> CountOf(c.min_x - gt.origin_x, c.max_x - gt.origin_x, gt.pix_w),
             rows |-> CountOf(gt.origin_y - c.max_y, gt.origin_y - c.min_y, gt.pix_w)]
    <3>1. c.min_x \in Int /\ c.max_x \in Int /\ c.min_y \in Int /\ c.max_y \in Int
        BY <1>6
    <3> QED BY <2>1, <3>1, GridWindow
  <2> HIDE DEF v
  <2> QED BY <1>6, <2>1, <2>2, Zenon
<1>8. FirstOf(x, s) = co /\ CountOf(x, x2, s) = n /\ FirstOf(y, s) = ro /\ CountOf(y, y2, s) = m
  <2>1. /\ FirstOf(co * s, s) = co /\ CountOf(co * s, (co + n) * s, s) = n
        /\ FirstOf(ro * s, s) = ro /\ CountOf(ro * s, (ro + m) * s, s) = m
      BY AlignedSide, Zenon
  <2> QED BY <1>5, <2>1, Zenon
<1> QED BY <1>3, <1>7, <1>8 DEF gt

\* A file of the in-process opened is what was meant when its window is.
LEMMA InProcessIsMeant ==
    ASSUME NEW r, IsRequest(r), NEW opened, NEW area, area # NoCrop, NEW crs, NEW c,
           c = transform_bounds(area, IF crs.kind \in {"epsg", "wkt"} THEN crs.code ELSE r.cog.crs, r.cog.crs),
           Exact(r, native_crs_pixel_window(c, ifd_geo_transform(r.cog))),
           NEW f, f = download_in_process_with_crs(opened, r.src, r.cog, area, crs), f # Nothing
    PROVE  Meant(r, f)
<1> DEFINE gt == ifd_geo_transform(r.cog)
           w == native_crs_pixel_window(c, gt)
<1> HIDE DEF gt, w
<1>1. ~Degenerate(w) /\ f = Raster(w, gt, r.cog.crs, copy_window_typed(w, r.cog))
    BY DEF download_in_process_with_crs, gt, w
<1>2. Exact(r, w) /\ IsCog(r.cog)
    BY DEF gt, w, IsRequest
<1>3. Filled(r.cog, w, copy_window_typed(w, r.cog))
    BY <1>1, <1>2, CopyIsFilled DEF Exact
<1> QED BY <1>1, <1>2, <1>3, RasterIsMeant DEF gt

\* The crop's own box, projected by whoever opens the source.
LEMMA DirectBox ==
    ASSUME NEW r, IsRequest(r), r.crop # NoCrop, NEW c,
           c = transform_bounds(r.crop, IF r.crop_crs.kind \in {"epsg", "wkt"} THEN r.crop_crs.code ELSE r.cog.crs, r.cog.crs)
    PROVE  Exact(r, native_crs_pixel_window(c, ifd_geo_transform(r.cog)))
<1> DEFINE work == IF r.crop_crs.kind \in {"epsg", "wkt"} THEN r.crop_crs.code ELSE r.cog.crs
<1>1. Offset[work] - Offset[r.cog.crs] = Shift(r)
  <2>1. Offset[r.cog.crs] \in Int
      BY DownloadAssumption DEF IsRequest, IsCog
  <2> QED BY <2>1 DEF Shift
<1>2. /\ c.min_x = r.crop.min_x + Shift(r) /\ c.max_x = r.crop.max_x + Shift(r)
      /\ c.min_y = r.crop.min_y + Shift(r) /\ c.max_y = r.crop.max_y + Shift(r)
    BY <1>1 DEF transform_bounds
<1> QED BY <1>2, ProjectedIsExact

LEMMA DirectIsMeant ==
    ASSUME NEW r, IsRequest(r), r.crop # NoCrop, NEW opened,
           NEW f, f = download_in_process_with_crs(opened, r.src, r.cog, r.crop, r.crop_crs), f # Nothing
    PROVE  Meant(r, f)
<1> DEFINE c == transform_bounds(r.crop, IF r.crop_crs.kind \in {"epsg", "wkt"} THEN r.crop_crs.code ELSE r.cog.crs, r.cog.crs)
<1>1. Exact(r, native_crs_pixel_window(c, ifd_geo_transform(r.cog)))
    BY DirectBox
<1> HIDE DEF c
<1> QED BY <1>1, InProcessIsMeant DEF c

\* What is fetched for an exact window is what was meant.
LEMMA FetchedIsMeant ==
    ASSUME NEW r, IsRequest(r), NEW w, Exact(r, w), ~Degenerate(w),
           NEW f, f = fetch_and_stitch_then_write(r, w), f # Nothing
    PROVE  Meant(r, f)
<1> DEFINE cog == r.cog
           gt == ifd_geo_transform(cog)
           native == [kind |-> "crop", min_x |-> gt.origin_x + w.col_off * gt.pix_w,
                      max_y |-> gt.origin_y + w.row_off * gt.pix_h,
                      max_x |-> gt.origin_x + (w.col_off + w.cols) * gt.pix_w,
                      min_y |-> gt.origin_y + (w.row_off + w.rows) * gt.pix_h]
           X == tile_range(Read(w, cog).col, cog.tile_w)
           Y == tile_range(Read(w, cog).row, cog.tile_h)
           none == [kind |-> "none"]
<1>1. IsCog(cog)
    BY DEF IsRequest
<1>2. w.col_off \in Int /\ w.row_off \in Int /\ w.cols \in Int /\ w.rows \in Int
    BY DEF Exact
<1>3. CASE cog.samples # 1
  <2>1. f = download_in_process_with_crs("plain", r.src, cog, native, none)
      BY <1>3 DEF fetch_and_stitch_then_write
  <2> DEFINE c == transform_bounds(native, IF none.kind \in {"epsg", "wkt"} THEN none.code ELSE cog.crs, cog.crs)
  <2>2. PICK ox, oy \in Int : ox = gt.origin_x /\ oy = gt.origin_y
      BY <1>1, GridOf
  <2>3. PICK s \in Nat \ {0} : s = cog.scale /\ gt.pix_w = s /\ gt.pix_h = -s
      BY <1>1, GridOf
  <2>4. PICK co, ro, n, m \in Int : co = w.col_off /\ ro = w.row_off /\ n = w.cols /\ m = w.rows
      BY <1>2
  <2> HIDE DEF gt
  <2>5. /\ native.min_x = ox + co * s /\ native.max_x = ox + (co + n) * s
        /\ native.max_y = oy - ro * s /\ native.min_y = oy - (ro + m) * s
    <3>1. /\ native.min_x = ox + co * s /\ native.max_x = ox + (co + n) * s
          /\ native.max_y = oy + ro * (-s) /\ native.min_y = oy + (ro + m) * (-s)
        BY <2>2, <2>3, <2>4
    <3>2. ro * (-s) = -(ro * s) /\ (ro + m) * (-s) = -((ro + m) * s) /\ ro * s \in Int /\ (ro + m) * s \in Int
        BY <2>3, <2>4
    <3> QED BY <2>2, <3>1, <3>2
  <2>6. native # NoCrop
      BY DEF NoCrop
  <2>7. PICK z \in Int : z = Offset[cog.crs]
      BY <1>1, DownloadAssumption DEF IsCog
  <2>8. native.min_x \in Int /\ native.max_x \in Int /\ native.min_y \in Int /\ native.max_y \in Int
      BY <2>2, <2>3, <2>4, <2>5
  <2> HIDE DEF native
  <2>9. c.min_x = native.min_x /\ c.max_x = native.max_x /\ c.min_y = native.min_y /\ c.max_y = native.max_y
    <3>1. c = [kind |-> "crop", min_x |-> native.min_x + (z - z), max_x |-> native.max_x + (z - z),
               min_y |-> native.min_y + (z - z), max_y |-> native.max_y + (z - z)]
        BY <2>7 DEF transform_bounds
    <3> QED BY <2>8, <3>1
  <2> HIDE DEF c
  <2> DEFINE v == native_crs_pixel_window(c, gt)
  <2>10. v.col_off = w.col_off /\ v.row_off = w.row_off /\ v.cols = w.cols /\ v.rows = w.rows
    <3>1. /\ c.min_x = gt.origin_x + w.col_off * cog.scale
          /\ c.max_x = gt.origin_x + (w.col_off + w.cols) * cog.scale
          /\ c.max_y = gt.origin_y - w.row_off * cog.scale
          /\ c.min_y = gt.origin_y - (w.row_off + w.rows) * cog.scale
        BY <2>2, <2>3, <2>4, <2>5, <2>9
    <3> QED BY <1>1, <1>2, <3>1, AlignedAgain DEF gt
  <2>11. Exact(r, v)
      BY <2>10 DEF Exact
  <2> QED BY <2>1, <2>6, <2>11, InProcessIsMeant DEF c, gt
<1>4. CASE cog.samples = 1
  <2>1. X \X Y # {} /\ f = stitch_and_write(w, cog, X \X Y)
      BY <1>4 DEF fetch_and_stitch_then_write
  <2> HIDE DEF X, Y
  <2>2. PICK px : Filled(cog, w, px) /\ f = Raster(w, gt, "unset", px)
      BY <1>1, <1>2, <2>1, StitchIsFilled DEF X, Y
  <2> QED BY <2>2, RasterIsMeant
<1> QED BY <1>3, <1>4

\* With a hint that does not contradict the file, the code a box is projected to
\* is the source's, and a box that is not projected is in the source's CRS.
LEMMA CodesAgree ==
    ASSUME NEW r, IsRequest(r), ~HintIsWrong(r)
    PROVE  LET hinted == HintDecision(r)
               found == reproject_decision(r.cog, r.crop_crs)
               code == IF hinted.kind = "EpsgToEpsg" THEN hinted.src_epsg ELSE found.src_epsg
           IN  /\ hinted.kind = "EpsgToEpsg" \/ found.kind = "EpsgToEpsg" => r.crop_crs.kind = "epsg" /\ code = r.cog.crs
               /\ found.kind \in {"None", "EpsgToEpsg", "Fallback"}
               /\ found.kind = "None" => Shift(r) = 0
<1> DEFINE hinted == HintDecision(r)
           found == reproject_decision(r.cog, r.crop_crs)
<1>1. r.crop_crs.kind \in {"none", "epsg", "wkt", "unsafe"} /\ r.cog.epsg \in {NoCode, r.cog.crs} /\ Offset[r.cog.crs] \in Int
    BY DownloadAssumption DEF IsRequest, IsCog
<1>2. hinted.kind = "EpsgToEpsg" => r.crop_crs.kind = "epsg" /\ hinted.src_epsg = r.cog.crs
  <2>1. CASE r.hint # NoCode /\ r.hint <= u16_MAX
    <3>1. hinted = classify_reproject_from_hint(r.hint, r.crop_crs) /\ r.hint = r.cog.crs
        BY <2>1 DEF HintDecision, HintIsWrong
    <3>2. hinted \in {Decision("None", NoCode), Decision("Fallback", NoCode)}
          \/ (r.crop_crs.kind = "epsg" /\ hinted = Decision("EpsgToEpsg", r.hint))
        BY <1>1, <3>1 DEF classify_reproject_from_hint
    <3>3. \A k, e : Decision(k, e).kind = k /\ Decision(k, e).src_epsg = e
        BY DEF Decision
    <3> HIDE DEF hinted
    <3> QED BY <3>1, <3>2, <3>3
  <2>2. CASE ~(r.hint # NoCode /\ r.hint <= u16_MAX)
    <3>1. hinted = Decision("no hint", NoCode)
        BY <2>2 DEF HintDecision
    <3> HIDE DEF hinted
    <3> QED BY <3>1 DEF Decision
  <2> QED BY <2>1, <2>2
<1>3. /\ found.kind \in {"None", "EpsgToEpsg", "Fallback"}
      /\ found.kind = "EpsgToEpsg" => r.crop_crs.kind = "epsg" /\ found.src_epsg = r.cog.crs
      /\ found.kind = "None" => r.crop_crs.kind = "none" \/ (r.crop_crs.kind = "epsg" /\ r.crop_crs.code = r.cog.crs)
  <2>1. CASE r.crop_crs.kind = "none"
      BY <2>1 DEF reproject_decision, Decision
  <2>2. CASE r.crop_crs.kind = "epsg"
    <3>1. CASE r.cog.epsg = NoCode
        BY <2>2, <3>1 DEF reproject_decision, Decision
    <3>2. CASE r.cog.epsg # NoCode /\ r.crop_crs.code = r.cog.epsg
        BY <1>1, <2>2, <3>2 DEF reproject_decision, Decision
    <3>3. CASE r.cog.epsg # NoCode /\ r.crop_crs.code # r.cog.epsg
        BY <1>1, <2>2, <3>3 DEF reproject_decision, Decision
    <3> QED BY <3>1, <3>2, <3>3
  <2>3. CASE r.crop_crs.kind \in {"wkt", "unsafe"}
      BY <2>3 DEF reproject_decision, Decision
  <2> QED BY <1>1, <2>1, <2>2, <2>3
<1> HIDE DEF hinted, found
<1>4. found.kind = "None" => Shift(r) = 0
    BY <1>1, <1>3 DEF Shift
<1> QED BY <1>2, <1>3, <1>4 DEF hinted, found

LEMMA OpenedIsMeant ==
    ASSUME NEW r, IsRequest(r), r.crop # NoCrop, ~HintIsWrong(r),
           NEW f, f = AfterOpen(r), f # Nothing
    PROVE  Meant(r, f)
<1> DEFINE cog == r.cog
           gt == ifd_geo_transform(cog)
           hinted == HintDecision(r)
           found == reproject_decision(cog, r.crop_crs)
           code == IF hinted.kind = "EpsgToEpsg" THEN hinted.src_epsg ELSE found.src_epsg
           projected == hinted.kind = "EpsgToEpsg" \/ found.kind = "EpsgToEpsg"
           area == IF projected THEN transform_bounds(r.crop, r.crop_crs.code, code) ELSE r.crop
           crs == IF projected THEN [kind |-> "epsg", code |-> code] ELSE r.crop_crs
           w == native_crs_pixel_window(area, gt)
<1>1. area # NoCrop
    BY DEF transform_bounds, NoCrop
<1>2. f = IF ~projected /\ found.kind = "Fallback"
          THEN download_in_process_with_crs("plain", r.src, cog, r.crop, r.crop_crs)
          ELSE IF cog.tile_w = 0 THEN download_in_process_with_crs("plain", r.src, cog, area, crs)
          ELSE IF Degenerate(w) THEN Nothing
          ELSE fetch_and_stitch_then_write(r, w)
    BY <1>1 DEF AfterOpen
<1>3. /\ projected => r.crop_crs.kind = "epsg" /\ code = cog.crs
      /\ found.kind \in {"None", "EpsgToEpsg", "Fallback"}
      /\ found.kind = "None" => Shift(r) = 0
    BY CodesAgree
<1>4. r.crop.min_x \in Int /\ r.crop.max_x \in Int /\ r.crop.min_y \in Int /\ r.crop.max_y \in Int /\ Shift(r) \in Int
    BY ShiftOf DEF IsRequest
<1>5. PICK z \in Int : z = Offset[cog.crs]
    BY DownloadAssumption DEF IsRequest, IsCog
<1>6. projected => /\ area = transform_bounds(r.crop, r.crop_crs.code, cog.crs)
                   /\ crs = [kind |-> "epsg", code |-> cog.crs]
                   /\ Offset[r.crop_crs.code] - Offset[cog.crs] = Shift(r)
    BY <1>3 DEF Shift
<1>7. ~projected => area = r.crop /\ crs = r.crop_crs
    OBVIOUS
<1>8. ~projected => found.kind \in {"None", "Fallback"}
    BY <1>3
<1> HIDE DEF projected, area, crs, hinted, found, w
<1>9. projected \/ Shift(r) = 0 =>
        /\ area.min_x = r.crop.min_x + Shift(r) /\ area.max_x = r.crop.max_x + Shift(r)
        /\ area.min_y = r.crop.min_y + Shift(r) /\ area.max_y = r.crop.max_y + Shift(r)
  <2>1. CASE projected
      BY <1>6, <2>1 DEF transform_bounds
  <2>2. CASE ~projected /\ Shift(r) = 0
      BY <1>4, <1>7, <2>2
  <2> QED BY <2>1, <2>2
<1>10. CASE ~projected /\ found.kind = "Fallback"
    BY <1>2, <1>10, DirectIsMeant
<1>11. CASE projected \/ found.kind # "Fallback"
  <2>1. projected \/ Shift(r) = 0
      BY <1>3, <1>8, <1>11
  <2>2. CASE cog.tile_w = 0
    <3>1. f = download_in_process_with_crs("plain", r.src, cog, area, crs)
        BY <1>2, <1>11, <2>2
    <3>2. CASE ~projected
        BY <1>7, <3>1, <3>2, DirectIsMeant
    <3>3. CASE projected
      <4> DEFINE c == transform_bounds(area, IF crs.kind \in {"epsg", "wkt"} THEN crs.code ELSE cog.crs, cog.crs)
      <4>1. c = transform_bounds(area, cog.crs, cog.crs)
          BY <1>6, <3>3
      <4>2. c = [kind |-> "crop", min_x |-> area.min_x + (z - z), max_x |-> area.max_x + (z - z),
                 min_y |-> area.min_y + (z - z), max_y |-> area.max_y + (z - z)]
          BY <1>5, <4>1 DEF transform_bounds
      <4>3. /\ c.min_x = r.crop.min_x + Shift(r) /\ c.max_x = r.crop.max_x + Shift(r)
            /\ c.min_y = r.crop.min_y + Shift(r) /\ c.max_y = r.crop.max_y + Shift(r)
          BY <1>4, <1>9, <2>1, <4>2
      <4> HIDE DEF c
      <4>4. Exact(r, native_crs_pixel_window(c, gt))
          BY <4>3, ProjectedIsExact
      <4> QED BY <1>1, <3>1, <4>4, InProcessIsMeant DEF c
    <3> QED BY <3>2, <3>3
  <2>3. CASE cog.tile_w # 0
    <3>1. ~Degenerate(w) /\ f = fetch_and_stitch_then_write(r, w)
        BY <1>2, <1>11, <2>3
    <3>2. Exact(r, w)
        BY <1>9, <2>1, ProjectedIsExact DEF w
    <3> QED BY <3>1, <3>2, FetchedIsMeant
  <2> QED BY <2>2, <2>3
<1> QED BY <1>10, <1>11

-----------------------------------------------------------------------------

\* A request stays what it was, and what is done is what was meant.
WindowInv ==
    /\ req \in [Loads -> Requests] /\ at = [t \in Loads |-> at[t]] /\ file = [t \in Loads |-> file[t]]
    /\ DownloadedIsTheWindow

\* A task that ends with nothing, or with what was meant, ends well.
LEMMA EndsWell ==
    ASSUME WindowInv, NEW t \in Loads, NEW from, NEW f, End(t, from, f), UNCHANGED req,
           f # Nothing /\ req[t].crop # NoCrop /\ ~HintIsWrong(req[t]) => Meant(req[t], f)
    PROVE  WindowInv'
<1>1. at' = [at EXCEPT ![t] = "done"] /\ file' = [file EXCEPT ![t] = f]
    BY DEF End, Move
<1>2. ASSUME NEW u \in Loads, at'[u] = "done", file'[u] # Nothing, req[u].crop # NoCrop, ~HintIsWrong(req[u])
      PROVE  Meant(req[u], file'[u])
  <2>1. CASE u = t
      BY <1>1, <1>2, <2>1 DEF WindowInv
  <2>2. CASE u # t
      BY <1>1, <1>2, <2>2 DEF WindowInv, DownloadedIsTheWindow
  <2> QED BY <2>1, <2>2
<1>3. req' = req
    OBVIOUS
<1>4. DownloadedIsTheWindow'
    BY <1>2, <1>3 DEF DownloadedIsTheWindow
<1> QED BY <1>1, <1>3, <1>4 DEF WindowInv

\* A task that goes on has written nothing yet.
LEMMA GoesOn ==
    ASSUME WindowInv, NEW t \in Loads, NEW to, to # "done", at' = [at EXCEPT ![t] = to], UNCHANGED <<req, file>>
    PROVE  WindowInv'
<1>1. ASSUME NEW u \in Loads, at'[u] = "done" PROVE at[u] = "done"
    BY <1>1 DEF WindowInv
<1>2. DownloadedIsTheWindow'
    BY <1>1 DEF WindowInv, DownloadedIsTheWindow
<1> QED BY <1>2 DEF WindowInv

LEMMA WindowStep == WindowInv /\ [DownloadNext]_downloadVars => WindowInv'
<1> SUFFICES ASSUME WindowInv, [DownloadNext]_downloadVars PROVE WindowInv'
    OBVIOUS
<1>1. CASE UNCHANGED downloadVars
    BY <1>1 DEF downloadVars, WindowInv, DownloadedIsTheWindow
<1>2. ASSUME NEW t \in Loads,
             \/ download_via_gdal_translate_with_crs(t) \/ InProcessGdalDownloader(t)
             \/ download_via_async_tiff(t)
             \/ shared_s3_lookup(t) \/ shared_s3_build(t) \/ shared_s3_insert(t)
             \/ open_async_inner(t) \/ fetch_tiles(t) \/ download_failed(t)
      PROVE  WindowInv'
  <2> DEFINE r == req[t]
  <2>1. IsRequest(r)
      BY DownloadAssumption DEF WindowInv
  <2>2. CASE download_via_gdal_translate_with_crs(t)
    <3> DEFINE gt == ifd_geo_transform(r.cog)
               c == transform_bounds(r.crop, IF r.crop_crs.kind \in {"epsg", "wkt"} THEN r.crop_crs.code ELSE r.cog.crs, r.cog.crs)
               w == native_crs_pixel_window(c, gt)
               f == IF Degenerate(w) THEN Nothing ELSE Raster(w, gt, r.cog.crs, copy_window_typed(w, r.cog))
    <3>1. End(t, "start", f) /\ UNCHANGED req /\ r.crop # NoCrop
        BY <2>2 DEF download_via_gdal_translate_with_crs
    <3>2. Exact(r, w)
        BY <2>1, <3>1, DirectBox
    <3> HIDE DEF w, gt
    <3>3. ASSUME f # Nothing PROVE Meant(r, f)
      <4>1. ~Degenerate(w) /\ f = Raster(w, gt, r.cog.crs, copy_window_typed(w, r.cog))
          BY <3>3
      <4>2. Filled(r.cog, w, copy_window_typed(w, r.cog))
          BY <2>1, <3>2, <4>1, CopyIsFilled DEF Exact, IsRequest
      <4> HIDE DEF r, f
      <4> QED BY <2>1, <3>2, <4>1, <4>2, RasterIsMeant DEF gt
    <3> HIDE DEF f
    <3> QED BY <3>1, <3>3, EndsWell
  <2>3. CASE InProcessGdalDownloader(t)
    <3> DEFINE f == download_in_process_with_crs(vsi_rewrite(r.src), r.src, r.cog, r.crop, r.crop_crs)
    <3>1. End(t, "start", f) /\ UNCHANGED req
        BY <2>3 DEF InProcessGdalDownloader
    <3>2. f # Nothing /\ r.crop # NoCrop => Meant(r, f)
        BY <2>1, DirectIsMeant
    <3> HIDE DEF f
    <3> QED BY <3>1, <3>2, EndsWell
  <2>4. CASE download_via_async_tiff(t)
    <3> DEFINE f == download_in_process_with_crs("plain", r.src, r.cog, r.crop, r.crop_crs)
               to == IF parse_source(r.src).kind = "S3" THEN "lookup" ELSE "open"
    <3>1. \/ End(t, "start", f) /\ UNCHANGED req
          \/ Move(t, "start", to) /\ UNCHANGED <<req, file>>
        BY <2>4 DEF download_via_async_tiff
    <3>2. f # Nothing /\ r.crop # NoCrop => Meant(r, f)
        BY <2>1, DirectIsMeant
    <3>3. to # "done"
        OBVIOUS
    <3> HIDE DEF f, to
    <3>4. CASE End(t, "start", f) /\ UNCHANGED req
        BY <3>2, <3>4, EndsWell
    <3>5. CASE Move(t, "start", to) /\ UNCHANGED <<req, file>>
        BY <3>3, <3>5, GoesOn DEF Move
    <3> QED BY <3>1, <3>4, <3>5
  <2>5. CASE shared_s3_lookup(t) \/ shared_s3_build(t) \/ shared_s3_insert(t) \/ open_async_inner(t)
    <3>1. PICK to \in {"open", "build", "insert", "fetch"} : at' = [at EXCEPT ![t] = to] /\ UNCHANGED <<req, file>>
        BY <2>5 DEF shared_s3_lookup, shared_s3_build, shared_s3_insert, open_async_inner, Move
    <3>2. to # "done"
        OBVIOUS
    <3> QED BY <3>1, <3>2, GoesOn
  <2>6. CASE fetch_tiles(t)
    <3> DEFINE f == AfterOpen(r)
    <3>1. End(t, "fetch", f) /\ UNCHANGED req
        BY <2>6 DEF fetch_tiles
    <3>2. f # Nothing /\ r.crop # NoCrop /\ ~HintIsWrong(r) => Meant(r, f)
        BY <2>1, OpenedIsMeant
    <3> HIDE DEF f
    <3> QED BY <3>1, <3>2, EndsWell
  <2>7. CASE download_failed(t)
    <3>1. End(t, at[t], Nothing) /\ UNCHANGED req
        BY <2>7 DEF download_failed, Fail
    <3> QED BY <3>1, EndsWell
  <2> QED BY <1>2, <2>2, <2>3, <2>4, <2>5, <2>6, <2>7
<1> QED BY <1>1, <1>2 DEF DownloadNext

\* For every number of tasks, source, tiling, crop and projection: whichever
\* downloader wrote it, a file is exactly the window of the crop, with every
\* pixel of the source in its place, unless a catalog's hint contradicts the
\* source.
THEOREM DownloadsAreTheWindow == DownloadSpec => []DownloadedIsTheWindow
<1>1. DownloadInit => WindowInv
    BY DEF DownloadInit, WindowInv, DownloadedIsTheWindow
<1>2. WindowInv => DownloadedIsTheWindow
    BY DEF WindowInv
<1> QED BY <1>1, <1>2, WindowStep, PTL DEF DownloadSpec
-----------------------------------------------------------------------------
(* The files of the tools.                                                 *)

Tools == {"warp", "mosaic"}
Stages == {"idle", "start", "vrt", "get", "write", "rename", "ok", "err", "dead"}
\* Destinations the claim is about.
Calm(d) == d \notin contended /\ \A t \in Writers : order[t].dst = d => order[t].kind \notin Tools
Unused(t, d) == \A n \in DOMAIN dir : dir[n] # <<t, d>>

\* What holds of the directory whoever writes: a name leads to an inode made for
\* its destination, no two names lead to the same, and an inode is open only for
\* tasks that write that destination.
Directory ==
    /\ order \in [Writers -> [kind : Kinds \cup {"download_asset"}, dst : Paths]]
    /\ stage \in [Writers -> Stages]
    /\ body \in [Inodes -> [whole : BOOLEAN, open : SUBSET Writers]]
    /\ \A t, u \in Writers : order[t].kind \in Fetches /\ order[u].kind \in Fetches => order[t].kind = order[u].kind
    /\ \A n \in DOMAIN dir : dir[n] \in Inodes /\ dir[n][2] = n[2]
    /\ \A m, n \in DOMAIN dir : dir[m] = dir[n] => m = n
    /\ \A i \in Inodes : \A t \in body[i].open : stage[t] = "write" /\ i[2] = order[t].dst
    /\ \A t \in Writers : stage[t] \in {"start", "vrt", "get"} => Unused(t, order[t].dst)

\* Two downloads of one calm destination do not both have its part file.
Alone ==
    \A t, u \in Writers :
        t # u /\ order[t] = order[u] /\ order[t].kind \in Fetches /\ Calm(order[t].dst) =>
            ~(stage[t] \in {"write", "rename"} /\ stage[u] \in {"write", "rename"})
\* A task of a calm destination has open what its target leads to, and nothing else.
Writing ==
    /\ \A i \in Inodes : \A t \in body[i].open :
         Calm(order[t].dst) => Target(t) \in DOMAIN dir /\ i = dir[Target(t)]
    /\ \A t \in Writers : stage[t] = "write" /\ Calm(order[t].dst) =>
         Target(t) \in DOMAIN dir /\ t \in body[dir[Target(t)]].open
\* What it is about to publish is whole, and so is what is published.
Written ==
    \A t \in Writers : stage[t] = "rename" /\ Calm(order[t].dst) /\ Target(t) \in DOMAIN dir =>
         body[dir[Target(t)]].whole
Published == \A d \in Paths : Calm(d) /\ Final(d) \in DOMAIN dir => body[dir[Final(d)]].whole

FileInv == Directory /\ Alone /\ Writing /\ Written /\ Published

LEMMA AssetInitInv == AssetInit => FileInv
<1> SUFFICES ASSUME AssetInit PROVE FileInv
    OBVIOUS
<1>1. stage = [t \in Writers |-> "start"] /\ DOMAIN dir = {} /\ order \in [Writers -> [kind : Kinds, dst : Paths]]
    BY DEF AssetInit
<1>2. body \in [Inodes -> [whole : BOOLEAN, open : SUBSET Writers]] /\ \A i \in Inodes : body[i].open = {}
    BY DEF AssetInit
<1>3. \A t, u \in Writers : order[t].kind \in Fetches /\ order[u].kind \in Fetches => order[t].kind = order[u].kind
    BY <1>1 DEF Kinds, Fetches
<1>4. order \in [Writers -> [kind : Kinds \cup {"download_asset"}, dst : Paths]]
    BY <1>1
<1>5. Directory
    BY <1>1, <1>2, <1>3, <1>4 DEF Directory, Unused, Stages
<1> QED BY <1>1, <1>2, <1>5 DEF FileInv, Alone, Writing, Written, Published

\* A calm destination is not written in place.
LEMMA CalmTargets ==
    ASSUME Directory, NEW t \in Writers, Calm(order[t].dst)
    PROVE  /\ Target(t) = IF order[t].kind \in Fetches THEN Part(order[t].dst)
                          ELSE staging_path_for(t, order[t].dst)
           /\ \A d \in Paths : Target(t) # Final(d)
           /\ Target(t)[2] = order[t].dst /\ order[t].dst \in Paths
<1>1. order[t].kind \in Kinds \cup {"download_asset"} /\ order[t].kind \notin Tools /\ order[t].dst \in Paths
    BY DEF Directory, Calm
<1>2. Target(t) = IF order[t].kind \in Fetches THEN Part(order[t].dst) ELSE staging_path_for(t, order[t].dst)
    BY <1>1 DEF Target, Kinds, Fetches, Tools
<1> QED BY <1>1, <1>2 DEF Part, staging_path_for, Final

\* Two tasks with one target and a calm destination are downloads of one URL.
LEMMA OneTarget ==
    ASSUME Directory, NEW t \in Writers, NEW u \in Writers, t # u,
           Calm(order[t].dst), Target(t) = Target(u)
    PROVE  order[t] = order[u] /\ order[t].kind \in Fetches
<1>1. /\ order[t] \in [kind : Kinds \cup {"download_asset"}, dst : Paths]
      /\ order[u] \in [kind : Kinds \cup {"download_asset"}, dst : Paths]
    BY DEF Directory
<1>2. Target(u)[2] = order[u].dst
    BY <1>1 DEF Target, Kinds, Fetches, Part, staging_path_for, Final
<1>3. order[u].dst = order[t].dst
    BY <1>2, CalmTargets
<1>4. order[t].kind \in Fetches /\ order[u].kind \in Fetches
    BY <1>3, CalmTargets DEF Part, staging_path_for
<1>5. order[t].kind = order[u].kind
    BY <1>4 DEF Directory
<1> QED BY <1>1, <1>3, <1>4, <1>5

\* Nobody else has open what such a task writes, or is about to publish.
LEMMA OnlyWriter ==
    ASSUME FileInv, NEW t \in Writers, Calm(order[t].dst), Target(t) \in DOMAIN dir,
           stage[t] \in {"write", "rename"}, NEW u \in body[dir[Target(t)]].open
    PROVE  u = t
<1> SUFFICES ASSUME u # t PROVE FALSE
    OBVIOUS
<1>1. dir[Target(t)] \in Inodes /\ dir[Target(t)][2] = order[t].dst
    BY CalmTargets DEF FileInv, Directory
<1>2. u \in Writers /\ stage[u] = "write" /\ order[u].dst = order[t].dst
    BY <1>1 DEF FileInv, Directory
<1>3. Target(u) \in DOMAIN dir /\ dir[Target(u)] = dir[Target(t)]
    BY <1>1, <1>2 DEF FileInv, Writing
<1>4. Target(u) = Target(t)
    BY <1>3 DEF FileInv, Directory
<1>5. order[t] = order[u] /\ order[t].kind \in Fetches
    BY <1>2, <1>4, OneTarget DEF FileInv
<1> QED BY <1>2, <1>5 DEF FileInv, Alone

\* Nobody has open what is published under a calm destination.
LEMMA PublishedIsShut ==
    ASSUME FileInv, NEW d \in Paths, Calm(d), Final(d) \in DOMAIN dir
    PROVE  dir[Final(d)] \in Inodes /\ dir[Final(d)][2] = d /\ body[dir[Final(d)]].open = {}
<1>1. dir[Final(d)] \in Inodes /\ dir[Final(d)][2] = d
    BY DEF FileInv, Directory, Final
<1>2. ASSUME NEW u \in body[dir[Final(d)]].open PROVE FALSE
  <2>1. u \in Writers /\ order[u].dst = d
      BY <1>1, <1>2 DEF FileInv, Directory
  <2>2. Target(u) \in DOMAIN dir /\ dir[Target(u)] = dir[Final(d)]
      BY <1>1, <1>2, <2>1 DEF FileInv, Writing
  <2>3. Target(u) = Final(d)
      BY <2>2 DEF FileInv, Directory
  <2> QED BY <2>1, <2>3, CalmTargets DEF FileInv
<1> QED BY <1>1, <1>2

\* Steps that leave the files alone.
LEMMA QuietFiles ==
    ASSUME FileInv, NEW t \in Writers, NEW to \in Stages \ {"write", "rename"},
           stage[t] # "write", stage' = [stage EXCEPT ![t] = to], UNCHANGED <<order, dir, body, contended>>,
           to \in {"start", "vrt", "get"} => Unused(t, order[t].dst)
    PROVE  FileInv'
<1>1. \A u \in Writers : Target(u)' = Target(u)
    BY DEF Target
<1>2. \A d : Calm(d)' <=> Calm(d)
    BY DEF Calm
<1>3. \A u, d : Unused(u, d)' <=> Unused(u, d)
    BY DEF Unused
<1>4. stage' \in [Writers -> Stages] /\ stage'[t] = to /\ \A u \in Writers : u # t => stage'[u] = stage[u]
    BY DEF FileInv, Directory
<1>5. Directory'
    BY <1>3, <1>4 DEF FileInv, Directory
<1>6. Alone'
    BY <1>2, <1>4 DEF FileInv, Alone
<1>7. Writing'
  <2>1. \A i \in Inodes : body[i].open \subseteq Writers
      BY DEF FileInv, Directory
  <2> QED BY <1>1, <1>2, <1>4, <2>1 DEF FileInv, Writing
<1>8. Written'
    BY <1>1, <1>2, <1>4 DEF FileInv, Written
<1>9. Published'
    BY <1>2 DEF FileInv, Published
<1> QED BY <1>5, <1>6, <1>7, <1>8, <1>9 DEF FileInv

LEMMA BeginSteps ==
    ASSUME FileInv, NEW t \in Writers, begin(t) \/ build_vrt(t) \/ get_failed(t)
    PROVE  FileInv'
<1>1. PICK to \in {"ok", "get", "vrt", "err"} : stage' = [stage EXCEPT ![t] = to]
    BY DEF begin, build_vrt, get_failed, Step
<1>2. stage[t] \in {"start", "vrt", "get"} /\ UNCHANGED <<order, dir, body, contended>>
    BY DEF begin, build_vrt, get_failed, Step
<1>3. Unused(t, order[t].dst)
    BY <1>2 DEF FileInv, Directory
<1> QED BY <1>1, <1>2, <1>3, QuietFiles DEF Stages

LEMMA CrashStep == ASSUME FileInv, crash PROVE FileInv'
<1>1. /\ stage' = [t \in Writers |-> IF stage[t] \in {"ok", "err"} THEN stage[t] ELSE "dead"]
      /\ body' = [i \in Inodes |-> [body[i] EXCEPT !.open = {}]] /\ UNCHANGED <<order, dir, contended>>
    BY DEF crash
<1>2. /\ body' \in [Inodes -> [whole : BOOLEAN, open : SUBSET Writers]]
      /\ \A i \in Inodes : body'[i].open = {} /\ body'[i].whole = body[i].whole
    BY <1>1 DEF FileInv, Directory
<1>3. stage' \in [Writers -> Stages] /\ \A t \in Writers : stage'[t] \in {"ok", "err", "dead"}
    BY <1>1 DEF Stages
<1>4. \A d : Calm(d)' <=> Calm(d)
    BY <1>1 DEF Calm
<1>5. Directory'
    BY <1>1, <1>2, <1>3 DEF FileInv, Directory
<1>6. Published'
  <2>1. \A d \in Paths : Final(d) \in DOMAIN dir => dir[Final(d)] \in Inodes
      BY DEF FileInv, Directory
  <2> QED BY <1>1, <1>2, <1>4, <2>1 DEF FileInv, Published
<1> QED BY <1>2, <1>3, <1>5, <1>6 DEF FileInv, Alone, Writing, Written

LEMMA WriteEndStep == ASSUME FileInv, NEW t \in Writers, write_end(t) PROVE FileInv'
<1>1. /\ stage[t] = "write"
      /\ stage' = [stage EXCEPT ![t] = IF Target(t) = Final(order[t].dst) THEN "ok" ELSE "rename"]
      /\ body' = [i \in Inodes |->
                    IF i \in Held(t) THEN [whole |-> body[i].open = {t}, open |-> body[i].open \ {t}]
                    ELSE body[i]]
      /\ UNCHANGED <<order, dir, contended>>
    BY DEF write_end, Step
<1>2. /\ body' \in [Inodes -> [whole : BOOLEAN, open : SUBSET Writers]]
      /\ \A i \in Inodes : body'[i].open = body[i].open \ {t}
      /\ \A i \in Inodes : t \notin body[i].open => body'[i].whole = body[i].whole
      /\ \A i \in Inodes : body[i].open = {t} => body'[i].whole
    BY <1>1 DEF FileInv, Directory, Held
<1>3. /\ stage' \in [Writers -> Stages] /\ stage'[t] \in {"ok", "rename"}
      /\ \A u \in Writers : u # t => stage'[u] = stage[u]
    BY <1>1 DEF FileInv, Directory, Stages
<1>4. \A d : Calm(d)' <=> Calm(d)
    BY <1>1 DEF Calm
<1>5. \A u \in Writers : Target(u)' = Target(u)
    BY <1>1 DEF Target
<1>6. \A u, d : Unused(u, d)' <=> Unused(u, d)
    BY <1>1 DEF Unused
<1>7. Directory'
    BY <1>1, <1>2, <1>3, <1>6 DEF FileInv, Directory
<1>8. Alone'
    BY <1>1, <1>3, <1>4 DEF FileInv, Alone
<1>9. Writing'
  <2>1. ASSUME NEW i \in Inodes, NEW u \in body'[i].open, Calm(order[u].dst)
        PROVE  Target(u) \in DOMAIN dir /\ i = dir[Target(u)]
      BY <1>2, <2>1 DEF FileInv, Writing
  <2>2. ASSUME NEW u \in Writers, stage'[u] = "write", Calm(order[u].dst)
        PROVE  Target(u) \in DOMAIN dir /\ u \in body'[dir[Target(u)]].open
    <3>1. u # t /\ stage[u] = "write"
        BY <1>3, <2>2
    <3>2. Target(u) \in DOMAIN dir /\ u \in body[dir[Target(u)]].open /\ dir[Target(u)] \in Inodes
        BY <3>1, <2>2 DEF FileInv, Writing, Directory
    <3> QED BY <1>2, <3>1, <3>2
  <2>3. \A i \in Inodes : body'[i].open \subseteq Writers
      BY <1>2
  <2>4. order' = order /\ dir' = dir
      BY <1>1
  <2> QED BY <1>4, <1>5, <2>1, <2>2, <2>3, <2>4 DEF Writing
<1>10. Written'
  <2>1. ASSUME NEW u \in Writers, stage'[u] = "rename", Calm(order[u].dst), Target(u) \in DOMAIN dir
        PROVE  body'[dir[Target(u)]].whole
    <3>1. dir[Target(u)] \in Inodes /\ stage[u] \in {"write", "rename"}
        BY <1>1, <1>3, <2>1 DEF FileInv, Directory
    <3>2. CASE u = t
      <4>1. t \in body[dir[Target(t)]].open
          BY <1>1, <2>1, <3>2 DEF FileInv, Writing
      <4>2. \A v \in body[dir[Target(t)]].open : v = t
          BY <2>1, <3>1, <3>2, OnlyWriter
      <4>3. body[dir[Target(t)]].open = {t}
          BY <4>1, <4>2
      <4> QED BY <1>2, <3>1, <3>2, <4>3
    <3>3. CASE u # t
      <4>1. t \notin body[dir[Target(u)]].open
          BY <2>1, <3>1, <3>3, OnlyWriter
      <4>2. stage[u] = "rename"
          BY <1>3, <2>1, <3>3
      <4>3. body[dir[Target(u)]].whole
          BY <2>1, <4>2 DEF FileInv, Written
      <4> QED BY <1>2, <3>1, <4>1, <4>3
    <3> QED BY <3>2, <3>3
  <2> QED BY <1>1, <1>4, <1>5, <2>1 DEF Written
<1>11. Published'
  <2>1. ASSUME NEW d \in Paths, Calm(d), Final(d) \in DOMAIN dir PROVE body'[dir[Final(d)]].whole
    <3>1. dir[Final(d)] \in Inodes /\ dir[Final(d)][2] = d
        BY <2>1 DEF FileInv, Directory, Final
    <3>2. body[dir[Final(d)]].whole
        BY <2>1 DEF FileInv, Published
    <3>3. t \notin body[dir[Final(d)]].open
        BY <2>1, <3>1, PublishedIsShut
    <3> QED BY <1>2, <3>1, <3>2, <3>3
  <2> QED BY <1>1, <1>4, <2>1 DEF Published
<1> QED BY <1>7, <1>8, <1>9, <1>10, <1>11 DEF FileInv

\* The files of the other tasks keep what they hold, and the task's own target
\* goes where it is removed.
LEMMA WriteFailedStep == ASSUME FileInv, NEW t \in Writers, write_failed(t) PROVE FileInv'
<1>1. /\ stage[t] = "write" /\ stage' = [stage EXCEPT ![t] = "err"]
      /\ body' = [i \in Inodes |-> [body[i] EXCEPT !.open = @ \ {t}]]
      /\ dir' = (IF order[t].kind = "convert_to_cog" THEN Unlink(Target(t)) ELSE dir)
      /\ UNCHANGED <<order, contended>>
    BY DEF write_failed, Step
<1>2. /\ body' \in [Inodes -> [whole : BOOLEAN, open : SUBSET Writers]]
      /\ \A i \in Inodes : body'[i].open = body[i].open \ {t} /\ body'[i].whole = body[i].whole
    BY <1>1 DEF FileInv, Directory
<1>3. /\ stage' \in [Writers -> Stages] /\ stage'[t] = "err"
      /\ \A u \in Writers : u # t => stage'[u] = stage[u]
    BY <1>1 DEF FileInv, Directory, Stages
<1>4. \A d : Calm(d)' <=> Calm(d)
    BY <1>1 DEF Calm
<1>5. \A u \in Writers : Target(u)' = Target(u)
    BY <1>1 DEF Target
<1>6. /\ \A n \in DOMAIN dir' : n \in DOMAIN dir /\ dir'[n] = dir[n]
      /\ \A n \in DOMAIN dir : n \in DOMAIN dir' \/ (n = Target(t) /\ order[t].kind = "convert_to_cog")
    BY <1>1 DEF Unlink
<1>7. Directory'
  <2>1. \A u, d : Unused(u, d) => Unused(u, d)'
      BY <1>6 DEF Unused
  <2> QED BY <1>1, <1>2, <1>3, <1>6, <2>1 DEF FileInv, Directory
<1>8. Alone'
    BY <1>1, <1>3, <1>4 DEF FileInv, Alone
<1>9. ASSUME NEW u \in Writers, u # t, Calm(order[u].dst), Target(u) \in DOMAIN dir
      PROVE  Target(u) \in DOMAIN dir' /\ dir'[Target(u)] = dir[Target(u)]
  <2>1. Target(u) = Target(t) => order[t].kind \in Fetches
      BY <1>9, OneTarget DEF FileInv
  <2> QED BY <1>6, <1>9, <2>1 DEF Fetches
<1>10. Writing'
  <2>1. ASSUME NEW i \in Inodes, NEW u \in body'[i].open, Calm(order[u].dst)
        PROVE  Target(u) \in DOMAIN dir' /\ i = dir'[Target(u)]
    <3>1. u \in body[i].open /\ u # t /\ u \in Writers
        BY <1>2
    <3>2. Target(u) \in DOMAIN dir /\ i = dir[Target(u)]
        BY <2>1, <3>1 DEF FileInv, Writing
    <3> QED BY <1>9, <2>1, <3>1, <3>2
  <2>2. ASSUME NEW u \in Writers, stage'[u] = "write", Calm(order[u].dst)
        PROVE  Target(u) \in DOMAIN dir' /\ u \in body'[dir'[Target(u)]].open
    <3>1. u # t /\ stage[u] = "write"
        BY <1>3, <2>2
    <3>2. Target(u) \in DOMAIN dir /\ u \in body[dir[Target(u)]].open /\ dir[Target(u)] \in Inodes
        BY <3>1, <2>2 DEF FileInv, Writing, Directory
    <3>3. Target(u) \in DOMAIN dir' /\ dir'[Target(u)] = dir[Target(u)]
        BY <1>9, <2>2, <3>1, <3>2
    <3> QED BY <1>2, <3>1, <3>2, <3>3
  <2>3. \A i \in Inodes : body'[i].open \subseteq Writers
      BY <1>2
  <2> QED BY <1>1, <1>4, <1>5, <2>1, <2>2, <2>3 DEF Writing
<1>11. Written'
  <2>1. ASSUME NEW u \in Writers, stage'[u] = "rename", Calm(order[u].dst), Target(u) \in DOMAIN dir'
        PROVE  body'[dir'[Target(u)]].whole
    <3>1. stage[u] = "rename" /\ Target(u) \in DOMAIN dir /\ dir'[Target(u)] = dir[Target(u)]
        BY <1>3, <1>6, <2>1
    <3>2. dir[Target(u)] \in Inodes /\ body[dir[Target(u)]].whole
        BY <2>1, <3>1 DEF FileInv, Written, Directory
    <3> QED BY <1>2, <3>1, <3>2
  <2> QED BY <1>1, <1>4, <1>5, <2>1 DEF Written
<1>12. Published'
  <2>1. \A d \in Paths : Final(d) \in DOMAIN dir => dir[Final(d)] \in Inodes
      BY DEF FileInv, Directory
  <2> QED BY <1>2, <1>4, <1>6, <2>1 DEF FileInv, Published
<1> QED BY <1>7, <1>8, <1>10, <1>11, <1>12 DEF FileInv

\* A new file has an inode of its own; opening an existing one makes the
\* destination contended when another download has it.
LEMMA OpenTargetStep == ASSUME FileInv, NEW t \in Writers, open_target(t) PROVE FileInv'
<1>1. PICK i : i = IF Target(t) \in DOMAIN dir THEN dir[Target(t)] ELSE <<t, order[t].dst>>
    OBVIOUS
<1>2. /\ stage[t] = "get" /\ stage' = [stage EXCEPT ![t] = "write"] /\ UNCHANGED order
      /\ dir' = [x \in DOMAIN dir \cup {Target(t)} |-> IF x = Target(t) THEN i ELSE dir[x]]
      /\ body' = [body EXCEPT ![i] = [whole |-> FALSE, open |-> @.open \cup {t}]]
      /\ contended \subseteq contended'
      /\ order[t].kind \in Fetches /\ (\E u \in Writers \ {t} : order[u] = order[t] /\ stage[u] \in {"write", "rename"})
            => order[t].dst \in contended'
    BY <1>1 DEF open_target, Step
<1>3. order[t] \in [kind : Kinds \cup {"download_asset"}, dst : Paths] /\ Target(t)[2] = order[t].dst
  <2>1. order[t] \in [kind : Kinds \cup {"download_asset"}, dst : Paths]
      BY DEF FileInv, Directory
  <2> QED BY <2>1 DEF Target, Kinds, Fetches, Part, staging_path_for, Final
<1>4. i \in Inodes /\ i[2] = order[t].dst
    BY <1>1, <1>3 DEF FileInv, Directory, Inodes
<1>5. \A n \in DOMAIN dir : n # Target(t) => dir[n] # i
    BY <1>1, <1>2 DEF FileInv, Directory, Unused
<1>6. /\ DOMAIN dir' = DOMAIN dir \cup {Target(t)} /\ dir'[Target(t)] = i
      /\ \A n \in DOMAIN dir : n # Target(t) => dir'[n] = dir[n]
    BY <1>2
<1>7. /\ body' \in [Inodes -> [whole : BOOLEAN, open : SUBSET Writers]]
      /\ body'[i].open = body[i].open \cup {t}
      /\ \A j \in Inodes : j # i => body'[j] = body[j]
    BY <1>2, <1>4 DEF FileInv, Directory
<1>8. /\ stage' \in [Writers -> Stages] /\ stage'[t] = "write"
      /\ \A u \in Writers : u # t => stage'[u] = stage[u]
    BY <1>2 DEF FileInv, Directory, Stages
<1>9. /\ \A d : Calm(d)' => Calm(d)
      /\ \A u \in Writers : Calm(order[u].dst)' => Calm(order[u].dst)
    BY <1>2 DEF Calm
<1>10. \A u \in Writers : Target(u)' = Target(u)
    BY <1>2 DEF Target
<1>11. \A u \in Writers : u # t /\ Calm(order[u].dst)' /\ stage[u] \in {"write", "rename"} => Target(u) # Target(t)
  <2> SUFFICES ASSUME NEW u \in Writers, u # t, Calm(order[u].dst)', stage[u] \in {"write", "rename"},
                      Target(u) = Target(t)
               PROVE  FALSE
      OBVIOUS
  <2>1. Calm(order[u].dst)
      BY <1>9
  <2>2. order[u] = order[t] /\ order[u].kind \in Fetches
      BY <2>1, OneTarget DEF FileInv
  <2>3. order[t].dst \in contended'
      BY <1>2, <2>2
  <2> QED BY <1>2, <2>2, <2>3 DEF Calm
<1>12. Directory'
  <2>1. \A n \in DOMAIN dir' : dir'[n] \in Inodes /\ dir'[n][2] = n[2]
      BY <1>3, <1>4, <1>6 DEF FileInv, Directory
  <2>2. \A m, n \in DOMAIN dir' : dir'[m] = dir'[n] => m = n
      BY <1>5, <1>6 DEF FileInv, Directory
  <2>3. ASSUME NEW j \in Inodes, NEW u \in body'[j].open PROVE stage'[u] = "write" /\ j[2] = order[u].dst
    <3>1. CASE u = t
      <4>1. t \notin body[j].open
          BY <1>2 DEF FileInv, Directory
      <4> QED BY <1>4, <1>7, <1>8, <2>3, <3>1, <4>1
    <3>2. CASE u # t
      <4>1. u \in body[j].open /\ u \in Writers
          BY <1>7, <2>3, <3>2
      <4> QED BY <1>8, <3>2, <4>1 DEF FileInv, Directory
    <3> QED BY <3>1, <3>2
  <2>4. ASSUME NEW u \in Writers, stage'[u] \in {"start", "vrt", "get"} PROVE Unused(u, order[u].dst)'
    <3>1. u # t /\ Unused(u, order[u].dst)
        BY <1>8, <2>4 DEF FileInv, Directory
    <3>2. i # <<u, order[u].dst>>
        BY <1>1, <3>1 DEF Unused
    <3> QED BY <1>2, <1>6, <3>1, <3>2 DEF Unused
  <2>5. order' = order
      BY <1>2
  <2> QED BY <1>7, <1>8, <2>1, <2>2, <2>3, <2>4, <2>5 DEF FileInv, Directory
<1>13. Alone'
  <2> SUFFICES ASSUME NEW u \in Writers, NEW v \in Writers, u # v, order[u] = order[v], order[u].kind \in Fetches,
                      Calm(order[u].dst)', stage'[u] \in {"write", "rename"}, stage'[v] \in {"write", "rename"}
               PROVE  FALSE
    <3>1. order' = order
        BY <1>2
    <3> QED BY <3>1 DEF Alone
  <2>1. Calm(order[u].dst)
      BY <1>9
  <2>2. u # t /\ v # t => FALSE
      BY <1>8, <2>1 DEF FileInv, Alone
  <2>3. u = t \/ v = t => order[u].dst \in contended'
      BY <1>2, <1>8
  <2>4. order' = order
      BY <1>2
  <2> QED BY <2>2, <2>3, <2>4 DEF Calm
<1>14. ASSUME NEW u \in Writers, u # t, Calm(order[u].dst)', stage[u] \in {"write", "rename"}
       PROVE  /\ Target(u) \in DOMAIN dir' <=> Target(u) \in DOMAIN dir
              /\ Target(u) \in DOMAIN dir =>
                   /\ dir'[Target(u)] = dir[Target(u)] /\ dir[Target(u)] \in Inodes
                   /\ body'[dir[Target(u)]] = body[dir[Target(u)]]
  <2>1. Target(u) # Target(t)
      BY <1>11, <1>14
  <2>2. Target(u) \in DOMAIN dir => dir[Target(u)] \in Inodes /\ dir[Target(u)] # i
      BY <1>5, <2>1 DEF FileInv, Directory
  <2> QED BY <1>6, <1>7, <2>1, <2>2
<1>15. Writing'
  <2>1. ASSUME NEW j \in Inodes, NEW u \in body'[j].open, Calm(order[u].dst)'
        PROVE  Target(u) \in DOMAIN dir' /\ j = dir'[Target(u)]
    <3>1. CASE u = t
      <4>1. t \notin body[j].open
          BY <1>2 DEF FileInv, Directory
      <4>2. j = i
          BY <1>7, <2>1, <3>1, <4>1
      <4> QED BY <1>6, <3>1, <4>2
    <3>2. CASE u # t
      <4>1. u \in body[j].open /\ u \in Writers /\ stage[u] = "write" /\ Calm(order[u].dst)
          BY <1>7, <1>9, <2>1, <3>2 DEF FileInv, Directory
      <4>2. Target(u) \in DOMAIN dir /\ j = dir[Target(u)]
          BY <4>1 DEF FileInv, Writing
      <4> QED BY <1>14, <2>1, <3>2, <4>1, <4>2
    <3> QED BY <3>1, <3>2
  <2>2. ASSUME NEW u \in Writers, stage'[u] = "write", Calm(order[u].dst)'
        PROVE  Target(u) \in DOMAIN dir' /\ u \in body'[dir'[Target(u)]].open
    <3>1. CASE u = t
      <4>1. Target(t) \in DOMAIN dir' /\ dir'[Target(t)] = i /\ t \in body'[i].open
          BY <1>6, <1>7
      <4> QED BY <3>1, <4>1
    <3>2. CASE u # t
      <4>1. stage[u] = "write" /\ Calm(order[u].dst)
          BY <1>8, <1>9, <2>2, <3>2
      <4>2. Target(u) \in DOMAIN dir /\ u \in body[dir[Target(u)]].open
          BY <4>1 DEF FileInv, Writing
      <4> QED BY <1>14, <2>2, <3>2, <4>1, <4>2
    <3> QED BY <3>1, <3>2
  <2>3. \A j \in Inodes : body'[j].open \subseteq Writers
      BY <1>7
  <2>4. order' = order
      BY <1>2
  <2> QED BY <1>10, <2>1, <2>2, <2>3, <2>4 DEF Writing
<1>16. Written'
  <2>1. ASSUME NEW u \in Writers, stage'[u] = "rename", Calm(order[u].dst)', Target(u) \in DOMAIN dir'
        PROVE  body'[dir'[Target(u)]].whole
    <3>1. u # t /\ stage[u] = "rename" /\ Calm(order[u].dst)
        BY <1>8, <1>9, <2>1
    <3>2. Target(u) \in DOMAIN dir
        BY <1>14, <2>1, <3>1
    <3>3. body[dir[Target(u)]].whole
        BY <3>1, <3>2 DEF FileInv, Written
    <3> QED BY <1>14, <2>1, <3>1, <3>2, <3>3
  <2> QED BY <1>2, <1>10, <2>1 DEF Written
<1>17. Published'
  <2>1. ASSUME NEW d \in Paths, Calm(d)', Final(d) \in DOMAIN dir' PROVE body'[dir'[Final(d)]].whole
    <3>1. Calm(d)
        BY <1>9, <2>1
    <3>2. Target(t) # Final(d)
      <4>1. Target(t) = Final(d) => order[t].dst = d
          BY <1>3 DEF Final
      <4> QED BY <3>1, <4>1, CalmTargets DEF FileInv
    <3>3. Final(d) \in DOMAIN dir /\ dir'[Final(d)] = dir[Final(d)] /\ dir[Final(d)] # i
        BY <1>5, <1>6, <2>1, <3>2
    <3>4. dir[Final(d)] \in Inodes /\ body[dir[Final(d)]].whole
        BY <3>1, <3>3 DEF FileInv, Directory, Published
    <3> QED BY <1>7, <3>3, <3>4
  <2> QED BY <1>2, <2>1 DEF Published
<1> QED BY <1>12, <1>13, <1>15, <1>16, <1>17 DEF FileInv

\* What is moved to the destination was whole, and nobody has it open.
LEMMA ReplaceStep == ASSUME FileInv, NEW t \in Writers, atomic_replace(t) PROVE FileInv'
<1>0. stage[t] = "rename" /\ UNCHANGED <<order, body, contended>>
    BY DEF atomic_replace, Step
<1>1. CASE Target(t) \notin DOMAIN dir
  <2>1. stage' = [stage EXCEPT ![t] = "err"] /\ dir' = dir
      BY <1>1 DEF atomic_replace, Step
  <2> QED BY <1>0, <2>1, QuietFiles DEF Stages
<1>2. CASE Target(t) \in DOMAIN dir
  <2> DEFINE f == Final(order[t].dst)
  <2>1. /\ stage' = [stage EXCEPT ![t] = "ok"]
        /\ dir' = [x \in (DOMAIN dir \ {Target(t)}) \cup {f} |-> IF x = f THEN dir[Target(t)] ELSE dir[x]]
      BY <1>2 DEF atomic_replace, Step
  <2>2. order[t] \in [kind : Kinds \cup {"download_asset"}, dst : Paths] /\ Target(t)[2] = order[t].dst
    <3>1. order[t] \in [kind : Kinds \cup {"download_asset"}, dst : Paths]
        BY DEF FileInv, Directory
    <3> QED BY <3>1 DEF Target, Kinds, Fetches, Part, staging_path_for, Final
  <2>3. /\ DOMAIN dir' = (DOMAIN dir \ {Target(t)}) \cup {f} /\ dir'[f] = dir[Target(t)]
        /\ \A n \in DOMAIN dir' : n # f => n \in DOMAIN dir /\ n # Target(t) /\ dir'[n] = dir[n]
      BY <2>1
  <2>4. f[2] = order[t].dst /\ \A d \in Paths : Final(d) = f => d = order[t].dst
      BY DEF Final
  <2> HIDE DEF f
  <2>5. /\ stage' \in [Writers -> Stages] /\ stage'[t] = "ok"
        /\ \A u \in Writers : u # t => stage'[u] = stage[u]
      BY <2>1 DEF FileInv, Directory, Stages
  <2>6. /\ \A d : Calm(d)' <=> Calm(d)
        /\ \A u \in Writers : Calm(order[u].dst)' <=> Calm(order[u].dst)
      BY <1>0 DEF Calm
  <2>7. \A u \in Writers : Target(u)' = Target(u)
      BY <1>0 DEF Target
  <2>8. Directory'
    <3>1. \A n \in DOMAIN dir' : dir'[n] \in Inodes /\ dir'[n][2] = n[2]
        BY <1>2, <2>2, <2>3, <2>4 DEF FileInv, Directory
    <3>2. \A m, n \in DOMAIN dir' : dir'[m] = dir'[n] => m = n
        BY <1>2, <2>3 DEF FileInv, Directory
    <3>3. \A u, d : Unused(u, d) => Unused(u, d)'
        BY <1>2, <2>3 DEF Unused
    <3>4. ASSUME NEW u \in Writers, stage'[u] \in {"start", "vrt", "get"} PROVE Unused(u, order[u].dst)'
      <4>1. Unused(u, order[u].dst)
          BY <2>5, <3>4 DEF FileInv, Directory
      <4> QED BY <1>0, <3>3, <4>1
    <3>5. \A j \in Inodes : \A u \in body[j].open : stage'[u] = "write"
        BY <1>0, <2>5 DEF FileInv, Directory
    <3> QED BY <1>0, <2>5, <3>1, <3>2, <3>4, <3>5 DEF FileInv, Directory
  <2>9. Alone'
      BY <1>0, <2>5, <2>6 DEF FileInv, Alone
  <2>10. ASSUME NEW u \in Writers, u # t, Calm(order[u].dst), stage[u] \in {"write", "rename"}
         PROVE  /\ Target(u) \in DOMAIN dir' <=> Target(u) \in DOMAIN dir
                /\ Target(u) \in DOMAIN dir => dir'[Target(u)] = dir[Target(u)]
    <3>1. Target(u) # Target(t)
      <4>1. Target(u) = Target(t) => order[u] = order[t] /\ order[u].kind \in Fetches
          BY <2>10, OneTarget DEF FileInv
      <4> QED BY <1>0, <2>10, <4>1 DEF FileInv, Alone
    <3>2. Target(u) # f
        BY <2>2, <2>10, CalmTargets DEF FileInv, f
    <3> QED BY <2>3, <3>1, <3>2
  <2>11. Writing'
    <3>1. ASSUME NEW j \in Inodes, NEW u \in body[j].open, Calm(order[u].dst)
          PROVE  Target(u) \in DOMAIN dir' /\ j = dir'[Target(u)]
      <4>1. u \in Writers /\ stage[u] = "write" /\ u # t
          BY <1>0 DEF FileInv, Directory
      <4>2. Target(u) \in DOMAIN dir /\ j = dir[Target(u)]
          BY <3>1 DEF FileInv, Writing
      <4> QED BY <2>10, <3>1, <4>1, <4>2
    <3>2. ASSUME NEW u \in Writers, stage'[u] = "write", Calm(order[u].dst)
          PROVE  Target(u) \in DOMAIN dir' /\ u \in body[dir'[Target(u)]].open
      <4>1. stage[u] = "write" /\ u # t
          BY <2>5, <3>2
      <4>2. Target(u) \in DOMAIN dir /\ u \in body[dir[Target(u)]].open
          BY <3>2, <4>1 DEF FileInv, Writing
      <4> QED BY <2>10, <3>2, <4>1, <4>2
    <3>3. \A j \in Inodes : body[j].open \subseteq Writers
        BY DEF FileInv, Directory
    <3> QED BY <1>0, <2>6, <2>7, <3>1, <3>2, <3>3 DEF Writing
  <2>12. Written'
    <3>1. ASSUME NEW u \in Writers, stage'[u] = "rename", Calm(order[u].dst), Target(u) \in DOMAIN dir'
          PROVE  body[dir'[Target(u)]].whole
      <4>1. stage[u] = "rename" /\ u # t
          BY <2>5, <3>1
      <4>2. Target(u) \in DOMAIN dir /\ dir'[Target(u)] = dir[Target(u)]
          BY <2>10, <3>1, <4>1
      <4> QED BY <3>1, <4>1, <4>2 DEF FileInv, Written
    <3> QED BY <1>0, <2>6, <2>7, <3>1 DEF Written
  <2>13. Published'
    <3>1. ASSUME NEW d \in Paths, Calm(d), Final(d) \in DOMAIN dir' PROVE body[dir'[Final(d)]].whole
      <4>1. CASE Final(d) = f
        <5>1. d = order[t].dst
            BY <2>4, <4>1
        <5>2. body[dir[Target(t)]].whole
            BY <1>0, <1>2, <3>1, <5>1 DEF FileInv, Written
        <5> QED BY <2>3, <4>1, <5>2
      <4>2. CASE Final(d) # f
          BY <2>3, <3>1, <4>2 DEF FileInv, Published
      <4> QED BY <4>1, <4>2
    <3> QED BY <1>0, <2>6, <3>1 DEF Published
  <2> QED BY <2>8, <2>9, <2>11, <2>12, <2>13 DEF FileInv
<1> QED BY <1>1, <1>2

LEMMA FilesUntouched == FileInv /\ UNCHANGED assetVars => FileInv'
<1> SUFFICES ASSUME FileInv, UNCHANGED assetVars PROVE FileInv'
    OBVIOUS
<1>1. UNCHANGED <<order, stage, dir, body, contended>>
    BY DEF assetVars
<1>2. \A u \in Writers : Target(u)' = Target(u)
    BY <1>1 DEF Target
<1>3. \A d : Calm(d)' <=> Calm(d)
    BY <1>1 DEF Calm
<1>4. \A u, d : Unused(u, d)' <=> Unused(u, d)
    BY <1>1 DEF Unused
<1>5. Directory' /\ Alone'
    BY <1>1, <1>3, <1>4 DEF FileInv, Directory, Alone
<1>6. Writing'
  <2>1. \A i \in Inodes : body[i].open \subseteq Writers
      BY DEF FileInv, Directory
  <2> QED BY <1>1, <1>2, <1>3, <2>1 DEF FileInv, Writing
<1>7. Written' /\ Published'
    BY <1>1, <1>2, <1>3 DEF FileInv, Written, Published
<1> QED BY <1>5, <1>6, <1>7 DEF FileInv

LEMMA AssetNextInv == FileInv /\ [AssetNext]_assetVars => FileInv'
BY FilesUntouched, BeginSteps, CrashStep, OpenTargetStep, WriteEndStep, WriteFailedStep, ReplaceStep DEF AssetNext

LEMMA FileInvIsWhole == FileInv => PublishedIsWhole
BY DEF FileInv, Published, PublishedIsWhole, Calm, Tools

\* Whatever tasks write, fail, rename and crash in whatever order, what is under
\* a destination's name is whole, unless a tool writes it in place or two
\* downloads of one URL shared its part file (atomic.rs, stac.rs, gdal_utils.rs).
THEOREM PublishedFilesAreWhole == AssetSpec => []PublishedIsWhole
BY AssetInitInv, AssetNextInv, FileInvIsWhole, PTL DEF AssetSpec

-----------------------------------------------------------------------------
(* The openEO client.                                                      *)

\* The client's files: all of them downloads, of submitters that fetch.
Fetching ==
    /\ \A t \in Writers : order[t].kind = "download_asset"
    /\ \A t \in Writers \ Submitters : stage[t] \in {"idle", "dead"}
    /\ \A s \in Submitters : stage[s] \in {"start", "get", "write", "rename", "ok"} => doing[s] = "fetch"
    /\ \A s \in Submitters : stage[s] = "ok" => Final(order[s].dst) \in DOMAIN dir
    /\ \A s \in Submitters : \A u \in paths[s] : Final(u) \in DOMAIN dir
\* A result still to come has no inode of this submitter, unless it is in hand.
ToCome(s) ==
    /\ doing[s] \notin {"fetch", "failed", "done"} => \A u \in Paths : Unused(s, u)
    /\ doing[s] = "fetch" => \A u \in left[s] :
          Unused(s, u) \/ (order[s].dst = u /\ stage[s] \in {"write", "rename", "ok", "err", "dead"})
\* How far a call and its job have got.
Progress(s) ==
    /\ left[s] \in SUBSET Paths /\ paths[s] \in SUBSET Paths /\ elapsed[s] \in Nat
    /\ remote[s] = "deleted" => doing[s] = "done"
    /\ doing[s] = "done" => left[s] = {}
    /\ doing[s] \in {"fetch", "done"} => remote[s] \in {"finished", "deleted"}
    /\ doing[s] = "ended" => is_terminal(remote[s])
    /\ doing[s] = "sleep" => elapsed[s] <= timeout
    /\ elapsed[s] <= timeout + interval + answer
ClientTyped ==
    /\ doing = [s \in Submitters |-> doing[s]] /\ remote = [s \in Submitters |-> remote[s]]
    /\ elapsed = [s \in Submitters |-> elapsed[s]] /\ left = [s \in Submitters |-> left[s]]
    /\ paths = [s \in Submitters |-> paths[s]]
ClientInv == FileInv /\ Fetching /\ ClientTyped /\ \A s \in Submitters : ToCome(s) /\ Progress(s)

LEMMA ClientInitInv == ClientInit /\ IdleFiles => ClientInv
<1> SUFFICES ASSUME ClientInit, IdleFiles PROVE ClientInv
    OBVIOUS
<1>1. Former \in Writers /\ Former \notin Submitters
    BY ClientAssumption DEF Former
<1>2. PICK d0 \in Paths : order = [t \in Writers |-> [kind |-> "download_asset", dst |-> d0]]
  <2>1. (CHOOSE d \in Paths : TRUE) \in Paths
      BY ClientAssumption
  <2> QED BY <2>1 DEF IdleFiles
<1>3. PICK parts \in SUBSET Paths, finals \in SUBSET Paths :
         /\ parts \cap finals = {}
         /\ dir = [n \in {Part(d) : d \in parts} \cup {Final(d) : d \in finals} |-> <<Former, n[2]>>]
         /\ body = [i \in Inodes |-> [whole |-> i[1] = Former /\ i[2] \in finals, open |-> {}]]
    BY DEF IdleFiles
<1>4. stage = [t \in Writers |-> "idle"]
    BY DEF IdleFiles
<1>5. /\ body \in [Inodes -> [whole : BOOLEAN, open : SUBSET Writers]]
      /\ \A i \in Inodes : body[i].open = {} /\ body[i].whole = (i[1] = Former /\ i[2] \in finals)
    BY <1>3
<1>6. \A n \in DOMAIN dir : \E d \in Paths :
         /\ n[2] = d /\ dir[n] = <<Former, d>>
         /\ (n = Part(d) /\ d \in parts) \/ (n = Final(d) /\ d \in finals)
    BY <1>3 DEF Part, Final
<1>7. Directory
  <2>1. order \in [Writers -> [kind : Kinds \cup {"download_asset"}, dst : Paths]]
      BY <1>2
  <2>2. \A t, u \in Writers : order[t].kind = order[u].kind
      BY <1>2
  <2>3. \A n \in DOMAIN dir : dir[n] \in Inodes /\ dir[n][2] = n[2]
      BY <1>1, <1>6 DEF Inodes
  <2>4. \A m, n \in DOMAIN dir : dir[m] = dir[n] => m = n
    <3> SUFFICES ASSUME NEW m \in DOMAIN dir, NEW n \in DOMAIN dir, dir[m] = dir[n] PROVE m = n
        OBVIOUS
    <3>1. PICK d \in Paths : /\ n[2] = d /\ dir[n] = <<Former, d>>
                             /\ (n = Part(d) /\ d \in parts) \/ (n = Final(d) /\ d \in finals)
        BY <1>6
    <3>2. PICK e \in Paths : /\ m[2] = e /\ dir[m] = <<Former, e>>
                             /\ (m = Part(e) /\ e \in parts) \/ (m = Final(e) /\ e \in finals)
        BY <1>6
    <3>3. d = e
        BY <3>1, <3>2
    <3> QED BY <1>3, <3>1, <3>2, <3>3
  <2>5. stage \in [Writers -> Stages]
      BY <1>4 DEF Stages
  <2>6. \A t \in Writers : stage[t] = "idle"
      BY <1>4
  <2> QED BY <1>5, <2>1, <2>2, <2>3, <2>4, <2>5, <2>6 DEF Directory
<1>8. Published
  <2> SUFFICES ASSUME NEW d \in Paths, Final(d) \in DOMAIN dir PROVE body[dir[Final(d)]].whole
      BY DEF Published
  <2>1. d \in finals /\ dir[Final(d)] = <<Former, d>>
      BY <1>6 DEF Final, Part
  <2> QED BY <1>1, <1>5, <2>1 DEF Inodes
<1>9. FileInv
    BY <1>4, <1>5, <1>7, <1>8 DEF FileInv, Alone, Writing, Written
<1>10. \A s \in Submitters, u \in Paths : Unused(s, u)
    BY <1>1, <1>6 DEF Unused
<1>11. Fetching
    BY <1>2, <1>4, ClientAssumption DEF Fetching, ClientInit
<1>12. ClientTyped
    BY DEF ClientTyped, ClientInit
<1>13. \A s \in Submitters : ToCome(s) /\ Progress(s)
    BY <1>10, ClientAssumption DEF ToCome, Progress, ClientInit, is_terminal
<1> QED BY <1>9, <1>11, <1>12, <1>13 DEF ClientInv

\* What a step of download_asset does to the directory: no result goes, and only
\* the file in hand takes a new inode.
LEMMA DownloadSteps ==
    ASSUME FileInv, Fetching, NEW t \in Submitters,
           \/ begin(t) \/ get_failed(t) \/ open_target(t)
           \/ write_end(t) \/ write_failed(t) \/ atomic_replace(t)
    PROVE  /\ order' = order /\ stage[t] \in {"start", "get", "write", "rename"}
           /\ \E to \in {"get", "write", "rename", "ok", "err"} : stage' = [stage EXCEPT ![t] = to]
           /\ stage[t] \in {"write", "rename"} => stage'[t] \in {"rename", "ok", "err"}
           /\ stage'[t] = "ok" => Final(order[t].dst) \in DOMAIN dir'
           /\ \A d \in Paths : Final(d) \in DOMAIN dir => Final(d) \in DOMAIN dir'
           /\ \A s \in Submitters, u \in Paths : Unused(s, u) =>
                 Unused(s, u)' \/ (s = t /\ u = order[t].dst /\ stage'[t] = "write")
<1>0. t \in Writers /\ order[t].kind = "download_asset" /\ Target(t) = Part(order[t].dst)
    BY ClientAssumption DEF Fetching, Target, Fetches
<1>1. Target(t) # Final(order[t].dst) /\ \A d \in Paths : Final(d) # Target(t)
    BY <1>0 DEF Part, Final
<1>2. stage \in [Writers -> Stages]
    BY DEF FileInv, Directory
<1>3. CASE begin(t)
  <2>1. /\ stage[t] = "start" /\ UNCHANGED <<order, dir>>
        /\ stage' = [stage EXCEPT ![t] = IF Final(order[t].dst) \in DOMAIN dir THEN "ok" ELSE "get"]
      BY <1>0, <1>3 DEF begin, Step
  <2>2. \A s, u : Unused(s, u)' <=> Unused(s, u)
      BY <2>1 DEF Unused
  <2> QED BY <1>0, <1>2, <2>1, <2>2
<1>4. CASE get_failed(t)
  <2>1. stage[t] = "get" /\ UNCHANGED <<order, dir>> /\ stage' = [stage EXCEPT ![t] = "err"]
      BY <1>4 DEF get_failed, Step
  <2>2. \A s, u : Unused(s, u)' <=> Unused(s, u)
      BY <2>1 DEF Unused
  <2> QED BY <1>0, <1>2, <2>1, <2>2
<1>5. CASE open_target(t)
  <2>1. PICK i : /\ i = IF Target(t) \in DOMAIN dir THEN dir[Target(t)] ELSE <<t, order[t].dst>>
                 /\ dir' = [x \in DOMAIN dir \cup {Target(t)} |-> IF x = Target(t) THEN i ELSE dir[x]]
      BY <1>5 DEF open_target
  <2>2. stage[t] = "get" /\ order' = order /\ stage' = [stage EXCEPT ![t] = "write"]
      BY <1>5 DEF open_target, Step
  <2>3. stage'[t] = "write"
      BY <1>0, <1>2, <2>2
  <2>4. ASSUME NEW s \in Submitters, NEW u \in Paths, Unused(s, u), ~(s = t /\ u = order[t].dst)
        PROVE  Unused(s, u)'
    <3>1. i # <<s, u>>
        BY <2>1, <2>4 DEF Unused
    <3> QED BY <2>1, <2>4, <3>1 DEF Unused
  <2>5. \A d \in Paths : Final(d) \in DOMAIN dir => Final(d) \in DOMAIN dir'
      BY <2>1
  <2> QED BY <2>2, <2>3, <2>4, <2>5
<1>6. CASE write_end(t)
  <2>1. stage[t] = "write" /\ UNCHANGED <<order, dir>> /\ stage' = [stage EXCEPT ![t] = "rename"]
      BY <1>1, <1>6 DEF write_end, Step
  <2>2. \A s, u : Unused(s, u)' <=> Unused(s, u)
      BY <2>1 DEF Unused
  <2> QED BY <1>0, <1>2, <2>1, <2>2
<1>7. CASE write_failed(t)
  <2>1. stage[t] = "write" /\ UNCHANGED <<order, dir>> /\ stage' = [stage EXCEPT ![t] = "err"]
      BY <1>0, <1>7 DEF write_failed, Step
  <2>2. \A s, u : Unused(s, u)' <=> Unused(s, u)
      BY <2>1 DEF Unused
  <2> QED BY <1>0, <1>2, <2>1, <2>2
<1>8. CASE atomic_replace(t) /\ Target(t) \notin DOMAIN dir
  <2>1. stage[t] = "rename" /\ UNCHANGED <<order, dir>> /\ stage' = [stage EXCEPT ![t] = "err"]
      BY <1>8 DEF atomic_replace, Step
  <2>2. \A s, u : Unused(s, u)' <=> Unused(s, u)
      BY <2>1 DEF Unused
  <2> QED BY <1>0, <1>2, <2>1, <2>2
<1>9. CASE atomic_replace(t) /\ Target(t) \in DOMAIN dir
  <2> DEFINE f == Final(order[t].dst)
  <2>1. /\ stage[t] = "rename" /\ order' = order /\ stage' = [stage EXCEPT ![t] = "ok"]
        /\ dir' = [x \in (DOMAIN dir \ {Target(t)}) \cup {f} |-> IF x = f THEN dir[Target(t)] ELSE dir[x]]
      BY <1>9 DEF atomic_replace, Step
  <2>2. f \in DOMAIN dir' /\ \A d \in Paths : Final(d) \in DOMAIN dir => Final(d) \in DOMAIN dir'
      BY <1>1, <2>1
  <2>3. \A n \in DOMAIN dir' : \E m \in DOMAIN dir : dir'[n] = dir[m]
      BY <1>9, <2>1
  <2>4. \A s, u : Unused(s, u) => Unused(s, u)'
      BY <2>3 DEF Unused
  <2>5. stage'[t] = "ok"
      BY <1>0, <1>2, <2>1
  <2> QED BY <2>1, <2>2, <2>4, <2>5
<1> QED BY <1>3, <1>4, <1>5, <1>6, <1>7, <1>8, <1>9

LEMMA FileStepInv == ASSUME ClientInv, FileStep PROVE ClientInv'
<1>0. UNCHANGED clientVars /\ UNCHANGED <<doing, remote, elapsed, left, paths>>
    BY DEF FileStep, clientVars
<1>1. ClientTyped' /\ \A s \in Submitters : Progress(s)'
    BY <1>0 DEF ClientInv, ClientTyped, Progress
<1>2. CASE crash
  <2>1. /\ stage' = [t \in Writers |-> IF stage[t] \in {"ok", "err"} THEN stage[t] ELSE "dead"]
        /\ UNCHANGED <<order, dir>>
      BY <1>2 DEF crash
  <2>2. FileInv'
      BY <1>2, CrashStep DEF ClientInv
  <2>3. \A t \in Writers : stage'[t] = "dead" \/ (stage'[t] = stage[t] /\ stage[t] \in {"ok", "err"})
      BY <2>1
  <2>4. Fetching'
      BY <1>0, <2>1, <2>3, ClientAssumption DEF ClientInv, Fetching
  <2>5. \A s, u : Unused(s, u)' <=> Unused(s, u)
      BY <2>1 DEF Unused
  <2>6. \A s \in Submitters : ToCome(s)'
      BY <1>0, <2>1, <2>3, <2>5, ClientAssumption DEF ClientInv, ToCome
  <2> QED BY <1>1, <2>2, <2>4, <2>6 DEF ClientInv
<1>3. ASSUME NEW t \in Submitters,
             \/ begin(t) \/ get_failed(t) \/ open_target(t)
             \/ write_end(t) \/ write_failed(t) \/ atomic_replace(t)
      PROVE  ClientInv'
  <2>0. t \in Writers /\ stage \in [Writers -> Stages] /\ FileInv /\ Fetching
      BY ClientAssumption DEF ClientInv, FileInv, Directory
  <2>1. FileInv'
      BY <1>3, <2>0, BeginSteps, OpenTargetStep, WriteEndStep, WriteFailedStep, ReplaceStep
  <2>2. /\ order' = order /\ stage[t] \in {"start", "get", "write", "rename"}
        /\ \E to \in {"get", "write", "rename", "ok", "err"} : stage' = [stage EXCEPT ![t] = to]
        /\ stage[t] \in {"write", "rename"} => stage'[t] \in {"rename", "ok", "err"}
        /\ stage'[t] = "ok" => Final(order[t].dst) \in DOMAIN dir'
        /\ \A d \in Paths : Final(d) \in DOMAIN dir => Final(d) \in DOMAIN dir'
        /\ \A s \in Submitters, u \in Paths : Unused(s, u) =>
              Unused(s, u)' \/ (s = t /\ u = order[t].dst /\ stage'[t] = "write")
      BY <1>3, <2>0, DownloadSteps
  <2>3. \A u \in Writers : u # t => stage'[u] = stage[u]
      BY <2>0, <2>2
  <2>4. doing[t] = "fetch" /\ \A u \in Writers : order[u].dst \in Paths
      BY <2>0, <2>2 DEF Fetching, FileInv, Directory
  <2>5. Fetching'
    <3>1. \A s \in Submitters : stage'[s] = "ok" => Final(order[s].dst) \in DOMAIN dir'
        BY <2>0, <2>2, <2>3, <2>4, ClientAssumption DEF Fetching
    <3>2. \A s \in Submitters : \A u \in paths[s] : Final(u) \in DOMAIN dir'
        BY <2>0, <2>2 DEF Fetching, ClientInv, Progress
    <3>3. \A s \in Submitters : stage'[s] \in {"start", "get", "write", "rename", "ok"} => doing[s] = "fetch"
        BY <2>0, <2>3, <2>4, ClientAssumption DEF Fetching
    <3>4. \A u \in Writers \ Submitters : stage'[u] \in {"idle", "dead"}
        BY <2>0, <2>3 DEF Fetching
    <3> QED BY <1>0, <2>0, <2>2, <3>1, <3>2, <3>3, <3>4 DEF Fetching
  <2>6. ASSUME NEW s \in Submitters PROVE ToCome(s)'
    <3>1. ToCome(s) /\ left[s] \in SUBSET Paths /\ s \in Writers
        BY ClientAssumption DEF ClientInv, Progress
    <3>2. CASE s # t
      <4>1. stage'[s] = stage[s] /\ \A u \in Paths : Unused(s, u) => Unused(s, u)'
          BY <2>2, <2>3, <3>1, <3>2
      <4> QED BY <1>0, <2>2, <3>1, <4>1 DEF ToCome
    <3>3. CASE s = t
      <4>1. ASSUME NEW u \in left[t]
            PROVE  Unused(t, u)' \/ (order[t].dst = u /\ stage'[t] \in {"write", "rename", "ok", "err", "dead"})
        <5>1. u \in Paths /\ (Unused(t, u) \/ (order[t].dst = u /\ stage[t] \in {"write", "rename", "ok", "err", "dead"}))
            BY <2>4, <3>1, <3>3, <4>1 DEF ToCome
        <5>2. CASE Unused(t, u)
            BY <2>2, <5>1, <5>2
        <5>3. CASE order[t].dst = u /\ stage[t] \in {"write", "rename", "ok", "err", "dead"}
            BY <2>2, <5>3
        <5> QED BY <5>1, <5>2, <5>3
      <4> QED BY <1>0, <2>2, <2>4, <3>3, <4>1 DEF ToCome
    <3> QED BY <3>2, <3>3
  <2> QED BY <1>1, <2>1, <2>5, <2>6 DEF ClientInv
<1> QED BY <1>2, <1>3 DEF FileStep

\* A step of a call that leaves the files and the other calls alone.
LEMMA CallStep ==
    ASSUME ClientInv, NEW s \in Submitters, UNCHANGED <<order, stage, dir, body, contended, paths>>,
           ClientTyped',
           \A r \in Submitters : r # s =>
              doing'[r] = doing[r] /\ remote'[r] = remote[r] /\ elapsed'[r] = elapsed[r] /\ left'[r] = left[r],
           ToCome(s)', Progress(s)', doing[s] = "fetch" => doing'[s] = "fetch" \/ stage[s] \in {"idle", "err"}
    PROVE  ClientInv'
<1>1. FileInv'
    BY FilesUntouched DEF ClientInv, assetVars
<1>2. Fetching'
    BY DEF ClientInv, Fetching
<1>3. \A r \in Submitters : ToCome(r)' /\ Progress(r)'
  <2> SUFFICES ASSUME NEW r \in Submitters, r # s PROVE ToCome(r)' /\ Progress(r)'
      OBVIOUS
  <2>1. ToCome(r) /\ Progress(r)
      BY DEF ClientInv
  <2>2. \A u : Unused(r, u)' <=> Unused(r, u)
      BY DEF Unused
  <2> QED BY <2>1, <2>2 DEF ToCome, Progress
<1> QED BY <1>1, <1>2, <1>3 DEF ClientInv

\* Steps before the results are there.
LEMMA PollSteps ==
    ASSUME ClientInv, NEW s \in Submitters,
           \/ create_job(s) \/ start_job(s) \/ backend_step(s)
           \/ wait_for_completion(s) \/ get_job_failed(s) \/ sleep(s)
    PROVE  ClientInv'
<1>1. UNCHANGED <<order, stage, dir, body, contended, paths>> /\ UNCHANGED left
    BY DEF create_job, start_job, backend_step, wait_for_completion, get_job_failed, sleep, assetVars
<1>2. ToCome(s) /\ Progress(s) /\ ClientTyped
    BY DEF ClientInv
<1>3. \A u : Unused(s, u)' <=> Unused(s, u)
    BY <1>1 DEF Unused
<1>4. interval \in Nat /\ timeout \in Nat /\ answer \in Nat
    BY ClientAssumption
<1>5. CASE create_job(s)
  <2>1. /\ doing[s] = "create" /\ elapsed' = elapsed
        /\ \E to \in {"start", "failed"} : doing' = [doing EXCEPT ![s] = to]
        /\ remote' = remote \/ remote' = [remote EXCEPT ![s] = "created"]
      BY <1>5 DEF create_job, Go, Becomes
  <2>2. ToCome(s)'
      BY <1>1, <1>2, <1>3, <2>1 DEF ToCome, ClientTyped
  <2>3. Progress(s)'
      BY <1>1, <1>2, <2>1 DEF Progress, ClientTyped
  <2> QED BY <1>1, <1>2, <2>1, <2>2, <2>3, CallStep DEF ClientTyped
<1>6. CASE start_job(s)
  <2>1. /\ doing[s] = "start" /\ elapsed' = elapsed
        /\ \E to \in {"poll", "failed"} : doing' = [doing EXCEPT ![s] = to]
        /\ remote' = remote \/ remote' = [remote EXCEPT ![s] = "queued"]
      BY <1>6 DEF start_job, Go, Becomes
  <2>2. ToCome(s)'
      BY <1>1, <1>2, <1>3, <2>1 DEF ToCome, ClientTyped
  <2>3. Progress(s)'
      BY <1>1, <1>2, <2>1 DEF Progress, ClientTyped
  <2> QED BY <1>1, <1>2, <2>1, <2>2, <2>3, CallStep DEF ClientTyped
<1>7. CASE backend_step(s)
  <2>1. /\ remote[s] \in {"queued", "running"} /\ UNCHANGED <<doing, elapsed>>
        /\ \E to \in {"running", "finished", "error", "canceled"} : remote' = [remote EXCEPT ![s] = to]
      BY <1>7 DEF backend_step, Becomes, Active
  <2>2. ToCome(s)'
      BY <1>1, <1>2, <1>3, <2>1 DEF ToCome
  <2>3. Progress(s)'
      BY <1>1, <1>2, <2>1 DEF Progress, ClientTyped, is_terminal
  <2> QED BY <1>1, <1>2, <2>1, <2>2, <2>3, CallStep DEF ClientTyped
<1>8. CASE wait_for_completion(s) \/ get_job_failed(s)
  <2>1. /\ doing[s] = "poll" /\ UNCHANGED <<remote, elapsed>>
        /\ \E to \in {"ended", "failed", "sleep"} :
              /\ doing' = [doing EXCEPT ![s] = to]
              /\ to = "ended" => is_terminal(remote[s])
              /\ to = "sleep" => ~(elapsed[s] > timeout)
      BY <1>8 DEF wait_for_completion, get_job_failed, Go
  <2>2. ToCome(s)'
      BY <1>1, <1>2, <1>3, <2>1 DEF ToCome, ClientTyped
  <2>3. Progress(s)'
      BY <1>1, <1>2, <1>4, <2>1 DEF Progress, ClientTyped, is_terminal
  <2> QED BY <1>1, <1>2, <2>1, <2>2, <2>3, CallStep DEF ClientTyped
<1>9. CASE sleep(s)
  <2>1. PICK took \in 0..answer : elapsed' = [elapsed EXCEPT ![s] = @ + interval + took]
      BY <1>9 DEF sleep
  <2>2. doing[s] = "sleep" /\ doing' = [doing EXCEPT ![s] = "poll"] /\ UNCHANGED remote
      BY <1>9 DEF sleep, Go
  <2>3. ToCome(s)'
      BY <1>1, <1>2, <1>3, <2>2 DEF ToCome, ClientTyped
  <2>4. elapsed[s] \in Nat /\ elapsed[s] <= timeout /\ elapsed'[s] = elapsed[s] + interval + took
      BY <1>2, <2>1, <2>2 DEF Progress, ClientTyped
  <2>5. elapsed'[s] \in Nat /\ elapsed'[s] <= timeout + interval + answer
      BY <1>4, <2>4
  <2>6. Progress(s)'
      BY <1>1, <1>2, <2>2, <2>5 DEF Progress, ClientTyped
  <2> QED BY <1>1, <1>2, <2>1, <2>2, <2>3, <2>6, CallStep DEF ClientTyped
<1> QED BY <1>5, <1>6, <1>7, <1>8, <1>9

\* A list of results is taken, the job deleted, or the call given up.
LEMMA ResultSteps ==
    ASSUME ClientInv, NEW s \in Submitters, get_results(s) \/ asset_failed(s) \/ delete_job(s)
    PROVE  ClientInv'
<1>1. UNCHANGED <<order, stage, dir, body, contended, paths>> /\ UNCHANGED elapsed
    BY DEF get_results, asset_failed, delete_job, assetVars
<1>2. ToCome(s) /\ Progress(s) /\ ClientTyped
    BY DEF ClientInv
<1>3. \A u : Unused(s, u)' <=> Unused(s, u)
    BY <1>1 DEF Unused
<1>4. CASE get_results(s)
  <2>1. doing[s] = "ended" /\ UNCHANGED remote
      BY <1>4 DEF get_results, Go
  <2>2. \/ /\ remote[s] = "finished" /\ doing' = [doing EXCEPT ![s] = "fetch"]
           /\ \E urls \in SUBSET Paths : left' = [left EXCEPT ![s] = urls]
        \/ doing' = [doing EXCEPT ![s] = "failed"] /\ left' = left
      BY <1>4 DEF get_results, Go
  <2>3. ToCome(s)'
      BY <1>1, <1>2, <1>3, <2>1, <2>2 DEF ToCome, ClientTyped
  <2>4. Progress(s)'
      BY <1>1, <1>2, <2>1, <2>2 DEF Progress, ClientTyped
  <2> QED BY <1>1, <1>2, <2>1, <2>2, <2>3, <2>4, CallStep DEF ClientTyped
<1>5. CASE asset_failed(s)
  <2>1. /\ stage[s] = "err" /\ doing[s] = "fetch" /\ doing' = [doing EXCEPT ![s] = "failed"]
        /\ UNCHANGED <<remote, left>>
      BY <1>5 DEF asset_failed, Go
  <2>2. ToCome(s)'
      BY <1>1, <1>2, <1>3, <2>1 DEF ToCome, ClientTyped
  <2>3. remote[s] # "deleted"
      BY <1>2, <2>1 DEF Progress
  <2>4. Progress(s)'
      BY <1>1, <1>2, <2>1, <2>3 DEF Progress, ClientTyped
  <2> QED BY <1>1, <1>2, <2>1, <2>2, <2>4, CallStep DEF ClientTyped
<1>6. CASE delete_job(s)
  <2>1. /\ stage[s] = "idle" /\ left[s] = {} /\ doing[s] = "fetch" /\ doing' = [doing EXCEPT ![s] = "done"]
        /\ remote' = remote \/ remote' = [remote EXCEPT ![s] = "deleted"]
        /\ UNCHANGED left
      BY <1>6 DEF delete_job, Go, Becomes
  <2>2. ToCome(s)'
      BY <1>1, <1>2, <1>3, <2>1 DEF ToCome, ClientTyped
  <2>3. Progress(s)'
      BY <1>1, <1>2, <2>1 DEF Progress, ClientTyped
  <2> QED BY <1>1, <1>2, <2>1, <2>2, <2>3, CallStep DEF ClientTyped
<1> QED BY <1>4, <1>5, <1>6

\* The next result has no file of this submitter's making.
LEMMA TakeUpStep == ASSUME ClientInv, NEW s \in Submitters, download_asset(s) PROVE ClientInv'
<1>1. PICK u \in left[s] : order' = [order EXCEPT ![s].dst = u]
    BY DEF download_asset
<1>2. /\ doing[s] = "fetch" /\ stage[s] = "idle" /\ stage' = [stage EXCEPT ![s] = "start"]
      /\ UNCHANGED <<doing, remote, elapsed, left, paths, dir, body, contended>>
    BY DEF download_asset, clientVars
<1>3. s \in Writers /\ u \in Paths /\ Unused(s, u)
    BY <1>2, ClientAssumption DEF ClientInv, Progress, ToCome
<1>4. /\ order \in [Writers -> [kind : Kinds \cup {"download_asset"}, dst : Paths]]
      /\ stage \in [Writers -> Stages] /\ \A t \in Writers : order[t].kind = "download_asset"
    BY DEF ClientInv, FileInv, Directory, Fetching
<1>5. /\ order' \in [Writers -> [kind : Kinds \cup {"download_asset"}, dst : Paths]]
      /\ order'[s].dst = u /\ \A t \in Writers : t # s => order'[t] = order[t]
      /\ \A t \in Writers : order'[t].kind = "download_asset"
    BY <1>1, <1>3, <1>4
<1>6. /\ stage' \in [Writers -> Stages] /\ stage'[s] = "start"
      /\ \A t \in Writers : t # s => stage'[t] = stage[t]
    BY <1>2, <1>3, <1>4 DEF Stages
<1>7. \A d : Calm(d)' <=> Calm(d)
    BY <1>2, <1>4, <1>5 DEF Calm, Tools
<1>8. \A t \in Writers : t # s => Target(t)' = Target(t)
    BY <1>5 DEF Target
<1>9. \A t, d : Unused(t, d)' <=> Unused(t, d)
    BY <1>2 DEF Unused
<1>10. /\ \A i \in Inodes : body[i].open \subseteq Writers
       /\ \A i \in Inodes : \A t \in body[i].open : t # s /\ stage[t] = "write"
    BY <1>2 DEF ClientInv, FileInv, Directory
<1>11. Directory'
  <2>1. \A t \in Writers : stage'[t] \in {"start", "vrt", "get"} => Unused(t, order'[t].dst)
      BY <1>3, <1>5, <1>6 DEF ClientInv, FileInv, Directory
  <2>2. \A i \in Inodes : \A t \in body[i].open : stage'[t] = "write" /\ i[2] = order'[t].dst
      BY <1>5, <1>6, <1>10 DEF ClientInv, FileInv, Directory
  <2>3. \A t \in Writers : stage'[t] \in {"start", "vrt", "get"} => Unused(t, order[t].dst)'
      BY <1>9, <2>1
  <2> QED BY <1>2, <1>5, <1>6, <2>2, <2>3 DEF ClientInv, FileInv, Directory
<1>12. Alone'
  <2> SUFFICES ASSUME NEW t \in Writers, NEW v \in Writers, t # v, order'[t] = order'[v], order'[t].kind \in Fetches,
                      Calm(order[t].dst)', stage'[t] \in {"write", "rename"}, stage'[v] \in {"write", "rename"}
               PROVE  FALSE
      BY DEF Alone
  <2>1. t # s /\ v # s
      BY <1>6
  <2>2. order'[t] = order[t] /\ order'[v] = order[v] /\ stage'[t] = stage[t] /\ stage'[v] = stage[v]
      BY <1>5, <1>6, <2>1
  <2>3. Calm(order[t].dst)
      BY <1>7, <2>2
  <2> QED BY <2>2, <2>3 DEF ClientInv, FileInv, Alone
<1>13. Writing'
  <2>1. ASSUME NEW i \in Inodes, NEW t \in body[i].open, Calm(order'[t].dst)
        PROVE  Target(t) \in DOMAIN dir /\ i = dir[Target(t)]
      BY <1>5, <1>10, <2>1 DEF ClientInv, FileInv, Writing
  <2>2. ASSUME NEW t \in Writers, stage'[t] = "write", Calm(order'[t].dst)
        PROVE  Target(t) \in DOMAIN dir /\ t \in body[dir[Target(t)]].open
      BY <1>5, <1>6, <2>2 DEF ClientInv, FileInv, Writing
  <2>3. \A t \in Writers : Calm(order[t].dst)' <=> Calm(order'[t].dst)
      BY <1>7
  <2>4. ASSUME NEW i \in Inodes, NEW t \in body[i].open, Calm(order[t].dst)'
        PROVE  Target(t)' \in DOMAIN dir /\ i = dir[Target(t)']
      BY <1>8, <1>10, <2>1, <2>3, <2>4
  <2>5. ASSUME NEW t \in Writers, stage'[t] = "write", Calm(order[t].dst)'
        PROVE  Target(t)' \in DOMAIN dir /\ t \in body[dir[Target(t)']].open
      BY <1>6, <1>8, <2>2, <2>3, <2>5
  <2> QED BY <1>2, <2>4, <2>5 DEF Writing
<1>14. Written'
  <2>1. ASSUME NEW t \in Writers, stage'[t] = "rename", Calm(order[t].dst)', Target(t)' \in DOMAIN dir
        PROVE  body[dir[Target(t)']].whole
    <3>1. t # s /\ stage[t] = "rename" /\ order'[t] = order[t] /\ Target(t)' = Target(t)
        BY <1>5, <1>6, <1>8, <2>1
    <3>2. Calm(order[t].dst)
        BY <1>7, <2>1, <3>1
    <3> QED BY <2>1, <3>1, <3>2 DEF ClientInv, FileInv, Written
  <2> QED BY <1>2, <2>1 DEF Written
<1>15. Published'
    BY <1>2, <1>7 DEF ClientInv, FileInv, Published
<1>16. Fetching'
    BY <1>2, <1>5, <1>6, ClientAssumption DEF ClientInv, Fetching
<1>17. ASSUME NEW r \in Submitters PROVE ToCome(r)'
  <2>1. ToCome(r) /\ r \in Writers
      BY ClientAssumption DEF ClientInv
  <2>2. CASE r = s
    <3>1. \A v \in left[s] : Unused(s, v)
        BY <1>2, <2>1, <2>2 DEF ToCome
    <3> QED BY <1>2, <1>9, <2>2, <3>1 DEF ToCome
  <2>3. CASE r # s
      BY <1>2, <1>5, <1>6, <1>9, <2>1, <2>3 DEF ToCome
  <2> QED BY <2>2, <2>3
<1>18. ClientTyped' /\ \A r \in Submitters : Progress(r)'
    BY <1>2 DEF ClientInv, ClientTyped, Progress
<1> QED BY <1>11, <1>12, <1>13, <1>14, <1>15, <1>16, <1>17, <1>18 DEF ClientInv, FileInv

LEMMA DownloadedStep == ASSUME ClientInv, NEW s \in Submitters, downloaded(s) PROVE ClientInv'
<1>1. /\ doing[s] = "fetch" /\ stage[s] = "ok" /\ stage' = [stage EXCEPT ![s] = "idle"]
      /\ paths' = [paths EXCEPT ![s] = @ \cup {order[s].dst}]
      /\ left' = [left EXCEPT ![s] = @ \ {order[s].dst}]
      /\ UNCHANGED <<doing, remote, elapsed, order, dir, body, contended>>
    BY DEF downloaded
<1>2. s \in Writers /\ stage \in [Writers -> Stages] /\ order[s].dst \in Paths /\ ClientTyped
    BY ClientAssumption DEF ClientInv, FileInv, Directory
<1>3. FileInv'
    BY <1>1, <1>2, QuietFiles DEF ClientInv, Stages
<1>4. /\ paths'[s] = paths[s] \cup {order[s].dst} /\ left'[s] = left[s] \ {order[s].dst}
      /\ \A r \in Submitters : r # s => paths'[r] = paths[r] /\ left'[r] = left[r]
      /\ stage'[s] = "idle" /\ \A t \in Writers : t # s => stage'[t] = stage[t]
    BY <1>1, <1>2 DEF ClientTyped
<1>5. ClientTyped'
    BY <1>1, <1>2 DEF ClientTyped
<1>6. Fetching'
  <2>1. Final(order[s].dst) \in DOMAIN dir
      BY <1>1 DEF ClientInv, Fetching
  <2>2. \A r \in Submitters : \A u \in paths'[r] : Final(u) \in DOMAIN dir
      BY <1>4, <2>1 DEF ClientInv, Fetching
  <2> QED BY <1>1, <1>4, <2>2, ClientAssumption DEF ClientInv, Fetching
<1>7. \A t, d : Unused(t, d)' <=> Unused(t, d)
    BY <1>1 DEF Unused
<1>8. ASSUME NEW r \in Submitters PROVE ToCome(r)' /\ Progress(r)'
  <2>1. ToCome(r) /\ Progress(r) /\ r \in Writers
      BY ClientAssumption DEF ClientInv
  <2>2. CASE r = s
    <3>1. \A u \in left'[s] : u \in left[s] /\ u # order[s].dst /\ Unused(s, u)
        BY <1>1, <1>4, <2>1, <2>2 DEF ToCome
    <3> QED BY <1>1, <1>2, <1>4, <1>7, <2>1, <2>2, <3>1 DEF ToCome, Progress
  <2>3. CASE r # s
      BY <1>1, <1>4, <1>7, <2>1, <2>3 DEF ToCome, Progress
  <2> QED BY <2>2, <2>3
<1> QED BY <1>3, <1>5, <1>6, <1>8 DEF ClientInv

LEMMA ClientNextInv == ClientInv /\ [ClientNext]_<<clientVars, assetVars>> => ClientInv'
<1> SUFFICES ASSUME ClientInv, [ClientNext]_<<clientVars, assetVars>> PROVE ClientInv'
    OBVIOUS
<1>1. CASE UNCHANGED <<clientVars, assetVars>>
  <2>1. UNCHANGED <<doing, remote, elapsed, left, paths, order, stage, dir, body, contended>>
      BY <1>1 DEF clientVars, assetVars
  <2>2. FileInv'
      BY <1>1, FilesUntouched DEF ClientInv
  <2>3. Fetching' /\ ClientTyped'
      BY <2>1 DEF ClientInv, Fetching, ClientTyped
  <2>4. \A t, d : Unused(t, d)' <=> Unused(t, d)
      BY <2>1 DEF Unused
  <2>5. \A s \in Submitters : ToCome(s)' /\ Progress(s)'
      BY <2>1, <2>4 DEF ClientInv, ToCome, Progress
  <2> QED BY <2>2, <2>3, <2>5 DEF ClientInv
<1> QED BY <1>1, FileStepInv, PollSteps, ResultSteps, TakeUpStep, DownloadedStep DEF ClientNext

LEMMA ClientResults == ClientInv => ResultsAreFetched
<1> SUFFICES ASSUME ClientInv, NEW s \in Submitters
             PROVE  /\ remote[s] = "deleted" \/ doing[s] = "done" => left[s] = {} /\ \A u \in paths[s] : InCache(u)
                    /\ doing[s] \in {"fetch", "done"} => remote[s] \in {"finished", "deleted"}
                    /\ elapsed[s] <= timeout + interval + answer
    BY DEF ResultsAreFetched
<1>1. Progress(s)
    BY DEF ClientInv
<1>2. ASSUME NEW u \in paths[s] PROVE InCache(u)
  <2>1. u \in Paths /\ Final(u) \in DOMAIN dir
      BY <1>1 DEF ClientInv, Fetching, Progress
  <2>2. u \notin contended => Calm(u)
      BY DEF ClientInv, Fetching, Calm, Tools
  <2> QED BY <2>1, <2>2 DEF ClientInv, FileInv, Published, InCache
<1> QED BY <1>1, <1>2 DEF Progress

\* Any number of concurrent calls, whatever the network, the backend and a crash
\* do: a job is deleted only when its results are in the cache directory and
\* whole, and polling ends in time (submit_and_download, wait_for_completion).
THEOREM NoResultIsLost == ClientSpec => []ResultsAreFetched
BY ClientInitInv, ClientNextInv, ClientResults, PTL DEF ClientSpec

\* The client's own downloads publish whole files too, also over what an earlier
\* run left half-written (openeo.rs: download_asset).
THEOREM ClientFilesAreWhole == ClientSpec => []PublishedIsWhole
<1>1. ClientInv => PublishedIsWhole
    BY FileInvIsWhole DEF ClientInv
<1> QED BY <1>1, ClientInitInv, ClientNextInv, PTL DEF ClientSpec

\* Both, of the directory the calls share with one another and with what
\* earlier runs left there (openeo.rs: download_asset, submit_and_download).
THEOREM SharedFilesAreWhole == ClientSpec => []FilesAreWhole
<1>1. PublishedIsWhole /\ ResultsAreFetched => FilesAreWhole
    BY DEF FilesAreWhole
<1> QED BY <1>1, ClientFilesAreWhole, NoResultIsLost, PTL
=============================================================================
