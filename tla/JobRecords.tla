------------------------------ MODULE JobRecords ------------------------------
(***************************************************************************)
(* The two job stores behind the /jobs routes (job_store.rs).              *)
(*                                                                         *)
(* InMemoryJobStore keeps the records and the logs under two mutexes, and  *)
(* appending to a log takes them one after the other.  SqliteJobStore      *)
(* keeps both in one table in WAL mode: one statement is atomic and waits  *)
(* for the write lock, and add_asset and append_log are transactions that  *)
(* read first and write later.  Callers are the request handlers, the      *)
(* runners and the supervisors; what a job computes is JobService's.       *)
(***************************************************************************)
EXTENDS Naturals, Sequences, FiniteSets

CONSTANTS
    Callers,    \* the tasks that call the store
    Ids,        \* the UUIDs the store may draw
    Names,      \* asset names
    MaxCalls,   \* bound: the calls of one behaviour
    Absent      \* no row, no caller

ASSUME CallersAssumption == Absent \notin Callers /\ MaxCalls \in Nat

VARIABLES
    backend,    \* "memory" or "sqlite"
    table,      \* the committed rows: id -> record or Absent
    logs,       \* id -> log entries: the second map, or the `logs' column
    used,       \* ids drawn so far
    calls,      \* caller -> the call it is in the middle of
    commits,    \* SQLite: how many transactions have committed
    writer,     \* SQLite: the caller whose transaction has the write lock
    spent,      \* calls begun
    acked,      \* ghost: id -> the calls that were told their entry is stored
    raced,      \* ghost: id -> appends past their check when the job was deleted
    reply       \* the last answer

recordVars == <<backend, table, logs, used, calls, commits, writer, spent, acked, raced, reply>>

Idle == [at |-> "idle", op |-> "none", job |-> Absent, n |-> 0, name |-> Absent, seen |-> 0, read |-> << >>, owed |-> {}]
Reply(o, j, code, got, owed) == [op |-> o, job |-> j, code |-> code, got |-> got, owed |-> owed]
JobRecord == [title |-> "submitted", status |-> "created", progress |-> 0, assets |-> << >>]
Tags(s) == {s[i].by : i \in DOMAIN s}

\* The columns of a row, the entries of a log and the assets of a job.
Entries == [id : Nat, by : Nat]
Assets == [name : Names, by : Nat]
Rows == [title : {"submitted", "patched"}, status : {"created", "queued", "running", "finished", "error"},
         progress : Nat, assets : Seq(Assets)]
ASSUME RowsAssumption == Absent \notin Rows

StoreInit ==
    /\ backend \in {"memory", "sqlite"}
    /\ table = [j \in Ids |-> Absent] /\ logs = [j \in Ids |-> << >>] /\ used = {}
    /\ calls = [c \in Callers |-> Idle] /\ commits = 0 /\ writer = Absent /\ spent = 0
    /\ acked = [j \in Ids |-> {}] /\ raced = [j \in Ids |-> {}]
    /\ reply = Reply("none", Absent, 0, {}, {})

-----------------------------------------------------------------------------
(* One statement, or one critical section of `inner'.  While another       *)
(* transaction has the write lock a statement waits, or fails once         *)
(* busy_timeout is over.                                                   *)

Locked == backend = "sqlite" /\ writer # Absent
begins(c) == calls[c] = Idle /\ spent < MaxCalls /\ spent' = spent + 1
answers(o, j, code) == reply' = Reply(o, j, code, {}, {})
committed == commits' = IF backend = "sqlite" THEN commits + 1 ELSE 0
untouched == UNCHANGED <<table, logs, used, commits, writer, acked, raced>>

busy_timeout(c) ==
    /\ Locked /\ begins(c) /\ answers("write", Absent, 500)
    /\ untouched /\ UNCHANGED <<backend, calls>>

created(j) == table' = [table EXCEPT ![j] = JobRecord] /\ used' = used \cup {j} /\ answers("create", j, 201)
create(c) ==
    /\ ~Locked /\ begins(c)
    /\ \E j \in Ids \ used : created(j)
    /\ committed /\ UNCHANGED <<backend, logs, calls, writer, acked, raced>>

\* UPDATE ... WHERE id = ?: no row is NotFound, and the commit is empty.
change(c, o, j, new) ==
    /\ ~Locked /\ begins(c)
    /\ table' = [table EXCEPT ![j] = IF table[j] = Absent THEN Absent ELSE new]
    /\ answers(o, j, IF table[j] = Absent THEN 404 ELSE 204)
    /\ IF table[j] = Absent THEN UNCHANGED commits ELSE committed
    /\ UNCHANGED <<backend, logs, used, calls, writer, acked, raced>>

Clamp(p) == IF p > 100 THEN 100 ELSE p
set_status(c, j, s) == change(c, "set_status", j, [table[j] EXCEPT !.status = s])
set_progress(c, j, p) == change(c, "set_progress", j, [table[j] EXCEPT !.progress = Clamp(p)])
\* PATCH /jobs/{id}: a field the body lacks keeps its value.
set_metadata(c, j, title) ==
    change(c, "update_job", j, IF title = Absent THEN table[j] ELSE [table[j] EXCEPT !.title = title])

\* Both maps in one critical section; a job that is not there is no error.
delete(c, j) ==
    /\ ~Locked /\ begins(c)
    /\ table' = [table EXCEPT ![j] = Absent] /\ logs' = [logs EXCEPT ![j] = << >>]
    /\ acked' = [acked EXCEPT ![j] = {}]
    /\ raced' = [raced EXCEPT ![j] = {calls[d].n : d \in {e \in Callers : calls[e].job = j /\ calls[e].at = "checked"}}]
    /\ answers("delete_job", j, 204)
    /\ IF table[j] = Absent THEN UNCHANGED commits ELSE committed
    /\ UNCHANGED <<backend, used, calls, writer>>

-----------------------------------------------------------------------------
(* Appending to a log or to the assets.                                    *)

LogEntry(s, n) == [id |-> Len(s), by |-> n]
JobAsset(name, n) == [name |-> name, by |-> n]

memory_add_asset(c, j, name) ==
    /\ backend = "memory" /\ begins(c)
    /\ IF table[j] = Absent
       THEN answers("add_asset", j, 404) /\ UNCHANGED <<table, acked>>
       ELSE /\ table' = [table EXCEPT ![j].assets = Append(@, JobAsset(name, spent + 1))]
            /\ acked' = [acked EXCEPT ![j] = @ \cup {spent + 1}]
            /\ answers("add_asset", j, 200)
    /\ UNCHANGED <<backend, logs, used, calls, commits, writer, raced>>

\* Under `inner': does the job exist?  The guard is dropped before `logs' is locked.
memory_check(c, o, j) ==
    /\ backend = "memory" /\ begins(c)
    /\ IF table[j] = Absent
       THEN answers(o, j, 404) /\ UNCHANGED calls
       ELSE /\ calls' = [calls EXCEPT ![c] = [at |-> IF o = "append_log" THEN "checked" ELSE "reading", op |-> o, job |-> j,
                            n |-> spent + 1, name |-> Absent, seen |-> 0, read |-> << >>, owed |-> Tags(logs[j])]]
            /\ UNCHANGED reply
    /\ untouched /\ UNCHANGED backend
\* Under `logs': the entry of the map is created when there is none.
memory_push(c) ==
    LET j == calls[c].job  n == calls[c].n IN
    /\ calls[c].at = "checked"
    /\ logs' = [logs EXCEPT ![j] = Append(@, LogEntry(@, n))]
    /\ acked' = [acked EXCEPT ![j] = IF table[j] = Absent THEN @ ELSE @ \cup {n}]
    /\ calls' = [calls EXCEPT ![c] = Idle] /\ answers("append_log", j, 200)
    /\ UNCHANGED <<backend, table, used, commits, writer, spent, raced>>
memory_logs(c) ==
    LET j == calls[c].job IN
    /\ calls[c].at = "reading"
    /\ reply' = Reply("job_logs", j, 200, Tags(logs[j]), calls[c].owed)
    /\ calls' = [calls EXCEPT ![c] = Idle]
    /\ untouched /\ UNCHANGED <<backend, spent>>

\* BEGIN and SELECT: the transaction reads, and will write, this snapshot.
select(c, o, j, name) ==
    /\ backend = "sqlite" /\ begins(c)
    /\ IF table[j] = Absent
       THEN answers(o, j, 404) /\ UNCHANGED calls
       ELSE /\ calls' = [calls EXCEPT ![c] = [at |-> "read", op |-> o, job |-> j, n |-> spent + 1, name |-> name,
                            seen |-> commits, read |-> IF o = "append_log" THEN logs[j] ELSE table[j].assets, owed |-> {}]]
            /\ UNCHANGED reply
    /\ untouched /\ UNCHANGED backend
upgrades_when_free(c) == writer = Absent
\* The first write of a transaction that has read is refused at once when
\* another one writes or has committed since the snapshot (SQLITE_BUSY,
\* SQLITE_BUSY_SNAPSHOT): busy_timeout does not apply to it.
Upgrades(c) == writer = Absent /\ calls[c].seen = commits
update(c) ==
    /\ calls[c].at = "read"
    /\ IF Upgrades(c)
       THEN writer' = c /\ calls' = [calls EXCEPT ![c].at = "written"] /\ UNCHANGED reply
       ELSE calls' = [calls EXCEPT ![c] = Idle] /\ answers(calls[c].op, calls[c].job, 500) /\ UNCHANGED writer
    /\ UNCHANGED <<backend, table, logs, used, commits, spent, acked, raced>>
commit(c) ==
    LET j == calls[c].job  n == calls[c].n  s == calls[c].read IN
    /\ calls[c].at = "written"
    /\ IF calls[c].op = "append_log"
       THEN logs' = [logs EXCEPT ![j] = Append(s, LogEntry(s, n))] /\ UNCHANGED table
       ELSE table' = [table EXCEPT ![j] = IF @ = Absent THEN @ ELSE [@ EXCEPT !.assets = Append(s, JobAsset(calls[c].name, n))]] /\ UNCHANGED logs
    /\ acked' = [acked EXCEPT ![j] = @ \cup {n}]
    /\ writer' = Absent /\ commits' = commits + 1
    /\ calls' = [calls EXCEPT ![c] = Idle] /\ answers(calls[c].op, j, 200)
    /\ UNCHANGED <<backend, used, spent, raced>>
\* An I/O error at any statement drops the transaction, which rolls back.
rollback(c) ==
    /\ calls[c].at \in {"read", "written"}
    /\ writer' = IF writer = c THEN Absent ELSE writer
    /\ calls' = [calls EXCEPT ![c] = Idle] /\ answers(calls[c].op, calls[c].job, 500)
    /\ UNCHANGED <<backend, table, logs, used, commits, spent, acked, raced>>

-----------------------------------------------------------------------------
(* Readers: one SELECT, or one critical section.                           *)

sqlite_logs(c, j) ==
    /\ backend = "sqlite" /\ begins(c)
    /\ IF table[j] = Absent THEN answers("job_logs", j, 404)
       ELSE reply' = Reply("job_logs", j, 200, Tags(logs[j]), acked[j] \cap Tags(logs[j]))
    /\ untouched /\ UNCHANGED <<backend, calls>>
\* What a route makes of a record: the manifest is for finished jobs only.
Rendered(o, r) ==
    CASE o = "get_results" -> IF r.status = "finished" THEN <<200, Tags(r.assets)>> ELSE <<404, {}>>
      [] o = "estimate_job" -> <<200, Tags(r.assets)>>
      [] OTHER -> <<200, {}>>
get(c, o, j) ==
    /\ begins(c)
    /\ IF table[j] = Absent THEN answers(o, j, 404)
       ELSE reply' = Reply(o, j, Rendered(o, table[j])[1], Rendered(o, table[j])[2], {})
    /\ untouched /\ UNCHANGED <<backend, calls>>
\* The record's first asset of that name, then its file: two awaits.
download_asset(c, j, name, file) ==
    LET found == table[j] # Absent /\ \E i \in DOMAIN table[j].assets : table[j].assets[i].name = name IN
    /\ begins(c)
    /\ answers("download_asset", j, IF ~found THEN 404 ELSE file)
    /\ untouched /\ UNCHANGED <<backend, calls>>

\* The process dies and starts again: the memory store is empty, the table
\* is what was committed, and recover_orphans gives up what was under way.
Recovered(r) == IF r # Absent /\ r.status \in {"queued", "running"} THEN [r EXCEPT !.status = "error"] ELSE r
restart ==
    /\ spent < MaxCalls /\ spent' = spent + 1
    /\ calls' = [c \in Callers |-> Idle] /\ writer' = Absent /\ reply' = Reply("restart", Absent, 0, {}, {})
    /\ IF backend = "memory"
       THEN /\ table' = [j \in Ids |-> Absent] /\ logs' = [j \in Ids |-> << >>]
            /\ acked' = [j \in Ids |-> {}] /\ raced' = [j \in Ids |-> {}]
       ELSE table' = [j \in Ids |-> Recovered(table[j])] /\ UNCHANGED <<logs, acked, raced>>
    /\ UNCHANGED <<backend, used, commits>>

StoreStep(c) ==
    \/ busy_timeout(c) \/ create(c)
    \/ \E j \in Ids :
         \/ \E s \in {"running", "finished"} : set_status(c, j, s)
         \/ set_progress(c, j, 250)
         \/ \E t \in {Absent, "patched"} : set_metadata(c, j, t)
         \/ delete(c, j)
         \/ \E name \in Names : memory_add_asset(c, j, name) \/ select(c, "add_asset", j, name)
         \/ \E o \in {"append_log", "job_logs"} : memory_check(c, o, j)
         \/ select(c, "append_log", j, Absent)
         \/ sqlite_logs(c, j)
         \/ \E o \in {"get_job", "get_results", "estimate_job"} : get(c, o, j)
         \/ \E name \in Names, file \in {200, 404, 500} : download_asset(c, j, name, file)
    \/ memory_push(c) \/ memory_logs(c)
    \/ update(c) \/ commit(c) \/ rollback(c)
StoreNext == restart \/ \E c \in Callers : StoreStep(c)
StoreSpec == StoreInit /\ [][StoreNext]_recordVars

-----------------------------------------------------------------------------
\* Nothing acknowledged is lost: an existing job has exactly the log entries
\* and assets whose append_log or add_asset was told Ok, each once, and a log
\* entry's id is its position; a deleted job keeps no entry but those of
\* appends that had passed their check when it was deleted; and the logs
\* answered with 200 contain every entry there was when the call began, unless
\* the job was deleted meanwhile (job_store.rs: append_log, get_logs, add_asset, delete).
RecordsKept ==
    /\ \A j \in Ids :
         IF table[j] = Absent THEN Tags(logs[j]) \subseteq raced[j]
         ELSE /\ Tags(logs[j]) \cup Tags(table[j].assets) = acked[j]
              /\ Len(logs[j]) + Len(table[j].assets) = Cardinality(acked[j])
              /\ \A i \in DOMAIN logs[j] : logs[j][i].id = i - 1
    /\ (reply.op = "job_logs" /\ reply.code = 200) => (reply.owed \subseteq reply.got \/ table[reply.job] = Absent)
=============================================================================
