------------------------------ MODULE EtlEngine ------------------------------
(***************************************************************************)
(* The pipeline engine of orbit-etl: the map of job statuses and the map   *)
(* of cancellation flags it keeps in memory, the orbit_jobs table and the  *)
(* destination table it writes, the task that run() spawns for a pipeline, *)
(* the bounded channel that carries its events to a client, cancel_job,    *)
(* and the death of the process.                                           *)
(*                                                                         *)
(* Grain of atomicity.  One action is one await of the task: a statement   *)
(* or transaction of SQLite, a channel send, a blocking read or query.     *)
(* The mark_* and bump_progress helpers write the map entry just before    *)
(* their UPDATE; the two are one action because nothing acts on the        *)
(* difference (status reads the map, list the table) and a crash in        *)
(* between loses the map.                                                  *)
(*                                                                         *)
(* Data kept abstract: all pipelines load into one destination table; the  *)
(* frame of a pipeline, after its SQL transform, is the sequence of the    *)
(* values of the deduplication column; a stored row is named by the        *)
(* pipeline and the position it came from, which identifies its contents.  *)
(***************************************************************************)
EXTENDS Integers, Sequences, FiniteSets

CONSTANTS
    Jobs,         \* the pipelines clients submit (v4 UUIDs, never reused)
    Keys,         \* values of the deduplication column, NULL included
    NullKey,      \* SQL NULL, which UNIQUE does not constrain
    Frame,        \* per pipeline: its collected frame
    Dedupe,       \* the pipelines with a dedupe_column that their frame has
    Impatient,    \* the pipelines whose client cancels, or drops the stream
    BatchSize,    \* batch_size
    ChannelCap,   \* capacity of the event channel (32 in the code)
    StoreFaults,  \* BOOLEAN: SQLite statements may fail (busy, disk, schema)
    MaxRestarts   \* bound: how often the process dies

ASSUME ConstantsAssumption ==
    /\ Frame \in [Jobs -> Seq(Keys)]
    /\ Dedupe \subseteq Jobs
    /\ Impatient \subseteq Jobs
    /\ BatchSize \in Nat \ {0}
    /\ ChannelCap \in Nat \ {0}
    /\ StoreFaults \in BOOLEAN
    /\ MaxRestarts \in Nat

VARIABLES
    memState,   \* per pipeline: state of its entry in the jobs map, or "absent"
    memRows,    \* per pipeline: rows_written of that entry
    dbState,    \* per pipeline: state of its orbit_jobs row, or "absent"
    dbRows,     \* per pipeline: rows_written of that row
    cancels,    \* per pipeline: its flag in the cancels map ("absent", "unset", "set")
    table,      \* rows of the destination table: pairs of pipeline and position
    mode,       \* of the destination table: "absent", "plain" or "unique"
    pc,         \* per pipeline: the await its task is about to make
    at,         \* per pipeline: chunk_start, the rows of its frame already dealt with
    written,    \* per pipeline: the local rows_written
    channel,    \* per pipeline: kinds of the events in its channel
    stream,     \* per pipeline: "open" or "closed" (receiver dropped)
    heard,      \* per pipeline: kind of the last event its client received
    overrun,    \* history, per pipeline: batches inserted after cancel_job said true
    restarts    \* how often the process died

recordVars == <<memState, memRows, dbState, dbRows>>
tableVars == <<table, mode>>
loopVars == <<at, written>>
clientVars == <<channel, stream, heard>>
vars == <<recordVars, cancels, tableVars, pc, loopVars, clientVars, overrun,
          restarts>>

-----------------------------------------------------------------------------
JobState == {"pending", "running", "completed", "failed", "cancelled"}
is_terminal(s) == s \in {"completed", "failed", "cancelled"}
EventKind == {"started", "progress", "completed", "failed", "cancelled"}
\* Steps of the spawned task, named for the await they are about to make;
\* "refused" is a run() whose INSERT failed.
LivePc == {"markRunning", "sendStarted", "read", "query", "table", "check",
           "loop", "insert", "bump", "sendProgress", "markCompleted",
           "sendCompleted", "endOk", "endFailed", "endCancelled",
           "markFailed", "markCancelled", "sendFailed", "sendCancelled"}
Pc == {"idle", "refused", "done"} \cup LivePc

Init ==
    /\ memState = [j \in Jobs |-> "absent"]
    /\ memRows = [j \in Jobs |-> 0]
    /\ dbState = [j \in Jobs |-> "absent"]
    /\ dbRows = [j \in Jobs |-> 0]
    /\ cancels = [j \in Jobs |-> "absent"]
    /\ table = {}
    /\ mode = "absent"
    /\ pc = [j \in Jobs |-> "idle"]
    /\ at = [j \in Jobs |-> 0]
    /\ written = [j \in Jobs |-> 0]
    /\ channel = [j \in Jobs |-> << >>]
    /\ stream = [j \in Jobs |-> "open"]
    /\ heard = [j \in Jobs |-> "none"]
    /\ overrun = [j \in Jobs |-> 0]
    /\ restarts = 0

Goto(j, from, to) == pc[j] = from /\ pc' = [pc EXCEPT ![j] = to]

-----------------------------------------------------------------------------
(* The helpers of the task.                                                *)

\* A mark_* helper: the map entry always, the row unless the UPDATE fails,
\* which the caller sees as an error.
mark(j, s, from, ok, failed) ==
    /\ memState' = [memState EXCEPT ![j] = s]
    /\ \/ Goto(j, from, ok) /\ dbState' = [dbState EXCEPT ![j] = s]
       \/ Goto(j, from, failed) /\ StoreFaults /\ UNCHANGED dbState
    /\ UNCHANGED <<cancels, tableVars, loopVars, clientVars, overrun, restarts>>

\* Faulty variant: an undeliverable event fails the pipeline.
send_checked(j, kind, from, to) ==
    /\ \/ /\ Goto(j, from, to)
          /\ stream[j] = "open" /\ Len(channel[j]) < ChannelCap
          /\ channel' = [channel EXCEPT ![j] = Append(@, kind)]
       \/ Goto(j, from, "endFailed") /\ stream[j] = "closed" /\ UNCHANGED channel
    /\ UNCHANGED <<recordVars, cancels, tableVars, loopVars, stream, heard,
                   overrun, restarts>>

\* let _ = tx.send(..).await: waits for room, or fails at once (ignored) when
\* the receiver is gone.
send(j, kind, from, to) ==
    /\ Goto(j, from, to)
    /\ \/ /\ stream[j] = "open" /\ Len(channel[j]) < ChannelCap
          /\ channel' = [channel EXCEPT ![j] = Append(@, kind)]
       \/ stream[j] = "closed" /\ UNCHANGED channel
    /\ UNCHANGED <<recordVars, cancels, tableVars, loopVars, stream, heard,
                   overrun, restarts>>

KeyOf(row) == Frame[row[1]][row[2]]

\* The last position of the chunk that starts at the task's chunk_start.
ChunkEnd(j) ==
    IF at[j] + BatchSize < Len(Frame[j]) THEN at[j] + BatchSize ELSE Len(Frame[j])

Chunk(j) == {<<j, i>> : i \in (at[j] + 1) .. ChunkEnd(j)}

\* Rows of the chunk whose key UNIQUE finds in the table or earlier in the chunk.
Conflicts(j) ==
    {row \in Chunk(j) :
        /\ mode = "unique"
        /\ KeyOf(row) # NullKey
        /\ \/ \E old \in table : KeyOf(old) = KeyOf(row)
           \/ \E old \in Chunk(j) : old[2] < row[2] /\ KeyOf(old) = KeyOf(row)}

-----------------------------------------------------------------------------
(* run(), for a specification that passed validation: both map entries,    *)
(* then the INSERT, then the task.  When the INSERT fails the entries stay *)
(* behind, for a job id no client was told.                                *)
run(j) ==
    /\ memState' = [memState EXCEPT ![j] = "pending"]
    /\ cancels' = [cancels EXCEPT ![j] = "unset"]
    /\ \/ Goto(j, "idle", "markRunning") /\ dbState' = [dbState EXCEPT ![j] = "pending"]
       \/ Goto(j, "idle", "refused") /\ StoreFaults /\ UNCHANGED dbState
    /\ UNCHANGED <<memRows, dbRows, tableVars, loopVars, clientVars, overrun,
                   restarts>>

\* cancel_job of a pipeline whose id its client knows: true when the flag is
\* still there.
cancel_job(j) ==
    /\ j \in Impatient
    /\ pc[j] \in LivePc
    /\ cancels[j] = "unset"
    /\ cancels' = [cancels EXCEPT ![j] = "set"]
    /\ UNCHANGED <<recordVars, tableVars, pc, loopVars, clientVars, overrun,
                   restarts>>

-----------------------------------------------------------------------------
(* execute().                                                              *)

mark_running(j) ==
    /\ mark(j, "running", "markRunning", "sendStarted", "endFailed")
    /\ UNCHANGED <<memRows, dbRows>>

ExecFrame == UNCHANGED <<recordVars, cancels, loopVars, clientVars, overrun,
                         restarts>>

read_source(j) ==
    /\ Goto(j, "read", "query") \/ Goto(j, "read", "endFailed")
    /\ UNCHANGED tableVars
    /\ ExecFrame

\* The SQL transform and collect() return a frame or an error, if ever.
QueryReturns(j) ==
    /\ Goto(j, "query", "table") \/ Goto(j, "query", "endFailed")
    /\ UNCHANGED tableVars
    /\ ExecFrame

\* Faulty variant: the query is awaited without a limit.
QueryUnbounded(j) ==
    FALSE /\ Goto(j, "query", "endFailed")

\* run_blocking_with_timeout gives up on the query.
QueryTimeout(j) ==
    /\ Goto(j, "query", "endFailed")
    /\ UNCHANGED tableVars
    /\ ExecFrame

\* CREATE TABLE IF NOT EXISTS: only the first pipeline decides on UNIQUE.
ensure_table(j) ==
    /\ \/ /\ Goto(j, "table", "check")
          /\ mode' = IF mode # "absent" THEN mode
                     ELSE IF j \in Dedupe THEN "unique" ELSE "plain"
       \/ Goto(j, "table", "endFailed") /\ StoreFaults /\ UNCHANGED mode
    /\ UNCHANGED table
    /\ ExecFrame

\* The poll of the flag before the loop.
CheckCancelled(j) ==
    /\ IF cancels[j] = "set" THEN Goto(j, "check", "endCancelled")
                             ELSE Goto(j, "check", "loop")
    /\ UNCHANGED tableVars
    /\ ExecFrame

\* Faulty variants: the flag is not polled between batches; a cancelled loop is
\* left with break.
LoopUnpolled(j) ==
    /\ IF at[j] >= Len(Frame[j]) THEN Goto(j, "loop", "markCompleted")
       ELSE Goto(j, "loop", "insert")
    /\ UNCHANGED tableVars
    /\ ExecFrame

LoopBreaks(j) ==
    /\ IF at[j] >= Len(Frame[j]) \/ cancels[j] = "set"
       THEN Goto(j, "loop", "markCompleted")
       ELSE Goto(j, "loop", "insert")
    /\ UNCHANGED tableVars
    /\ ExecFrame

\* The loop head: no chunk left, or the poll of the flag, or the next chunk.
Loop(j) ==
    /\ IF at[j] >= Len(Frame[j]) THEN Goto(j, "loop", "markCompleted")
       ELSE IF cancels[j] = "set" THEN Goto(j, "loop", "endCancelled")
       ELSE Goto(j, "loop", "insert")
    /\ UNCHANGED tableVars
    /\ ExecFrame

\* Faulty variant: counts the rows sent, not the rows affected.
insert_chunk_counts_all(j) ==
    /\ \/ /\ Goto(j, "insert", "bump")
          /\ j \in Dedupe \/ Conflicts(j) = {}
          /\ table' = table \cup (Chunk(j) \ Conflicts(j))
          /\ written' = [written EXCEPT ![j] = @ + Cardinality(Chunk(j))]
          /\ at' = [at EXCEPT ![j] = ChunkEnd(j)]
          /\ overrun' = [overrun EXCEPT ![j] = @ + IF cancels[j] = "set" THEN 1 ELSE 0]
       \/ /\ Goto(j, "insert", "endFailed")
          /\ StoreFaults \/ (j \notin Dedupe /\ Conflicts(j) # {})
          /\ UNCHANGED <<table, written, at, overrun>>
    /\ UNCHANGED <<recordVars, cancels, mode, clientVars, restarts>>

\* insert_chunk: one transaction.  A conflict is skipped with ON CONFLICT DO
\* NOTHING (dedupe_column) and rolls everything back without it.
insert_chunk(j) ==
    /\ \/ /\ Goto(j, "insert", "bump")
          /\ j \in Dedupe \/ Conflicts(j) = {}
          /\ table' = table \cup (Chunk(j) \ Conflicts(j))
          /\ written' = [written EXCEPT ![j] = @ + Cardinality(Chunk(j) \ Conflicts(j))]
          /\ at' = [at EXCEPT ![j] = ChunkEnd(j)]
          /\ overrun' = [overrun EXCEPT ![j] = @ + IF cancels[j] = "set" THEN 1 ELSE 0]
       \/ /\ Goto(j, "insert", "endFailed")
          /\ StoreFaults \/ (j \notin Dedupe /\ Conflicts(j) # {})
          /\ UNCHANGED <<table, written, at, overrun>>
    /\ UNCHANGED <<recordVars, cancels, mode, clientVars, restarts>>

bump_progress(j) ==
    /\ memRows' = [memRows EXCEPT ![j] = written[j]]
    /\ \/ Goto(j, "bump", "sendProgress") /\ dbRows' = [dbRows EXCEPT ![j] = written[j]]
       \/ Goto(j, "bump", "endFailed") /\ StoreFaults /\ UNCHANGED dbRows
    /\ UNCHANGED <<memState, dbState, cancels, tableVars, loopVars, clientVars,
                   overrun, restarts>>

\* Faulty variant: Completed is sent although the UPDATE failed.
mark_completed_ignored(j) ==
    /\ mark(j, "completed", "markCompleted", "sendCompleted", "sendCompleted")
    /\ memRows' = [memRows EXCEPT ![j] = written[j]]
    /\ dbRows' = dbRows

\* State and counts in the map entry and, in the same UPDATE, in the row.  The
\* row's counts are those of the last bump_progress already.
mark_completed(j) ==
    /\ mark(j, "completed", "markCompleted", "sendCompleted", "endFailed")
    /\ memRows' = [memRows EXCEPT ![j] = written[j]]
    /\ dbRows' = IF pc'[j] = "sendCompleted"
                 THEN [dbRows EXCEPT ![j] = written[j]] ELSE dbRows

-----------------------------------------------------------------------------
(* What the task does with execute()'s outcome.                            *)

\* cancels.remove, on every outcome.
EndExecute(j, from, to) ==
    /\ Goto(j, from, to)
    /\ cancels' = [cancels EXCEPT ![j] = "absent"]
    /\ UNCHANGED <<recordVars, tableVars, loopVars, clientVars, overrun, restarts>>

mark_failed(j) ==
    /\ mark(j, "failed", "markFailed", "sendFailed", "sendFailed")
    /\ UNCHANGED <<memRows, dbRows>>

mark_cancelled(j) ==
    /\ mark(j, "cancelled", "markCancelled", "sendCancelled", "sendCancelled")
    /\ UNCHANGED <<memRows, dbRows>>

-----------------------------------------------------------------------------
(* The client's end of the stream, and the process.                        *)

Receive(j) ==
    /\ stream[j] = "open"
    /\ channel[j] # << >>
    /\ heard' = [heard EXCEPT ![j] = Head(channel[j])]
    /\ channel' = [channel EXCEPT ![j] = Tail(@)]
    /\ UNCHANGED <<recordVars, cancels, tableVars, pc, loopVars, stream, overrun,
                   restarts>>

\* The client disconnects; what is in the channel is dropped with it.
CloseStream(j) ==
    /\ j \in Impatient
    /\ pc[j] \in LivePc
    /\ stream[j] = "open"
    /\ stream' = [stream EXCEPT ![j] = "closed"]
    /\ channel' = [channel EXCEPT ![j] = << >>]
    /\ UNCHANGED <<recordVars, cancels, tableVars, pc, loopVars, heard, overrun,
                   restarts>>

\* The process dies and Engine::open is called on the same database, which
\* changes nothing in it: there is no recovery of running jobs.
Restart ==
    /\ restarts < MaxRestarts
    /\ restarts' = restarts + 1
    /\ memState' = [j \in Jobs |-> "absent"]
    /\ memRows' = [j \in Jobs |-> 0]
    /\ cancels' = [j \in Jobs |-> "absent"]
    /\ pc' = [j \in Jobs |-> IF pc[j] \in LivePc THEN "done" ELSE pc[j]]
    /\ stream' = [j \in Jobs |-> IF pc[j] = "idle" THEN "open" ELSE "closed"]
    /\ channel' = [j \in Jobs |-> << >>]
    /\ UNCHANGED <<dbState, dbRows, tableVars, loopVars, heard, overrun>>

-----------------------------------------------------------------------------
\* Every step of the task but the query's answer.
TaskStep(j) ==
    \/ mark_running(j)
    \/ send(j, "started", "sendStarted", "read")
    \/ read_source(j)
    \/ ensure_table(j)
    \/ CheckCancelled(j)
    \/ Loop(j)
    \/ insert_chunk(j)
    \/ bump_progress(j)
    \/ send(j, "progress", "sendProgress", "loop")
    \/ mark_completed(j)
    \/ send(j, "completed", "sendCompleted", "endOk")
    \/ EndExecute(j, "endOk", "done")
    \/ EndExecute(j, "endFailed", "markFailed")
    \/ EndExecute(j, "endCancelled", "markCancelled")
    \/ mark_failed(j)
    \/ send(j, "failed", "sendFailed", "done")
    \/ mark_cancelled(j)
    \/ send(j, "cancelled", "sendCancelled", "done")

Next ==
    \/ \E j \in Jobs : \/ run(j) \/ cancel_job(j)
                       \/ TaskStep(j) \/ QueryReturns(j) \/ QueryTimeout(j)
                       \/ Receive(j) \/ CloseStream(j)
    \/ Restart

\* A spawned task is polled until it ends; the query may hang but its timeout
\* fires; a client reads its stream or drops it (a client that does neither
\* blocks the task for ever: the channel is bounded).
Fairness ==
    \A j \in Jobs : /\ WF_vars(TaskStep(j))
                    /\ WF_vars(QueryTimeout(j))
                    /\ WF_vars(Receive(j))

Spec == Init /\ [][Next]_vars
FairSpec == Spec /\ Fairness

-----------------------------------------------------------------------------
(* Properties.                                                             *)

\* The rows that can be stored.
Row == Jobs \X (Nat \ {0})

\* Every variable has its type; the channel never exceeds its capacity and the
\* loop never passes the end of its frame.
TypeOK ==
    /\ memState \in [Jobs -> JobState \cup {"absent"}]
    /\ memRows \in [Jobs -> Nat]
    /\ dbState \in [Jobs -> JobState \cup {"absent"}]
    /\ dbRows \in [Jobs -> Nat]
    /\ cancels \in [Jobs -> {"absent", "unset", "set"}]
    /\ table \subseteq Row
    /\ mode \in {"absent", "plain", "unique"}
    /\ pc \in [Jobs -> Pc]
    /\ at \in [Jobs -> Nat]
    /\ \A j \in Jobs : at[j] <= Len(Frame[j])
    /\ written \in [Jobs -> Nat]
    /\ channel \in [Jobs -> Seq(EventKind)]
    /\ \A j \in Jobs : Len(channel[j]) <= ChannelCap
    /\ stream \in [Jobs -> {"open", "closed"}]
    /\ heard \in [Jobs -> EventKind \cup {"none"}]
    /\ overrun \in [Jobs -> Nat]
    /\ restarts \in Nat

\* The destination table holds the row of position i of pipeline j, or one
\* with the same key.
Loaded(j, i) ==
    \/ <<j, i>> \in table
    \/ \E old \in table : KeyOf(old) = Frame[j][i]

\* What status() answers: the map entry if there is one, else the row.
Shown(j) == IF memState[j] # "absent" THEN memState[j] ELSE dbState[j]
ShownRows(j) == IF memState[j] # "absent" THEN memRows[j] ELSE dbRows[j]

\* A pipeline that status() or list() reports completed has every row of its
\* frame in the destination table (or a row with the same key), whatever other
\* pipelines, cancels, failed transactions and crashes came in between.
CompletedIsLoaded ==
    \A j \in Jobs : "completed" \in {memState[j], dbState[j]} =>
        \A i \in 1 .. Len(Frame[j]) : Loaded(j, i)

\* rows_written of a completed or cancelled pipeline is the number of rows it
\* added, skipped duplicates not counted.
RowsReported ==
    \A j \in Jobs : Shown(j) \in {"completed", "cancelled"} =>
        ShownRows(j) = Cardinality({row \in table : row[1] = j})

\* A client that was told Completed finds the pipeline completed in list(), and
\* in status() after any number of restarts.
HeardIsDurable ==
    \A j \in Jobs : heard[j] = "completed" =>
        dbState[j] = "completed" /\ Shown(j) = "completed"

\* After cancel_job answered true at most the batch already begun is inserted.
CancelStopsWithinABatch ==
    \A j \in Jobs : overrun[j] <= 1

\* The outcome on disk is final: a dropped stream, a late cancel, a failing
\* UPDATE or a restart never replaces one terminal state by another.
OutcomeIsFinal ==
    [][\A j \in Jobs : is_terminal(dbState[j]) => dbState'[j] = dbState[j]]_vars

\* Every accepted pipeline ends, as long as its client reads or drops the
\* stream; in particular dropping it blocks nothing.
PipelineEnds ==
    \A j \in Jobs : pc[j] \in LivePc ~> pc[j] = "done"
=============================================================================
