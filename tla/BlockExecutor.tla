---------------------------- MODULE BlockExecutor ----------------------------
(***************************************************************************)
(* run_blocks: blocks on the blocking pool of tokio, as many at a time as   *)
(* there are permits, with a cancellation flag, progress reports and a      *)
(* memory budget that workers reserve from with a compare-and-swap loop.    *)
(***************************************************************************)
EXTENDS Integers, FiniteSets, Sequences

CONSTANTS
    Blocks,        \* total_blocks
    n_threads,     \* threads asked for
    Bytes,         \* what a worker reserves
    Budget         \* max_bytes of the memory budget

ASSUME ExecAssumption == Blocks \in Nat /\ n_threads \in Nat /\ Bytes \in Nat /\ Budget \in Nat

VARIABLES
    caller,        \* check, acquire, collect, or returned
    next,          \* the block the caller is at
    task,          \* per block: where its task is
    cur,           \* per block: the value of `used' its loop compares with
    cancelled,     \* the flag
    used,          \* the budget's counter
    done,          \* blocks finished
    progress,      \* the numbers reported, in order
    outcome        \* what the call returned

execVars == <<caller, next, task, cur, cancelled, used, done, progress, outcome>>

Ids == 1..Blocks
ExecInit ==
    /\ caller = "check" /\ next = 1 /\ task = [b \in Ids |-> "none"] /\ cur = [b \in Ids |-> 0]
    /\ cancelled = FALSE /\ used = 0 /\ done = 0 /\ progress = << >> /\ outcome = "none"
ExecIdle ==
    /\ caller = "none" /\ next = 1 /\ task = [b \in Ids |-> "none"] /\ cur = [b \in Ids |-> 0]
    /\ cancelled = FALSE /\ used = 0 /\ done = 0 /\ progress = << >> /\ outcome = "none"

\* Asking for no thread gets one.
Permits == IF n_threads = 0 THEN 1 ELSE n_threads

\* A task ends with a value, with an error, with an error whose text is
\* "cancelled", or skipped because the flag was up.
Ended == {"ok", "failed", "named", "skipped"}
\* A task holds its permit until its closure is left.
Holding == {b \in Ids : task[b] \notin Ended \cup {"none"}}
Guarded == {b \in Ids : task[b] = "working"}

Return(r) == caller' = "returned" /\ outcome' = r

cancel == caller # "none" /\ ~cancelled /\ cancelled' = TRUE /\ UNCHANGED <<caller, next, task, cur, used, done, progress, outcome>>

submit ==
    /\ caller = "check"
    /\ IF next > Blocks THEN caller' = "collect" /\ next' = 1 /\ UNCHANGED outcome
       ELSE IF cancelled THEN Return("Cancelled") /\ UNCHANGED next
       ELSE caller' = "acquire" /\ UNCHANGED <<next, outcome>>
    /\ UNCHANGED <<task, cur, cancelled, used, done, progress>>
acquire ==
    /\ caller = "acquire" /\ Cardinality(Holding) < Permits
    /\ task' = [task EXCEPT ![next] = "spawned"]
    /\ next' = next + 1 /\ caller' = "check"
    /\ UNCHANGED <<cur, cancelled, used, done, progress, outcome>>

\* The closure looks at the flag once more, then loads the counter.
begin(b) ==
    /\ task[b] = "spawned"
    /\ IF cancelled THEN task' = [task EXCEPT ![b] = "skipped"] /\ UNCHANGED cur
       ELSE task' = [task EXCEPT ![b] = "reserving"] /\ cur' = [cur EXCEPT ![b] = used]
    /\ UNCHANGED <<caller, next, cancelled, used, done, progress, outcome>>

\* Faulty variant: the sum is stored without comparing.
store_reserved(b) ==
    /\ task[b] = "reserving"
    /\ IF cur[b] + Bytes > Budget THEN task' = [task EXCEPT ![b] = "counting_failed"] /\ UNCHANGED <<cur, used>>
       ELSE used' = cur[b] + Bytes /\ task' = [task EXCEPT ![b] = "working"] /\ UNCHANGED cur
    /\ UNCHANGED <<caller, next, cancelled, done, progress, outcome>>

try_reserve(b) ==
    /\ task[b] = "reserving"
    /\ IF cur[b] + Bytes > Budget THEN task' = [task EXCEPT ![b] = "counting_failed"] /\ UNCHANGED <<cur, used>>
       ELSE IF used = cur[b] THEN used' = cur[b] + Bytes /\ task' = [task EXCEPT ![b] = "working"] /\ UNCHANGED cur
       ELSE cur' = [cur EXCEPT ![b] = used] /\ UNCHANGED <<task, used>>
    /\ UNCHANGED <<caller, next, cancelled, done, progress, outcome>>

\* The worker ends and its guard is dropped; a panic ends the closure at once.
worker(b) ==
    /\ task[b] = "working"
    /\ used' = used - Bytes
    /\ \E s \in {"counting_ok", "counting_failed", "counting_named", "failed"} : task' = [task EXCEPT ![b] = s]
    /\ UNCHANGED <<caller, next, cur, cancelled, done, progress, outcome>>

\* done.fetch_add, then the callback: two steps of two tasks may cross.
count(b) ==
    /\ task[b] \in {"counting_ok", "counting_failed", "counting_named"}
    /\ done' = done + 1
    /\ cur' = [cur EXCEPT ![b] = done + 1]
    /\ task' = [task EXCEPT ![b] = CASE @ = "counting_ok" -> "reporting_ok" [] @ = "counting_failed" -> "reporting_failed" [] OTHER -> "reporting_named"]
    /\ UNCHANGED <<caller, next, cancelled, used, progress, outcome>>
report(b) ==
    /\ task[b] \in {"reporting_ok", "reporting_failed", "reporting_named"}
    /\ progress' = Append(progress, cur[b])
    /\ task' = [task EXCEPT ![b] = CASE @ = "reporting_ok" -> "ok" [] @ = "reporting_failed" -> "failed" [] OTHER -> "named"]
    /\ UNCHANGED <<caller, next, cur, cancelled, used, done, outcome>>

\* The handles are awaited in block order; the rest is left to run when one fails.
\* Only the text tells a skipped block from one that failed by itself.
collect ==
    /\ caller = "collect"
    /\ IF next > Blocks THEN Return("Ok") /\ UNCHANGED next
       ELSE /\ task[next] \in Ended
            /\ CASE task[next] = "ok" -> next' = next + 1 /\ UNCHANGED <<caller, outcome>>
                 [] task[next] \in {"skipped", "named"} -> Return("Cancelled") /\ UNCHANGED next
                 [] OTHER -> Return("Worker") /\ UNCHANGED next
    /\ UNCHANGED <<task, cur, cancelled, used, done, progress>>

ExecNext ==
    \/ cancel \/ submit \/ acquire \/ collect
    \/ \E b \in Ids : begin(b) \/ try_reserve(b) \/ worker(b) \/ count(b) \/ report(b)
ExecSpec == ExecInit /\ [][ExecNext]_execVars

-----------------------------------------------------------------------------
(* Properties.                                                             *)

\* The limits hold through every race; an answer agrees with what the blocks
\* did, and the error it names is the first in block order.  Cancelled means the
\* flag was raised, except that a block whose own error reads "cancelled" is
\* answered so as well.
ExecutorHolds ==
    /\ Cardinality(Holding) <= Permits
    /\ used = Bytes * Cardinality(Guarded) /\ used <= Budget
    /\ \A i, j \in DOMAIN progress : progress[i] = progress[j] => i = j
    /\ outcome = "Ok" => /\ \A b \in Ids : task[b] = "ok"
                         /\ {progress[i] : i \in DOMAIN progress} = Ids
    /\ outcome = "Cancelled" => \/ cancelled
                                \/ task[next] = "named" /\ \A b \in 1..(next - 1) : task[b] = "ok"
    /\ outcome = "Worker" => task[next] = "failed" /\ \A b \in 1..(next - 1) : task[b] = "ok"
=============================================================================
