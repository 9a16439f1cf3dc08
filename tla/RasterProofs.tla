---------------------------- MODULE RasterProofs ----------------------------
(***************************************************************************)
(* Two ways to work through a raster block by block, for any number of     *)
(* blocks and threads.  run_blocks keeps its limits and its answers, for   *)
(* any memory budget; a block-parallel call of a dataset puts every pixel  *)
(* in its place, for rasters of any size, blocks and overlaps.  And the    *)
(* processes on data cubes, in chains of any length: a cube says the truth *)
(* about its rasters.                                                      *)
(***************************************************************************)
EXTENDS RasterRun, BlockExecutor, CubeOps, OrderingProofs, FiniteSetTheorems, TLAPS

-----------------------------------------------------------------------------
(* run_blocks.                                                             *)

TaskStates == {"none", "spawned", "skipped", "reserving", "working", "counting_ok", "counting_failed",
               "counting_named", "reporting_ok", "reporting_failed", "reporting_named", "ok", "failed", "named"}
ExecTypeOK ==
    /\ caller \in {"check", "acquire", "collect", "returned"}
    /\ next \in 1..(Blocks + 1)
    /\ task \in [Ids -> TaskStates] /\ cur \in [Ids -> Nat]
    /\ cancelled \in BOOLEAN /\ used \in Nat /\ done \in Nat
    /\ progress \in Seq(Nat)
    /\ outcome \in {"none", "Ok", "Cancelled", "Worker"}

\* Tasks by the state they are in.
At(T) == {b \in Ids : task[b] \in T}
Running == TaskStates \ (Ended \cup {"none"})
Reports == {"reporting_ok", "reporting_failed", "reporting_named"}
Passed == Reports \cup {"ok"}
Left == Passed \cup {"failed", "named"}

Limits ==
    /\ Cardinality(At(Running)) <= Permits
    /\ used = Bytes * Cardinality(At({"working"})) /\ used <= Budget
\* Every number up to `done' was reported once or is about to be.
Numbers ==
    /\ \A b \in At(Reports) : cur[b] \in 1..done /\ \A i \in DOMAIN progress : progress[i] # cur[b]
    /\ \A b, c \in At(Reports) : cur[b] = cur[c] => b = c
    /\ \A i \in DOMAIN progress : progress[i] \in 1..done
    /\ \A i, j \in DOMAIN progress : progress[i] = progress[j] => i = j
    /\ \A n \in 1..done : (\E i \in DOMAIN progress : progress[i] = n) \/ (\E b \in At(Reports) : cur[b] = n)
\* What `done' counts: at least the blocks known to have passed, and no more
\* than those and the failed ones (a panic fails a block uncounted).
Tally == Cardinality(At(Passed)) <= done /\ done <= Cardinality(At(Left))
OwnError == next \in Ids /\ task[next] = "named" /\ \A b \in 1..(next - 1) : task[b] = "ok"
Caller ==
    /\ caller \in {"check", "acquire"} => \A b \in next..Blocks : task[b] = "none"
    /\ caller = "acquire" => next <= Blocks
    /\ caller = "collect" => \A b \in 1..(next - 1) : task[b] = "ok"
    /\ outcome # "none" => caller = "returned"
    /\ \A b \in Ids : task[b] = "skipped" => cancelled
    /\ outcome = "Ok" => \A b \in Ids : task[b] = "ok"
    /\ outcome = "Cancelled" => cancelled \/ OwnError
    /\ outcome = "Worker" => next \in Ids /\ task[next] = "failed" /\ \A b \in 1..(next - 1) : task[b] = "ok"
ExecInv == ExecTypeOK /\ Limits /\ Numbers /\ Tally /\ Caller

LEMMA PermitsType == Permits \in Nat /\ Permits >= 1
BY ExecAssumption DEF Permits

LEMMA AtCounts == ASSUME NEW T PROVE IsFiniteSet(At(T)) /\ Cardinality(At(T)) \in Nat /\ Cardinality(At(T)) <= Blocks
<1>1. IsFiniteSet(Ids) /\ Cardinality(Ids) = Blocks
    BY ExecAssumption, FS_Interval DEF Ids
<1>2. At(T) \subseteq Ids
    BY DEF At
<1>3. IsFiniteSet(At(T)) /\ Cardinality(At(T)) <= Blocks
    BY <1>1, <1>2, FS_Subset
<1> QED BY <1>3, FS_CardinalityType

LEMMA NobodyYet == ASSUME NEW T, task = [b \in Ids |-> "none"], "none" \notin T PROVE At(T) = {} /\ Cardinality(At(T)) = 0
<1>1. At(T) = {}
    BY DEF At
<1> QED BY <1>1, FS_EmptySet

\* A task that moves leaves one class and enters another.
LEMMA Moves ==
    ASSUME ExecTypeOK, NEW b \in Ids, NEW s, task' = [task EXCEPT ![b] = s], NEW T
    PROVE  Cardinality(At(T)') = Cardinality(At(T)) + (IF s \in T THEN 1 ELSE 0) - (IF task[b] \in T THEN 1 ELSE 0)
<1>1. At(T)' = IF s \in T THEN At(T) \cup {b} ELSE At(T) \ {b}
    BY DEF At, ExecTypeOK
<1>2. b \in At(T) <=> task[b] \in T
    BY DEF At
<1>3. IsFiniteSet(At(T)) /\ Cardinality(At(T)) \in Nat
    BY AtCounts
<1>4. /\ IsFiniteSet(At(T) \cup {b})
      /\ Cardinality(At(T) \cup {b}) = IF b \in At(T) THEN Cardinality(At(T)) ELSE Cardinality(At(T)) + 1
    BY <1>3, FS_AddElement
<1>5. Cardinality(At(T) \ {b}) = IF b \in At(T) THEN Cardinality(At(T)) - 1 ELSE Cardinality(At(T))
    BY <1>3, FS_RemoveElement
<1>6. CASE s \in T
    BY <1>1, <1>2, <1>3, <1>4, <1>6
<1>7. CASE s \notin T
    BY <1>1, <1>2, <1>3, <1>5, <1>7
<1> QED BY <1>6, <1>7

LEMMA Stays == ASSUME task' = task, NEW T PROVE At(T)' = At(T)
BY DEF At

LEMMA ExecInitInv == ExecInit => ExecInv
<1> SUFFICES ASSUME ExecInit PROVE ExecInv
    OBVIOUS
<1>1. ExecTypeOK
    <2>1. next \in 1..(Blocks + 1) /\ used \in Nat /\ done \in Nat /\ cur \in [Ids -> Nat]
        BY ExecAssumption DEF ExecInit
    <2>2. task \in [Ids -> TaskStates]
        BY DEF ExecInit, TaskStates
    <2>3. progress \in Seq(Nat)
        BY DEF ExecInit
    <2>4. cancelled \in BOOLEAN /\ caller = "check" /\ outcome = "none"
        BY Zenon DEF ExecInit
    <2> QED BY <2>1, <2>2, <2>3, <2>4 DEF ExecTypeOK
<1>2. task = [b \in Ids |-> "none"]
    BY DEF ExecInit
<1>3. At(Running) = {} /\ Cardinality(At(Running)) = 0 /\ Cardinality(At({"working"})) = 0
    <2>1. "none" \notin Running /\ "none" \notin {"working"}
        BY DEF Running
    <2> QED BY <1>2, <2>1, NobodyYet
<1>4. At(Reports) = {} /\ Cardinality(At(Passed)) = 0 /\ Cardinality(At(Left)) = 0
    <2>1. "none" \notin Reports /\ "none" \notin Passed /\ "none" \notin Left
        BY DEF Reports, Passed, Left
    <2> QED BY <1>2, <2>1, NobodyYet
<1>5. Limits
    BY <1>3, ExecAssumption, PermitsType DEF ExecInit, Limits
<1>6. Numbers
    BY <1>4 DEF ExecInit, Numbers
<1>7. Tally
    BY <1>4 DEF ExecInit, Tally
<1>8. Caller
    BY ExecAssumption DEF ExecInit, Caller, Ids
<1> QED BY <1>1, <1>5, <1>6, <1>7, <1>8 DEF ExecInv

\* The classes that hold a permit are those of the model's definition.
LEMMA Classes == ASSUME ExecTypeOK PROVE Holding = At(Running) /\ Guarded = At({"working"})
BY DEF ExecTypeOK, Holding, Guarded, At, Running

\* A step that no reporting task sees keeps the numbers.
LEMMA NumbersKept ==
    ASSUME Numbers, At(Reports)' = At(Reports), progress' = progress, done' = done,
           \A b \in At(Reports) : cur'[b] = cur[b]
    PROVE  Numbers'
BY DEF Numbers

\* A task of the pool never changes what the caller has seen.
LEMMA CallerKept ==
    ASSUME ExecTypeOK, Caller, NEW b \in Ids, NEW s, task' = [task EXCEPT ![b] = s],
           task[b] \notin Ended \cup {"none"}, s = "skipped" => cancelled,
           UNCHANGED <<caller, next, outcome, cancelled>>
    PROVE  Caller'
<1>1. \A c \in Ids : c # b => task'[c] = task[c]
    BY DEF ExecTypeOK
<1>2. task'[b] = s
    BY DEF ExecTypeOK
<1>3. \A c \in Ids : task[c] \in Ended \cup {"none"} => task'[c] = task[c]
    BY <1>1
<1>4. \A c \in 1..(next - 1) : c \in Ids
    BY ExecAssumption DEF ExecTypeOK, Ids
<1>5. \A c \in next..Blocks : c \in Ids
    BY ExecAssumption DEF ExecTypeOK, Ids
<1>6. caller \in {"check", "acquire"} => \A c \in next..Blocks : task'[c] = "none"
    BY <1>3, <1>5 DEF Caller
<1>7. caller = "collect" => \A c \in 1..(next - 1) : task'[c] = "ok"
    BY <1>3, <1>4 DEF Caller, Ended
<1>8. \A c \in Ids : task'[c] = "skipped" => cancelled
    BY <1>1, <1>2 DEF Caller
<1>9. outcome = "Ok" => \A c \in Ids : task'[c] = "ok"
    BY <1>3 DEF Caller, Ended
<1>10. outcome = "Worker" => next \in Ids /\ task'[next] = "failed" /\ \A c \in 1..(next - 1) : task'[c] = "ok"
    BY <1>3, <1>4 DEF Caller, Ended
<1>11. OwnError => OwnError'
    BY <1>3, <1>4 DEF OwnError, Ended
<1> QED BY <1>6, <1>7, <1>8, <1>9, <1>10, <1>11 DEF Caller

\* What a step that leaves the tasks alone owes.
LEMMA TasksAlone ==
    ASSUME ExecInv, UNCHANGED <<task, cur, used, done, progress>>
    PROVE  Limits' /\ Numbers' /\ Tally'
<1>1. /\ At(Running)' = At(Running) /\ At({"working"})' = At({"working"}) /\ At(Reports)' = At(Reports)
      /\ At(Passed)' = At(Passed) /\ At(Left)' = At(Left)
    BY Stays
<1>2. Limits' /\ Tally'
    BY <1>1 DEF ExecInv, Limits, Tally
<1>3. Numbers'
    BY <1>1, NumbersKept DEF ExecInv
<1> QED BY <1>2, <1>3

LEMMA CancelKeeps == ASSUME ExecInv, cancel PROVE ExecInv'
<1>1. Limits' /\ Numbers' /\ Tally'
    BY TasksAlone DEF cancel
<1>2. ExecTypeOK'
    BY DEF ExecInv, ExecTypeOK, cancel
<1>3. Caller'
    BY DEF ExecInv, Caller, OwnError, cancel
<1> QED BY <1>1, <1>2, <1>3 DEF ExecInv

LEMMA SubmitKeeps == ASSUME ExecInv, submit PROVE ExecInv'
<1>1. Limits' /\ Numbers' /\ Tally'
    BY TasksAlone DEF submit
<1>2. ExecTypeOK'
    BY ExecAssumption DEF ExecInv, ExecTypeOK, submit, Return
<1>3. Caller'
    <2>1. outcome = "none"
        BY DEF ExecInv, ExecTypeOK, Caller, submit
    <2>2. CASE next > Blocks
        BY <2>1, <2>2 DEF ExecInv, ExecTypeOK, Caller, submit
    <2>3. CASE next <= Blocks
        BY <2>1, <2>3, ExecAssumption DEF ExecInv, ExecTypeOK, Caller, submit, Return
    <2> QED BY <2>2, <2>3, ExecAssumption DEF ExecInv, ExecTypeOK
<1> QED BY <1>1, <1>2, <1>3 DEF ExecInv

LEMMA CollectKeeps == ASSUME ExecInv, collect PROVE ExecInv'
<1>1. Limits' /\ Numbers' /\ Tally'
    BY TasksAlone DEF collect
<1> USE DEF ExecInv
<1>2. outcome = "none" /\ next \in Nat /\ next >= 1 /\ next <= Blocks + 1 /\ Blocks \in Nat
    BY ExecAssumption DEF ExecTypeOK, Caller, collect
<1>3. CASE next > Blocks
    <2>1. Ids = 1..(next - 1)
        BY <1>2, <1>3 DEF Ids
    <2>2. ExecTypeOK' /\ Caller'
        BY <1>2, <1>3, <2>1 DEF ExecTypeOK, Caller, collect, Return
    <2> QED BY <1>1, <2>2
<1>4. CASE next <= Blocks
    <2>1. next \in Ids
        BY <1>2, <1>4 DEF Ids
    <2>2. CASE task[next] = "ok"
        <3>1. next' = next + 1 /\ UNCHANGED <<task, cur, cancelled, used, done, progress, caller, outcome>>
            BY <1>2, <1>4, <2>2 DEF collect
        <3>2. \A b \in 1..next : task[b] = "ok"
            BY <1>2, <2>2 DEF Caller, collect
        <3>3. ExecTypeOK' /\ Caller'
            BY <1>2, <1>4, <3>1, <3>2 DEF ExecTypeOK, Caller, collect
        <3> QED BY <1>1, <3>3
    <2>3. CASE task[next] = "skipped"
        <3>1. Return("Cancelled") /\ UNCHANGED <<task, cur, cancelled, used, done, progress, next>>
            BY <1>2, <1>4, <2>3 DEF collect
        <3>2. ExecTypeOK' /\ Caller'
            BY <1>2, <2>1, <2>3, <3>1 DEF ExecTypeOK, Caller, Return, collect
        <3> QED BY <1>1, <3>2
    <2>5. CASE task[next] = "named"
        <3>1. Return("Cancelled") /\ UNCHANGED <<task, cur, cancelled, used, done, progress, next>>
            BY <1>2, <1>4, <2>5 DEF collect
        <3>2. OwnError'
            BY <2>1, <2>5, <3>1 DEF Caller, OwnError, collect
        <3>3. ExecTypeOK' /\ Caller'
            BY <1>2, <2>1, <2>5, <3>1, <3>2 DEF ExecTypeOK, Caller, Return, collect
        <3> QED BY <1>1, <3>3
    <2>4. CASE task[next] = "failed"
        <3>1. Return("Worker") /\ UNCHANGED <<task, cur, cancelled, used, done, progress, next>>
            BY <1>2, <1>4, <2>4 DEF collect
        <3>2. ExecTypeOK' /\ Caller'
            BY <1>2, <2>1, <2>4, <3>1 DEF ExecTypeOK, Caller, Return, collect
        <3> QED BY <1>1, <3>2
    <2> QED BY <1>2, <1>4, <2>2, <2>3, <2>4, <2>5 DEF collect, Ended
<1> QED BY <1>2, <1>3, <1>4

LEMMA AcquireKeeps == ASSUME ExecInv, acquire PROVE ExecInv'
<1> USE DEF ExecInv
<1>1. next \in Ids /\ task[next] = "none" /\ task' = [task EXCEPT ![next] = "spawned"] /\ outcome = "none" /\ next \in Nat
    BY ExecAssumption DEF acquire, Caller, ExecTypeOK, Ids
<1>2. ExecTypeOK'
    BY <1>1, ExecAssumption DEF acquire, ExecTypeOK, TaskStates, Ids
<1>3. Limits'
    <2>1. Cardinality(At(Running)) < Permits
        BY Classes DEF acquire
    <2>2. "spawned" \in Running /\ task[next] \notin Running /\ "spawned" \notin {"working"} /\ task[next] \notin {"working"}
        BY <1>1 DEF Running, TaskStates, Ended
    <2>3. Cardinality(At(Running)') = Cardinality(At(Running)) + 1 - 0
        BY <1>1, <2>2, Moves
    <2>4. Cardinality(At({"working"})') = Cardinality(At({"working"})) + 0 - 0
        BY <1>1, <2>2, Moves
    <2>5. Cardinality(At(Running)) \in Nat /\ Cardinality(At({"working"})) \in Nat
        BY AtCounts
    <2>6. Cardinality(At(Running)') <= Permits /\ Cardinality(At({"working"})') = Cardinality(At({"working"}))
        BY <2>1, <2>3, <2>4, <2>5, PermitsType
    <2> QED BY <2>6 DEF Limits, acquire
<1>4. Numbers'
    <2>1. At(Reports)' = At(Reports)
        BY <1>1 DEF At, Reports, ExecTypeOK
    <2> QED BY <2>1, NumbersKept DEF acquire
<1>5. Tally'
    <2>1. "spawned" \notin Passed /\ task[next] \notin Passed /\ "spawned" \notin Left /\ task[next] \notin Left
        BY <1>1 DEF Passed, Left, Reports
    <2>2. Cardinality(At(Passed)') = Cardinality(At(Passed)) + 0 - 0 /\ Cardinality(At(Left)') = Cardinality(At(Left)) + 0 - 0
        BY <1>1, <2>1, Moves
    <2>3. Cardinality(At(Passed)) \in Nat /\ Cardinality(At(Left)) \in Nat
        BY AtCounts
    <2>4. Cardinality(At(Passed)') = Cardinality(At(Passed)) /\ Cardinality(At(Left)') = Cardinality(At(Left))
        BY <2>2, <2>3
    <2> QED BY <2>4 DEF Tally, acquire
<1>6. Caller'
    <2>1. \A b \in (next + 1)..Blocks : b \in next..Blocks /\ b # next /\ b \in Ids
        BY <1>1, ExecAssumption DEF Ids
    <2>2. \A b \in Ids : b # next => task'[b] = task[b]
        BY <1>1 DEF ExecTypeOK
    <2>3. \A b \in (next + 1)..Blocks : task'[b] = "none"
        BY <2>1, <2>2 DEF Caller, acquire
    <2>4. task'[next] = "spawned"
        BY <1>1 DEF ExecTypeOK
    <2>5. \A b \in Ids : task'[b] = "skipped" => cancelled
        BY <2>2, <2>4 DEF Caller
    <2> QED BY <1>1, <2>3, <2>5 DEF Caller, acquire
<1> QED BY <1>2, <1>3, <1>4, <1>5, <1>6

\* A task's move between two classes that no count below tells apart.
LEMMA QuietMove ==
    ASSUME ExecInv, NEW b \in Ids, NEW s, task' = [task EXCEPT ![b] = s],
           s \notin Left, task[b] \notin Left,
           \A c \in Ids : c # b => cur'[c] = cur[c], UNCHANGED <<progress, done>>
    PROVE  Numbers' /\ Tally'
<1> USE DEF ExecInv
<1>1. At(Reports)' = At(Reports) /\ \A c \in At(Reports) : c # b /\ c \in Ids
    BY DEF At, Reports, Left, Passed, ExecTypeOK
<1>2. Numbers'
    <2>1. \A c \in At(Reports) : cur'[c] = cur[c]
        BY <1>1
    <2> QED BY <1>1, <2>1, NumbersKept
<1>3. s \notin Passed /\ task[b] \notin Passed
    BY DEF Left
<1>4. Cardinality(At(Passed)') = Cardinality(At(Passed)) + 0 - 0 /\ Cardinality(At(Left)') = Cardinality(At(Left)) + 0 - 0
    BY <1>3, Moves
<1>5. Cardinality(At(Passed)) \in Nat /\ Cardinality(At(Left)) \in Nat
    BY AtCounts
<1>6. Cardinality(At(Passed)') = Cardinality(At(Passed)) /\ Cardinality(At(Left)') = Cardinality(At(Left))
    BY <1>4, <1>5
<1> QED BY <1>2, <1>6 DEF Tally

\* A task that does not hold memory before or after its move.
LEMMA LimitsKept ==
    ASSUME ExecInv, NEW b \in Ids, NEW s, task' = [task EXCEPT ![b] = s],
           task[b] \in Running, s # "working", task[b] # "working", used' = used
    PROVE  Limits'
<1>1. Cardinality(At({"working"})') = Cardinality(At({"working"})) + 0 - 0
    BY Moves DEF ExecInv
<1>2. Cardinality(At(Running)') = Cardinality(At(Running)) + (IF s \in Running THEN 1 ELSE 0) - 1
    BY Moves DEF ExecInv
<1>3. Cardinality(At(Running)) \in Nat /\ Cardinality(At({"working"})) \in Nat
    BY AtCounts
<1>4. Cardinality(At({"working"})') = Cardinality(At({"working"})) /\ Cardinality(At(Running)') <= Cardinality(At(Running))
      /\ Cardinality(At(Running)') \in Int
    BY <1>1, <1>2, <1>3
<1>5. Cardinality(At(Running)) <= Permits
    BY DEF ExecInv, Limits
<1>6. Cardinality(At(Running)') <= Permits
    BY <1>3, <1>4, <1>5, PermitsType
<1> QED BY <1>4, <1>6 DEF ExecInv, Limits

LEMMA BeginKeeps == ASSUME ExecInv, NEW b \in Ids, begin(b) PROVE ExecInv'
<1> USE DEF ExecInv
<1>1. PICK s \in {"skipped", "reserving"} : task' = [task EXCEPT ![b] = s] /\ (s = "skipped" => cancelled)
    BY DEF begin
<1>2. task[b] = "spawned"
    BY DEF begin
<1>3. ExecTypeOK'
    BY <1>1 DEF begin, ExecTypeOK, TaskStates
<1>4. Limits'
    BY <1>1, <1>2, LimitsKept DEF begin, Running, TaskStates, Ended
<1>5. Numbers' /\ Tally'
    <2>1. s \notin Left /\ task[b] \notin Left
        BY <1>2 DEF Left, Passed, Reports
    <2>2. \A c \in Ids : c # b => cur'[c] = cur[c]
        BY DEF begin, ExecTypeOK
    <2> QED BY <1>1, <2>1, <2>2, QuietMove DEF begin
<1>6. Caller'
    BY <1>1, <1>2, CallerKept DEF begin, Ended
<1> QED BY <1>3, <1>4, <1>5, <1>6

LEMMA ReserveKeeps == ASSUME ExecInv, NEW b \in Ids, try_reserve(b) PROVE ExecInv'
<1> USE DEF ExecInv
<1>1. task[b] = "reserving" /\ task[b] \in Running /\ task[b] \notin Left
    BY DEF try_reserve, Running, TaskStates, Ended, Left, Passed, Reports
<1>2. CASE cur[b] + Bytes > Budget
    <2>1. task' = [task EXCEPT ![b] = "counting_failed"] /\ UNCHANGED <<cur, used, caller, next, cancelled, done, progress, outcome>>
        BY <1>2 DEF try_reserve
    <2>2. ExecTypeOK'
        BY <2>1 DEF ExecTypeOK, TaskStates
    <2>3. Limits'
        BY <1>1, <2>1, LimitsKept
    <2>4. Numbers' /\ Tally'
        <3>1. "counting_failed" \notin Left
            BY DEF Left, Passed, Reports
        <3> QED BY <1>1, <2>1, <3>1, QuietMove
    <2>5. Caller'
        BY <1>1, <2>1, CallerKept DEF Ended
    <2> QED BY <2>2, <2>3, <2>4, <2>5
<1>3. CASE ~(cur[b] + Bytes > Budget) /\ used = cur[b]
    <2>1. task' = [task EXCEPT ![b] = "working"] /\ used' = used + Bytes /\ UNCHANGED <<cur, caller, next, cancelled, done, progress, outcome>>
        BY <1>3 DEF try_reserve
    <2>2. used \in Nat /\ used + Bytes <= Budget
        BY <1>3, ExecAssumption DEF ExecTypeOK
    <2>3. ExecTypeOK'
        BY <2>1, <2>2, ExecAssumption DEF ExecTypeOK, TaskStates
    <2>4. Limits'
        <3>1. "working" \in Running /\ task[b] \notin {"working"}
            BY <1>1 DEF Running, TaskStates, Ended
        <3>2. Cardinality(At(Running)') = Cardinality(At(Running)) + 1 - 1
            BY <1>1, <2>1, <3>1, Moves
        <3>3. Cardinality(At({"working"})') = Cardinality(At({"working"})) + 1 - 0
            BY <1>1, <2>1, <3>1, Moves
        <3>4. Cardinality(At(Running)) \in Nat /\ Cardinality(At({"working"})) \in Nat
            BY AtCounts
        <3>5. Cardinality(At(Running)') = Cardinality(At(Running))
            BY <3>2, <3>4
        <3>6. \A c \in Nat : Bytes * (c + 1 - 0) = Bytes * c + Bytes
            BY ExecAssumption
        <3>7. used' = Bytes * Cardinality(At({"working"})')
            BY <2>1, <3>3, <3>4, <3>6 DEF Limits
        <3> QED BY <2>1, <2>2, <3>5, <3>7 DEF Limits
    <2>5. Numbers' /\ Tally'
        <3>1. "working" \notin Left
            BY DEF Left, Passed, Reports
        <3> QED BY <1>1, <2>1, <3>1, QuietMove
    <2>6. Caller'
        BY <1>1, <2>1, CallerKept DEF Ended
    <2> QED BY <2>3, <2>4, <2>5, <2>6
<1>4. CASE ~(cur[b] + Bytes > Budget) /\ used # cur[b]
    <2>1. cur' = [cur EXCEPT ![b] = used] /\ UNCHANGED <<task, used, caller, next, cancelled, done, progress, outcome>>
        BY <1>4 DEF try_reserve
    <2>2. ExecTypeOK'
        BY <2>1 DEF ExecTypeOK
    <2>3. /\ At(Running)' = At(Running) /\ At({"working"})' = At({"working"}) /\ At(Reports)' = At(Reports)
          /\ At(Passed)' = At(Passed) /\ At(Left)' = At(Left)
        BY <2>1, Stays
    <2>4. Limits' /\ Tally'
        BY <2>1, <2>3 DEF Limits, Tally
    <2>5. \A c \in At(Reports) : cur'[c] = cur[c]
        BY <1>1, <2>1 DEF At, Reports, ExecTypeOK
    <2>6. Numbers'
        BY <2>1, <2>3, <2>5, NumbersKept
    <2>7. Caller'
        BY <2>1 DEF Caller, OwnError
    <2> QED BY <2>2, <2>4, <2>6, <2>7
<1> QED BY <1>2, <1>3, <1>4

LEMMA WorkerKeeps == ASSUME ExecInv, NEW b \in Ids, worker(b) PROVE ExecInv'
<1> USE DEF ExecInv
<1>1. PICK s \in {"counting_ok", "counting_failed", "counting_named", "failed"} : task' = [task EXCEPT ![b] = s]
    BY DEF worker
<1>2. task[b] = "working" /\ task[b] \in Running /\ task[b] \notin Left /\ s \notin {"working"} /\ s \notin Passed /\ s # "none"
    BY DEF worker, Running, TaskStates, Ended, Left, Passed, Reports
<1>3. Cardinality(At(Running)) \in Nat /\ Cardinality(At({"working"})) \in Nat
      /\ Cardinality(At(Passed)) \in Nat /\ Cardinality(At(Left)) \in Nat /\ Cardinality(At({"working"})') \in Nat
    <2>1. IsFiniteSet(Ids) /\ At({"working"})' \subseteq Ids
        BY ExecAssumption, FS_Interval DEF Ids, At
    <2>2. Cardinality(At({"working"})') \in Nat
        BY <2>1, FS_Subset, FS_CardinalityType
    <2> QED BY <2>2, AtCounts
<1>4. Cardinality(At({"working"})') = Cardinality(At({"working"})) + 0 - 1
    BY <1>1, <1>2, Moves
<1>5. used' = Bytes * Cardinality(At({"working"})')
    <2>1. \A c, d \in Nat : d = c + 0 - 1 => Bytes * d = Bytes * c - Bytes
        BY ExecAssumption
    <2> QED BY <1>3, <1>4, <2>1 DEF Limits, worker
<1>6. used' \in Nat /\ used' <= Budget
    <2>1. \A d \in Nat : Bytes * d \in Nat
        BY ExecAssumption
    <2>2. used' \in Nat
        BY <1>3, <1>5, <2>1
    <2>3. used' <= used
        BY ExecAssumption DEF worker, ExecTypeOK
    <2> QED BY <2>2, <2>3, ExecAssumption DEF Limits, ExecTypeOK
<1>7. ExecTypeOK'
    BY <1>1, <1>6 DEF worker, ExecTypeOK, TaskStates
<1>8. Limits'
    <2>1. Cardinality(At(Running)') = Cardinality(At(Running)) + (IF s \in Running THEN 1 ELSE 0) - 1
        BY <1>1, <1>2, Moves
    <2>2. Cardinality(At(Running)') <= Permits
        BY <1>3, <2>1, PermitsType DEF Limits
    <2> QED BY <1>5, <1>6, <2>2 DEF Limits
<1>9. Numbers'
    <2>1. At(Reports)' = At(Reports)
        BY <1>1, <1>2 DEF At, Reports, Passed, Left, ExecTypeOK
    <2> QED BY <2>1, NumbersKept DEF worker
<1>10. Tally'
    <2>1. task[b] \notin Passed
        BY <1>2 DEF Left
    <2>2. Cardinality(At(Passed)') = Cardinality(At(Passed)) + 0 - 0
        BY <1>1, <1>2, <2>1, Moves
    <2>3. Cardinality(At(Left)') = Cardinality(At(Left)) + (IF s \in Left THEN 1 ELSE 0) - 0
        BY <1>1, <1>2, Moves
    <2>4. Cardinality(At(Passed)') = Cardinality(At(Passed)) /\ Cardinality(At(Left)') >= Cardinality(At(Left)) /\ Cardinality(At(Left)') \in Int
        BY <1>3, <2>2, <2>3
    <2> QED BY <1>3, <2>4 DEF Tally, worker, ExecTypeOK
<1>11. Caller'
    BY <1>1, <1>2, CallerKept DEF worker, Ended
<1> QED BY <1>7, <1>8, <1>9, <1>10, <1>11

LEMMA CountKeeps == ASSUME ExecInv, NEW b \in Ids, count(b) PROVE ExecInv'
<1> USE DEF ExecInv
<1>1. PICK s \in Reports : task' = [task EXCEPT ![b] = s]
    BY DEF count, Reports
<1>2. task[b] \in Running /\ task[b] # "working" /\ s # "working" /\ task[b] \notin Left /\ task[b] \notin Passed
      /\ task[b] \notin Reports /\ task[b] \notin Ended \cup {"none"} /\ s \in Left /\ s \in Passed /\ s # "skipped"
    BY DEF count, Running, TaskStates, Ended, Left, Passed, Reports
<1>3. done' = done + 1 /\ cur' = [cur EXCEPT ![b] = done + 1] /\ UNCHANGED <<caller, next, cancelled, used, progress, outcome>>
    BY DEF count
<1>4. ExecTypeOK'
    BY <1>1, <1>3 DEF ExecTypeOK, TaskStates, Reports
<1>5. Limits'
    BY <1>1, <1>2, <1>3, LimitsKept
<1>6. Numbers'
    <2>1. At(Reports)' = At(Reports) \cup {b} /\ b \notin At(Reports)
        BY <1>1, <1>2 DEF At, ExecTypeOK
    <2>2. cur'[b] = done + 1 /\ \A c \in At(Reports) : c \in Ids /\ cur'[c] = cur[c]
        BY <1>3, <2>1 DEF At, ExecTypeOK
    <2>3. done \in Nat /\ \A n \in 1..done : n \in 1..(done + 1) /\ n # done + 1
        BY DEF ExecTypeOK
    <2>4. \A n \in 1..(done + 1) : n \in 1..done \/ n = done + 1
        BY DEF ExecTypeOK
    <2>5. done + 1 \in 1..(done + 1)
        BY DEF ExecTypeOK
    <2>6. \A c \in At(Reports)' : cur'[c] \in 1..done' /\ \A i \in DOMAIN progress' : progress'[i] # cur'[c]
        BY <1>3, <2>1, <2>2, <2>3, <2>5 DEF Numbers
    <2>7. \A c, d \in At(Reports)' : cur'[c] = cur'[d] => c = d
        BY <2>1, <2>2, <2>3 DEF Numbers
    <2>8. \A i \in DOMAIN progress' : progress'[i] \in 1..done'
        BY <1>3, <2>3 DEF Numbers
    <2>9. \A n \in 1..done' : (\E i \in DOMAIN progress' : progress'[i] = n) \/ (\E c \in At(Reports)' : cur'[c] = n)
        BY <1>3, <2>1, <2>2, <2>4 DEF Numbers
    <2> QED BY <1>3, <2>6, <2>7, <2>8, <2>9 DEF Numbers
<1>7. Tally'
    <2>1. Cardinality(At(Passed)') = Cardinality(At(Passed)) + 1 - 0 /\ Cardinality(At(Left)') = Cardinality(At(Left)) + 1 - 0
        BY <1>1, <1>2, Moves
    <2>2. Cardinality(At(Passed)) \in Nat /\ Cardinality(At(Left)) \in Nat
        BY AtCounts
    <2> QED BY <1>3, <2>1, <2>2 DEF Tally, ExecTypeOK
<1>8. Caller'
    BY <1>1, <1>2, <1>3, CallerKept
<1> QED BY <1>4, <1>5, <1>6, <1>7, <1>8

LEMMA ReportKeeps == ASSUME ExecInv, NEW b \in Ids, report(b) PROVE ExecInv'
<1> USE DEF ExecInv
<1>1. PICK s \in {"ok", "failed", "named"} : task' = [task EXCEPT ![b] = s]
    BY DEF report
<1>2. task[b] \in Reports /\ task[b] \in Running /\ task[b] # "working" /\ task[b] \notin Ended \cup {"none"}
      /\ s # "working" /\ s \notin Reports /\ s # "skipped" /\ task[b] \in Passed /\ task[b] \in Left /\ s \in Left
    BY DEF report, Running, TaskStates, Ended, Left, Passed, Reports
<1>3. progress' = Append(progress, cur[b]) /\ UNCHANGED <<caller, next, cur, cancelled, used, done, outcome>>
    BY DEF report
<1>4. ExecTypeOK'
    <2>1. cur[b] \in Nat
        BY DEF ExecTypeOK
    <2>2. progress' \in Seq(Nat)
        BY <1>3, <2>1 DEF ExecTypeOK
    <2>3. task' \in [Ids -> TaskStates]
        BY <1>1 DEF ExecTypeOK, TaskStates
    <2> QED BY <1>3, <2>2, <2>3 DEF ExecTypeOK
<1>5. Limits'
    BY <1>1, <1>2, <1>3, LimitsKept
<1>6. Numbers'
    <2>1. At(Reports)' = At(Reports) \ {b} /\ b \in At(Reports)
        BY <1>1, <1>2 DEF At, ExecTypeOK
    <2>2. Len(progress) \in Nat /\ Len(progress') = Len(progress) + 1 /\ DOMAIN progress = 1..Len(progress)
          /\ DOMAIN progress' = 1..(Len(progress) + 1)
        BY <1>3 DEF ExecTypeOK
    <2>3. \A i \in DOMAIN progress : progress'[i] = progress[i]
        BY <1>3 DEF ExecTypeOK
    <2>4. progress'[Len(progress) + 1] = cur[b]
        BY <1>3 DEF ExecTypeOK
    <2> DEFINE L == Len(progress) + 1
    <2>5. \A i \in DOMAIN progress' : i \in DOMAIN progress \/ i = L
        BY <2>2
    <2>6. L \in DOMAIN progress' /\ \A i \in DOMAIN progress : i \in DOMAIN progress'
        BY <2>2
    <2>7. progress'[L] = cur[b]
        BY <2>4
    <2> HIDE DEF L
    <2>8. \A c \in At(Reports)' : cur'[c] \in 1..done' /\ \A i \in DOMAIN progress' : progress'[i] # cur'[c]
        BY <1>3, <2>1, <2>3, <2>5, <2>7 DEF Numbers
    <2>9. \A c, d \in At(Reports)' : cur'[c] = cur'[d] => c = d
        BY <1>3, <2>1 DEF Numbers
    <2>10. \A i \in DOMAIN progress' : progress'[i] \in 1..done'
        BY <1>3, <2>1, <2>3, <2>5, <2>7 DEF Numbers
    <2>11. \A i, j \in DOMAIN progress' : progress'[i] = progress'[j] => i = j
        BY <2>1, <2>3, <2>5, <2>7 DEF Numbers
    <2>12. \A n \in 1..done' : (\E i \in DOMAIN progress' : progress'[i] = n) \/ (\E c \in At(Reports)' : cur'[c] = n)
        BY <1>3, <2>1, <2>3, <2>6, <2>7 DEF Numbers
    <2> QED BY <2>8, <2>9, <2>10, <2>11, <2>12 DEF Numbers
<1>7. Tally'
    <2>1. Cardinality(At(Passed)') = Cardinality(At(Passed)) + (IF s \in Passed THEN 1 ELSE 0) - 1
          /\ Cardinality(At(Left)') = Cardinality(At(Left)) + 1 - 1
        BY <1>1, <1>2, Moves
    <2>2. Cardinality(At(Passed)) \in Nat /\ Cardinality(At(Left)) \in Nat
        BY AtCounts
    <2> QED BY <1>3, <2>1, <2>2 DEF Tally, ExecTypeOK
<1>8. Caller'
    BY <1>1, <1>2, <1>3, CallerKept
<1> QED BY <1>4, <1>5, <1>6, <1>7, <1>8

LEMMA ExecNextInv == ExecInv /\ [ExecNext]_execVars => ExecInv'
<1> SUFFICES ASSUME ExecInv, [ExecNext]_execVars PROVE ExecInv'
    OBVIOUS
<1>1. CASE UNCHANGED execVars
    <2>1. UNCHANGED <<caller, next, task, cur, cancelled, used, done, progress, outcome>>
        BY <1>1 DEF execVars
    <2>2. Limits' /\ Numbers' /\ Tally'
        BY <2>1, TasksAlone
    <2>3. ExecTypeOK' /\ Caller'
        BY <2>1 DEF ExecInv, ExecTypeOK, Caller, OwnError
    <2> QED BY <2>2, <2>3 DEF ExecInv
<1>2. ASSUME NEW b \in Ids, begin(b) \/ try_reserve(b) \/ worker(b) \/ count(b) \/ report(b) PROVE ExecInv'
    BY <1>2, BeginKeeps, ReserveKeeps, WorkerKeeps, CountKeeps, ReportKeeps
<1> QED BY <1>1, <1>2, CancelKeeps, SubmitKeeps, AcquireKeeps, CollectKeeps DEF ExecNext

LEMMA ExecInvHolds == ExecInv => ExecutorHolds
<1> SUFFICES ASSUME ExecInv PROVE ExecutorHolds
    OBVIOUS
<1> USE DEF ExecInv
<1>1. Cardinality(Holding) <= Permits /\ used = Bytes * Cardinality(Guarded) /\ used <= Budget
    BY Classes DEF Limits
<1>2. ASSUME outcome = "Ok" PROVE {progress[i] : i \in DOMAIN progress} = Ids
    <2>1. \A b \in Ids : task[b] = "ok"
        BY <1>2 DEF Caller
    <2>2. At(Passed) = Ids /\ At(Reports) = {}
        BY <2>1 DEF At, Passed, Reports
    <2>3. Cardinality(Ids) = Blocks
        BY ExecAssumption, FS_Interval DEF Ids
    <2>4. Cardinality(At(Left)) <= Blocks /\ Cardinality(At(Left)) \in Nat
        BY AtCounts
    <2>5. done = Blocks
        BY <2>2, <2>3, <2>4, ExecAssumption DEF Tally, ExecTypeOK
    <2> QED BY <2>2, <2>5 DEF Numbers, Ids
<1>3. /\ outcome = "Ok" => \A b \in Ids : task[b] = "ok"
      /\ outcome = "Cancelled" => cancelled \/ OwnError
      /\ outcome = "Worker" => task[next] = "failed" /\ \A b \in 1..(next - 1) : task[b] = "ok"
    BY DEF Caller
<1> QED BY <1>1, <1>2, <1>3 DEF ExecutorHolds, Numbers, OwnError

\* However submitters, workers and a cancellation interleave, run_blocks keeps
\* its thread and memory limits, numbers every report once, and answers with
\* the first failure in block order, with Ok when every block is done and
\* reported, or with Cancelled: after a cancellation, or when the first failure
\* is an error that reads "cancelled".  Asking for no threads gives one.
THEOREM BlocksRunWithinLimits == ExecSpec => []ExecutorHolds
<1>1. ExecInit => ExecInv
    BY ExecInitInv
<1>2. ExecInv /\ [ExecNext]_execVars => ExecInv'
    BY ExecNextInv
<1>3. ExecInv => ExecutorHolds
    BY ExecInvHolds
<1> QED BY <1>1, <1>2, <1>3, PTL DEF ExecSpec

-----------------------------------------------------------------------------
(* A call of a dataset.                                                    *)

Phases == {"start", "created", "run", "overviews", "written", "failing", "closed", "ok", "error"}
BlockIds == DOMAIN job.data.blocks
Target(b) == PixelsOf(write_window(job.data.blocks[b]))
\* What a block's worker answers, without the overlap.
Answer(b) == IF Failed(Worker(b)) THEN Worker(b) ELSE trim_overlap(Worker(b).ok, job.data.blocks[b])

\* Every thread is idle or holds a block; before the pool starts all are.
Held ==
    /\ todo \subseteq BlockIds /\ work \in [Threads -> {Idle} \cup ({"read", "write"} \X BlockIds)]
    /\ phase \in {"start", "created"} => ~failed /\ \A t \in Threads : work[t] = Idle
\* Where there is a dataset, it has the pixels of the raster, each with nodata or
\* its own value.
Filled ==
    /\ phase = "start" => output = Nothing
    /\ phase \notin {"start", "error"} \/ output # Nothing =>
         /\ output = [p \in PixelsIn(job.data) |-> output[p]] /\ disk = [p \in PixelsIn(job.data) |-> disk[p]]
         /\ Sound(output) /\ Sound(disk)
\* A block that nobody is to take and nobody holds has been written.
Landed(b) == Target(b) \subseteq PixelsIn(job.data) /\ \A p \in Target(b) : Own(p, output[p])
Covering ==
    /\ phase = "run" /\ ~failed =>
         \A b \in BlockIds : \/ b \in todo \/ Landed(b)
                             \/ \E t \in Threads : work[t] \in {"read", "write"} \X {b}
    /\ phase \in {"overviews", "written", "closed", "ok"} => \A b \in BlockIds : Landed(b)
\* Overviews, the closed file and the COG come from the finished dataset.
Derived ==
    /\ phase \in {"written", "closed", "ok"} /\ job.kind # "apply" => overviews = output
    /\ phase \in {"closed", "ok"} => \A p \in PixelsIn(job.data) \ unflushed : disk[p] = output[p]
    /\ cogs # Nothing => phase = "ok" /\ cogs = disk
RasterInv ==
    /\ job \in RasterJobs /\ phase \in Phases /\ failed \in BOOLEAN /\ Held /\ Derived /\ Filled /\ Covering

LEMMA MaxWithZero == ASSUME NEW n \in Int PROVE Max({n, 0}) = IF n >= 0 THEN n ELSE 0
<1>1. PICK m : m = IF n >= 0 THEN n ELSE 0
    OBVIOUS
<1>2. m \in {n, 0} /\ \A y \in {n, 0} : m >= y
    BY <1>1
<1>3. \A x \in {n, 0} : (\A y \in {n, 0} : x >= y) => x = m
    BY <1>1
<1>4. (CHOOSE x \in {n, 0} : \A y \in {n, 0} : x >= y) = m
    BY <1>2, <1>3
<1> QED BY <1>1, <1>4 DEF Max

\* The worker's answer at a pixel of its block is that pixel's own.
LEMMA WorkerSeesPixels ==
    ASSUME JobsAreCut, job \in RasterJobs, NEW b \in BlockIds, ~Failed(Worker(b)),
           NEW d, d = job.data.blocks[b].window, NEW i \in 0..(d.rows - 1), NEW k \in 0..(d.cols - 1)
    PROVE  Own(<<d.row + i, d.col + k>>, Worker(b).ok[<<i, k>>])
<1>1. <<i, k>> \in (0..(d.rows - 1)) \X (0..(d.cols - 1)) /\ <<i, k>>[1] = i /\ <<i, k>>[2] = k
    OBVIOUS
<1>2. CASE ~Masked(job.kind)
  <2>1. Worker(b) = Ok([p \in (0..(d.rows - 1)) \X (0..(d.cols - 1)) |-> << <<d.row + p[1], d.col + p[2]>> >>])
      BY <1>2 DEF Worker
  <2>2. Worker(b).ok = [p \in (0..(d.rows - 1)) \X (0..(d.cols - 1)) |-> << <<d.row + p[1], d.col + p[2]>> >>]
      BY <2>1 DEF Ok
  <2>3. Worker(b).ok[<<i, k>>] = << <<d.row + i, d.col + k>> >>
      BY <1>1, <2>2
  <2> QED BY <1>2, <2>3 DEF Own
<1>3. CASE Masked(job.kind)
  <2>1. PICK m : m = job.mask.blocks[b].window
      OBVIOUS
  <2>2. ~(m.rows < d.rows \/ m.cols < d.cols)
      BY <1>3, <2>1 DEF Worker, Failed, Err
  <2>3. Worker(b) = Ok([p \in (0..(d.rows - 1)) \X (0..(d.cols - 1)) |->
                            << <<d.row + p[1], d.col + p[2]>>, <<m.row + p[1], m.col + p[2]>> >>])
      BY <1>3, <2>1, <2>2 DEF Worker
  <2>4. Worker(b).ok = [p \in (0..(d.rows - 1)) \X (0..(d.cols - 1)) |->
                            << <<d.row + p[1], d.col + p[2]>>, <<m.row + p[1], m.col + p[2]>> >>]
      BY <2>3 DEF Ok
  <2>5. Worker(b).ok[<<i, k>>] = << <<d.row + i, d.col + k>>, <<m.row + i, m.col + k>> >>
      BY <1>1, <2>4
  <2>6. SameBlocks => m = d
      BY <2>1 DEF SameBlocks, BlockIds
  <2> QED BY <2>5, <2>6 DEF Own
<1> QED BY <1>2, <1>3

\* Trimmed and shifted to its write window, a block keeps pixel and value
\* together (block.rs: trim_overlap, write_window).
LEMMA BlocksWriteOwnPixels ==
    ASSUME JobsAreCut, job \in RasterJobs, NEW b \in BlockIds, ~Failed(Answer(b)),
           NEW w, w = write_window(job.data.blocks[b]), NEW p \in PixelsIn(job.data), p \in PixelsOf(w)
    PROVE  Own(p, Answer(b).ok[<<p[1] - w.row, p[2] - w.col>>])
<1>1. PICK region, d, ov : region = job.data.blocks[b] /\ d = region.window /\ ov = region.overlap
    OBVIOUS
<1>2. d.row \in Nat /\ d.col \in Nat /\ d.rows \in Nat /\ d.cols \in Nat
    BY <1>1 DEF JobsAreCut, Cut, BlockIds
<1>3. /\ ov \in [top : Nat, bottom : Nat, left : Nat, right : Nat]
      /\ ov.top \in Nat /\ ov.bottom \in Nat /\ ov.left \in Nat /\ ov.right \in Nat
    BY <1>1 DEF JobsAreCut, Cut, BlockIds
<1>4. /\ w.row = d.row + ov.top /\ w.col = d.col + ov.left
      /\ w.rows = d.rows - (ov.top + ov.bottom) /\ w.cols = d.cols - (ov.left + ov.right)
    BY <1>1 DEF write_window, inner_size, ReadWindow
<1>5. PICK x, y : p = <<x, y>> /\ x = p[1] /\ y = p[2] /\ x \in Int /\ y \in Int
    BY DEF PixelsIn
<1>6. /\ w.row <= x /\ x <= w.row + w.rows - 1 /\ w.col <= y /\ y <= w.col + w.cols - 1
  <2>1. x \in w.row..(w.row + w.rows - 1) /\ y \in w.col..(w.col + w.cols - 1)
      BY <1>5 DEF PixelsOf
  <2>2. w.row \in Int /\ w.col \in Int /\ w.rows \in Int /\ w.cols \in Int
      BY <1>2, <1>3, <1>4
  <2> QED BY <2>1, <2>2
<1>7. PICK i, k : i = x - d.row /\ k = y - d.col
    OBVIOUS
<1>8. i \in 0..(d.rows - 1) /\ k \in 0..(d.cols - 1) /\ d.row + i = x /\ d.col + k = y
    BY <1>2, <1>3, <1>4, <1>5, <1>6, <1>7
<1>9. ~Failed(Worker(b)) /\ Answer(b) = trim_overlap(Worker(b).ok, region)
    BY <1>1 DEF Answer
<1>10. Own(p, Worker(b).ok[<<i, k>>])
    BY <1>1, <1>5, <1>8, <1>9, WorkerSeesPixels
<1>11. CASE is_zero(ov)
  <2>1. ov.top = 0 /\ ov.left = 0
      BY <1>3, <1>11 DEF is_zero
  <2>2. Answer(b).ok = Worker(b).ok
      BY <1>1, <1>9, <1>11 DEF trim_overlap, Ok
  <2>3. x - w.row = i /\ y - w.col = k
      BY <1>2, <1>4, <1>5, <1>7, <2>1
  <2> QED BY <1>5, <1>10, <2>2, <2>3
<1>12. CASE ~is_zero(ov)
  <2>1. PICK rowEnd, colEnd : rowEnd = Max({d.rows - ov.bottom, 0}) /\ colEnd = Max({d.cols - ov.right, 0})
      OBVIOUS
  <2>2. d.rows - ov.bottom \in Int /\ d.cols - ov.right \in Int
      BY <1>2, <1>3
  <2>3. /\ rowEnd = IF d.rows - ov.bottom >= 0 THEN d.rows - ov.bottom ELSE 0
        /\ colEnd = IF d.cols - ov.right >= 0 THEN d.cols - ov.right ELSE 0
      BY <2>1, <2>2, MaxWithZero
  <2>4. rowEnd = d.rows - ov.bottom /\ colEnd = d.cols - ov.right
      BY <1>2, <1>3, <1>4, <1>5, <1>6, <2>3
  <2>5. PICK cut : cut = [q \in (0..(rowEnd - ov.top - 1)) \X (0..(colEnd - ov.left - 1)) |->
                            Worker(b).ok[<<q[1] + ov.top, q[2] + ov.left>>]]
      OBVIOUS
  <2>6. Answer(b) = IF ov.top > rowEnd \/ ov.left > colEnd THEN Err("panic") ELSE Ok(cut)
      BY <1>1, <1>9, <1>12, <2>1, <2>5 DEF trim_overlap
  <2>7. ~(ov.top > rowEnd \/ ov.left > colEnd)
      BY <1>2, <1>3, <1>4, <1>5, <1>6, <2>4
  <2>8. Answer(b).ok = cut
      BY <2>6, <2>7 DEF Ok
  <2>9. /\ x - w.row \in 0..(rowEnd - ov.top - 1) /\ y - w.col \in 0..(colEnd - ov.left - 1)
        /\ (x - w.row) + ov.top = i /\ (y - w.col) + ov.left = k
      BY <1>2, <1>3, <1>4, <1>5, <1>6, <1>7, <2>4
  <2>10. PICK u, v : u = x - w.row /\ v = y - w.col
      OBVIOUS
  <2>11. cut[<<u, v>>] = Worker(b).ok[<<u + ov.top, v + ov.left>>]
    <3>1. <<u, v>> \in (0..(rowEnd - ov.top - 1)) \X (0..(colEnd - ov.left - 1))
        BY <2>9, <2>10
    <3> QED BY <2>5, <3>1
  <2> QED BY <1>5, <1>10, <2>8, <2>9, <2>10, <2>11
<1> QED BY <1>11, <1>12

\* The definitions over the call and its pixels, when these are unchanged.
LEMMA SameCall ==
    ASSUME UNCHANGED job
    PROVE  /\ PixelsIn(job.data)' = PixelsIn(job.data) /\ BlockIds' = BlockIds
           /\ \A b : Target(b)' = Target(b)
           /\ (UNCHANGED output => \A b : Landed(b)' <=> Landed(b))
           /\ (UNCHANGED output => (Sound(output)' <=> Sound(output)))
           /\ (UNCHANGED disk => (Sound(disk)' <=> Sound(disk)))
<1>1. PixelsIn(job.data)' = PixelsIn(job.data) /\ BlockIds' = BlockIds /\ \A b : Target(b)' = Target(b)
    BY DEF PixelsIn, BlockIds, Target
<1>2. UNCHANGED output => \A b : Landed(b)' <=> Landed(b)
    BY <1>1 DEF Landed, Own, SameBlocks, BlockIds
<1>3. UNCHANGED output => (Sound(output)' <=> Sound(output))
    BY DEF Sound, Own, SameBlocks, Kept
<1>4. UNCHANGED disk => (Sound(disk)' <=> Sound(disk))
    BY DEF Sound, Own, SameBlocks, Kept
<1> QED BY <1>1, <1>2, <1>3, <1>4

\* The steps that change neither the pixels nor a thread, nor enter the pool.
LEMMA QuietStep ==
    ASSUME RasterInv, UNCHANGED <<job, todo, work, failed, output, disk>>, phase' \in Phases,
           phase' \notin {"start", "created", "run"} \/ phase' = phase, Derived',
           phase' \in {"overviews", "written", "closed", "ok"} =>
               phase \in {"overviews", "written", "closed", "ok"} \/ (phase = "run" /\ ~failed /\ todo = {} /\ \A t \in Threads : work[t] = Idle),
           phase = "start" => phase' \in {"start", "error"}, phase = "error" => phase' = "error"
    PROVE  RasterInv'
<1>1. Held'
    BY DEF RasterInv, Held, BlockIds
<1>2. Filled'
  <2>1. phase' \in {"start", "error"} \/ phase \notin {"start", "error"}
      BY DEF RasterInv, Phases
  <2>2. phase' = "start" => phase = "start"
      OBVIOUS
  <2> QED BY <2>1, <2>2, SameCall DEF RasterInv, Filled
<1>3. Covering'
  <2>1. \A b : Landed(b)' <=> Landed(b)
      BY SameCall
  <2>2. BlockIds' = BlockIds /\ Covering
      BY SameCall DEF RasterInv
  <2>3. CASE phase' = phase
      BY <2>1, <2>2, <2>3 DEF Covering
  <2>4. CASE phase' # phase
    <3>1. phase' # "run" /\ (phase' \in {"overviews", "written", "closed", "ok"} => \A b \in BlockIds : Landed(b))
      <4>1. ASSUME phase = "run", ~failed, todo = {}, \A t \in Threads : work[t] = Idle, NEW b \in BlockIds
            PROVE  Landed(b)
        <5>1. ~ \E t \in Threads : work[t] \in {"read", "write"} \X {b}
          <6> SUFFICES ASSUME NEW t \in Threads, work[t] \in {"read", "write"} \X {b} PROVE FALSE
              OBVIOUS
          <6>1. work[t][1] \in {"read", "write"} /\ work[t][1] = "idle"
              BY <4>1 DEF Idle
          <6> QED BY <6>1
        <5> QED BY <2>2, <4>1, <5>1 DEF Covering
      <4> QED BY <2>2, <2>4, <4>1 DEF Covering, Phases
    <3> QED BY <2>1, <2>2, <3>1 DEF Covering
  <2> QED BY <2>3, <2>4
<1> QED BY <1>1, <1>2, <1>3 DEF RasterInv

LEMMA CreateStep == ASSUME RasterInv, create PROVE RasterInv'
<1>1. /\ phase = "start" /\ phase' = "created" /\ output' = [p \in PixelsIn(job.data) |-> NoData] /\ disk' = output'
      /\ UNCHANGED <<job, todo, work, failed, overviews, unflushed, cogs>>
    BY DEF create
<1>2. Held' /\ Derived'
    BY <1>1 DEF RasterInv, Held, Derived, BlockIds
<1>3. Sound(output)' /\ Sound(disk)'
    BY <1>1 DEF Sound
<1>4. Filled' /\ Covering'
    BY <1>1, <1>3, SameCall DEF Filled, Covering
<1> QED BY <1>1, <1>2, <1>4 DEF RasterInv, Phases

LEMMA PoolStep == ASSUME RasterInv, start_pool PROVE RasterInv'
<1>1. /\ phase = "created" /\ UNCHANGED <<job, work, failed, output, overviews, disk, unflushed, cogs>>
      /\ (phase' = "failing" /\ UNCHANGED todo) \/ (phase' = "run" /\ todo' = BlockIds)
    BY DEF start_pool, BlockIds, fileVars
<1>2. Held' /\ Derived'
    BY <1>1 DEF RasterInv, Held, Derived, BlockIds
<1>3. Filled'
    BY <1>1, SameCall DEF RasterInv, Filled
<1>4. Covering'
    BY <1>1, SameCall DEF Covering
<1> QED BY <1>1, <1>2, <1>3, <1>4 DEF RasterInv, Phases

\* A thread that goes on to another position, with the same file.
LEMMA ThreadStep ==
    ASSUME RasterInv, phase = "run", UNCHANGED <<job, phase, output, overviews, disk, unflushed, cogs>>, failed' \in BOOLEAN, todo' \subseteq BlockIds,
           NEW t \in Threads, NEW x \in {Idle} \cup ({"read", "write"} \X BlockIds), work' = [work EXCEPT ![t] = x],
           ~failed' =>
               /\ ~failed /\ todo' \subseteq todo
               /\ \A b \in todo \ todo' : x \in {"read", "write"} \X {b}
               /\ \A b \in BlockIds : work[t] \in {"read", "write"} \X {b} => x \in {"read", "write"} \X {b} \/ Landed(b)
    PROVE  RasterInv'
<1>1. Held' /\ Derived'
    BY DEF RasterInv, Held, Derived, BlockIds
<1>2. Filled'
    BY SameCall DEF RasterInv, Filled
<1>3. Covering'
  <2>1. \A b : Landed(b)' <=> Landed(b)
      BY SameCall
  <2>2. BlockIds' = BlockIds /\ Covering /\ work \in [Threads -> {Idle} \cup ({"read", "write"} \X BlockIds)]
      BY DEF BlockIds, RasterInv, Held
  <2>3. ASSUME ~failed', NEW b \in BlockIds
        PROVE  b \in todo' \/ Landed(b) \/ \E u \in Threads : work'[u] \in {"read", "write"} \X {b}
    <3>1. CASE b \in todo
        BY <2>2, <2>3, <3>1
    <3>2. CASE Landed(b)
        BY <3>2
    <3>3. ASSUME NEW u \in Threads, work[u] \in {"read", "write"} \X {b}
          PROVE  Landed(b) \/ \E v \in Threads : work'[v] \in {"read", "write"} \X {b}
      <4>1. CASE u = t
          BY <2>2, <2>3, <3>3, <4>1
      <4>2. CASE u # t
          BY <2>2, <3>3, <4>2
      <4> QED BY <4>1, <4>2
    <3> QED BY <2>2, <2>3, <3>1, <3>2, <3>3 DEF Covering
  <2> QED BY <2>1, <2>2, <2>3 DEF Covering
<1> QED BY <1>1, <1>2, <1>3 DEF RasterInv

LEMMA TakeStep == ASSUME RasterInv, NEW t \in Threads, take(t) PROVE RasterInv'
<1>1. PICK b \in todo : work' = [work EXCEPT ![t] = <<"read", b>>] /\ todo' = todo \ {b}
    BY DEF take
<1>2. /\ phase = "run" /\ ~failed /\ work[t] = Idle /\ UNCHANGED <<job, phase, failed, output, overviews, disk, unflushed, cogs>>
    BY DEF take, fileVars
<1>3. \A c : ~(work[t] \in {"read", "write"} \X {c})
  <2>1. work[t][1] = "idle"
      BY <1>2 DEF Idle
  <2> QED BY <2>1
<1>4. b \in BlockIds
    BY <1>1 DEF RasterInv, Held
<1>5. PICK x : x = <<"read", b>>
    OBVIOUS
<1>6. /\ x \in {"read", "write"} \X BlockIds /\ work' = [work EXCEPT ![t] = x]
      /\ failed' \in BOOLEAN /\ todo' \subseteq BlockIds /\ todo' \subseteq todo
      /\ \A c \in todo \ todo' : x \in {"read", "write"} \X {c}
    BY <1>1, <1>2, <1>4, <1>5 DEF RasterInv, Held
<1> QED BY <1>2, <1>3, <1>6, ThreadStep

LEMMA ReadStep == ASSUME RasterInv, NEW t \in Threads, read_block(t) PROVE RasterInv'
<1>1. /\ phase = "run" /\ work[t] # Idle /\ UNCHANGED <<job, phase, todo, output, overviews, disk, unflushed, cogs>>
      /\ \/ work' = [work EXCEPT ![t] = <<"write", work[t][2]>>] /\ UNCHANGED failed
         \/ work' = [work EXCEPT ![t] = Idle] /\ failed' = TRUE
    BY DEF read_block, RasterInv, Held, fileVars
<1>2. work[t] \in {"read", "write"} \X BlockIds
    BY <1>1 DEF RasterInv, Held
<1>3. PICK b \in BlockIds : b = work[t][2]
    BY <1>2
<1>4. CASE work' = [work EXCEPT ![t] = <<"write", b>>] /\ UNCHANGED failed
  <2>1. \A c : work[t] \in {"read", "write"} \X {c} => <<"write", b>> \in {"read", "write"} \X {c}
      BY <1>3
  <2>2. ~failed' => ~failed
      BY <1>4
  <2> QED BY <1>1, <1>3, <1>4, <2>1, <2>2, ThreadStep DEF RasterInv, Held
<1>5. CASE work' = [work EXCEPT ![t] = Idle] /\ failed' = TRUE
    BY <1>1, <1>5, ThreadStep DEF RasterInv, Held
<1> QED BY <1>1, <1>3, <1>4, <1>5

\* A write puts right pixels into one window and leaves the others as they are.
LEMMA WriteStep == ASSUME JobsAreCut, RasterInv, NEW t \in Threads, write_block(t) PROVE RasterInv'
<1>1. PICK b, w : b = work[t][2] /\ w = write_window(job.data.blocks[b])
    OBVIOUS
<1>2. /\ phase = "run" /\ work[t] # Idle /\ UNCHANGED <<job, phase, todo, overviews, disk, unflushed, cogs>>
      /\ work' = [work EXCEPT ![t] = Idle]
      /\ \/ /\ ~Failed(Answer(b)) /\ PixelsOf(w) \subseteq DOMAIN output /\ UNCHANGED failed
            /\ output' = [p \in DOMAIN output |->
                            IF p \in PixelsOf(w) THEN Answer(b).ok[<<p[1] - w.row, p[2] - w.col>>] ELSE output[p]]
         \/ failed' = TRUE /\ UNCHANGED output
    BY <1>1 DEF write_block, Answer, fileVars
<1>3. work[t] \in {"read", "write"} \X {b} /\ b \in BlockIds
    BY <1>1, <1>2 DEF RasterInv, Held
<1>4. CASE failed' = TRUE /\ UNCHANGED output
    BY <1>2, <1>4, ThreadStep DEF RasterInv, Held
<1>5. ASSUME ~Failed(Answer(b)), PixelsOf(w) \subseteq DOMAIN output, UNCHANGED failed,
             output' = [p \in DOMAIN output |->
                          IF p \in PixelsOf(w) THEN Answer(b).ok[<<p[1] - w.row, p[2] - w.col>>] ELSE output[p]]
      PROVE  RasterInv'
  <2>1. Held' /\ Derived'
      BY <1>2, <1>5 DEF RasterInv, Held, Derived, BlockIds
  <2>2. /\ Covering /\ job \in RasterJobs /\ output = [p \in PixelsIn(job.data) |-> output[p]] /\ Sound(output)
        /\ disk = [p \in PixelsIn(job.data) |-> disk[p]] /\ Sound(disk) /\ DOMAIN output = PixelsIn(job.data)
      BY <1>2 DEF RasterInv, Filled
  <2>3. \A p \in PixelsIn(job.data) :
            /\ p \in PixelsOf(w) => Own(p, output'[p]) /\ p \in Kept
            /\ p \notin PixelsOf(w) => output'[p] = output[p]
    <3> SUFFICES ASSUME NEW p \in PixelsIn(job.data)
                 PROVE  /\ p \in PixelsOf(w) => Own(p, output'[p]) /\ p \in Kept
                        /\ p \notin PixelsOf(w) => output'[p] = output[p]
        OBVIOUS
    <3>1. ASSUME p \in PixelsOf(w) PROVE Own(p, Answer(b).ok[<<p[1] - w.row, p[2] - w.col>>])
        BY <1>1, <1>3, <1>5, <2>2, <3>1, BlocksWriteOwnPixels
    <3>2. p \in PixelsOf(w) => p \in Kept
        BY <1>1, <1>3 DEF Kept, BlockIds
    <3>3. output'[p] = IF p \in PixelsOf(w) THEN Answer(b).ok[<<p[1] - w.row, p[2] - w.col>>] ELSE output[p]
        BY <1>5, <2>2
    <3> QED BY <3>1, <3>2, <3>3
  <2>4. /\ UNCHANGED job /\ PixelsIn(job.data)' = PixelsIn(job.data) /\ BlockIds' = BlockIds
        /\ \A c : Target(c)' = Target(c)
      BY <1>2, SameCall
  <2>5. Kept' = Kept
      BY <2>4 DEF Kept
  <2>6. output' = [p \in PixelsIn(job.data) |-> output'[p]] /\ DOMAIN output' = PixelsIn(job.data)
      BY <1>5, <2>2
  <2>7. \A p \in PixelsIn(job.data) : output'[p] = NoData \/ (p \in Kept /\ Own(p, output'[p]))
      BY <2>2, <2>3 DEF Sound
  <2>8. Sound(output)' /\ Sound(disk)'
    <3>1. SameBlocks' <=> SameBlocks
        BY <2>4 DEF SameBlocks
    <3>2. Sound(output)'
        BY <2>4, <2>5, <2>6, <2>7, <3>1 DEF Sound, Own
    <3> QED BY <1>2, <2>2, <3>2, SameCall
  <2>9. Filled'
      BY <1>2, <2>2, <2>4, <2>6, <2>8 DEF Filled
  <2>10. \A c : Landed(c) => Landed(c)'
    <3>1. SameBlocks' <=> SameBlocks
        BY <2>4 DEF SameBlocks
    <3> QED BY <2>3, <2>4, <3>1 DEF Landed, Own
  <2>11. Landed(b)'
    <3>1. SameBlocks' <=> SameBlocks
        BY <2>4 DEF SameBlocks
    <3>2. Target(b) = PixelsOf(w)
        BY <1>1 DEF Target
    <3> QED BY <1>5, <2>2, <2>3, <2>4, <3>1, <3>2 DEF Landed, Own
  <2>12. ASSUME ~failed', NEW c \in BlockIds
         PROVE  c \in todo' \/ Landed(c)' \/ \E u \in Threads : work'[u] \in {"read", "write"} \X {c}
    <3>1. c \in todo \/ Landed(c) \/ \E u \in Threads : work[u] \in {"read", "write"} \X {c}
        BY <1>2, <1>5, <2>2, <2>12 DEF Covering
    <3>2. ASSUME NEW u \in Threads, work[u] \in {"read", "write"} \X {c}
          PROVE  Landed(c)' \/ \E v \in Threads : work'[v] \in {"read", "write"} \X {c}
      <4>1. CASE u = t
          BY <1>3, <2>11, <3>2, <4>1
      <4>2. CASE u # t
          BY <1>2, <3>2, <4>2 DEF RasterInv, Held
      <4> QED BY <4>1, <4>2
    <3> QED BY <1>2, <2>10, <3>1, <3>2
  <2>13. Covering'
      BY <1>2, <2>4, <2>12 DEF Covering
  <2> QED BY <1>2, <1>5, <2>1, <2>9, <2>13 DEF RasterInv
<1> QED BY <1>2, <1>4, <1>5

\* Closing puts pixels of the dataset into the file, or leaves what was there.
LEMMA CloseStep == ASSUME RasterInv, close PROVE RasterInv'
<1>1. /\ phase \in {"written", "failing"} /\ phase' = IF phase = "written" THEN "closed" ELSE "error"
      /\ disk' = [p \in DOMAIN output |-> IF p \in unflushed' THEN disk[p] ELSE output[p]]
      /\ UNCHANGED <<job, todo, work, failed, output, overviews, cogs>>
    BY DEF close
<1>2. /\ output = [p \in PixelsIn(job.data) |-> output[p]] /\ Sound(output) /\ DOMAIN output = PixelsIn(job.data)
      /\ disk = [p \in PixelsIn(job.data) |-> disk[p]] /\ Sound(disk) /\ DOMAIN disk = PixelsIn(job.data)
    BY <1>1 DEF RasterInv, Filled
<1>3. PixelsIn(job.data)' = PixelsIn(job.data) /\ Kept' = Kept /\ (SameBlocks' <=> SameBlocks)
    BY <1>1 DEF PixelsIn, Kept, SameBlocks
<1>4. /\ disk' = [p \in PixelsIn(job.data) |-> disk'[p]] /\ DOMAIN disk' = PixelsIn(job.data)
      /\ \A p \in PixelsIn(job.data) : disk'[p] = IF p \in unflushed' THEN disk[p] ELSE output[p]
    BY <1>1, <1>2
<1>5. Sound(disk)'
  <2>1. \A p \in PixelsIn(job.data) : disk'[p] = NoData \/ (p \in Kept /\ Own(p, disk'[p]))
      BY <1>2, <1>4 DEF Sound
  <2> QED BY <1>1, <1>3, <1>4, <2>1 DEF Sound, Own
<1>6. Filled'
    BY <1>1, <1>2, <1>3, <1>4, <1>5, SameCall DEF Filled
<1>7. Held'
    BY <1>1 DEF RasterInv, Held, BlockIds
<1>8. Derived'
    BY <1>1, <1>3, <1>4 DEF RasterInv, Derived
<1>9. Covering'
    BY <1>1, SameCall DEF RasterInv, Covering
<1> QED BY <1>1, <1>6, <1>7, <1>8, <1>9 DEF RasterInv, Phases

LEMMA RasterStep == ASSUME JobsAreCut, RasterInv, [RasterNext]_rasterVars PROVE RasterInv'
<1>0. phase \in Phases /\ Derived
    BY DEF RasterInv
<1>1. CASE UNCHANGED rasterVars
  <2>1. UNCHANGED <<job, phase, todo, work, failed, output, overviews, disk, unflushed, cogs>>
      BY <1>1 DEF rasterVars
  <2>2. Derived'
      BY <1>0, <2>1, SameCall DEF Derived
  <2> QED BY <1>0, <2>1, <2>2, QuietStep
<1>2. CASE probe_output_layers \/ create_fails
  <2>1. phase = "start" /\ phase' = "error" /\ UNCHANGED <<job, todo, work, failed, output, overviews, disk, unflushed, cogs>>
      BY <1>2 DEF probe_output_layers, create_fails, fail, fileVars
  <2>2. Derived'
      BY <1>0, <2>1 DEF Derived
  <2> QED BY <2>1, <2>2, QuietStep DEF Phases
<1>3. CASE create
    BY <1>3, CreateStep
<1>4. CASE start_pool
    BY <1>4, PoolStep
<1>5. CASE join
  <2>1. /\ phase = "run" /\ (\A t \in Threads : work[t] = Idle) /\ (failed \/ todo = {})
        /\ UNCHANGED <<job, todo, work, failed, output, overviews, disk, unflushed, cogs>>
        /\ phase' = CASE failed -> "failing" [] ~failed /\ job.kind = "apply" -> "written" [] OTHER -> "overviews"
      BY <1>5 DEF join, fileVars
  <2>2. (failed /\ phase' = "failing") \/ (~failed /\ phase' = "written" /\ job.kind = "apply") \/ (~failed /\ phase' = "overviews")
      BY <2>1
  <2>3. Derived'
      BY <1>0, <2>1, <2>2 DEF Derived
  <2> QED BY <2>1, <2>2, <2>3, QuietStep DEF Phases
<1>6. CASE build_overviews
  <2>1. /\ phase = "overviews" /\ UNCHANGED <<job, todo, work, failed, output, disk, unflushed, cogs>>
        /\ (phase' = "written" /\ overviews' = output) \/ phase' = "failing"
      BY <1>6 DEF build_overviews, fileVars
  <2>2. Derived'
      BY <1>0, <2>1 DEF Derived
  <2> QED BY <2>1, <2>2, QuietStep DEF Phases
<1>7. CASE finish
  <2>1. /\ phase = "closed" /\ UNCHANGED <<job, todo, work, failed, output, overviews, disk, unflushed>>
        /\ (phase' = "ok" /\ (UNCHANGED cogs \/ cogs' = disk)) \/ (phase' = "error" /\ UNCHANGED cogs)
      BY <1>7 DEF finish
  <2>2. Derived'
      BY <1>0, <2>1, SameCall DEF Derived
  <2> QED BY <2>1, <2>2, QuietStep DEF Phases
<1>8. ASSUME NEW t \in Threads, take(t) \/ read_block(t) \/ write_block(t) PROVE RasterInv'
    BY <1>8, TakeStep, ReadStep, WriteStep
<1>9. CASE close
    BY <1>9, CloseStep
<1> QED BY <1>1, <1>2, <1>3, <1>4, <1>5, <1>6, <1>7, <1>8, <1>9 DEF RasterNext

\* The claim of the run about a block-parallel call, for rasters and masks of any
\* sizes, blocks, overlaps, overridden sizes and numbers of threads: no pixel
\* gets a value that is not its own and none in an overlap is written; Ok means
\* that every pixel kept of a block was written, and is in the file unless the
\* flush at the end failed; that these are all pixels where there is no overlap
\* and no larger image size; and that overviews and COG are made of them
\* (processing.rs, writer.rs).  What the worker saw of the mask is claimed only
\* for a mask with the same blocks.  The hypothesis says that windows and
\* overlaps are numbers.
THEOREM PixelsReachTheirPlace == ASSUME JobsAreCut PROVE RasterSpec => []PixelsLand
<1>1. RasterInit => RasterInv
    BY DEF RasterInit, RasterInv, Phases, Held, Derived, Filled, Covering
<1>2. RasterInv /\ [RasterNext]_rasterVars => RasterInv'
    BY RasterStep
<1>3. RasterInv => PixelsLand
  <2> SUFFICES ASSUME RasterInv, phase # "none", output # Nothing PROVE PixelsLand
      BY DEF PixelsLand
  <2>1. /\ Filled /\ Covering /\ Derived /\ job \in RasterJobs /\ Sound(output) /\ Sound(disk)
        /\ output = [p \in PixelsIn(job.data) |-> output[p]] /\ disk = [p \in PixelsIn(job.data) |-> disk[p]]
      BY DEF RasterInv, Filled
  <2>2. DOMAIN output = PixelsIn(job.data) /\ DOMAIN disk = PixelsIn(job.data)
      BY <2>1
  <2>3. ASSUME phase = "ok" PROVE Kept \subseteq DOMAIN disk /\ \A p \in Kept \ unflushed : Own(p, disk[p])
    <3>1. \A b \in BlockIds : Landed(b)
        BY <2>1, <2>3 DEF Covering
    <3>2. \A p \in Kept : p \in PixelsIn(job.data) /\ Own(p, output[p])
        BY <3>1 DEF Kept, Landed, Target, BlockIds
    <3>3. \A p \in PixelsIn(job.data) \ unflushed : disk[p] = output[p]
        BY <2>1, <2>3 DEF Derived
    <3> QED BY <2>2, <3>2, <3>3
  <2>4. ASSUME phase = "ok", Full, NEW p \in DOMAIN disk PROVE p \in Kept
    <3>1. PICK i \in BlockIds : p \in PixelsOf(job.data.blocks[i].window)
        BY <2>2, <2>4 DEF Full, BlockIds
    <3>2. Target(i) = PixelsOf(job.data.blocks[i].window)
      <4>1. PICK d, ov : d = job.data.blocks[i].window /\ ov = job.data.blocks[i].overlap
          OBVIOUS
      <4>2. /\ d \in [row : Nat, col : Nat, rows : Nat, cols : Nat]
            /\ ov \in [top : Nat, bottom : Nat, left : Nat, right : Nat] /\ is_zero(ov)
          BY <2>1, <2>4, <3>1, <4>1 DEF JobsAreCut, Cut, BlockIds, Full
      <4>3. ov.top = 0 /\ ov.bottom = 0 /\ ov.left = 0 /\ ov.right = 0
          BY <4>2 DEF is_zero
      <4>4. d.row \in Nat /\ d.col \in Nat /\ d.rows \in Nat /\ d.cols \in Nat
          BY <4>2
      <4>5. Target(i) = PixelsOf(ReadWindow(d.row + ov.top, d.col + ov.left,
                                            d.rows - (ov.top + ov.bottom), d.cols - (ov.left + ov.right)))
          BY <4>1 DEF Target, write_window, inner_size
      <4>6. /\ d.row + ov.top = d.row /\ d.col + ov.left = d.col
            /\ d.rows - (ov.top + ov.bottom) = d.rows /\ d.cols - (ov.left + ov.right) = d.cols
          BY <4>3, <4>4
      <4>7. Target(i) = PixelsOf(ReadWindow(d.row, d.col, d.rows, d.cols))
          BY <4>5, <4>6
      <4> QED BY <4>1, <4>7 DEF PixelsOf, ReadWindow
    <3> QED BY <3>1, <3>2 DEF Kept, Target, BlockIds
  <2>5. phase = "ok" /\ Full => \A p \in DOMAIN disk \ unflushed : Own(p, disk[p])
      BY <2>3, <2>4
  <2> QED BY <2>1, <2>3, <2>5 DEF Derived, PixelsLand
<1> QED BY <1>1, <1>2, <1>3, PTL DEF RasterSpec

-----------------------------------------------------------------------------
(* Chains of processes on data cubes.                                      *)

\* Every area a file can be cut to, and the files there can be.
Extents == Boxes \cup {CHOOSE box \in Boxes : Ordered(box)}
                 \cup {geojson_bbox(g) : g \in Geometries}
File == [at : SUBSET Times, of : SUBSET UNION BandSets, units : SUBSET {0, 1}, area : SUBSET Extents, epsg : SUBSET Int]
Parts == {"kind", "bands", "band_scales", "bbox", "scene_count", "datetimes", "times", "layers", "layer_names", "extras"}

\* What is true of a cube of one branch; m: unlike cubes were merged.
Typed(v) == DOMAIN v = Parts /\ \A b \in DOMAIN v.bands : v.bands[b] \in Seq(File)
RawWhileScaled(v) ==
    v.band_scales # {} => \A b \in DOMAIN v.bands : \A i \in 1..Len(v.bands[b]) : v.bands[b][i].units = {0}
Dated(v) ==
    v.datetimes # Absent =>
        /\ v.datetimes \in Seq(Times)
        /\ \A b \in DOMAIN v.bands : /\ Len(v.bands[b]) = Len(v.datetimes)
                                     /\ \A i \in 1..Len(v.datetimes) : v.bands[b][i].at = {v.datetimes[i]}
Named(v) == v.layer_names # Absent => Range(v.layer_names) \subseteq DOMAIN v.bands
Sized(v, m) == ~m => \A b \in DOMAIN v.bands : Len(v.bands[b]) = v.scene_count
Placed(v, m) ==
    ~m /\ v.bbox # Absent =>
        \A b \in DOMAIN v.bands : \A i \in 1..Len(v.bands[b]) : v.bands[b][i].area = {v.bbox}
TrueCube(v, m) == Typed(v) /\ RawWhileScaled(v) /\ Dated(v) /\ Named(v) /\ Sized(v, m) /\ Placed(v, m)
TrueValue(v, m) ==
    \/ v.kind = "cube" /\ TrueCube(v, m)
    \/ v.kind = "raster" /\ v.path \in File
    \/ v.kind = "error"

\* Both branches hold true values.
CubeInv == mixed \in BOOLEAN /\ TrueValue(value, mixed) /\ TrueValue(other, mixed)

LEMMA NewParts ==
    /\ DOMAIN NewCube = Parts /\ NewCube.kind = "cube" /\ NewCube.bands = << >> /\ NewCube.band_scales = {}
    /\ NewCube.bbox = Absent /\ NewCube.datetimes = Absent /\ NewCube.layer_names = Absent
BY DEF NewCube, Parts

LEMMA MergedIsFile == ASSUME NEW files \in SUBSET File PROVE Merged(files) \in File
<1>1. \A f \in files : /\ f.at \in SUBSET Times /\ f.of \in SUBSET UNION BandSets /\ f.units \in SUBSET {0, 1}
                       /\ f.area \in SUBSET Extents /\ f.epsg \in SUBSET Int
    BY DEF File
<1>2. /\ UNION {f.at : f \in files} \in SUBSET Times /\ UNION {f.of : f \in files} \in SUBSET UNION BandSets
      /\ UNION {f.units : f \in files} \in SUBSET {0, 1} /\ UNION {f.area : f \in files} \in SUBSET Extents
      /\ UNION {f.epsg : f \in files} \in SUBSET Int
    BY <1>1
<1> QED BY <1>2 DEF Merged, File

LEMMA MergedArea ==
    ASSUME NEW files, files # {}, NEW box, \A f \in files : f.area = {box}
    PROVE  Merged(files).area = {box}
<1>1. UNION {f.area : f \in files} = {box}
    OBVIOUS
<1> QED BY <1>1 DEF Merged

\* Names taken from a list are of the list and of the bands.
LEMMA NamesAreBands ==
    ASSUME NEW S, NEW s \in Seq(S), NEW T
    PROVE  /\ Filtered(s, T) \in Seq(S \cap T) /\ Range(Filtered(s, T)) \subseteq T
           /\ Filtered(s, T) # << >> => Head(Filtered(s, T)) \in T
<1>1. Filtered(s, T) \in Seq(S \cap T)
    BY FilteredInOrder
<1> HIDE DEF Filtered
<1> QED BY <1>1 DEF Range

LEMMA PrimaryIsBand ==
    ASSUME NEW cube, PrimaryBand(cube) # Absent
    PROVE  PrimaryBand(cube) \in DOMAIN cube.bands
<1> DEFINE Index == {"ndvi", "ndmi", "ndwi", "evi", "savi", "msavi"}
<1>1. F32_INDEX_BANDS \in Seq(Index)
  <2>1. ASSUME NEW S, NEW a \in S, NEW b \in S, NEW c \in S, NEW d \in S, NEW e \in S, NEW f \in S
        PROVE  <<a, b, c, d, e, f>> \in Seq(S)
      OBVIOUS
  <2>2. /\ "ndvi" \in Index /\ "ndmi" \in Index /\ "ndwi" \in Index
        /\ "evi" \in Index /\ "savi" \in Index /\ "msavi" \in Index
      OBVIOUS
  <2> HIDE DEF Index
  <2> QED BY <2>1, <2>2, Zenon DEF F32_INDEX_BANDS
<1>2. BandOrder \in Seq(STRING)
    BY CubeAssumption
<1>3. Filtered(F32_INDEX_BANDS, DOMAIN cube.bands) # << >> =>
        Head(Filtered(F32_INDEX_BANDS, DOMAIN cube.bands)) \in DOMAIN cube.bands
    BY <1>1, NamesAreBands, Zenon
<1>4. NonScl(cube) # << >> => Head(NonScl(cube)) \in DOMAIN cube.bands \ {SCL}
    BY <1>2, NamesAreBands, Zenon DEF NonScl
<1> QED BY <1>3, <1>4 DEF PrimaryBand

\* A list made place by place, and a list of chosen places of another.
LEMMA ListOf ==
    ASSUME NEW S, NEW n \in Nat, NEW s \in [1..n -> S]
    PROVE  s \in Seq(S) /\ Len(s) = n /\ DOMAIN s = 1..n
OBVIOUS

LEMMA Picked ==
    ASSUME NEW S, NEW s \in Seq(S), NEW n \in Nat, NEW keep, \A k \in 1..n : keep[k] \in 1..Len(s)
    PROVE  LET p == [k \in 1..n |-> s[keep[k]]]
           IN  p \in Seq(S) /\ Len(p) = n /\ \A k \in 1..n : p[k] = s[keep[k]]
<1> DEFINE p == [k \in 1..n |-> s[keep[k]]]
<1>1. \A k \in 1..n : s[keep[k]] \in S
    OBVIOUS
<1>2. p \in [1..n -> S]
    BY <1>1
<1> QED BY <1>2, ListOf

\* What was true stays true once unlike cubes were merged: less is claimed then.
LEMMA MixedClaimsLess == ASSUME NEW v, NEW m \in BOOLEAN, TrueValue(v, m) PROVE TrueValue(v, TRUE)
BY DEF TrueValue, TrueCube, Sized, Placed

LEMMA ErrorsAreTrue == ASSUME NEW m PROVE TrueValue(InvalidArgs, m) /\ TrueValue(Backend, m)
BY DEF TrueValue, InvalidArgs, Backend, Error

LEMMA FileListed == ASSUME NEW f \in File PROVE <<f>> \in Seq(File) /\ Len(<<f>>) = 1 /\ <<f>>[1] = f
OBVIOUS

\* A value as a cube.
LEMMA EnvelopeIsTrue ==
    ASSUME NEW v, NEW m \in BOOLEAN, TrueValue(v, m)
    PROVE  LET cube == from_envelope_owned(v)
           IN  TrueValue(cube, m) /\ (IsError(cube) \/ (cube.kind = "cube" /\ TrueCube(cube, m)))
<1> DEFINE cube == from_envelope_owned(v)
<1>1. CASE v.kind = "raster"
  <2> DEFINE bands == [b \in {"result"} |-> <<v.path>>]
  <2>1. v.path \in File
      BY <1>1 DEF TrueValue
  <2>2. cube = [NewCube EXCEPT !.bands = bands, !.scene_count = 1]
      BY <1>1 DEF from_envelope_owned
  <2>3. /\ DOMAIN cube = Parts /\ cube.kind = "cube" /\ cube.bands = bands /\ cube.scene_count = 1
        /\ cube.band_scales = {} /\ cube.bbox = Absent /\ cube.datetimes = Absent /\ cube.layer_names = Absent
      BY <2>2, NewParts DEF Parts
  <2> HIDE DEF cube
  <2>4. Typed(cube) /\ Sized(cube, m)
      BY <2>1, <2>3, FileListed DEF Typed, Sized
  <2>5. TrueCube(cube, m)
      BY <2>3, <2>4 DEF TrueCube, RawWhileScaled, Dated, Named, Placed
  <2> QED BY <2>3, <2>5, Zenon DEF TrueValue, cube
<1>2. CASE v.kind = "cube"
  <2>1. cube = v
      BY <1>2 DEF from_envelope_owned
  <2>2. TrueCube(v, m)
      BY <1>2 DEF TrueValue
  <2> QED BY <1>2, <2>1, <2>2, Zenon DEF TrueValue
<1>3. CASE v.kind = "error"
  <2>1. cube = v
      BY <1>3 DEF from_envelope_owned
  <2> QED BY <1>3, <2>1 DEF TrueValue, IsError
<1> QED BY <1>1, <1>2, <1>3 DEF TrueValue

\* filter_temporal prunes the scenes and their times alike.
LEMMA FilterTemporalIsTrue ==
    ASSUME NEW v, NEW m \in BOOLEAN, TrueValue(v, m), NEW start, NEW end
    PROVE  TrueValue(eval_filter_temporal(v, start, end), m)
<1> DEFINE cube == from_envelope_owned(v)
           dates == cube.datetimes
           P == {i \in DOMAIN dates : Within(dates[i], start, end)}
           keep == Rising(P)
           prune(s) == [k \in DOMAIN keep |-> s[keep[k]]]
           bands == [b \in DOMAIN cube.bands |-> IF Len(cube.bands[b]) = Len(dates) THEN prune(cube.bands[b]) ELSE cube.bands[b]]
           r == [cube EXCEPT !.bands = bands, !.datetimes = prune(dates), !.scene_count = Len(keep)]
<1>1. TrueValue(cube, m) /\ (IsError(cube) \/ (cube.kind = "cube" /\ TrueCube(cube, m)))
    BY EnvelopeIsTrue
<1>2. \/ IsError(cube) /\ eval_filter_temporal(v, start, end) = cube
      \/ eval_filter_temporal(v, start, end) \in {InvalidArgs, Backend}
      \/ ~IsError(cube) /\ dates # Absent /\ keep # << >> /\ eval_filter_temporal(v, start, end) = r
    BY DEF eval_filter_temporal
<1> HIDE DEF cube
<1>3. ASSUME ~IsError(cube), dates # Absent PROVE TrueValue(r, m)
  <2>1. TrueCube(cube, m) /\ DOMAIN cube = Parts /\ cube.kind = "cube"
      BY <1>1, <1>3 DEF TrueCube, Typed
  <2>2. /\ dates \in Seq(Times)
        /\ \A b \in DOMAIN cube.bands : /\ Len(cube.bands[b]) = Len(dates) /\ cube.bands[b] \in Seq(File)
                                        /\ \A i \in 1..Len(dates) : cube.bands[b][i].at = {dates[i]}
      BY <1>3, <2>1 DEF TrueCube, Dated, Typed
  <2> HIDE DEF dates
  <2>3. P \in SUBSET (1..Len(dates)) /\ P \in SUBSET Int /\ Len(dates) \in Nat
      BY <2>2
  <2>4. IsFiniteSet(P) /\ Cardinality(P) \in Nat
      BY <2>3, OneTo, FS_Subset, FS_CardinalityType
  <2>5. keep \in [1..Cardinality(P) -> P]
      BY <2>3, <2>4, RisingInOrder
  <2> DEFINE n == Cardinality(P)
  <2> HIDE DEF P, keep
  <2>6. n \in Nat /\ Len(keep) = n /\ DOMAIN keep = 1..n /\ \A k \in 1..n : keep[k] \in 1..Len(dates)
    <3>1. Len(keep) = n /\ DOMAIN keep = 1..n
        BY <2>4, <2>5, ListOf
    <3> QED BY <2>3, <2>4, <2>5, <3>1
  <2> HIDE DEF n
  <2>7. /\ DOMAIN r = Parts /\ r.kind = "cube" /\ r.bands = bands /\ r.datetimes = prune(dates) /\ r.scene_count = Len(keep)
        /\ r.band_scales = cube.band_scales /\ r.bbox = cube.bbox /\ r.layer_names = cube.layer_names
      BY <2>1 DEF Parts
  <2> HIDE DEF r
  <2>8. DOMAIN bands = DOMAIN cube.bands /\ \A b \in DOMAIN bands : bands[b] = [k \in 1..n |-> cube.bands[b][keep[k]]]
      BY <2>2, <2>6
  <2>9. prune(dates) = [k \in 1..n |-> dates[keep[k]]]
      BY <2>6
  <2> HIDE DEF bands, prune
  <2>10. /\ prune(dates) \in Seq(Times) /\ Len(prune(dates)) = n
         /\ \A k \in 1..n : prune(dates)[k] = dates[keep[k]]
      BY <2>2, <2>6, <2>9, Picked
  <2>11. ASSUME NEW b \in DOMAIN bands
         PROVE  /\ bands[b] \in Seq(File) /\ Len(bands[b]) = n
                /\ \A k \in 1..n : bands[b][k] = cube.bands[b][keep[k]]
    <3>1. PICK s \in Seq(File) : s = cube.bands[b] /\ Len(s) = Len(dates)
        BY <2>2, <2>8
    <3>2. bands[b] = [k \in 1..n |-> s[keep[k]]]
        BY <2>8, <3>1
    <3>3. \A k \in 1..n : keep[k] \in 1..Len(s)
        BY <2>6, <3>1
    <3> QED BY <2>6, <3>1, <3>2, <3>3, Picked
  <2>12. Typed(r)
      BY <2>7, <2>11 DEF Typed
  <2>13. RawWhileScaled(r)
    <3>1. cube.band_scales # {} => \A b \in DOMAIN cube.bands : \A i \in 1..Len(dates) : cube.bands[b][i].units = {0}
        BY <2>1, <2>2 DEF TrueCube, RawWhileScaled
    <3> SUFFICES ASSUME r.band_scales # {}, NEW b \in DOMAIN r.bands, NEW i \in 1..Len(r.bands[b])
                 PROVE  r.bands[b][i].units = {0}
        BY DEF RawWhileScaled
    <3>2. b \in DOMAIN bands /\ i \in 1..n /\ keep[i] \in 1..Len(dates) /\ r.bands[b][i] = cube.bands[b][keep[i]]
        BY <2>6, <2>7, <2>11
    <3> QED BY <2>7, <2>8, <3>1, <3>2
  <2>14. Dated(r)
    <3>1. \A b \in DOMAIN bands : \A k \in 1..n : bands[b][k].at = {prune(dates)[k]}
        BY <2>2, <2>6, <2>8, <2>10, <2>11
    <3> QED BY <2>7, <2>10, <2>11, <3>1 DEF Dated
  <2>15. Named(r)
      BY <2>1, <2>7, <2>8 DEF TrueCube, Named
  <2>16. Sized(r, m)
      BY <2>6, <2>7, <2>11 DEF Sized
  <2>17. Placed(r, m)
    <3>1. ~m /\ cube.bbox # Absent => \A b \in DOMAIN cube.bands : \A i \in 1..Len(dates) : cube.bands[b][i].area = {cube.bbox}
        BY <2>1, <2>2 DEF TrueCube, Placed
    <3> SUFFICES ASSUME ~m, r.bbox # Absent, NEW b \in DOMAIN r.bands, NEW i \in 1..Len(r.bands[b])
                 PROVE  r.bands[b][i].area = {r.bbox}
        BY DEF Placed
    <3>2. b \in DOMAIN bands /\ i \in 1..n /\ keep[i] \in 1..Len(dates) /\ r.bands[b][i] = cube.bands[b][keep[i]]
        BY <2>6, <2>7, <2>11
    <3> QED BY <2>7, <2>8, <3>1, <3>2
  <2> QED BY <2>7, <2>12, <2>13, <2>14, <2>15, <2>16, <2>17 DEF TrueValue, TrueCube
<1> HIDE DEF r, keep, dates
<1> QED BY <1>1, <1>2, <1>3, ErrorsAreTrue

\* A cube with other files of the same acquisitions and units, in the same
\* places of the same bands.
LEMMA RewrittenIsTrue ==
    ASSUME NEW cube, NEW m \in BOOLEAN, cube.kind = "cube", TrueCube(cube, m),
           NEW r, DOMAIN r = Parts, r.kind = "cube", r.band_scales = cube.band_scales, r.datetimes = cube.datetimes,
           r.layer_names = cube.layer_names, r.scene_count = cube.scene_count,
           DOMAIN r.bands = DOMAIN cube.bands,
           \A b \in DOMAIN cube.bands :
             /\ r.bands[b] \in Seq(File) /\ Len(r.bands[b]) = Len(cube.bands[b])
             /\ \A i \in 1..Len(cube.bands[b]) : /\ r.bands[b][i].at = cube.bands[b][i].at
                                                 /\ r.bands[b][i].units = cube.bands[b][i].units
                                                 /\ r.bbox # Absent => r.bands[b][i].area = {r.bbox}
    PROVE  TrueValue(r, m)
<1>1. Typed(r) /\ Placed(r, m)
    BY DEF Typed, Placed
<1>2. RawWhileScaled(r)
    BY DEF TrueCube, RawWhileScaled
<1>3. Dated(r)
    BY DEF TrueCube, Dated
<1>4. Named(r) /\ Sized(r, m)
    BY DEF TrueCube, Named, Sized
<1> QED BY <1>1, <1>2, <1>3, <1>4 DEF TrueValue, TrueCube

\* Cutting to an area.
LEMMA RecropIsTrue ==
    ASSUME NEW v, NEW m \in BOOLEAN, TrueValue(v, m), NEW bbox \in Extents
    PROVE  TrueValue(recrop_cube_to_bbox(v, bbox), m)
<1> DEFINE cube == from_envelope_owned(v)
           cut(f) == [f EXCEPT !.area = {bbox}]
           bands == [b \in DOMAIN cube.bands |-> [t \in DOMAIN cube.bands[b] |-> cut(cube.bands[b][t])]]
           r == [cube EXCEPT !.bands = bands, !.bbox = bbox]
<1>1. TrueValue(cube, m) /\ (IsError(cube) \/ (cube.kind = "cube" /\ TrueCube(cube, m)))
    BY EnvelopeIsTrue
<1>2. \/ IsError(cube) /\ recrop_cube_to_bbox(v, bbox) = cube
      \/ recrop_cube_to_bbox(v, bbox) = InvalidArgs
      \/ ~IsError(cube) /\ recrop_cube_to_bbox(v, bbox) = r
    BY DEF recrop_cube_to_bbox, EachFile
<1> HIDE DEF cube
<1>3. ASSUME ~IsError(cube) PROVE TrueValue(r, m)
  <2>1. TrueCube(cube, m) /\ DOMAIN cube = Parts /\ cube.kind = "cube"
        /\ \A b \in DOMAIN cube.bands : cube.bands[b] \in Seq(File)
      BY <1>1, <1>3 DEF TrueCube, Typed
  <2>2. /\ DOMAIN r = Parts /\ r.kind = "cube" /\ r.bands = bands /\ r.bbox = bbox /\ r.datetimes = cube.datetimes
        /\ r.band_scales = cube.band_scales /\ r.layer_names = cube.layer_names /\ r.scene_count = cube.scene_count
      BY <2>1 DEF Parts
  <2>3. \A f \in File : cut(f) \in File /\ cut(f).at = f.at /\ cut(f).units = f.units /\ cut(f).area = {bbox}
      BY DEF File
  <2> HIDE DEF r, cut
  <2>4. ASSUME NEW b \in DOMAIN cube.bands
        PROVE  /\ bands[b] \in Seq(File) /\ Len(bands[b]) = Len(cube.bands[b])
               /\ \A i \in 1..Len(cube.bands[b]) : cube.bands[b][i] \in File /\ bands[b][i] = cut(cube.bands[b][i])
    <3>1. cube.bands[b] \in Seq(File) /\ Len(cube.bands[b]) \in Nat /\ DOMAIN cube.bands[b] = 1..Len(cube.bands[b])
        BY <2>1
    <3>2. bands[b] = [t \in 1..Len(cube.bands[b]) |-> cut(cube.bands[b][t])]
        BY <3>1
    <3> HIDE DEF bands
    <3> QED BY <2>3, <3>1, <3>2
  <2>5. DOMAIN bands = DOMAIN cube.bands
      OBVIOUS
  <2> HIDE DEF bands
  <2>6. \A b \in DOMAIN cube.bands :
             /\ r.bands[b] \in Seq(File) /\ Len(r.bands[b]) = Len(cube.bands[b])
             /\ \A i \in 1..Len(cube.bands[b]) : /\ r.bands[b][i].at = cube.bands[b][i].at
                                                 /\ r.bands[b][i].units = cube.bands[b][i].units
                                                 /\ r.bbox # Absent => r.bands[b][i].area = {r.bbox}
      BY <2>2, <2>3, <2>4
  <2> QED BY <2>1, <2>2, <2>5, <2>6, RewrittenIsTrue
<1> HIDE DEF r
<1> QED BY <1>1, <1>2, <1>3, ErrorsAreTrue

LEMMA FilterBandsIsTrue ==
    ASSUME NEW v, NEW m \in BOOLEAN, TrueValue(v, m), NEW requested
    PROVE  TrueValue(eval_filter_bands(v, requested), m)
<1> DEFINE cube == from_envelope_owned(v)
           bands == [b \in Range(requested) |-> cube.bands[b]]
           r == [cube EXCEPT !.bands = bands, !.layers = Len(requested), !.layer_names = requested]
<1>1. TrueValue(cube, m) /\ (IsError(cube) \/ (cube.kind = "cube" /\ TrueCube(cube, m)))
    BY EnvelopeIsTrue
<1>2. \/ IsError(cube) /\ eval_filter_bands(v, requested) = cube
      \/ eval_filter_bands(v, requested) = InvalidArgs
      \/ ~IsError(cube) /\ Range(requested) \subseteq DOMAIN cube.bands /\ eval_filter_bands(v, requested) = r
    BY DEF eval_filter_bands
<1> HIDE DEF cube
<1>3. ASSUME ~IsError(cube), Range(requested) \subseteq DOMAIN cube.bands PROVE TrueValue(r, m)
  <2>1. TrueCube(cube, m) /\ DOMAIN cube = Parts /\ cube.kind = "cube"
      BY <1>1, <1>3 DEF TrueCube, Typed
  <2>2. /\ DOMAIN r = Parts /\ r.kind = "cube" /\ r.bands = bands /\ r.bbox = cube.bbox /\ r.datetimes = cube.datetimes
        /\ r.band_scales = cube.band_scales /\ r.layer_names = requested /\ r.scene_count = cube.scene_count
      BY <2>1 DEF Parts
  <2> HIDE DEF r
  <2>3. DOMAIN r.bands = Range(requested) /\ \A b \in DOMAIN r.bands : b \in DOMAIN cube.bands /\ r.bands[b] = cube.bands[b]
      BY <1>3, <2>2
  <2> HIDE DEF bands
  <2>4. Typed(r) /\ RawWhileScaled(r)
      BY <2>1, <2>2, <2>3 DEF TrueCube, Typed, RawWhileScaled
  <2>5. Dated(r)
      BY <2>1, <2>2, <2>3 DEF TrueCube, Dated
  <2>6. Named(r) /\ Sized(r, m) /\ Placed(r, m)
      BY <2>1, <2>2, <2>3 DEF TrueCube, Named, Sized, Placed
  <2> QED BY <2>2, <2>4, <2>5, <2>6 DEF TrueValue, TrueCube
<1> HIDE DEF r
<1> QED BY <1>1, <1>2, <1>3, ErrorsAreTrue

\* A finite set of integers has a greatest element.
LEMMA GreatestOf ==
    ASSUME NEW P \in SUBSET Int, IsFiniteSet(P), P # {}
    PROVE  Max(P) \in P
<1>1. /\ Rising(P) \in [1..Cardinality(P) -> P]
      /\ \A i \in P : \E k \in 1..Cardinality(P) : Rising(P)[k] = i
      /\ \A k, m \in 1..Cardinality(P) : k < m => Rising(P)[k] < Rising(P)[m]
    BY RisingInOrder
<1> DEFINE n == Cardinality(P)
           l == Rising(P)
<1>2. n \in Nat /\ n # 0
    BY FS_CardinalityType, FS_EmptySet
<1> HIDE DEF n, l
<1>3. n \in 1..n /\ l[n] \in P /\ l[n] \in Int
  <2>1. l \in [1..n -> P]
      BY <1>1 DEF n, l
  <2>2. n \in 1..n
      BY <1>2
  <2>3. l[n] \in P
      BY <2>1, <2>2, Zenon
  <2> QED BY <2>2, <2>3
<1>4. ASSUME NEW i \in P PROVE l[n] >= i
  <2>1. PICK k \in 1..n : l[k] = i
      BY <1>1 DEF n, l
  <2>2. k = n \/ k < n
      BY <1>2
  <2>3. k < n => l[k] < l[n]
      BY <1>1, <1>3 DEF n, l
  <2> QED BY <1>3, <2>1, <2>2, <2>3
<1>5. \E x \in P : \A y \in P : x >= y
    BY <1>3, <1>4
<1> QED BY <1>5 DEF Max

\* Every band of the renamed cube is one of the cube's.
LEMMA RenameLabelsIsTrue ==
    ASSUME NEW v, NEW m \in BOOLEAN, TrueValue(v, m), NEW dimension, NEW S, NEW target \in Seq(S),
           NEW source, source = Absent \/ source \in Seq(S)
    PROVE  TrueValue(eval_rename_labels(v, dimension, target, source), m)
<1> DEFINE cube == from_envelope_owned(v)
           old == IF source = Absent THEN Keys(cube) ELSE source
           lastOf(b) == Max({i \in DOMAIN target : target[i] = b})
           kept == DOMAIN cube.bands \ Range(old)
           bands == [b \in Range(target) \cup kept |-> IF b \in Range(target) THEN cube.bands[old[lastOf(b)]] ELSE cube.bands[b]]
           out == [cube EXCEPT !.bands = bands]
           r == [out EXCEPT !.layer_names = Keys(out)]
<1>1. TrueValue(cube, m) /\ (IsError(cube) \/ (cube.kind = "cube" /\ TrueCube(cube, m)))
    BY EnvelopeIsTrue
<1>2. \/ IsError(cube) /\ eval_rename_labels(v, dimension, target, source) = cube
      \/ eval_rename_labels(v, dimension, target, source) = InvalidArgs
      \/ /\ ~IsError(cube) /\ Len(old) = Len(target) /\ Range(old) \subseteq DOMAIN cube.bands
         /\ eval_rename_labels(v, dimension, target, source) = r
    BY DEF eval_rename_labels
<1> HIDE DEF cube
<1>3. ASSUME ~IsError(cube), Len(old) = Len(target), Range(old) \subseteq DOMAIN cube.bands PROVE TrueValue(r, m)
  <2>1. TrueCube(cube, m) /\ DOMAIN cube = Parts /\ cube.kind = "cube"
      BY <1>1, <1>3 DEF TrueCube, Typed
  <2>2. \E T : old \in Seq(T)
    <3>1. Keys(cube) \in Seq(STRING \cap DOMAIN cube.bands)
        BY CubeAssumption, NamesAreBands, Zenon DEF Keys
    <3> HIDE DEF Keys
    <3> QED BY <3>1
  <2> HIDE DEF old
  <2>3. \A i \in 1..Len(target) : old[i] \in DOMAIN cube.bands
      BY <1>3, <2>2 DEF Range
  <2>4. ASSUME NEW b \in Range(target) PROVE lastOf(b) \in 1..Len(target)
    <3> DEFINE P == {i \in DOMAIN target : target[i] = b}
    <3>1. P \in SUBSET Int /\ P \in SUBSET (1..Len(target)) /\ P # {} /\ Len(target) \in Nat
        BY DEF Range
    <3>2. IsFiniteSet(P)
        BY <3>1, OneTo, FS_Subset
    <3> HIDE DEF P
    <3>3. Max(P) \in P
        BY <3>1, <3>2, GreatestOf
    <3> QED BY <3>1, <3>3 DEF P
  <2> HIDE DEF lastOf
  <2>5. \A b \in DOMAIN bands : \E c \in DOMAIN cube.bands : bands[b] = cube.bands[c]
      BY <2>3, <2>4
  <2>6. /\ DOMAIN out = Parts /\ out.kind = "cube" /\ out.bands = bands /\ out.bbox = cube.bbox /\ out.datetimes = cube.datetimes
        /\ out.band_scales = cube.band_scales /\ out.scene_count = cube.scene_count
      BY <2>1 DEF Parts
  <2> HIDE DEF bands, out
  <2>7. Range(Keys(out)) \subseteq DOMAIN bands
      BY <2>6, CubeAssumption, NamesAreBands, Zenon DEF Keys
  <2>8. /\ DOMAIN r = Parts /\ r.kind = "cube" /\ r.bands = bands /\ r.bbox = cube.bbox /\ r.datetimes = cube.datetimes
        /\ r.band_scales = cube.band_scales /\ r.layer_names = Keys(out) /\ r.scene_count = cube.scene_count
      BY <2>6 DEF Parts
  <2> HIDE DEF r
  <2>9. Typed(r) /\ RawWhileScaled(r)
      BY <2>1, <2>5, <2>8 DEF TrueCube, Typed, RawWhileScaled
  <2>10. Dated(r)
      BY <2>1, <2>5, <2>8 DEF TrueCube, Dated
  <2>11. Named(r)
      BY <2>7, <2>8 DEF Named
  <2>12. Sized(r, m) /\ Placed(r, m)
      BY <2>1, <2>5, <2>8 DEF TrueCube, Sized, Placed
  <2> QED BY <2>8, <2>9, <2>10, <2>11, <2>12 DEF TrueValue, TrueCube
<1> HIDE DEF r, old
<1> QED BY <1>1, <1>2, <1>3, ErrorsAreTrue

\* The added dimensions are beside the files.
LEMMA DimensionsAreTrue ==
    ASSUME NEW v, NEW m \in BOOLEAN, TrueValue(v, m), NEW name
    PROVE  TrueValue(eval_add_dimension(v, name), m) /\ TrueValue(eval_drop_dimension(v, name), m)
<1> DEFINE cube == from_envelope_owned(v)
           add == [cube EXCEPT !.extras = Append(@, name)]
           drop == [cube EXCEPT !.extras = Filtered(@, Range(@) \ {name})]
<1>1. TrueValue(cube, m) /\ (IsError(cube) \/ (cube.kind = "cube" /\ TrueCube(cube, m)))
    BY EnvelopeIsTrue
<1>2. \/ IsError(cube) /\ eval_add_dimension(v, name) = cube
      \/ ~IsError(cube) /\ eval_add_dimension(v, name) = add
    BY DEF eval_add_dimension
<1>3. \/ IsError(cube) /\ eval_drop_dimension(v, name) = cube
      \/ eval_drop_dimension(v, name) = InvalidArgs
      \/ ~IsError(cube) /\ eval_drop_dimension(v, name) = drop
    BY DEF eval_drop_dimension
<1> HIDE DEF cube
<1>4. ASSUME ~IsError(cube), NEW x PROVE TrueValue([cube EXCEPT !.extras = x], m)
  <2> DEFINE r == [cube EXCEPT !.extras = x]
  <2>1. TrueCube(cube, m) /\ DOMAIN cube = Parts /\ cube.kind = "cube"
      BY <1>1, <1>4 DEF TrueCube, Typed
  <2>2. /\ DOMAIN r = Parts /\ r.kind = "cube" /\ r.bands = cube.bands /\ r.bbox = cube.bbox /\ r.datetimes = cube.datetimes
        /\ r.band_scales = cube.band_scales /\ r.layer_names = cube.layer_names /\ r.scene_count = cube.scene_count
      BY <2>1 DEF Parts
  <2> HIDE DEF r
  <2>3. TrueCube(r, m)
      BY <2>1, <2>2 DEF TrueCube, Typed, RawWhileScaled, Dated, Named, Sized, Placed
  <2> QED BY <2>2, <2>3 DEF TrueValue, r
<1>5. ~IsError(cube) => TrueValue(add, m) /\ TrueValue(drop, m)
    BY <1>4, Zenon
<1> HIDE DEF add, drop
<1> QED BY <1>1, <1>2, <1>3, <1>5, ErrorsAreTrue

\* What is computed has no scales and no times any more.
LEMMA ComputedIsTrue ==
    ASSUME NEW m \in BOOLEAN,
           NEW r, DOMAIN r = Parts, r.kind = "cube", r.band_scales = {}, r.datetimes = Absent,
           \A b \in DOMAIN r.bands : r.bands[b] \in Seq(File),
           r.layer_names # Absent => Range(r.layer_names) \subseteq DOMAIN r.bands,
           ~m => \A b \in DOMAIN r.bands : Len(r.bands[b]) = r.scene_count,
           ~m /\ r.bbox # Absent => \A b \in DOMAIN r.bands : \A i \in 1..Len(r.bands[b]) : r.bands[b][i].area = {r.bbox}
    PROVE  TrueValue(r, m)
BY DEF TrueValue, TrueCube, Typed, RawWhileScaled, Dated, Named, Sized, Placed

LEMMA ReduceTimeIsTrue ==
    ASSUME NEW v, NEW m \in BOOLEAN, TrueValue(v, m)
    PROVE  TrueValue(eval_reduce_dimension_t(v), m)
<1> DEFINE cube == from_envelope_owned(v)
           band == PrimaryBand(cube)
           file == Merged(Range(cube.bands[band]))
           bands == [b \in {band} |-> <<file>>]
           r == [NewCube EXCEPT !.bands = bands, !.scene_count = 1]
<1>1. TrueValue(cube, m) /\ (IsError(cube) \/ (cube.kind = "cube" /\ TrueCube(cube, m)))
    BY EnvelopeIsTrue
<1>2. \/ IsError(cube) /\ eval_reduce_dimension_t(v) = cube
      \/ eval_reduce_dimension_t(v) \in {InvalidArgs, Backend}
      \/ ~IsError(cube) /\ band # Absent /\ eval_reduce_dimension_t(v) = r
    BY DEF eval_reduce_dimension_t
<1> HIDE DEF cube
<1>3. ASSUME ~IsError(cube), band # Absent PROVE TrueValue(r, m)
  <2>1. band \in DOMAIN cube.bands /\ \A b \in DOMAIN cube.bands : cube.bands[b] \in Seq(File)
      BY <1>1, <1>3, PrimaryIsBand DEF TrueCube, Typed
  <2> HIDE DEF band
  <2>2. Range(cube.bands[band]) \in SUBSET File
      BY <2>1 DEF Range
  <2>3. file \in File
      BY <2>2, MergedIsFile
  <2> HIDE DEF file
  <2>4. /\ DOMAIN r = Parts /\ r.kind = "cube" /\ r.bands = bands /\ r.scene_count = 1
        /\ r.band_scales = {} /\ r.bbox = Absent /\ r.datetimes = Absent /\ r.layer_names = Absent
      BY NewParts DEF Parts
  <2> HIDE DEF r
  <2>5. \A b \in DOMAIN r.bands : r.bands[b] \in Seq(File) /\ Len(r.bands[b]) = r.scene_count
      BY <2>3, <2>4, FileListed
  <2> QED BY <2>4, <2>5, ComputedIsTrue
<1> HIDE DEF r, band
<1> QED BY <1>1, <1>2, <1>3, ErrorsAreTrue

LEMMA NonSclAreBands ==
    ASSUME NEW cube
    PROVE  /\ NonScl(cube) \in Seq(DOMAIN cube.bands) /\ Range(NonScl(cube)) \subseteq DOMAIN cube.bands \ {SCL}
           /\ NonScl(cube) # << >> => NonScl(cube)[1] \in Range(NonScl(cube))
<1>1. NonScl(cube) \in Seq(STRING \cap (DOMAIN cube.bands \ {SCL})) /\ Range(NonScl(cube)) \subseteq DOMAIN cube.bands \ {SCL}
    BY CubeAssumption, NamesAreBands, Zenon DEF NonScl
<1> HIDE DEF NonScl
<1>2. NonScl(cube) \in Seq(DOMAIN cube.bands)
    BY <1>1
<1>3. NonScl(cube) # << >> => NonScl(cube)[1] \in Range(NonScl(cube))
    BY <1>2 DEF Range
<1> QED BY <1>1, <1>2, <1>3

\* Scene by scene over bands of one length.
LEMMA ReduceBandsIsTrue ==
    ASSUME NEW v, NEW m \in BOOLEAN, TrueValue(v, m)
    PROVE  TrueValue(eval_reduce_dimension_bands(v), m)
<1> DEFINE cube == from_envelope_owned(v)
           names == NonScl(cube)
           n == Len(cube.bands[names[1]])
           scene(t) == Merged({cube.bands[b][t] : b \in Range(names)})
           list == [t \in 1..n |-> scene(t)]
           bands == [b \in {"result"} |-> list]
           r == [NewCube EXCEPT !.bands = bands, !.scene_count = n]
<1>1. TrueValue(cube, m) /\ (IsError(cube) \/ (cube.kind = "cube" /\ TrueCube(cube, m)))
    BY EnvelopeIsTrue
<1>2. \/ IsError(cube) /\ eval_reduce_dimension_bands(v) = cube
      \/ eval_reduce_dimension_bands(v) = InvalidArgs
      \/ /\ ~IsError(cube) /\ names # << >> /\ \A b \in Range(names) : Len(cube.bands[b]) = n
         /\ eval_reduce_dimension_bands(v) = r
    BY DEF eval_reduce_dimension_bands
<1> HIDE DEF cube
<1>3. ASSUME ~IsError(cube), names # << >>, \A b \in Range(names) : Len(cube.bands[b]) = n PROVE TrueValue(r, m)
  <2>1. /\ names[1] \in Range(names)
        /\ \A b \in Range(names) : b \in DOMAIN cube.bands /\ cube.bands[b] \in Seq(File)
      BY <1>1, <1>3, NonSclAreBands DEF TrueCube, Typed
  <2>2. n \in Nat /\ \A b \in Range(names) : \A t \in 1..n : cube.bands[b][t] \in File
      BY <1>3, <2>1
  <2> HIDE DEF n, names
  <2>3. ASSUME NEW t \in 1..n PROVE scene(t) \in File
    <3>1. {cube.bands[b][t] : b \in Range(names)} \in SUBSET File
        BY <2>2
    <3> QED BY <3>1, MergedIsFile
  <2> HIDE DEF scene
  <2>4. list \in Seq(File) /\ Len(list) = n
    <3>1. list \in [1..n -> File]
        BY <2>3
    <3> QED BY <2>2, <3>1, ListOf
  <2> HIDE DEF list
  <2>5. /\ DOMAIN r = Parts /\ r.kind = "cube" /\ r.bands = bands /\ r.scene_count = n
        /\ r.band_scales = {} /\ r.bbox = Absent /\ r.datetimes = Absent /\ r.layer_names = Absent
      BY NewParts DEF Parts
  <2> HIDE DEF r
  <2>6. \A b \in DOMAIN r.bands : r.bands[b] \in Seq(File) /\ Len(r.bands[b]) = r.scene_count
      BY <2>4, <2>5
  <2> QED BY <2>5, <2>6, ComputedIsTrue
<1> HIDE DEF r, n, names
<1> QED BY <1>1, <1>2, <1>3, ErrorsAreTrue

LEMMA ReduceIsTrue ==
    ASSUME NEW v, NEW m \in BOOLEAN, TrueValue(v, m), NEW dimension
    PROVE  TrueValue(eval_reduce_dimension(v, dimension), m)
<1>1. eval_reduce_dimension(v, dimension) \in {eval_reduce_dimension_bands(v), eval_reduce_dimension_t(v), InvalidArgs}
    BY DEF eval_reduce_dimension
<1> QED BY <1>1, ReduceTimeIsTrue, ReduceBandsIsTrue, ErrorsAreTrue

\* apply converts raw numbers of scaled bands, and drops the scales.
LEMMA ApplyIsTrue ==
    ASSUME NEW v, NEW m \in BOOLEAN, TrueValue(v, m)
    PROVE  TrueValue(eval_apply(v), m)
<1> DEFINE cube == from_envelope_owned(v)
           names == NonScl(cube)
           longest == Max({Len(cube.bands[b]) : b \in Range(names)})
           bands == [b \in DOMAIN cube.bands |->
                        IF b = SCL THEN cube.bands[b]
                        ELSE [t \in DOMAIN cube.bands[b] |-> Converted(cube, b, cube.bands[b][t])]]
           r == [NewCube EXCEPT !.bands = bands, !.bbox = cube.bbox, !.scene_count = longest, !.times = longest,
                                !.layers = Len(names), !.layer_names = names]
<1>1. TrueValue(cube, m) /\ (IsError(cube) \/ (cube.kind = "cube" /\ TrueCube(cube, m)))
    BY EnvelopeIsTrue
<1>2. \/ IsError(cube) /\ eval_apply(v) = cube
      \/ eval_apply(v) \in {InvalidArgs, Backend}
      \/ ~IsError(cube) /\ names # << >> /\ eval_apply(v) = r
    BY DEF eval_apply
<1> HIDE DEF cube
<1>3. ASSUME ~IsError(cube), names # << >> PROVE TrueValue(r, m)
  <2>1. TrueCube(cube, m) /\ \A b \in DOMAIN cube.bands : cube.bands[b] \in Seq(File)
      BY <1>1, <1>3 DEF TrueCube, Typed
  <2>2. names[1] \in Range(names) /\ Range(names) \subseteq DOMAIN cube.bands
      BY <1>3, NonSclAreBands
  <2> HIDE DEF names
  <2>3. ~m => longest = cube.scene_count /\ \A b \in DOMAIN cube.bands : Len(cube.bands[b]) = cube.scene_count
    <3> SUFFICES ASSUME ~m PROVE longest = cube.scene_count /\ \A b \in DOMAIN cube.bands : Len(cube.bands[b]) = cube.scene_count
        OBVIOUS
    <3>1. \A b \in DOMAIN cube.bands : Len(cube.bands[b]) = cube.scene_count
        BY <2>1 DEF TrueCube, Sized
    <3>2. {Len(cube.bands[b]) : b \in Range(names)} = {cube.scene_count} /\ cube.scene_count \in Int
        BY <2>1, <2>2, <3>1
    <3>3. ASSUME NEW x \in Int PROVE Max({x}) = x
        BY DEF Max
    <3> QED BY <3>1, <3>2, <3>3
  <2> HIDE DEF longest
  <2>4. ASSUME NEW b \in DOMAIN cube.bands, NEW t \in 1..Len(cube.bands[b])
        PROVE  Converted(cube, b, cube.bands[b][t]) \in File /\ Converted(cube, b, cube.bands[b][t]).area = cube.bands[b][t].area
    <3>1. PICK f \in File : f = cube.bands[b][t]
        BY <2>1
    <3>2. b \in cube.band_scales => f.units = {0}
        BY <2>1, <3>1 DEF TrueCube, RawWhileScaled
    <3>3. CASE b \in cube.band_scales
      <4>1. {u + 1 : u \in f.units} = {1}
          BY <3>2, <3>3
      <4>2. Converted(cube, b, f) = [f EXCEPT !.units = {1}]
          BY <3>3, <4>1 DEF Converted
      <4> QED BY <3>1, <4>2 DEF File
    <3>4. CASE b \notin cube.band_scales
        BY <3>1, <3>4 DEF Converted
    <3> QED BY <3>3, <3>4
  <2>5. DOMAIN bands = DOMAIN cube.bands
      OBVIOUS
  <2>6. ASSUME NEW b \in DOMAIN cube.bands
        PROVE  /\ bands[b] \in Seq(File) /\ Len(bands[b]) = Len(cube.bands[b])
               /\ \A i \in 1..Len(cube.bands[b]) : bands[b][i].area = cube.bands[b][i].area
    <3> DEFINE n == Len(cube.bands[b])
               list == [t \in 1..n |-> Converted(cube, b, cube.bands[b][t])]
    <3>1. n \in Nat /\ DOMAIN cube.bands[b] = 1..n /\ cube.bands[b] \in Seq(File)
        BY <2>1
    <3>2. bands[b] = cube.bands[b] \/ bands[b] = list
        BY <3>1
    <3>3. list \in [1..n -> File] /\ \A i \in 1..n : list[i].area = cube.bands[b][i].area
        BY <2>4
    <3> HIDE DEF bands, list
    <3>4. list \in Seq(File) /\ Len(list) = n
      <4> HIDE DEF n
      <4> QED BY <3>1, <3>3, ListOf
    <3> QED BY <3>1, <3>2, <3>3, <3>4
  <2> HIDE DEF bands
  <2>7. /\ DOMAIN r = Parts /\ r.kind = "cube" /\ r.bands = bands /\ r.scene_count = longest
        /\ r.band_scales = {} /\ r.bbox = cube.bbox /\ r.datetimes = Absent /\ r.layer_names = names
      BY NewParts DEF Parts
  <2> HIDE DEF r
  <2>8. ~m => \A b \in DOMAIN r.bands : Len(r.bands[b]) = r.scene_count
      BY <2>3, <2>5, <2>6, <2>7
  <2>9. ~m /\ r.bbox # Absent => \A b \in DOMAIN r.bands : \A i \in 1..Len(r.bands[b]) : r.bands[b][i].area = {r.bbox}
    <3>1. ~m /\ cube.bbox # Absent =>
            \A b \in DOMAIN cube.bands : \A i \in 1..Len(cube.bands[b]) : cube.bands[b][i].area = {cube.bbox}
        BY <2>1 DEF TrueCube, Placed
    <3> QED BY <2>5, <2>6, <2>7, <3>1
  <2>10. \A b \in DOMAIN r.bands : r.bands[b] \in Seq(File)
      BY <2>5, <2>6, <2>7
  <2> QED BY <2>2, <2>5, <2>7, <2>8, <2>9, <2>10, ComputedIsTrue
<1> HIDE DEF r, names
<1> QED BY <1>1, <1>2, <1>3, ErrorsAreTrue

LEMMA NdviIsTrue ==
    ASSUME NEW v, NEW m \in BOOLEAN, TrueValue(v, m), NEW red, NEW nir, NEW target
    PROVE  TrueValue(eval_ndvi(v, red, nir, target), m)
<1> DEFINE cube == from_envelope_owned(v)
           n == Len(cube.bands[red])
           index(t) == [Merged({cube.bands[red][t], cube.bands[nir][t]}) EXCEPT !.units = {1}]
           list == [t \in 1..n |-> index(t)]
           bands == [b \in (DOMAIN cube.bands \ {red, nir}) \cup {target} |-> IF b # target THEN cube.bands[b] ELSE list]
           r == [NewCube EXCEPT !.bands = bands, !.bbox = cube.bbox, !.scene_count = n, !.times = n,
                                !.layers = 1, !.layer_names = <<target>>]
<1>1. TrueValue(cube, m) /\ (IsError(cube) \/ (cube.kind = "cube" /\ TrueCube(cube, m)))
    BY EnvelopeIsTrue
<1>2. \/ IsError(cube) /\ eval_ndvi(v, red, nir, target) = cube
      \/ eval_ndvi(v, red, nir, target) \in {InvalidArgs, Backend}
      \/ /\ ~IsError(cube) /\ red \in DOMAIN cube.bands /\ nir \in DOMAIN cube.bands
         /\ Len(cube.bands[nir]) = n /\ eval_ndvi(v, red, nir, target) = r
    BY DEF eval_ndvi
<1> HIDE DEF cube
<1>3. ASSUME ~IsError(cube), red \in DOMAIN cube.bands, nir \in DOMAIN cube.bands, Len(cube.bands[nir]) = n
      PROVE  TrueValue(r, m)
  <2>1. TrueCube(cube, m) /\ \A b \in DOMAIN cube.bands : cube.bands[b] \in Seq(File)
      BY <1>1, <1>3 DEF TrueCube, Typed
  <2>2. n \in Nat /\ \A t \in 1..n : cube.bands[red][t] \in File /\ cube.bands[nir][t] \in File
      BY <1>3, <2>1
  <2>3. /\ ~m => \A b \in DOMAIN cube.bands : Len(cube.bands[b]) = n
        /\ ~m /\ cube.bbox # Absent =>
             \A b \in DOMAIN cube.bands : \A i \in 1..Len(cube.bands[b]) : cube.bands[b][i].area = {cube.bbox}
      BY <1>3, <2>1 DEF TrueCube, Sized, Placed
  <2>4. ASSUME NEW t \in 1..n
        PROVE  index(t) \in File /\ (~m /\ cube.bbox # Absent => index(t).area = {cube.bbox})
    <3> DEFINE files == {cube.bands[red][t], cube.bands[nir][t]}
    <3>1. files \in SUBSET File /\ files # {}
        BY <2>2
    <3>2. ~m /\ cube.bbox # Absent => \A f \in files : f.area = {cube.bbox}
        BY <1>3, <2>3
    <3> HIDE DEF files
    <3>3. Merged(files) \in File
        BY <3>1, MergedIsFile
    <3>4. ~m /\ cube.bbox # Absent => Merged(files).area = {cube.bbox}
        BY <3>1, <3>2, MergedArea
    <3>5. index(t) = [Merged(files) EXCEPT !.units = {1}]
        BY DEF files
    <3> HIDE DEF index
    <3>6. index(t) \in File /\ index(t).area = Merged(files).area
        BY <3>3, <3>5 DEF File
    <3> QED BY <3>4, <3>6
  <2> HIDE DEF index
  <2>5. list \in Seq(File) /\ Len(list) = n /\ \A t \in 1..n : list[t] = index(t)
    <3>1. list \in [1..n -> File] /\ \A t \in 1..n : list[t] = index(t)
        BY <2>4
    <3> HIDE DEF list, n
    <3> QED BY <2>2, <3>1, ListOf
  <2> HIDE DEF list
  <2>6. /\ DOMAIN bands = (DOMAIN cube.bands \ {red, nir}) \cup {target}
        /\ \A b \in DOMAIN bands : (b \in DOMAIN cube.bands /\ bands[b] = cube.bands[b]) \/ bands[b] = list
      OBVIOUS
  <2>7. /\ DOMAIN r = Parts /\ r.kind = "cube" /\ r.bands = bands /\ r.scene_count = n
        /\ r.band_scales = {} /\ r.bbox = cube.bbox /\ r.datetimes = Absent /\ r.layer_names = <<target>>
      BY NewParts DEF Parts
  <2> HIDE DEF r, bands, n
  <2>8. \A b \in DOMAIN r.bands : r.bands[b] \in Seq(File)
      BY <2>1, <2>5, <2>6, <2>7
  <2>9. ~m => \A b \in DOMAIN r.bands : Len(r.bands[b]) = r.scene_count
      BY <2>3, <2>5, <2>6, <2>7
  <2>10. ~m /\ r.bbox # Absent => \A b \in DOMAIN r.bands : \A i \in 1..Len(r.bands[b]) : r.bands[b][i].area = {r.bbox}
      BY <2>3, <2>4, <2>5, <2>6, <2>7
  <2>11. Range(r.layer_names) \subseteq DOMAIN r.bands
      BY <2>6, <2>7 DEF Range
  <2> QED BY <2>7, <2>8, <2>9, <2>10, <2>11, ComputedIsTrue
<1> HIDE DEF r, n
<1> QED BY <1>1, <1>2, <1>3, ErrorsAreTrue

\* resample_spatial, which forgets the area; epsg: a code.
LEMMA ResampleIsTrue ==
    ASSUME NEW v, NEW m \in BOOLEAN, TrueValue(v, m), NEW epsg \in Int, NEW resolution
    PROVE  TrueValue(eval_resample_spatial(v, epsg, resolution), m)
<1> DEFINE warped(f) == [f EXCEPT !.epsg = {epsg}]
           bands == [b \in DOMAIN v.bands |-> [t \in DOMAIN v.bands[b] |-> warped(v.bands[b][t])]]
           r == [v EXCEPT !.bands = bands, !.bbox = Absent]
<1>1. \/ eval_resample_spatial(v, epsg, resolution) \in {InvalidArgs, Backend}
      \/ v.kind = "raster" /\ eval_resample_spatial(v, epsg, resolution) = Raster(warped(v.path))
      \/ v.kind = "cube" /\ eval_resample_spatial(v, epsg, resolution) = r
    BY DEF eval_resample_spatial, EachFile
<1>2. \A f \in File : warped(f) \in File /\ warped(f).at = f.at /\ warped(f).units = f.units
    BY DEF File
<1> HIDE DEF warped
<1>3. ASSUME v.kind = "cube" PROVE TrueValue(r, m)
  <2>1. TrueCube(v, m) /\ DOMAIN v = Parts /\ \A b \in DOMAIN v.bands : v.bands[b] \in Seq(File)
      BY <1>3 DEF TrueValue, TrueCube, Typed
  <2>2. /\ DOMAIN r = Parts /\ r.kind = "cube" /\ r.bands = bands /\ r.bbox = Absent /\ r.datetimes = v.datetimes
        /\ r.band_scales = v.band_scales /\ r.layer_names = v.layer_names /\ r.scene_count = v.scene_count
      BY <1>3, <2>1 DEF Parts
  <2> HIDE DEF r
  <2>3. ASSUME NEW b \in DOMAIN v.bands
        PROVE  /\ bands[b] \in Seq(File) /\ Len(bands[b]) = Len(v.bands[b])
               /\ \A i \in 1..Len(v.bands[b]) : v.bands[b][i] \in File /\ bands[b][i] = warped(v.bands[b][i])
    <3>1. v.bands[b] \in Seq(File) /\ Len(v.bands[b]) \in Nat /\ DOMAIN v.bands[b] = 1..Len(v.bands[b])
        BY <2>1
    <3>2. bands[b] = [t \in 1..Len(v.bands[b]) |-> warped(v.bands[b][t])]
        BY <3>1
    <3> HIDE DEF bands
    <3> QED BY <1>2, <3>1, <3>2
  <2>4. DOMAIN bands = DOMAIN v.bands
      OBVIOUS
  <2> HIDE DEF bands
  <2>5. \A b \in DOMAIN v.bands :
             /\ r.bands[b] \in Seq(File) /\ Len(r.bands[b]) = Len(v.bands[b])
             /\ \A i \in 1..Len(v.bands[b]) : /\ r.bands[b][i].at = v.bands[b][i].at
                                              /\ r.bands[b][i].units = v.bands[b][i].units
                                              /\ r.bbox # Absent => r.bands[b][i].area = {r.bbox}
      BY <1>2, <2>2, <2>3
  <2> QED BY <1>3, <2>1, <2>2, <2>4, <2>5, RewrittenIsTrue
<1>4. ASSUME v.kind = "raster" PROVE TrueValue(Raster(warped(v.path)), m)
    BY <1>2, <1>4 DEF TrueValue, Raster
<1> HIDE DEF r
<1> QED BY <1>1, <1>3, <1>4, ErrorsAreTrue

\* The file that stands for a value is one of its files.
LEMMA RasterPathIsFile ==
    ASSUME NEW v, NEW m \in BOOLEAN, TrueValue(v, m)
    PROVE  LET p == extract_raster_path(v) IN p = InvalidArgs \/ (p.kind = "raster" /\ p.path \in File)
<1> DEFINE b == PrimaryBand(v)
<1>1. CASE v.kind = "raster"
    BY <1>1 DEF extract_raster_path, TrueValue
<1>2. CASE v.kind = "cube"
  <2>1. \/ extract_raster_path(v) = InvalidArgs
        \/ b # Absent /\ v.bands[b] # << >> /\ extract_raster_path(v) = Raster(Head(v.bands[b]))
      BY <1>2 DEF extract_raster_path
  <2>2. ASSUME b # Absent, v.bands[b] # << >> PROVE Head(v.bands[b]) \in File
    <3>1. v.bands[b] \in Seq(File)
        BY <1>2, <2>2, PrimaryIsBand DEF TrueValue, TrueCube, Typed
    <3> QED BY <2>2, <3>1
  <2> HIDE DEF b
  <2> QED BY <2>1, <2>2 DEF Raster
<1>3. CASE v.kind = "error"
    BY <1>3 DEF extract_raster_path
<1> QED BY <1>1, <1>2, <1>3 DEF TrueValue

\* The cubes of two branches agree in the lengths and areas of their files.
Alike(c1, c2) == Lengths(c1) = Lengths(c2) /\ Areas(c1) = Areas(c2)

\* The bands of a merge: those of one cube, of the other, or of both scene by scene.
JoinOf(bands, c1, c2) ==
    \A b \in DOMAIN bands :
        \/ b \in DOMAIN c1.bands /\ bands[b] = c1.bands[b]
        \/ b \in DOMAIN c2.bands /\ bands[b] = c2.bands[b]
        \/ /\ b \in DOMAIN c1.bands /\ b \in DOMAIN c2.bands /\ Len(c1.bands[b]) = Len(c2.bands[b])
           /\ bands[b] = [t \in DOMAIN c1.bands[b] |-> Merged({c1.bands[b][t], c2.bands[b][t]})]

\* A merge of cubes: `w' says that they were unlike, or others before them.
LEMMA MergedCubesAreTrue ==
    ASSUME NEW c1, NEW c2, NEW m \in BOOLEAN, NEW w \in BOOLEAN, ~w => ~m /\ Alike(c1, c2),
           TrueCube(c1, m), TrueCube(c2, m), NEW bands, JoinOf(bands, c1, c2)
    PROVE  TrueValue(MergedCube(c1, bands), w)
<1> DEFINE r == MergedCube(c1, bands)
<1>1. /\ DOMAIN r = Parts /\ r.kind = "cube" /\ r.bands = bands /\ r.scene_count = c1.scene_count
      /\ r.band_scales = {} /\ r.bbox = c1.bbox /\ r.datetimes = Absent /\ r.layer_names = Absent
    BY NewParts DEF MergedCube, Parts
<1> HIDE DEF r
<1>2. /\ \A b \in DOMAIN c1.bands : c1.bands[b] \in Seq(File)
      /\ \A b \in DOMAIN c2.bands : c2.bands[b] \in Seq(File)
    BY DEF TrueCube, Typed
<1>3. ~w => /\ \A b \in DOMAIN c1.bands : Len(c1.bands[b]) = c1.scene_count
            /\ \A b \in DOMAIN c2.bands : Len(c2.bands[b]) = c1.scene_count
    BY DEF TrueCube, Sized, Alike, Lengths
<1>4. ~w /\ c1.bbox # Absent =>
        /\ \A b \in DOMAIN c1.bands : \A i \in 1..Len(c1.bands[b]) : c1.bands[b][i].area = {c1.bbox}
        /\ \A b \in DOMAIN c2.bands : \A i \in 1..Len(c2.bands[b]) : c2.bands[b][i].area = {c1.bbox}
  <2> SUFFICES ASSUME ~w, c1.bbox # Absent
               PROVE  /\ \A b \in DOMAIN c1.bands : \A i \in 1..Len(c1.bands[b]) : c1.bands[b][i].area = {c1.bbox}
                      /\ \A b \in DOMAIN c2.bands : \A i \in 1..Len(c2.bands[b]) : c2.bands[b][i].area = {c1.bbox}
      OBVIOUS
  <2>1. \A b \in DOMAIN c1.bands : \A i \in 1..Len(c1.bands[b]) : c1.bands[b][i].area = {c1.bbox}
      BY DEF TrueCube, Placed
  <2>2. \A a \in Areas(c1) : a = {c1.bbox}
    <3> SUFFICES ASSUME NEW b \in DOMAIN c1.bands, NEW f \in Range(c1.bands[b]) PROVE f.area = {c1.bbox}
        BY DEF Areas
    <3>1. PICK i \in 1..Len(c1.bands[b]) : f = c1.bands[b][i]
        BY <1>2 DEF Range
    <3> QED BY <2>1, <3>1
  <2>3. ASSUME NEW b \in DOMAIN c2.bands, NEW i \in 1..Len(c2.bands[b]) PROVE c2.bands[b][i].area \in Areas(c2)
    <3>1. c2.bands[b][i] \in Range(c2.bands[b])
        BY <1>2 DEF Range
    <3> QED BY <3>1 DEF Areas
  <2>4. Areas(c2) = Areas(c1)
      BY DEF Alike
  <2> QED BY <2>1, <2>2, <2>3, <2>4
<1>5. ASSUME NEW b \in DOMAIN bands
      PROVE  /\ bands[b] \in Seq(File)
             /\ ~w => Len(bands[b]) = c1.scene_count
             /\ ~w /\ c1.bbox # Absent => \A i \in 1..Len(bands[b]) : bands[b][i].area = {c1.bbox}
  <2>1. CASE b \in DOMAIN c1.bands /\ bands[b] = c1.bands[b]
      BY <1>2, <1>3, <1>4, <2>1
  <2>2. CASE b \in DOMAIN c2.bands /\ bands[b] = c2.bands[b]
      BY <1>2, <1>3, <1>4, <2>2
  <2>3. CASE /\ b \in DOMAIN c1.bands /\ b \in DOMAIN c2.bands /\ Len(c1.bands[b]) = Len(c2.bands[b])
             /\ bands[b] = [t \in DOMAIN c1.bands[b] |-> Merged({c1.bands[b][t], c2.bands[b][t]})]
    <3>1. PICK s1 \in Seq(File), s2 \in Seq(File) : s1 = c1.bands[b] /\ s2 = c2.bands[b]
        BY <1>2, <2>3
    <3> DEFINE n == Len(s1)
               both(t) == Merged({s1[t], s2[t]})
    <3>2. n \in Nat /\ DOMAIN s1 = 1..n /\ Len(s2) = n /\ \A t \in 1..n : s1[t] \in File /\ s2[t] \in File
        BY <2>3, <3>1
    <3>3. bands[b] = [t \in 1..n |-> both(t)]
        BY <2>3, <3>1, <3>2
    <3>4. ASSUME NEW t \in 1..n
          PROVE  both(t) \in File /\ (~w /\ c1.bbox # Absent => both(t).area = {c1.bbox})
      <4>1. {s1[t], s2[t]} \in SUBSET File /\ {s1[t], s2[t]} # {}
          BY <3>2
      <4>2. ~w /\ c1.bbox # Absent => \A f \in {s1[t], s2[t]} : f.area = {c1.bbox}
          BY <1>4, <2>3, <3>1, <3>2
      <4> QED BY <4>1, <4>2, MergedIsFile, MergedArea
    <3> HIDE DEF both
    <3>5. bands[b] \in [1..n -> File] /\ \A t \in 1..n : bands[b][t] = both(t)
        BY <3>3, <3>4
    <3>6. bands[b] \in Seq(File) /\ Len(bands[b]) = n
      <4> HIDE DEF n
      <4> QED BY <3>2, <3>5, ListOf
    <3>7. ~w => n = c1.scene_count
        BY <1>3, <2>3, <3>1
    <3> HIDE DEF n
    <3> QED BY <3>4, <3>5, <3>6, <3>7
  <2> QED BY <2>1, <2>2, <2>3, Zenon DEF JoinOf
<1>6. TrueValue(r, w)
    BY <1>1, <1>5, ComputedIsTrue
<1> QED BY <1>6 DEF r

LEMMA MergeIsTrue ==
    ASSUME NEW c1, NEW c2, NEW m \in BOOLEAN, NEW w \in BOOLEAN, TrueValue(c1, m), TrueValue(c2, m), NEW resolver,
           c1.kind = "cube" /\ c2.kind = "cube" /\ ~w => ~m /\ Alike(c1, c2)
    PROVE  TrueValue(eval_merge_cubes(c1, c2, resolver), w)
<1> DEFINE joined == [b \in DOMAIN c1.bands \cup DOMAIN c2.bands |->
                         IF b \in DOMAIN c1.bands THEN c1.bands[b] ELSE c2.bands[b]]
           both == DOMAIN c1.bands \cap DOMAIN c2.bands
           resolved == [b \in DOMAIN c1.bands \cup DOMAIN c2.bands |->
                CASE b \in both -> [t \in DOMAIN c1.bands[b] |-> Merged({c1.bands[b][t], c2.bands[b][t]})]
                  [] b \notin DOMAIN c2.bands -> c1.bands[b]
                  [] OTHER -> c2.bands[b]]
           p1 == extract_raster_path(c1)
           p2 == extract_raster_path(c2)
           cubes == c1.kind = "cube" /\ c2.kind = "cube"
<1>1. \/ cubes /\ eval_merge_cubes(c1, c2, resolver) = MergedCube(c1, joined)
      \/ cubes /\ eval_merge_cubes(c1, c2, resolver) = merge_cubes_resolve_overlap(c1, c2)
      \/ IsError(p1) /\ eval_merge_cubes(c1, c2, resolver) = p1
      \/ IsError(p2) /\ eval_merge_cubes(c1, c2, resolver) = p2
      \/ ~IsError(p1) /\ ~IsError(p2) /\ eval_merge_cubes(c1, c2, resolver) = Raster(Merged({p1.path, p2.path}))
    BY DEF eval_merge_cubes
<1>2. ASSUME cubes PROVE TrueCube(c1, m) /\ TrueCube(c2, m) /\ (~w => ~m /\ Alike(c1, c2))
    BY <1>2 DEF TrueValue
<1>3. ASSUME cubes PROVE TrueValue(MergedCube(c1, joined), w)
  <2>1. JoinOf(joined, c1, c2)
      BY DEF JoinOf
  <2> HIDE DEF joined
  <2> QED BY <1>2, <1>3, <2>1, MergedCubesAreTrue
<1>4. ASSUME cubes PROVE TrueValue(merge_cubes_resolve_overlap(c1, c2), w)
  <2>1. \/ merge_cubes_resolve_overlap(c1, c2) = InvalidArgs
        \/ /\ \A b \in both : Len(c1.bands[b]) = Len(c2.bands[b])
           /\ merge_cubes_resolve_overlap(c1, c2) = MergedCube(c1, resolved)
      BY DEF merge_cubes_resolve_overlap
  <2>2. ASSUME \A b \in both : Len(c1.bands[b]) = Len(c2.bands[b])
        PROVE  JoinOf(resolved, c1, c2)
      BY <2>2 DEF JoinOf
  <2> HIDE DEF resolved
  <2>3. ASSUME \A b \in both : Len(c1.bands[b]) = Len(c2.bands[b]) PROVE TrueValue(MergedCube(c1, resolved), w)
      BY <1>2, <1>4, <2>2, <2>3, MergedCubesAreTrue
  <2> QED BY <2>1, <2>3, ErrorsAreTrue
<1>5. ASSUME ~IsError(p1), ~IsError(p2) PROVE TrueValue(Raster(Merged({p1.path, p2.path})), w)
  <2>1. InvalidArgs.kind = "error"
      BY DEF InvalidArgs, Error
  <2>2. p1.path \in File /\ p2.path \in File
      BY <1>5, <2>1, RasterPathIsFile DEF IsError
  <2>3. Merged({p1.path, p2.path}) \in File
      BY <2>2, MergedIsFile
  <2> QED BY <2>3 DEF TrueValue, Raster
<1>6. /\ IsError(p1) => TrueValue(p1, w)
      /\ IsError(p2) => TrueValue(p2, w)
    BY DEF IsError, TrueValue
<1> HIDE DEF joined, cubes, p1, p2
<1> QED BY <1>1, <1>3, <1>4, <1>5, <1>6

LEMMA LoadedIsTrue ==
    ASSUME NEW B \in BandSets, NEW n \in Nat, NEW times \in [1..n -> Times], NEW dated \in BOOLEAN, NEW box \in Extents
    PROVE  TrueValue(Loaded(B, times, dated, box), FALSE)
<1> DEFINE file(b, i) == [at |-> {times[i]}, of |-> {b}, units |-> {0}, area |-> {box}, epsg |-> {0}]
           bands == [b \in B |-> [i \in DOMAIN times |-> file(b, i)]]
           r == Loaded(B, times, dated, box)
<1>1. times \in Seq(Times) /\ Len(times) = n /\ DOMAIN times = 1..n
    BY ListOf
<1>2. /\ DOMAIN r = Parts /\ r.kind = "cube" /\ r.bands = bands /\ r.scene_count = Len(times) /\ r.band_scales = B \ {SCL}
      /\ r.bbox = box /\ r.datetimes = (IF dated THEN times ELSE Absent) /\ r.layer_names = Absent
    BY NewParts DEF Loaded, Parts
<1> HIDE DEF r
<1>3. \A b \in B : \A i \in 1..n : /\ file(b, i) \in File /\ file(b, i).at = {times[i]}
                                   /\ file(b, i).units = {0} /\ file(b, i).area = {box}
    BY DEF File
<1> HIDE DEF file
<1>4. DOMAIN r.bands = B /\ \A b \in B : r.bands[b] = [i \in 1..n |-> file(b, i)]
    BY <1>1, <1>2
<1> HIDE DEF bands
<1>5. ASSUME NEW b \in DOMAIN r.bands
      PROVE  r.bands[b] \in Seq(File) /\ Len(r.bands[b]) = n /\ b \in B /\ \A i \in 1..n : r.bands[b][i] = file(b, i)
  <2>1. b \in B /\ r.bands[b] = [i \in 1..n |-> file(b, i)]
      BY <1>4
  <2>2. \A i \in 1..n : file(b, i) \in File
      BY <1>3, <2>1
  <2>3. r.bands[b] \in [1..n -> File] /\ \A i \in 1..n : r.bands[b][i] = file(b, i)
      BY <2>1, <2>2
  <2> QED BY <2>1, <2>3, ListOf
<1>6. Typed(r) /\ Sized(r, FALSE) /\ Named(r)
    BY <1>1, <1>2, <1>5 DEF Typed, Sized, Named
<1>7. RawWhileScaled(r) /\ Placed(r, FALSE)
    BY <1>2, <1>3, <1>5 DEF RawWhileScaled, Placed
<1>8. Dated(r)
    BY <1>1, <1>2, <1>3, <1>5 DEF Dated
<1>9. TrueValue(r, FALSE)
    BY <1>2, <1>6, <1>7, <1>8 DEF TrueValue, TrueCube
<1> QED BY <1>9 DEF r

LEMMA CubeInitInv == CubeInit => CubeInv
<1> SUFFICES ASSUME CubeInit PROVE CubeInv
    OBVIOUS
<1>1. mixed = FALSE
    BY DEF CubeInit
<1>2. Cardinality(Times) \in Nat
    BY CubeAssumption, FS_CardinalityType
<1>3. TrueValue(value, FALSE)
  <2>1. PICK B \in BandSets, times \in SetToSeqs(Times), dated \in BOOLEAN :
          value = Loaded(B, times, dated, CHOOSE box \in Boxes : Ordered(box))
      BY DEF CubeInit
  <2>2. times \in [1..Cardinality(Times) -> Times]
      BY CubeAssumption DEF SetToSeqs
  <2>3. (CHOOSE box \in Boxes : Ordered(box)) \in Extents
      BY DEF Extents
  <2> QED BY <1>2, <2>1, <2>2, <2>3, LoadedIsTrue
<1>4. TrueValue(other, FALSE)
  <2> DEFINE some == CHOOSE t \in Times : TRUE
  <2>1. PICK B \in BandSets, n \in 1..Cardinality(Times), box \in {b \in Boxes : Ordered(b)} :
          other = Loaded(B, [i \in 1..n |-> some], FALSE, box)
      BY DEF CubeInit
  <2>2. Times # {}
    <3>1. Cardinality({}) = 0
        BY FS_EmptySet
    <3> QED BY <1>2, <2>1, <3>1
  <2>3. some \in Times
      BY <2>2
  <2> HIDE DEF some
  <2>4. [i \in 1..n |-> some] \in [1..n -> Times] /\ n \in Nat /\ box \in Extents
      BY <1>2, <2>3, CubeAssumption DEF Extents
  <2> QED BY <2>1, <2>4, LoadedIsTrue
<1> QED BY <1>1, <1>3, <1>4 DEF CubeInv

\* A process that answers what is true, or fails.
LEMMA ComputeIsTrue ==
    ASSUME CubeInv, NEW r, TrueValue(r, mixed), Compute(r) \/ Answered(r), UNCHANGED mixed
    PROVE  CubeInv'
<1>1. value' \in {r, Backend} /\ other' = other /\ mixed' = mixed
    BY DEF Compute, Answered
<1> QED BY <1>1, ErrorsAreTrue DEF CubeInv

LEMMA CubeNextInv == CubeInv /\ [CubeNext]_cubeVars => CubeInv'
<1> SUFFICES ASSUME CubeInv, [CubeNext]_cubeVars PROVE CubeInv'
    OBVIOUS
<1>0. TrueValue(value, mixed) /\ TrueValue(other, mixed) /\ mixed \in BOOLEAN
    BY DEF CubeInv
<1>1. CASE filter_temporal
    BY <1>0, <1>1, FilterTemporalIsTrue, ComputeIsTrue DEF filter_temporal
<1>2. CASE filter_bbox
  <2>1. PICK box \in Boxes : Compute(eval_filter_bbox(value, box)) /\ UNCHANGED mixed
      BY <1>2 DEF filter_bbox
  <2>2. box \in Extents
      BY DEF Extents
  <2>3. TrueValue(eval_filter_bbox(value, box), mixed)
      BY <1>0, <2>2, RecropIsTrue, ErrorsAreTrue DEF eval_filter_bbox
  <2> QED BY <2>1, <2>3, ComputeIsTrue
<1>3. CASE filter_spatial
  <2>1. PICK g \in Geometries : Compute(eval_filter_spatial(value, g)) /\ UNCHANGED mixed
      BY <1>3 DEF filter_spatial
  <2>2. geojson_bbox(g) \in Extents
      BY <2>1 DEF Extents
  <2>3. TrueValue(eval_filter_spatial(value, g), mixed)
      BY <1>0, <2>2, RecropIsTrue, ErrorsAreTrue DEF eval_filter_spatial
  <2> QED BY <2>1, <2>3, ComputeIsTrue
<1>4. CASE filter_bands
    BY <1>0, <1>4, FilterBandsIsTrue, ComputeIsTrue DEF filter_bands
<1>5. CASE rename_labels
  <2>1. PICK target \in NameLists, source \in NameLists \cup {Absent}, dimension \in {"bands", "t"} :
          Answered(eval_rename_labels(value, dimension, target, source)) /\ UNCHANGED mixed
      BY <1>5 DEF rename_labels
  <2>2. target \in Seq(STRING) /\ (source = Absent \/ source \in Seq(STRING))
      BY <2>1, CubeAssumption
  <2>3. TrueValue(eval_rename_labels(value, dimension, target, source), mixed)
      BY <1>0, <2>2, RenameLabelsIsTrue
  <2> QED BY <2>1, <2>3, ComputeIsTrue
<1>6. CASE add_dimension
    BY <1>0, <1>6, DimensionsAreTrue, ComputeIsTrue DEF add_dimension
<1>7. CASE drop_dimension
    BY <1>0, <1>7, DimensionsAreTrue, ComputeIsTrue DEF drop_dimension
<1>8. CASE reduce_dimension
    BY <1>0, <1>8, ReduceIsTrue, ComputeIsTrue DEF reduce_dimension
<1>9. CASE apply
    BY <1>0, <1>9, ApplyIsTrue, ComputeIsTrue DEF apply
<1>10. CASE ndvi
    BY <1>0, <1>10, NdviIsTrue, ComputeIsTrue DEF ndvi
<1>11. CASE resample_spatial
    BY <1>0, <1>11, ResampleIsTrue, ComputeIsTrue DEF resample_spatial
<1>12. CASE branch
    BY <1>0, <1>12 DEF branch, CubeInv
<1>13. CASE merge_cubes
  <2> DEFINE w == mixed \/ (value.kind = "cube" /\ other.kind = "cube"
                             /\ (Lengths(value) # Lengths(other) \/ Areas(value) # Areas(other)))
  <2>1. PICK resolver \in BOOLEAN : Compute(eval_merge_cubes(value, other, resolver)) /\ mixed' = w
      BY <1>13 DEF merge_cubes
  <2>2. w \in BOOLEAN /\ (mixed => w) /\ (value.kind = "cube" /\ other.kind = "cube" /\ ~w => ~mixed /\ Alike(value, other))
      BY <1>0 DEF Alike
  <2> HIDE DEF w
  <2>3. TrueValue(eval_merge_cubes(value, other, resolver), w)
      BY <1>0, <2>2, MergeIsTrue
  <2>4. TrueValue(other, w)
    <3>1. w = mixed \/ w = TRUE
        BY <1>0, <2>2
    <3> QED BY <1>0, <3>1, MixedClaimsLess
  <2>5. value' \in {eval_merge_cubes(value, other, resolver), Backend} /\ other' = other
      BY <2>1 DEF Compute, Answered
  <2>6. TrueValue(value', w) /\ TrueValue(other', w)
      BY <2>3, <2>4, <2>5, ErrorsAreTrue
  <2> QED BY <2>1, <2>2, <2>6 DEF CubeInv
<1>14. CASE UNCHANGED cubeVars
    BY <1>0, <1>14 DEF cubeVars, CubeInv
<1> QED BY <1>1, <1>2, <1>3, <1>4, <1>5, <1>6, <1>7, <1>8, <1>9, <1>10, <1>11, <1>12, <1>13, <1>14 DEF CubeNext

LEMMA TrueCubesSayTheTruth == CubeInv => CubesStayTrue
<1> SUFFICES ASSUME CubeInv, value.kind \in {"cube", "raster"}
             PROVE  ConvertedOnce(value) /\ (value.kind = "cube" => TimesFollowScenes(value) /\ StatedIsTrue(value))
    BY DEF CubesStayTrue
<1>0. \A f \in File : 2 \notin f.units
    BY DEF File
<1>1. CASE value.kind = "raster"
  <2>1. value.path \in File
      BY <1>1 DEF CubeInv, TrueValue
  <2> QED BY <1>0, <1>1, <2>1 DEF ConvertedOnce, Files
<1>2. CASE value.kind = "cube"
  <2>1. TrueCube(value, mixed) /\ \A b \in DOMAIN value.bands : value.bands[b] \in Seq(File)
      BY <1>2 DEF CubeInv, TrueValue, TrueCube, Typed
  <2>2. \A f \in Files(value) : \E b \in DOMAIN value.bands : \E i \in 1..Len(value.bands[b]) : f = value.bands[b][i]
    <3>1. Files(value) = UNION {Range(value.bands[b]) : b \in DOMAIN value.bands}
        BY <1>2 DEF Files
    <3>2. \A b \in DOMAIN value.bands : DOMAIN value.bands[b] = 1..Len(value.bands[b])
        BY <2>1
    <3> QED BY <3>1, <3>2 DEF Range
  <2>3. ConvertedOnce(value)
    <3>1. \A f \in Files(value) : f \in File
        BY <2>1, <2>2
    <3> QED BY <1>0, <3>1 DEF ConvertedOnce
  <2>4. TimesFollowScenes(value)
    <3>1. \A b \in DOMAIN value.bands : DOMAIN value.bands[b] = 1..Len(value.bands[b])
        BY <2>1
    <3> QED BY <2>1, <3>1 DEF TrueCube, Dated, TimesFollowScenes
  <2>5. value.layer_names # Absent => Range(value.layer_names) \subseteq DOMAIN value.bands
      BY <2>1 DEF TrueCube, Named
  <2>6. ~mixed /\ value.scene_count # Absent => Lengths(value) \subseteq {value.scene_count}
      BY <2>1 DEF TrueCube, Sized, Lengths
  <2>7. ~mixed /\ value.bbox # Absent => \A f \in Files(value) : f.area = {value.bbox}
      BY <2>1, <2>2 DEF TrueCube, Placed
  <2> QED BY <2>3, <2>4, <2>5, <2>6, <2>7 DEF StatedIsTrue
<1> QED BY <1>1, <1>2

\* For chains of any length over any collections, dates, areas and labels, with
\* failures in between: datetimes, scene_count, bbox and layer_names of a cube
\* are true of its files, and no file is converted to physical units twice
\* (eval_cube_ops.rs, eval_misc.rs, eval_reduce.rs, eval_apply.rs).  `layers' and
\* `times' are not claimed, nor counts and area once unlike cubes were merged.
THEOREM CubesNeverMisstateTheirFiles == CubeSpec => []CubesStayTrue
BY CubeInitInv, CubeNextInv, TrueCubesSayTheTruth, PTL DEF CubeSpec
=============================================================================
