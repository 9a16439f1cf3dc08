--------------------------- MODULE EtlEngineProofs ---------------------------
(***************************************************************************)
(* Proofs about EtlEngine for any pipelines, frames, batch and channel     *)
(* sizes, faults and restarts.                                             *)
(***************************************************************************)
EXTENDS EtlEngine, FiniteSetTheorems, FunctionTheorems, WellFoundedInduction, TLAPS

\* Everything the loop has passed is in the table.
PrefixLoaded ==
    \A j \in Jobs : \A i \in 1 .. at[j] : Loaded(j, i)

\* The loop was left at the end of the frame before anything says completed.
CompletedAtEnd ==
    \A j \in Jobs :
        \/ pc[j] = "markCompleted"
        \/ memState[j] = "completed"
        \/ dbState[j] = "completed"
        => at[j] = Len(Frame[j])

LoadInv == TypeOK /\ PrefixLoaded /\ CompletedAtEnd

-----------------------------------------------------------------------------
\* A nonempty set of naturals has a least element.
LEMMA LeastElement ==
    ASSUME NEW S, S \subseteq Nat, S # {}
    PROVE  \E m \in S : \A n \in S : m <= n
<1>1. \E m \in S : \A n \in S : ~ (n < m)
  <2>1. PICK m \in S : \A n \in S : ~ (<<n, m>> \in OpToRel(<, Nat))
    BY NatLessThanWellFounded, WFMin, Zenon
  <2>2. \A n \in S : <<n, m>> \in Nat \X Nat /\ <<n, m>>[1] = n /\ <<n, m>>[2] = m
    OBVIOUS
  <2>3. \A n \in S : ~ (n < m)
    BY <2>1, <2>2, Zenon DEF OpToRel
  <2> QED
    BY <2>3
<1> QED
  BY <1>1

\* A row the transaction skips has its key in the table afterwards: the first
\* row of the chunk with that key was inserted, or skipped for an older row.
LEMMA ChunkIsLoaded ==
    ASSUME NEW j \in Jobs, at \in [Jobs -> Nat],
           table' = table \cup (Chunk(j) \ Conflicts(j)),
           NEW i \in (at[j] + 1) .. ChunkEnd(j)
    PROVE  Loaded(j, i)'
<1> DEFINE S == {n \in (at[j] + 1) .. ChunkEnd(j) : Frame[j][n] = Frame[j][i]}
<1>0. at[j] \in Nat /\ ChunkEnd(j) \in Int
  BY ConstantsAssumption DEF ChunkEnd
<1>1. S \subseteq Nat /\ i \in S
  BY <1>0
<1>2. PICK m \in S : \A n \in S : m <= n
  BY <1>1, LeastElement, Zenon
<1>3. <<j, m>> \in Chunk(j) /\ m \in Nat /\ KeyOf(<<j, m>>) = Frame[j][i]
  BY <1>0, <1>2 DEF Chunk, KeyOf
<1>4. ASSUME NEW old \in Chunk(j), old[2] < m, KeyOf(old) = Frame[j][i]
      PROVE  FALSE
  <2>1. PICK n \in (at[j] + 1) .. ChunkEnd(j) : old = <<j, n>>
    BY DEF Chunk
  <2>2. n \in S
    BY <1>4, <2>1 DEF KeyOf
  <2> QED
    BY <1>0, <1>2, <1>4, <2>1, <2>2
<1>5. CASE <<j, m>> \notin Conflicts(j)
  BY <1>3, <1>5 DEF Loaded, KeyOf
<1>6. CASE <<j, m>> \in Conflicts(j)
  <2>1. \E old \in table : KeyOf(old) = KeyOf(<<j, m>>)
    BY <1>3, <1>4, <1>6 DEF Conflicts
  <2> QED
    BY <1>3, <2>1 DEF Loaded, KeyOf
<1> QED
  BY <1>5, <1>6

\* What was loaded stays loaded: no step removes a row.
LEMMA LoadedStays ==
    ASSUME NEW j \in Jobs, NEW i, Loaded(j, i), table \subseteq table'
    PROVE  Loaded(j, i)'
BY DEF Loaded, KeyOf

-----------------------------------------------------------------------------
(* Type correctness.                                                       *)

LEMMA TypeInit == Init => TypeOK
BY ConstantsAssumption DEF Init, TypeOK, JobState, Pc, LivePc, EventKind, Row

\* Every position of the chunk is a position of the frame.
LEMMA ChunkIsTyped ==
    ASSUME NEW j \in Jobs, at \in [Jobs -> Nat], at[j] <= Len(Frame[j])
    PROVE  /\ Chunk(j) \subseteq Row
           /\ ChunkEnd(j) \in Nat
           /\ at[j] <= ChunkEnd(j)
           /\ ChunkEnd(j) <= Len(Frame[j])
           /\ IsFiniteSet(Chunk(j))
<1>1. at[j] \in Nat /\ Len(Frame[j]) \in Nat /\ BatchSize \in Nat
  BY ConstantsAssumption
<1>2. ChunkEnd(j) \in Nat /\ at[j] <= ChunkEnd(j) /\ ChunkEnd(j) <= Len(Frame[j])
  BY <1>1 DEF ChunkEnd
<1>3. Chunk(j) \subseteq Row
  BY <1>1, <1>2 DEF Chunk, Row
<1>4. IsFiniteSet(Chunk(j))
  <2>1. IsFiniteSet((at[j] + 1) .. ChunkEnd(j))
    BY <1>1, <1>2, FS_Interval
  <2> QED
    <3> DEFINE f == [i \in (at[j] + 1) .. ChunkEnd(j) |-> <<j, i>>]
    <3>1. f \in [(at[j] + 1) .. ChunkEnd(j) -> Chunk(j)]
      BY DEF Chunk
    <3>2. \A row \in Chunk(j) : \E i \in (at[j] + 1) .. ChunkEnd(j) : f[i] = row
      BY DEF Chunk
    <3>3. f \in Surjection((at[j] + 1) .. ChunkEnd(j), Chunk(j))
      BY <3>1, <3>2, Zenon DEF Surjection
    <3> QED
      BY <2>1, <3>3, FS_Surjection, Zenon
<1> QED
  BY <1>2, <1>3, <1>4

\* A step of a task leaves the program counters typed.
LEMMA GotoTyped ==
    ASSUME pc \in [Jobs -> Pc], NEW j, NEW from, NEW to \in Pc, Goto(j, from, to)
    PROVE  pc' \in [Jobs -> Pc]
BY DEF Goto

\* The helpers that all of the mark_* operations share.
LEMMA MarkTyped ==
    ASSUME TypeOK, NEW j \in Jobs, NEW s \in JobState, NEW from, NEW ok \in Pc,
           NEW failed \in Pc, mark(j, s, from, ok, failed),
           memRows' \in [Jobs -> Nat], dbRows' \in [Jobs -> Nat]
    PROVE  TypeOK'
<1>1. pc' \in [Jobs -> Pc]
  BY GotoTyped DEF mark, TypeOK
<1>2. memState' \in [Jobs -> JobState \cup {"absent"}] /\ dbState' \in [Jobs -> JobState \cup {"absent"}]
  BY DEF mark, TypeOK
<1>3. UNCHANGED <<cancels, tableVars, loopVars, clientVars, overrun, restarts>>
  BY DEF mark
<1> QED
  BY <1>1, <1>2, <1>3 DEF TypeOK, tableVars, loopVars, clientVars

LEMMA TypeStep == TypeOK /\ [Next]_vars => TypeOK'
<1> SUFFICES ASSUME TypeOK, [Next]_vars PROVE TypeOK'
  OBVIOUS
<1>1. CASE UNCHANGED vars
  BY <1>1 DEF vars, recordVars, tableVars, loopVars, clientVars, TypeOK
<1>2. CASE Restart
  BY <1>2, ConstantsAssumption DEF Restart, tableVars, loopVars, Pc, LivePc, TypeOK
<1>3. ASSUME NEW j \in Jobs, run(j) \/ cancel_job(j) PROVE TypeOK'
  BY <1>3 DEF run, cancel_job, Goto, recordVars, tableVars, loopVars, clientVars, JobState, Pc,
     LivePc, TypeOK
<1>4. ASSUME NEW j \in Jobs, Receive(j) PROVE TypeOK'
  <2>1. channel[j] \in Seq(EventKind) /\ channel[j] # << >> /\ Len(channel[j]) <= ChannelCap
    BY <1>4 DEF Receive, TypeOK
  <2>2. /\ Head(channel[j]) \in EventKind
        /\ Tail(channel[j]) \in Seq(EventKind)
        /\ Len(Tail(channel[j])) <= ChannelCap
    BY <2>1, ConstantsAssumption
  <2>3. /\ channel' = [channel EXCEPT ![j] = Tail(channel[j])]
        /\ heard' = [heard EXCEPT ![j] = Head(channel[j])]
        /\ UNCHANGED <<recordVars, cancels, tableVars, pc, loopVars, stream, overrun, restarts>>
    BY <1>4 DEF Receive
  <2> QED
    BY <2>2, <2>3 DEF recordVars, tableVars, loopVars, TypeOK
<1>5. ASSUME NEW j \in Jobs, CloseStream(j) PROVE TypeOK'
  BY <1>5, ConstantsAssumption DEF CloseStream, recordVars, tableVars, loopVars, TypeOK
<1>6. ASSUME NEW j \in Jobs, NEW kind \in EventKind, NEW from, NEW to \in Pc,
             send(j, kind, from, to)
      PROVE  TypeOK'
  <2>1. pc' \in [Jobs -> Pc]
    BY <1>6, GotoTyped DEF send, TypeOK
  <2>2. channel[j] \in Seq(EventKind)
    BY DEF TypeOK
  <2>3. ASSUME Len(channel[j]) < ChannelCap
        PROVE  /\ Append(channel[j], kind) \in Seq(EventKind)
               /\ Len(Append(channel[j], kind)) <= ChannelCap
    BY <2>2, <2>3, ConstantsAssumption
  <2>4. \/ channel' = channel
        \/ Len(channel[j]) < ChannelCap /\ channel' = [channel EXCEPT ![j] = Append(channel[j], kind)]
    BY <1>6 DEF send
  <2>5. /\ channel' \in [Jobs -> Seq(EventKind)]
        /\ \A k \in Jobs : Len(channel'[k]) <= ChannelCap
    BY <2>3, <2>4 DEF TypeOK
  <2>6. UNCHANGED <<recordVars, cancels, tableVars, loopVars, stream, heard, overrun, restarts>>
    BY <1>6 DEF send
  <2> QED
    BY <2>1, <2>5, <2>6 DEF recordVars, tableVars, loopVars, TypeOK
<1>7. ASSUME NEW j \in Jobs, mark_running(j) \/ mark_failed(j) \/ mark_cancelled(j)
      PROVE  TypeOK'
  <2>1. \/ mark(j, "running", "markRunning", "sendStarted", "endFailed")
        \/ mark(j, "failed", "markFailed", "sendFailed", "sendFailed")
        \/ mark(j, "cancelled", "markCancelled", "sendCancelled", "sendCancelled")
    BY <1>7 DEF mark_running, mark_failed, mark_cancelled
  <2>2. memRows' \in [Jobs -> Nat] /\ dbRows' \in [Jobs -> Nat]
    BY <1>7 DEF mark_running, mark_failed, mark_cancelled, TypeOK
  <2>3. /\ {"running", "failed", "cancelled"} \subseteq JobState
        /\ {"sendStarted", "sendFailed", "sendCancelled", "endFailed"} \subseteq Pc
    BY DEF JobState, Pc, LivePc
  <2> QED
    BY <2>1, <2>2, <2>3, MarkTyped
<1>8. ASSUME NEW j \in Jobs, mark_completed(j) PROVE TypeOK'
  <2>1. mark(j, "completed", "markCompleted", "sendCompleted", "endFailed")
    BY <1>8 DEF mark_completed
  <2>2. memRows' \in [Jobs -> Nat] /\ dbRows' \in [Jobs -> Nat]
    BY <1>8 DEF mark_completed, TypeOK
  <2>3. "completed" \in JobState /\ "sendCompleted" \in Pc /\ "endFailed" \in Pc
    BY DEF JobState, Pc, LivePc
  <2> QED
    BY <2>1, <2>2, <2>3, MarkTyped
<1>9. ASSUME NEW j \in Jobs, bump_progress(j) PROVE TypeOK'
  <2>1. pc' \in [Jobs -> Pc]
    BY <1>9, GotoTyped DEF bump_progress, TypeOK, Pc, LivePc
  <2>2. memRows' \in [Jobs -> Nat] /\ dbRows' \in [Jobs -> Nat]
    BY <1>9 DEF bump_progress, TypeOK
  <2>3. UNCHANGED <<memState, dbState, cancels, tableVars, loopVars, clientVars, overrun, restarts>>
    BY <1>9 DEF bump_progress
  <2> QED
    BY <2>1, <2>2, <2>3 DEF tableVars, loopVars, clientVars, TypeOK
<1>10. ASSUME NEW j \in Jobs,
             read_source(j) \/ QueryReturns(j) \/ QueryTimeout(j) \/ ensure_table(j)
               \/ CheckCancelled(j) \/ Loop(j)
      PROVE  TypeOK'
  <2>1. \E from, to : to \in Pc /\ Goto(j, from, to)
    <3>1. {"query", "endFailed", "table", "check", "endCancelled", "loop", "markCompleted", "insert"} \subseteq Pc
      BY DEF Pc, LivePc
    <3> QED
      BY <1>10, <3>1 DEF read_source, QueryReturns, QueryTimeout, ensure_table, CheckCancelled, Loop
  <2>2. pc' \in [Jobs -> Pc]
    BY <2>1, GotoTyped DEF TypeOK
  <2>3. ExecFrame /\ table' = table /\ mode' \in {"absent", "plain", "unique"}
    BY <1>10 DEF read_source, QueryReturns, QueryTimeout, ensure_table, CheckCancelled, Loop,
       tableVars, TypeOK
  <2> QED
    BY <2>2, <2>3 DEF ExecFrame, recordVars, loopVars, clientVars, TypeOK
<1>11. ASSUME NEW j \in Jobs, NEW from, NEW to \in Pc, EndExecute(j, from, to) PROVE TypeOK'
  BY <1>11 DEF EndExecute, Goto, recordVars, tableVars, loopVars, clientVars, TypeOK
<1>12. ASSUME NEW j \in Jobs, insert_chunk(j) PROVE TypeOK'
  <2>1. /\ Chunk(j) \subseteq Row /\ ChunkEnd(j) \in Nat /\ ChunkEnd(j) <= Len(Frame[j])
        /\ IsFiniteSet(Chunk(j))
    BY ChunkIsTyped DEF TypeOK
  <2>2. Cardinality(Chunk(j) \ Conflicts(j)) \in Nat
    BY <2>1, FS_Difference, FS_CardinalityType
  <2>3. pc' \in [Jobs -> Pc]
    BY <1>12, GotoTyped DEF insert_chunk, TypeOK, Pc, LivePc
  <2>4. table' \subseteq Row
    BY <1>12, <2>1 DEF insert_chunk, TypeOK
  <2>5. at' \in [Jobs -> Nat] /\ \A k \in Jobs : at'[k] <= Len(Frame[k])
    BY <1>12, <2>1 DEF insert_chunk, TypeOK
  <2>6. written' \in [Jobs -> Nat] /\ overrun' \in [Jobs -> Nat]
    <3>1. written' = written \/ \E n \in Nat : written' = [written EXCEPT ![j] = @ + n]
      BY <1>12, <2>2 DEF insert_chunk
    <3>2. overrun' = overrun \/ \E n \in Nat : overrun' = [overrun EXCEPT ![j] = @ + n]
      <4> DEFINE late == IF cancels[j] = "set" THEN 1 ELSE 0
      <4>1. late \in Nat
        OBVIOUS
      <4>2. overrun' = overrun \/ overrun' = [overrun EXCEPT ![j] = @ + late]
        BY <1>12 DEF insert_chunk
      <4> HIDE DEF late
      <4> QED
        BY <4>1, <4>2
    <3>3. written \in [Jobs -> Nat] /\ overrun \in [Jobs -> Nat]
      BY DEF TypeOK
    <3> QED
      BY <3>1, <3>2, <3>3
  <2>7. UNCHANGED <<recordVars, cancels, mode, clientVars, restarts>>
    BY <1>12 DEF insert_chunk
  <2> QED
    BY <2>3, <2>4, <2>5, <2>6, <2>7 DEF recordVars, clientVars, TypeOK
<1>13. ASSUME NEW j \in Jobs, TaskStep(j) PROVE TypeOK'
  <2>1. EventKind = {"started", "progress", "completed", "failed", "cancelled"}
    BY DEF EventKind
  <2> QED
    BY <1>6, <1>7, <1>8, <1>9, <1>10, <1>11, <1>12, <1>13, <2>1 DEF TaskStep, Pc, LivePc
<1> QED
  BY <1>1, <1>2, <1>3, <1>4, <1>5, <1>10, <1>13 DEF Next

\* Every variable of the engine keeps its type, the event channel never exceeds
\* its capacity and no loop passes the end of its frame.
THEOREM TypeCorrect == Spec => []TypeOK
BY TypeInit, TypeStep, PTL DEF Spec

-----------------------------------------------------------------------------
(* Completed means loaded.                                                 *)

\* Only insert_chunk touches the table's rows and the loop's position.
LEMMA OnlyInsertLoads ==
    ASSUME [Next]_vars
    PROVE  \/ table' = table /\ at' = at
           \/ \E j \in Jobs : insert_chunk(j)
<1> USE DEF vars, recordVars, tableVars, loopVars, clientVars
<1>1. CASE UNCHANGED vars
  BY <1>1
<1>2. CASE Restart
  BY <1>2 DEF Restart
<1>3. ASSUME NEW j \in Jobs,
             \/ run(j) \/ cancel_job(j) \/ Receive(j) \/ CloseStream(j)
             \/ QueryReturns(j) \/ QueryTimeout(j)
      PROVE  table' = table /\ at' = at
  BY <1>3 DEF run, cancel_job, Receive, CloseStream, QueryReturns, QueryTimeout, ExecFrame
<1>4. ASSUME NEW j \in Jobs, TaskStep(j), ~insert_chunk(j)
      PROVE  table' = table /\ at' = at
  BY <1>4 DEF TaskStep, mark_running, mark_completed, mark_failed, mark_cancelled, mark, send,
     read_source, ensure_table, CheckCancelled, Loop, bump_progress, EndExecute, ExecFrame
<1> QED
  BY <1>1, <1>2, <1>3, <1>4 DEF Next

\* A state becomes completed only from mark_completed, which the loop reaches
\* only at the end of its frame.
LEMMA CompletedOrigin ==
    ASSUME TypeOK, [Next]_vars, NEW k \in Jobs
    PROVE  /\ memState'[k] = "completed" => memState[k] = "completed" \/ pc[k] = "markCompleted"
           /\ dbState'[k] = "completed" => dbState[k] = "completed" \/ pc[k] = "markCompleted"
           /\ pc'[k] = "markCompleted" => pc[k] = "markCompleted" \/ at[k] >= Len(Frame[k])
<1>t. /\ memState \in [Jobs -> JobState \cup {"absent"}]
      /\ dbState \in [Jobs -> JobState \cup {"absent"}]
      /\ pc \in [Jobs -> Pc]
  BY DEF TypeOK
<1> USE <1>t DEF recordVars, tableVars, loopVars, clientVars, Goto
<1>1. CASE UNCHANGED vars
  BY <1>1 DEF vars
<1>2. CASE Restart
  BY <1>2 DEF Restart, LivePc
<1>3. ASSUME NEW j \in Jobs,
             \/ run(j) \/ cancel_job(j) \/ Receive(j) \/ CloseStream(j)
             \/ QueryReturns(j) \/ QueryTimeout(j)
      PROVE  /\ memState'[k] = "completed" => memState[k] = "completed"
             /\ dbState'[k] = "completed" => dbState[k] = "completed"
             /\ pc'[k] = "markCompleted" => pc[k] = "markCompleted"
  BY <1>3 DEF run, cancel_job, Receive, CloseStream, QueryReturns, QueryTimeout, ExecFrame
<1>4. ASSUME NEW j \in Jobs, mark_completed(j) \/ Loop(j)
      PROVE  /\ memState'[k] = "completed" => memState[k] = "completed" \/ pc[k] = "markCompleted"
             /\ dbState'[k] = "completed" => dbState[k] = "completed" \/ pc[k] = "markCompleted"
             /\ pc'[k] = "markCompleted" => pc[k] = "markCompleted" \/ at[k] >= Len(Frame[k])
  BY <1>4 DEF mark_completed, mark, Loop, ExecFrame
<1>5. ASSUME NEW j \in Jobs, TaskStep(j), ~mark_completed(j), ~Loop(j)
      PROVE  /\ memState'[k] = "completed" => memState[k] = "completed"
             /\ dbState'[k] = "completed" => dbState[k] = "completed"
             /\ pc'[k] = "markCompleted" => pc[k] = "markCompleted"
  <2>1. CASE mark_running(j) \/ mark_failed(j) \/ mark_cancelled(j)
    BY <2>1 DEF mark_running, mark_failed, mark_cancelled, mark
  <2>2. CASE read_source(j) \/ ensure_table(j) \/ CheckCancelled(j) \/ insert_chunk(j) \/ bump_progress(j)
    BY <2>2 DEF read_source, ensure_table, CheckCancelled, insert_chunk, bump_progress, ExecFrame
  <2>3. CASE \E kind, from, to : to # "markCompleted" /\ (send(j, kind, from, to) \/ EndExecute(j, from, to))
    BY <2>3 DEF send, EndExecute
  <2> QED
    BY <1>5, <2>1, <2>2, <2>3 DEF TaskStep
<1> QED
  BY <1>1, <1>2, <1>3, <1>4, <1>5 DEF Next

LEMMA LoadStep == LoadInv /\ [Next]_vars => LoadInv'
<1> SUFFICES ASSUME LoadInv, [Next]_vars PROVE LoadInv'
  OBVIOUS
<1>0. TypeOK /\ TypeOK'
  BY TypeStep DEF LoadInv
<1>1. CASE table' = table /\ at' = at
  <2>1. PrefixLoaded'
    BY <1>1 DEF LoadInv, PrefixLoaded, Loaded, KeyOf
  <2>2. ASSUME NEW k \in Jobs,
               pc'[k] = "markCompleted" \/ memState'[k] = "completed" \/ dbState'[k] = "completed"
        PROVE  at'[k] = Len(Frame[k])
    <3>1. at[k] \in Nat /\ at[k] <= Len(Frame[k]) /\ Len(Frame[k]) \in Nat
      BY <1>0, ConstantsAssumption DEF TypeOK
    <3> QED
      BY <1>0, <1>1, <2>2, <3>1, CompletedOrigin DEF LoadInv, CompletedAtEnd
  <2> QED
    BY <1>0, <2>1, <2>2 DEF LoadInv, CompletedAtEnd
<1>2. ASSUME NEW j \in Jobs, insert_chunk(j), ~(table' = table /\ at' = at) PROVE LoadInv'
  <2>1. /\ table' = table \cup (Chunk(j) \ Conflicts(j))
        /\ at' = [at EXCEPT ![j] = ChunkEnd(j)]
        /\ at \in [Jobs -> Nat]
        /\ memState' = memState /\ dbState' = dbState
        /\ pc' = [pc EXCEPT ![j] = "bump"] /\ pc \in [Jobs -> Pc]
    BY <1>0, <1>2 DEF insert_chunk, Goto, recordVars, TypeOK
  <2>2. /\ at[j] \in Nat /\ at[j] <= Len(Frame[j]) /\ Len(Frame[j]) \in Nat
        /\ ChunkEnd(j) \in Nat /\ at[j] <= ChunkEnd(j) /\ ChunkEnd(j) <= Len(Frame[j])
    BY <1>0, ChunkIsTyped, ConstantsAssumption DEF TypeOK
  <2>3. ASSUME NEW k \in Jobs, NEW i \in 1 .. at'[k] PROVE Loaded(k, i)'
    <3>1. CASE i \in 1 .. at[k]
      BY <2>1, <3>1, LoadedStays DEF LoadInv, PrefixLoaded
    <3>2. CASE i \notin 1 .. at[k]
      <4>1. k = j /\ i \in (at[j] + 1) .. ChunkEnd(j)
        BY <2>1, <2>2, <3>2
      <4> QED
        BY <2>1, <4>1, ChunkIsLoaded
    <3> QED
      BY <3>1, <3>2
  <2>4. ASSUME NEW k \in Jobs,
               pc'[k] = "markCompleted" \/ memState'[k] = "completed" \/ dbState'[k] = "completed"
        PROVE  at'[k] = Len(Frame[k])
    <3>1. at[k] = Len(Frame[k])
      BY <2>1, <2>4 DEF LoadInv, CompletedAtEnd
    <3> QED
      BY <2>1, <2>2, <3>1
  <2> QED
    BY <1>0, <2>3, <2>4 DEF LoadInv, PrefixLoaded, CompletedAtEnd
<1> QED
  BY <1>1, <1>2, OnlyInsertLoads

\* A pipeline reported completed, by the map or by the table of jobs, has every
\* row of its frame (or a row with the same key) in the destination table.
THEOREM CompletedPipelinesAreLoaded == Spec => []CompletedIsLoaded
<1>1. Init => LoadInv
  <2> SUFFICES ASSUME Init PROVE LoadInv
    OBVIOUS
  <2>1. PrefixLoaded /\ CompletedAtEnd
    BY DEF Init, PrefixLoaded, CompletedAtEnd
  <2> QED
    BY <2>1, TypeInit DEF LoadInv
<1>2. LoadInv => CompletedIsLoaded
  BY DEF LoadInv, PrefixLoaded, CompletedAtEnd, CompletedIsLoaded
<1> QED
  BY <1>1, <1>2, LoadStep, PTL DEF Spec

-----------------------------------------------------------------------------
(* Outcomes and cancellation.                                              *)

\* A terminal row belongs to a task that writes no state any more, and
\* Completed is announced only on top of a completed row.
OutcomeOf(k) ==
    /\ dbState[k] = "completed" => /\ pc[k] \in {"sendCompleted", "endOk", "done"}
                                   /\ memState[k] \in {"completed", "absent"}
    /\ dbState[k] = "failed" => pc[k] \in {"sendFailed", "done"}
    /\ dbState[k] = "cancelled" => pc[k] \in {"sendCancelled", "done"}
    /\ pc[k] \in {"sendCompleted", "endOk"} => dbState[k] = "completed"
    /\ heard[k] = "completed" => dbState[k] = "completed"
    /\ \A n \in 1 .. Len(channel[k]) :
          channel[k][n] = "completed" => dbState[k] = "completed"

\* A batch inserted after the cancel leaves the task on its way out.
OverrunOf(k) ==
    /\ overrun[k] \in {0, 1}
    /\ overrun[k] = 1 =>
         \/ pc[k] \in {"bump", "sendProgress", "loop"} /\ cancels[k] = "set"
         \/ pc[k] \in {"markCompleted", "sendCompleted", "endOk", "endFailed", "endCancelled",
                      "markFailed", "markCancelled", "sendFailed", "sendCancelled", "done"}

OutcomeInv == \A k \in Jobs : OutcomeOf(k) /\ OverrunOf(k)

\* What a step of one pipeline leaves alone in another.
LEMMA OthersUntouched ==
    ASSUME TypeOK, NEW j \in Jobs, NEW k \in Jobs, j # k,
           \/ run(j) \/ cancel_job(j) \/ Receive(j) \/ CloseStream(j)
           \/ QueryReturns(j) \/ QueryTimeout(j) \/ TaskStep(j)
    PROVE  /\ dbState'[k] = dbState[k] /\ memState'[k] = memState[k] /\ pc'[k] = pc[k]
           /\ heard'[k] = heard[k] /\ channel'[k] = channel[k] /\ overrun'[k] = overrun[k]
           /\ cancels'[k] = cancels[k]
<1>t. /\ memState \in [Jobs -> JobState \cup {"absent"}]
      /\ dbState \in [Jobs -> JobState \cup {"absent"}]
      /\ pc \in [Jobs -> Pc] /\ heard \in [Jobs -> EventKind \cup {"none"}]
      /\ channel \in [Jobs -> Seq(EventKind)] /\ overrun \in [Jobs -> Nat]
      /\ cancels \in [Jobs -> {"absent", "unset", "set"}]
  BY DEF TypeOK
<1> USE <1>t DEF recordVars, tableVars, loopVars, clientVars, Goto
<1>1. CASE run(j) \/ cancel_job(j) \/ Receive(j) \/ CloseStream(j) \/ QueryReturns(j) \/ QueryTimeout(j)
  BY <1>1 DEF run, cancel_job, Receive, CloseStream, QueryReturns, QueryTimeout, ExecFrame
<1>2. CASE mark_running(j) \/ mark_failed(j) \/ mark_cancelled(j) \/ mark_completed(j)
  BY <1>2 DEF mark_running, mark_failed, mark_cancelled, mark_completed, mark
<1>3. CASE read_source(j) \/ ensure_table(j) \/ CheckCancelled(j) \/ Loop(j)
  BY <1>3 DEF read_source, ensure_table, CheckCancelled, Loop, ExecFrame
<1>4. CASE insert_chunk(j) \/ bump_progress(j)
  BY <1>4 DEF insert_chunk, bump_progress
<1>5. CASE \E kind, from, to : send(j, kind, from, to) \/ EndExecute(j, from, to)
  BY <1>5 DEF send, EndExecute
<1> QED
  BY <1>1, <1>2, <1>3, <1>4, <1>5 DEF TaskStep

LEMMA OutcomeStep ==
    ASSUME TypeOK, OutcomeInv, [Next]_vars
    PROVE  OutcomeInv'
<1> SUFFICES ASSUME NEW k \in Jobs PROVE OutcomeOf(k)' /\ OverrunOf(k)'
  BY DEF OutcomeInv
<1>i. OutcomeOf(k) /\ OverrunOf(k)
  BY DEF OutcomeInv
<1>t. /\ memState \in [Jobs -> JobState \cup {"absent"}]
      /\ dbState \in [Jobs -> JobState \cup {"absent"}]
      /\ pc \in [Jobs -> Pc] /\ heard \in [Jobs -> EventKind \cup {"none"}]
      /\ channel \in [Jobs -> Seq(EventKind)] /\ overrun \in [Jobs -> Nat]
      /\ cancels \in [Jobs -> {"absent", "unset", "set"}]
  BY DEF TypeOK
<1> USE <1>i, <1>t DEF OutcomeOf, OverrunOf, recordVars, tableVars, loopVars, clientVars, Goto
<1>1. CASE UNCHANGED vars
  BY <1>1 DEF vars
<1>2. CASE Restart
  <2>1. /\ memState'[k] = "absent" /\ channel'[k] = << >> /\ UNCHANGED <<dbState, heard, overrun>>
        /\ pc'[k] = IF pc[k] \in LivePc THEN "done" ELSE pc[k]
    BY <1>2 DEF Restart
  <2>2. pc'[k] = "done" \/ (pc'[k] = pc[k] /\ pc[k] \in {"idle", "refused", "done"})
    BY <2>1 DEF Pc
  <2>3. Len(channel'[k]) = 0
    BY <2>1
  <2> QED
    BY <2>1, <2>2, <2>3
<1>3. ASSUME NEW j \in Jobs, j # k,
             \/ run(j) \/ cancel_job(j) \/ Receive(j) \/ CloseStream(j)
             \/ QueryReturns(j) \/ QueryTimeout(j) \/ TaskStep(j)
      PROVE  OutcomeOf(k)' /\ OverrunOf(k)'
  <2>1. /\ dbState'[k] = dbState[k] /\ memState'[k] = memState[k] /\ pc'[k] = pc[k]
        /\ heard'[k] = heard[k] /\ channel'[k] = channel[k] /\ overrun'[k] = overrun[k]
        /\ cancels'[k] = cancels[k]
    BY <1>3, OthersUntouched, Zenon
  <2> QED
    BY <2>1
<1>4. CASE run(k) \/ cancel_job(k)
  BY <1>4 DEF run, cancel_job
<1>5. CASE Receive(k)
  <2>1. channel[k] \in Seq(EventKind) /\ channel[k] # << >>
    BY <1>5 DEF Receive
  <2>2. /\ Len(channel[k]) \in Nat \ {0} /\ Head(channel[k]) = channel[k][1]
        /\ Len(Tail(channel[k])) = Len(channel[k]) - 1
        /\ \A n \in 1 .. Len(Tail(channel[k])) : Tail(channel[k])[n] = channel[k][n + 1]
    BY <2>1
  <2>3. /\ heard'[k] = channel[k][1] /\ channel'[k] = Tail(channel[k])
        /\ UNCHANGED <<dbState, memState, pc, overrun, cancels>>
    BY <1>5, <2>2 DEF Receive
  <2> QED
    BY <2>2, <2>3
<1>6. CASE CloseStream(k)
  BY <1>6 DEF CloseStream
<1>7. CASE read_source(k) \/ QueryReturns(k) \/ QueryTimeout(k) \/ ensure_table(k) \/ CheckCancelled(k) \/ Loop(k)
  BY <1>7 DEF read_source, QueryReturns, QueryTimeout, ensure_table, CheckCancelled, Loop, ExecFrame
<1>8. CASE mark_running(k) \/ mark_completed(k)
  BY <1>8 DEF mark_running, mark_completed, mark
<1>9. CASE mark_failed(k) \/ mark_cancelled(k)
  BY <1>9 DEF mark_failed, mark_cancelled, mark
<1>10. CASE insert_chunk(k) \/ bump_progress(k)
  BY <1>10 DEF insert_chunk, bump_progress
<1>11. CASE \/ EndExecute(k, "endOk", "done")
            \/ EndExecute(k, "endFailed", "markFailed")
            \/ EndExecute(k, "endCancelled", "markCancelled")
  BY <1>11 DEF EndExecute
<1>12. ASSUME NEW kind \in EventKind, NEW from, NEW to, send(k, kind, from, to),
              kind = "completed" => from = "sendCompleted",
              \/ from = "sendStarted" /\ to = "read"
              \/ from = "sendProgress" /\ to = "loop"
              \/ from = "sendCompleted" /\ to = "endOk"
              \/ from = "sendFailed" /\ to = "done"
              \/ from = "sendCancelled" /\ to = "done"
       PROVE  OutcomeOf(k)' /\ OverrunOf(k)'
  <2>1. channel[k] \in Seq(EventKind)
    OBVIOUS
  <2>2. /\ Len(channel[k]) \in Nat /\ Len(Append(channel[k], kind)) = Len(channel[k]) + 1
        /\ \A n \in 1 .. Len(channel[k]) : Append(channel[k], kind)[n] = channel[k][n]
        /\ Append(channel[k], kind)[Len(channel[k]) + 1] = kind
    BY <2>1
  <2>3. /\ channel'[k] = channel[k] \/ channel'[k] = Append(channel[k], kind)
        /\ UNCHANGED <<dbState, memState, heard, overrun, cancels>>
        /\ pc[k] = from /\ pc'[k] = to
    BY <1>12 DEF send
  <2>4. kind = "completed" => dbState[k] = "completed"
    BY <1>12, <2>3
  <2>5. ASSUME NEW n \in 1 .. Len(channel'[k]), channel'[k][n] = "completed"
        PROVE  dbState[k] = "completed"
    <3>1. CASE channel'[k] = channel[k]
      BY <2>5, <3>1
    <3>2. CASE channel'[k] = Append(channel[k], kind)
      <4>1. n \in 1 .. Len(channel[k]) \/ n = Len(channel[k]) + 1
        BY <2>2, <3>2
      <4> QED
        BY <2>2, <2>4, <2>5, <3>2, <4>1
    <3> QED
      BY <2>3, <3>1, <3>2
  <2> QED
    BY <1>12, <2>3, <2>5
<1>13. CASE TaskStep(k)
  BY <1>7, <1>8, <1>9, <1>10, <1>11, <1>12, <1>13 DEF TaskStep, EventKind
<1> QED
  BY <1>1, <1>2, <1>3, <1>4, <1>5, <1>6, <1>7, <1>13 DEF Next

LEMMA OutcomeInductive == Spec => [](TypeOK /\ OutcomeInv)
<1>1. Init => OutcomeInv
  BY DEF Init, OutcomeInv, OutcomeOf, OverrunOf
<1>2. TypeOK /\ OutcomeInv /\ [Next]_vars => (TypeOK /\ OutcomeInv)'
  BY TypeStep, OutcomeStep
<1> QED
  BY <1>1, <1>2, TypeInit, PTL DEF Spec

\* A client that received Completed finds the pipeline completed on disk and in
\* every later answer of status(), whatever fails or crashes afterwards.
THEOREM AnnouncementsAreDurable == Spec => []HeardIsDurable
<1>1. TypeOK /\ OutcomeInv => HeardIsDurable
  BY DEF OutcomeInv, OutcomeOf, HeardIsDurable, Shown
<1> QED
  BY <1>1, OutcomeInductive, PTL

\* The poll of the flag bounds what a cancelled pipeline still inserts to the
\* batch it had begun.
THEOREM CancelsStopWithinABatch == Spec => []CancelStopsWithinABatch
<1>1. TypeOK /\ OutcomeInv => CancelStopsWithinABatch
  BY DEF OutcomeInv, OverrunOf, CancelStopsWithinABatch
<1> QED
  BY <1>1, OutcomeInductive, PTL

\* No step replaces a terminal state on disk.
THEOREM OutcomesAreFinal == Spec => OutcomeIsFinal
<1> DEFINE Kept == \A j \in Jobs : is_terminal(dbState[j]) => dbState'[j] = dbState[j]
<1>1. ASSUME TypeOK, OutcomeInv, [Next]_vars, NEW k \in Jobs, is_terminal(dbState[k])
      PROVE  dbState'[k] = dbState[k]
  <2>i. OutcomeOf(k)
    BY <1>1 DEF OutcomeInv
  <2>t. dbState \in [Jobs -> JobState \cup {"absent"}] /\ pc \in [Jobs -> Pc]
    BY <1>1 DEF TypeOK
  <2>p. pc[k] \in {"sendCompleted", "endOk", "done", "sendFailed", "sendCancelled"}
    BY <1>1, <2>i DEF OutcomeOf, is_terminal
  <2> USE <2>t, <2>p DEF recordVars, Goto
  <2>1. CASE UNCHANGED vars
    BY <2>1 DEF vars
  <2>2. CASE Restart
    BY <2>2 DEF Restart
  <2>3. ASSUME NEW j \in Jobs, j # k,
               \/ run(j) \/ cancel_job(j) \/ Receive(j) \/ CloseStream(j)
               \/ QueryReturns(j) \/ QueryTimeout(j) \/ TaskStep(j)
        PROVE  dbState'[k] = dbState[k]
    BY <1>1, <2>3, OthersUntouched, Zenon
  <2>4. CASE run(k) \/ cancel_job(k) \/ Receive(k) \/ CloseStream(k) \/ QueryReturns(k) \/ QueryTimeout(k)
    BY <2>4 DEF run, cancel_job, Receive, CloseStream, QueryReturns, QueryTimeout, ExecFrame
  <2>5. CASE TaskStep(k)
    BY <2>5 DEF TaskStep, mark_running, mark_completed, mark_failed, mark_cancelled, mark, send,
       read_source, ensure_table, CheckCancelled, Loop, insert_chunk, bump_progress, EndExecute,
       ExecFrame
  <2> QED
    BY <1>1, <2>1, <2>2, <2>3, <2>4, <2>5 DEF Next
<1>2. TypeOK /\ OutcomeInv /\ [Next]_vars =>
        [Kept]_vars
  BY <1>1
<1> QED
  BY <1>2, OutcomeInductive, PTL DEF Spec, OutcomeIsFinal, is_terminal

-----------------------------------------------------------------------------
(* What rows_written says.                                                 *)

\* The rows a pipeline added to the destination table.
Mine(k) == {row \in table : row[1] = k}

\* The local count is the number of rows added so far, all from positions the
\* loop has passed.
CountOf(k) ==
    /\ IsFiniteSet(Mine(k))
    /\ written[k] = Cardinality(Mine(k))
    /\ \A row \in Mine(k) : row[2] <= at[k]
    /\ pc[k] \in {"idle", "refused"} => written[k] = 0

\* The map entry and the row lag behind the local count only between a batch
\* and its bump_progress, or on the way out of a failure.
BumpedOf(k) ==
    /\ pc[k] \notin {"bump", "endFailed", "markFailed", "sendFailed", "done"}
         => memRows[k] = written[k] /\ dbRows[k] = written[k]
    /\ memState[k] = "completed"
         => pc[k] \in {"sendCompleted", "endOk", "endFailed", "markFailed", "done"}
    /\ memState[k] = "cancelled" => pc[k] \in {"sendCancelled", "done"}
    /\ memState[k] \in {"completed", "cancelled"} => memRows[k] = written[k]
    /\ dbState[k] \in {"completed", "cancelled"} => dbRows[k] = written[k]

RowsInv == \A k \in Jobs : CountOf(k) /\ BumpedOf(k)

\* A step of one pipeline leaves the counts and rows of another alone.
LEMMA OtherRowsUntouched ==
    ASSUME TypeOK, NEW j \in Jobs, NEW k \in Jobs, j # k,
           \/ run(j) \/ cancel_job(j) \/ Receive(j) \/ CloseStream(j)
           \/ QueryReturns(j) \/ QueryTimeout(j) \/ TaskStep(j)
    PROVE  /\ memRows'[k] = memRows[k] /\ dbRows'[k] = dbRows[k]
           /\ written'[k] = written[k] /\ at'[k] = at[k]
           /\ Mine(k)' = Mine(k)
<1>t. /\ memRows \in [Jobs -> Nat] /\ dbRows \in [Jobs -> Nat]
      /\ written \in [Jobs -> Nat] /\ at \in [Jobs -> Nat]
  BY DEF TypeOK
<1> USE <1>t DEF recordVars, tableVars, loopVars, Mine
<1>1. CASE run(j) \/ cancel_job(j) \/ Receive(j) \/ CloseStream(j) \/ QueryReturns(j) \/ QueryTimeout(j)
  BY <1>1 DEF run, cancel_job, Receive, CloseStream, QueryReturns, QueryTimeout, ExecFrame
<1>2. CASE mark_running(j) \/ mark_failed(j) \/ mark_cancelled(j) \/ mark_completed(j)
  BY <1>2 DEF mark_running, mark_failed, mark_cancelled, mark_completed, mark
<1>3. CASE read_source(j) \/ ensure_table(j) \/ CheckCancelled(j) \/ Loop(j) \/ bump_progress(j)
  BY <1>3 DEF read_source, ensure_table, CheckCancelled, Loop, bump_progress, ExecFrame
<1>4. CASE insert_chunk(j)
  <2>1. \A row \in Chunk(j) : row[1] = j
    BY DEF Chunk
  <2> QED
    BY <1>4, <2>1 DEF insert_chunk
<1>5. CASE \E kind, from, to : send(j, kind, from, to) \/ EndExecute(j, from, to)
  BY <1>5 DEF send, EndExecute
<1> QED
  BY <1>1, <1>2, <1>3, <1>4, <1>5 DEF TaskStep

\* A batch adds to the count what it adds to the table: its positions lie
\* beyond the ones the loop has passed.
LEMMA InsertCounts ==
    ASSUME TypeOK, NEW k \in Jobs, CountOf(k), insert_chunk(k)
    PROVE  CountOf(k)'
<1>t. written \in [Jobs -> Nat] /\ at \in [Jobs -> Nat] /\ pc \in [Jobs -> Pc]
  BY DEF TypeOK
<1>1. CASE UNCHANGED <<table, written, at>> /\ pc'[k] = "endFailed"
  BY <1>1 DEF CountOf, Mine
<1>2. CASE /\ table' = table \cup (Chunk(k) \ Conflicts(k))
           /\ written' = [written EXCEPT ![k] = @ + Cardinality(Chunk(k) \ Conflicts(k))]
           /\ at' = [at EXCEPT ![k] = ChunkEnd(k)]
           /\ pc'[k] = "bump"
  <2> DEFINE New == Chunk(k) \ Conflicts(k)
  <2>1. /\ at[k] \in Nat /\ ChunkEnd(k) \in Nat /\ at[k] <= ChunkEnd(k)
        /\ IsFiniteSet(Chunk(k))
    BY ChunkIsTyped DEF TypeOK
  <2>2. \A row \in Chunk(k) : row[1] = k /\ at[k] < row[2] /\ row[2] <= ChunkEnd(k)
    BY <2>1 DEF Chunk
  <2>3. IsFiniteSet(New)
    BY <2>1, FS_Difference
  <2>4. Mine(k)' = Mine(k) \cup New
    BY <1>2, <2>2 DEF Mine
  <2>5. \A row \in Mine(k) : row[2] <= at[k] /\ row \in Row
    BY DEF CountOf, Mine, TypeOK
  <2>6. Mine(k) \cap New = {}
    <3> SUFFICES ASSUME NEW row \in Mine(k), row \in Chunk(k) PROVE FALSE
      OBVIOUS
    <3>1. row[2] <= at[k] /\ at[k] < row[2] /\ row[2] \in Nat
      BY <2>2, <2>5 DEF Row
    <3> QED
      BY <2>1, <3>1
  <2>7. /\ IsFiniteSet(Mine(k)')
        /\ Cardinality(Mine(k)') = Cardinality(Mine(k)) + Cardinality(New)
    <3>1. IsFiniteSet(Mine(k))
      BY DEF CountOf
    <3>2. /\ IsFiniteSet(Mine(k) \cup New)
          /\ Cardinality(Mine(k) \cup New)
               = Cardinality(Mine(k)) + Cardinality(New) - Cardinality(Mine(k) \cap New)
      BY <2>3, <3>1, FS_Union
    <3>3. Cardinality(Mine(k) \cap New) = 0
      BY <2>6, FS_EmptySet
    <3>4. Cardinality(Mine(k)) \in Nat /\ Cardinality(New) \in Nat
      BY <2>3, <3>1, FS_CardinalityType
    <3> HIDE DEF New
    <3> QED
      BY <2>4, <3>2, <3>3, <3>4
  <2>8. written'[k] = Cardinality(Mine(k)')
    BY <1>t, <1>2, <2>7 DEF CountOf
  <2>9. \A row \in Mine(k)' : row[2] <= at'[k]
    <3>1. at'[k] = ChunkEnd(k)
      BY <1>t, <1>2
    <3> SUFFICES ASSUME NEW row \in Mine(k) \cup New PROVE row[2] <= ChunkEnd(k)
      BY <2>4, <3>1
    <3>2. CASE row \in Mine(k)
      <4>1. row[2] \in Nat /\ row[2] <= at[k]
        BY <2>5, <3>2 DEF Row
      <4> QED
        BY <2>1, <4>1
    <3> QED
      BY <2>2, <3>2
  <2> QED
    BY <1>2, <2>7, <2>8, <2>9 DEF CountOf
<1> QED
  BY <1>t, <1>1, <1>2 DEF insert_chunk, Goto

\* The step that moves no row and no count of the pipeline.
LEMMA CountFrame ==
    ASSUME NEW k \in Jobs, CountOf(k), Mine(k)' = Mine(k), written'[k] = written[k],
           at'[k] = at[k], pc'[k] \in {"idle", "refused"} => pc[k] \in {"idle", "refused"}
    PROVE  CountOf(k)'
BY DEF CountOf

LEMMA RowsStep ==
    ASSUME TypeOK, OutcomeInv, RowsInv, [Next]_vars
    PROVE  RowsInv'
<1> SUFFICES ASSUME NEW k \in Jobs PROVE CountOf(k)' /\ BumpedOf(k)'
  BY DEF RowsInv
<1>i. CountOf(k) /\ BumpedOf(k) /\ OutcomeOf(k)
  BY DEF RowsInv, OutcomeInv
<1>t. /\ memState \in [Jobs -> JobState \cup {"absent"}]
      /\ dbState \in [Jobs -> JobState \cup {"absent"}]
      /\ pc \in [Jobs -> Pc] /\ memRows \in [Jobs -> Nat] /\ dbRows \in [Jobs -> Nat]
      /\ written \in [Jobs -> Nat]
  BY DEF TypeOK
<1>0. ASSUME UNCHANGED <<table, loopVars>>,
             pc'[k] \in {"idle", "refused"} => pc[k] \in {"idle", "refused"}
      PROVE  CountOf(k)'
  BY <1>0, <1>i, CountFrame DEF Mine, loopVars
<1>1. CASE UNCHANGED vars
  <2>1. UNCHANGED <<table, loopVars, pc, written, memState, memRows, dbState, dbRows>>
    BY <1>1 DEF vars, recordVars, tableVars, loopVars
  <2> QED
    BY <1>0, <1>i, <2>1 DEF BumpedOf
<1>2. CASE Restart
  <2>1. /\ UNCHANGED <<table, loopVars, dbState, dbRows>>
        /\ memState'[k] = "absent" /\ memRows'[k] = 0
        /\ pc'[k] = "done" \/ (pc'[k] = pc[k] /\ pc[k] \in {"idle", "refused", "done"})
    BY <1>2, <1>t DEF Restart, tableVars, Pc
  <2>2. written'[k] = written[k]
    BY <2>1 DEF loopVars
  <2> QED
    BY <1>0, <1>i, <2>1, <2>2 DEF BumpedOf, CountOf
<1>3. ASSUME NEW j \in Jobs, j # k,
             \/ run(j) \/ cancel_job(j) \/ Receive(j) \/ CloseStream(j)
             \/ QueryReturns(j) \/ QueryTimeout(j) \/ TaskStep(j)
      PROVE  CountOf(k)' /\ BumpedOf(k)'
  <2>1. dbState'[k] = dbState[k] /\ memState'[k] = memState[k] /\ pc'[k] = pc[k]
    BY <1>3, OthersUntouched, Zenon
  <2>2. /\ memRows'[k] = memRows[k] /\ dbRows'[k] = dbRows[k]
        /\ written'[k] = written[k] /\ at'[k] = at[k] /\ Mine(k)' = Mine(k)
    BY <1>3, OtherRowsUntouched, Zenon
  <2> QED
    BY <1>i, <2>1, <2>2, CountFrame DEF BumpedOf
<1>4. CASE run(k)
  <2>1. CountOf(k)'
    BY <1>0, <1>4 DEF run, Goto, tableVars
  <2>2. BumpedOf(k)'
    BY <1>4, <1>i, <1>t DEF run, Goto, loopVars, BumpedOf, OutcomeOf
  <2> QED
    BY <2>1, <2>2
<1>5. CASE cancel_job(k) \/ Receive(k) \/ CloseStream(k)
  BY <1>0, <1>5, <1>i DEF cancel_job, Receive, CloseStream, recordVars, tableVars,
     loopVars, BumpedOf
<1>6. CASE read_source(k) \/ QueryReturns(k) \/ QueryTimeout(k) \/ ensure_table(k) \/ CheckCancelled(k) \/ Loop(k)
  <2>1. UNCHANGED <<table, loopVars, recordVars>>
    BY <1>6 DEF read_source, QueryReturns, QueryTimeout, ensure_table, CheckCancelled, Loop,
       tableVars, ExecFrame
  <2>2. /\ pc[k] \in {"read", "query", "table", "check", "loop"}
        /\ pc'[k] \in {"query", "table", "check", "loop", "endFailed", "endCancelled", "insert", "markCompleted"}
    BY <1>6, <1>t DEF read_source, QueryReturns, QueryTimeout, ensure_table, CheckCancelled, Loop, Goto
  <2> QED
    BY <1>0, <1>i, <2>1, <2>2 DEF recordVars, loopVars, BumpedOf
<1>7. CASE mark_running(k) \/ mark_completed(k) \/ mark_failed(k) \/ mark_cancelled(k)
  <2>1. CountOf(k)'
    BY <1>0, <1>7, <1>t DEF mark_running, mark_completed, mark_failed, mark_cancelled, mark, Goto, tableVars
  <2>2. CASE mark_running(k)
    <3>1. /\ pc[k] = "markRunning" /\ memState'[k] = "running" /\ UNCHANGED loopVars
          /\ \/ pc'[k] = "sendStarted" /\ dbState'[k] = "running"
             \/ pc'[k] = "endFailed" /\ dbState'[k] = dbState[k]
      BY <1>t, <2>2 DEF mark_running, mark, Goto
    <3>2. UNCHANGED <<memRows, dbRows>>
      BY <1>t, <2>2 DEF mark_running
    <3> QED
      BY <1>i, <2>1, <3>1, <3>2 DEF loopVars, BumpedOf, OutcomeOf
  <2>3. CASE mark_completed(k)
    <3>1. /\ pc[k] = "markCompleted" /\ memState'[k] = "completed" /\ UNCHANGED loopVars
          /\ \/ pc'[k] = "sendCompleted" /\ dbState'[k] = "completed"
             \/ pc'[k] = "endFailed" /\ dbState'[k] = dbState[k]
      BY <1>t, <2>3 DEF mark_completed, mark, Goto
    <3>2. /\ memRows'[k] = written[k]
          /\ dbRows'[k] = IF pc'[k] = "sendCompleted" THEN written[k] ELSE dbRows[k]
      BY <1>t, <2>3, <3>1 DEF mark_completed
    <3> QED
      BY <1>i, <2>1, <3>1, <3>2 DEF loopVars, BumpedOf, OutcomeOf
  <2>4. CASE mark_failed(k)
    <3>1. /\ pc[k] = "markFailed" /\ memState'[k] = "failed" /\ UNCHANGED loopVars
          /\ \/ pc'[k] = "sendFailed" /\ dbState'[k] = "failed"
             \/ pc'[k] = "sendFailed" /\ dbState'[k] = dbState[k]
      BY <1>t, <2>4 DEF mark_failed, mark, Goto
    <3>2. UNCHANGED <<memRows, dbRows>>
      BY <1>t, <2>4 DEF mark_failed
    <3> QED
      BY <1>i, <2>1, <3>1, <3>2 DEF loopVars, BumpedOf, OutcomeOf
  <2>5. CASE mark_cancelled(k)
    <3>1. /\ pc[k] = "markCancelled" /\ memState'[k] = "cancelled" /\ UNCHANGED loopVars
          /\ \/ pc'[k] = "sendCancelled" /\ dbState'[k] = "cancelled"
             \/ pc'[k] = "sendCancelled" /\ dbState'[k] = dbState[k]
      BY <1>t, <2>5 DEF mark_cancelled, mark, Goto
    <3>2. UNCHANGED <<memRows, dbRows>>
      BY <1>t, <2>5 DEF mark_cancelled
    <3> QED
      BY <1>i, <2>1, <3>1, <3>2 DEF loopVars, BumpedOf, OutcomeOf
  <2> QED
    BY <1>7, <2>1, <2>2, <2>3, <2>4, <2>5
<1>8. CASE insert_chunk(k)
  <2>1. /\ UNCHANGED recordVars /\ pc[k] = "insert"
        /\ pc'[k] = "bump" \/ (pc'[k] = "endFailed" /\ written' = written)
    BY <1>8, <1>t DEF insert_chunk, Goto
  <2>2. BumpedOf(k)'
    BY <1>i, <2>1 DEF recordVars, BumpedOf, OutcomeOf
  <2> QED
    BY <1>i, <1>8, <2>2, InsertCounts
<1>9. CASE bump_progress(k)
  <2>1. CountOf(k)'
    BY <1>0, <1>9, <1>t DEF bump_progress, Goto, tableVars
  <2>2. BumpedOf(k)'
    BY <1>i, <1>t, <1>9 DEF bump_progress, Goto, loopVars, BumpedOf, OutcomeOf
  <2> QED
    BY <2>1, <2>2
<1>10. CASE \/ EndExecute(k, "endOk", "done")
            \/ EndExecute(k, "endFailed", "markFailed")
            \/ EndExecute(k, "endCancelled", "markCancelled")
            \/ send(k, "started", "sendStarted", "read")
            \/ send(k, "progress", "sendProgress", "loop")
            \/ send(k, "completed", "sendCompleted", "endOk")
            \/ send(k, "failed", "sendFailed", "done")
            \/ send(k, "cancelled", "sendCancelled", "done")
  <2>1. UNCHANGED <<table, loopVars, recordVars>>
    BY <1>10 DEF EndExecute, send, tableVars
  <2>2. \/ pc[k] = "endOk" /\ pc'[k] = "done"
        \/ pc[k] = "endFailed" /\ pc'[k] = "markFailed"
        \/ pc[k] = "endCancelled" /\ pc'[k] = "markCancelled"
        \/ pc[k] = "sendStarted" /\ pc'[k] = "read"
        \/ pc[k] = "sendProgress" /\ pc'[k] = "loop"
        \/ pc[k] = "sendCompleted" /\ pc'[k] = "endOk"
        \/ pc[k] = "sendFailed" /\ pc'[k] = "done"
        \/ pc[k] = "sendCancelled" /\ pc'[k] = "done"
    BY <1>10, <1>t DEF EndExecute, send, Goto
  <2> QED
    BY <1>0, <1>i, <2>1, <2>2 DEF recordVars, loopVars, BumpedOf
<1>11. CASE TaskStep(k)
  BY <1>6, <1>7, <1>8, <1>9, <1>10, <1>11 DEF TaskStep
<1> QED
  BY <1>1, <1>2, <1>3, <1>4, <1>5, <1>6, <1>11 DEF Next

\* rows_written of a completed or cancelled pipeline is what it added to the
\* table: no failed transaction, skipped duplicate, late cancel or restart makes
\* the answer of status() and the rows disagree.
THEOREM ReportedRowsAreStored == Spec => []RowsReported
<1>1. Init => RowsInv
  <2> SUFFICES ASSUME Init, NEW k \in Jobs PROVE CountOf(k) /\ BumpedOf(k)
    BY DEF RowsInv
  <2>1. Mine(k) = {}
    BY DEF Init, Mine
  <2>2. IsFiniteSet(Mine(k)) /\ Cardinality(Mine(k)) = 0
    BY <2>1, FS_EmptySet
  <2> QED
    BY <2>1, <2>2 DEF Init, CountOf, BumpedOf
<1>2. TypeOK /\ OutcomeInv /\ RowsInv /\ [Next]_vars => RowsInv'
  BY RowsStep
<1>3. RowsInv => RowsReported
  BY DEF RowsInv, CountOf, BumpedOf, RowsReported, Shown, ShownRows, Mine
<1> QED
  BY <1>1, <1>2, <1>3, OutcomeInductive, PTL DEF Spec
=============================================================================
