---------------------------- MODULE JobLifecycle ----------------------------
(***************************************************************************)
(* What the job service promises about one job, with no word on tasks,     *)
(* permits or stores: the openEO life cycle.  A job is created, queued by  *)
(* a start, runs, and ends finished, failed or canceled; an ended job may  *)
(* be started again; a deleted job is gone.  Its results are offered from  *)
(* the moment it finishes until it is started again or deleted.            *)
(***************************************************************************)
CONSTANT Jobs
VARIABLES
    status,
    served      \* the jobs whose results the service offers

Ended == {"finished", "error", "canceled"}
InProgress == {"queued", "running"}

Move(j, from, to) ==
    /\ status[j] \in from
    /\ status' = [status EXCEPT ![j] = to]
    /\ served' = IF to = "finished" THEN served \cup {j} ELSE served \ {j}

Create(j)  == Move(j, {"none"}, "created")
Start(j)   == Move(j, {"created"} \cup Ended, "queued")
Execute(j) == Move(j, {"queued"}, "running")
Finish(j)  == Move(j, {"running"}, "finished")
Fail(j)    == Move(j, InProgress, "error")
Cancel(j)  == Move(j, {"created"} \cup InProgress, "canceled")
Delete(j)  == Move(j, {"created"} \cup InProgress \cup Ended, "deleted")

\* The server restarts: everything in progress has failed, and results stay.
Recover ==
    /\ status' = [j \in Jobs |-> IF status[j] \in InProgress THEN "error"
                                 ELSE status[j]]
    /\ UNCHANGED served

Init == status = [j \in Jobs |-> "none"] /\ served = {}
Next ==
    \/ \E j \in Jobs : \/ Create(j) \/ Start(j) \/ Execute(j) \/ Finish(j)
                       \/ Fail(j) \/ Cancel(j) \/ Delete(j)
    \/ Recover

Spec == Init /\ [][Next]_<<status, served>>
=============================================================================
