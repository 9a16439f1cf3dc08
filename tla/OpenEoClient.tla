----------------------------- MODULE OpenEoClient -----------------------------
(***************************************************************************)
(* orbit-geo as the client of an openEO backend (openeo.rs):               *)
(* submit_and_download creates a job, starts it, polls until it ends,      *)
(* downloads every result into the shared cache directory and deletes the  *)
(* job.  Every call fails or succeeds as the network has it; a call that   *)
(* fails may have been carried out.  The files are those of AssetFiles:    *)
(* the submitters are writers whose order is the asset in hand.  An        *)
(* earlier run of the program may have left files behind.                  *)
(***************************************************************************)
EXTENDS AssetFiles

CONSTANTS
    Submitters,     \* concurrent calls of submit_and_download, each with a job
    interval,       \* PollConfig, in ticks
    timeout,
    answer          \* how long a request may take

ASSUME ClientAssumption ==
    /\ Submitters \subseteq Writers /\ Writers \ Submitters # {} /\ Paths # {}
    /\ interval \in Nat /\ timeout \in Nat /\ answer \in Nat

VARIABLES
    doing,          \* per call: the step it is at
    remote,         \* per call: the job's status at the backend
    elapsed,        \* per call: time since it began to poll
    left,           \* per call: results still to download
    paths           \* per call: results downloaded

clientVars == <<doing, remote, elapsed, left, paths>>

Active == {"queued", "running"}
is_terminal(status) == status \in {"finished", "error", "canceled"}

ClientInit ==
    /\ doing = [s \in Submitters |-> "create"]
    /\ remote = [s \in Submitters |-> "none"]
    /\ elapsed = [s \in Submitters |-> 0]
    /\ left = [s \in Submitters |-> {}]
    /\ paths = [s \in Submitters |-> {}]
\* Submitters hold no file until they have a result to download; an earlier run
\* has left results and half-written part files.
Former == CHOOSE t \in Writers \ Submitters : TRUE
IdleFiles ==
    /\ order = [t \in Writers |-> [kind |-> "download_asset", dst |-> CHOOSE d \in Paths : TRUE]]
    /\ stage = [t \in Writers |-> "idle"]
    /\ \E parts, finals \in SUBSET Paths :
         /\ parts \cap finals = {}
         /\ dir = [n \in {Part(d) : d \in parts} \cup {Final(d) : d \in finals} |-> <<Former, n[2]>>]
         /\ body = [i \in Inodes |-> [whole |-> i[1] = Former /\ i[2] \in finals, open |-> {}]]
    /\ contended = {}

Go(s, from, to) == doing[s] = from /\ doing' = [doing EXCEPT ![s] = to]
Becomes(s, status) == remote' = [remote EXCEPT ![s] = status]

\* `?' on the answer: an error, or a success without a job id, ends the call;
\* the job may exist all the same.
create_job(s) ==
    /\ \/ Go(s, "create", "start") /\ Becomes(s, "created")
       \/ Go(s, "create", "failed") /\ (Becomes(s, "created") \/ UNCHANGED remote)
    /\ UNCHANGED <<elapsed, left, paths, assetVars>>
start_job(s) ==
    /\ \/ Go(s, "start", "poll") /\ Becomes(s, "queued")
       \/ Go(s, "start", "failed") /\ (Becomes(s, "queued") \/ UNCHANGED remote)
    /\ UNCHANGED <<elapsed, left, paths, assetVars>>
\* The backend runs the job; its owner may cancel it there.
backend_step(s) ==
    /\ remote[s] \in Active
    /\ \E to \in {"running", "finished", "error", "canceled"} \ {remote[s]} : Becomes(s, to)
    /\ UNCHANGED <<doing, elapsed, left, paths, assetVars>>

\* The status is read first and the clock after it.
wait_for_completion(s) ==
    /\ IF is_terminal(remote[s]) THEN Go(s, "poll", "ended")
       ELSE IF elapsed[s] > timeout THEN Go(s, "poll", "failed")
       ELSE Go(s, "poll", "sleep")
    /\ UNCHANGED <<remote, elapsed, left, paths, assetVars>>
get_job_failed(s) ==
    /\ Go(s, "poll", "failed")
    /\ UNCHANGED <<remote, elapsed, left, paths, assetVars>>
sleep(s) ==
    /\ Go(s, "sleep", "poll") /\ \E took \in 0..answer : elapsed' = [elapsed EXCEPT ![s] = @ + interval + took]
    /\ UNCHANGED <<remote, left, paths, assetVars>>

\* Only a finished job has results to ask for.
get_results(s) ==
    /\ \/ /\ remote[s] = "finished" /\ Go(s, "ended", "fetch")
          /\ \E urls \in SUBSET Paths : left' = [left EXCEPT ![s] = urls]
       \/ Go(s, "ended", "failed") /\ UNCHANGED left
    /\ UNCHANGED <<remote, elapsed, paths, assetVars>>
\* The next result is taken up: AssetFiles' begin, open_target, write_end and
\* atomic_replace are the rest of download_asset.
download_asset(s) ==
    /\ doing[s] = "fetch" /\ stage[s] = "idle"
    /\ \E u \in left[s] : order' = [order EXCEPT ![s].dst = u]
    /\ stage' = [stage EXCEPT ![s] = "start"]
    /\ UNCHANGED <<clientVars, dir, body, contended>>
downloaded(s) ==
    /\ doing[s] = "fetch" /\ stage[s] = "ok" /\ stage' = [stage EXCEPT ![s] = "idle"]
    /\ paths' = [paths EXCEPT ![s] = @ \cup {order[s].dst}]
    /\ left' = [left EXCEPT ![s] = @ \ {order[s].dst}]
    /\ UNCHANGED <<doing, remote, elapsed, order, dir, body, contended>>
asset_failed(s) ==
    /\ stage[s] = "err" /\ Go(s, "fetch", "failed")
    /\ UNCHANGED <<remote, elapsed, left, paths, assetVars>>
\* Best effort: what becomes of the request is ignored.
\* Faulty variant: the job may go as soon as its results are listed.
deletes_first(s) ==
    /\ stage[s] = "idle" /\ doing[s] = "fetch" /\ (Becomes(s, "deleted") \/ UNCHANGED remote)
    /\ doing' = [doing EXCEPT ![s] = IF left[s] = {} THEN "done" ELSE "fetch"]
    /\ UNCHANGED <<elapsed, left, paths, assetVars>>
delete_job(s) ==
    /\ stage[s] = "idle" /\ left[s] = {} /\ Go(s, "fetch", "done")
    /\ Becomes(s, "deleted") \/ UNCHANGED remote
    /\ UNCHANGED <<elapsed, left, paths, assetVars>>

FileStep == (crash \/ \E t \in Submitters :
                \/ begin(t) \/ get_failed(t) \/ open_target(t)
                \/ write_end(t) \/ write_failed(t) \/ atomic_replace(t))
            /\ UNCHANGED clientVars
ClientNext ==
    \/ FileStep
    \/ \E s \in Submitters :
        /\ \A t \in Writers : stage[t] # "dead"
        /\ \/ create_job(s) \/ start_job(s) \/ wait_for_completion(s) \/ get_job_failed(s) \/ sleep(s)
           \/ get_results(s) \/ download_asset(s) \/ downloaded(s) \/ asset_failed(s) \/ delete_job(s)
    \/ \E s \in Submitters : backend_step(s)
ClientSpec == ClientInit /\ IdleFiles /\ [][ClientNext]_<<clientVars, assetVars>>

-----------------------------------------------------------------------------

\* A result the client can count on: under its final name, and whole unless
\* two calls wrote its part file at once.
InCache(u) == Final(u) \in DOMAIN dir /\ (u \in contended \/ body[dir[Final(u)]].whole)
\* No result is lost: a job is deleted at the backend only when each of its
\* results is in the cache directory, and so it is for the files the call
\* returns; only results of a finished job are taken; and polling goes on no
\* longer than the timeout, one interval and one request (submit_and_download, wait_for_completion).
ResultsAreFetched ==
    \A s \in Submitters :
        /\ remote[s] = "deleted" \/ doing[s] = "done" => left[s] = {} /\ \A u \in paths[s] : InCache(u)
        /\ doing[s] \in {"fetch", "done"} => remote[s] \in {"finished", "deleted"}
        /\ elapsed[s] <= timeout + interval + answer

\* The directory that calls, tools and crashes share: what is under a final
\* name is whole, and no job is deleted before its results are there
\* (atomic.rs: atomic_replace; openeo.rs: download_asset, submit_and_download).
FilesAreWhole == PublishedIsWhole /\ ResultsAreFetched
=============================================================================
