------------------------------ MODULE EtlRemote ------------------------------
(***************************************************************************)
(* A pipeline run from the command line: `orbit etl run' (orbit-cli) calls *)
(* run_pipeline of the gRPC server (orbit-server), which forwards the      *)
(* engine's events through a channel of its own into the response stream.  *)
(*                                                                         *)
(* The engine's side is abstract: it records an outcome and then sends the *)
(* event for it (see EtlEngine).  Its task may panic, the connection may   *)
(* break, and another command may cancel the job at any time.              *)
(***************************************************************************)
EXTENDS Integers, Sequences, SequencesExt

CONSTANTS
    Cap,            \* events a channel holds (32 in the code, on both)
    MaxProgress     \* bound: progress events of one run

ASSUME CapAssumption == Cap \in Nat \ {0}

VARIABLES
    task,           \* the engine's task: new, running, decided, ended, died
    outcome,        \* what the run came to
    recorded,       \* the job's state in the engine
    sent,           \* progress events so far
    events,         \* the engine's channel
    stream,         \* the server's channel, with the response stream
    link,           \* the connection: up or cut
    cli,            \* reading, or how the command ended
    shown           \* the last event the command showed

remoteVars == <<task, outcome, recorded, sent, events, stream, link, cli, shown>>

Outcomes == {"completed", "failed", "cancelled"}
RemoteInit ==
    /\ task = "new" /\ outcome = "none" /\ recorded = "pending" /\ sent = 0 /\ events = << >> /\ stream = << >>
    /\ link = "up" /\ cli = "reading" /\ shown = "nothing"

\* The forwarder stops reading when nobody takes its events; the engine's
\* sends then fail and are ignored.
Forwarding == link = "up" /\ cli = "reading"
send_event(e) == IF Forwarding THEN Len(events) < Cap /\ events' = Append(events, e) ELSE events' = events
begin ==
    /\ task = "new" /\ task' = "running" /\ recorded' = "running" /\ send_event("started")
    /\ UNCHANGED <<outcome, sent, stream, link, cli, shown>>
progress ==
    /\ task = "running" /\ sent < MaxProgress /\ sent' = sent + 1 /\ send_event("progress")
    /\ UNCHANGED <<task, outcome, recorded, stream, link, cli, shown>>
\* A completion that cannot be recorded is a failure; a failure or cancellation
\* that cannot be recorded is announced all the same.
decide(o, written) ==
    /\ task = "running" \/ (task = "new" /\ o = "failed")
    /\ o = "completed" => written
    /\ task' = "decided" /\ outcome' = o /\ recorded' = IF written THEN o ELSE recorded
    /\ UNCHANGED <<sent, events, stream, link, cli, shown>>
announce ==
    /\ task = "decided" /\ task' = "ended" /\ send_event(outcome)
    /\ UNCHANGED <<outcome, recorded, sent, stream, link, cli, shown>>
panic ==
    /\ task \in {"new", "running", "decided"} /\ task' = "died"
    /\ UNCHANGED <<outcome, recorded, sent, events, stream, link, cli, shown>>

\* The protocol has no message for a cancelled job: it is sent as a failure.
cancel_is_completion(e) == IF e = "cancelled" THEN "completed" ELSE e
encode_event(e) == IF e = "cancelled" THEN "failed" ELSE e
run_pipeline ==
    /\ Forwarding /\ events # << >> /\ Len(stream) < Cap
    /\ stream' = Append(stream, encode_event(Head(events))) /\ events' = Tail(events)
    /\ UNCHANGED <<task, outcome, recorded, sent, link, cli, shown>>
cut == link = "up" /\ link' = "cut" /\ UNCHANGED <<task, outcome, recorded, sent, events, stream, cli, shown>>

\* The command's loop: a failure ends it with an error, everything else is
\* shown, and the end of the stream is success.
read ==
    /\ cli = "reading" /\ link = "up" /\ stream # << >>
    /\ stream' = Tail(stream) /\ shown' = Head(stream)
    /\ cli' = IF Head(stream) = "failed" THEN "failed" ELSE "reading"
    /\ UNCHANGED <<task, outcome, recorded, sent, events, link>>
StreamEnded == task \in {"ended", "died"} /\ events = << >> /\ stream = << >>
finish ==
    /\ cli = "reading" /\ link = "up" /\ StreamEnded /\ cli' = "ok"
    /\ UNCHANGED <<task, outcome, recorded, sent, events, stream, link, shown>>
\* `ev?' turns a broken connection into an error.
disconnected ==
    /\ cli = "reading" /\ link = "cut" /\ cli' = "lost"
    /\ UNCHANGED <<task, outcome, recorded, sent, events, stream, link, shown>>
RemoteNext ==
    \/ begin \/ progress \/ announce \/ panic \/ run_pipeline \/ cut \/ read \/ finish \/ disconnected
    \/ \E o \in Outcomes, written \in BOOLEAN : decide(o, written)
RemoteSpec == RemoteInit /\ [][RemoteNext]_remoteVars

-----------------------------------------------------------------------------
(* What a request is turned into.  A message is [source, format, delimiter,*)
(* sql, dedupe, batch]; "" and 0 stand for fields that were left out.      *)

decode_spec(p) ==
    IF ~p.source THEN [err |-> "source required"]
    ELSE IF p.format \notin {"csv", "parquet", "json"} THEN [err |-> "file format required"]
    ELSE [ok |-> [format |-> p.format, delimiter |-> IF p.delimiter = "" THEN "," ELSE p.delimiter,
                  sql |-> IF p.sql = "" THEN {} ELSE {p.sql}, dedupe |-> IF p.dedupe = "" THEN {} ELSE {p.dedupe},
                  batch |-> IF p.batch = 0 THEN 1024 ELSE p.batch]]
from_path(extension) ==
    CASE extension = "csv" -> "csv" [] extension \in {"parquet", "pq"} -> "parquet"
      [] extension \in {"json", "ndjson"} -> "json" [] OTHER -> ""
\* The command line: an absent option is {}.
etl_run(args) ==
    LET format == IF args.format # {} THEN CHOOSE x \in args.format : TRUE ELSE from_path(args.extension) IN
    IF format = "" THEN [err |-> "cannot infer format"]
    ELSE [ok |-> [source |-> TRUE, format |-> format, delimiter |-> ",",
                  sql |-> IF args.sql = {} THEN "" ELSE CHOOSE x \in args.sql : TRUE,
                  dedupe |-> IF args.dedupe = {} THEN "" ELSE CHOOSE x \in args.dedupe : TRUE, batch |-> args.batch]]

-----------------------------------------------------------------------------
(* Properties.                                                             *)

\* What the command reports is what the engine recorded: it ends well only
\* after a completed job, unless the engine's task died; it reports a failure
\* only of a job that failed or was cancelled; and it never shows a completion
\* that is not recorded (orbit-cli main.rs, orbit-server service.rs).
ReportedIsRecorded ==
    /\ cli = "ok" => task = "died" \/ (recorded = "completed" /\ shown = "completed")
    /\ cli = "failed" => outcome \in {"failed", "cancelled"} /\ recorded # "completed"
    /\ shown = "completed" => recorded = "completed"
\* What was asked for on the command line is what the engine gets: no option
\* is lost or invented between the two (etl_run, decode_spec).
SpecSurvives(args) ==
    LET asked == etl_run(args) IN
    "ok" \in DOMAIN asked =>
        LET got == decode_spec(asked.ok) IN
        /\ "ok" \in DOMAIN got
        /\ got.ok.sql = args.sql \ {""} /\ got.ok.dedupe = args.dedupe \ {""}
        /\ args.format # {} => got.ok.format \in args.format
        /\ args.batch # 0 => got.ok.batch = args.batch
=============================================================================
