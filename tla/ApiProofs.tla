------------------------------ MODULE ApiProofs ------------------------------
(***************************************************************************)
(* The routes beside the job lifecycle, for any number of users, files,    *)
(* device codes and tokens: a token was earned and dies in time, and the   *)
(* two file stores keep the same files.  And what the command line reports *)
(* of a pipeline is what the engine recorded, for channels of any size and *)
(* runs of any length.  And what the two job stores keep, for any number   *)
(* of callers, jobs, asset names and calls: nothing acknowledged is lost   *)
(* and nothing refused stays.                                              *)
(***************************************************************************)
EXTENDS EtlRemote, Access, Requests, JobRecords, FiniteSetTheorems, SequenceTheorems,
        WellFoundedInduction, TLAPS

-----------------------------------------------------------------------------
(* A pipeline run from the command line.                                   *)

Events == {"started", "progress"} \cup Outcomes

RemoteTypeOK ==
    /\ task \in {"new", "running", "decided", "ended", "died"}
    /\ outcome \in Outcomes \cup {"none"}
    /\ recorded \in Outcomes \cup {"pending", "running"}
    /\ sent \in Nat
    /\ events \in Seq(Events) /\ stream \in Seq(Events)
    /\ link \in {"up", "cut"} /\ cli \in {"reading", "ok", "failed", "lost"}
    /\ shown \in Events \cup {"nothing"}

\* The outcome is known once it is decided; a completion is always recorded.
Decided ==
    /\ task \in {"new", "running"} => outcome = "none"
    /\ task \in {"decided", "ended"} => outcome \in Outcomes
    /\ outcome = "completed" <=> recorded = "completed"

\* An event of an outcome, wherever it is on its way, is of THE outcome.
Honest ==
    /\ \A i \in DOMAIN events : events[i] \in Outcomes => events[i] = outcome
    /\ \A i \in DOMAIN stream : stream[i] \in Outcomes => outcome \in Outcomes /\ stream[i] = encode_event(outcome)
    /\ shown \in Outcomes => outcome \in Outcomes /\ shown = encode_event(outcome)
    /\ cli = "failed" => outcome \in {"failed", "cancelled"}

\* While somebody reads, the outcome's event is the last one on its way.
OnItsWay ==
    Forwarding /\ task = "ended" =>
        \/ events # << >> /\ events[Len(events)] = outcome
        \/ events = << >> /\ stream # << >> /\ stream[Len(stream)] = encode_event(outcome)
        \/ events = << >> /\ stream = << >> /\ shown = encode_event(outcome) /\ shown # "failed"
EndedWell == cli = "ok" => task = "died" \/ (task = "ended" /\ recorded = "completed" /\ shown = "completed")

RemoteInv == RemoteTypeOK /\ Decided /\ Honest /\ OnItsWay /\ EndedWell

LEMMA RemoteInitInv == RemoteInit => RemoteInv
BY DEF RemoteInit, RemoteInv, RemoteTypeOK, Decided, Honest, OnItsWay, EndedWell, Outcomes, Events, Forwarding

\* The last element of a sequence stays the last until it is the first.
LEMMA TailKeepsLast ==
    ASSUME NEW S, NEW q \in Seq(S), Len(q) > 1
    PROVE  Tail(q) # << >> /\ Tail(q)[Len(Tail(q))] = q[Len(q)]
<1>1. Len(Tail(q)) = Len(q) - 1 /\ Len(q) - 1 \in Nat /\ Len(q) - 1 \in 1..(Len(q) - 1)
    OBVIOUS
<1>2. \A n \in Nat : n > 1 => n - 1 # 0
    OBVIOUS
<1>3. Len(q) \in Nat
    OBVIOUS
<1>4. Len(q) - 1 # 0
    BY <1>2, <1>3, Zenon
<1>5. Tail(q)[Len(q) - 1] = q[(Len(q) - 1) + 1]
    BY <1>1
<1>6. Tail(q) # << >>
  <2>1. SUFFICES ASSUME Tail(q) = << >> PROVE FALSE
      OBVIOUS
  <2>2. Len(Tail(q)) = Len(<< >>)
      BY <2>1
  <2>3. Len(<< >>) = 0
      OBVIOUS
  <2> QED BY <1>1, <1>4, <2>2, <2>3, Zenon
<1> QED BY <1>1, <1>5, <1>6

\* Sending appends, or drops the event when nobody reads.
LEMMA SendFacts ==
    ASSUME RemoteTypeOK, NEW e \in Events, send_event(e)
    PROVE  /\ events' \in Seq(Events)
           /\ \A i \in DOMAIN events' : (i \in DOMAIN events /\ events'[i] = events[i]) \/ events'[i] = e
           /\ Forwarding => events' # << >> /\ events'[Len(events')] = e
<1>1. CASE Forwarding
  <2>1. events \in Seq(Events) /\ events' = Append(events, e)
      BY <1>1 DEF RemoteTypeOK, send_event
  <2>2. events' \in Seq(Events) /\ Len(events') = Len(events) + 1 /\ events'[Len(events')] = e
      BY <2>1
  <2>3. events' # << >>
      BY <2>1, <2>2
  <2>4. ASSUME NEW i \in DOMAIN events'
        PROVE  (i \in DOMAIN events /\ events'[i] = events[i]) \/ events'[i] = e
      BY <2>1, <2>2
  <2> QED BY <2>2, <2>3, <2>4
<1>2. CASE ~Forwarding
  <2>1. events' = events /\ events \in Seq(Events)
      BY <1>2 DEF RemoteTypeOK, send_event
  <2> QED BY <1>2, <2>1
<1> QED BY <1>1, <1>2

LEMMA BeginStep == ASSUME RemoteInv, begin PROVE RemoteInv'
<1> USE DEF RemoteInv
<1>1. "started" \in Events /\ send_event("started")
    BY DEF Events, begin
<1>2. RemoteTypeOK'
    BY <1>1, SendFacts DEF begin, RemoteTypeOK
<1>3. Decided'
    BY DEF begin, Decided, Outcomes
<1>4. Honest'
    BY <1>1, SendFacts DEF begin, Honest, Outcomes
<1>5. OnItsWay' /\ EndedWell'
    BY DEF begin, OnItsWay, EndedWell
<1> QED BY <1>2, <1>3, <1>4, <1>5

LEMMA ProgressStep == ASSUME RemoteInv, progress PROVE RemoteInv'
<1> USE DEF RemoteInv
<1>1. "progress" \in Events /\ send_event("progress")
    BY DEF Events, progress
<1>2. RemoteTypeOK'
    BY <1>1, SendFacts DEF progress, RemoteTypeOK
<1>3. Decided'
    BY DEF progress, Decided
<1>4. Honest'
    BY <1>1, SendFacts DEF progress, Honest, Outcomes
<1>5. OnItsWay' /\ EndedWell'
    BY DEF progress, OnItsWay, EndedWell
<1> QED BY <1>2, <1>3, <1>4, <1>5

LEMMA DecideStep ==
    ASSUME RemoteInv, NEW o \in Outcomes, NEW written \in BOOLEAN, decide(o, written) PROVE RemoteInv'
<1> USE DEF RemoteInv
<1>1. RemoteTypeOK'
    BY DEF decide, RemoteTypeOK
<1>2. outcome = "none" /\ recorded # "completed"
    BY DEF decide, Decided, Outcomes
<1>3. Decided'
    BY <1>2 DEF decide, Decided, Outcomes
<1>4. Honest'
    BY <1>2 DEF decide, Honest, Outcomes
<1>5. OnItsWay' /\ EndedWell'
    BY DEF decide, OnItsWay, EndedWell
<1> QED BY <1>1, <1>3, <1>4, <1>5

LEMMA AnnounceStep == ASSUME RemoteInv, announce PROVE RemoteInv'
<1> USE DEF RemoteInv
<1>1. outcome \in Outcomes /\ outcome \in Events /\ send_event(outcome)
    BY DEF announce, Decided, Events
<1>2. RemoteTypeOK'
    BY <1>1, SendFacts DEF announce, RemoteTypeOK
<1>3. Decided'
    BY DEF announce, Decided
<1>4. Honest'
    BY <1>1, SendFacts DEF announce, Honest
<1>5. OnItsWay'
    BY <1>1, SendFacts DEF announce, OnItsWay, Forwarding
<1>6. EndedWell'
    BY DEF announce, EndedWell
<1> QED BY <1>2, <1>3, <1>4, <1>5, <1>6

LEMMA PanicOrCut == ASSUME RemoteInv, panic \/ cut \/ disconnected PROVE RemoteInv'
BY DEF RemoteInv, panic, cut, disconnected, RemoteTypeOK, Decided, Honest, OnItsWay, EndedWell, Forwarding, Outcomes

LEMMA ForwardStep == ASSUME RemoteInv, run_pipeline PROVE RemoteInv'
<1> USE DEF RemoteInv
<1> DEFINE e == Head(events)
<1>1. events # << >> /\ events \in Seq(Events) /\ stream \in Seq(Events) /\ e \in Events /\ e = events[1]
    BY DEF run_pipeline, RemoteTypeOK
<1>2. encode_event(e) \in Events
    BY <1>1 DEF encode_event, Events, Outcomes
<1>3. events' = Tail(events) /\ stream' = Append(stream, encode_event(e)) /\ UNCHANGED <<task, outcome, recorded, sent, link, cli, shown>>
    BY DEF run_pipeline
<1>4. e \in Outcomes => e = outcome
    BY <1>1 DEF Honest
<1> HIDE DEF e
<1>5. encode_event(e) \in Outcomes => outcome \in Outcomes /\ encode_event(e) = encode_event(outcome)
    BY <1>4 DEF encode_event, Outcomes
<1>6. RemoteTypeOK'
    BY <1>1, <1>2, <1>3 DEF RemoteTypeOK
<1>7. Decided' /\ EndedWell'
    BY <1>3 DEF Decided, EndedWell
<1>8. \A i \in DOMAIN events' : events'[i] = events[i + 1] /\ i + 1 \in DOMAIN events
    BY <1>1, <1>3
<1>9. \A i \in DOMAIN stream' : (i \in DOMAIN stream /\ stream'[i] = stream[i]) \/ stream'[i] = encode_event(e)
    BY <1>1, <1>2, <1>3
<1>10. Honest'
    BY <1>3, <1>5, <1>8, <1>9 DEF Honest, encode_event
<1>11. OnItsWay'
  <2> SUFFICES ASSUME Forwarding', task' = "ended" PROVE OnItsWay'
      BY DEF OnItsWay
  <2>1. Forwarding /\ task = "ended"
      BY <1>3 DEF Forwarding
  <2>2. events[Len(events)] = outcome
      BY <1>1, <2>1 DEF OnItsWay
  <2>3. CASE Len(events) = 1
    <3>1. events' = << >> /\ e = outcome
        BY <1>1, <1>3, <2>2, <2>3
    <3>2. stream' # << >> /\ stream'[Len(stream')] = encode_event(outcome)
        BY <1>1, <1>2, <1>3, <3>1
    <3> QED BY <1>3, <3>1, <3>2 DEF OnItsWay, encode_event
  <2>4. CASE Len(events) > 1
    <3>1. events' # << >> /\ events'[Len(events')] = outcome
        BY <1>1, <1>3, <2>2, <2>4, TailKeepsLast
    <3> QED BY <1>3, <3>1 DEF OnItsWay
  <2>5. Len(events) \in Nat /\ Len(events) > 0
      BY <1>1
  <2> QED BY <2>3, <2>4, <2>5
<1> QED BY <1>6, <1>7, <1>10, <1>11

LEMMA ReadStep == ASSUME RemoteInv, read PROVE RemoteInv'
<1> USE DEF RemoteInv
<1> DEFINE e == Head(stream)
<1>1. stream # << >> /\ stream \in Seq(Events) /\ e \in Events /\ e = stream[1] /\ 1 \in DOMAIN stream
    BY DEF read, RemoteTypeOK
<1>2. /\ stream' = Tail(stream) /\ shown' = e /\ cli' = IF e = "failed" THEN "failed" ELSE "reading"
      /\ cli = "reading" /\ link = "up" /\ UNCHANGED <<task, outcome, recorded, sent, events, link>>
    BY DEF read
<1>3. e \in Outcomes => outcome \in Outcomes /\ e = encode_event(outcome)
    BY <1>1 DEF Honest
<1> HIDE DEF e
<1>4. RemoteTypeOK'
    BY <1>1, <1>2 DEF RemoteTypeOK
<1>5. Decided' /\ EndedWell'
    BY <1>2 DEF Decided, EndedWell
<1>6. \A i \in DOMAIN stream' : stream'[i] = stream[i + 1] /\ i + 1 \in DOMAIN stream
    BY <1>1, <1>2
<1>7. e = "failed" => outcome \in {"failed", "cancelled"}
    BY <1>3 DEF encode_event, Outcomes
<1>8. Honest'
    BY <1>2, <1>3, <1>6, <1>7 DEF Honest, encode_event
<1>9. OnItsWay'
  <2> SUFFICES ASSUME Forwarding', task' = "ended" PROVE OnItsWay'
      BY DEF OnItsWay
  <2>1. Forwarding /\ task = "ended" /\ e # "failed"
      BY <1>2 DEF Forwarding
  <2>2. CASE events # << >>
      BY <1>1, <1>2, <2>1, <2>2 DEF OnItsWay
  <2>3. CASE events = << >>
    <3>1. stream[Len(stream)] = encode_event(outcome)
        BY <1>1, <2>1, <2>3 DEF OnItsWay
    <3>2. CASE Len(stream) = 1
      <4>1. stream' = << >> /\ shown' = encode_event(outcome)
          BY <1>1, <1>2, <3>1, <3>2
      <4> QED BY <1>2, <2>1, <2>3, <4>1 DEF OnItsWay, encode_event
    <3>3. CASE Len(stream) > 1
      <4>1. stream' # << >> /\ stream'[Len(stream')] = encode_event(outcome)
          BY <1>1, <1>2, <3>1, <3>3, TailKeepsLast
      <4> QED BY <1>2, <2>3, <4>1 DEF OnItsWay, encode_event
    <3>4. Len(stream) \in Nat /\ Len(stream) > 0
        BY <1>1
    <3> QED BY <3>2, <3>3, <3>4
  <2> QED BY <2>2, <2>3
<1> QED BY <1>4, <1>5, <1>8, <1>9

LEMMA FinishStep == ASSUME RemoteInv, finish PROVE RemoteInv'
<1> USE DEF RemoteInv
<1>1. RemoteTypeOK' /\ Decided' /\ Honest'
    BY DEF finish, RemoteTypeOK, Decided, Honest, encode_event
<1>2. OnItsWay'
    BY DEF finish, OnItsWay, Forwarding
<1>3. EndedWell'
  <2>1. CASE task = "died"
      BY <2>1 DEF finish, EndedWell
  <2>2. CASE task = "ended"
    <3>1. Forwarding /\ events = << >> /\ stream = << >>
        BY <2>2 DEF finish, Forwarding, StreamEnded
    <3>2. shown = encode_event(outcome) /\ shown # "failed" /\ outcome \in Outcomes
        BY <2>2, <3>1 DEF OnItsWay, Decided
    <3>3. outcome = "completed" /\ shown = "completed"
        BY <3>2 DEF encode_event, Outcomes
    <3> QED BY <2>2, <3>3 DEF finish, EndedWell, Decided
  <2> QED BY <2>1, <2>2 DEF finish, StreamEnded
<1> QED BY <1>1, <1>2, <1>3

LEMMA RemoteNextInv == RemoteInv /\ [RemoteNext]_remoteVars => RemoteInv'
<1> SUFFICES ASSUME RemoteInv, [RemoteNext]_remoteVars PROVE RemoteInv'
    OBVIOUS
<1>1. CASE UNCHANGED remoteVars
    BY <1>1 DEF remoteVars, RemoteInv, RemoteTypeOK, Decided, Honest, OnItsWay, EndedWell, Forwarding, encode_event
<1> QED
    BY <1>1, BeginStep, ProgressStep, DecideStep, AnnounceStep, PanicOrCut, ForwardStep, ReadStep, FinishStep DEF RemoteNext

\* The exit code of the command tells what became of the job, for channels of
\* any capacity, whenever the connection breaks, the job is cancelled or the
\* engine's task panics; only a panic can pass for a success.
THEOREM TheCommandTellsTheTruth == RemoteSpec => []ReportedIsRecorded
<1>1. RemoteInv => ReportedIsRecorded
    BY DEF RemoteInv, RemoteTypeOK, Decided, Honest, EndedWell, ReportedIsRecorded, encode_event, Outcomes, Events
<1> QED BY <1>1, RemoteInitInv, RemoteNextInv, PTL DEF RemoteSpec

-----------------------------------------------------------------------------
(* Tokens.                                                                 *)

Sessions == [issued : Nat, approved : BOOLEAN]
\* A token for a code carries the code and when that was handed out.
Tokens(headers) ==
    [exp : Nat, from : [by : {"basic"}, header : headers] \cup [by : {"code"}, code : Codes, issued : Nat]]
\* The token's lifetime begins while the code still counts.
Earned(t) ==
    t.from.by = "code" =>
        /\ sessions[t.from.code] # Nobody /\ sessions[t.from.code].approved
        /\ t.exp <= t.from.issued + expires_in + TokenTtl
TokenInv(headers) ==
    /\ now \in Nat /\ tokens \in Seq(Tokens(headers)) /\ sessions \in [Codes -> Sessions \cup {Nobody}]
    /\ \A i \in DOMAIN tokens : Earned(tokens[i])

\* An approval stays, whatever becomes of other sessions.
LEMMA EarnedStays ==
    ASSUME NEW headers, TokenInv(headers), UNCHANGED tokens, now' \in Nat,
           sessions' \in [Codes -> Sessions \cup {Nobody}],
           \A c \in Codes : sessions[c] # Nobody /\ sessions[c].approved => sessions'[c] # Nobody /\ sessions'[c].approved
    PROVE  TokenInv(headers)'
<1>1. ASSUME NEW i \in DOMAIN tokens PROVE Earned(tokens[i])'
  <2>1. tokens[i] \in Tokens(headers)
      BY DEF TokenInv
  <2>2. tokens[i].from.by = "code" => tokens[i].from.code \in Codes
      BY <2>1 DEF Tokens
  <2>3. Earned(tokens[i])
      BY DEF TokenInv
  <2> QED BY <2>2, <2>3 DEF Earned
<1> QED BY <1>1 DEF TokenInv

LEMMA IssueStep ==
    ASSUME NEW headers, TokenInv(headers), NEW from,
           from \in [by : {"basic"}, header : headers] \cup [by : {"code"}, code : Codes, issued : Nat],
           issue(from), UNCHANGED <<now, sessions>>, Earned([exp |-> now + TokenTtl, from |-> from])
    PROVE  TokenInv(headers)'
<1>1. PICK t : t = [exp |-> now + TokenTtl, from |-> from]
    OBVIOUS
<1>2. t \in Tokens(headers) /\ Earned(t)
    BY <1>1, AccessAssumption DEF Tokens, TokenInv
<1>3. tokens' = Append(tokens, t) /\ tokens \in Seq(Tokens(headers))
    BY <1>1 DEF issue, TokenInv
<1>4. /\ tokens' \in Seq(Tokens(headers)) /\ DOMAIN tokens' = 1..(Len(tokens) + 1)
      /\ \A i \in DOMAIN tokens : tokens'[i] = tokens[i]
      /\ tokens'[Len(tokens) + 1] = t /\ DOMAIN tokens = 1..Len(tokens) /\ Len(tokens) \in Nat
    BY <1>2, <1>3
<1>5. ASSUME NEW i \in DOMAIN tokens' PROVE Earned(tokens'[i])
  <2>1. i \in DOMAIN tokens \/ i = Len(tokens) + 1
      BY <1>4
  <2> QED BY <1>2, <1>4, <2>1 DEF TokenInv
<1>6. \A x : Earned(x)' <=> Earned(x)
    BY DEF Earned
<1>7. \A i \in DOMAIN tokens' : Earned(tokens[i])'
    BY <1>5, <1>6
<1> QED BY <1>4, <1>7 DEF TokenInv

LEMMA AccessNextInv == ASSUME NEW headers PROVE TokenInv(headers) /\ [AccessNext(headers)]_accessVars => TokenInv(headers)'
<1> SUFFICES ASSUME TokenInv(headers), [AccessNext(headers)]_accessVars PROVE TokenInv(headers)'
    OBVIOUS
<1>0. now \in Nat /\ sessions \in [Codes -> Sessions \cup {Nobody}] /\ Nobody \notin Sessions
    BY AccessAssumption DEF TokenInv, Sessions
<1>1. CASE UNCHANGED accessVars
    BY <1>0, <1>1, EarnedStays DEF accessVars
<1>2. CASE tick
  <2>1. now' = now + 1 /\ UNCHANGED <<tokens, sessions>>
      BY <1>2 DEF tick
  <2> QED BY <1>0, <2>1, EarnedStays
<1>3. CASE device_init
  <2>1. PICK c \in Codes : sessions[c] = Nobody /\ sessions' = [sessions EXCEPT ![c] = [issued |-> now, approved |-> FALSE]]
      BY <1>3 DEF device_init
  <2>2. UNCHANGED <<now, tokens>>
      BY <1>3 DEF device_init
  <2>3. [issued |-> now, approved |-> FALSE] \in Sessions
      BY <1>0 DEF Sessions
  <2>4. sessions' \in [Codes -> Sessions \cup {Nobody}]
      BY <1>0, <2>1, <2>3
  <2>5. \A b \in Codes : sessions[b] # Nobody => sessions'[b] = sessions[b]
      BY <1>0, <2>1
  <2> QED BY <1>0, <2>2, <2>4, <2>5, EarnedStays
<1>4. ASSUME NEW c \in Codes, approve(c) PROVE TokenInv(headers)'
  <2>1. sessions[c] # Nobody /\ sessions' = [sessions EXCEPT ![c].approved = TRUE] /\ UNCHANGED <<now, tokens>>
      BY <1>4 DEF approve
  <2>2. sessions[c] \in Sessions
      BY <1>0, <2>1
  <2>3. PICK r : r = [sessions[c] EXCEPT !.approved = TRUE]
      OBVIOUS
  <2>4. r \in Sessions /\ r.approved
      BY <2>2, <2>3 DEF Sessions
  <2>5. sessions' = [sessions EXCEPT ![c] = r]
      BY <1>0, <2>1, <2>3
  <2>6. sessions' \in [Codes -> Sessions \cup {Nobody}] /\ sessions'[c] = r /\ r # Nobody
      BY <1>0, <2>4, <2>5
  <2>7. \A b \in Codes : b # c => sessions'[b] = sessions[b]
      BY <1>0, <2>5
  <2> QED BY <1>0, <2>1, <2>4, <2>6, <2>7, EarnedStays
<1>5. ASSUME NEW h \in headers, credentials_basic(h) PROVE TokenInv(headers)'
  <2>1. issue([by |-> "basic", header |-> h]) /\ UNCHANGED <<now, sessions>>
      BY <1>5 DEF credentials_basic
  <2>2. Earned([exp |-> now + TokenTtl, from |-> [by |-> "basic", header |-> h]])
      BY DEF Earned
  <2> QED BY <2>1, <2>2, IssueStep
<1>6. ASSUME NEW c \in Codes, device_token(c) PROVE TokenInv(headers)'
  <2>1. /\ issue([by |-> "code", code |-> c, issued |-> sessions[c].issued]) /\ UNCHANGED <<now, sessions>>
        /\ poll(c) = "Approved"
      BY <1>6 DEF device_token
  <2>2. sessions[c] # Nobody /\ sessions[c].approved /\ ~(now > sessions[c].issued + expires_in)
      BY <2>1 DEF poll
  <2>3. sessions[c].issued \in Nat
      BY <1>0, <2>2 DEF Sessions
  <2>4. Earned([exp |-> now + TokenTtl, from |-> [by |-> "code", code |-> c, issued |-> sessions[c].issued]])
      BY <1>0, <2>2, <2>3, AccessAssumption DEF Earned
  <2> QED BY <2>1, <2>3, <2>4, IssueStep
<1> QED BY <1>1, <1>2, <1>3, <1>4, <1>5, <1>6 DEF AccessNext

\* Whatever headers clients send and however often a code is redeemed: a token
\* for a device code was given for an approved one, and has expired when the
\* code's and the token's lifetimes have passed (routes/credentials.rs).
THEOREM RedeemedTokensAreEarned == ASSUME NEW headers PROVE AccessSpec(headers) => []CodeTokensAreEarned
<1>1. AccessInit => TokenInv(headers)
    BY DEF AccessInit, TokenInv
<1>2. TokenInv(headers) => CodeTokensAreEarned
  <2> SUFFICES ASSUME TokenInv(headers), NEW t \in DOMAIN tokens, tokens[t].from.by = "code"
               PROVE  /\ sessions[tokens[t].from.code] # Nobody /\ sessions[tokens[t].from.code].approved
                      /\ is_valid(t) => now < tokens[t].from.issued + expires_in + TokenTtl
      BY DEF CodeTokensAreEarned
  <2>1. Earned(tokens[t]) /\ tokens[t] \in Tokens(headers) /\ now \in Nat
      BY DEF TokenInv
  <2>2. tokens[t].exp \in Nat /\ tokens[t].from.issued \in Nat
      BY <2>1 DEF Tokens
  <2> QED BY <2>1, <2>2, AccessAssumption DEF Earned, is_valid
<1> QED BY <1>1, <1>2, AccessNextInv, PTL DEF AccessSpec

-----------------------------------------------------------------------------
(* Passwords.                                                              *)

\* What occurs in a sequence has a first occurrence.
LEMMA FirstOccurrence ==
    ASSUME NEW s \in Seq(Nat), NEW c, \E i \in 1..Len(s) : s[i] = c
    PROVE  \E i \in DOMAIN s : s[i] = c /\ \A k \in 1..(i - 1) : s[k] # c
<1> DEFINE S == {i \in 1..Len(s) : s[i] = c}
<1>1. S \subseteq Nat /\ S # {}
    OBVIOUS
<1>2. PICK m \in S : \A n \in S : ~ (<<n, m>> \in OpToRel(<, Nat))
    BY <1>1, NatLessThanWellFounded, WFMin, Zenon
<1>3. \A n \in S : <<n, m>> \in Nat \X Nat /\ <<n, m>>[1] = n /\ <<n, m>>[2] = m
    BY <1>1
<1>4. \A n \in S : ~ (n < m)
    BY <1>2, <1>3, Zenon DEF OpToRel
<1>5. DOMAIN s = 1..Len(s) /\ m \in 1..Len(s) /\ s[m] = c /\ Len(s) \in Nat
    OBVIOUS
<1>6. ASSUME NEW k \in 1..(m - 1) PROVE s[k] # c
  <2>1. k \in 1..Len(s) /\ k < m
      BY <1>5
  <2> QED BY <1>4, <2>1
<1> QED BY <1>5, <1>6

\* A sequence is what stands before a place, at it and after it.
LEMMA CutAt ==
    ASSUME NEW s \in Seq(Nat), NEW i \in 1..Len(s)
    PROVE  /\ SubSeq(s, 1, i - 1) \in Seq(Nat) /\ SubSeq(s, i + 1, Len(s)) \in Seq(Nat)
           /\ s = SubSeq(s, 1, i - 1) \o <<s[i]>> \o SubSeq(s, i + 1, Len(s))
<1>1. PICK n, a, b : n = Len(s) /\ a = SubSeq(s, 1, i - 1) /\ b = SubSeq(s, i + 1, n)
    OBVIOUS
<1>2. n \in Nat /\ i \in 1..n /\ i - 1 \in Int /\ i + 1 \in Int /\ 1 \in Int /\ n \in Int
    BY <1>1
<1>3. (\A k \in 1..(i - 1) : s[k] \in Nat) /\ (\A k \in (i + 1)..n : s[k] \in Nat)
    BY <1>1, <1>2
<1>4. /\ a \in Seq(Nat) /\ Len(a) = IF 1 <= i - 1 THEN i - 1 - 1 + 1 ELSE 0
      /\ \A k \in 1..(i - 1 - 1 + 1) : a[k] = s[1 + k - 1]
    BY <1>1, <1>2, <1>3, SubSeqProperties
<1>5. /\ b \in Seq(Nat) /\ Len(b) = IF i + 1 <= n THEN n - (i + 1) + 1 ELSE 0
      /\ \A k \in 1..(n - (i + 1) + 1) : b[k] = s[i + 1 + k - 1]
    BY <1>1, <1>2, <1>3, SubSeqProperties
<1>6. Len(a) = i - 1 /\ \A k \in 1..(i - 1) : a[k] = s[k]
    BY <1>2, <1>4
<1>7. Len(b) = n - i /\ \A k \in 1..(n - i) : b[k] = s[i + k]
    BY <1>2, <1>5
<1>8. /\ a \o <<s[i]>> \in Seq(Nat) /\ Len(a \o <<s[i]>>) = i
      /\ \A k \in 1..i : (a \o <<s[i]>>)[k] = s[k]
  <2>1. <<s[i]>> \in Seq(Nat) /\ Len(<<s[i]>>) = 1 /\ <<s[i]>>[1] = s[i]
      OBVIOUS
  <2>2. /\ a \o <<s[i]>> \in Seq(Nat) /\ Len(a \o <<s[i]>>) = Len(a) + 1
        /\ \A k \in 1..(Len(a) + 1) : (a \o <<s[i]>>)[k] = IF k <= Len(a) THEN a[k] ELSE <<s[i]>>[k - Len(a)]
      BY <1>4, <2>1, ConcatProperties
  <2>3. Len(a) + 1 = i
      BY <1>2, <1>6
  <2>4. ASSUME NEW k \in 1..i PROVE (a \o <<s[i]>>)[k] = s[k]
    <3>1. CASE k = i
      <4>1. ~ (k <= Len(a)) /\ k - Len(a) = 1
          BY <1>2, <1>6, <3>1
      <4> QED BY <2>1, <2>2, <2>3, <3>1, <4>1
    <3>2. CASE k # i
      <4>1. k \in 1..(i - 1) /\ k <= Len(a)
          BY <1>2, <1>6, <3>2
      <4> QED BY <1>6, <2>2, <2>3, <4>1
    <3> QED BY <3>1, <3>2
  <2> QED BY <2>2, <2>3, <2>4
<1>9. PICK c : c = a \o <<s[i]>>
    OBVIOUS
<1>10. /\ c \o b \in Seq(Nat) /\ Len(c \o b) = n
       /\ \A k \in 1..n : (c \o b)[k] = s[k]
  <2>1. c \in Seq(Nat) /\ Len(c) = i /\ \A k \in 1..i : c[k] = s[k]
      BY <1>8, <1>9
  <2>2. /\ c \o b \in Seq(Nat) /\ Len(c \o b) = Len(c) + Len(b)
        /\ \A k \in 1..(Len(c) + Len(b)) : (c \o b)[k] = IF k <= Len(c) THEN c[k] ELSE b[k - Len(c)]
      BY <1>5, <2>1, ConcatProperties
  <2>3. Len(c) + Len(b) = n
      BY <1>2, <1>7, <2>1
  <2>4. ASSUME NEW k \in 1..n PROVE (c \o b)[k] = s[k]
    <3>1. CASE k <= i
      BY <1>2, <2>1, <2>2, <2>3, <3>1
    <3>2. CASE ~ (k <= i)
      <4>1. k - i \in 1..(n - i) /\ i + (k - i) = k
          BY <1>2, <3>2
      <4> QED BY <1>7, <2>1, <2>2, <2>3, <3>2, <4>1
    <3> QED BY <3>1, <3>2
  <2> QED BY <2>2, <2>3, <2>4
<1>11. c \o b = s
    BY <1>1, <1>10, SeqEqual
<1> QED BY <1>1, <1>4, <1>5, <1>9, <1>11

LEMMA ComparedInFull ==
    ASSUME NEW a \in Seq(Nat), NEW b \in Seq(Nat), constant_time_eq(a, b)
    PROVE  a = b
<1>1. Len(a) = Len(b) /\ \A i \in 1..Len(a) : a[i] = b[i]
    BY DEF constant_time_eq
<1> QED BY <1>1, SeqEqual

\* A header that matches a name and a password carries them: the cut at the
\* first colon loses nothing (auth/basic.rs: parse, matches).
LEMMA MatchingIsCarrying ==
    ASSUME NEW h, h # Nobody, Decodable({h}), NEW user \in Seq(Nat), NEW pass \in Seq(Nat),
           BasicCredentials(h) # Failed, matches(BasicCredentials(h), user, pass)
    PROVE  Carries(h, user, pass)
<1>1. PICK s : s = b64_decode(h.digits)
    OBVIOUS
<1>2. h.scheme = "Basic" /\ s # Failed /\ Contains(s, Colon)
    BY <1>1 DEF BasicCredentials
<1>3. s \in Seq(Nat)
    BY <1>1, <1>2 DEF Decodable
<1>4. PICK at : at = CHOOSE i \in DOMAIN s : s[i] = Colon /\ \A k \in 1..(i - 1) : s[k] # Colon
    OBVIOUS
<1>5. at \in DOMAIN s /\ s[at] = Colon
  <2>1. \E i \in DOMAIN s : s[i] = Colon /\ \A k \in 1..(i - 1) : s[k] # Colon
      BY <1>2, <1>3, FirstOccurrence DEF Contains
  <2> QED BY <1>4, <2>1
<1>6. PICK a, b : a = SubSeq(s, 1, at - 1) /\ b = SubSeq(s, at + 1, Len(s))
    OBVIOUS
<1>7. BasicCredentials(h) = <<a, b>>
    BY <1>1, <1>4, <1>6 DEF BasicCredentials
<1>8. at \in 1..Len(s)
    BY <1>3, <1>5
<1>9. a \in Seq(Nat) /\ b \in Seq(Nat) /\ s = a \o <<Colon>> \o b
    BY <1>3, <1>5, <1>6, <1>8, CutAt
<1>10. constant_time_eq(a, user) /\ constant_time_eq(b, pass)
    BY <1>7 DEF matches
<1>11. a = user /\ b = pass
    BY <1>9, <1>10, ComparedInFull
<1> QED BY <1>1, <1>2, <1>9, <1>11 DEF Carries

\* The policy is fixed at the start, and a token keeps the header it was for.
PasswordInv == policy \in Policies /\ PasswordTokensAreEarned

LEMMA PasswordStep ==
    ASSUME NEW headers, Decodable(headers), TokenInv(headers), PasswordInv, [AccessNext(headers)]_accessVars
    PROVE  PasswordInv'
<1>1. UNCHANGED policy
    BY DEF AccessNext, accessVars, tick, device_init, credentials_basic, approve, device_token
<1>2. CASE UNCHANGED tokens
    BY <1>1, <1>2 DEF PasswordInv, PasswordTokensAreEarned
<1>3. ASSUME NEW from, issue(from),
             \/ from.by = "code" \/ policy.kind = "open"
             \/ policy.basic # Nobody /\ Carries(from.header, policy.basic[1], policy.basic[2])
      PROVE  PasswordInv'
  <2>1. PICK t : t = [exp |-> now + TokenTtl, from |-> from]
      OBVIOUS
  <2>2. t.from = from /\ tokens' = Append(tokens, t) /\ tokens \in Seq(Tokens(headers))
      BY <1>3, <2>1 DEF issue, TokenInv
  <2>3. /\ DOMAIN tokens' = 1..(Len(tokens) + 1) /\ \A i \in DOMAIN tokens : tokens'[i] = tokens[i]
        /\ tokens'[Len(tokens) + 1] = t /\ DOMAIN tokens = 1..Len(tokens) /\ Len(tokens) \in Nat
      BY <2>2
  <2>4. ASSUME NEW i \in DOMAIN tokens', tokens'[i].from.by # "code"
        PROVE  \/ policy.kind = "open"
               \/ policy.basic # Nobody /\ Carries(tokens'[i].from.header, policy.basic[1], policy.basic[2])
    <3>1. i \in DOMAIN tokens \/ i = Len(tokens) + 1
        BY <2>3
    <3>2. CASE i \in DOMAIN tokens
        BY <2>3, <2>4, <3>2 DEF PasswordInv, PasswordTokensAreEarned
    <3>3. CASE i = Len(tokens) + 1
        BY <1>3, <2>2, <2>3, <2>4, <3>3
    <3> QED BY <3>1, <3>2, <3>3
  <2> QED BY <1>1, <2>4 DEF PasswordInv, PasswordTokensAreEarned, Carries
<1>4. ASSUME NEW h \in headers, credentials_basic(h) PROVE PasswordInv'
  <2>1. issue([by |-> "basic", header |-> h]) /\ BasicAccepted(policy, h)
      BY <1>4 DEF credentials_basic
  <2>2. policy.kind = "open" \/ (policy.basic # Nobody /\ Carries(h, policy.basic[1], policy.basic[2]))
    <3>1. CASE policy.kind = "open"
        BY <3>1
    <3>2. CASE policy.kind # "open"
      <4>1. /\ h # Nobody /\ policy.basic # Nobody /\ BasicCredentials(h) # Failed
            /\ matches(BasicCredentials(h), policy.basic[1], policy.basic[2])
          BY <2>1, <3>2 DEF BasicAccepted
      <4>2. policy.basic[1] \in Seq(Nat) /\ policy.basic[2] \in Seq(Nat)
          BY <4>1, AccessAssumption DEF PasswordInv
      <4>3. Decodable({h})
          BY DEF Decodable
      <4> QED BY <4>1, <4>2, <4>3, MatchingIsCarrying
    <3> QED BY <3>1, <3>2
  <2> QED BY <1>3, <2>1, <2>2
<1>5. ASSUME NEW c \in Codes, device_token(c) PROVE PasswordInv'
  <2>1. issue([by |-> "code", code |-> c, issued |-> sessions[c].issued])
      BY <1>5 DEF device_token
  <2> QED BY <1>3, <2>1
<1> QED BY <1>2, <1>4, <1>5 DEF AccessNext, accessVars, tick, device_init, approve

\* Whatever headers clients send, in whatever base64 form: a token given for a
\* password was given for the configured name and password, unless the server
\* is open to everybody (routes/credentials.rs: credentials_basic).
THEOREM LoginsKnowThePassword ==
    ASSUME NEW headers, Decodable(headers)
    PROVE  AccessSpec(headers) => []PasswordTokensAreEarned
<1>1. AccessInit => TokenInv(headers) /\ PasswordInv
    BY DEF AccessInit, TokenInv, PasswordInv, PasswordTokensAreEarned
<1>2. TokenInv(headers) /\ PasswordInv /\ [AccessNext(headers)]_accessVars => (TokenInv(headers) /\ PasswordInv)'
    BY AccessNextInv, PasswordStep
<1>3. PasswordInv => PasswordTokensAreEarned
    BY DEF PasswordInv
<1> QED BY <1>1, <1>2, <1>3, PTL DEF AccessSpec

\* Every token was earned by an approved code in its lifetime or by the
\* configured name and password (routes/credentials.rs: poll, credentials_basic).
THEOREM TokensAreAlwaysEarned ==
    ASSUME NEW headers, Decodable(headers)
    PROVE  AccessSpec(headers) => []TokensAreEarned
<1>1. CodeTokensAreEarned /\ PasswordTokensAreEarned => TokensAreEarned
    BY DEF TokensAreEarned
<1> QED BY <1>1, RedeemedTokensAreEarned, LoginsKnowThePassword, PTL

-----------------------------------------------------------------------------
(* The two file stores.                                                    *)

\* A name without a slash: what one segment of a URL holds.
Segments == {u \in Seq(Nat) : \A i \in 1..Len(u) : u[i] # Slash}

LEMMA KeyShape ==
    ASSUME NEW u \in Seq(Nat), NEW p \in Seq(Nat)
    PROVE  /\ Prefix(u) \in Seq(Nat) /\ Len(Prefix(u)) = Len(u) + 1
           /\ key_to_path(u, p) \in Seq(Nat) /\ Len(key_to_path(u, p)) = Len(u) + 1 + Len(p)
           /\ Prefix(u)[Len(u) + 1] = Slash /\ key_to_path(u, p)[Len(u) + 1] = Slash
           /\ \A i \in 1..Len(u) : Prefix(u)[i] = u[i] /\ key_to_path(u, p)[i] = u[i]
           /\ \A i \in 1..Len(p) : key_to_path(u, p)[Len(u) + 1 + i] = p[i]
<1>1. <<Slash>> \in Seq(Nat) /\ Len(<<Slash>>) = 1 /\ <<Slash>>[1] = Slash
    BY DEF Slash
<1>2. Len(u) \in Nat /\ Len(p) \in Nat
    OBVIOUS
<1>3. /\ Prefix(u) \in Seq(Nat) /\ Len(Prefix(u)) = Len(u) + 1
      /\ \A i \in 1..(Len(u) + 1) : Prefix(u)[i] = IF i <= Len(u) THEN u[i] ELSE <<Slash>>[i - Len(u)]
    BY <1>1, ConcatProperties DEF Prefix
<1>4. key_to_path(u, p) = Prefix(u) \o p
    BY DEF key_to_path, Prefix
<1>5. /\ key_to_path(u, p) \in Seq(Nat) /\ Len(key_to_path(u, p)) = Len(u) + 1 + Len(p)
      /\ \A i \in 1..(Len(u) + 1 + Len(p)) :
            key_to_path(u, p)[i] = IF i <= Len(u) + 1 THEN Prefix(u)[i] ELSE p[i - (Len(u) + 1)]
  <2>1. PICK f \in Seq(Nat) : f = Prefix(u)
      BY <1>3
  <2>2. /\ f \o p \in Seq(Nat) /\ Len(f \o p) = Len(f) + Len(p)
        /\ \A i \in 1..(Len(f) + Len(p)) : (f \o p)[i] = IF i <= Len(f) THEN f[i] ELSE p[i - Len(f)]
      BY ConcatProperties
  <2>3. Len(f) = Len(u) + 1 /\ key_to_path(u, p) = f \o p
      BY <1>3, <1>4, <2>1
  <2> QED BY <2>1, <2>2, <2>3, Zenon
<1>6. Prefix(u)[Len(u) + 1] = Slash /\ \A i \in 1..Len(u) : Prefix(u)[i] = u[i]
  <2>1. Len(u) + 1 \in 1..(Len(u) + 1) /\ ~(Len(u) + 1 <= Len(u)) /\ Len(u) + 1 - Len(u) = 1
      BY <1>2
  <2>2. \A i \in 1..Len(u) : i \in 1..(Len(u) + 1) /\ i <= Len(u)
      BY <1>2
  <2> QED BY <1>1, <1>3, <2>1, <2>2
<1>7. /\ Len(u) + 1 \in 1..(Len(u) + 1 + Len(p))
      /\ \A i \in 1..Len(u) : i \in 1..(Len(u) + 1 + Len(p)) /\ i <= Len(u) + 1
      /\ \A i \in 1..Len(p) : /\ Len(u) + 1 + i \in 1..(Len(u) + 1 + Len(p)) /\ ~(Len(u) + 1 + i <= Len(u) + 1)
                              /\ Len(u) + 1 + i - (Len(u) + 1) = i
    BY <1>2
<1> HIDE DEF key_to_path, Prefix
<1>8. key_to_path(u, p)[Len(u) + 1] = Slash
  <2>1. Len(u) + 1 <= Len(u) + 1
      BY <1>2
  <2> QED BY <1>5, <1>6, <1>7, <2>1, Zenon
<1>9. ASSUME NEW i \in 1..Len(u) PROVE key_to_path(u, p)[i] = u[i]
    BY <1>5, <1>6, <1>7, Zenon
<1>10. ASSUME NEW i \in 1..Len(p) PROVE key_to_path(u, p)[Len(u) + 1 + i] = p[i]
  <2>1. PICK j \in 1..(Len(u) + 1 + Len(p)) : j = Len(u) + 1 + i
      BY <1>7
  <2>2. ~(j <= Len(u) + 1) /\ j - (Len(u) + 1) = i
      BY <1>2, <2>1
  <2>3. key_to_path(u, p)[j] = IF j <= Len(u) + 1 THEN Prefix(u)[j] ELSE p[j - (Len(u) + 1)]
      BY <1>5, Zenon
  <2> QED BY <2>1, <2>2, <2>3, Zenon
<1> QED BY <1>3, <1>5, <1>6, <1>8, <1>9, <1>10, Zenon

\* A directory's prefix is that of one user only: the first slash of a location
\* ends the user's name.
LEMMA PrefixTellsTheUser ==
    ASSUME NEW u \in Segments, NEW v \in Segments, NEW p \in Seq(Nat),
           Len(u) + 1 <= Len(key_to_path(v, p)),
           \A i \in 1..(Len(u) + 1) : key_to_path(v, p)[i] = Prefix(u)[i]
    PROVE  u = v
<1>1. u \in Seq(Nat) /\ v \in Seq(Nat) /\ Len(u) \in Nat /\ Len(v) \in Nat /\ Len(p) \in Nat
    BY DEF Segments
<1>2. /\ Prefix(u)[Len(u) + 1] = Slash /\ \A i \in 1..Len(u) : Prefix(u)[i] = u[i]
      /\ key_to_path(v, p)[Len(v) + 1] = Slash /\ \A i \in 1..Len(v) : key_to_path(v, p)[i] = v[i]
  <2>1. Prefix(u)[Len(u) + 1] = Slash /\ \A i \in 1..Len(u) : Prefix(u)[i] = u[i]
      BY <1>1, KeyShape
  <2>2. key_to_path(v, p)[Len(v) + 1] = Slash /\ \A i \in 1..Len(v) : key_to_path(v, p)[i] = v[i]
      BY <1>1, KeyShape
  <2> QED BY <2>1, <2>2
<1>3. ~(Len(u) < Len(v))
  <2> SUFFICES ASSUME Len(u) < Len(v) PROVE FALSE
      OBVIOUS
  <2>1. Len(u) + 1 \in 1..Len(v) /\ Len(u) + 1 \in 1..(Len(u) + 1)
      BY <1>1
  <2>2. key_to_path(v, p)[Len(u) + 1] = v[Len(u) + 1] /\ key_to_path(v, p)[Len(u) + 1] = Slash
      BY <1>2, <2>1
  <2> QED BY <2>1, <2>2 DEF Segments
<1>4. ~(Len(v) < Len(u))
  <2> SUFFICES ASSUME Len(v) < Len(u) PROVE FALSE
      OBVIOUS
  <2>1. Len(v) + 1 \in 1..Len(u) /\ Len(v) + 1 \in 1..(Len(u) + 1)
      BY <1>1
  <2>2. u[Len(v) + 1] = Slash
      BY <1>2, <2>1
  <2> QED BY <2>1, <2>2 DEF Segments
<1>5. Len(u) = Len(v)
    BY <1>1, <1>3, <1>4
<1>6. \A i \in 1..Len(u) : u[i] = v[i]
  <2>1. \A i \in 1..Len(u) : i \in 1..(Len(u) + 1) /\ i \in 1..Len(v)
      BY <1>1, <1>5
  <2> QED BY <1>2, <2>1
<1> QED BY <1>1, <1>5, <1>6, SeqEqual

\* A location belongs to one user's directory, and names one file there.
LEMMA UnderIsOwn ==
    ASSUME NEW u \in Segments, NEW v \in Segments, NEW p \in Seq(Nat)
    PROVE  Under(u, key_to_path(v, p)) <=> u = v
<1>1. u \in Seq(Nat) /\ v \in Seq(Nat) /\ Len(u) \in Nat /\ Len(v) \in Nat /\ Len(p) \in Nat
    BY DEF Segments
<1>2. PICK k, f, n : k = key_to_path(v, p) /\ f = Prefix(u) /\ n = Len(u) + 1
    OBVIOUS
<1>3. n \in Nat /\ k \in Seq(Nat) /\ f \in Seq(Nat) /\ Len(f) = n /\ Len(k) = Len(v) + 1 + Len(p)
    BY <1>1, <1>2, KeyShape
<1>4. Under(u, k) <=> n <= Len(k) /\ SubSeq(f, 1, n) = SubSeq(k, 1, n)
    BY <1>2, <1>3 DEF Under, IsPrefix
<1>5. \A i \in 1..n : f[i] \in Nat
    BY <1>3
<1>6. SubSeq(f, 1, n) \in Seq(Nat) /\ Len(SubSeq(f, 1, n)) = n /\ \A i \in 1..n : SubSeq(f, 1, n)[i] = f[i]
  <2>1. /\ SubSeq(f, 1, n) \in Seq(Nat) /\ Len(SubSeq(f, 1, n)) = IF 1 <= n THEN n - 1 + 1 ELSE 0
        /\ \A i \in 1..(n - 1 + 1) : SubSeq(f, 1, n)[i] = f[1 + i - 1]
      BY <1>3, <1>5, SubSeqProperties
  <2>2. (IF 1 <= n THEN n - 1 + 1 ELSE 0) = n /\ n - 1 + 1 = n /\ \A i \in 1..n : 1 + i - 1 = i
      BY <1>3
  <2> QED BY <2>1, <2>2
<1>7. n <= Len(k) => /\ SubSeq(k, 1, n) \in Seq(Nat) /\ Len(SubSeq(k, 1, n)) = n
                     /\ \A i \in 1..n : SubSeq(k, 1, n)[i] = k[i]
  <2> SUFFICES ASSUME n <= Len(k) PROVE /\ SubSeq(k, 1, n) \in Seq(Nat) /\ Len(SubSeq(k, 1, n)) = n
                                        /\ \A i \in 1..n : SubSeq(k, 1, n)[i] = k[i]
      OBVIOUS
  <2>0. \A i \in 1..n : k[i] \in Nat
      BY <1>3
  <2>1. /\ SubSeq(k, 1, n) \in Seq(Nat) /\ Len(SubSeq(k, 1, n)) = IF 1 <= n THEN n - 1 + 1 ELSE 0
        /\ \A i \in 1..(n - 1 + 1) : SubSeq(k, 1, n)[i] = k[1 + i - 1]
      BY <1>3, <2>0, SubSeqProperties
  <2>2. (IF 1 <= n THEN n - 1 + 1 ELSE 0) = n /\ n - 1 + 1 = n /\ \A i \in 1..n : 1 + i - 1 = i
      BY <1>3
  <2> QED BY <2>1, <2>2
<1>8. ASSUME Under(u, k) PROVE u = v
  <2>1. n <= Len(k) /\ \A i \in 1..n : k[i] = f[i]
      BY <1>4, <1>6, <1>7, <1>8
  <2> QED BY <1>2, <2>1, PrefixTellsTheUser
<1>9. ASSUME u = v PROVE Under(u, k)
  <2>1. n <= Len(k)
      BY <1>1, <1>2, <1>3, <1>9
  <2>2. \A i \in 1..n : f[i] = k[i]
    <3>1. /\ Prefix(u)[Len(u) + 1] = Slash /\ \A i \in 1..Len(u) : Prefix(u)[i] = u[i]
          /\ key_to_path(u, p)[Len(u) + 1] = Slash /\ \A i \in 1..Len(u) : key_to_path(u, p)[i] = u[i]
        BY <1>1, KeyShape
    <3>2. \A i \in 1..n : i \in 1..Len(u) \/ i = Len(u) + 1
        BY <1>1, <1>2
    <3> QED BY <1>2, <1>9, <3>1, <3>2
  <2>3. SubSeq(f, 1, n) = SubSeq(k, 1, n)
      BY <1>6, <1>7, <2>1, <2>2, SeqEqual
  <2> QED BY <1>4, <2>1, <2>3
<1> QED BY <1>2, <1>8, <1>9

LEMMA RestOfKey ==
    ASSUME NEW u \in Segments, NEW p \in Seq(Nat)
    PROVE  SubSeq(key_to_path(u, p), Len(Prefix(u)) + 1, Len(key_to_path(u, p))) = p
<1>1. u \in Seq(Nat) /\ Len(u) \in Nat /\ Len(p) \in Nat
    BY DEF Segments
<1>2. PICK k, m, n : k = key_to_path(u, p) /\ m = Len(u) + 2 /\ n = Len(u) + 1 + Len(p)
    OBVIOUS
<1>3. /\ k \in Seq(Nat) /\ Len(k) = n /\ Len(Prefix(u)) + 1 = m /\ m \in Int /\ n \in Int
      /\ \A i \in 1..Len(p) : k[Len(u) + 1 + i] = p[i]
  <2>1. /\ key_to_path(u, p) \in Seq(Nat) /\ Len(key_to_path(u, p)) = Len(u) + 1 + Len(p)
        /\ Len(Prefix(u)) = Len(u) + 1
        /\ \A i \in 1..Len(p) : key_to_path(u, p)[Len(u) + 1 + i] = p[i]
      BY <1>1, KeyShape
  <2>2. Len(u) + 1 + 1 = m /\ m \in Int /\ n \in Int
      BY <1>1, <1>2
  <2> QED BY <1>2, <2>1, <2>2
<1>4. \A i \in m..n : k[i] \in Nat
    BY <1>1, <1>2, <1>3
<1>5. /\ SubSeq(k, m, n) \in Seq(Nat) /\ Len(SubSeq(k, m, n)) = IF m <= n THEN n - m + 1 ELSE 0
      /\ \A i \in 1..(n - m + 1) : SubSeq(k, m, n)[i] = k[m + i - 1]
    BY <1>3, <1>4, SubSeqProperties
<1>6. (IF m <= n THEN n - m + 1 ELSE 0) = Len(p) /\ n - m + 1 = Len(p) /\ \A i \in 1..Len(p) : m + i - 1 = Len(u) + 1 + i
    BY <1>1, <1>2
<1>7. Len(SubSeq(k, m, n)) = Len(p) /\ \A i \in 1..Len(p) : SubSeq(k, m, n)[i] = p[i]
    BY <1>3, <1>5, <1>6
<1>8. SubSeq(k, m, n) = p
    BY <1>5, <1>7, SeqEqual
<1> QED BY <1>2, <1>3, <1>8

LEMMA KeysAreApart ==
    ASSUME NEW u \in Segments, NEW v \in Segments, NEW p \in Seq(Nat), NEW q \in Seq(Nat),
           key_to_path(u, p) = key_to_path(v, q)
    PROVE  u = v /\ p = q
<1>1. Under(u, key_to_path(u, p))
    BY UnderIsOwn
<1>2. u = v
    BY <1>1, UnderIsOwn
<1>3. p = q
    BY <1>2, RestOfKey
<1> QED BY <1>2, <1>3

\* What the two stores hold is the same, file by file, but for what the disk
\* refused; a stored process carries its own id.
SameFiles ==
    /\ DOMAIN mem \subseteq Users \X Paths
    /\ refused \subseteq DOMAIN mem
    /\ DOMAIN disk = {key_to_path(k[1], k[2]) : k \in DOMAIN mem \ refused}
    /\ \A k \in DOMAIN mem \ refused : disk[key_to_path(k[1], k[2])] = mem[k]
\* The disk is a tree: no file is a directory or has a reserved name, and what
\* it refused clashed with something it held.
Tree ==
    /\ DOMAIN disk \subseteq made
    /\ \A f \in DOMAIN disk : ~Reserved(f) /\ \A l \in made : ~Below(l, f)
    /\ \A k \in refused : Clashes(key_to_path(k[1], k[2]))
OwnIds == /\ udps = [i \in UdpIds |-> udps[i]]
          /\ \A i \in UdpIds : udps[i] # Gone => udps[i].id = i
StoreInv == SameFiles /\ Tree /\ OwnIds

\* The users and paths of requests, and the bodies of processes.
Plain(bodies) ==
    /\ Users \subseteq Segments /\ Paths \subseteq Seq(Nat)
    /\ \A b \in bodies : "id" \in DOMAIN b /\ b = [x \in DOMAIN b |-> b[x]]

\* No location lies below itself.
LEMMA NotBelowItself == ASSUME NEW loc \in Seq(Nat) PROVE ~Below(loc, loc)
<1>1. loc \o <<Slash>> \in Seq(Nat) /\ Len(loc \o <<Slash>>) = Len(loc) + 1 /\ Len(loc) \in Nat
  BY DEF Slash
<1> QED BY <1>1 DEF Below, IsPrefix

\* The key of a file in memory is its own.
LEMMA OwnKey ==
    ASSUME Users \subseteq Segments, Paths \subseteq Seq(Nat), SameFiles, NEW u \in Users, NEW p \in Paths,
           NEW k \in DOMAIN mem, key_to_path(k[1], k[2]) = key_to_path(u, p)
    PROVE  k = <<u, p>>
<1>1. k[1] \in Users /\ k[2] \in Paths /\ k = <<k[1], k[2]>>
    BY DEF SameFiles
<1>2. k[1] = u /\ k[2] = p
    BY <1>1, KeysAreApart
<1> QED BY <1>1, <1>2

LEMMA FilesUploaded ==
    ASSUME Users \subseteq Segments, Paths \subseteq Seq(Nat), SameFiles, NEW u \in Users, NEW p \in Paths, NEW c,
           mem' = Put(mem, <<u, p>>, c), disk' = Put(disk, key_to_path(u, p), c), refused' = refused \ {<<u, p>>}
    PROVE  SameFiles'
<1>1. DOMAIN mem' = DOMAIN mem \cup {<<u, p>>} /\ DOMAIN disk' = DOMAIN disk \cup {key_to_path(u, p)}
    BY DEF Put
<1>2. DOMAIN mem' \subseteq Users \X Paths /\ refused' \subseteq DOMAIN mem'
  <2>1. DOMAIN mem \subseteq Users \X Paths /\ refused \subseteq DOMAIN mem /\ <<u, p>> \in Users \X Paths
      BY DEF SameFiles
  <2> QED BY <1>1, <2>1
<1>0. DOMAIN mem' \ refused' = (DOMAIN mem \ refused) \cup {<<u, p>>}
    BY <1>1
<1>3. DOMAIN disk' = {key_to_path(k[1], k[2]) : k \in DOMAIN mem' \ refused'}
  <2>1. DOMAIN disk = {key_to_path(k[1], k[2]) : k \in DOMAIN mem \ refused}
      BY DEF SameFiles
  <2>2. PICK M : M = DOMAIN mem \ refused
      OBVIOUS
  <2>3. {key_to_path(k[1], k[2]) : k \in M \cup {<<u, p>>}} = {key_to_path(k[1], k[2]) : k \in M} \cup {key_to_path(u, p)}
      OBVIOUS
  <2> QED BY <1>0, <1>1, <2>1, <2>2, <2>3
<1>4. ASSUME NEW k \in DOMAIN mem' \ refused' PROVE disk'[key_to_path(k[1], k[2])] = mem'[k]
  <2>1. CASE k = <<u, p>>
      BY <2>1 DEF Put
  <2>2. CASE k # <<u, p>>
    <3>1. k \in DOMAIN mem \ refused
        BY <1>0, <2>2
    <3>2. key_to_path(k[1], k[2]) # key_to_path(u, p)
        BY <2>2, <3>1, OwnKey
    <3>3. key_to_path(k[1], k[2]) \in DOMAIN disk /\ disk[key_to_path(k[1], k[2])] = mem[k]
        BY <3>1 DEF SameFiles
    <3> QED BY <2>2, <3>1, <3>2, <3>3 DEF Put
  <2> QED BY <2>1, <2>2
<1> QED BY <1>2, <1>3, <1>4 DEF SameFiles

\* A put the disk refuses leaves it as it was: it held no file of that name.
LEMMA FilesRefused ==
    ASSUME Users \subseteq Segments, Paths \subseteq Seq(Nat), SameFiles, Tree, NEW u \in Users, NEW p \in Paths, NEW c,
           local_put_fails(key_to_path(u, p)), mem' = Put(mem, <<u, p>>, c), refused' = refused \cup {<<u, p>>},
           UNCHANGED <<disk, made>>
    PROVE  SameFiles' /\ Tree'
<1>1. PICK loc : loc = key_to_path(u, p)
    OBVIOUS
<1>2. loc \notin DOMAIN disk
    BY <1>1 DEF Tree, local_put_fails, UnderFile, IsDir
<1>3. Clashes(loc)
    BY <1>1 DEF Tree, local_put_fails, UnderFile, IsDir, Clashes
<1>4. <<u, p>> \notin DOMAIN mem \ refused
    BY <1>1, <1>2 DEF SameFiles
<1>5. DOMAIN mem' = DOMAIN mem \cup {<<u, p>>} /\ \A k \in DOMAIN mem : k # <<u, p>> => mem'[k] = mem[k]
    BY DEF Put
<1>6. DOMAIN mem' \ refused' = DOMAIN mem \ refused
    BY <1>4, <1>5
<1>7. \A k \in DOMAIN mem \ refused : mem'[k] = mem[k]
    BY <1>4, <1>5
<1>8. SameFiles'
  <2>0. DOMAIN mem \subseteq Users \X Paths /\ refused \subseteq DOMAIN mem /\ <<u, p>> \in Users \X Paths
      BY DEF SameFiles
  <2>1. DOMAIN mem' \subseteq Users \X Paths /\ refused' \subseteq DOMAIN mem'
      BY <1>5, <2>0
  <2> QED BY <1>6, <1>7, <2>1 DEF SameFiles
<1>9. \A k \in refused' : Clashes(key_to_path(k[1], k[2]))
    BY <1>1, <1>3 DEF Tree
<1>10. Tree'
    BY <1>9 DEF Tree, Clashes
<1> QED BY <1>8, <1>10

\* A put that succeeds keeps the tree: nothing lies below the new file, and it
\* lies below none.
LEMMA TreeGrows ==
    ASSUME Users \subseteq Segments, Paths \subseteq Seq(Nat), Tree, NEW u \in Users, NEW p \in Paths, NEW c,
           ~local_put_fails(key_to_path(u, p)), disk' = Put(disk, key_to_path(u, p), c),
           made' = made \cup {key_to_path(u, p)}, refused' \subseteq refused
    PROVE  Tree'
<1>1. PICK loc : loc = key_to_path(u, p)
    OBVIOUS
<1>2. loc \in Seq(Nat)
    BY <1>1, KeyShape DEF Segments
<1>3. DOMAIN disk' = DOMAIN disk \cup {loc} /\ made' = made \cup {loc}
    BY <1>1 DEF Put
<1>4. ~Reserved(loc) /\ (\A f \in DOMAIN disk : ~Below(loc, f)) /\ (\A l \in made : ~Below(l, loc))
    BY <1>1 DEF local_put_fails, UnderFile, IsDir
<1>5. ~Below(loc, loc)
    BY <1>2, NotBelowItself
<1>6. \A f \in DOMAIN disk' : ~Reserved(f) /\ \A l \in made' : ~Below(l, f)
    BY <1>3, <1>4, <1>5 DEF Tree
<1>7. DOMAIN disk' \subseteq made'
    BY <1>3 DEF Tree
<1>8. \A k \in refused' : (\E l \in made : Below(l, key_to_path(k[1], k[2])) \/ Below(key_to_path(k[1], k[2]), l))
          \/ Reserved(key_to_path(k[1], k[2]))
    BY DEF Tree, Clashes
<1>9. \A k \in refused' : Clashes(key_to_path(k[1], k[2]))'
    BY <1>3, <1>8 DEF Clashes
<1> QED BY <1>6, <1>7, <1>9 DEF Tree

LEMMA FilesDeleted ==
    ASSUME Users \subseteq Segments, Paths \subseteq Seq(Nat), SameFiles, NEW u \in Users, NEW p \in Paths,
           mem' = Restrict(mem, DOMAIN mem \ {<<u, p>>}),
           disk' = Restrict(disk, DOMAIN disk \ {key_to_path(u, p)}), refused' = refused \ {<<u, p>>}
    PROVE  SameFiles'
<1>1. /\ DOMAIN mem' = DOMAIN mem \ {<<u, p>>} /\ DOMAIN disk' = DOMAIN disk \ {key_to_path(u, p)}
      /\ \A k \in DOMAIN mem' : mem'[k] = mem[k]
      /\ \A l \in DOMAIN disk' : disk'[l] = disk[l]
    BY DEF Restrict
<1>2. DOMAIN mem' \subseteq Users \X Paths /\ refused' \subseteq DOMAIN mem'
  <2>1. DOMAIN mem \subseteq Users \X Paths /\ refused \subseteq DOMAIN mem
      BY DEF SameFiles
  <2> QED BY <1>1, <2>1
<1>0. DOMAIN mem' \ refused' = (DOMAIN mem \ refused) \ {<<u, p>>}
    BY <1>1
<1>3. \A k \in DOMAIN mem : key_to_path(k[1], k[2]) = key_to_path(u, p) <=> k = <<u, p>>
    BY OwnKey
<1>4. DOMAIN disk' = {key_to_path(k[1], k[2]) : k \in DOMAIN mem' \ refused'}
  <2>1. \A l \in DOMAIN disk : \E k \in DOMAIN mem \ refused : l = key_to_path(k[1], k[2])
      BY DEF SameFiles
  <2>2. \A k \in DOMAIN mem \ refused : key_to_path(k[1], k[2]) \in DOMAIN disk
      BY DEF SameFiles
  <2>3. ASSUME NEW l \in DOMAIN disk' PROVE \E k \in DOMAIN mem' \ refused' : l = key_to_path(k[1], k[2])
    <3>1. PICK k \in DOMAIN mem \ refused : l = key_to_path(k[1], k[2])
        BY <1>1, <2>1
    <3>2. k \in DOMAIN mem' \ refused'
        BY <1>0, <1>1, <1>3, <3>1
    <3> QED BY <3>1, <3>2
  <2>4. ASSUME NEW k \in DOMAIN mem' \ refused' PROVE key_to_path(k[1], k[2]) \in DOMAIN disk'
      BY <1>0, <1>1, <1>3, <2>2
  <2>5. {key_to_path(k[1], k[2]) : k \in DOMAIN mem' \ refused'} \subseteq DOMAIN disk'
      BY <2>4
  <2>6. DOMAIN disk' \subseteq {key_to_path(k[1], k[2]) : k \in DOMAIN mem' \ refused'}
      BY <2>3
  <2> QED BY <2>5, <2>6
<1>5. \A k \in DOMAIN mem' \ refused' : disk'[key_to_path(k[1], k[2])] = mem'[k]
    BY <1>0, <1>1, <1>4 DEF SameFiles
<1> QED BY <1>2, <1>4, <1>5 DEF SameFiles

\* Deleting leaves the directories, so what clashed still does.
LEMMA TreeShrinks ==
    ASSUME Tree, NEW loc, disk' = Restrict(disk, DOMAIN disk \ {loc}), made' = made, refused' \subseteq refused
    PROVE  Tree'
<1>1. DOMAIN disk' \subseteq DOMAIN disk
    BY DEF Restrict
<1> QED BY <1>1 DEF Tree, Clashes

LEMMA RequestNextInv ==
    ASSUME NEW bodies, Plain(bodies)
    PROVE  StoreInv /\ [RequestNext(bodies)]_requestVars => StoreInv'
<1> SUFFICES ASSUME StoreInv, [RequestNext(bodies)]_requestVars PROVE StoreInv'
    OBVIOUS
<1>0. Users \subseteq Segments /\ Paths \subseteq Seq(Nat)
    BY DEF Plain
<1>1. CASE UNCHANGED requestVars
    BY <1>1 DEF requestVars, fileVars, StoreInv, SameFiles, Tree, Clashes, OwnIds
<1>2. ASSUME NEW u \in Users, NEW p \in Paths, NEW c, upload_file(u, p, c) PROVE StoreInv'
  <2>0. mem' = Put(mem, <<u, p>>, c) /\ udps' = udps
      BY <1>2 DEF upload_file
  <2>1. CASE /\ ~local_put_fails(key_to_path(u, p)) /\ disk' = Put(disk, key_to_path(u, p), c)
             /\ made' = made \cup {key_to_path(u, p)} /\ refused' = refused \ {<<u, p>>}
    <3>1. SameFiles'
        BY <1>0, <2>0, <2>1, FilesUploaded DEF StoreInv
    <3>2. Tree'
        BY <1>0, <2>1, TreeGrows DEF StoreInv
    <3> QED BY <2>0, <3>1, <3>2 DEF StoreInv, OwnIds
  <2>2. CASE /\ local_put_fails(key_to_path(u, p)) /\ UNCHANGED <<disk, made>>
             /\ refused' = refused \cup {<<u, p>>}
    <3>1. SameFiles' /\ Tree'
        BY <1>0, <2>0, <2>2, FilesRefused DEF StoreInv
    <3> QED BY <2>0, <3>1 DEF StoreInv, OwnIds
  <2> QED BY <1>2, <2>1, <2>2 DEF upload_file
<1>3. ASSUME NEW u \in Users, NEW p \in Paths, delete_file(u, p) PROVE StoreInv'
  <2>1. /\ mem' = Restrict(mem, DOMAIN mem \ {<<u, p>>}) /\ udps' = udps
        /\ disk' = Restrict(disk, DOMAIN disk \ {key_to_path(u, p)})
        /\ refused' = refused \ {<<u, p>>} /\ made' = made
      BY <1>3 DEF delete_file
  <2>2. SameFiles'
      BY <1>0, <2>1, FilesDeleted DEF StoreInv
  <2>3. Tree'
      BY <2>1, TreeShrinks DEF StoreInv
  <2> QED BY <2>1, <2>2, <2>3 DEF StoreInv, OwnIds
<1>4. ASSUME NEW i \in UdpIds, NEW r, udps' = [udps EXCEPT ![i] = r], r # Gone => r.id = i, UNCHANGED fileVars
      PROVE  StoreInv'
  <2>1. /\ udps' = [j \in UdpIds |-> udps'[j]] /\ udps'[i] = r
        /\ \A j \in UdpIds : j # i => udps'[j] = udps[j]
      BY <1>4 DEF StoreInv, OwnIds
  <2>2. OwnIds'
      BY <1>4, <2>1 DEF StoreInv, OwnIds
  <2> QED BY <1>4, <2>2 DEF StoreInv, SameFiles, Tree, Clashes, fileVars
<1>5. ASSUME NEW i \in UdpIds, remove(i) PROVE StoreInv'
    BY <1>4, <1>5 DEF remove
<1>6. ASSUME NEW i \in UdpIds, NEW b \in bodies, store(i, b) PROVE StoreInv'
  <2>1. udp_put(i, b).id = i
      BY DEF Plain, udp_put
  <2>2. udps' = [udps EXCEPT ![i] = udp_put(i, b)] /\ UNCHANGED fileVars
      BY <1>6 DEF store
  <2> QED BY <1>4, <2>1, <2>2
<1> QED BY <1>1, <1>2, <1>3, <1>5, <1>6 DEF RequestNext

LEMMA StoresAreEqual == ASSUME Users \subseteq Segments, Paths \subseteq Seq(Nat), StoreInv PROVE StoresAgree
<1>1. ASSUME NEW k \in DOMAIN mem PROVE k[1] \in Users /\ k[2] \in Paths /\ k = <<k[1], k[2]>>
    BY DEF StoreInv, SameFiles
<1>2. ASSUME NEW u \in Users PROVE object_list(u) = {e \in memory_list(u) : <<u, e[1]>> \notin refused}
  <2>1. ASSUME NEW k \in DOMAIN mem \ refused
        PROVE  /\ Under(u, key_to_path(k[1], k[2])) <=> k[1] = u
               /\ k[1] = u => SubSeq(key_to_path(k[1], k[2]), Len(Prefix(u)) + 1, Len(key_to_path(k[1], k[2]))) = k[2]
               /\ key_to_path(k[1], k[2]) \in DOMAIN disk /\ disk[key_to_path(k[1], k[2])] = mem[k]
    <3>1. k[1] \in Segments /\ k[2] \in Seq(Nat) /\ u \in Segments
        BY <1>1
    <3>2. key_to_path(k[1], k[2]) \in DOMAIN disk /\ disk[key_to_path(k[1], k[2])] = mem[k]
        BY DEF StoreInv, SameFiles
    <3> QED BY <3>1, <3>2, UnderIsOwn, RestOfKey
  <2>2. \A l \in DOMAIN disk : \E k \in DOMAIN mem \ refused : l = key_to_path(k[1], k[2])
      BY DEF StoreInv, SameFiles
  <2>3. ASSUME NEW e \in object_list(u) PROVE e \in memory_list(u) /\ <<u, e[1]>> \notin refused
    <3>1. PICK l \in DOMAIN disk : Under(u, l) /\ e = <<SubSeq(l, Len(Prefix(u)) + 1, Len(l)), disk[l]>>
        BY <2>3 DEF object_list
    <3>2. PICK k \in DOMAIN mem \ refused : l = key_to_path(k[1], k[2])
        BY <2>2
    <3>3. k[1] = u /\ e = <<k[2], mem[k]>>
        BY <2>1, <3>1, <3>2
    <3>4. k = <<u, e[1]>>
        BY <1>1, <3>3
    <3> QED BY <3>3, <3>4 DEF memory_list
  <2>4. ASSUME NEW e \in memory_list(u), <<u, e[1]>> \notin refused PROVE e \in object_list(u)
    <3>1. PICK k \in DOMAIN mem : k[1] = u /\ e = <<k[2], mem[k]>>
        BY <2>4 DEF memory_list
    <3>2. PICK l : l = key_to_path(k[1], k[2])
        OBVIOUS
    <3>5. k \in DOMAIN mem \ refused
        BY <1>1, <2>4, <3>1
    <3>3. l \in DOMAIN disk /\ Under(u, l) /\ e = <<SubSeq(l, Len(Prefix(u)) + 1, Len(l)), disk[l]>>
        BY <2>1, <3>1, <3>2, <3>5
    <3> QED BY <3>3 DEF object_list
  <2> QED BY <2>3, <2>4
<1>3. ASSUME NEW u \in Users, NEW p \in ValidPaths
      PROVE  \/ object_get(u, p) = memory_get(u, p)
             \/ Clashes(key_to_path(u, p)) /\ (<<u, p>> \in refused \/ <<404, 500>> = <<memory_get(u, p), object_get(u, p)>>)
  <2>0. p \in Paths
      BY DEF ValidPaths
  <2>1. <<u, p>> \in DOMAIN mem \ refused => key_to_path(u, p) \in DOMAIN disk
      BY DEF StoreInv, SameFiles
  <2>2. ASSUME key_to_path(u, p) \in DOMAIN disk PROVE <<u, p>> \in DOMAIN mem \ refused
    <3>1. PICK k \in DOMAIN mem \ refused : key_to_path(u, p) = key_to_path(k[1], k[2])
        BY <2>2 DEF StoreInv, SameFiles
    <3> QED BY <2>0, <3>1, OwnKey DEF StoreInv
  <2>3. PICK loc : loc = key_to_path(u, p)
      OBVIOUS
  <2>4. loc \in DOMAIN disk => ~Reserved(loc) /\ ~UnderFile(loc)
      BY DEF StoreInv, Tree, UnderFile
  <2>5. Reserved(loc) \/ UnderFile(loc) => Clashes(loc)
      BY DEF StoreInv, Tree, UnderFile, Clashes
  <2>6. CASE <<u, p>> \in refused
      BY <2>6 DEF StoreInv, Tree
  <2>7. CASE <<u, p>> \in DOMAIN mem \ refused
      BY <2>1, <2>3, <2>4, <2>7 DEF object_get, memory_get
  <2>8. CASE <<u, p>> \notin DOMAIN mem
      BY <2>2, <2>3, <2>5, <2>8 DEF object_get, memory_get
  <2> QED BY <2>6, <2>7, <2>8
<1>5. \A k \in refused : Clashes(key_to_path(k[1], k[2]))
    BY DEF StoreInv, Tree
<1>4. {r.id : r \in list_summaries} = {udps[i].id : i \in {x \in UdpIds : udps[x] # Gone}}
  <2>1. \A i \in {x \in UdpIds : udps[x] # Gone} : udps[i].id = i
      BY DEF StoreInv, OwnIds
  <2>2. {r.id : r \in list_summaries} = {x \in UdpIds : udps[x] # Gone}
    <3>1. ASSUME NEW r \in list_summaries PROVE r.id \in {x \in UdpIds : udps[x] # Gone}
      <4>1. PICK i \in {x \in UdpIds : udps[x] # Gone} : r = [id |-> i, summary |-> udps[i].summary]
          BY <3>1 DEF list_summaries
      <4> QED BY <4>1
    <3>2. ASSUME NEW i \in {x \in UdpIds : udps[x] # Gone} PROVE \E r \in list_summaries : r.id = i
      <4>1. [id |-> i, summary |-> udps[i].summary] \in list_summaries
          BY DEF list_summaries
      <4>2. [id |-> i, summary |-> udps[i].summary].id = i
          OBVIOUS
      <4> QED BY <4>1, <4>2
    <3> QED BY <3>1, <3>2
  <2> QED BY <2>1, <2>2
<1> QED BY <1>2, <1>3, <1>4, <1>5 DEF StoresAgree

\* For users whose ids hold no slash, any paths, contents and processes, in any
\* order of uploads and deletions: both file stores list and find the same files,
\* but for those whose put the disk answered with an error because the name
\* clashed with one it held or reserves, and no user's listing shows another's
\* (file_store.rs, udp_store.rs).
THEOREM BothStoresKeepTheSameFiles ==
    ASSUME NEW bodies, Plain(bodies)
    PROVE  RequestSpec(bodies) => []StoresAgree
<1>1. RequestInit => StoreInv
    BY DEF RequestInit, StoreInv, SameFiles, Tree, OwnIds
<1>2. StoreInv => StoresAgree
    BY StoresAreEqual DEF Plain
<1> QED BY <1>1, <1>2, RequestNextInv, PTL DEF RequestSpec

-----------------------------------------------------------------------------
(* The job stores.                                                         *)

Steps == {"idle", "checked", "reading", "read", "written"}
Calls == [at : Steps, op : {"none", "append_log", "add_asset", "job_logs"}, job : Ids \cup {Absent},
          n : Nat, name : Names \cup {Absent}, seen : Nat, read : Seq(Entries) \cup Seq(Assets), owed : SUBSET Nat]

StoreTypeOK ==
    /\ backend \in {"memory", "sqlite"}
    /\ table \in [Ids -> Rows \cup {Absent}] /\ logs \in [Ids -> Seq(Entries)]
    /\ used \in SUBSET Ids /\ calls \in [Callers -> Calls]
    /\ commits \in Nat /\ writer \in Callers \cup {Absent} /\ spent \in Nat
    /\ acked \in [Ids -> SUBSET Nat] /\ raced \in [Ids -> SUBSET Nat]

\* A job nobody created yet has left no trace.
Fresh(j) == j \notin used => table[j] = Absent /\ logs[j] = << >> /\ acked[j] = {}
\* Only calls that were begun are acknowledged.
Issued(j) == acked[j] \subseteq 1..spent
\* What RecordsKept says of one job.
Kept(j) ==
    IF table[j] = Absent THEN Tags(logs[j]) \subseteq raced[j]
    ELSE /\ Tags(logs[j]) \cup Tags(table[j].assets) = acked[j]
         /\ Len(logs[j]) + Len(table[j].assets) = Cardinality(acked[j])
         /\ \A i \in DOMAIN logs[j] : logs[j][i].id = i - 1

\* A call under way has a number of its own, on a job that was created, and
\* was not acknowledged yet.
Numbered(c) ==
    calls[c].at # "idle" =>
        /\ calls[c].job \in used /\ calls[c].n \in 1..spent
        /\ \A j \in Ids : calls[c].n \notin acked[j]
OwnNumber(c, d) == c # d /\ calls[c].at # "idle" /\ calls[d].at # "idle" => calls[c].n # calls[d].n
\* Memory: past its check, an append is either of a job that is there or one
\* of those the deletion raced; a reader still finds what it found.
InMemory(c) ==
    /\ calls[c].at \in {"checked", "reading"} => backend = "memory"
    /\ calls[c].at = "checked" /\ table[calls[c].job] = Absent => calls[c].n \in raced[calls[c].job]
    /\ calls[c].at = "reading" => calls[c].owed \subseteq Tags(logs[calls[c].job]) \/ table[calls[c].job] = Absent
\* SQLite: as long as nobody commits, a transaction's snapshot is the table;
\* the one that has the write lock is the only one that can commit.
Snapshot(c) ==
    calls[c].at \in {"read", "written"} =>
        /\ backend = "sqlite" /\ calls[c].op \in {"append_log", "add_asset"}
        /\ calls[c].op = "add_asset" => calls[c].name \in Names
        /\ calls[c].seen <= commits
        /\ calls[c].seen = commits =>
             /\ table[calls[c].job] # Absent
             /\ calls[c].op = "append_log" => calls[c].read = logs[calls[c].job]
             /\ calls[c].op = "add_asset" => calls[c].read = table[calls[c].job].assets
        /\ calls[c].at = "written" => calls[c].seen = commits /\ writer = c
\* A reader was given what it was owed.
Told == (reply.op = "job_logs" /\ reply.code = 200) => (reply.owed \subseteq reply.got \/ table[reply.job] = Absent)

RecordsInv ==
    /\ StoreTypeOK /\ Told
    /\ \A j \in Ids : Fresh(j) /\ Issued(j) /\ Kept(j)
    /\ \A c \in Callers : Numbered(c) /\ InMemory(c) /\ Snapshot(c)
    /\ \A c, d \in Callers : OwnNumber(c, d)

-----------------------------------------------------------------------------
(* The operators.                                                          *)

LEMMA TagsOfNone == Tags(<< >>) = {}
BY DEF Tags

LEMMA TagsTyped == ASSUME NEW s \in Seq(Entries) PROVE Tags(s) \in SUBSET Nat
<1>1. \A i \in DOMAIN s : s[i] \in Entries
    OBVIOUS
<1> QED BY <1>1 DEF Tags, Entries

\* One more entry is one more tag, at the end.
LEMMA OneMoreEntry ==
    ASSUME NEW S, NEW s \in Seq(S), NEW e \in S
    PROVE  /\ Append(s, e) \in Seq(S) /\ Len(Append(s, e)) = Len(s) + 1
           /\ Tags(Append(s, e)) = Tags(s) \cup {e.by}
           /\ DOMAIN Append(s, e) = DOMAIN s \cup {Len(s) + 1}
           /\ Append(s, e)[Len(s) + 1] = e
           /\ \A i \in DOMAIN s : Append(s, e)[i] = s[i] /\ i # Len(s) + 1
<1>1. /\ Append(s, e) \in Seq(S) /\ Len(Append(s, e)) = Len(s) + 1 /\ Len(s) \in Nat
      /\ DOMAIN s = 1..Len(s) /\ DOMAIN Append(s, e) = 1..(Len(s) + 1)
      /\ Append(s, e)[Len(s) + 1] = e
      /\ \A i \in 1..Len(s) : Append(s, e)[i] = s[i]
    OBVIOUS
<1>2. DOMAIN Append(s, e) = DOMAIN s \cup {Len(s) + 1} /\ \A i \in DOMAIN s : i # Len(s) + 1
    BY <1>1
<1>3. Tags(Append(s, e)) = {Append(s, e)[i].by : i \in DOMAIN s \cup {Len(s) + 1}}
    BY <1>2, Zenon DEF Tags
<1>4. Tags(Append(s, e)) = Tags(s) \cup {e.by}
    BY <1>1, <1>3 DEF Tags
<1> QED BY <1>1, <1>2, <1>4

\* Acknowledging a call that was not acknowledged counts one more.
LEMMA OneMoreAck ==
    ASSUME NEW k \in Nat, NEW A \in SUBSET (1..k), NEW n \in Nat, n \notin A
    PROVE  Cardinality(A) \in Nat /\ Cardinality(A \cup {n}) = Cardinality(A) + 1
<1>1. IsFiniteSet(A)
    BY FS_Interval, FS_Subset, 1 \in Int, k \in Int
<1> QED BY <1>1, FS_AddElement, FS_CardinalityType

LEMMA OneMoreInAll ==
    ASSUME NEW x \in Nat, NEW y \in Nat, NEW k \in Nat, x + y = k
    PROVE  x + (y + 1) = k + 1 /\ (x + 1) + y = k + 1
OBVIOUS

LEMMA IdleIsACall == Idle \in Calls
BY DEF Idle, Calls, Steps

LEMMA StoreInitInv == StoreInit => RecordsInv
<1> SUFFICES ASSUME StoreInit PROVE RecordsInv
    OBVIOUS
<1>1. StoreTypeOK
    BY IdleIsACall DEF StoreInit, StoreTypeOK
<1>2. Told
    BY DEF StoreInit, Told, Reply
<1>3. ASSUME NEW j \in Ids PROVE Fresh(j) /\ Issued(j) /\ Kept(j)
    BY TagsOfNone DEF StoreInit, Fresh, Issued, Kept
<1>4. \A c \in Callers : calls[c].at = "idle"
    BY DEF StoreInit, Idle
<1> QED
    BY <1>1, <1>2, <1>3, <1>4 DEF RecordsInv, Numbered, InMemory, Snapshot, OwnNumber

-----------------------------------------------------------------------------
(* What a step that leaves something alone keeps.                          *)

LEMMA Begun ==
    ASSUME RecordsInv, NEW c \in Callers, begins(c)
    PROVE  spent \in Nat /\ spent' \in Nat /\ spent <= spent' /\ spent' = spent + 1 /\ calls[c].at = "idle"
BY DEF RecordsInv, StoreTypeOK, begins, Idle

\* A job whose row, log and ghosts did not change is kept as it was.
LEMMA UntouchedJob ==
    ASSUME NEW j \in Ids, RecordsInv, j \in used => j \in used', spent' \in Nat, spent <= spent',
           table'[j] = table[j], logs'[j] = logs[j], acked'[j] = acked[j], raced'[j] = raced[j]
    PROVE  Fresh(j)' /\ Issued(j)' /\ Kept(j)'
<1>1. Fresh(j) /\ Issued(j) /\ Kept(j) /\ spent \in Nat
    BY DEF RecordsInv, StoreTypeOK
<1>2. Fresh(j)'
    BY <1>1 DEF Fresh
<1>3. Issued(j)'
    BY <1>1 DEF Issued
<1>4. Kept(j)'
    BY <1>1, Zenon DEF Kept
<1> QED BY <1>2, <1>3, <1>4

\* Another caller's step keeps a call, when it neither creates nor deletes the
\* job, takes no log entry away, does not acknowledge the call, and, in
\* SQLite, counts the commit of what it changes.
LEMMA UntouchedCall ==
    ASSUME NEW d \in Callers, RecordsInv, calls'[d] = calls[d], backend' = backend, spent' \in Nat, spent <= spent',
           calls[d].at # "idle" /\ calls[d].job \in used /\ calls[d].job \in Ids =>
             /\ calls[d].job \in used' /\ raced'[calls[d].job] = raced[calls[d].job]
             /\ table'[calls[d].job] = Absent <=> table[calls[d].job] = Absent
             /\ Tags(logs[calls[d].job]) \subseteq Tags(logs'[calls[d].job])
             /\ backend = "sqlite" /\ commits' = commits =>
                  table'[calls[d].job] = table[calls[d].job] /\ logs'[calls[d].job] = logs[calls[d].job],
           calls[d].at # "idle" /\ calls[d].n \in 1..spent =>
             \A j \in Ids : calls[d].n \in acked'[j] => calls[d].n \in acked[j],
           backend = "sqlite" => commits' \in Nat /\ commits' >= commits,
           calls[d].at = "written" /\ backend = "sqlite" /\ writer = d => commits' = commits /\ writer' = d
    PROVE  Numbered(d)' /\ InMemory(d)' /\ Snapshot(d)'
<1>1. /\ Numbered(d) /\ InMemory(d) /\ Snapshot(d) /\ spent \in Nat /\ commits \in Nat /\ used \subseteq Ids
      /\ calls[d].n \in Nat /\ calls[d].seen \in Nat
    BY DEF RecordsInv, StoreTypeOK, Calls
<1>2. Numbered(d)'
    BY <1>1 DEF Numbered
<1>3. InMemory(d)'
    BY <1>1 DEF Numbered, InMemory
<1>4. Snapshot(d)'
    BY <1>1 DEF Numbered, Snapshot
<1> QED BY <1>2, <1>3, <1>4

\* A step that begins a call that ends at once, and stores nothing.
LEMMA QuietStep ==
    ASSUME RecordsInv, NEW c \in Callers, begins(c), UNCHANGED <<backend, calls>>, untouched, Told'
    PROVE  RecordsInv'
<1>b. spent \in Nat /\ spent' \in Nat /\ spent <= spent'
    BY Begun
<1>t. StoreTypeOK
    BY DEF RecordsInv
<1>u. /\ backend' = backend /\ calls' = calls /\ table' = table /\ logs' = logs /\ used' = used
      /\ commits' = commits /\ writer' = writer /\ acked' = acked /\ raced' = raced
    BY DEF untouched
<1>1. StoreTypeOK'
    BY <1>b, <1>t, <1>u DEF StoreTypeOK
<1>2. ASSUME NEW j \in Ids PROVE Fresh(j)' /\ Issued(j)' /\ Kept(j)'
    BY <1>b, <1>u, UntouchedJob
<1>3. ASSUME NEW d \in Callers PROVE Numbered(d)' /\ InMemory(d)' /\ Snapshot(d)'
    BY <1>b, <1>u, <1>t, UntouchedCall DEF StoreTypeOK
<1>4. ASSUME NEW d \in Callers, NEW e \in Callers PROVE OwnNumber(d, e)'
    BY <1>u DEF RecordsInv, OwnNumber
<1> QED BY <1>1, <1>2, <1>3, <1>4 DEF RecordsInv

-----------------------------------------------------------------------------
(* One statement, or one critical section.                                 *)

\* When nobody has the write lock, no transaction has written.
LEMMA NobodyWrites ==
    ASSUME RecordsInv, ~Locked
    PROVE  \A d \in Callers : ~(calls[d].at = "written" /\ backend = "sqlite" /\ writer = d)
BY CallersAssumption DEF Locked

LEMMA CommitCounts ==
    ASSUME RecordsInv, committed \/ UNCHANGED commits
    PROVE  commits' \in Nat /\ (backend = "sqlite" => commits' >= commits) /\ (backend = "sqlite" /\ committed => commits' # commits)
BY DEF RecordsInv, StoreTypeOK, committed

LEMMA NewRow == JobRecord \in Rows /\ JobRecord.assets = << >> /\ JobRecord # Absent
<1>1. JobRecord \in Rows /\ JobRecord.assets = << >>
    BY DEF JobRecord, Rows
<1> QED BY <1>1, RowsAssumption

LEMMA CreateKeeps == ASSUME RecordsInv, NEW c \in Callers, create(c) PROVE RecordsInv'
<1>b. spent \in Nat /\ spent' \in Nat /\ spent <= spent'
    BY Begun DEF create
<1>t. StoreTypeOK
    BY DEF RecordsInv
<1>k. commits' \in Nat /\ (backend = "sqlite" => commits' >= commits) /\ (backend = "sqlite" => commits' # commits)
    BY CommitCounts DEF create
<1>0. PICK j \in Ids \ used : created(j)
    BY DEF create
<1>u. /\ backend' = backend /\ calls' = calls /\ logs' = logs /\ writer' = writer /\ acked' = acked /\ raced' = raced
      /\ table' = [table EXCEPT ![j] = JobRecord] /\ used' = used \cup {j}
      /\ reply'.op = "create"
    BY <1>0 DEF create, created, answers, Reply
<1>1. StoreTypeOK'
    BY <1>b, <1>t, <1>u, <1>k, NewRow DEF StoreTypeOK
<1>2. ASSUME NEW k \in Ids PROVE Fresh(k)' /\ Issued(k)' /\ Kept(k)'
  <2>1. CASE k # j
      BY <2>1, <1>b, <1>t, <1>u, UntouchedJob DEF StoreTypeOK
  <2>2. CASE k = j
    <3>1. table'[j] = JobRecord /\ logs'[j] = << >> /\ acked'[j] = {} /\ j \in used'
        BY <1>t, <1>u DEF StoreTypeOK, RecordsInv, Fresh
    <3>2. Len(<< >>) + Len(<< >>) = 0 /\ Cardinality({}) = 0
        BY FS_EmptySet
    <3> QED BY <2>2, <3>1, <3>2, <1>b, NewRow, TagsOfNone DEF Fresh, Issued, Kept
  <2> QED BY <2>1, <2>2
<1>3. ASSUME NEW d \in Callers PROVE Numbered(d)' /\ InMemory(d)' /\ Snapshot(d)'
  <2>1. ~(calls[d].at = "written" /\ backend = "sqlite" /\ writer = d)
      BY NobodyWrites DEF create
  <2>2. calls[d].job \in used => calls[d].job # j /\ table'[calls[d].job] = table[calls[d].job]
      BY <1>t, <1>u DEF StoreTypeOK
  <2> QED BY <2>1, <2>2, <1>b, <1>u, <1>k, UntouchedCall
<1>4. ASSUME NEW d \in Callers, NEW e \in Callers PROVE OwnNumber(d, e)'
    BY <1>u DEF RecordsInv, OwnNumber
<1>5. Told'
    BY <1>u DEF Told
<1> QED BY <1>1, <1>2, <1>3, <1>4, <1>5 DEF RecordsInv

\* An UPDATE keeps the assets of the row it finds.
LEMMA ChangeKeeps ==
    ASSUME RecordsInv, NEW c \in Callers, NEW j \in Ids, NEW o, o # "job_logs", NEW new, change(c, o, j, new),
           table[j] # Absent => new \in Rows /\ new.assets = table[j].assets
    PROVE  RecordsInv'
<1>b. spent \in Nat /\ spent' \in Nat /\ spent <= spent'
    BY Begun DEF change
<1>t. StoreTypeOK
    BY DEF RecordsInv
<1>k. commits' \in Nat /\ (backend = "sqlite" => commits' >= commits) /\ (backend = "sqlite" /\ table[j] # Absent => commits' # commits)
    BY CommitCounts DEF change
<1>u. /\ backend' = backend /\ calls' = calls /\ logs' = logs /\ writer' = writer /\ acked' = acked /\ raced' = raced
      /\ used' = used /\ reply'.op # "job_logs"
      /\ table' = [table EXCEPT ![j] = IF table[j] = Absent THEN Absent ELSE new]
    BY DEF change, answers, Reply
<1>v. /\ table[j] = Absent => \A k \in Ids : table'[k] = table[k]
      /\ table[j] # Absent => table'[j] = new /\ new # Absent
      /\ \A k \in Ids \ {j} : table'[k] = table[k]
    BY <1>t, <1>u, RowsAssumption DEF StoreTypeOK
<1>1. StoreTypeOK'
    BY <1>b, <1>t, <1>u, <1>k DEF StoreTypeOK
<1>2. ASSUME NEW k \in Ids PROVE Fresh(k)' /\ Issued(k)' /\ Kept(k)'
  <2>1. CASE k # j \/ table[j] = Absent
      BY <2>1, <1>b, <1>u, <1>v, UntouchedJob
  <2>2. CASE k = j /\ table[j] # Absent
    <3>1. Fresh(j) /\ Issued(j) /\ Kept(j)
        BY DEF RecordsInv
    <3>2. /\ table'[j] # Absent /\ table'[j].assets = table[j].assets /\ logs'[j] = logs[j]
          /\ acked'[j] = acked[j] /\ used' = used
        BY <2>2, <1>u, <1>v
    <3>3. Kept(j)'
        BY <2>2, <3>1, <3>2, Zenon DEF Kept
    <3>4. j \in used
        BY <2>2, <3>1 DEF Fresh
    <3> QED BY <2>2, <3>1, <3>2, <3>3, <3>4, <1>b DEF Fresh, Issued
  <2> QED BY <2>1, <2>2
<1>3. ASSUME NEW d \in Callers PROVE Numbered(d)' /\ InMemory(d)' /\ Snapshot(d)'
  <2>1. ~(calls[d].at = "written" /\ backend = "sqlite" /\ writer = d)
      BY NobodyWrites DEF change
  <2>2. calls[d].job \in Ids =>
          /\ table'[calls[d].job] = Absent <=> table[calls[d].job] = Absent
          /\ backend = "sqlite" /\ commits' = commits => table'[calls[d].job] = table[calls[d].job]
      BY <1>v, <1>k
  <2> QED BY <2>1, <2>2, <1>b, <1>u, <1>k, UntouchedCall
<1>4. ASSUME NEW d \in Callers, NEW e \in Callers PROVE OwnNumber(d, e)'
    BY <1>u DEF RecordsInv, OwnNumber
<1>5. Told'
    BY <1>u DEF Told
<1> QED BY <1>1, <1>2, <1>3, <1>4, <1>5 DEF RecordsInv

LEMMA SetStatusKeeps ==
    ASSUME RecordsInv, NEW c \in Callers, NEW j \in Ids, NEW s \in {"running", "finished"}, set_status(c, j, s)
    PROVE  RecordsInv'
<1>1. table[j] # Absent => table[j] \in Rows
    BY DEF RecordsInv, StoreTypeOK
<1>2. table[j] # Absent => [table[j] EXCEPT !.status = s] \in Rows /\ [table[j] EXCEPT !.status = s].assets = table[j].assets
    BY <1>1 DEF Rows
<1> QED BY <1>2, ChangeKeeps DEF set_status

LEMMA SetProgressKeeps ==
    ASSUME RecordsInv, NEW c \in Callers, NEW j \in Ids, NEW p \in Nat, set_progress(c, j, p)
    PROVE  RecordsInv'
<1>1. table[j] # Absent => table[j] \in Rows
    BY DEF RecordsInv, StoreTypeOK
<1>2. Clamp(p) \in Nat
    BY DEF Clamp
<1>3. table[j] # Absent => [table[j] EXCEPT !.progress = Clamp(p)] \in Rows /\ [table[j] EXCEPT !.progress = Clamp(p)].assets = table[j].assets
    BY <1>1, <1>2 DEF Rows
<1> QED BY <1>3, ChangeKeeps DEF set_progress

LEMMA SetMetadataKeeps ==
    ASSUME RecordsInv, NEW c \in Callers, NEW j \in Ids, NEW t \in {Absent, "patched"}, set_metadata(c, j, t)
    PROVE  RecordsInv'
<1> DEFINE new == IF t = Absent THEN table[j] ELSE [table[j] EXCEPT !.title = t]
<1>1. table[j] # Absent => table[j] \in Rows
    BY DEF RecordsInv, StoreTypeOK
<1>2. table[j] # Absent => new \in Rows /\ new.assets = table[j].assets
    BY <1>1 DEF Rows
<1>3. change(c, "update_job", j, new)
    BY DEF set_metadata
<1> HIDE DEF new
<1> QED BY <1>2, <1>3, ChangeKeeps

LEMMA DeleteKeeps == ASSUME RecordsInv, NEW c \in Callers, NEW j \in Ids, delete(c, j) PROVE RecordsInv'
<1> DEFINE R == {calls[d].n : d \in {e \in Callers : calls[e].job = j /\ calls[e].at = "checked"}}
<1>b. spent \in Nat /\ spent' \in Nat /\ spent <= spent'
    BY Begun DEF delete
<1>t. StoreTypeOK
    BY DEF RecordsInv
<1>k. commits' \in Nat /\ (backend = "sqlite" => commits' >= commits) /\ (backend = "sqlite" /\ table[j] # Absent => commits' # commits)
    BY CommitCounts DEF delete
<1>u. /\ backend' = backend /\ calls' = calls /\ writer' = writer /\ used' = used /\ reply'.op # "job_logs"
      /\ table' = [table EXCEPT ![j] = Absent] /\ logs' = [logs EXCEPT ![j] = << >>]
      /\ acked' = [acked EXCEPT ![j] = {}] /\ raced' = [raced EXCEPT ![j] = R]
    BY DEF delete, answers, Reply
<1>r. R \subseteq Nat /\ \A d \in Callers : calls[d].job = j /\ calls[d].at = "checked" => calls[d].n \in R
    BY <1>t DEF StoreTypeOK, Calls
<1> HIDE DEF R
<1>v. /\ table'[j] = Absent /\ logs'[j] = << >> /\ acked'[j] = {} /\ raced'[j] = R
      /\ \A k \in Ids \ {j} : table'[k] = table[k] /\ logs'[k] = logs[k] /\ acked'[k] = acked[k] /\ raced'[k] = raced[k]
    BY <1>t, <1>u DEF StoreTypeOK
<1>1. StoreTypeOK'
  <2>1. << >> \in Seq(Entries)
      OBVIOUS
  <2> QED BY <2>1, <1>b, <1>t, <1>u, <1>k, <1>r DEF StoreTypeOK
<1>2. ASSUME NEW k \in Ids PROVE Fresh(k)' /\ Issued(k)' /\ Kept(k)'
  <2>1. CASE k # j
      BY <2>1, <1>b, <1>u, <1>v, UntouchedJob
  <2>2. CASE k = j
      BY <2>2, <1>b, <1>u, <1>v, TagsOfNone DEF Fresh, Issued, Kept
  <2> QED BY <2>1, <2>2
<1>3. ASSUME NEW d \in Callers PROVE Numbered(d)' /\ InMemory(d)' /\ Snapshot(d)'
  <2>0. ~(calls[d].at = "written" /\ backend = "sqlite" /\ writer = d)
      BY NobodyWrites DEF delete
  <2>a. \A k \in Ids : calls[d].n \in acked'[k] => calls[d].n \in acked[k]
      BY <1>v
  <2>1. CASE calls[d].job # j
    <3>1. calls[d].job \in Ids =>
            /\ table'[calls[d].job] = table[calls[d].job] /\ logs'[calls[d].job] = logs[calls[d].job]
            /\ raced'[calls[d].job] = raced[calls[d].job]
        BY <2>1, <1>v
    <3> QED BY <2>0, <2>a, <2>1, <3>1, <1>b, <1>u, <1>k, UntouchedCall
  <2>2. CASE calls[d].job = j
    <3>1. Numbered(d) /\ InMemory(d) /\ Snapshot(d) /\ calls[d].n \in Nat /\ calls[d].seen \in Nat /\ commits \in Nat
        BY <1>t DEF RecordsInv, StoreTypeOK, Calls
    <3>2. Numbered(d)'
        BY <2>a, <3>1, <1>b, <1>u DEF Numbered
    <3>3. InMemory(d)'
        BY <2>2, <3>1, <1>u, <1>v, <1>r DEF InMemory
    <3>4. Snapshot(d)'
        BY <2>0, <2>2, <3>1, <1>u, <1>v, <1>k DEF Snapshot
    <3> QED BY <3>2, <3>3, <3>4
  <2> QED BY <2>1, <2>2
<1>4. ASSUME NEW d \in Callers, NEW e \in Callers PROVE OwnNumber(d, e)'
    BY <1>u DEF RecordsInv, OwnNumber
<1>5. Told'
    BY <1>u DEF Told
<1> QED BY <1>1, <1>2, <1>3, <1>4, <1>5 DEF RecordsInv

-----------------------------------------------------------------------------
(* Appending.                                                              *)

\* An acknowledged entry at the end of an existing job's log.
LEMMA LoggedJob ==
    ASSUME RecordsInv, NEW j \in Ids, NEW n \in 1..spent, n \notin acked[j], table[j] # Absent, table'[j] = table[j],
           logs'[j] = Append(logs[j], LogEntry(logs[j], n)), acked'[j] = acked[j] \cup {n}, used' = used, spent' = spent
    PROVE  /\ Append(logs[j], LogEntry(logs[j], n)) \in Seq(Entries) /\ Tags(logs[j]) \subseteq Tags(logs'[j])
           /\ Fresh(j)' /\ Issued(j)' /\ Kept(j)'
<1> DEFINE s == logs[j]
           e == LogEntry(logs[j], n)
<1>t. StoreTypeOK /\ Fresh(j) /\ Issued(j) /\ Kept(j) /\ spent \in Nat /\ n \in Nat
    BY DEF RecordsInv, StoreTypeOK
<1>s. s \in Seq(Entries) /\ Len(s) \in Nat /\ table[j] \in Rows
    BY <1>t DEF StoreTypeOK
<1>e. e \in Entries /\ e.by = n /\ e.id = Len(s)
    BY <1>s, <1>t DEF LogEntry, Entries
<1>a. table[j].assets \in Seq(Assets) /\ Len(table[j].assets) \in Nat
    BY <1>s DEF Rows
<1>k. /\ Tags(s) \cup Tags(table[j].assets) = acked[j] /\ Len(s) + Len(table[j].assets) = Cardinality(acked[j])
      /\ \A i \in DOMAIN s : s[i].id = i - 1
    BY <1>t DEF Kept
<1> HIDE DEF s, e
<1>1. /\ Append(s, e) \in Seq(Entries) /\ Len(Append(s, e)) = Len(s) + 1 /\ Tags(Append(s, e)) = Tags(s) \cup {n}
      /\ DOMAIN Append(s, e) = DOMAIN s \cup {Len(s) + 1} /\ Append(s, e)[Len(s) + 1] = e
      /\ \A i \in DOMAIN s : Append(s, e)[i] = s[i]
    BY <1>s, <1>e, OneMoreEntry
<1>2. Cardinality(acked[j]) \in Nat /\ Cardinality(acked[j] \cup {n}) = Cardinality(acked[j]) + 1
    BY <1>t, OneMoreAck DEF Issued
<1>3. logs'[j] = Append(s, e)
    BY DEF s, e
<1>4. Tags(logs'[j]) \cup Tags(table'[j].assets) = acked'[j] /\ Tags(s) \subseteq Tags(logs'[j])
    BY <1>1, <1>3, <1>k
<1>5. Len(logs'[j]) + Len(table'[j].assets) = Cardinality(acked'[j])
  <2>1. (Len(s) + 1) + Len(table[j].assets) = Cardinality(acked[j]) + 1
    <3>1. Len(s) \in Nat /\ Len(table[j].assets) \in Nat /\ Cardinality(acked[j]) \in Nat
          /\ Len(s) + Len(table[j].assets) = Cardinality(acked[j])
        BY <1>s, <1>a, <1>k, <1>2, Zenon
    <3> QED BY <3>1, OneMoreInAll, Zenon
  <2> QED BY <2>1, <1>1, <1>2, <1>3, Zenon
<1>6. \A i \in DOMAIN logs'[j] : logs'[j][i].id = i - 1
  <2>1. (Len(s) + 1) - 1 = Len(s)
      BY <1>s
  <2>2. ASSUME NEW i \in DOMAIN s \cup {Len(s) + 1} PROVE Append(s, e)[i].id = i - 1
      BY <2>1, <1>1, <1>e, <1>k, Zenon
  <2> QED BY <2>2, <1>1, <1>3, Zenon
<1>7. Kept(j)'
    BY <1>4, <1>5, <1>6, Zenon DEF Kept
<1>8. Fresh(j)'
    BY <1>t DEF Fresh
<1>9. Issued(j)'
    BY <1>t DEF Issued
<1> QED BY <1>1, <1>4, <1>7, <1>8, <1>9 DEF s, e

\* An acknowledged asset at the end of an existing job's.
Attached(j, name, n) ==
    /\ table'[j] = [table[j] EXCEPT !.assets = Append(table[j].assets, JobAsset(name, n))]
    /\ logs'[j] = logs[j] /\ acked'[j] = acked[j] \cup {n}
LEMMA AssetJob ==
    ASSUME RecordsInv, NEW j \in Ids, NEW n \in Nat, n \notin acked[j], NEW name \in Names, table[j] # Absent,
           Attached(j, name, n), used' = used, spent' \in Nat, spent <= spent', n \in 1..spent'
    PROVE  table'[j] \in Rows /\ table'[j] # Absent /\ Fresh(j)' /\ Issued(j)' /\ Kept(j)'
<1> DEFINE s == table[j].assets
           a == JobAsset(name, n)
<1>t. StoreTypeOK /\ Fresh(j) /\ Issued(j) /\ Kept(j) /\ spent \in Nat
    BY DEF RecordsInv, StoreTypeOK
<1>s. table[j] \in Rows /\ logs[j] \in Seq(Entries)
    BY <1>t DEF StoreTypeOK
<1>1. s \in Seq(Assets) /\ a \in Assets /\ a.by = n /\ Len(s) \in Nat /\ Len(logs[j]) \in Nat
    BY <1>s DEF Rows, Assets, JobAsset
<1>k. /\ Tags(logs[j]) \cup Tags(s) = acked[j] /\ Len(logs[j]) + Len(s) = Cardinality(acked[j])
      /\ \A i \in DOMAIN logs[j] : logs[j][i].id = i - 1
    BY <1>t DEF Kept
<1>r. table'[j] = [table[j] EXCEPT !.assets = Append(s, a)] /\ logs'[j] = logs[j] /\ acked'[j] = acked[j] \cup {n}
    BY DEF Attached
<1> HIDE DEF s, a
<1>2. /\ Append(s, a) \in Seq(Assets) /\ Len(Append(s, a)) = Len(s) + 1 /\ Tags(Append(s, a)) = Tags(s) \cup {n}
    BY <1>1, OneMoreEntry
<1>3. table'[j] \in Rows /\ table'[j].assets = Append(s, a) /\ table'[j] # Absent
    BY <1>r, <1>s, <1>2, RowsAssumption DEF Rows
<1>4. Cardinality(acked[j]) \in Nat /\ Cardinality(acked[j] \cup {n}) = Cardinality(acked[j]) + 1
    BY <1>t, OneMoreAck DEF Issued
<1>5. Tags(logs[j]) \cup Tags(Append(s, a)) = acked'[j]
    BY <1>2, <1>k, <1>r
<1>6. Len(logs[j]) + Len(Append(s, a)) = Cardinality(acked'[j])
  <2>1. Len(logs[j]) + (Len(s) + 1) = Cardinality(acked[j]) + 1
    <3>1. Len(logs[j]) \in Nat /\ Len(s) \in Nat /\ Cardinality(acked[j]) \in Nat
          /\ Len(logs[j]) + Len(s) = Cardinality(acked[j])
        BY <1>1, <1>k, <1>4, Zenon
    <3>2. PICK x \in Nat, y \in Nat, k \in Nat : x = Len(logs[j]) /\ y = Len(s) /\ k = Cardinality(acked[j])
        BY <3>1, Zenon
    <3>3. x + y = k
        BY <3>1, <3>2, Zenon
    <3>4. x + (y + 1) = k + 1
        BY <3>3
    <3> QED BY <3>2, <3>4, Zenon
  <2> QED BY <2>1, <1>2, <1>4, <1>r, Zenon
<1>7. Kept(j)'
    BY <1>3, <1>5, <1>6, <1>k, <1>r, Zenon DEF Kept
<1>8. Fresh(j)'
    BY <1>t DEF Fresh
<1>9. Issued(j)'
    BY <1>t, <1>r DEF Issued
<1> QED BY <1>3, <1>7, <1>8, <1>9

LEMMA MemoryAddAssetKeeps ==
    ASSUME RecordsInv, NEW c \in Callers, NEW j \in Ids, NEW name \in Names, memory_add_asset(c, j, name)
    PROVE  RecordsInv'
<1>b. spent \in Nat /\ spent' \in Nat /\ spent <= spent' /\ spent' = spent + 1
    BY Begun DEF memory_add_asset
<1>t. StoreTypeOK
    BY DEF RecordsInv
<1>u. /\ backend = "memory" /\ backend' = backend /\ calls' = calls /\ writer' = writer /\ used' = used
      /\ logs' = logs /\ commits' = commits /\ raced' = raced /\ reply'.op # "job_logs"
    BY DEF memory_add_asset, answers, Reply
<1>0. CASE table[j] = Absent
  <2>1. begins(c) /\ UNCHANGED <<backend, calls>> /\ untouched
      BY <1>0 DEF memory_add_asset, untouched
  <2>2. Told'
      BY <1>u DEF Told
  <2> QED BY <2>1, <2>2, QuietStep
<1>1. CASE table[j] # Absent
  <2> DEFINE row == [table[j] EXCEPT !.assets = Append(table[j].assets, JobAsset(name, spent + 1))]
  <2>3. table' = [table EXCEPT ![j] = row]
      BY <1>1, <1>t DEF memory_add_asset, StoreTypeOK
  <2>4. acked' = [acked EXCEPT ![j] = acked[j] \cup {spent + 1}]
      BY <1>1, <1>t DEF memory_add_asset, StoreTypeOK
  <2>5. /\ table'[j] = row /\ acked'[j] = acked[j] \cup {spent + 1}
        /\ \A k \in Ids \ {j} : table'[k] = table[k] /\ acked'[k] = acked[k]
      BY <2>3, <2>4, <1>t DEF StoreTypeOK
  <2>6. /\ table'[j] \in Rows /\ table'[j] # Absent /\ Fresh(j)' /\ Issued(j)' /\ Kept(j)'
    <3>1. Issued(j)
        BY DEF RecordsInv
    <3>2. spent + 1 \notin acked[j] /\ spent + 1 \in Nat /\ spent + 1 \in 1..spent'
        BY <3>1, <1>b DEF Issued
    <3>3. Attached(j, name, spent + 1)
        BY <2>5, <1>u DEF Attached
    <3> QED BY <3>2, <3>3, <2>5, <1>1, <1>b, <1>u, AssetJob
  <2>r. row \in Rows
      BY <2>5, <2>6
  <2> HIDE DEF row
  <2>7. StoreTypeOK'
      BY <2>r, <2>3, <2>4, <1>b, <1>t, <1>u DEF StoreTypeOK
  <2>8. ASSUME NEW k \in Ids PROVE Fresh(k)' /\ Issued(k)' /\ Kept(k)'
    <3>1. CASE k # j
        BY <3>1, <2>5, <1>b, <1>u, UntouchedJob
    <3> QED BY <3>1, <2>6
  <2>9. ASSUME NEW d \in Callers PROVE Numbered(d)' /\ InMemory(d)' /\ Snapshot(d)'
    <3>1. calls[d].n \in 1..spent => \A k \in Ids : calls[d].n \in acked'[k] => calls[d].n \in acked[k]
        BY <2>5, <1>b
    <3>2. calls[d].job \in Ids => (table'[calls[d].job] = Absent <=> table[calls[d].job] = Absent)
        BY <2>5, <2>6, <1>1
    <3> QED BY <3>1, <3>2, <1>b, <1>u, UntouchedCall
  <2>10. ASSUME NEW d \in Callers, NEW e \in Callers PROVE OwnNumber(d, e)'
      BY <1>u DEF RecordsInv, OwnNumber
  <2>11. Told'
      BY <1>u DEF Told
  <2> QED BY <2>7, <2>8, <2>9, <2>10, <2>11 DEF RecordsInv
<1> QED BY <1>0, <1>1

\* A call that c begins and that is then under way.
LEMMA BeginKeeps ==
    ASSUME RecordsInv, NEW c \in Callers, begins(c), NEW call \in Calls, calls' = [calls EXCEPT ![c] = call],
           untouched, UNCHANGED <<backend, reply>>, call.at # "idle", call.job \in Ids, call.n = spent + 1,
           table[call.job] # Absent,
           InMemory(c)', Snapshot(c)'
    PROVE  RecordsInv'
<1>b. spent \in Nat /\ spent' \in Nat /\ spent <= spent' /\ spent' = spent + 1 /\ calls[c].at = "idle"
    BY Begun
<1>t. StoreTypeOK
    BY DEF RecordsInv
<1>u. /\ backend' = backend /\ reply' = reply /\ table' = table /\ logs' = logs /\ used' = used
      /\ commits' = commits /\ writer' = writer /\ acked' = acked /\ raced' = raced
    BY DEF untouched
<1>v. calls'[c] = call /\ \A d \in Callers \ {c} : calls'[d] = calls[d]
    BY <1>t DEF StoreTypeOK
<1>1. StoreTypeOK'
    BY <1>b, <1>t, <1>u DEF StoreTypeOK
<1>2. ASSUME NEW j \in Ids PROVE Fresh(j)' /\ Issued(j)' /\ Kept(j)'
    BY <1>b, <1>u, UntouchedJob
<1>3. ASSUME NEW d \in Callers PROVE Numbered(d)' /\ InMemory(d)' /\ Snapshot(d)'
  <2>1. CASE d # c
      BY <2>1, <1>b, <1>t, <1>u, <1>v, UntouchedCall DEF StoreTypeOK
  <2>2. CASE d = c
    <3>1. call.job \in used /\ \A j \in Ids : acked[j] \subseteq 1..spent
        BY DEF RecordsInv, Fresh, Issued
    <3>2. Numbered(c)'
        BY <3>1, <1>b, <1>u, <1>v DEF Numbered
    <3> QED BY <2>2, <3>2
  <2> QED BY <2>1, <2>2
<1>4. ASSUME NEW d \in Callers, NEW e \in Callers PROVE OwnNumber(d, e)'
  <2>1. /\ calls[d].at # "idle" => calls[d].n \in 1..spent
        /\ calls[e].at # "idle" => calls[e].n \in 1..spent
        /\ OwnNumber(d, e)
      BY DEF RecordsInv, Numbered
  <2> QED BY <2>1, <1>b, <1>v DEF OwnNumber
<1>5. Told'
    BY <1>u DEF RecordsInv, Told
<1> QED BY <1>1, <1>2, <1>3, <1>4, <1>5 DEF RecordsInv

LEMMA MemoryCheckKeeps ==
    ASSUME RecordsInv, NEW c \in Callers, NEW j \in Ids, NEW o \in {"append_log", "job_logs"}, memory_check(c, o, j)
    PROVE  RecordsInv'
<1>t. StoreTypeOK /\ spent \in Nat
    BY DEF RecordsInv, StoreTypeOK
<1>b. begins(c) /\ untouched /\ backend' = backend /\ backend = "memory"
    BY DEF memory_check
<1>0. CASE table[j] = Absent
  <2>1. UNCHANGED <<backend, calls>> /\ Told'
      BY <1>0 DEF memory_check, answers, Reply, Told
  <2> QED BY <2>1, <1>b, QuietStep
<1>1. CASE table[j] # Absent
  <2> DEFINE at == IF o = "append_log" THEN "checked" ELSE "reading"
             call == [at |-> at, op |-> o, job |-> j, n |-> spent + 1, name |-> Absent, seen |-> 0,
                      read |-> << >>, owed |-> Tags(logs[j])]
  <2>1. calls' = [calls EXCEPT ![c] = call] /\ UNCHANGED <<backend, reply>>
      BY <1>1 DEF memory_check
  <2>2. Tags(logs[j]) \in SUBSET Nat
    <3>1. logs[j] \in Seq(Entries)
        BY <1>t DEF StoreTypeOK
    <3> QED BY <3>1, TagsTyped
  <2>a. at \in {"checked", "reading"} /\ << >> \in Seq(Entries)
      OBVIOUS
  <2> HIDE DEF at
  <2>3. /\ call \in Calls /\ call.at \in {"checked", "reading"} /\ call.job = j /\ call.n = spent + 1 /\ call.owed = Tags(logs[j])
      BY <2>2, <2>a, <1>t DEF Calls, Steps
  <2> HIDE DEF call
  <2>4. calls'[c] = call
      BY <2>1, <1>t DEF StoreTypeOK
  <2>5. InMemory(c)' /\ Snapshot(c)'
      BY <2>3, <2>4, <1>b, <1>1 DEF InMemory, Snapshot, untouched
  <2> QED BY <2>1, <2>3, <2>5, <1>1, <1>b, BeginKeeps
<1> QED BY <1>0, <1>1

LEMMA SelectKeeps ==
    ASSUME RecordsInv, NEW c \in Callers, NEW j \in Ids, NEW o, NEW name, select(c, o, j, name),
           \/ o = "append_log" /\ name = Absent
           \/ o = "add_asset" /\ name \in Names
    PROVE  RecordsInv'
<1>t. StoreTypeOK /\ spent \in Nat /\ commits \in Nat
    BY DEF RecordsInv, StoreTypeOK
<1>b. begins(c) /\ untouched /\ backend' = backend /\ backend = "sqlite"
    BY DEF select
<1>0. CASE table[j] = Absent
  <2>1. UNCHANGED <<backend, calls>> /\ Told'
      BY <1>0 DEF select, answers, Reply, Told
  <2> QED BY <2>1, <1>b, QuietStep
<1>1. CASE table[j] # Absent
  <2> DEFINE was == IF o = "append_log" THEN logs[j] ELSE table[j].assets
             call == [at |-> "read", op |-> o, job |-> j, n |-> spent + 1, name |-> name, seen |-> commits, read |-> was, owed |-> {}]
  <2>1. calls' = [calls EXCEPT ![c] = call] /\ UNCHANGED <<backend, reply>>
      BY <1>1 DEF select
  <2>2. was \in Seq(Entries) \cup Seq(Assets)
      BY <1>t, <1>1 DEF StoreTypeOK, Rows
  <2>r. /\ o = "append_log" => was = logs[j]
        /\ o = "add_asset" => was = table[j].assets
      OBVIOUS
  <2> HIDE DEF was
  <2>3. /\ call \in Calls /\ call.at = "read" /\ call.op = o /\ call.name = name /\ call.job = j /\ call.n = spent + 1
        /\ call.seen = commits /\ call.read = was
      BY <2>2, <1>t DEF Calls, Steps
  <2> HIDE DEF call
  <2>4. calls'[c] = call
      BY <2>1, <1>t DEF StoreTypeOK
  <2>5. InMemory(c)' /\ Snapshot(c)'
      BY <2>3, <2>4, <2>r, <1>b, <1>t, <1>1 DEF InMemory, Snapshot, untouched
  <2> QED BY <2>1, <2>3, <2>5, <1>1, <1>b, BeginKeeps
<1> QED BY <1>0, <1>1

-----------------------------------------------------------------------------
(* The second half of a call.                                              *)

\* A call that ends: c has none, and everybody else's goes on.
LEMMA EndedCall ==
    ASSUME RecordsInv, NEW c \in Callers, calls' = [calls EXCEPT ![c] = Idle]
    PROVE  /\ calls' \in [Callers -> Calls] /\ calls'[c].at = "idle"
           /\ \A d \in Callers \ {c} : calls'[d] = calls[d]
           /\ Numbered(c)' /\ InMemory(c)' /\ Snapshot(c)'
           /\ \A d, e \in Callers : OwnNumber(d, e)'
<1>1. calls \in [Callers -> Calls] /\ \A d, e \in Callers : OwnNumber(d, e)
    BY DEF RecordsInv, StoreTypeOK
<1>2. /\ calls' \in [Callers -> Calls] /\ calls'[c] = Idle
      /\ \A d \in Callers \ {c} : calls'[d] = calls[d]
    BY <1>1, IdleIsACall
<1>3. calls'[c].at = "idle"
    BY <1>2 DEF Idle
<1>4. Numbered(c)' /\ InMemory(c)' /\ Snapshot(c)'
    BY <1>3 DEF Numbered, InMemory, Snapshot
<1>5. \A d, e \in Callers : OwnNumber(d, e)'
    BY <1>1, <1>2, <1>3 DEF OwnNumber
<1> QED BY <1>2, <1>3, <1>4, <1>5

\* A call that ends and stores nothing.
LEMMA EndKeeps ==
    ASSUME RecordsInv, NEW c \in Callers, calls' = [calls EXCEPT ![c] = Idle],
           UNCHANGED <<backend, table, logs, used, commits, spent, acked, raced>>,
           writer' = writer \/ (writer = c /\ writer' = Absent), Told'
    PROVE  RecordsInv'
<1>t. StoreTypeOK
    BY DEF RecordsInv
<1>s. spent \in Nat /\ spent' \in Nat /\ spent <= spent'
    BY <1>t DEF StoreTypeOK
<1>1. StoreTypeOK'
    BY <1>t, EndedCall DEF StoreTypeOK
<1>2. ASSUME NEW j \in Ids PROVE Fresh(j)' /\ Issued(j)' /\ Kept(j)'
    BY <1>s, UntouchedJob
<1>3. ASSUME NEW d \in Callers PROVE Numbered(d)' /\ InMemory(d)' /\ Snapshot(d)'
  <2>1. CASE d # c
    <3>1. calls'[d] = calls[d] /\ commits \in Nat
        BY <2>1, <1>t, EndedCall DEF StoreTypeOK
    <3> QED BY <2>1, <3>1, <1>s, UntouchedCall
  <2>2. CASE d = c
      BY <2>2, EndedCall
  <2> QED BY <2>1, <2>2
<1> QED BY <1>1, <1>2, <1>3, EndedCall DEF RecordsInv

LEMMA MemoryLogsKeeps == ASSUME RecordsInv, NEW c \in Callers, memory_logs(c) PROVE RecordsInv'
<1> DEFINE j == calls[c].job
<1>1. InMemory(c) /\ calls[c].at = "reading"
    BY DEF RecordsInv, memory_logs
<1>2. /\ reply'.owed = calls[c].owed /\ reply'.got = Tags(logs[j]) /\ reply'.job = j /\ table' = table
    BY DEF memory_logs, Reply, untouched
<1>3. Told'
    BY <1>1, <1>2 DEF InMemory, Told
<1> QED BY <1>3, EndKeeps DEF memory_logs, untouched

LEMMA RollbackKeeps == ASSUME RecordsInv, NEW c \in Callers, rollback(c) PROVE RecordsInv'
<1>1. calls[c].op # "job_logs"
    BY DEF RecordsInv, Snapshot, rollback
<1>2. Told'
    BY <1>1 DEF rollback, answers, Reply, Told
<1> QED BY <1>2, EndKeeps DEF rollback

LEMMA UpdateKeeps == ASSUME RecordsInv, NEW c \in Callers, update(c) PROVE RecordsInv'
<1>1. Snapshot(c) /\ calls[c].at = "read"
    BY DEF RecordsInv, update
<1>2. CASE ~Upgrades(c)
  <2>1. Told'
      BY <1>1, <1>2 DEF Snapshot, update, answers, Reply, Told
  <2> QED BY <1>2, <2>1, EndKeeps DEF update
<1>3. CASE Upgrades(c)
  <2>t. StoreTypeOK
      BY DEF RecordsInv
  <2>u. /\ writer' = c /\ calls' = [calls EXCEPT ![c].at = "written"] /\ reply' = reply /\ writer = Absent
        /\ UNCHANGED <<backend, table, logs, used, commits, spent, acked, raced>> /\ calls[c].seen = commits
      BY <1>3 DEF update, Upgrades
  <2>s. spent \in Nat /\ spent' \in Nat /\ spent <= spent' /\ commits \in Nat
      BY <2>t, <2>u DEF StoreTypeOK
  <2>0. /\ calls[c] \in Calls
        /\ calls' = [calls EXCEPT ![c] = [calls[c] EXCEPT !.at = "written"]]
      BY <2>t, <2>u DEF StoreTypeOK
  <2>v. /\ calls'[c] = [calls[c] EXCEPT !.at = "written"] /\ calls' \in [Callers -> Calls]
        /\ \A d \in Callers \ {c} : calls'[d] = calls[d]
    <3>1. [calls[c] EXCEPT !.at = "written"] \in Calls
        BY <2>0 DEF Calls, Steps
    <3> QED BY <3>1, <2>0, <2>t DEF StoreTypeOK
  <2>w. /\ calls'[c].at = "written" /\ calls'[c].job = calls[c].job /\ calls'[c].n = calls[c].n
        /\ calls'[c].op = calls[c].op /\ calls'[c].seen = calls[c].seen /\ calls'[c].read = calls[c].read
        /\ calls'[c].name = calls[c].name
      BY <2>v, <2>0 DEF Calls
  <2>1. StoreTypeOK'
      BY <2>t, <2>u, <2>v DEF StoreTypeOK
  <2>2. ASSUME NEW j \in Ids PROVE Fresh(j)' /\ Issued(j)' /\ Kept(j)'
      BY <2>s, <2>u, UntouchedJob
  <2>3. ASSUME NEW d \in Callers PROVE Numbered(d)' /\ InMemory(d)' /\ Snapshot(d)'
    <3>1. CASE d # c
      <4>1. calls'[d] = calls[d] /\ writer # d
          BY <3>1, <2>u, <2>v, CallersAssumption
      <4> QED BY <4>1, <2>s, <2>u, UntouchedCall
    <3>2. CASE d = c
      <4>1. Numbered(c)
          BY DEF RecordsInv
      <4> QED BY <4>1, <3>2, <1>1, <2>u, <2>w DEF Numbered, InMemory, Snapshot
    <3> QED BY <3>1, <3>2
  <2>4. ASSUME NEW d \in Callers, NEW e \in Callers PROVE OwnNumber(d, e)'
    <3>1. OwnNumber(d, e)
        BY DEF RecordsInv
    <3> QED BY <3>1, <1>1, <2>v, <2>w DEF OwnNumber
  <2>5. Told'
      BY <2>u DEF RecordsInv, Told
  <2> QED BY <2>1, <2>2, <2>3, <2>4, <2>5 DEF RecordsInv
<1> QED BY <1>2, <1>3

LEMMA MemoryPushKeeps == ASSUME RecordsInv, NEW c \in Callers, memory_push(c) PROVE RecordsInv'
<1>t. StoreTypeOK
    BY DEF RecordsInv
<1>p. PICK j \in Ids, n \in Nat : j = calls[c].job /\ n = calls[c].n
  <2>1. calls[c].job \in used /\ calls[c].n \in Nat
      BY <1>t DEF RecordsInv, StoreTypeOK, Numbered, Calls, memory_push
  <2> QED BY <2>1, <1>t DEF StoreTypeOK
<1>c. /\ calls[c].at = "checked" /\ backend = "memory" /\ j \in used /\ j \in Ids /\ n \in 1..spent /\ n \in Nat
      /\ \A k \in Ids : n \notin acked[k]
      /\ table[j] = Absent => n \in raced[j]
    BY <1>p, <1>t DEF RecordsInv, StoreTypeOK, Numbered, InMemory, memory_push
<1>u. /\ UNCHANGED <<backend, table, used, commits, writer, spent, raced>> /\ reply'.op = "append_log"
      /\ calls' = [calls EXCEPT ![c] = Idle]
    BY DEF memory_push, answers, Reply
<1>s. spent \in Nat /\ spent' \in Nat /\ spent <= spent'
    BY <1>t, <1>u DEF StoreTypeOK
<1>v. /\ logs' = [logs EXCEPT ![j] = Append(logs[j], LogEntry(logs[j], n))]
      /\ acked' = [acked EXCEPT ![j] = IF table[j] = Absent THEN acked[j] ELSE acked[j] \cup {n}]
    BY <1>t, <1>p, <1>c DEF memory_push, StoreTypeOK
<1>w. /\ logs'[j] = Append(logs[j], LogEntry(logs[j], n))
      /\ acked'[j] = IF table[j] = Absent THEN acked[j] ELSE acked[j] \cup {n}
      /\ \A k \in Ids \ {j} : logs'[k] = logs[k] /\ acked'[k] = acked[k]
    BY <1>t, <1>c, <1>v DEF StoreTypeOK
<1>e. /\ Append(logs[j], LogEntry(logs[j], n)) \in Seq(Entries)
      /\ Tags(logs'[j]) = Tags(logs[j]) \cup {n}
  <2>1. logs[j] \in Seq(Entries) /\ LogEntry(logs[j], n) \in Entries /\ LogEntry(logs[j], n).by = n
    <3>1. logs[j] \in Seq(Entries) /\ Len(logs[j]) \in Nat
        BY <1>t, <1>c DEF StoreTypeOK
    <3> QED BY <3>1, <1>c DEF LogEntry, Entries
  <2>2. /\ Append(logs[j], LogEntry(logs[j], n)) \in Seq(Entries)
        /\ Tags(Append(logs[j], LogEntry(logs[j], n))) = Tags(logs[j]) \cup {n}
      BY <2>1, OneMoreEntry
  <2> QED BY <2>2, <1>w
<1>1. StoreTypeOK'
    BY <1>t, <1>c, <1>u, <1>v, <1>e, EndedCall DEF StoreTypeOK
<1>2. ASSUME NEW k \in Ids PROVE Fresh(k)' /\ Issued(k)' /\ Kept(k)'
  <2>1. CASE k # j
      BY <2>1, <1>s, <1>u, <1>w, UntouchedJob
  <2>2. CASE k = j /\ table[j] # Absent
      BY <2>2, <1>c, <1>u, <1>w, LoggedJob
  <2>3. CASE k = j /\ table[j] = Absent
    <3>1. Fresh(j) /\ Issued(j) /\ Kept(j)
        BY <1>c DEF RecordsInv
    <3>2. Tags(logs'[j]) \subseteq raced'[j]
        BY <2>3, <3>1, <1>c, <1>e, <1>u DEF Kept
    <3>3. Kept(j)'
        BY <2>3, <3>2, <1>u DEF Kept
    <3>4. Fresh(j)' /\ Issued(j)'
        BY <2>3, <3>1, <1>c, <1>u, <1>w DEF Fresh, Issued
    <3> QED BY <2>3, <3>3, <3>4
  <2> QED BY <2>1, <2>2, <2>3
<1>3. ASSUME NEW d \in Callers PROVE Numbered(d)' /\ InMemory(d)' /\ Snapshot(d)'
  <2>1. CASE d # c
    <3>1. calls'[d] = calls[d]
        BY <2>1, <1>u, EndedCall
    <3>2. calls[d].at # "idle" => calls[d].n # n
        BY <2>1, <1>c, <1>p DEF RecordsInv, OwnNumber
    <3>3. calls[d].at # "idle" => \A k \in Ids : calls[d].n \in acked'[k] => calls[d].n \in acked[k]
        BY <3>2, <1>w
    <3>4. \A k \in Ids : Tags(logs[k]) \subseteq Tags(logs'[k])
        BY <1>w, <1>e
    <3> QED BY <3>1, <3>3, <3>4, <1>c, <1>s, <1>u, UntouchedCall
  <2>2. CASE d = c
      BY <2>2, <1>u, EndedCall
  <2> QED BY <2>1, <2>2
<1>4. Told'
    BY <1>u DEF Told
<1> QED BY <1>1, <1>2, <1>3, <1>4, <1>u, EndedCall DEF RecordsInv

LEMMA CommitKeeps == ASSUME RecordsInv, NEW c \in Callers, commit(c) PROVE RecordsInv'
<1>t. StoreTypeOK
    BY DEF RecordsInv
<1>p. PICK j \in Ids, n \in Nat : j = calls[c].job /\ n = calls[c].n
  <2>1. calls[c].job \in used /\ calls[c].n \in Nat
      BY <1>t DEF RecordsInv, StoreTypeOK, Numbered, Calls, commit
  <2> QED BY <2>1, <1>t DEF StoreTypeOK
<1>c. /\ calls[c].at = "written" /\ backend = "sqlite" /\ j \in used /\ n \in 1..spent
      /\ \A k \in Ids : n \notin acked[k]
      /\ table[j] # Absent /\ writer = c /\ calls[c].op \in {"append_log", "add_asset"}
      /\ calls[c].op = "append_log" => calls[c].read = logs[j]
      /\ calls[c].op = "add_asset" => calls[c].read = table[j].assets /\ calls[c].name \in Names
    BY <1>p, <1>t DEF RecordsInv, Numbered, Snapshot, commit
<1>u. /\ UNCHANGED <<backend, used, spent, raced>> /\ reply'.op = calls[c].op /\ writer' = Absent /\ commits' = commits + 1
      /\ calls' = [calls EXCEPT ![c] = Idle]
    BY DEF commit, answers, Reply
<1>s. spent \in Nat /\ spent' \in Nat /\ spent <= spent' /\ commits \in Nat /\ commits' \in Nat /\ commits' > commits
    BY <1>t, <1>u DEF StoreTypeOK
<1>v. acked' = [acked EXCEPT ![j] = acked[j] \cup {n}]
    BY <1>t, <1>p DEF commit, StoreTypeOK
<1>w. /\ acked'[j] = acked[j] \cup {n}
      /\ \A k \in Ids \ {j} : acked'[k] = acked[k]
    BY <1>t, <1>v DEF StoreTypeOK
<1>1. /\ table' \in [Ids -> Rows \cup {Absent}] /\ logs' \in [Ids -> Seq(Entries)] /\ table'[j] # Absent
      /\ \A k \in Ids \ {j} : table'[k] = table[k] /\ logs'[k] = logs[k]
      /\ Fresh(j)' /\ Issued(j)' /\ Kept(j)'
  <2>1. CASE calls[c].op = "append_log"
    <3>1. table' = table /\ logs' = [logs EXCEPT ![j] = Append(logs[j], LogEntry(logs[j], n))]
        BY <2>1, <1>p, <1>c DEF commit
    <3>2. table'[j] = table[j] /\ logs'[j] = Append(logs[j], LogEntry(logs[j], n))
        BY <3>1, <1>t DEF StoreTypeOK
    <3>3. Append(logs[j], LogEntry(logs[j], n)) \in Seq(Entries) /\ Fresh(j)' /\ Issued(j)' /\ Kept(j)'
        BY <3>2, <1>c, <1>u, <1>w, LoggedJob
    <3> QED BY <3>1, <3>2, <3>3, <1>c, <1>t DEF StoreTypeOK
  <2>2. CASE calls[c].op = "add_asset"
    <3> DEFINE row == [table[j] EXCEPT !.assets = Append(table[j].assets, JobAsset(calls[c].name, n))]
    <3>1. logs' = logs /\ table' = [table EXCEPT ![j] = row]
        BY <2>2, <1>p, <1>c, <1>t DEF commit, StoreTypeOK
    <3>2. table'[j] = row /\ logs'[j] = logs[j] /\ \A k \in Ids \ {j} : table'[k] = table[k] /\ logs'[k] = logs[k]
        BY <3>1, <1>t DEF StoreTypeOK
    <3>n. PICK name \in Names : name = calls[c].name
        BY <2>2, <1>c
    <3>3. table'[j] \in Rows /\ table'[j] # Absent /\ Fresh(j)' /\ Issued(j)' /\ Kept(j)'
      <4>1. Attached(j, name, n)
          BY <3>2, <3>n, <1>w DEF Attached
      <4>2. n \in 1..spent'
          BY <1>c, <1>u
      <4> QED BY <4>1, <4>2, <3>2, <1>c, <1>s, <1>u, <1>w, AssetJob
    <3>4. row \in Rows
        BY <3>2, <3>3
    <3> HIDE DEF row
    <3> QED BY <3>1, <3>2, <3>3, <3>4, <1>t DEF StoreTypeOK
  <2> QED BY <2>1, <2>2, <1>c
<1>2. StoreTypeOK'
    BY <1>1, <1>t, <1>s, <1>u, <1>v, EndedCall DEF StoreTypeOK
<1>3. ASSUME NEW k \in Ids PROVE Fresh(k)' /\ Issued(k)' /\ Kept(k)'
  <2>1. CASE k # j
      BY <2>1, <1>1, <1>s, <1>u, <1>w, UntouchedJob
  <2>2. CASE k = j
      BY <2>2, <1>1
  <2> QED BY <2>1, <2>2
<1>4. ASSUME NEW d \in Callers PROVE Numbered(d)' /\ InMemory(d)' /\ Snapshot(d)'
  <2>1. CASE d # c
    <3>1. calls'[d] = calls[d]
        BY <2>1, <1>u, EndedCall
    <3>2. calls[d].at # "idle" => calls[d].n # n
        BY <2>1, <1>c, <1>p DEF RecordsInv, OwnNumber
    <3>3. /\ Numbered(d) /\ InMemory(d) /\ Snapshot(d) /\ calls[d].seen \in Nat /\ used \subseteq Ids
        BY <1>t DEF RecordsInv, StoreTypeOK, Calls
    <3>4. Numbered(d)'
        BY <3>1, <3>2, <3>3, <1>u, <1>w, <1>s DEF Numbered
    <3>5. InMemory(d)' /\ Snapshot(d)'
        BY <2>1, <3>1, <3>3, <1>c, <1>u, <1>s DEF InMemory, Snapshot
    <3> QED BY <3>4, <3>5
  <2>2. CASE d = c
      BY <2>2, <1>u, EndedCall
  <2> QED BY <2>1, <2>2
<1>5. Told'
    BY <1>c, <1>u DEF Told
<1> QED BY <1>2, <1>3, <1>4, <1>5, <1>u, EndedCall DEF RecordsInv

\* A restart empties the memory store; the table stays what was committed.
LEMMA RestartKeeps == ASSUME RecordsInv, restart PROVE RecordsInv'
<1>t. StoreTypeOK
    BY DEF RecordsInv
<1>u. /\ calls' = [c \in Callers |-> Idle] /\ writer' = Absent /\ reply'.op = "restart" /\ spent' = spent + 1
      /\ backend' = backend /\ used' = used /\ commits' = commits
    BY DEF restart, Reply
<1>s. spent \in Nat /\ spent' \in Nat /\ spent <= spent'
    BY <1>t, <1>u DEF StoreTypeOK
<1>c. calls' \in [Callers -> Calls] /\ \A c \in Callers : calls'[c].at = "idle"
    BY <1>u, IdleIsACall DEF Idle
<1>1. /\ table' \in [Ids -> Rows \cup {Absent}] /\ logs' \in [Ids -> Seq(Entries)]
      /\ acked' \in [Ids -> SUBSET Nat] /\ raced' \in [Ids -> SUBSET Nat]
      /\ \A j \in Ids : Fresh(j)' /\ Issued(j)' /\ Kept(j)'
  <2>1. CASE backend = "memory"
    <3>1. /\ table' = [j \in Ids |-> Absent] /\ logs' = [j \in Ids |-> << >>]
          /\ acked' = [j \in Ids |-> {}] /\ raced' = [j \in Ids |-> {}]
        BY <2>1 DEF restart
    <3>2. << >> \in Seq(Entries)
        OBVIOUS
    <3>3. ASSUME NEW j \in Ids PROVE Fresh(j)' /\ Issued(j)' /\ Kept(j)'
        BY <3>1, TagsOfNone DEF Fresh, Issued, Kept
    <3> QED BY <3>1, <3>2, <3>3
  <2>2. CASE backend = "sqlite"
    <3>1. /\ table' = [j \in Ids |-> Recovered(table[j])] /\ logs' = logs /\ acked' = acked /\ raced' = raced
        BY <2>2 DEF restart
    <3>2. ASSUME NEW j \in Ids
          PROVE  /\ table[j] = Absent => table'[j] = Absent
                 /\ table[j] # Absent => table'[j] \in Rows /\ table'[j] # Absent /\ table'[j].assets = table[j].assets
      <4>1. table'[j] = Recovered(table[j]) /\ (table[j] # Absent => table[j] \in Rows)
          BY <3>1, <1>t DEF StoreTypeOK
      <4>2. table[j] # Absent => Recovered(table[j]) \in Rows /\ Recovered(table[j]).assets = table[j].assets
          BY <4>1 DEF Recovered, Rows
      <4> QED BY <4>1, <4>2, RowsAssumption DEF Recovered
    <3>3. ASSUME NEW j \in Ids PROVE Fresh(j)' /\ Issued(j)' /\ Kept(j)'
      <4>1. Fresh(j) /\ Issued(j) /\ Kept(j)
          BY DEF RecordsInv
      <4>2. Kept(j)'
          BY <4>1, <3>1, <3>2, Zenon DEF Kept
      <4>3. Fresh(j)'
          BY <4>1, <3>1, <3>2, <1>u DEF Fresh
      <4>4. Issued(j)'
          BY <4>1, <3>1, <1>s DEF Issued
      <4> QED BY <4>2, <4>3, <4>4
    <3>4. table' \in [Ids -> Rows \cup {Absent}]
        BY <3>1, <3>2
    <3> QED BY <3>1, <3>3, <3>4, <1>t DEF StoreTypeOK
  <2> QED BY <2>1, <2>2, <1>t DEF StoreTypeOK
<1>2. StoreTypeOK'
    BY <1>1, <1>t, <1>s, <1>u, <1>c DEF StoreTypeOK
<1>3. ASSUME NEW d \in Callers PROVE Numbered(d)' /\ InMemory(d)' /\ Snapshot(d)'
    BY <1>c DEF Numbered, InMemory, Snapshot
<1>4. ASSUME NEW d \in Callers, NEW e \in Callers PROVE OwnNumber(d, e)'
    BY <1>c DEF OwnNumber
<1>5. Told'
    BY <1>u DEF Told
<1> QED BY <1>1, <1>2, <1>3, <1>4, <1>5 DEF RecordsInv

-----------------------------------------------------------------------------
(* Every step.                                                             *)

\* Readers answer what is there.
LEMMA ReadersKeep ==
    ASSUME RecordsInv, NEW c \in Callers, NEW j \in Ids,
           \/ sqlite_logs(c, j)
           \/ \E o \in {"get_job", "get_results", "estimate_job"} : get(c, o, j)
           \/ \E name \in Names, file \in {200, 404, 500} : download_asset(c, j, name, file)
    PROVE  RecordsInv'
<1>1. begins(c) /\ untouched /\ UNCHANGED <<backend, calls>>
    BY DEF sqlite_logs, get, download_asset
<1>2. Told'
  <2>1. CASE sqlite_logs(c, j)
      BY <2>1 DEF sqlite_logs, answers, Reply, Told
  <2>2. ASSUME NEW o \in {"get_job", "get_results", "estimate_job"}, get(c, o, j) PROVE Told'
      BY <2>2 DEF get, answers, Reply, Told
  <2>3. ASSUME NEW name \in Names, NEW file \in {200, 404, 500}, download_asset(c, j, name, file) PROVE Told'
      BY <2>3 DEF download_asset, answers, Reply, Told
  <2> QED BY <2>1, <2>2, <2>3
<1> QED BY <1>1, <1>2, QuietStep

LEMMA BusyTimeoutKeeps == ASSUME RecordsInv, NEW c \in Callers, busy_timeout(c) PROVE RecordsInv'
<1>1. Told'
    BY DEF busy_timeout, answers, Reply, Told
<1> QED BY <1>1, QuietStep DEF busy_timeout

LEMMA StoreNextInv == RecordsInv /\ [StoreNext]_recordVars => RecordsInv'
<1> SUFFICES ASSUME RecordsInv, [StoreNext]_recordVars PROVE RecordsInv'
    OBVIOUS
<1>1. CASE restart
    BY <1>1, RestartKeeps
<1>2. ASSUME NEW c \in Callers, StoreStep(c) PROVE RecordsInv'
  <2>1. CASE busy_timeout(c) \/ create(c) \/ memory_push(c) \/ memory_logs(c) \/ update(c) \/ commit(c) \/ rollback(c)
      BY <2>1, BusyTimeoutKeeps, CreateKeeps, MemoryPushKeeps, MemoryLogsKeeps, UpdateKeeps, CommitKeeps, RollbackKeeps
  <2>2. ASSUME NEW j \in Ids, NEW s \in {"running", "finished"}, set_status(c, j, s) PROVE RecordsInv'
      BY <2>2, SetStatusKeeps
  <2>3. ASSUME NEW j \in Ids, set_progress(c, j, 250) PROVE RecordsInv'
      BY <2>3, 250 \in Nat, SetProgressKeeps
  <2>4. ASSUME NEW j \in Ids, NEW t \in {Absent, "patched"}, set_metadata(c, j, t) PROVE RecordsInv'
      BY <2>4, SetMetadataKeeps
  <2>5. ASSUME NEW j \in Ids, delete(c, j) PROVE RecordsInv'
      BY <2>5, DeleteKeeps
  <2>6. ASSUME NEW j \in Ids, NEW name \in Names, memory_add_asset(c, j, name) PROVE RecordsInv'
      BY <2>6, MemoryAddAssetKeeps
  <2>7. ASSUME NEW j \in Ids, NEW name \in Names, select(c, "add_asset", j, name) PROVE RecordsInv'
      BY <2>7, SelectKeeps
  <2>8. ASSUME NEW j \in Ids, NEW o \in {"append_log", "job_logs"}, memory_check(c, o, j) PROVE RecordsInv'
      BY <2>8, MemoryCheckKeeps
  <2>9. ASSUME NEW j \in Ids, select(c, "append_log", j, Absent) PROVE RecordsInv'
      BY <2>9, SelectKeeps
  <2>10. ASSUME NEW j \in Ids,
             \/ sqlite_logs(c, j)
             \/ \E o \in {"get_job", "get_results", "estimate_job"} : get(c, o, j)
             \/ \E name \in Names, file \in {200, 404, 500} : download_asset(c, j, name, file)
         PROVE RecordsInv'
      BY <2>10, ReadersKeep
  <2> QED BY <1>2, <2>1, <2>2, <2>3, <2>4, <2>5, <2>6, <2>7, <2>8, <2>9, <2>10 DEF StoreStep
<1>3. CASE UNCHANGED recordVars
  <2>1. StoreTypeOK'
      BY <1>3 DEF recordVars, RecordsInv, StoreTypeOK
  <2>2. Told' /\ (\A j \in Ids : Fresh(j)' /\ Issued(j)') /\ \A c, d \in Callers : OwnNumber(c, d)'
      BY <1>3 DEF recordVars, RecordsInv, Told, Fresh, Issued, OwnNumber
  <2>3. \A j \in Ids : Kept(j)'
      BY <1>3, Zenon DEF recordVars, RecordsInv, Kept
  <2>4. \A c \in Callers : Numbered(c)' /\ InMemory(c)' /\ Snapshot(c)'
      BY <1>3 DEF recordVars, RecordsInv, Numbered, InMemory, Snapshot
  <2> QED BY <2>1, <2>2, <2>3, <2>4 DEF RecordsInv
<1> QED BY <1>1, <1>2, <1>3 DEF StoreNext

LEMMA StoreInvImplies == RecordsInv => RecordsKept
BY Zenon DEF RecordsInv, Told, Kept, RecordsKept

\* The rows, the logs, the calls under way and the counters keep their types.
THEOREM StoreTypeCorrect == StoreSpec => []StoreTypeOK
<1>1. RecordsInv => StoreTypeOK
    BY DEF RecordsInv
<1> QED BY <1>1, StoreInitInv, StoreNextInv, PTL DEF StoreSpec

\* However many callers append, read, patch and delete at once, in either
\* store, and whenever the process restarts: an existing job has exactly the log
\* entries and assets whose append was acknowledged, each once and in its place,
\* a deleted one none but those of appends it raced, and a reader misses nothing
\* that was there when it asked (job_store.rs).
THEOREM NothingAcknowledgedIsLost == StoreSpec => []RecordsKept
BY StoreInitInv, StoreNextInv, StoreInvImplies, PTL DEF StoreSpec
=============================================================================
