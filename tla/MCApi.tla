-------------------------------- MODULE MCApi --------------------------------
(***************************************************************************)
(* The openEO routes beside the job lifecycle.  The job stores, the tokens *)
(* and the user's files share no state, so a behaviour explores one of     *)
(* them; questions about a single request are asked at the start.          *)
(***************************************************************************)
EXTENDS JobRecords, Access, Requests, Operations, ApiDiff, EtlRemote

VARIABLE question

vars == <<question, recordVars, accessVars, requestVars, remoteVars>>

Right == <<97>>                     \* the expected name, and a token
Secret == <<98, Colon, 99>>         \* a password with a colon in it
Policy(k, t, b) == [kind |-> k, bearer |-> t, basic |-> b]
MCPolicies == {Policy("open", Nobody, Nobody), Policy("bearer", Right, Nobody), Policy("basic", Nobody, <<Right, Secret>>),
               Policy("any", Right, <<Right, Secret>>), Policy("any", Nobody, <<Right, << >> >>)}
Bytes == {97, 98, Colon, 255}
Strings(n) == UNION {[1..k -> Bytes] : k \in 0..n}
Header(s, t, d) == [scheme |-> s, token |-> t, digits |-> d]
Honest == {HeaderOf(u, p) : u \in {Right, <<98>>, << >>}, p \in {Secret, << >>, <<98>>, <<98, Colon, Colon>>}}
\* Right and Secret in two padded parts, with a blank, and with stray low bits.
InParts == Header("Basic", << >>, <<24, 16, Pad, Pad, 14, 38, 8, 58, 24, 48, Pad, Pad>>)
Loose == {InParts} \cup {Header("Basic", << >>, d) : d \in
            {<<24, 19, 41, 34, Blank, 14, 38, 12, Pad>>, <<24, 19, 41, 34, 14, 38, 13, Pad>>}}
MCHeaders == {Nobody} \cup Honest \cup Loose
        \cup {Header(s, t, << >>) : s \in {"Bearer", "Digest"}, t \in {Right, <<98>>, << >>}}
        \cup {Header("Basic", << >>, Encoded(b)) : b \in Strings(4)}
        \cup {Header("Basic", << >>, d) : d \in {<<Other>>, <<1, 2>>, <<Pad, 1, 2, 3>>, <<24, Blank, 23, 16, Pad>>}}
ASSUME HeadersDecode == Decodable(MCHeaders)
Alt(o, s) == [object |-> o, schemes |-> s]
MCOps == {[path |-> "/jobs", method |-> mt, security |-> sec] : mt \in {"GET", "TRACE"},
            sec \in {Nobody, << >>, <<Alt(TRUE, {"Bearer"})>>, <<Alt(TRUE, {"Bearer"}), Alt(TRUE, {})>>,
                     <<Alt(FALSE, {}), Alt(TRUE, {"Basic", "Bearer"})>>}}
Codes3 == {Percent, 46, Slash, 97, 50, 69, 70, 45}
MCBodies == [graph : {"nodes", "other"}, where : {"process", "top"}, analysis : {"ok", "cycle"},
             unsupported : SUBSET {"p1", "p2"}, errors : {{}, {"e"}}]
MCUdps == [id : {"x", "other"}, graph : {"object", "other"}, summary : {"s"}]
MCPaths == {<<97>>, <<97, Slash, 98>>, <<97, Percent, 50, 70, 98>>, <<97, Slash, 46, 46>>, <<97, Hash, 49>>}
MCUsers == {<<97>>, <<97, 97>>}

Labelled(v) == 1 :> v
Texts == {<<Back, "n">>, <<Newline>>, <<Quote>>, <<Back, Quote>>, <<"a">>, << >>}
Serieses == {<<n, Labelled(v)>> : n \in 1..2, v \in Texts} \cup {<<1, << >> >>, <<2, (1 :> <<"a">>) @@ (2 :> <<Back>>)>>}
Updates == UNION {[1..n -> [series : s, value : 1..2]] : n \in 0..2, s \in {x \in SUBSET Serieses : Cardinality(x) = 2}}
MCFields == {"bind", "concurrency"}
Layers == UNION {[d -> {"good", "zero", "garbled"}] : d \in SUBSET MCFields}
TomlFiles == [state : {"missing", "malformed"}] \cup [state : {"present"}, layer : Layers]

Fn(n, v, i) == [kind |-> "fn", public |-> v, name |-> n, qualifiers |-> {}, async |-> FALSE, unsafe |-> FALSE, generics |-> << >>, inputs |-> i, output |-> "T"]
Arg(n, t) == [name |-> n, type |-> t]
Fns == {Fn("f", TRUE, i) : i \in {<<Arg("a", "T"), Arg("c", "U")>>, <<Arg("b", "T"), Arg("c", "U")>>, <<Arg("a", "U")>>}}
  \cup {Fn("f", FALSE, << >>), [Fn("f", TRUE, <<Arg("a", "U")>>) EXCEPT !.qualifiers = {"const"}]}
Struct(p) == [kind |-> "struct", public |-> TRUE, name |-> "S", generics |-> << >>, shape |-> "named", fields |-> <<[public |-> p, name |-> "x", type |-> "T"]>>]
Enum == [kind |-> "enum", public |-> TRUE, name |-> "E", variants |-> <<[name |-> "A", payload |-> "T"]>>]
Plain(k, n) == [kind |-> k, public |-> TRUE, name |-> n, generics |-> << >>, type |-> "T"]
Others == {<< >>, <<Struct(TRUE), Enum>>, <<Struct(FALSE), Plain("trait", "R")>>, <<Plain("type", "A"), Plain("const", "C"), [kind |-> "use", public |-> TRUE, name |-> "u"]>>}
InMod(v, items) == <<[kind |-> "mod", public |-> v, name |-> "m", items |-> items]>>
Bodies == {<<g>> \o o : g \in Fns, o \in Others} \cup {InMod(v, <<g>>) \o o : v \in BOOLEAN, g \in Fns, o \in Others} \cup {<<g, h>> : g, h \in Fns}
SourcePaths == {<<"crates", "c", "src", "lib">>, <<"crates", "c", "src", "m">>, <<"crates", "c", "src", "m", "mod">>, <<"m">>}
OneFile == {<<[path |-> p, items |-> b]>> : p \in SourcePaths, b \in Bodies}
Trees == {t \in OneFile : t[1].path[1] = "crates" /\ Len(t[1].path) = 4}
    \cup {<<[path |-> p, items |-> <<g>>], [path |-> q, items |-> InMod(TRUE, <<h>>)]>> : p \in SourcePaths, q \in {<<"m">>, <<"crates", "c", "src", "lib">>}, g, h \in {Fn("f", TRUE, << >>), Fn("f", FALSE, << >>)}}
MCArgs == [format : {{}, {"csv"}, {"json"}}, extension : {"csv", "pq", "ndjson", "txt"}, sql : {{}, {""}, {"q"}}, dedupe : {{}, {"c"}}, batch : {0, 1, 1024}]

Questions ==
    [ask : {"header"}, policy : MCPolicies, header : MCHeaders]
    \cup [ask : {"route"}, ops : {{o} : o \in MCOps} \cup {{}}, policy : MCPolicies, header : {Nobody, HeaderOf(Right, Secret), Header("Bearer", Right, << >>)}]
    \cup [ask : {"serve"}, args : [loopback : BOOLEAN, auth_token : {Nobody, Right, << >>}], ops : {{o} : o \in MCOps}, header : MCHeaders]
    \cup [ask : {"base64"}, bytes : Strings(5)]
    \cup [ask : {"path"}, path : UNION {[1..n -> Codes3] : n \in 0..4}]
    \cup [ask : {"graph"}, body : MCBodies, compiled : SUBSET {"process_graph", "process"}]
    \cup [ask : {"metrics"}, incs : Updates, obs : {<< >>, <<[series |-> <<2, << >> >>, value |-> 1]>>}]
    \cup [ask : {"config"}, file : TomlFiles, env : Layers]
    \cup [ask : {"endpoints"}, geo : BOOLEAN]
    \cup [ask : {"diff"}, left : Trees, right : {t \in Trees : Len(t) = 1 /\ Last(t[1].path) = "lib"}]
    \cup [ask : {"spec"}, args : MCArgs]
    \cup [ask : {"dates"}, from : {1000 * k : k \in 0..60}]
Asked == question.ask \notin {"records", "access", "requests", "remote"}

Resting ==
    /\ policy = Policy("open", Nobody, Nobody) /\ now = 0 /\ tokens = << >> /\ sessions = [c \in Codes |-> Nobody]
NoRecords == StoreInit /\ backend = "memory"
Init ==
    \/ question = [ask |-> "records"] /\ StoreInit /\ Resting /\ RequestInit /\ RemoteInit
    \/ question = [ask |-> "access"] /\ NoRecords /\ AccessInit /\ RequestInit /\ RemoteInit
    \/ question \in {[ask |-> "requests"], [ask |-> "remote"]} /\ NoRecords /\ Resting /\ RequestInit /\ RemoteInit
    \/ question \in Questions /\ NoRecords /\ Resting /\ RequestInit /\ RemoteInit
Next ==
    \/ question.ask = "records" /\ StoreNext /\ UNCHANGED <<question, accessVars, requestVars, remoteVars>>
    \/ question.ask = "access" /\ AccessNext({Nobody, HeaderOf(Right, Secret), HeaderOf(Right, <<98>>), InParts}) /\ UNCHANGED <<question, recordVars, requestVars, remoteVars>>
    \/ question.ask = "requests" /\ RequestNext(MCUdps) /\ UNCHANGED <<question, recordVars, accessVars, remoteVars>>
    \/ question.ask = "remote" /\ RemoteNext /\ UNCHANGED <<question, recordVars, accessVars, requestVars>>
Spec == Init /\ [][Next]_vars

\* Whose credential a header carries, by the reference encoding.
Proves(p, h) ==
    \/ p.bearer # Nobody /\ h = Header("Bearer", p.bearer, << >>)
    \/ p.basic # Nobody /\ h = HeaderOf(p.basic[1], p.basic[2])
    \/ p.basic = <<Right, Secret>> /\ h \in Loose
Gated(o) == \E r \in from_spec(o) : r.path = "/jobs" /\ r.method = "GET" /\ ~is_public(r)
\* Both servers, started with the same address and token, start or refuse
\* together and let in the same callers; one that others can reach serves a
\* gated route to nobody without the token.
ServersAgree(args, ops, header) ==
    LET http == start(args)
        grpc == serve(args)
        lets == enforce(from_spec(ops), http.auth, [path |-> "/jobs", method |-> "GET", header |-> header]) = 200
    IN  /\ http = Nobody <=> grpc = Nobody
        /\ http # Nobody /\ Gated(ops) => (lets <=> authenticate_request(header, grpc.expected) = "ok")
        /\ http # Nobody /\ Gated(ops) /\ ~args.loopback => (lets => header = Header("Bearer", args.auth_token, << >>))
Answered(q) ==
    CASE q.ask = "header" -> (check(q.policy, q.header) = "Authenticated") <=> (q.policy.kind # "open" /\ Proves(q.policy, q.header))
      [] q.ask = "route" -> (enforce(from_spec(q.ops), q.policy, [path |-> "/jobs", method |-> "GET", header |-> q.header]) = 200)
                             <=> (q.policy.kind = "open" \/ Proves(q.policy, q.header) \/ ~Gated(q.ops))
      [] q.ask = "serve" -> ServersAgree(q.args, q.ops, q.header)
      [] q.ask = "base64" -> b64_decode(Encoded(q.bytes)) = q.bytes
      [] q.ask = "path" -> PathNamesOneFile(q.path)
      [] q.ask = "graph" -> create_job(q.body)[1] = 201 => ~\E e \in validation(q.body, q.compiled) : e[1] = "ProcessUnsupported"
      [] q.ask = "metrics" -> MetricsAreTrue(q.incs, q.obs)
      [] q.ask = "config" -> LayersAgree(q.file, q.env)
      [] q.ask = "endpoints" -> AdvertisedIsServed(q.geo)
      [] q.ask = "diff" -> DiffIsExact(q.left, q.right)
      [] q.ask = "spec" -> SpecSurvives(q.args)
      [] q.ask = "dates" -> \A d \in q.from..(q.from + 999) : DatesAreCivil(d)
\* One request is judged as its parts say: a header proves exactly the
\* credential the policy expects, whatever bytes it encodes (auth, auth_layer.rs);
\* the REST and the gRPC server let in the same callers; decoding undoes RFC 4648; an accepted path names one file (file_store.rs);
\* POST /jobs takes no graph that POST /validation calls unsupported; and dates
\* follow the calendar for a hundred and sixty years (job_store.rs).  The
\* operator's questions: metrics add up and parse (orbit-observability), the
\* configuration's layers override in order, the capabilities list what is
\* routed and little less, api-diff has a row for each public item of the files
\* it reads and compares functions but for names, `const' and `extern', and the
\* options of `orbit etl run' reach the engine.
RequestsAreJudged == Asked => Answered(question)
=============================================================================
