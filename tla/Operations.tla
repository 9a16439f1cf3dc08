------------------------------ MODULE Operations ------------------------------
(***************************************************************************)
(* What operators of the servers look at: the metrics and their text       *)
(* export (orbit-observability), the layered configuration (orbit-config), *)
(* and the endpoints the openEO server advertises beside the ones it       *)
(* mounts (routes/discovery.rs, lib.rs).  No state is shared; each         *)
(* definition is a function of its arguments.                              *)
(***************************************************************************)
EXTENDS Integers, Sequences, FiniteSets, SequencesExt, Functions, FiniteSetsExt

CONSTANTS
    Fields,     \* fields of OrbitConfig
    Checked     \* those validate() wants to be greater than zero

ASSUME CheckedAssumption == Checked \subseteq Fields

-----------------------------------------------------------------------------
(* Metrics.  A series is <<name, labels>>; labels map keys to sequences of *)
(* characters.  Names and keys are numbers, in the order of the BTreeMap.  *)

counter_inc(counters, series, delta) ==
    [s \in DOMAIN counters \cup {series} |->
        (IF s \in DOMAIN counters THEN counters[s] ELSE 0) + (IF s = series THEN delta ELSE 0)]
histogram_observe(histograms, series, value) ==
    [s \in DOMAIN histograms \cup {series} |->
        LET old == IF s \in DOMAIN histograms THEN histograms[s] ELSE <<0, 0>>
        IN IF s = series THEN <<old[1] + 1, old[2] + value>> ELSE old]

Quote == "quote"
Newline == "newline"
Back == "backslash"
\* Faulty variant: a backslash is left as it is.
escapes_quotes_only(c) == IF c = Quote THEN <<Back, Quote>> ELSE IF c = Newline THEN <<Back, "n">> ELSE <<c>>
Escaped(c) ==
    CASE c = Back -> <<Back, Back>> [] c = Quote -> <<Back, Quote>> [] c = Newline -> <<Back, "n">> [] OTHER -> <<c>>
Value(v) == FlattenSeq([i \in DOMAIN v |-> Escaped(v[i])])
push_labels(labels) ==
    IF DOMAIN labels = {} THEN << >>
    ELSE LET keys == SetToSortSeq(DOMAIN labels, <)
             Pair(i) == (IF i = 1 THEN << >> ELSE <<",">>) \o <<keys[i], "=", Quote>> \o Value(labels[keys[i]]) \o <<Quote>>
         IN <<"{">> \o FlattenSeq([i \in DOMAIN keys |-> Pair(i)]) \o <<"}">>

\* The export is a sequence of lines [what, name, labels, value].
Line(w, n, l, v) == [what |-> w, name |-> n, labels |-> l, value |-> v]
Blocks(lines, type) ==
    LET names == SetToSortSeq({s[1] : s \in DOMAIN lines}, <)
        Block(n) == <<Line(type, n, << >>, 0)>>
                    \o FlattenSeq(SetToSeq({lines[s] : s \in {x \in DOMAIN lines : x[1] = n}}))
    IN FlattenSeq([i \in DOMAIN names |-> Block(names[i])])
to_prometheus(counters, histograms) ==
    Blocks([s \in DOMAIN counters |-> <<Line("series", s[1], push_labels(s[2]), counters[s])>>], "type")
    \o Blocks([s \in DOMAIN histograms |-> <<Line("count", s[1], push_labels(s[2]), histograms[s][1]),
                                             Line("sum", s[1], push_labels(s[2]), histograms[s][2])>>], "type")
\* Updates [series, value] of one kind, in the order of the recorder's lock.
Counted(ops) == FoldLeft(LAMBDA c, o : counter_inc(c, o.series, o.value), << >>, ops)
Observed(ops) == FoldLeft(LAMBDA h, o : histogram_observe(h, o.series, o.value), << >>, ops)

-----------------------------------------------------------------------------
(* Configuration.  A layer gives some fields a value: "good" ones, "zero"  *)
(* or "garbled" text.  A file is a layer, "missing" or "malformed".        *)

Defaults == [f \in Fields |-> "default"]
Merged(base, layer) == [f \in DOMAIN base \cup DOMAIN layer |-> IF f \in DOMAIN layer THEN layer[f] ELSE base[f]]
validate(c) == \A f \in Checked : c[f] # "zero"
extract(c) ==
    IF \E f \in DOMAIN c : c[f] = "garbled" THEN [err |-> "Parse"]
    ELSE IF ~validate(c) THEN [err |-> "Invalid"] ELSE [ok |-> c]
FileLayer(file) == IF file.state = "present" THEN file.layer ELSE << >>
load_toml(file) == IF file.state = "malformed" THEN [err |-> "Parse"] ELSE extract(Merged(Defaults, FileLayer(file)))
with_env_overrides(c, env) == extract(Merged(c, env))
\* Faulty variant: the file overrides the environment.
env_under_file(file, env) ==
    IF file.state = "malformed" THEN [err |-> "Parse"] ELSE extract(Merged(Merged(Defaults, env), FileLayer(file)))
load(file, env) ==
    IF file.state = "malformed" THEN [err |-> "Parse"] ELSE extract(Merged(Merged(Defaults, FileLayer(file)), env))
Succeeds(r) == "ok" \in DOMAIN r

-----------------------------------------------------------------------------
(* Endpoints: sets of <<path, methods>>.                                   *)

Get == {"GET"}
Both == {"GET", "POST"}
discovery_routes == {<<p, Get>> : p \in {"/", "/.well-known/openeo", "/conformance", "/me", "/health", "/metrics"}}
catalog_routes == {<<p, Get>> : p \in {"/collections", "/collections/{}", "/processes", "/file_formats", "/output_formats",
                                       "/service_types", "/udf_runtimes"}}
credential_routes == {<<"/credentials/basic", Get>>, <<"/credentials/oidc", Both>>, <<"/credentials/oidc/token", {"POST"}>>}
file_routes == {<<"/files/{}", Get>>, <<"/files/{}/{}", {"GET", "PUT", "DELETE"}>>}
job_routes == {<<"/jobs", Both>>, <<"/jobs/{}", {"GET", "PATCH", "DELETE"}>>, <<"/jobs/{}/estimate", Get>>, <<"/jobs/{}/logs", Get>>,
               <<"/jobs/{}/results", {"GET", "POST", "DELETE"}>>, <<"/jobs/{}/results/{}", Get>>}
graph_routes == {<<"/process_graphs", Get>>, <<"/process_graphs/{}", {"GET", "PUT", "DELETE"}>>}
service_routes == {<<"/services", Both>>, <<"/services/{}", {"GET", "PATCH", "DELETE"}>>}
spec_routes == {<<p, Get>> : p \in {"/openapi", "/openapi.json", "/openapi.yaml"}}
single_routes == {<<"/result", {"POST"}>>, <<"/validation", {"POST"}>>, <<"/subscription", Get>>}
\* /products exists only in builds with the geo kernel.
build_router(geo) ==
    discovery_routes \cup catalog_routes \cup credential_routes \cup file_routes \cup job_routes \cup graph_routes
    \cup service_routes \cup spec_routes \cup single_routes \cup (IF geo THEN {<<"/products", Get>>} ELSE {})
endpoint_list ==
    {<<p, Get>> : p \in {"/", "/.well-known/openeo", "/conformance", "/credentials/basic", "/me", "/collections", "/collections/{}",
        "/processes", "/process_graphs", "/jobs/{}/estimate", "/jobs/{}/logs", "/files/{}", "/service_types", "/file_formats",
        "/output_formats", "/udf_runtimes", "/subscription"}}
    \cup {<<p, Both>> : p \in {"/credentials/oidc", "/jobs", "/services"}}
    \cup {<<p, {"POST"}>> : p \in {"/credentials/oidc/token", "/result", "/validation"}}
    \cup {<<p, {"GET", "PUT", "DELETE"}>> : p \in {"/process_graphs/{}", "/files/{}/{}"}}
    \cup {<<p, {"GET", "PATCH", "DELETE"}>> : p \in {"/jobs/{}", "/services/{}"}}
    \cup {<<"/jobs/{}/results", {"GET", "POST", "DELETE"}>>}
capability_links == {"/", "/.well-known/openeo", "/collections", "/conformance"}

-----------------------------------------------------------------------------
(* Properties.                                                             *)

\* The export names every series once, under the TYPE line of its metric, with
\* the sum of what was recorded, whatever characters the label values hold: no
\* two lines speak of the same series (orbit-observability: push_labels).
MetricsAreTrue(incs, obs) ==
    LET text == to_prometheus(Counted(incs), Observed(obs))
        Of(ops, s) == {i \in DOMAIN ops : ops[i].series = s}
        Total(ops, s) == MapThenSumSet(LAMBDA i : ops[i].value, Of(ops, s))
        Serieses(ops) == {ops[i].series : i \in DOMAIN ops}
    IN /\ \A i, k \in DOMAIN text :
            text[i].what = text[k].what /\ text[i].what # "type" /\ text[i].name = text[k].name /\ text[i].labels = text[k].labels => i = k
       /\ \A s \in Serieses(incs) : \E i \in DOMAIN text : text[i] = Line("series", s[1], push_labels(s[2]), Total(incs, s))
       /\ \A s \in Serieses(obs) : \E i \in DOMAIN text : text[i] = Line("sum", s[1], push_labels(s[2]), Total(obs, s))
       /\ \A i \in DOMAIN text : text[i].what # "type" =>
            \E k \in 1..(i - 1) : text[k].what = "type" /\ \A j \in k..i : text[j].name = text[i].name
\* Loading in two steps never gives another configuration than loading at once,
\* and loading at once succeeds wherever the two steps do; the last layer that
\* sets a field decides it (orbit-config: load, load_toml, with_env_overrides).
LayersAgree(file, env) ==
    LET once == load(file, env)
        toml == load_toml(file)
    IN /\ Succeeds(toml) => once = with_env_overrides(toml.ok, env)
       /\ Succeeds(once) => \A f \in Fields :
            once.ok[f] = IF f \in DOMAIN env THEN env[f]
                         ELSE IF f \in DOMAIN FileLayer(file) THEN FileLayer(file)[f] ELSE "default"
\* What is advertised or linked answers, in builds with and without the geo
\* kernel, and what answers is advertised with all its methods, but for the
\* routes of `Unlisted': those the comment "Mirrors the routes we actually
\* serve" (routes/discovery.rs, endpoint_list) passes over.
Unlisted == {"/health", "/metrics", "/openapi", "/openapi.json", "/openapi.yaml", "/jobs/{}/results/{}", "/products"}
AdvertisedIsServed(geo) ==
    LET Answers(path, methods) == \E e \in build_router(geo) : e[1] = path /\ methods \subseteq e[2]
    IN /\ \A e \in endpoint_list : Answers(e[1], e[2])
       /\ \A e \in build_router(geo) : e[1] \in Unlisted \/ e \in endpoint_list
       /\ \A p \in capability_links : Answers(p, Get)
=============================================================================
