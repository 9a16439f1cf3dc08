---------------------------- MODULE GraphAnalysis ----------------------------
(***************************************************************************)
(* What happens to a submitted graph before and while it is walked: the    *)
(* submit-time check against the process catalog, the parser, the          *)
(* dependency analysis, the order of evaluation and the two executors that *)
(* need no raster; and the typed form a graph can be lifted into.           *)
(*                                                                         *)
(* A JSON value is [str], [num], [arr] or [obj]; other values are [num].    *)
(***************************************************************************)
EXTENDS ScalarProcesses

Is(v, kind) == kind \in DOMAIN v
Has(v, key) == Is(v, "obj") /\ key \in DOMAIN v.obj
Text_(s) == [str |-> s]
Refused(e) == [error |-> e]
Accepted(v) == [ok |-> v]
IsRefused(r) == "error" \in DOMAIN r

-----------------------------------------------------------------------------
(* The process catalog.                                                    *)

Params(req, opt) == [required |-> req, optional |-> opt]
SPECS ==
    [load_collection |-> Params({"id", "spatial_extent", "temporal_extent"}, {"bands", "properties"}),
     save_result |-> Params({"data", "format"}, {"options"}),
     reduce_dimension |-> Params({"data", "reducer", "dimension"}, {"context"}),
     apply |-> Params({"data", "process"}, {"context"}),
     mask |-> Params({"data", "mask"}, {"replacement"}),
     merge_cubes |-> Params({"cube1", "cube2"}, {"overlap_resolver", "context"}),
     ndvi |-> Params({"data"}, {"nir", "red", "target_band"}),
     filter_temporal |-> Params({"data", "extent"}, {"dimension"}),
     filter_spatial |-> Params({"data", "geometries"}, {}),
     filter_bbox |-> Params({"data", "extent"}, {}),
     filter_bands |-> Params({"data", "bands"}, {}),
     rename_labels |-> Params({"data", "dimension", "target"}, {"source"}),
     add_dimension |-> Params({"data", "name", "label"}, {"type"}),
     drop_dimension |-> Params({"data", "name"}, {}),
     resample_spatial |-> Params({"data"}, {"projection", "resolution", "method"}),
     aggregate_spatial |-> Params({"data", "geometries", "reducer"}, {"target_dimension", "context"}),
     mask_scl_dilation |-> Params({"data"}, {"scl_band_name", "kernel_size"}),
     mask_from_values |-> Params({"data", "band", "values"}, {}),
     aggregate_spatial_polygon |-> Params({"data", "geometries"}, {}),
     aggregate_spatial_point |-> Params({"data", "points"}, {}),
     zonal_histogram |-> Params({"data", "mask"}, {}),
     fit_classifier |-> Params({"x", "y"}, {"iterations", "lr"}),
     predict_classifier |-> Params({"model", "x"}, {})]
    @@ [p \in {"add", "subtract", "multiply", "divide", "mod", "normalized_difference", "arctan2",
               "gt", "gte", "lt", "lte", "and", "or", "xor"} |-> Params({"x", "y"}, {})]
    @@ [p \in (Unary \ {"exp"}) \cup {"not"} |-> Params({"x"}, {})]
    @@ [p \in {"eq", "neq"} |-> Params({"x", "y"}, {"delta", "case_sensitive"})]
    @@ [power |-> Params({"base", "p"}, {}), exp |-> Params({"p"}, {}), log |-> Params({"x", "base"}, {}),
        round |-> Params({"x"}, {"p"}), clip |-> Params({"x", "min", "max"}, {}),
        between |-> Params({"x", "min", "max"}, {"exclude_max"}),
        array_element |-> Params({"data"}, {"index", "label", "return_nodata"}),
        array_create |-> Params({}, {"data", "repeat"}), array_concat |-> Params({"array1", "array2"}, {}),
        count |-> Params({"data"}, {"condition"})]
    @@ [p \in {"array_append", "array_contains", "array_find"} |-> Params({"data", "value"}, {})]
    @@ [p \in {"order", "sort"} |-> Params({"data"}, {"asc", "nodata"})]
process_ids == DOMAIN SPECS

-----------------------------------------------------------------------------
(* The submit-time check.                                                  *)

BodyGraph(body) ==
    IF Has(body, "process") /\ Has(body.obj["process"], "process_graph") THEN <<body.obj["process"].obj["process_graph"]>>
    ELSE IF Has(body, "process_graph") THEN <<body.obj["process_graph"]>> ELSE << >>

\* Every process_id of a value, callbacks left out; past the depth limit nothing.
RECURSIVE walk(_, _)
walk(v, depth) ==
    LET own == IF Has(v, "process_id") /\ Is(v.obj["process_id"], "str") THEN {v.obj["process_id"].str} ELSE {}
    IN  IF depth > MAX_SUBGRAPH_DEPTH THEN {}
        ELSE IF Is(v, "arr") THEN UNION {walk(v.arr[i], depth + 1) : i \in DOMAIN v.arr}
        ELSE IF ~Is(v, "obj") \/ Has(v, "process_graph") THEN own
        ELSE own \cup UNION {walk(v.obj[k], depth + 1) : k \in DOMAIN v.obj}
collect_process_ids(body) == walk(IF BodyGraph(body) = << >> THEN body ELSE BodyGraph(body)[1], 0)
unsupported_process_ids(body) == collect_process_ids(body) \ process_ids

-----------------------------------------------------------------------------
(* Parsing and analysis. A node is [pid, args, result].                     *)

IsNode(v) == Has(v, "process_id") /\ Is(v.obj["process_id"], "str") /\ (Has(v, "arguments") => Is(v.obj["arguments"], "obj"))
ParsedNode(v) ==
    [pid |-> v.obj["process_id"].str, args |-> IF Has(v, "arguments") THEN v.obj["arguments"].obj ELSE << >>,
     result |-> Has(v, "result")]
\* `result' is given with the value true or not at all.
Nodes(pg) == [id \in DOMAIN pg.obj |-> ParsedNode(pg.obj[id])]
parse_graph(body) ==
    LET pg == BodyGraph(body)
    IN  IF pg = << >> THEN Refused("InvalidGraph")
        ELSE IF ~Is(pg[1], "obj") \/ \E id \in DOMAIN pg[1].obj : ~IsNode(pg[1].obj[id]) THEN Refused("InvalidGraph")
        ELSE IF DOMAIN pg[1].obj = {} THEN Refused("InvalidGraph")
        ELSE Accepted(Nodes(pg[1]))
validate_process_wrapper(body) ==
    LET pg == BodyGraph(body) IN pg # << >> /\ Is(pg[1], "obj") /\ DOMAIN pg[1].obj # {}

TooDeep == "depth exceeded"
\* Faulty variant: callbacks are walked like any other argument.
RECURSIVE collect_with_callbacks(_, _)
collect_with_callbacks(v, depth) ==
    IF depth > MAX_SUBGRAPH_DEPTH THEN {TooDeep}
    ELSE IF Is(v, "arr") THEN UNION {collect_with_callbacks(v.arr[i], depth + 1) : i \in DOMAIN v.arr}
    ELSE IF ~Is(v, "obj") THEN {}
    ELSE IF Has(v, "from_node") /\ Is(v.obj["from_node"], "str") THEN {v.obj["from_node"].str}
    ELSE UNION {collect_with_callbacks(v.obj[k], depth + 1) : k \in DOMAIN v.obj}

RECURSIVE collect_in_value(_, _)
collect_in_value(v, depth) ==
    IF depth > MAX_SUBGRAPH_DEPTH THEN {TooDeep}
    ELSE IF Is(v, "arr") THEN UNION {collect_in_value(v.arr[i], depth + 1) : i \in DOMAIN v.arr}
    ELSE IF ~Is(v, "obj") THEN {}
    ELSE IF Has(v, "from_node") /\ Is(v.obj["from_node"], "str") THEN {v.obj["from_node"].str}
    ELSE IF Has(v, "process_graph") THEN {}
    ELSE UNION {collect_in_value(v.obj[k], depth + 1) : k \in DOMAIN v.obj}
collect_from_node_refs(args) == UNION {collect_in_value(args[k], 0) : k \in DOMAIN args}

DependsOn(g) ==
    LET direct == [id \in DOMAIN g |-> collect_from_node_refs(g[id].args) \cap DOMAIN g]
        up[n \in Nat] == IF n = 0 THEN direct
                         ELSE [id \in DOMAIN g |-> up[n - 1][id] \cup UNION {up[n - 1][d] : d \in up[n - 1][id]}]
    IN  up[Cardinality(DOMAIN g)]
build(g) ==
    LET refs == UNION {collect_from_node_refs(g[id].args) : id \in DOMAIN g}
        marked == {id \in DOMAIN g : g[id].result}
    IN  IF ~(refs \subseteq DOMAIN g) THEN Refused(IF TooDeep \in refs THEN "DepthExceeded" ELSE "UnknownNodeReference")
        ELSE IF \E id \in DOMAIN g : id \in DependsOn(g)[id] THEN Refused("Cycle")
        ELSE IF Cardinality(marked) # 1 THEN Refused("AmbiguousResult")
        ELSE Accepted(CHOOSE id \in marked : TRUE)
\* petgraph's toposort over all the nodes: some order in which nothing precedes
\* what it depends on.
evaluation_order(g) ==
    LET ids == DOMAIN g
        upTo[n \in Nat] == IF n = 0 THEN << >>
                           ELSE LET s == upTo[n - 1]
                                IN  Append(s, CHOOSE id \in ids \ Range(s) : DependsOn(g)[id] \subseteq Range(s))
    IN  upTo[Cardinality(ids)]

-----------------------------------------------------------------------------
(* The executors that need no raster.                                      *)

\* Only an object whose one key is from_node is replaced.
resolve_value(v, memo) ==
    IF Is(v, "obj") /\ DOMAIN v.obj = {"from_node"} /\ Is(v.obj["from_node"], "str")
    THEN IF v.obj["from_node"].str \in DOMAIN memo THEN Accepted(memo[v.obj["from_node"].str]) ELSE Refused("InvalidGraph")
    ELSE Accepted(v)
\* LocalExecutor's dispatch; the catalog knows some collections.
dispatch(pid, args, known) ==
    LET num(k) == k \in DOMAIN args /\ Is(args[k], "num")
        x == args["x"].num
        y == args["y"].num
    IN  CASE pid = "load_collection" ->
               IF "id" \notin DOMAIN args \/ ~Is(args["id"], "str") THEN Refused("InvalidGraph")
               ELSE IF args["id"].str \notin known THEN Refused("Backend")
               ELSE Accepted([obj |-> [type |-> Text_("DataCube"), collection |-> args["id"]]])
          [] pid = "save_result" -> Accepted(IF "data" \in DOMAIN args THEN args["data"] ELSE [num |-> NaN])
          [] pid \in {"add", "subtract", "multiply", "divide"} ->
               IF ~num("x") \/ ~num("y") \/ (pid = "divide" /\ y = Whole(0)) THEN Refused("InvalidGraph")
               ELSE Accepted([num |-> CASE pid = "add" -> QAdd(x, y) [] pid = "subtract" -> QSub(x, y)
                                        [] pid = "multiply" -> QMul(x, y) [] pid = "divide" -> QDiv(x, y)])
          [] OTHER -> Refused("UnknownProcess")
evaluate(g, known) ==
    LET visit(s, id) ==
            LET args == [k \in DOMAIN g[id].args |-> resolve_value(g[id].args[k], s.memo)]
                out == IF \E k \in DOMAIN args : IsRefused(args[k]) THEN Refused("InvalidGraph")
                       ELSE dispatch(g[id].pid, [k \in DOMAIN args |-> args[k].ok], known)
            IN  IF s.error # "none" THEN s
                ELSE IF IsRefused(out) THEN [s EXCEPT !.error = out.error]
                ELSE [s EXCEPT !.memo = (id :> out.ok) @@ @]
        end == FoldLeft(visit, [memo |-> << >>, error |-> "none"], evaluation_order(g))
    IN  IF IsRefused(build(g)) THEN Refused("InvalidGraph")
        ELSE IF end.error # "none" THEN Refused(end.error)
        ELSE Accepted(end.memo[build(g).ok])
run_local(body, known) == IF IsRefused(parse_graph(body)) THEN parse_graph(body) ELSE evaluate(parse_graph(body).ok, known)
run_echo(body) == IF validate_process_wrapper(body) THEN Accepted(body) ELSE Refused("InvalidGraph")

-----------------------------------------------------------------------------
(* The typed form.                                                         *)

IrBinary == {"add", "subtract", "multiply", "divide"}
bbox_parse(v) == \A side \in {"west", "south", "east", "north"} : Has(v, side) /\ Is(v.obj[side], "num")
temporal_parse(v) == Is(v, "arr") /\ Len(v.arr) = 2
IrNeeds ==
    [filter_bbox |-> {"data", "extent"}, filter_temporal |-> {"data", "extent"}, filter_spatial |-> {"data", "geometries"},
     ndvi |-> {"data"}, mask |-> {"data", "mask"}, reduce_dimension |-> {"data", "reducer", "dimension"},
     apply |-> {"data", "process"}, resample_spatial |-> {"data", "projection"}, save_result |-> {"data"},
     load_collection |-> {"id"}, merge_cubes |-> {}] @@ [p \in IrBinary |-> {"x", "y"}]
\* Lifting a node: its arguments are there and have their types, and its
\* callback lifts in turn.
RECURSIVE from_nodes(_)
parse(n) ==
    LET a == n.args
        has(k) == k \in DOMAIN a
        sub(k) == LET pg == IF Has(a[k], "process_graph") THEN a[k].obj["process_graph"] ELSE a[k]
                  IN  IF ~Is(pg, "obj") \/ \E id \in DOMAIN pg.obj : ~IsNode(pg.obj[id]) THEN Refused("BadArgument")
                      ELSE from_nodes(Nodes(pg))
        shaped == CASE n.pid = "load_collection" -> /\ Is(a["id"], "str")
                                                    /\ has("spatial_extent") => bbox_parse(a["spatial_extent"])
                                                    /\ has("temporal_extent") => temporal_parse(a["temporal_extent"])
                    [] n.pid = "filter_bbox" -> bbox_parse(a["extent"])
                    [] n.pid = "filter_temporal" -> temporal_parse(a["extent"])
                    [] n.pid = "reduce_dimension" -> Is(a["dimension"], "str")
                    [] n.pid = "resample_spatial" -> Is(a["projection"], "num")
                    [] OTHER -> TRUE
        callback == IF n.pid = "apply" THEN sub("process") ELSE IF n.pid = "reduce_dimension" THEN sub("reducer") ELSE Accepted(n)
    IN  IF n.pid \notin DOMAIN IrNeeds THEN Refused("UnsupportedProcess")
        ELSE IF ~(IrNeeds[n.pid] \subseteq DOMAIN a) THEN Refused("MissingArgument")
        ELSE IF n.pid = "merge_cubes" /\ ~((has("cube1") \/ has("data1")) /\ (has("cube2") \/ has("data2")))
        THEN Refused("MissingArgument")
        ELSE IF IsRefused(callback) THEN callback
        ELSE IF ~shaped THEN Refused("BadArgument") ELSE Accepted(n.pid)
from_nodes(g) ==
    LET marked == {id \in DOMAIN g : g[id].result}
        bad == {id \in DOMAIN g : IsRefused(parse(g[id]))}
    IN  IF bad # {} THEN parse(g[CHOOSE id \in bad : TRUE])
        ELSE Accepted([nodes |-> DOMAIN g, marked |-> marked])

-----------------------------------------------------------------------------
(* Questions and what their answers must satisfy.                          *)

GraphAnswer(q) ==
    IF q.op = "catalog" THEN [handled |-> handle(q.pid, q.args)]
    ELSE LET g == parse_graph(q.body)
         IN  [parsed |-> g, missing |-> unsupported_process_ids(q.body),
              built |-> IF IsRefused(g) THEN g ELSE build(g.ok),
              ran |-> run_local(q.body, {"s2"}), echoed |-> run_echo(q.body),
              typed |-> IF IsRefused(g) THEN g ELSE from_nodes(g.ok)]

\* A callback's links are of another graph: they make no edge.
RECURSIVE OuterLinks(_)
OuterLinks(v) ==
    IF Is(v, "obj") THEN IF Has(v, "from_node") THEN {v.obj["from_node"].str}
                         ELSE UNION {OuterLinks(v.obj[k]) : k \in (IF Has(v, "process_graph") THEN {} ELSE DOMAIN v.obj)}
    ELSE IF Is(v, "arr") THEN UNION {OuterLinks(v.arr[i]) : i \in DOMAIN v.arr} ELSE {}

\* A graph the analysis accepts: the plan has every node the result depends on,
\* once, and each after what it depends on, so no link is looked up before it
\* has its value.  (The comment on evaluation_order, process_graph.rs:117, has no
\* other node in the plan and the result last; the code plans all nodes, in some
\* order, so neither is claimed.) What it refuses
\* is too deep, or has a dangling link, a cycle or not one result; the links in
\* a callback are not its business. A graph whose processes were all
\* found at submission is not refused later for an unknown one, unless a node
\* is called process_graph, which the submit-time walk takes for a callback.
\* The typed form never accepts what the catalog does not know.
AnalysisIsSound(q, r) ==
    LET g == r.parsed.ok
        plan == evaluation_order(g)
        at(id) == CHOOSE i \in DOMAIN plan : plan[i] = id
        links(id) == UNION {OuterLinks(g[id].args[k]) : k \in DOMAIN g[id].args}
    IN  /\ ~IsRefused(r.built) =>
               /\ {r.built.ok} \cup DependsOn(g)[r.built.ok] \subseteq Range(plan) /\ IsInjective(plan)
               /\ \A id \in Range(plan) : \A d \in links(id) : d \in Range(plan) /\ at(d) < at(id)
               /\ g[r.built.ok].result /\ \A id \in DOMAIN g : g[id].result => id = r.built.ok
        /\ (IsRefused(r.built) /\ ~IsRefused(r.parsed)) => IsRefused(r.ran)
        /\ (IsRefused(r.built) /\ ~IsRefused(r.parsed)) =>
               \/ r.built.error = "DepthExceeded"
               \/ \E id \in DOMAIN g : ~(links(id) \subseteq DOMAIN g)
               \/ \E S \in (SUBSET DOMAIN g) \ {{}} : \A id \in S : links(id) \cap S # {}
               \/ Cardinality({id \in DOMAIN g : g[id].result}) # 1
        /\ (r.missing = {} /\ ~IsRefused(r.parsed) /\ "process_graph" \notin DOMAIN g)
              => \A id \in DOMAIN g : g[id].pid \in register_defaults
        /\ ~IsRefused(r.typed) => /\ \A id \in DOMAIN g : g[id].pid \in register_defaults
                                  /\ ~IsRefused(r.built) => r.typed.ok.marked = {r.built.ok}
        /\ ~IsRefused(r.parsed) => ~IsRefused(r.echoed)

\* What the catalog tells a client of a scalar or an array process is enough:
\* called with its required parameters alone it finds its arguments.  Only
\* array_element does not: its index is listed as optional
\* (process_catalog.rs:137) and required by the handler (eval_arrays.rs:36).
CatalogSuffices(q, r) == (r.handled.tag = "invalid") <=> (q.pid = "array_element")
=============================================================================
