----------------------------- MODULE MCProcesses -----------------------------
(***************************************************************************)
(* Submitted graphs and the processes they name: pure functions are asked  *)
(* one question each, the cube processes are applied in chains.            *)
(***************************************************************************)
EXTENDS GraphAnalysis, Zonal, CubeOps

VARIABLES question, answer

vars == <<question, answer, cubeVars>>

\* libm stands for any function: these tell processes and operands apart.
MCFn(f, v) == QAdd(v[1], IF Len(v) = 1 THEN Q(1, 7) ELSE QMul(v[2], Q(1, 11)))

Lit(q) == [form |-> "lit", v |-> q]
Param(n) == [form |-> "param", name |-> n]
Node(id) == [form |-> "node", id |-> id]
Pixels == {Whole(0), Whole(1), Whole(2)}
Stacks(S, n) == UNION {[1..k -> S] : k \in 0..n}
\* Two more nodes below the result, links in every direction.
Step(p, x, y, r) == [pid |-> p, args |-> [x |-> x, y |-> y], result |-> r]
Targets == {Node("a"), Node("b"), Node("c"), Node("d")}
MCGraphs ==
    {[a |-> Step("add", ax, ay, TRUE), b |-> Step(bp, bx, by, FALSE), c |-> Step(cp, cx, cy, FALSE)] :
        ax \in {Node("b"), Param("x")}, ay \in {Node("c"), Lit(Whole(1))},
        bp \in {"divide", "bogus"}, bx \in {Lit(Whole(1)), Node("c"), Node("d")}, by \in {Param("x"), Node("a")},
        cp \in {"normalized_difference", "none"}, cx \in {Param("x"), Node("b")}, cy \in {Lit(Whole(-1)), Lit(Whole(2))}}
Reduce(p, d) == [pid |-> p, args |-> [data |-> d], result |-> FALSE]
MCCompounds ==
    {[a |-> Step(ap, Node("b"), Node("c"), TRUE), b |-> Reduce(bp, bd), c |-> Reduce(cp, Param("data"))] :
        ap \in {"subtract", "divide", "eq"}, bp \in {"max", "count", "round"}, bd \in {Param("data"), Node("c"), Param("x")},
        cp \in {"min", "median"}}
    \cup {[a |-> [Reduce(p, d) EXCEPT !.result = TRUE]] : p \in {"mean", "sum", "min", "max", "count", "median", "add"},
          d \in {Param("data"), Param("x")}}
Seqs(n) == UNION {[1..k -> {0, 1, Null, Text}] : k \in 0..n}
Seq4(s) == [form |-> "seq", v |-> s]
Json(v) == [form |-> "int", v |-> v]
Flagged(b) == [form |-> "bool", v |-> b]
MCArrays ==
    {[data |-> Seq4(s), asc |-> Flagged(b), nodata |-> n] : s \in Seqs(4), b \in BOOLEAN, n \in {Flagged(TRUE), Flagged(FALSE), Json(Null)}}
\* Two operands are nearer to each other than the tolerance of `apply'.
MCTolerance == [eq |-> Q(1, 3), span |-> Q(1, 4)]
Operands == {Whole(-2), Whole(0), Q(5, 4), Q(3, 2)}
MCQuestions ==
    [op : {"reduce"}, stack : Stacks({NA, Whole(-1), Whole(0), Q(1, 2), Whole(3)}, 4)]
    \cup [op : {"scalar"}, pid : ScalarNames \ {"and", "or", "xor", "not"}, option : {FALSE}, v : [1..3 -> Operands]]
    \cup [op : {"scalar"}, pid : {"eq", "neq", "between", "round"}, option : {TRUE}, v : [1..3 -> Operands]]
    \cup [op : {"callback"}, g : MCGraphs, pixels : {Pixels}]
    \cup [op : {"compound"}, g : MCCompounds, stack : Stacks({Whole(0), Whole(2), Whole(3)}, 3)]
    \cup [op : {"array"}, pid : {"order", "sort"}, args : MCArrays]
    \cup [op : {"array"}, pid : {"array_create"}, args : {[data |-> Seq4(s), repeat |-> Json(n)] : s \in Seqs(2), n \in 0..4}]
    \cup [op : {"array"}, pid : {"array_element"},
          args : {[data |-> Seq4(s), index |-> Json(n), return_nodata |-> Flagged(b)] : s \in Seqs(2), n \in -1..2, b \in BOOLEAN}]
    \cup [op : {"array"}, pid : {"array_find", "count"},
          args : {[data |-> Seq4(s), value |-> Json(v)] : s \in Seqs(3), v \in {1, Null}}]
    \cup [op : {"array"}, pid : {"array_append", "array_concat"},
          args : {[data |-> Seq4(s), array1 |-> Seq4(s), array2 |-> Seq4(s), value |-> Json(1)] : s \in Seqs(2)}]
    \cup [op : {"names"}, a : Stacks({"a", "b"}, 4), b : Stacks({"a", "b"}, 4),
          names : {<< <<"a", "b", "a">>, <<"b">>, <<"a", "a", "a", "a", "b">>, <<"a", "b">> >>}]

\* Bodies of one to three nodes; links alone, beside another key, in arrays,
\* below objects, and inside callbacks.
N(n) == [num |-> Whole(n)]
Obj(f) == [obj |-> f]
Link(id) == Obj([from_node |-> Text_(id)])
Inner(v, p) == Obj([process_graph |-> Obj([c |-> Obj([process_id |-> Text_(p), arguments |-> Obj([x |-> v, y |-> N(1)]),
                                                       result |-> N(1)])])])
Nested(v, n) == LET f[k \in 0..n] == IF k = 0 THEN v ELSE Obj([x |-> f[k - 1]]) IN f[n]
JsonNode(p, args) == [process_id |-> Text_(p), arguments |-> Obj(args)]
Marked(f) == Obj(f @@ [result |-> N(1)])
MCValues == {N(0), N(2), Link("a"), Link("b"), Obj([from_node |-> Text_("b"), note |-> N(1)]), [arr |-> <<N(1), Link("b")>>],
             Nested(Link("b"), 2), Nested(N(1), 6), Inner(Link("c"), "add"), Inner(Link("a"), "mean"), Text_("s2")}
Second == {Obj(JsonNode(p, [x |-> v, y |-> N(2), id |-> Text_("s2")])) :
             p \in {"add", "divide", "load_collection", "nope"}, v \in {N(1), Link("a"), Link("z")}}
First == {JsonNode(p, [data |-> v, process |-> w, x |-> v, y |-> w, reducer |-> w, dimension |-> Text_("t")]) :
            p \in {"add", "apply", "save_result", "reduce_dimension", "nope"}, v \in MCValues, w \in {N(3), Inner(N(1), "multiply")}}
MCBodies ==
    {Obj([process |-> Obj([process_graph |-> Obj([a |-> Marked(f), b |-> g])])]) : f \in First, g \in Second}
    \cup {Obj([process_graph |-> Obj([a |-> Marked(f), process_graph |-> g])]) : f \in First, g \in Second}
    \cup {Obj([process_graph |-> Obj([a |-> Obj(f), b |-> Marked(f)])]) : f \in First}
    \cup {Obj([process_graph |-> Obj([a |-> Marked(f), b |-> Marked(f)])]) : f \in First}
    \cup {Obj([process_graph |-> Obj([k \in {} |-> N(1)])]), Obj([process_graph |-> Obj([a |-> N(1)])]), Obj([x |-> N(1)])}
Required(pid) ==
    [k \in SPECS[pid].required |->
        IF pid \in {"and", "or", "xor", "not"} THEN Flagged(TRUE)
        ELSE IF k \in {"data", "array1", "array2"} THEN Seq4(<<1, 0>>)
        ELSE IF pid \in Arrays THEN Json(1) ELSE Lit(Whole(IF k = "max" THEN 3 ELSE 2))]
MCGraphQuestions ==
    [op : {"graph"}, body : MCBodies]
    \cup {[op |-> "catalog", pid |-> p, args |-> Required(p)] : p \in ScalarNames \cup Arrays}

\* Polygons over a raster of three by three pixels.
Coordinate == {Whole(-1), Whole(0), Q(1, 2), Whole(1), Q(5, 4), Q(5, 2)}
Point == Coordinate \X {Whole(0), Q(1, 2), Whole(1), Whole(3)}
Square(lo, hi) == << <<lo, lo>>, <<hi, lo>>, <<hi, hi>>, <<lo, hi>> >>
BowTie == << <<Whole(0), Whole(0)>>, <<Whole(3), Whole(3)>>, <<Whole(3), Whole(0)>>, <<Whole(0), Whole(3)>> >>
Pairs_(ring) == [pairs |-> ring]
List(s) == [list |-> s]
Geo(t, v) == [type |-> t, items |-> v]
Polygon(ring) == Geo("Polygon", List(<<Pairs_(ring), Pairs_(Square(Whole(1), Whole(2)))>>))
Big == Square(Whole(0), Whole(3))
Small == Square(Whole(1), Whole(2))
MCGeometries ==
    LET p == Polygon(Big)
        m == Geo("MultiPolygon", List(<<List(<<Pairs_(Small)>>), List(<<Pairs_(Big)>>)>>))
        c(t, s) == Geo(t, List(s))
    IN  {p, m, Geo("Feature", m), c("FeatureCollection", <<Geo("Feature", p), Geo("Feature", m)>>),
         c("GeometryCollection", <<m, c("GeometryCollection", <<p>>), p>>), List(<<p, m>>)}
Raster3(px, w) == [rows |-> 3, cols |-> 3, px |-> px, moved |-> <<Whole(0), Whole(0)>>,
                   gt |-> [x |-> Whole(0), y |-> Whole(0), w |-> w, h |-> Whole(1)]]
Pixels9 == {[i \in 1..9 |-> Whole(i)], [i \in 1..9 |-> IF i > 4 THEN NA ELSE Whole(i)]}
Cube9(names, r) == [bands |-> [b \in names |-> <<r, Raster3([i \in 1..9 |-> Whole(1)], Whole(1))>>], order |-> <<"B04", "SCL", "ndvi">>]
ReducerOf(p) == [form |-> "process", v |-> [a |-> [pid |-> p, args |-> [data |-> Param("data")], result |-> TRUE]]]
MCZonalQuestions ==
    [op : {"raster"}, ring : {<<p, r, s>> : p \in Point, r \in {<<Whole(0), Whole(3)>>, <<Q(5, 2), Q(1, 2)>>}, s \in Point}
                             \cup {Square(a, b) : a \in Coordinate, b \in Coordinate} \cup {BowTie, << >>}, rows : {3}, cols : {0, 2, 3}]
    \cup [op : {"rings"}, geometry : MCGeometries]
    \cup [op : {"zonal"}, rings : {<<Small>>, <<Small, Big>>, << >>}, raster : {Raster3(px, Whole(1)) : px \in Pixels9},
          args : [reducer : {Lost, ReducerOf("mean"), ReducerOf("max"), ReducerOf("add")},
                  geometries : MCGeometries \cup {Lost, Pairs_(Small), Pairs_(<<Big[1]>>)},
                  data : {Lost} \cup {Cube9(ns, Raster3(px, w)) : px \in Pixels9, w \in {Whole(0), Whole(1)}, ns \in {{"SCL"}, {"SCL", "ndvi"}}}]]
    \cup [op : {"learn"}, x : {<< >>, << <<Whole(1)>>, <<Whole(-1)>> >>, << <<Whole(1)>>, << >> >>}, y : {<<0, 1>>, <<300, 1>>, <<1>>},
          model : {[weights |-> <<Whole(1)>>, bias |-> Whole(0)], [model |-> [weights |-> <<Whole(1)>>, bias |-> Whole(-2)]],
                   [weights |-> << >>, bias |-> Whole(0)], [bias |-> Whole(0)]}]
AskedGraph(q) == q.op \in {"graph", "catalog"}
AskedZone(q) == q.op \in {"raster", "rings", "zonal", "learn"}

MCBandOrder == <<"B04", "B08", "SCL", "ndvi", "red", "result">>
MCBandSets == {{"B04", "B08", "SCL"}, {"B08"}}
MCNameLists == {<< >>, <<"red">>, <<"B04", "B04">>, <<"B08", "B04">>}
\* The second is no extent of filter_bbox, but one of filter_spatial; so is its envelope.
MCBoxes == {<<0, 0, 2, 2>>, <<2, 1, 0, 2>>}
Chain == [op |-> "chain"]

Init ==
    /\ answer = Null
    /\ \/ question \in MCQuestions \cup MCGraphQuestions \cup MCZonalQuestions /\ CubeIdle
       \/ question = Chain /\ CubeInit
ask ==
    /\ question # Chain /\ answer = Null
    /\ answer' = <<IF AskedGraph(question) THEN GraphAnswer(question)
                  ELSE IF AskedZone(question) THEN ZonalAnswer(question) ELSE CallbackAnswer(question)>>
    /\ UNCHANGED <<question, cubeVars>>
chain == question = Chain /\ CubeNext /\ UNCHANGED <<question, answer>>
Next == ask \/ chain
Spec == Init /\ [][Next]_vars

\* What a process answers is what its definition over exact numbers says, and
\* the three evaluators agree on it except where Differ says; polygons count the
\* pixels whose centres they hold, but for the first of a span that its border
\* cuts (CutOff), whatever GeoJSON they came in (sub_graph.rs, eval_apply.rs,
\* eval_reduce.rs, registry.rs, eval_arrays.rs, eo-vector).
ProcessesAreExact ==
    (answer # Null /\ ~AskedGraph(question)) =>
        IF AskedZone(question) THEN ZonalExact(question, answer[1]) ELSE CallbackExact(question, answer[1])
\* What the analysis accepts can be walked, what the submit-time check lets
\* through is known, and of scalar and array processes the catalog names the
\* parameters the handlers need, array_element apart (process_graph.rs,
\* executor.rs, process_catalog.rs, registry.rs).
GraphsAreSound ==
    /\ process_ids = register_defaults
    /\ (answer # Null /\ question.op = "graph") => AnalysisIsSound(question, answer[1])
    /\ (answer # Null /\ question.op = "catalog") => CatalogSuffices(question, answer[1])
=============================================================================
