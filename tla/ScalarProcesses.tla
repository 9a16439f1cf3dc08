--------------------------- MODULE ScalarProcesses ---------------------------
(***************************************************************************)
(* The process registry: the handlers of the scalar and array processes at *)
(* the top level of a graph, the lookup by name and its suggestions.       *)
(*                                                                         *)
(* A handler gets its arguments resolved: a function from names to JSON    *)
(* values as in Callbacks.  Elements of arrays are integers, Null, or Text *)
(* for any other value.                                                    *)
(***************************************************************************)
EXTENDS Callbacks

CONSTANTS Null, Text, MAX_ARRAY_LEN

Bool(b) == [tag |-> "bool", v |-> b]
Data(a) == [tag |-> "json", v |-> a]

arg_number(args, key) ==
    IF key \in DOMAIN args /\ args[key].form = "lit" THEN Num(args[key].v) ELSE InvalidGraph
arg_bool(args, key) ==
    IF key \in DOMAIN args /\ args[key].form = "bool" THEN Bool(args[key].v) ELSE InvalidGraph

\* op on the operands named by keys, or the first error among them.
With(get(_, _), args, keys, op(_)) ==
    LET rs == [i \in DOMAIN keys |-> get(args, keys[i])]
    IN  IF AnyFailed(rs) THEN FirstFailure(rs) ELSE op([i \in DOMAIN rs |-> rs[i].v])

unary_num_handler(pid, args) ==
    With(arg_number, args, <<IF pid = "exp" THEN "p" ELSE "x">>, LAMBDA v :
        CASE pid = "absolute" -> Num(QAbs(v[1]))
          [] pid = "sgn" -> Num(QSignum(v[1]))
          [] pid = "floor" -> Num(QFloor(v[1]))
          [] pid = "ceil" -> Num(QCeil(v[1]))
          [] pid = "int" -> Num(QTrunc(v[1]))
          [] OTHER -> Num(Fn(pid, v)))

binary_num_handler(pid, args) ==
    CASE pid = "power" -> With(arg_number, args, <<"base", "p">>, LAMBDA v : Num(Fn(pid, v)))
      [] pid = "arctan2" -> With(arg_number, args, <<"y", "x">>, LAMBDA v : Num(Fn(pid, v)))
      [] pid = "mod" -> With(arg_number, args, <<"x", "y">>,
                             LAMBDA v : Num(QSub(v[1], QMul(v[2], QFloor(QDiv(v[1], v[2]))))))

cmp_handler(pid, args) ==
    With(arg_number, args, <<"x", "y">>, LAMBDA v :
        Bool(CASE pid = "gt" -> QLt(v[2], v[1])
               [] pid = "gte" -> QLe(v[2], v[1])
               [] pid = "lt" -> QLt(v[1], v[2])
               [] pid = "lte" -> QLe(v[1], v[2])))

\* Exact, or within delta when one is given.
EqHandler(args) ==
    With(arg_number, args, <<"x", "y">>, LAMBDA v :
        Bool(IF "delta" \in DOMAIN args /\ args["delta"].form = "lit"
             THEN QLe(QAbs(QSub(v[1], v[2])), args["delta"].v)
             ELSE Finite(v[1]) /\ v[1] = v[2]))
NeqHandler(args) ==
    With(arg_number, args, <<"x", "y">>, LAMBDA v :
        Bool(~(IF "delta" \in DOMAIN args /\ args["delta"].form = "lit"
               THEN QLe(QAbs(QSub(v[1], v[2])), args["delta"].v)
               ELSE Finite(v[1]) /\ v[1] = v[2])))

LogHandler(args) ==
    With(arg_number, args, <<"x", "base">>, LAMBDA v :
        IF QLe(v[2], Whole(0)) \/ v[2] = Whole(1) THEN InvalidGraph ELSE Num(Fn("log", v)))

RoundHandler(args) ==
    LET p == IF "p" \in DOMAIN args /\ args["p"].form = "lit" /\ args["p"].v[2] = 1 THEN args["p"].v ELSE Whole(0)
    IN  With(arg_number, args, <<"x">>, LAMBDA v : Num(RoundTo(v[1], p)))

ClipHandler(args) == With(arg_number, args, <<"x", "min", "max">>, LAMBDA v : Clamp(v[1], v[2], v[3]))

NormalizedDifferenceHandler(args) ==
    With(arg_number, args, <<"x", "y">>, LAMBDA v :
        IF QAdd(v[1], v[2]) = Whole(0) THEN InvalidGraph ELSE Num(QDiv(QSub(v[1], v[2]), QAdd(v[1], v[2]))))

BetweenHandler(args) ==
    LET open == "exclude_max" \in DOMAIN args /\ args["exclude_max"] = [form |-> "bool", v |-> TRUE]
    IN  With(arg_number, args, <<"x", "min", "max">>, LAMBDA v :
            Bool(QLe(v[2], v[1]) /\ (IF open THEN QLt(v[1], v[3]) ELSE QLe(v[1], v[3]))))

\* and / or look at y only when x does not decide.
logical_handlers(pid, args) ==
    LET x == arg_bool(args, "x")
        y == arg_bool(args, "y")
    IN  CASE Failed(x) -> x
          [] pid = "not" -> Bool(~x.v)
          [] pid = "and" /\ ~x.v -> x
          [] pid = "or" /\ x.v -> x
          [] Failed(y) -> y
          [] pid = "xor" -> Bool(x.v # y.v)
          [] OTHER -> y

arithmetic_handlers(pid, args) ==
    With(arg_number, args, <<"x", "y">>, LAMBDA v :
        CASE pid = "add" -> Num(QAdd(v[1], v[2]))
          [] pid = "subtract" -> Num(QSub(v[1], v[2]))
          [] pid = "multiply" -> Num(QMul(v[1], v[2]))
          [] pid = "divide" -> IF v[2] = Whole(0) THEN InvalidGraph ELSE Num(QDiv(v[1], v[2])))

-----------------------------------------------------------------------------
(* Arrays.                                                                 *)

arr(args, key) == IF key \in DOMAIN args /\ args[key].form = "seq" THEN Data(args[key].v) ELSE InvalidGraph
Flag(args, key, default) == IF key \in DOMAIN args /\ args[key].form = "bool" THEN args[key].v ELSE default

array_element(args) ==
    LET data == arr(args, "data")
        i == args["index"].v
    IN  IF Failed(data) \/ "index" \notin DOMAIN args \/ i < 0 THEN InvalidGraph
        ELSE IF i < Len(data.v) THEN Data(data.v[i + 1])
        ELSE IF Flag(args, "return_nodata", FALSE) THEN Data(Null) ELSE InvalidGraph

Repeat(s, n) == [i \in 1..(n * Len(s)) |-> s[((i - 1) % Len(s)) + 1]]
array_create(args) ==
    LET given == arr(args, "data")
        data == IF Failed(given) THEN << >> ELSE given.v
        repeat == IF "repeat" \in DOMAIN args /\ args["repeat"].v > 1 THEN args["repeat"].v ELSE 1
    IN  IF data = << >> THEN Data(<< >>)
        ELSE IF Len(data) * repeat > MAX_ARRAY_LEN THEN InvalidGraph
        ELSE Data(Repeat(data, repeat))

array_concat(args) ==
    LET a == arr(args, "array1")
        b == arr(args, "array2")
    IN  IF Failed(a) \/ Failed(b) THEN InvalidGraph ELSE Data(a.v \o b.v)
array_append(args) ==
    LET a == arr(args, "data")
    IN  IF Failed(a) \/ "value" \notin DOMAIN args THEN InvalidGraph ELSE Data(Append(a.v, args["value"].v))
array_contains(args) ==
    LET a == arr(args, "data")
    IN  IF Failed(a) \/ "value" \notin DOMAIN args THEN InvalidGraph
        ELSE Bool(\E i \in DOMAIN a.v : a.v[i] = args["value"].v)
array_find(args) ==
    LET a == arr(args, "data")
        at == {i \in DOMAIN a.v : a.v[i] = args["value"].v}
    IN  IF Failed(a) \/ "value" \notin DOMAIN args THEN InvalidGraph
        ELSE IF at = {} THEN Data(Null) ELSE Data(Min(at) - 1)
count(args) ==
    LET a == arr(args, "data")
    IN  IF Failed(a) THEN InvalidGraph ELSE Data(Len(SelectSeq(a.v, LAMBDA e : e # Null)))

\* Positions that hold no number: null and everything that is not numeric.
numeric_with_index(data) == [i \in DOMAIN data |-> data[i] \in {Null, Text}]

\* A stable sort of the numbers; nodata dropped, first or last.
order(args) ==
    LET a == arr(args, "data")
        asc == Flag(args, "asc", TRUE)
        nodata == Flag(args, "nodata", Null)
        all == [i \in DOMAIN a.v |-> i]
        none == SelectSeq(all, LAMBDA i : numeric_with_index(a.v)[i])
        before(i, j) == IF a.v[i] = a.v[j] THEN i < j ELSE (a.v[i] < a.v[j]) = asc
        valid == SortSeq(SelectSeq(all, LAMBDA i : ~numeric_with_index(a.v)[i]), before)
        out == CASE nodata = Null -> valid [] nodata = FALSE -> none \o valid [] nodata = TRUE -> valid \o none
    IN  IF Failed(a) THEN InvalidGraph ELSE Data([k \in DOMAIN out |-> out[k] - 1])

sort(args) ==
    LET a == arr(args, "data")
        asc == Flag(args, "asc", TRUE)
        nodata == Flag(args, "nodata", Null)
        nulls == [k \in 1..Len(SelectSeq(a.v, LAMBDA e : e \in {Null, Text})) |-> Null]
        valid == SortSeq(SelectSeq(a.v, LAMBDA e : e \notin {Null, Text}), LAMBDA x, y : (x < y) = asc /\ x # y)
    IN  IF Failed(a) THEN InvalidGraph
        ELSE Data(CASE nodata = Null -> valid [] nodata = FALSE -> nulls \o valid [] nodata = TRUE -> valid \o nulls)

-----------------------------------------------------------------------------
(* The registry.                                                           *)

Unary == {"absolute", "sqrt", "exp", "ln", "sgn", "floor", "ceil", "int"} \cup Trig
Arrays == {"array_element", "array_create", "array_concat", "array_append", "array_contains", "array_find",
           "count", "order", "sort"}
CubeProcesses ==
    {"load_collection", "ndvi", "mask", "mask_from_values", "mask_scl_dilation", "reduce_dimension", "apply",
     "save_result", "resample_spatial", "zonal_histogram", "aggregate_spatial_polygon", "aggregate_spatial_point",
     "merge_cubes", "aggregate_spatial", "fit_classifier", "predict_classifier", "filter_temporal",
     "filter_spatial", "filter_bbox", "filter_bands", "rename_labels", "add_dimension", "drop_dimension"}
ScalarNames ==
    Unary \cup {"power", "mod", "arctan2", "gt", "gte", "lt", "lte", "eq", "neq", "log", "round", "clip",
                "normalized_difference", "between", "and", "or", "xor", "not", "add", "subtract", "multiply", "divide"}
register_defaults == CubeProcesses \cup ScalarNames \cup Arrays

handle(pid, args) ==
    CASE pid \in Unary -> unary_num_handler(pid, args)
      [] pid \in {"power", "mod", "arctan2"} -> binary_num_handler(pid, args)
      [] pid \in {"gt", "gte", "lt", "lte"} -> cmp_handler(pid, args)
      [] pid \in {"and", "or", "xor", "not"} -> logical_handlers(pid, args)
      [] pid \in {"add", "subtract", "multiply", "divide"} -> arithmetic_handlers(pid, args)
      [] pid = "eq" -> EqHandler(args)
      [] pid = "neq" -> NeqHandler(args)
      [] pid = "log" -> LogHandler(args)
      [] pid = "round" -> RoundHandler(args)
      [] pid = "clip" -> ClipHandler(args)
      [] pid = "normalized_difference" -> NormalizedDifferenceHandler(args)
      [] pid = "between" -> BetweenHandler(args)
      [] pid = "array_element" -> array_element(args)
      [] pid = "array_create" -> array_create(args)
      [] pid = "array_concat" -> array_concat(args)
      [] pid = "array_append" -> array_append(args)
      [] pid = "array_contains" -> array_contains(args)
      [] pid = "array_find" -> array_find(args)
      [] pid = "count" -> count(args)
      [] pid = "order" -> order(args)
      [] pid = "sort" -> sort(args)

\* Edit distance, row by row; a name is a sequence of letters.
Min3(a, b, c) == Min({a, b, c})
levenshtein(a, b) ==
    LET d[i \in 0..Len(a), j \in 0..Len(b)] ==
            IF i = 0 THEN j ELSE IF j = 0 THEN i
            ELSE Min3(d[i - 1, j] + 1, d[i, j - 1] + 1, d[i - 1, j - 1] + (IF a[i] = b[j] THEN 0 ELSE 1))
    IN  d[Len(a), Len(b)]

\* The nearest names within a third of the length (at least two edits); ties
\* in the order of Names.
suggest(names, name, max) ==
    LET threshold == Max({Len(name) \div 3, 2})
        far(k) == levenshtein(name, names[k])
        near == SelectSeq([k \in DOMAIN names |-> k], LAMBDA k : far(k) <= threshold)
        sorted == SortSeq(near, LAMBDA k, l : far(k) < far(l) \/ (far(k) = far(l) /\ k < l))
    IN  SubSeq(sorted, 1, Min({max, Len(sorted)}))

-----------------------------------------------------------------------------
(* What is asked of them: one reduction, one process on given numbers, one *)
(* callback, one array, one pair of names.                                 *)

\* The arguments of a process; with its option: delta, exclude_max, decimals.
Call(pid, v, option) ==
    LET names == IF pid \in Unary \cup {"round", "not"} THEN <<IF pid = "exp" THEN "p" ELSE "x">>
                 ELSE IF pid \in {"clip", "between"} THEN <<"x", "min", "max">>
                 ELSE IF pid = "power" THEN <<"base", "p">> ELSE <<"x", "y">>
        lit(q) == [form |-> "lit", v |-> q]
        more == IF ~option THEN << >>
                ELSE IF pid = "between" THEN [exclude_max |-> [form |-> "bool", v |-> TRUE]]
                ELSE IF pid = "round" THEN [p |-> lit(v[2])] ELSE [delta |-> lit(v[3])]
    IN  [k \in Range(names) |-> lit(v[CHOOSE i \in DOMAIN names : names[i] = k])] @@ more
Single(pid, args) == [a |-> [pid |-> pid, args |-> args, result |-> TRUE]]

CallbackAnswer(q) ==
    CASE q.op = "reduce" -> [r \in Range(ReducerName) |-> reduce_pixel([tag |-> "builtin", v |-> r], q.stack)]
      [] q.op = "scalar" ->
            LET args == Call(q.pid, q.v, q.option)
            IN  [apply |-> eval_apply_subgraph(Single(q.pid, args), Whole(0)),
                 reduce |-> eval_reduce_subgraph(Single(q.pid, args), << >>),
                 registry |-> handle(q.pid, args)]
      [] q.op = "callback" ->
            [smoke |-> smoke_test([form |-> "process", v |-> q.g]),
             pixel |-> [x \in q.pixels |-> eval_apply_subgraph(q.g, x)],
             written |-> [x \in q.pixels |-> apply_pixel(q.g, x, Whole(1), Whole(0))]]
      [] q.op = "compound" ->
            LET kind == parse_reducer_subgraph([form |-> "process", v |-> q.g])
            IN  [kind |-> kind.tag, out |-> IF Failed(kind) THEN kind ELSE reduce_pixel(kind, q.stack),
                 canonical |-> evaluate_subgraph(q.g, [data |-> [form |-> "arr", elems |->
                                   [i \in DOMAIN q.stack |-> [form |-> "lit", v |-> q.stack[i]]]]])]
      [] q.op = "array" -> handle(q.pid, q.args)
      [] q.op = "names" -> [far |-> levenshtein(q.a, q.b), near |-> suggest(q.names, q.a, 2)]

Below(s, v) == Cardinality({i \in DOMAIN s : QLt(s[i], v)})
UpTo(s, v) == Cardinality({i \in DOMAIN s : QLe(s[i], v)})
\* v is the k-th smallest of s.
IsKth(s, k, v) == v \in Range(s) /\ Below(s, v) < k /\ k <= UpTo(s, v)

\* A reduction is its definition over the values that are not NA, and NA when
\* there are none; only first and last depend on the order.  The median of an
\* even number is the mean of the two in the middle (apply_reducer), though the
\* comment on Reducer::Median says "no interpolation" (eval_reduce.rs:30).
ReductionIsExact(q, r) ==
    LET s == SelectSeq(q.stack, LAMBDA v : v # NA)
        n == Len(s)
        sq == QSum([i \in DOMAIN s |-> QMul(s[i], s[i])])
    IN  IF n = 0 THEN \A k \in DOMAIN r : r[k] = Num(NA)
        ELSE /\ r["sum"].v = QSum(s) /\ QMul(r["mean"].v, Whole(n)) = r["sum"].v
             /\ IsKth(s, 1, r["min"].v) /\ IsKth(s, n, r["max"].v)
             /\ r["count"].v = Whole(n) /\ r["first"].v = s[1] /\ r["last"].v = s[n]
             /\ \E a, b \in Range(s) : /\ IsKth(s, (n + 1) \div 2, a) /\ IsKth(s, n \div 2 + 1, b)
                                       /\ r["median"].v = QDiv(QAdd(a, b), Whole(2))
             /\ IF n = 1 THEN r["variance"].v = Whole(0)
                ELSE QMul(r["variance"].v, Whole(n * (n - 1))) = QSub(QMul(Whole(n), sq), QMul(r["sum"].v, r["sum"].v))

\* Where the evaluators do differ: eq and neq of numbers within the tolerance
\* of `apply', or with a delta, which only the registry reads and which decides
\* otherwise; between at an excluded maximum, which only the registry excludes;
\* round to decimals that are not whole, which the registry takes for none.
Differ(q) ==
    LET off == QAbs(QSub(q.v[1], q.v[2]))
        equal(delta) == QLe(off, delta)
    IN  \/ q.pid \in {"eq", "neq"} /\ QLt(off, TOLERANCE.eq) # equal(IF q.option THEN q.v[3] ELSE Whole(0))
        \/ q.pid = "between" /\ q.option /\ q.v[1] = q.v[3]
        \/ q.pid = "round" /\ q.option /\ q.v[2][2] # 1
\* Apart from those cases the evaluators that accept a process give the same
\* number, a truth value counting as 0 or 1; a zero divisor is refused by all.
\* What a reducer may use the others accept too, but for exp, whose argument
\* `apply' knows only as x, and exclude_max, which `apply' refuses.  The reducer
\* lacks the comparisons, the logical processes and log, though a comment of
\* `apply' says that all three accept the same processes (eval_apply.rs:306).
KernelsAgree(q, r) ==
    LET number(t) == IF t.tag = "bool" THEN Truth(t.v) ELSE t
        taken == {k \in {"apply", "reduce", "registry"} : r[k].tag \in {"num", "bool"}}
    IN  /\ \A k, l \in taken : number(r[k]) # number(r[l]) => Differ(q) /\ "registry" \in {k, l}
        /\ q.pid \in DOMAIN ReduceOperands \ {"exp"} =>
               taken \cup (IF q.pid = "between" /\ q.option THEN {"apply"} ELSE {}) \in {{}, {"apply", "reduce", "registry"}}

Reachable(g, root) ==
    LET linked(id) == IF id \notin DOMAIN g THEN {}
                      ELSE {g[id].args[k].id : k \in {n \in DOMAIN g[id].args : g[id].args[n].form = "node"}}
        step[n \in Nat] == IF n = 0 THEN {root} ELSE step[n - 1] \cup UNION {linked(id) : id \in step[n - 1]}
    IN  [nodes |-> step[Cardinality(DOMAIN g) + 1],
         cyclic |-> \E id \in step[Cardinality(DOMAIN g) + 1] :
                       LET from[n \in Nat] == IF n = 0 THEN linked(id)
                                              ELSE from[n - 1] \cup UNION {linked(i) : i \in from[n - 1]}
                       IN  id \in from[Cardinality(DOMAIN g)]]
RootOf(g) == CHOOSE id \in DOMAIN g : g[id].result
\* Nothing the result depends on is missing, unknown or on a cycle.
WellFormed(g, known) ==
    LET reach == Reachable(g, RootOf(g))
    IN  ~reach.cyclic /\ \A id \in reach.nodes : id \in DOMAIN g /\ g[id].pid \in known

\* A callback is refused for its shape only when something its result depends
\* on is missing, unsupported or cyclic, and then gives a number for no pixel;
\* the pixel that is written is a finite number or NA.
CallbackIsExact(q, r) ==
    /\ \A x \in q.pixels : r.pixel[x].tag # IF WellFormed(q.g, Pairs) THEN "invalid" ELSE "num"
    /\ \A x \in q.pixels : r.written[x].tag = "num" /\ Finite(r.written[x].v)
                           /\ (r.pixel[x].tag = "num" => r.written[x] = r.pixel[x])

\* A compound reducer that is accepted gives NA only for an unsound graph or a
\* pixel that cannot be computed; the canonical evaluator agrees where both
\* accept the graph and a value is left.
CompoundIsExact(q, r) ==
    /\ r.kind = "invalid" => \E id \in DOMAIN q.g : ~IsReducer(q.g[id].pid) /\ q.g[id].pid \notin DOMAIN ReduceOperands
    /\ r.canonical.tag = "json" /\ r.kind # "invalid" /\ q.stack # << >> => r.out = Num(r.canonical.v.v)

\* Sorting keeps what it should keep, in order, equal elements in place; the
\* other array processes do what their names say.
ArrayIsExact(q, r) ==
    LET data == q.args["data"].v
        nodata == Flag(q.args, "nodata", Null)
        number(i) == data[i] \notin {Null, Text}
        kept == {i \in DOMAIN data : nodata # Null \/ number(i)}
    IN  CASE q.pid = "order" ->
               LET at(k) == r.v[k] + 1
               IN  /\ {at(k) : k \in DOMAIN r.v} = kept /\ Len(r.v) = Cardinality(kept)
                   /\ \A k, l \in DOMAIN r.v : k < l =>
                        \/ number(at(k)) /\ number(at(l))
                           /\ IF data[at(k)] = data[at(l)] THEN at(k) < at(l)
                              ELSE (data[at(k)] < data[at(l)]) = Flag(q.args, "asc", TRUE)
                        \/ ~number(at(k)) /\ ~number(at(l)) /\ at(k) < at(l)
                        \/ number(at(k)) = (nodata = TRUE) /\ number(at(k)) # number(at(l))
          [] q.pid = "sort" ->
               LET o == order(q.args).v
               IN  r.v = [k \in DOMAIN o |-> IF number(o[k] + 1) THEN data[o[k] + 1] ELSE Null]
          [] q.pid = "array_create" ->
               \/ Failed(r) /\ Len(data) * q.args["repeat"].v > MAX_ARRAY_LEN
               \/ ~Failed(r) /\ Len(r.v) <= MAX_ARRAY_LEN
                  /\ Len(r.v) = Len(data) * Max({1, q.args["repeat"].v})
                  /\ \A i \in DOMAIN r.v : r.v[i] = data[((i - 1) % Len(data)) + 1]
          [] q.pid = "array_element" ->
               \/ r.tag = "json" /\ r.v # Null /\ r.v = data[q.args["index"].v + 1]
               \/ r.tag = "json" /\ r.v = Null
                  /\ (Flag(q.args, "return_nodata", FALSE) \/ data[q.args["index"].v + 1] = Null)
               \/ Failed(r) /\ q.args["index"].v \notin 0..(Len(data) - 1)
          [] q.pid = "array_find" ->
               IF array_contains(q.args).v
               THEN LET i == r.v + 1 IN data[i] = q.args["value"].v /\ \A j \in 1..(i - 1) : data[j] # data[i]
               ELSE r.v = Null
          [] q.pid = "count" -> r.v + Cardinality({i \in DOMAIN data : data[i] = Null}) = Len(data)
          [] OTHER -> ~Failed(r)

\* The distance is the least number of edits: symmetric, zero only for equal
\* names, and one edit brings a different name one step nearer.  No name
\* beyond the threshold is suggested, and none nearer is left out.
NamesAreExact(q, r) ==
    LET edits(a) == {RemoveAt(a, i) : i \in DOMAIN a} \cup {ReplaceAt(a, i, b) : i \in DOMAIN a, b \in Range(q.b)}
                    \cup {InsertAt(a, i, b) : i \in 1..(Len(a) + 1), b \in Range(q.b)}
    IN  /\ r.far = levenshtein(q.b, q.a) /\ (r.far = 0 <=> q.a = q.b)
        /\ r.far > 0 => Min({levenshtein(c, q.b) : c \in edits(q.a)}) = r.far - 1
        /\ \A k \in DOMAIN q.names : k \notin Range(r.near) =>
             \/ levenshtein(q.a, q.names[k]) > Max({Len(q.a) \div 3, 2})
             \/ Len(r.near) = 2 /\ \A n \in Range(r.near) :
                    levenshtein(q.a, q.names[n]) <= levenshtein(q.a, q.names[k])

\* Everything a callback or a scalar process computes is what its definition
\* says, in each of the places that evaluate it.
CallbackExact(q, r) ==
    CASE q.op = "reduce" -> ReductionIsExact(q, r)
      [] q.op = "scalar" -> KernelsAgree(q, r)
      [] q.op = "callback" -> CallbackIsExact(q, r)
      [] q.op = "compound" -> CompoundIsExact(q, r)
      [] q.op = "array" -> ArrayIsExact(q, r)
      [] q.op = "names" -> NamesAreExact(q, r)
=============================================================================
