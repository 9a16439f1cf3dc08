------------------------------ MODULE Callbacks ------------------------------
(***************************************************************************)
(* The processes on numbers, and the three places that evaluate them: the  *)
(* callback of `apply' (one pixel at a time), the callback of              *)
(* `reduce_dimension' (a stack of pixels) and the registry's handlers for  *)
(* top-level nodes; and the canonical sub-graph evaluator beside them.     *)
(*                                                                         *)
(* A callback is a function from node ids to [pid, args, result], args a   *)
(* function from argument names to JSON values: "lit" a number, "bool",    *)
(* "arr" a sequence of values, "param" and "node" the two links, "other"   *)
(* anything else.  Numbers are exact fractions: f32 and f64 differ *)
(* from them by rounding only.  The memo tables are left out: every        *)
(* evaluation of a node gives the same value.                              *)
(***************************************************************************)
EXTENDS Fractions, SequencesExt

CONSTANTS
    Fn(_, _),           \* libm, by process: sqrt, exp, ln, log, power, trigonometry
    TOLERANCE,          \* what `apply' takes for equal: [eq, span], 1e-9 and 1e-12
    MAX_SUBGRAPH_DEPTH

NA == Whole(-9999)   \* SENTINEL_NDVI_NA

\* What an evaluation returns: a number, an array, or one of two errors; a
\* panic ends the task instead.
Num(q) == [tag |-> "num", v |-> q]
Arr(s) == [tag |-> "arr", v |-> s]
InvalidGraph == [tag |-> "invalid", v |-> << >>]
PerPixelComputation == [tag |-> "pixel", v |-> << >>]
Panic == [tag |-> "panic", v |-> << >>]
Failed(r) == r.tag \in {"invalid", "pixel", "panic"}
Truth(b) == Num(Whole(IF b THEN 1 ELSE 0))

\* The first failure of a sequence of results, in its order.
FirstFailure(rs) == Head(SelectSeq(rs, Failed))
AnyFailed(rs) == \E i \in DOMAIN rs : Failed(rs[i])

-----------------------------------------------------------------------------
(* Shape of a callback.                                                    *)

require_subgraph(process) ==
    IF process.form # "process" \/ DOMAIN process.v = {} THEN InvalidGraph
    ELSE [tag |-> "graph", v |-> process.v]

find_unique_result_node(g) ==
    LET marked == {id \in DOMAIN g : g[id].result}
    IN  IF Cardinality(marked) # 1 THEN InvalidGraph
        ELSE [tag |-> "id", v |-> CHOOSE id \in marked : TRUE]

-----------------------------------------------------------------------------
(* The kernel of `apply'.                                                  *)

\* For each wanted operand the first of its names that is given; << >> when
\* one is missing or is not a number.
Scalars(args, wanted) ==
    LET have(i) == SelectSeq(wanted[i], LAMBDA k : k \in DOMAIN args)
    IN  IF \A i \in DOMAIN wanted : have(i) # << >> /\ args[Head(have(i))].tag = "num"
        THEN [i \in DOMAIN wanted |-> args[Head(have(i))].v]
        ELSE << >>

\* Two operands: x and y by name, else the pair in data.
two(args) ==
    IF {"x", "y"} \subseteq DOMAIN args THEN Scalars(args, << <<"x">>, <<"y">> >>)
    ELSE IF "data" \in DOMAIN args /\ args["data"].tag = "arr" /\ Len(args["data"].v) = 2
         THEN args["data"].v
         ELSE << >>
one(args) == Scalars(args, << <<"x", "data">> >>)

Pow10(p) == IF p >= 0 THEN Whole(10 ^ p) ELSE Q(1, 10 ^ (-p))
RoundTo(x, p) == LET factor == Pow10(QTrunc(p)[1]) IN QDiv(QRound(QMul(x, factor)), factor)
\* f64::clamp asserts min <= max.
Clamp(x, lo, hi) == IF ~QLe(lo, hi) THEN Panic ELSE Num(QMax(lo, QMin(x, hi)))

Compare == {"eq", "neq", "lt", "lte", "gt", "gte", "and", "or"}
Pairs == {"add", "subtract", "multiply", "divide", "max", "min", "mod", "normalized_difference"} \cup Compare
Trig == {"cos", "sin", "tan", "arccos", "arcsin", "arctan"}
Singles == {"absolute", "abs", "ln", "exp", "not", "sgn", "sign", "floor", "ceil", "int", "sqrt", "round"} \cup Trig

\* The operands a process takes, << >> for a process or arguments it refuses.
apply_operands(pid, args) ==
    CASE pid \in Pairs -> two(args)
      [] pid \in Singles -> one(args)
      [] pid = "power" -> Scalars(args, << <<"base", "x">>, <<"p", "y">> >>)
      [] pid = "log" -> Scalars(args, << <<"x", "data">>, <<"base", "y">> >>)
      [] pid \in {"clip", "between"} -> Scalars(args, << <<"x", "data">>, <<"min">>, <<"max">> >>)
      [] pid = "linear_scale_range" ->
            Scalars(args @@ [outputMin |-> Num(Whole(0)), outputMax |-> Num(Whole(1))],
                    << <<"x", "data">>, <<"inputMin">>, <<"inputMax">>, <<"outputMin">>, <<"outputMax">> >>)
      [] pid = "arctan2" ->
            IF {"x", "y"} \subseteq DOMAIN args THEN Scalars(args, << <<"y">>, <<"x">> >>) ELSE two(args)
      [] OTHER -> << >>

apply_op(pid, v, p) ==
    LET x == v[1]
        y == v[2]
    IN  CASE pid = "add" -> Num(QAdd(x, y))
          [] pid = "subtract" -> Num(QSub(x, y))
          [] pid = "multiply" -> Num(QMul(x, y))
          [] pid = "divide" -> IF y = Whole(0) THEN PerPixelComputation ELSE Num(QDiv(x, y))
          [] pid \in {"absolute", "abs"} -> Num(QAbs(x))
          [] pid \in {"power", "ln", "log", "exp", "sqrt", "arctan2"} \cup Trig -> Num(Fn(pid, v))
          [] pid = "eq" -> Truth(QLt(QAbs(QSub(x, y)), TOLERANCE.eq))
          [] pid = "neq" -> Truth(QLe(TOLERANCE.eq, QAbs(QSub(x, y))))
          [] pid = "lt" -> Truth(QLt(x, y))
          [] pid = "lte" -> Truth(QLe(x, y))
          [] pid = "gt" -> Truth(QLt(y, x))
          [] pid = "gte" -> Truth(QLe(y, x))
          [] pid = "and" -> Truth(x # Whole(0) /\ y # Whole(0))
          [] pid = "or" -> Truth(x # Whole(0) \/ y # Whole(0))
          [] pid = "not" -> Truth(x = Whole(0))
          [] pid = "max" -> Num(QMax(x, y))
          [] pid = "min" -> Num(QMin(x, y))
          [] pid = "clip" -> Clamp(x, y, v[3])
          [] pid = "between" -> Truth(QLe(y, x) /\ QLe(x, v[3]))
          [] pid = "linear_scale_range" ->
                IF QLt(QAbs(QSub(v[3], y)), TOLERANCE.span) THEN InvalidGraph
                ELSE Num(QAdd(QDiv(QMul(QSub(x, y), QSub(v[5], v[4])), QSub(v[3], y)), v[4]))
          [] pid = "mod" -> Num(QSub(x, QMul(y, QFloor(QDiv(x, y)))))
          [] pid \in {"sgn", "sign"} -> Num(QSignum(x))
          [] pid = "floor" -> Num(QFloor(x))
          [] pid = "ceil" -> Num(QCeil(x))
          [] pid = "int" -> Num(QTrunc(x))
          [] pid = "round" -> Num(RoundTo(x, p))
          [] pid = "normalized_difference" ->
                IF QAdd(x, y) = Whole(0) THEN PerPixelComputation ELSE Num(QDiv(QSub(x, y), QAdd(x, y)))
apply_pure_numeric_op(pid, args) ==
    LET v == apply_operands(pid, args)
        p == IF "p" \in DOMAIN args /\ args["p"].tag = "num" THEN args["p"].v ELSE Whole(0)
    IN  IF v = << >> THEN InvalidGraph ELSE apply_op(pid, v, p)

RECURSIVE resolve_arg_value(_, _, _, _), eval_node_inline(_, _, _, _)

\* A number, the pixel (whatever the parameter's name), another node's value,
\* or an array of those, flat.
resolve_arg_value(a, g, busy, x) ==
    CASE a.form = "lit" -> Num(a.v)
      [] a.form = "param" -> Num(x)
      [] a.form = "node" -> eval_node_inline(a.id, g, busy, x)
      [] a.form = "arr" ->
            LET rs == [i \in DOMAIN a.elems |->
                          LET e == resolve_arg_value(a.elems[i], g, busy, x)
                          IN  IF e.tag = "arr" THEN InvalidGraph ELSE e]
            IN  IF AnyFailed(rs) THEN FirstFailure(rs) ELSE Arr([i \in DOMAIN rs |-> rs[i].v])
      [] OTHER -> InvalidGraph

\* Arguments are resolved in the order of their names (serde_json's map).
ArgOrder == <<"base", "data", "delta", "exclude_max", "inputMax", "inputMin", "max", "min", "outputMax", "outputMin", "p", "x", "y">>

eval_node_inline(id, g, busy, x) ==
    IF id \in busy \/ id \notin DOMAIN g \/ g[id].pid = "none" THEN InvalidGraph
    ELSE LET node == g[id]
             names == SelectSeq(ArgOrder, LAMBDA k : k \in DOMAIN node.args)
             val == [k \in DOMAIN node.args |-> resolve_arg_value(node.args[k], g, busy \cup {id}, x)]
             rs == [i \in DOMAIN names |-> val[names[i]]]
         IN  IF AnyFailed(rs) THEN FirstFailure(rs) ELSE apply_pure_numeric_op(node.pid, val)

eval_apply_subgraph(g, x) ==
    LET root == find_unique_result_node(g)
    IN  IF DOMAIN g = {} THEN InvalidGraph
        ELSE IF Failed(root) THEN root
        ELSE eval_node_inline(root.v, g, {}, x)

\* eval_apply first runs the callback on 0 and passes on every error of it.
smoke_test(process) ==
    LET pg == require_subgraph(process)
    IN  IF Failed(pg) THEN pg ELSE eval_apply_subgraph(pg.v, Whole(0))

\* The worker of one pixel: raw value to physical unit, callback, NA for
\* everything that is not a finite number.
apply_pixel(g, v, scale, offset) ==
    LET r == eval_apply_subgraph(g, QAdd(QMul(v, scale), offset))
    IN  IF ~Finite(v) \/ v = NA THEN Num(NA)
        ELSE IF r.tag = "panic" \/ (r.tag = "num" /\ Finite(r.v)) THEN r
        ELSE Num(NA)

-----------------------------------------------------------------------------
(* The kernel of `reduce_dimension'.                                       *)

ReducerName == [mean |-> "mean", min |-> "min", max |-> "max", sum |-> "sum", median |-> "median",
                count |-> "count", first |-> "first", last |-> "last", sd |-> "sd", stdev |-> "sd",
                variance |-> "variance", var |-> "variance"]
IsReducer(pid) == pid \in DOMAIN ReducerName

Ascending(stack) == SortSeq(stack, QLt)
SumOfSquares(stack) ==
    LET mean == QDiv(QSum(stack), Whole(Len(stack)))
    IN  QSum([i \in DOMAIN stack |-> QMul(QSub(stack[i], mean), QSub(stack[i], mean))])
\* Faulty variant: the population's variance.
population_variance(stack) == QDiv(SumOfSquares(stack), Whole(Len(stack)))
sample_variance(stack) ==
    IF Len(stack) < 2 THEN Whole(0) ELSE QDiv(SumOfSquares(stack), Whole(Len(stack) - 1))

apply_reducer(stack, r) ==
    LET n == Len(stack)
        s == Ascending(stack)
    IN  CASE r = "mean" -> QDiv(QSum(stack), Whole(n))
          [] r = "min" -> FoldLeft(QMin, NaN, stack)
          [] r = "max" -> FoldLeft(QMax, NaN, stack)
          [] r = "sum" -> QSum(stack)
          [] r = "count" -> Whole(n)
          [] r = "first" -> stack[1]
          [] r = "last" -> stack[n]
          [] r = "median" -> IF n % 2 = 1 THEN s[n \div 2 + 1]
                             ELSE QDiv(QAdd(s[n \div 2], s[n \div 2 + 1]), Whole(2))
          [] r = "variance" -> sample_variance(stack)
          [] r = "sd" -> IF n < 2 THEN Whole(0) ELSE Fn("sqrt", <<sample_variance(stack)>>)

\* The operands of a scalar process in the order they are resolved.
ReduceOperands ==
    [pid \in {"add", "subtract", "multiply", "mod", "normalized_difference"} |-> <<"x", "y">>]
    @@ [pid \in {"divide", "arctan2"} |-> <<"y", "x">>]
    @@ [pid \in {"absolute", "sqrt", "ln", "sgn", "sign", "floor", "ceil", "int", "round"} \cup Trig |-> <<"x">>]
    @@ [pid \in {"clip", "between"} |-> <<"x", "min", "max">>]
    @@ [power |-> <<"base", "p">>, exp |-> <<"p">>]

\* Every node names a reducer or a scalar process.
validate_reduce_subgraph_processes(g) ==
    \A id \in DOMAIN g : IsReducer(g[id].pid) \/ g[id].pid \in DOMAIN ReduceOperands

parse_reducer_subgraph(process) ==
    LET pg == require_subgraph(process)
        root == find_unique_result_node(pg.v)
        pid == pg.v[root.v].pid
    IN  CASE Failed(pg) -> pg
          [] Failed(root) -> root
          [] pid = "none" -> InvalidGraph
          [] Cardinality(DOMAIN pg.v) = 1 /\ IsReducer(pid) -> [tag |-> "builtin", v |-> ReducerName[pid]]
          [] ~validate_reduce_subgraph_processes(pg.v) -> InvalidGraph
          [] OTHER -> [tag |-> "subgraph", v |-> pg.v]

reduce_op(pid, v, p) ==
    LET x == v[1]
        y == v[2]
    IN  CASE pid = "add" -> Num(QAdd(x, y))
          [] pid = "subtract" -> Num(QSub(x, y))
          [] pid = "multiply" -> Num(QMul(x, y))
          [] pid = "divide" -> IF x = Whole(0) THEN PerPixelComputation ELSE Num(QDiv(y, x))
          [] pid = "absolute" -> Num(QAbs(x))
          [] pid \in {"power", "ln", "exp", "sqrt", "arctan2"} \cup Trig -> Num(Fn(pid, v))
          [] pid = "clip" -> Clamp(x, y, v[3])
          [] pid = "between" -> Truth(QLe(y, x) /\ QLe(x, v[3]))
          [] pid = "mod" -> Num(QSub(x, QMul(y, QFloor(QDiv(x, y)))))
          [] pid \in {"sgn", "sign"} -> Num(QSignum(x))
          [] pid = "floor" -> Num(QFloor(x))
          [] pid = "ceil" -> Num(QCeil(x))
          [] pid = "int" -> Num(QTrunc(x))
          [] pid = "round" -> Num(RoundTo(x, p))
          [] pid = "normalized_difference" ->
                IF QAdd(x, y) = Whole(0) THEN PerPixelComputation ELSE Num(QDiv(QSub(x, y), QAdd(x, y)))

RECURSIVE eval_reduce_node(_, _, _, _)

\* One argument: a number, the stack, or another node's value.
resolve(node, key, g, stack, busy) ==
    IF key \notin DOMAIN node.args THEN InvalidGraph
    ELSE LET a == node.args[key]
         IN  CASE a.form = "lit" -> Num(a.v)
               [] a.form = "param" -> IF a.name = "data" THEN Arr(stack) ELSE InvalidGraph
               [] a.form = "node" -> eval_reduce_node(a.id, g, stack, busy)
               [] OTHER -> InvalidGraph
scalar(r) == IF r.tag = "arr" THEN PerPixelComputation ELSE r

eval_reduce_node(id, g, stack, busy) ==
    IF id \in busy \/ id \notin DOMAIN g \/ g[id].pid = "none" THEN InvalidGraph
    ELSE LET node == g[id]
             at(key) == resolve(node, key, g, stack, busy \cup {id})
         IN  IF IsReducer(node.pid)
             THEN LET data == at("data")
                      values == IF data.tag = "arr" THEN data.v ELSE <<data.v>>
                  IN  IF Failed(data) THEN data
                      ELSE Num(IF values = << >> THEN NA ELSE apply_reducer(values, ReducerName[node.pid]))
             ELSE IF node.pid \notin DOMAIN ReduceOperands THEN InvalidGraph
             ELSE LET keys == ReduceOperands[node.pid]
                      rs == [i \in DOMAIN keys |-> scalar(at(keys[i]))]
                      p == IF "p" \in DOMAIN node.args /\ node.args["p"].form = "lit"
                           THEN node.args["p"].v ELSE Whole(0)
                  IN  \* a zero divisor is noticed before the dividend is resolved
                      IF node.pid = "divide" /\ rs[1] = Num(Whole(0)) THEN PerPixelComputation
                      ELSE IF AnyFailed(rs) THEN FirstFailure(rs)
                      ELSE reduce_op(node.pid, [i \in DOMAIN rs |-> rs[i].v], p)

eval_reduce_subgraph(g, stack) ==
    LET root == find_unique_result_node(g)
    IN  IF Failed(root) THEN root ELSE scalar(eval_reduce_node(root.v, g, stack, {}))

\* The worker of one pixel: NA and non-finite values leave the stack, an empty
\* stack stays NA, and so does every error of a compound callback.
reduce_pixel(kind, raw) ==
    LET stack == SelectSeq(raw, LAMBDA v : Finite(v) /\ v # NA)
        r == eval_reduce_subgraph(kind.v, stack)
    IN  IF stack = << >> THEN Num(NA)
        ELSE IF kind.tag = "builtin" THEN Num(apply_reducer(stack, kind.v))
        ELSE IF r.tag \in {"num", "panic"} THEN r ELSE Num(NA)

-----------------------------------------------------------------------------
(* The canonical evaluator of sub_graph.rs: parameters are bound by name,  *)
(* literal arrays are passed on as they are, depth is limited.             *)

data_arr(args) ==
    IF "data" \notin DOMAIN args \/ args["data"].form # "arr" THEN InvalidGraph
    ELSE LET d == args["data"].elems
         IN  IF \A i \in DOMAIN d : d[i].form = "lit" THEN Arr([i \in DOMAIN d |-> d[i].v]) ELSE InvalidGraph

apply_kernel(pid, args) ==
    LET xs == data_arr(args)
        n == Len(xs.v)
    IN  IF pid \notin {"mean", "sum", "min", "max", "count"} \/ Failed(xs) THEN InvalidGraph
        ELSE IF n = 0 /\ pid \in {"mean", "min", "max"} THEN InvalidGraph
        ELSE Num(CASE pid = "mean" -> QDiv(QSum(xs.v), Whole(n))
                   [] pid = "sum" -> QSum(xs.v)
                   [] pid = "min" -> FoldLeft(QMin, NaN, xs.v)
                   [] pid = "max" -> FoldLeft(QMax, NaN, xs.v)
                   [] pid = "count" -> Whole(n))

RECURSIVE resolve_arg(_, _, _, _, _), eval_node_value(_, _, _, _, _)

resolve_arg(a, g, params, busy, depth) ==
    CASE depth > MAX_SUBGRAPH_DEPTH -> InvalidGraph
      [] a.form = "param" -> IF a.name \in DOMAIN params THEN [tag |-> "json", v |-> params[a.name]] ELSE InvalidGraph
      [] a.form = "node" -> eval_node_value(a.id, g, params, busy, depth + 1)
      [] OTHER -> [tag |-> "json", v |-> a]

eval_node_value(id, g, params, busy, depth) ==
    IF depth > MAX_SUBGRAPH_DEPTH \/ id \in busy \/ id \notin DOMAIN g \/ g[id].pid = "none" THEN InvalidGraph
    ELSE LET node == g[id]
             val == [k \in DOMAIN node.args |-> resolve_arg(node.args[k], g, params, busy \cup {id}, depth + 1)]
             r == apply_kernel(node.pid, [k \in DOMAIN val |-> val[k].v])
         IN  IF \E k \in DOMAIN val : Failed(val[k]) THEN InvalidGraph
             ELSE IF Failed(r) THEN r ELSE [tag |-> "json", v |-> [form |-> "lit", v |-> r.v]]

evaluate_subgraph(g, params) ==
    LET root == find_unique_result_node(g)
    IN  IF Failed(root) THEN root ELSE eval_node_value(root.v, g, params, {}, 0)
=============================================================================
