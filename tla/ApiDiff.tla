------------------------------- MODULE ApiDiff -------------------------------
(***************************************************************************)
(* tools/api-diff: the public items of two source trees, joined into rows. *)
(*                                                                         *)
(* An item is a record with its kind, visibility, name and the parts its   *)
(* normalised signature is made of; types and generics are opaque values,  *)
(* printed alike however they are spaced.  A tree is a sequence of files   *)
(* [path, items], in the order the directory walk meets them.  The 64-bit  *)
(* hash of a signature is the signature: collisions are left out.          *)
(***************************************************************************)
EXTENDS Integers, Sequences, FiniteSets, SequencesExt

\* Path components: the last one is a file name without its ".rs".
Roots == {"mod", "lib", "main"}
derive_module_path(path) ==
    LET comps == IF path # << >> /\ Last(path) \in Roots THEN Front(path) ELSE path
        srcs == {i \in DOMAIN comps : comps[i] = "src"}
    IN IF srcs = {} THEN << >>
       ELSE SubSeq(comps, (CHOOSE i \in srcs : \A k \in srcs : i <= k) + 1, Len(comps))

-----------------------------------------------------------------------------
(* Signatures.                                                             *)

\* A parameter is [name, type]; its name, `const' and `extern' leave no trace.
\* Faulty variant: parameter names stay.
parameter_names_kept(sig) ==
    <<"fn", sig.async, sig.unsafe, sig.name, sig.generics, sig.inputs, sig.output>>
normalise_fn_sig(sig) ==
    <<"fn", sig.async, sig.unsafe, sig.name, sig.generics, [i \in DOMAIN sig.inputs |-> sig.inputs[i].type], sig.output>>
\* Fields that are not public leave no trace; names of tuple fields are "".
Exposed(fields) == SelectSeq(fields, LAMBDA x : x.public)
normalise_struct(s) ==
    <<"struct", s.name, s.generics, s.shape, [i \in DOMAIN Exposed(s.fields) |-> <<Exposed(s.fields)[i].name, Exposed(s.fields)[i].type>>]>>
\* What an enum's variants carry and what a trait's items are is not looked at.
normalise_enum(e) == <<"enum", e.name, [i \in DOMAIN e.variants |-> e.variants[i].name]>>
normalise_trait(t) == <<"trait", t.name, t.generics>>
normalise_type_alias(t) == <<"type", t.name, t.type>>
signature(item) ==
    CASE item.kind = "fn" -> normalise_fn_sig(item)
      [] item.kind = "struct" -> normalise_struct(item)
      [] item.kind = "enum" -> normalise_enum(item)
      [] item.kind = "trait" -> normalise_trait(item)
      [] item.kind = "type" -> normalise_type_alias(item)
      [] item.kind \in {"const", "static"} -> <<item.kind, item.name, item.type>>
      [] item.kind = "mod" -> <<"mod", item.name>>
Kinds == {"fn", "struct", "enum", "trait", "type", "const", "static", "mod"}
symbol_from_item(item, module) ==
    IF item.kind \in Kinds /\ item.public
    THEN <<[module_path |-> module, kind |-> item.kind, name |-> item.name, hash |-> signature(item)]>> ELSE << >>

RECURSIVE walk_items(_, _)
walk_items(items, module) ==
    FlattenSeq([i \in DOMAIN items |->
        symbol_from_item(items[i], module)
        \o (IF items[i].kind = "mod" /\ items[i].public THEN walk_items(items[i].items, Append(module, items[i].name)) ELSE << >>)])
collect_tree(tree) == FlattenSeq([i \in DOMAIN tree |-> walk_items(tree[i].items, derive_module_path(tree[i].path))])

-----------------------------------------------------------------------------
(* The join.                                                               *)

\* The crate is no part of the key.
join_key(s) == <<s.module_path, s.kind, s.name>>
Keys(symbols) == {join_key(symbols[i]) : i \in DOMAIN symbols}
\* Of several symbols with one key the last is kept.
Kept(symbols, k) == Last(SelectSeq(symbols, LAMBDA s : join_key(s) = k))
DiffRow(l, r, k) ==
    [key |-> k, in_left |-> k \in Keys(l), in_right |-> k \in Keys(r),
     signature_match |-> IF k \in Keys(l) /\ k \in Keys(r) THEN {Kept(l, k).hash = Kept(r, k).hash} ELSE {}]
\* Rows are ordered by module and name; rows that agree on both stay unordered.
diff(l, r) == {DiffRow(l, r, k) : k \in Keys(l) \cup Keys(r)}
write_csv(rows) ==
    {<<row.key[1], row.key[2], row.key[3], row.in_left, row.in_right,
       IF row.signature_match = {} THEN "" ELSE IF row.signature_match = {TRUE} THEN "true" ELSE "false">> : row \in rows}

-----------------------------------------------------------------------------
(* Properties.                                                             *)

\* Items reachable from outside by name, written without the walk: a chain of
\* public modules leads to a public item.
RECURSIVE Reachable(_, _)
Reachable(items, module) ==
    {<<module, i.kind, i.name>> : i \in {x \in Range(items) : x.public /\ x.kind \in Kinds}}
    \cup UNION {Reachable(i.items, Append(module, i.name)) : i \in {x \in Range(items) : x.public /\ x.kind = "mod"}}
\* Two functions are the same surface when renaming parameters makes them
\* equal, `const' and `extern' aside.
Renamed(a, b) == [a EXCEPT !.qualifiers = b.qualifiers,
                           !.inputs = [i \in DOMAIN a.inputs |-> [a.inputs[i] EXCEPT !.name = b.inputs[i].name]]]
SameSurface(a, b) == Len(a.inputs) = Len(b.inputs) /\ Renamed(a, b) = b

\* The table has one row for every public item of the eight kinds that the files
\* of either tree declare and none for an item behind a private inline module (a
\* file counts as public however its module is declared: collect_tree does not
\* look); and, where a key is not ambiguous, a function's row says "true" exactly
\* when the two are the same but for the names of their parameters and for
\* `const' and `extern' (api-diff lib.rs: walk_items, normalise_fn_sig, diff,
\* write_csv).
DiffIsExact(l, r) ==
    LET rows == write_csv(diff(collect_tree(l), collect_tree(r)))
        Seen(t) == UNION {Reachable(t[i].items, derive_module_path(t[i].path)) : i \in DOMAIN t}
        Fns(t) == {x \in UNION {Range(t[i].items) : i \in DOMAIN t} : x.kind = "fn" /\ x.public}
        Only(t, n) == Cardinality({x \in Fns(t) : x.name = n}) = 1 /\ Len(t) = 1
    IN /\ {<<w[1], w[2], w[3]>> : w \in rows} = Seen(l) \cup Seen(r)
       /\ Cardinality(rows) = Cardinality(Seen(l) \cup Seen(r))
       /\ \A w \in rows : w[4] = (<<w[1], w[2], w[3]>> \in Seen(l)) /\ w[5] = (<<w[1], w[2], w[3]>> \in Seen(r))
       /\ \A a \in Fns(l), b \in Fns(r) :
            (a.name = b.name /\ Only(l, a.name) /\ Only(r, b.name)
               /\ derive_module_path(l[1].path) = derive_module_path(r[1].path))
            => (\E w \in rows : w[2] = "fn" /\ w[3] = a.name /\ w[1] = derive_module_path(l[1].path) /\ w[6] = "true") = SameSurface(a, b)
=============================================================================
