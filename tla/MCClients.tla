------------------------------ MODULE MCClients ------------------------------
(***************************************************************************)
(* The clients of remote catalogs and assets: the circuit breaker,    *)
(* the STAC search and the catalogs.  They share no state, so the run      *)
(* explores them one at a time: `part' says which, the others rest.        *)
(***************************************************************************)
EXTENDS CircuitBreaker, StacSearch, Catalogs

VARIABLE part

vars == <<part, breakerVars, searchVars, catalogVars>>

\* Bands and aliases: "B04" is canonical, "red" its alias.
MCAlias == [k \in {"red"} |-> "B04"]
Asset(k, h, e) == [key |-> k, href |-> h, epsg |-> e]
MCAssets == {<< >>, <<Asset("B04", FALSE, 1)>>,
             <<Asset("red", TRUE, NoValue), Asset("B04", TRUE, 2)>>,
             <<Asset("B04", FALSE, 1), Asset("red", TRUE, NoValue), Asset("SCL", TRUE, 2)>>}
Feature(c, a) == [cloud |-> c, epsg |-> 3, assets |-> a]
MCFeatures == {Feature(c, a) : c \in {NoValue, 0}, a \in MCAssets}
Simple == {Feature(c, <<Asset("B04", TRUE, 1)>>) : c \in {NoValue, 0, 40}}
MCPayloads == {<< >>} \cup [1..2 -> MCFeatures] \cup [1..3 -> Simple]

Href(s, h) == [dash |-> FALSE, scheme |-> s, host |-> h]
V4(a, b) == [kind |-> "v4", octets |-> <<a, b>>]
V6(s, l, m) == [kind |-> "v6", segment |-> s, loopback |-> l, mapped |-> m]
Name(c) == [kind |-> "name", class |-> c]
\* Addresses on both sides of every block boundary.
MCHosts == {V4(a, b) : a \in {0, 1, 9, 10, 11, 100, 126, 127, 128, 169, 172, 192},
                       b \in {0, 15, 16, 31, 32, 63, 64, 127, 128, 167, 168, 169, 253, 254, 255}}
      \cup {V6(s, FALSE, None) : s \in {64511, 64512, 65023, 65024, 65151, 65152, 65215, 65216}}
      \cup {V6(0, TRUE, None), V6(0, FALSE, <<127, 0>>), V6(0, FALSE, <<8, 8>>)}
      \cup {Name(c) : c \in {"public", "localhost", "internal", "local"}}
MCHrefs == {Href(s, h) : s \in {"https"}, h \in MCHosts}
      \cup {Href(s, Name("public")) : s \in {None, "http", "ftp"}}
      \cup {[dash |-> TRUE, scheme |-> "https", host |-> Name("public")]}
Public == Href("https", Name("public"))
MCSearches == {default_policy, relaxed_dev} \X MCHrefs \X {<< >>}
        \cup {default_policy} \X {Public} \X MCPayloads

\* Sorting and filtering are those of the library, on short sequences.
ASSUME OrderingsAreTheLibrarys ==
    \A s \in UNION {[1..n -> 1..3] : n \in 0..4} : \A T \in SUBSET (1..3) :
        /\ Filtered(s, T) = SelectSeq(s, LAMBDA x : x \in T)
        /\ Listed(T, {p \in T \X T : p[1] > p[2]}) = SortSeq(SetToSeq(T), >)

\* Catalogs: three items, and the questions put to them.
Item(i, c, b, t) == [id |-> i, collection |-> c, bbox |-> b, datetime |-> t]
MCItems == <<Item(1, "c1", <<0, 0, 2, 2>>, 5), Item(2, "c2", <<2, 2, 4, 4>>, 3), Item(3, "c1", <<3, 0, 4, 1>>, 3)>>
Interval(a, b) == [form |-> "interval", start |-> a, end |-> b]
MCTimes == {Unset, [form |-> "empty"], [form |-> "instant", at |-> 3]}
      \cup {Interval(a, b) : a \in {Open, 3, 4}, b \in {Open, 3, 5}}
MCReqs == [ids : {{}, {2}, {1, 3}}, collections : {{}, {"c1"}, {"c1", "c2"}}, limit : {Unset, 0, 1, 2},
           bbox : {Unset, <<2, 2, 3, 3>>, <<-1, -1, 0, 0>>, <<0, 0, 4, 4>>}, datetime : MCTimes]
Dated(i, t, m, a) == [id |-> i, datetime |-> t, mgrs |-> m, assets |-> a]
MCDated == {Dated(i, t, m, {"B04"}) : i \in {1}, t \in {Unset, 1, 2}, m \in {<<31, "T", "CH">>, <<31, "T", Unset>>}}
      \cup {Dated(2, 2, <<31, "U", "CH">>, {})}
MCCollections == UNION {[1..n -> [id : {"c1", "c2"}, wellformed : BOOLEAN]] : n \in 0..2}
Url(s, q) == [scheme |-> s, query |-> q]
MCQuestions ==
    [op : {"search"}, req : MCReqs, items : {MCItems, << >>}]
    \cup [op : {"items"}, items : UNION {[1..n -> MCDated] : n \in 0..3}, name : {"B04"},
          from : {1, 2}, to : {2}, tile : {<<31, "T", "CH">>}]
    \cup [op : {"collections"}, ids : {{"c1", "c2", "c3"}},
          remote : [status : {200, 404, 500}, json : BOOLEAN, collections : MCCollections]]
    \cup [op : {"sign"}, url : {Url(s, q) : s \in {"https", "s3", "file"}, q \in {<< >>, <<"a">>}},
          token : {<< >>, <<"sig">>}]

Init == /\ part \in {"breaker", "search", "catalog"}
        /\ BreakerInit /\ SearchInit
        /\ part # "search" => target = <<default_policy, Public, << >> >>
        /\ answer = Unset
        /\ question \in IF part = "catalog" THEN Questions
                        ELSE {[op |-> "sign", url |-> Url("https", << >>), token |-> << >>]}

Done == (phase \in {"ok", "err"} \/ answer # Unset) /\ UNCHANGED vars
Next ==
    \/ part = "breaker" /\ BreakerNext /\ UNCHANGED <<part, searchVars, catalogVars>>
    \/ part = "search" /\ SearchNext /\ UNCHANGED <<part, breakerVars, catalogVars>>
    \/ part = "catalog" /\ CatalogNext /\ UNCHANGED <<part, breakerVars, searchVars>>
    \/ Done

Spec == /\ Init /\ [][Next]_vars
        /\ part = "breaker" => BreakerFairness
        /\ part = "search" => WF_searchVars(SearchNext)
=============================================================================
