------------------------------- MODULE Catalogs -------------------------------
(***************************************************************************)
(* The catalogs: eo-catalog's in-memory STAC search with its builder, the  *)
(* collection catalogs behind /collections, the item helpers of orbit-geo  *)
(* and the asset signers.  All of them answer one question; `question' is  *)
(* the question of a run, `answer' what the code makes of it.              *)
(*                                                                         *)
(* Times are integers (RFC 3339 strings of one width compare like their    *)
(* instants); a bounding box is <<west, south, east, north>>.              *)
(***************************************************************************)
EXTENDS SequencesExt, Orderings

CONSTANTS
    Questions,  \* what may be asked
    Unset,      \* a field that is absent
    Open        \* `..', the open end of an interval

\* What a question is made of: boxes, times of a search, and lists.
IsBox(b) == b \in Int \X Int \X Int \X Int /\ b[1] <= b[3] /\ b[2] <= b[4]
IsTime(d) ==
    \/ d.form = "empty"
    \/ d.form = "instant" /\ d.at \in Int
    \/ d.form = "interval" /\ {d.start, d.end} \subseteq Int \cup {Open}
IsList(s) == s \in Seq(Range(s))
IsTile(m) == m = <<m[1], m[2], m[3]>>
Askable(q) ==
    \/ /\ q.op = "search" /\ IsList(q.items)
       /\ q.req.limit \in Nat \cup {Unset}
       /\ q.req.bbox = Unset \/ IsBox(q.req.bbox)
       /\ q.req.datetime = Unset \/ IsTime(q.req.datetime)
       /\ \A i \in DOMAIN q.items : IsBox(q.items[i].bbox) /\ q.items[i].datetime \in Int
    \/ q.op = "collections" /\ IsList(q.remote.collections)
    \/ /\ q.op = "items" /\ IsList(q.items) /\ q.from \in Int /\ q.to \in Int
       /\ IsTile(q.tile) /\ \A k \in 1..3 : q.tile[k] # Unset
       /\ \A i \in DOMAIN q.items : q.items[i].datetime \in Int \cup {Unset} /\ IsTile(q.items[i].mgrs)
    \/ q.op = "sign" /\ IsList(q.token) /\ IsList(q.url.query) /\ DOMAIN q.url = {"scheme", "query"}
ASSUME CatalogAssumption == Unset \notin Int /\ Open \notin Int /\ \A q \in Questions : Askable(q)

VARIABLES question, answer

catalogVars == <<question, answer>>

Err(e) == [err |-> e]
Ok(v) == [ok |-> v]

-----------------------------------------------------------------------------
(* StacClient::search of the in-memory client.                             *)

\* An instant, or an interval either end of which (not both) may be open.
parse_datetime(d) ==
    CASE d.form = "empty" -> Err("BadDatetime")
      [] d.form = "instant" -> Ok(<<d.at, d.at>>)
      [] d.form = "interval" -> IF d.start = Open /\ d.end = Open THEN Err("BadDatetime")
                                ELSE Ok(<<d.start, d.end>>)

\* Faulty variant: the end of an interval is not part of it.
datetime_matches_half_open(range, t) ==
    /\ range[1] # Open => t >= range[1]
    /\ range[2] # Open => t < range[2]
datetime_matches(range, t) ==
    /\ range[1] # Open => t >= range[1]
    /\ range[2] # Open => t <= range[2]

\* Boxes that touch do intersect, whatever the comment above the code says.
bbox_intersects(a, b) == ~(a[3] < b[1] \/ b[3] < a[1] \/ a[4] < b[2] \/ b[4] < a[2])

\* Ids decide alone; otherwise collection, box and time must all fit.
Selected(q, range, it) ==
    IF q.ids # {} THEN it.id \in q.ids
    ELSE /\ q.collections # {} => it.collection \in q.collections
         /\ q.bbox # Unset => bbox_intersects(q.bbox, it.bbox)
         /\ q.datetime # Unset => datetime_matches(range, it.datetime)

search(q, items) ==
    LET parsed == IF q.datetime = Unset THEN Ok(Unset) ELSE parse_datetime(q.datetime)
        limit == IF q.limit = Unset THEN 100 ELSE q.limit
    IN  IF "err" \in DOMAIN parsed THEN parsed
        ELSE LET out == Filtered(items, {it \in Range(items) : Selected(q, parsed.ok, it)})
             IN  Ok(SubSeq(out, 1, IF Len(out) <= limit THEN Len(out) ELSE limit))

-----------------------------------------------------------------------------
(* Item helpers of orbit-geo.                                              *)

get_sources_for_asset(items, name) ==
    LET have == Filtered(items, {it \in Range(items) : name \in it.assets})
    IN  [k \in DOMAIN have |-> <<have[k].id, name>>]

\* Indices of the items with a datetime, oldest first, ties in their order.
DatedItems(items) == {i \in DOMAIN items : items[i].datetime # Unset}
DateOrder(items) ==
    {p \in DatedItems(items) \X DatedItems(items) :
        \/ items[p[1]].datetime < items[p[2]].datetime
        \/ items[p[1]].datetime = items[p[2]].datetime /\ p[1] < p[2]}
get_sorted_datetimes(items) == Listed(DatedItems(items), DateOrder(items))

unique_datetimes_in_range(items, from, to) ==
    LET seen == {items[i].datetime : i \in DOMAIN items} \ {Unset}
    IN  Rising({t \in seen : from <= t /\ t <= to})

\* Zone, latitude band and square must all be stated.
filter_items_by_tile(items, tile) ==
    Filtered(items, {it \in Range(items) : \A k \in 1..3 : it.mgrs[k] # Unset /\ it.mgrs[k] = tile[k]})

-----------------------------------------------------------------------------
(* Collections.                                                            *)

\* The remote list without the documents that do not parse; a body without
\* collections is an empty list.
list(remote) ==
    IF remote.status # 200 \/ ~remote.json THEN Err("Backend")
    ELSE Ok(Filtered(remote.collections, {c \in Range(remote.collections) : c.wellformed}))

\* A remote that works answers 404 for an id it does not have; whatever 404
\* the remote answers is taken for a missing collection.
get(remote, id) ==
    LET found == Filtered(remote.collections, {c \in Range(remote.collections) : c.id = id})
        status == IF remote.status = 200 /\ found = << >> THEN 404 ELSE remote.status
    IN  IF status = 404 THEN Err("NotFound")
        ELSE IF status # 200 \/ ~remote.json THEN Err("Backend")
        ELSE IF ~Head(found).wellformed THEN Err("Backend") ELSE Ok(Head(found))

\* GET /collections: a backend that fails looks like one without collections.
list_collections(remote) ==
    LET r == list(remote) IN [status |-> 200, body |-> IF "ok" \in DOMAIN r THEN r.ok ELSE << >>]

get_collection(remote, id) ==
    LET r == get(remote, id)
    IN  CASE "ok" \in DOMAIN r -> [status |-> 200, body |-> r.ok]
          [] r = Err("NotFound") -> [status |-> 404, body |-> id]
          [] OTHER -> [status |-> 500, body |-> id]

-----------------------------------------------------------------------------
(* Signers: a URL is its scheme and the parts of its query.                *)

Remote == {"http", "https", "s3", "gs", "az"}
\* QueryStringSigner and the executor's PlanetaryComputerSigner append.
QueryStringSigner(url, params) ==
    IF url.scheme \notin Remote THEN Err("UnsupportedScheme")
    ELSE Ok([url EXCEPT !.query = @ \o params])
PlanetaryComputerSigner(url, token) ==
    Ok(IF token = << >> THEN url ELSE [url EXCEPT !.query = @ \o token])
\* eo-catalog's BearerSigner leaves the URL alone and adds a header; the
\* executor's puts the header's value into the query.
BearerSigner(url, token) ==
    IF token = << >> THEN Err("Unauthenticated") ELSE Ok([url |-> url, header |-> token])
BearerSigner_openeo(url, token) ==
    Ok(IF token = << >> THEN url ELSE [url EXCEPT !.query = Append(@, <<"header", token>>)])

-----------------------------------------------------------------------------

Answer(q) ==
    CASE q.op = "search" -> search(q.req, q.items)
      [] q.op = "collections" ->
            [listed |-> list_collections(q.remote),
             got |-> [id \in q.ids |-> get_collection(q.remote, id)]]
      [] q.op = "items" ->
            [sources |-> get_sources_for_asset(q.items, q.name),
             sorted |-> get_sorted_datetimes(q.items),
             unique |-> unique_datetimes_in_range(q.items, q.from, q.to),
             tile |-> filter_items_by_tile(q.items, q.tile)]
      [] q.op = "sign" ->
            [query |-> QueryStringSigner(q.url, q.token), sas |-> PlanetaryComputerSigner(q.url, q.token),
             bearer |-> BearerSigner(q.url, q.token), inline |-> BearerSigner_openeo(q.url, q.token)]

ask == /\ answer = Unset
       /\ answer' = <<Answer(question)>>
       /\ UNCHANGED question
CatalogInit == question \in Questions /\ answer = Unset
CatalogNext == ask
CatalogSpec == CatalogInit /\ [][CatalogNext]_catalogVars

-----------------------------------------------------------------------------

\* Two boxes meet when they have a point in common, and overlap when it is not
\* only a point of their borders.
Overlap(a, b) == a[1] < b[3] /\ b[1] < a[3] /\ a[2] < b[4] /\ b[2] < a[4]
Meet(a, b) == \E x \in a[1]..a[3], y \in a[2]..a[4] : b[1] <= x /\ x <= b[3] /\ b[2] <= y /\ y <= b[4]

SearchIsExact(q, r) ==
    LET d == q.req.datetime
        On(t) == IF d.form = "instant" THEN t = d.at
                 ELSE (d.start = Open \/ d.start <= t) /\ (d.end = Open \/ t <= d.end)
        bad == d # Unset /\ (d.form = "empty" \/ (d.form = "interval" /\ d.start = Open /\ d.end = Open))
        Fits(it) == IF q.req.ids # {} THEN it.id \in q.req.ids
                    ELSE /\ q.req.collections # {} => it.collection \in q.req.collections
                         /\ q.req.bbox # Unset => Meet(q.req.bbox, it.bbox)
                         /\ d # Unset => On(it.datetime)
        n == IF q.req.limit = Unset THEN 100 ELSE q.req.limit
        within == {i \in DOMAIN q.items : Fits(q.items[i])}
        touching == IF q.req.ids # {} \/ q.req.bbox = Unset THEN {}
                    ELSE {i \in within : ~Overlap(q.req.bbox, q.items[i].bbox)}
    IN  IF bad THEN "err" \in DOMAIN r
        ELSE /\ "ok" \in DOMAIN r
             /\ \E left \in SUBSET touching :
                  LET fitting == within \ left
                  IN  /\ Len(r.ok) = (IF Cardinality(fitting) <= n THEN Cardinality(fitting) ELSE n)
                      \* the k-th answer is the k-th item that fits
                      /\ \A k \in DOMAIN r.ok : \E i \in fitting :
                           r.ok[k] = q.items[i] /\ Cardinality({j \in fitting : j < i}) = k - 1

\* A listed collection can be got; 404 only for one the catalog has not, or when
\* the backend itself answers 404; any other failure of the backend never
\* looks like a missing collection.
CollectionsAgree(q, r) ==
    /\ \A k \in DOMAIN r.listed.body :
         LET id == r.listed.body[k].id
         IN  id \in q.ids /\ (\A c, e \in DOMAIN q.remote.collections :
                                  q.remote.collections[c].id = q.remote.collections[e].id => c = e)
             => r.got[id] = [status |-> 200, body |-> r.listed.body[k]]
    /\ \A id \in q.ids : r.got[id].status = 404
         <=> \/ q.remote.status = 404
             \/ /\ q.remote.status = 200
                /\ \A k \in DOMAIN q.remote.collections : q.remote.collections[k].id # id

\* The helpers: chronological, complete, without duplicates where they say so.
ItemsAgree(q, r) ==
    /\ {r.sorted[k] : k \in DOMAIN r.sorted} = {i \in DOMAIN q.items : q.items[i].datetime # Unset}
    /\ \A k, l \in DOMAIN r.sorted : k < l => q.items[r.sorted[k]].datetime <= q.items[r.sorted[l]].datetime
    /\ \A k, l \in DOMAIN r.unique : k < l => r.unique[k] < r.unique[l]
    /\ {r.unique[k] : k \in DOMAIN r.unique} =
         {q.items[i].datetime : i \in {j \in DOMAIN q.items : q.items[j].datetime \in q.from..q.to}}
    /\ \A i \in DOMAIN q.items :
         (\E k \in DOMAIN r.tile : r.tile[k] = q.items[i]) <=> q.items[i].mgrs = q.tile

\* What a catalog answers is what was asked for: a search finds exactly the
\* items that fit, in the catalog's order, up to the limit (of an item whose box
\* only touches the one asked for nothing is claimed: bbox_intersects takes it
\* in, its comment says that it does not); listing and getting collections agree; item lists are complete and in order; signing keeps the
\* URL and its query and only adds to it.
CatalogAnswersAreExact ==
    answer # Unset =>
        LET q == question
            r == answer[1]
        IN  CASE q.op = "search" -> SearchIsExact(q, r)
              [] q.op = "collections" -> CollectionsAgree(q, r)
              [] q.op = "items" -> ItemsAgree(q, r)
              [] q.op = "sign" -> \A s \in {r.query, r.sas, r.inline} :
                    "ok" \in DOMAIN s => IsPrefix(q.url.query, s.ok.query) /\ s.ok.scheme = q.url.scheme
=============================================================================
