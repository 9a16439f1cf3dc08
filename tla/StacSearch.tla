------------------------------ MODULE StacSearch ------------------------------
(***************************************************************************)
(* HttpStacSearcher::search of orbit-openeo: the URL policy, the POST with *)
(* its retries under the RetryPolicy of orbit-resilience, and the scenes   *)
(* made of the features that came back.                                    *)
(*                                                                         *)
(* Data kept abstract: a feature is its cloud cover (NoValue when absent), *)
(* its item-level EPSG code and its assets in document order; an asset is  *)
(* its key, whether it has an href, and the EPSG code it states.  The      *)
(* other fields of BandMetadata are read like the EPSG code, without the   *)
(* fallback.  Times are in units of the base delay.                        *)
(***************************************************************************)
EXTENDS SequencesExt, Orderings, UrlPolicy

CONSTANTS
    Searches,       \* searches: <<URL policy, search URL, features the catalog has>>
    max_attempts,   \* of the RetryPolicy (4 in the code)
    base_delay,
    max_delay,
    Alias           \* asset key -> canonical band name, for the known aliases

ASSUME SearchAssumption == max_attempts \in Nat /\ base_delay \in Nat /\ max_delay \in Nat
ASSUME HostsAssumption == \A s \in Searches : s[2].host \in Hosts

NoValue == -1
\* A feature as STAC has it: the cloud cover is a percentage.
Features ==
    [cloud : {NoValue} \cup 0..100, epsg : Int, assets : Seq([key : STRING, href : BOOLEAN, epsg : Int])]
ASSUME FeaturesAssumption == \A s \in Searches : s[3] \in Seq(Features)

VARIABLES
    target,     \* the search
    phase,      \* "check", "send", "sleep", "ok", "err"
    attempt,    \* attempts that failed
    sent,       \* requests sent
    last,       \* kind of the last answer
    waited,     \* time slept
    scenes      \* what search returned

searchVars == <<target, phase, attempt, sent, last, waited, scenes>>

-----------------------------------------------------------------------------
(* RetryPolicy.                                                            *)

MinOf(a, b) == IF a <= b THEN a ELSE b
\* Cap of the wait after n failures: it doubles, and is cut at max_delay.
delay_for_attempt(n) ==
    IF n = 0 THEN 0 ELSE MinOf(base_delay * 2^MinOf(n - 1, 30), max_delay)
\* Faulty variant: it lets one attempt more than the maximum.
should_retry_one_more(n) == n <= max_attempts
should_retry(n) == n < max_attempts
\* Full jitter: any time up to the cap, which is at most max_delay.
jittered_delay(n) == {d \in 0..max_delay : d <= delay_for_attempt(n)}

-----------------------------------------------------------------------------
(* Features to scenes.                                                     *)

canonical_band_name(k) == IF k \in DOMAIN Alias THEN Alias[k] ELSE k

\* Features in the order of their cloud cover, those without one last; equal
\* ones stay in the order of the answer.
CloudKey(f) == IF f.cloud = NoValue THEN 101 ELSE f.cloud
Before(fs, i, j) ==
    \/ CloudKey(fs[i]) < CloudKey(fs[j])
    \/ CloudKey(fs[i]) = CloudKey(fs[j]) /\ i < j
CloudOrder(fs) == {p \in (DOMAIN fs) \X (DOMAIN fs) : Before(fs, p[1], p[2])}
sort_by_cloud(fs) == Listed(DOMAIN fs, CloudOrder(fs))

\* The assets with an href, and for a band the first of them in document order:
\* or_insert keeps the one that was there.
Linked(f) == {i \in DOMAIN f.assets : f.assets[i].href}
BandsOf(f) == {canonical_band_name(f.assets[i].key) : i \in Linked(f)}
FirstWriter(f, I, b) ==
    CHOOSE i \in I : /\ canonical_band_name(f.assets[i].key) = b
                     /\ \A j \in I : canonical_band_name(f.assets[j].key) = b => i <= j
collect_band_hrefs(f) == [b \in BandsOf(f) |-> FirstWriter(f, Linked(f), b)]

parse_asset_band_metadata(f, i) ==
    [asset |-> i,
     epsg |-> IF f.assets[i].epsg # NoValue THEN f.assets[i].epsg ELSE f.epsg]
\* Faulty variant: an asset without an href gives its metadata to the band.
collect_band_metadata_of_all(f) ==
    [b \in {canonical_band_name(f.assets[i].key) : i \in DOMAIN f.assets} |->
        parse_asset_band_metadata(f, FirstWriter(f, DOMAIN f.assets, b))]
collect_band_metadata(f) ==
    [b \in BandsOf(f) |-> parse_asset_band_metadata(f, FirstWriter(f, Linked(f), b))]

Scene(fs, i) == [feature |-> i, bands |-> collect_band_hrefs(fs[i]),
                 band_metadata |-> collect_band_metadata(fs[i])]
\* A feature without any href is skipped.
ScenesOf(fs) ==
    LET kept == Filtered(sort_by_cloud(fs), {i \in DOMAIN fs : BandsOf(fs[i]) # {}})
    IN  [k \in DOMAIN kept |-> Scene(fs, kept[k])]
\* The scenes of what the catalog may answer.
scenes_of == [fs \in {s[3] : s \in Searches} |-> ScenesOf(fs)]


-----------------------------------------------------------------------------
(* The search.                                                             *)

SearchInit ==
    /\ target \in Searches
    /\ phase = "check"
    /\ attempt = 0 /\ sent = 0 /\ waited = 0
    /\ last = "none"
    /\ scenes = << >>

\* A URL the policy refuses is never asked.
check_url ==
    /\ phase = "check"
    /\ phase' = IF check(target[1], target[2]) THEN "send" ELSE "err"
    /\ UNCHANGED <<target, attempt, sent, last, waited, scenes>>

\* An answer with features ends the search; a 4xx ends it with an error at
\* once; a 5xx, a network error or a body that does not decode is retried.
send_ok ==
    /\ phase = "send"
    /\ sent' = sent + 1
    /\ last' = "features"
    /\ scenes' = scenes_of[target[3]]
    /\ phase' = "ok"
    /\ UNCHANGED <<target, attempt, waited>>

send_client_error ==
    /\ phase = "send"
    /\ sent' = sent + 1
    /\ last' = "client_error"
    /\ phase' = "err"
    /\ UNCHANGED <<target, attempt, waited, scenes>>

Transient == {"server_error", "network", "decode"}
send_transient ==
    /\ phase = "send"
    /\ sent' = sent + 1
    /\ last' \in Transient
    /\ attempt' = attempt + 1
    /\ phase' = IF should_retry(attempt + 1) THEN "sleep" ELSE "err"
    /\ UNCHANGED <<target, waited, scenes>>

back_off ==
    /\ phase = "sleep"
    /\ \E d \in jittered_delay(attempt) : waited' = waited + d
    /\ phase' = "send"
    /\ UNCHANGED <<target, attempt, sent, last, scenes>>

SearchNext ==
    \/ check_url
    \/ send_ok \/ send_client_error \/ send_transient
    \/ back_off

SearchSpec == SearchInit /\ [][SearchNext]_searchVars /\ WF_searchVars(SearchNext)

-----------------------------------------------------------------------------

\* A search asks at most max_attempts times, waits at most the sum of the
\* caps, and gives up only on an answer that no retry can mend or after the
\* last attempt it is allowed.
RetriesBounded ==
    /\ sent <= IF max_attempts = 0 THEN 1 ELSE max_attempts
    /\ waited <= sent * max_delay
    /\ phase = "err" /\ sent > 0 =>
         last = "client_error" \/ (last \in Transient /\ sent >= max_attempts)
    /\ phase = "ok" => last = "features"

Faithful(fs, sc) ==
    LET usable == {i \in DOMAIN fs : \E a \in DOMAIN fs[i].assets : fs[i].assets[a].href}
    IN  /\ {sc[k].feature : k \in DOMAIN sc} = usable
        /\ Len(sc) = Cardinality(usable)
        /\ \A k, l \in DOMAIN sc : k < l =>
             LET f == fs[sc[k].feature]
                 g == fs[sc[l].feature]
             IN  /\ g.cloud # NoValue => f.cloud # NoValue /\ f.cloud <= g.cloud
                 /\ f.cloud = g.cloud => sc[k].feature < sc[l].feature
        /\ \A k \in DOMAIN sc :
             /\ DOMAIN sc[k].bands = DOMAIN sc[k].band_metadata
             /\ \A b \in DOMAIN sc[k].bands :
                  LET a == sc[k].bands[b]
                      asset == fs[sc[k].feature].assets[a]
                  IN  /\ asset.href
                      /\ b = canonical_band_name(asset.key)
                      /\ sc[k].band_metadata[b].asset = a
\* What search returned: every feature with an href exactly once, the least
\* cloudy first and unknown cloud cover last, ties in the catalog's order; and
\* the href and the metadata of a band are those of ONE asset, of that band
\* (stac.rs: search, collect_band_hrefs, collect_band_metadata).
ScenesAreFaithful == phase = "ok" => Faithful(target[3], scenes)

\* No request goes to a host of an internal address block, or over a scheme
\* that is not allowed, unless the searcher was built with the relaxed policy
\* (url_policy.rs: check; stac.rs: search).
InternalHostsAreNotAsked ==
    sent > 0 /\ target[1] = default_policy =>
        target[2].scheme = "https" /\ ~Internal(target[2].host)

\* Every request a search sends is one it may send: to a host and over a scheme
\* the policy allows, and within the attempts and the waiting of the retry
\* policy (url_policy.rs: check; stac.rs: search).
RequestsAreAllowed == RetriesBounded /\ InternalHostsAreNotAsked
=============================================================================
