----------------------------- MODULE ClientProofs -----------------------------
(***************************************************************************)
(* What the clients of the catalogues promise: the circuit breaker, for    *)
(* any number of callers and any threshold and cooldown, and the retries   *)
(* of a search, for every retry policy and every order of answers.         *)
(***************************************************************************)
EXTENDS CircuitBreaker, StacSearch, Catalogs, OrderingProofs, TLAPS

-----------------------------------------------------------------------------
(* The circuit breaker.                                                    *)

\* An open circuit remembers when it opened; a closed one has no time set.
\* (A half-open one keeps the time until a success closes it.)
OpenIsDated ==
    /\ state = "Open" => opened_at # NotOpened
    /\ state = "Closed" => opened_at = NotOpened

BreakerInv == BreakerTypeOK /\ OpenIsDated

LEMMA LookTyped ==
    ASSUME BreakerInv
    PROVE  /\ look \in CircuitState
           /\ look = "Open" => state = "Open"
           /\ look = "Closed" => state = "Closed"
BY DEF BreakerInv, BreakerTypeOK, look, CircuitState

LEMMA BreakerInitInv == BreakerInit => BreakerInv
BY BreakerAssumption DEF BreakerInit, BreakerInv, BreakerTypeOK, OpenIsDated, CircuitState, NotOpened, CallState

LEMMA BreakerNextInv == BreakerInv /\ [BreakerNext]_breakerVars => BreakerInv'
<1> SUFFICES ASSUME BreakerInv, [BreakerNext]_breakerVars PROVE BreakerInv'
    OBVIOUS
<1> USE BreakerAssumption DEF BreakerInv, BreakerTypeOK, OpenIsDated, CircuitState, NotOpened, CallState
<1>1. CASE Tick
    BY <1>1 DEF Tick
<1>2. ASSUME NEW c \in Callers, try_acquire(c) PROVE BreakerInv'
    BY <1>2, LookTyped DEF try_acquire, Step
<1>3. ASSUME NEW c \in Callers, record_success(c) PROVE BreakerInv'
    BY <1>3 DEF record_success, Step
<1>4. ASSUME NEW c \in Callers, success_locked(c) PROVE BreakerInv'
    BY <1>4 DEF success_locked, Step
<1>5. ASSUME NEW c \in Callers, record_failure(c) PROVE BreakerInv'
    BY <1>5 DEF record_failure, Step
<1>6. ASSUME NEW c \in Callers, failure_locked(c) PROVE BreakerInv'
    BY <1>6 DEF failure_locked, Step
<1>7. CASE UNCHANGED breakerVars
    BY <1>7 DEF breakerVars
<1> QED
    BY <1>1, <1>2, <1>3, <1>4, <1>5, <1>6, <1>7 DEF BreakerNext

\* The state, the time and the counters keep their types, an open circuit
\* always knows when it opened, and a closed one does not.
THEOREM BreakerIsDated == BreakerSpec => []BreakerInv
BY BreakerInitInv, BreakerNextInv, PTL DEF BreakerSpec

\* One step of an open circuit never moves the time it opened at back.
LEMMA StepDoesNotProlong ==
    BreakerInv /\ [BreakerNext]_breakerVars
        => [state = "Open" /\ state' = "Open" => opened_at' >= opened_at]_breakerVars
<1> SUFFICES ASSUME BreakerInv, BreakerNext, state = "Open", state' = "Open" PROVE opened_at' >= opened_at
    BY DEF breakerVars
<1> USE BreakerAssumption DEF BreakerInv, BreakerTypeOK, OpenIsDated, NotOpened
<1>1. CASE Tick
    BY <1>1 DEF Tick
<1>2. ASSUME NEW c \in Callers, try_acquire(c) \/ record_success(c) \/ record_failure(c) PROVE opened_at' >= opened_at
    BY <1>2 DEF try_acquire, record_success, record_failure
<1>3. ASSUME NEW c \in Callers, success_locked(c) PROVE opened_at' >= opened_at
    BY <1>3 DEF success_locked
<1>4. ASSUME NEW c \in Callers, failure_locked(c) PROVE opened_at' >= opened_at
    BY <1>4 DEF failure_locked, should_open
<1> QED
    BY <1>1, <1>2, <1>3, <1>4 DEF BreakerNext

\* A failure that reports after the circuit tripped leaves the cooldown alone,
\* however many callers are still in flight (record_failure).
THEOREM CooldownRunsFromTheTrip == BreakerSpec => LateFailuresDoNotProlong
<1>1. BreakerInv /\ [BreakerNext]_breakerVars
        => [state = "Open" /\ state' = "Open" => opened_at' >= opened_at]_breakerVars
    BY StepDoesNotProlong
<1> QED
    BY <1>1, BreakerIsDated, PTL DEF BreakerSpec, LateFailuresDoNotProlong

-----------------------------------------------------------------------------
(* The retries of a search.                                                *)

Phases == {"check", "send", "sleep", "ok", "err"}

\* How many requests were sent and waits were made in each phase.
Counted ==
    /\ phase \in {"check", "send", "sleep"} => sent = attempt
    /\ phase = "ok" => sent = attempt + 1 /\ last = "features"
    /\ phase = "err" => \/ sent = 0 /\ attempt = 0
                        \/ sent = attempt + 1 /\ last = "client_error"
                        \/ sent = attempt /\ last \in Transient /\ attempt >= max_attempts
\* Another request is sent only while the policy allows it.
Allowed ==
    /\ phase = "check" => attempt = 0
    /\ phase \in {"send", "sleep", "ok"} => attempt = 0 \/ attempt < max_attempts
    /\ phase = "sleep" => attempt > 0
    /\ attempt <= 1 \/ attempt <= max_attempts
    /\ sent = attempt + 1 => attempt = 0 \/ attempt < max_attempts
Slept ==
    IF phase = "sleep" THEN waited <= (attempt - 1) * max_delay ELSE waited <= attempt * max_delay
SearchInv ==
    /\ phase \in Phases /\ attempt \in Nat /\ sent \in Nat /\ waited \in Nat
    /\ Counted /\ Allowed /\ Slept

LEMMA MoreTimes == ASSUME NEW a \in Nat, NEW m \in Nat PROVE a * m \in Nat /\ (a + 1) * m = a * m + m /\ a * m <= (a + 1) * m
BY SMT

LEMMA SearchInitInv == SearchInit => SearchInv
BY SearchAssumption DEF SearchInit, SearchInv, Phases, Counted, Allowed, Slept

LEMMA SearchNextInv == SearchInv /\ [SearchNext]_searchVars => SearchInv'
<1> SUFFICES ASSUME SearchInv, [SearchNext]_searchVars PROVE SearchInv'
    OBVIOUS
<1> USE SearchAssumption DEF SearchInv, Phases, Counted, Allowed
<1>1. CASE check_url
    BY <1>1 DEF check_url, Slept
<1>2. CASE send_ok
    BY <1>2 DEF send_ok, Slept
<1>3. CASE send_client_error
    BY <1>3 DEF send_client_error, Slept
<1>4. CASE send_transient
  <2>1. attempt' = attempt + 1 /\ sent' = sent + 1 /\ waited' = waited /\ phase = "send" /\ last' \in Transient
      BY <1>4 DEF send_transient
  <2>2. phase' = IF attempt + 1 < max_attempts THEN "sleep" ELSE "err"
      BY <1>4 DEF send_transient, should_retry
  <2>3. waited <= attempt * max_delay /\ waited <= (attempt + 1) * max_delay
      BY <2>1, MoreTimes DEF Slept
  <2>4. (attempt + 1) - 1 = attempt
      OBVIOUS
  <2>5. Slept'
      BY <2>1, <2>3, <2>4, Zenon DEF Slept
  <2> QED BY <2>1, <2>2, <2>5
<1>5. CASE back_off
  <2>1. PICK d \in 0..max_delay : waited' = waited + d
      BY <1>5 DEF back_off, jittered_delay
  <2>2. phase = "sleep" /\ phase' = "send" /\ UNCHANGED <<attempt, sent, last>>
      BY <1>5 DEF back_off
  <2>3. waited <= (attempt - 1) * max_delay /\ attempt - 1 \in Nat /\ (attempt - 1) + 1 = attempt
      BY <2>2 DEF Slept
  <2>4. attempt * max_delay = (attempt - 1) * max_delay + max_delay
      BY <2>3, MoreTimes
  <2>5. waited' <= attempt * max_delay /\ waited' \in Nat
      BY <2>1, <2>3, <2>4, MoreTimes
  <2>6. Slept'
      BY <2>2, <2>5 DEF Slept
  <2> QED BY <2>2, <2>5, <2>6
<1>6. CASE UNCHANGED searchVars
    BY <1>6 DEF searchVars, Slept
<1> QED
    BY <1>1, <1>2, <1>3, <1>4, <1>5, <1>6 DEF SearchNext

LEMMA SearchInvBounds == SearchInv => RetriesBounded
<1> SUFFICES ASSUME SearchInv PROVE RetriesBounded
    OBVIOUS
<1> USE SearchAssumption DEF SearchInv, Phases, Counted, Allowed
<1>1. sent <= IF max_attempts = 0 THEN 1 ELSE max_attempts
    OBVIOUS
<1>2. waited <= sent * max_delay
  <2>1. CASE phase = "sleep"
    <3>1. waited <= (attempt - 1) * max_delay /\ attempt - 1 \in Nat /\ (attempt - 1) + 1 = attempt /\ sent = attempt
        BY <2>1 DEF Slept
    <3>2. (attempt - 1) * max_delay \in Nat /\ attempt * max_delay \in Nat /\ (attempt - 1) * max_delay <= attempt * max_delay
        BY <3>1, MoreTimes
    <3> QED BY <3>1, <3>2
  <2>2. CASE phase # "sleep"
    <3>1. waited <= attempt * max_delay /\ attempt * max_delay \in Nat
        BY <2>2, MoreTimes DEF Slept
    <3>2. CASE sent = attempt
        BY <3>1, <3>2
    <3>3. CASE sent = attempt + 1
        BY <3>1, <3>3, MoreTimes
    <3>4. CASE sent = 0 /\ attempt > 0
        BY <2>2, <3>4
    <3> QED BY <2>2, <3>2, <3>3, <3>4
  <2> QED BY <2>1, <2>2
<1>3. phase = "err" /\ sent > 0 => last = "client_error" \/ (last \in Transient /\ sent >= max_attempts)
    OBVIOUS
<1>4. phase = "ok" => last = "features"
    OBVIOUS
<1> QED BY <1>1, <1>2, <1>3, <1>4 DEF RetriesBounded

\* For every retry policy and every order of server errors, network errors,
\* undecodable bodies and refusals: no more than max_attempts requests, no more
\* than max_delay waited for each, and no surrender while a retry was allowed.
THEOREM SearchesRetryWithinBounds == SearchSpec => []RetriesBounded
BY SearchInitInv, SearchNextInv, SearchInvBounds, PTL DEF SearchSpec

-----------------------------------------------------------------------------
(* The URL policy.                                                         *)

\* The masks of the code are the address blocks the policy names.
LEMMA MasksAreBlocks == ASSUME NEW o \in Octets PROVE is_internal_v4(o) <=> InBlock(o)
<1> DEFINE a == o[1]
           b == o[2]
<1>1. a \in 0..255 /\ b \in 0..255
    BY DEF Octets
<1> HIDE DEF a, b
<1>2. (b - (b % 16) = 16 <=> 16 <= b /\ b <= 31) /\ (b - (b % 64) = 64 <=> 64 <= b /\ b <= 127)
    BY <1>1
<1>3. is_internal_v4(o) <=>
        \/ a \in {127, 10, 0}
        \/ a = 169 /\ b = 254
        \/ a = 172 /\ 16 <= b /\ b <= 31
        \/ a = 192 /\ b = 168
        \/ a = 100 /\ 64 <= b /\ b <= 127
    BY <1>2 DEF is_internal_v4, Upper, a, b
<1>4. InBlock(o) <=>
        \/ 0 <= a * 256 + b /\ a * 256 + b <= 255
        \/ 2560 <= a * 256 + b /\ a * 256 + b <= 2815
        \/ 32512 <= a * 256 + b /\ a * 256 + b <= 32767
        \/ 25664 <= a * 256 + b /\ a * 256 + b <= 25727
        \/ 43518 <= a * 256 + b /\ a * 256 + b <= 43518
        \/ 44048 <= a * 256 + b /\ a * 256 + b <= 44063
        \/ 49320 <= a * 256 + b /\ a * 256 + b <= 49320
    BY DEF InBlock, InternalBlocks, a, b
<1> QED BY <1>1, <1>3, <1>4

LEMMA MaskedSegments ==
    ASSUME NEW x \in Nat
    PROVE  /\ x - (x % 512) = 64512 <=> 64512 <= x /\ x <= 65023
           /\ x - (x % 64) = 65152 <=> 65152 <= x /\ x <= 65215
<1>1. PICK d \in Nat : d = x \div 512
    OBVIOUS
<1>2. PICK r \in Nat : r = x % 512
    OBVIOUS
<1>3. x = 512 * d + r /\ r < 512
    BY <1>1, <1>2
<1>4. x - r = 64512 <=> 64512 <= x /\ x <= 65023
    BY <1>3
<1>5. PICK e \in Nat : e = x \div 64
    OBVIOUS
<1>6. PICK t \in Nat : t = x % 64
    OBVIOUS
<1>7. x = 64 * e + t /\ t < 64
    BY <1>5, <1>6
<1>8. x - t = 65152 <=> 65152 <= x /\ x <= 65215
    BY <1>7
<1> QED BY <1>2, <1>4, <1>6, <1>8

LEMMA PolicyNamesTheBlocks == ASSUME NEW h \in Hosts PROVE is_internal(h) <=> Internal(h)
<1>1. CASE h \in [kind : {"v4"}, octets : Octets]
  <2>1. h.kind = "v4" /\ h.octets \in Octets
      BY <1>1
  <2> QED BY <2>1, MasksAreBlocks DEF is_internal, Internal
<1>2. CASE h \in [kind : {"v6"}, segment : 0..MaxSegment, loopback : BOOLEAN, mapped : Octets \cup {None}]
  <2>1. h.kind = "v6" /\ h.segment \in Nat /\ h.mapped \in Octets \cup {None}
    <3>1. h.kind = "v6" /\ h.segment \in 0..MaxSegment /\ h.mapped \in Octets \cup {None}
        BY <1>2
    <3>2. MaxSegment \in Int
        BY DEF MaxSegment
    <3> QED BY <3>1, <3>2
  <2>2. /\ Upper(h.segment, 512) = 64512 <=> 64512 <= h.segment /\ h.segment <= 65023
        /\ Upper(h.segment, 64) = 65152 <=> 65152 <= h.segment /\ h.segment <= 65215
    <3>1. PICK x \in Nat : x = h.segment
        BY <2>1
    <3>2. /\ x - (x % 512) = 64512 <=> 64512 <= x /\ x <= 65023
          /\ x - (x % 64) = 65152 <=> 65152 <= x /\ x <= 65215
        BY MaskedSegments
    <3>3. Upper(h.segment, 512) = x - (x % 512) /\ Upper(h.segment, 64) = x - (x % 64)
        BY <3>1, Zenon DEF Upper
    <3> QED BY <3>1, <3>2, <3>3
  <2>3. h.mapped # None => (is_internal_v4(h.mapped) <=> InBlock(h.mapped))
      BY <2>1, MasksAreBlocks
  <2> QED BY <2>1, <2>2, <2>3 DEF is_internal, Internal, is_internal_v6
<1>3. CASE h \in [kind : {"name"}, class : {"public", "localhost", "internal", "local"}]
    BY <1>3 DEF is_internal, Internal, is_obvious_internal_hostname
<1> QED BY <1>1, <1>2, <1>3 DEF Hosts

\* From the first request on, the URL is one the policy lets pass.
Policed ==
    /\ target \in Searches /\ sent \in Nat
    /\ phase = "check" => sent = 0
    /\ phase \in {"send", "sleep", "ok"} \/ sent > 0 => check(target[1], target[2])

LEMMA PolicedInit == SearchInit => Policed
BY DEF SearchInit, Policed

LEMMA PolicedNext == Policed /\ [SearchNext]_searchVars => Policed'
<1> SUFFICES ASSUME Policed, [SearchNext]_searchVars PROVE Policed'
    OBVIOUS
<1>1. CASE check_url
    BY <1>1 DEF check_url, Policed
<1>2. CASE send_ok \/ send_client_error \/ send_transient
    BY <1>2 DEF send_ok, send_client_error, send_transient, Policed
<1>3. CASE back_off
    BY <1>3 DEF back_off, Policed
<1>4. CASE UNCHANGED searchVars
    BY <1>4 DEF searchVars, Policed
<1> QED BY <1>1, <1>2, <1>3, <1>4 DEF SearchNext

LEMMA PolicedIsSafe == Policed => InternalHostsAreNotAsked
<1> SUFFICES ASSUME Policed, sent > 0, target[1] = default_policy
             PROVE  target[2].scheme = "https" /\ ~Internal(target[2].host)
    BY DEF InternalHostsAreNotAsked
<1>1. check(default_policy, target[2]) /\ target[2].host \in Hosts
    BY HostsAssumption DEF Policed
<1>2. target[2].scheme = "https" /\ ~is_internal(target[2].host)
    BY <1>1 DEF check, default_policy
<1> QED BY <1>1, <1>2, PolicyNamesTheBlocks

\* Under the default policy no request, first or retried, goes to an address of
\* any block the policy names, however it is written, or over another scheme
\* than https (url_policy.rs: check; stac.rs: search).
THEOREM InternalHostsAreNeverAsked == SearchSpec => []InternalHostsAreNotAsked
BY PolicedInit, PolicedNext, PolicedIsSafe, PTL DEF SearchSpec

\* For every retry policy, URL and order of answers: a search sends no request
\* but those its two policies allow (url_policy.rs: check; stac.rs: search).
THEOREM SearchesAskWhatTheyMay == SearchSpec => []RequestsAreAllowed
<1>1. RetriesBounded /\ InternalHostsAreNotAsked => RequestsAreAllowed
    BY DEF RequestsAreAllowed
<1> QED BY <1>1, SearchesRetryWithinBounds, InternalHostsAreNeverAsked, PTL

-----------------------------------------------------------------------------
(* The scenes of a search.                                                 *)

\* A band some asset gives has a first asset that gives it.
LEMMA FirstWriterWrites ==
    ASSUME NEW f \in Features, NEW I \in SUBSET DOMAIN f.assets,
           NEW b, \E i \in I : canonical_band_name(f.assets[i].key) = b
    PROVE  FirstWriter(f, I, b) \in I /\ canonical_band_name(f.assets[FirstWriter(f, I, b)].key) = b
<1> DEFINE S == {i \in I : canonical_band_name(f.assets[i].key) = b}
<1>1. f.assets \in Seq([key : STRING, href : BOOLEAN, epsg : Int])
    BY DEF Features
<1>2. S \subseteq Nat /\ S # {}
    BY <1>1
<1>3. PICK m \in S : \A n \in S : m <= n
    BY <1>2, LeastOf, Zenon
<1>4. /\ m \in I /\ canonical_band_name(f.assets[m].key) = b
      /\ \A j \in I : canonical_band_name(f.assets[j].key) = b => m <= j
    BY <1>3
<1> QED BY <1>4, Zenon DEF FirstWriter

LEMMA KeysAreNumbers == \A f \in Features : CloudKey(f) \in Int
<1> SUFFICES ASSUME NEW f \in Features PROVE CloudKey(f) \in Int
    OBVIOUS
<1>1. f.cloud \in {NoValue} \cup 0..100
    BY DEF Features
<1> QED BY <1>1 DEF CloudKey, NoValue

LEMMA CloudKeys ==
    ASSUME NEW f \in Features
    PROVE  /\ f.cloud \in {NoValue} \cup 0..100 /\ NoValue = -1
           /\ CloudKey(f) = (IF f.cloud = NoValue THEN 101 ELSE f.cloud) /\ CloudKey(f) \in 0..101
<1>1. f.cloud \in {NoValue} \cup 0..100
    BY DEF Features
<1> QED BY <1>1 DEF CloudKey, NoValue

\* The order of the cloud covers, with the place in the answer behind them, is
\* an order of the features.
LEMMA CloudOrders == ASSUME NEW fs \in Seq(Features) PROVE Orders(CloudOrder(fs), DOMAIN fs)
<1>1. \A i \in DOMAIN fs : CloudKey(fs[i]) \in Int
  <2>1. \A i \in DOMAIN fs : fs[i] \in Features
      OBVIOUS
  <2> QED BY <2>1, KeysAreNumbers, Zenon
<1>2. \A i, j \in DOMAIN fs : <<i, j>> \in CloudOrder(fs) <=> Before(fs, i, j)
    BY DEF CloudOrder
<1>3. DOMAIN fs \in SUBSET Int
    OBVIOUS
<1> HIDE DEF CloudKey
<1> QED BY <1>1, <1>2, <1>3 DEF Orders, Before

\* Features in the order of their cloud cover, without those that have no href.
LEMMA KeptInOrder ==
    ASSUME NEW fs \in Seq(Features), NEW T \in SUBSET DOMAIN fs
    PROVE  LET kept == Filtered(sort_by_cloud(fs), T)
           IN  /\ kept \in Seq(T) /\ Len(kept) = Cardinality(T)
               /\ \A i \in T : \E k \in 1..Len(kept) : kept[k] = i
               /\ \A k, l \in 1..Len(kept) : k < l => Before(fs, kept[k], kept[l])
<1> DEFINE D == DOMAIN fs
           s == sort_by_cloud(fs)
           kept == Filtered(s, T)
           P == Places(s, T)
           n == Cardinality(P)
<1>1. D = 1..Len(fs) /\ Len(fs) \in Nat
    OBVIOUS
<1>2. IsFiniteSet(D) /\ Cardinality(D) = Len(fs)
  <2>1. IsFiniteSet(1..Len(fs)) /\ Cardinality(1..Len(fs)) = Len(fs)
      BY <1>1, OneTo, Zenon
  <2> QED BY <1>1, <2>1, Zenon
<1>3. /\ s \in [1..Len(fs) -> D]
      /\ \A i \in D : \E k \in 1..Len(fs) : s[k] = i
      /\ \A k, m \in 1..Len(fs) : k < m => <<s[k], s[m]>> \in CloudOrder(fs)
    BY <1>2, CloudOrders, ListedInOrder DEF sort_by_cloud
<1>4. s \in Seq(D) /\ Len(s) = Len(fs)
    BY <1>1, <1>3
<1> HIDE DEF s
<1>5. /\ n \in 0..Len(s) /\ kept \in Seq(D \cap T) /\ Len(kept) = n
      /\ \E at \in [1..n -> P] :
           /\ \A k \in 1..n : kept[k] = s[at[k]]
           /\ \A p \in P : \E k \in 1..n : at[k] = p
           /\ \A k, l \in 1..n : k < l => at[k] < at[l]
    BY <1>4, FilteredInOrder
<1> HIDE DEF kept, n
<1>6. PICK at \in [1..n -> P] :
           /\ \A k \in 1..n : kept[k] = s[at[k]]
           /\ \A p \in P : \E k \in 1..n : at[k] = p
           /\ \A k, l \in 1..n : k < l => at[k] < at[l]
    BY <1>5
<1>7. kept \in Seq(T) /\ n \in Nat
  <2>1. D \cap T = T
      OBVIOUS
  <2> QED BY <1>4, <1>5, <2>1
<1>8. ASSUME NEW k \in 1..n, NEW l \in 1..n, k < l PROVE Before(fs, kept[k], kept[l])
  <2>1. at[k] \in 1..Len(fs) /\ at[l] \in 1..Len(fs) /\ at[k] < at[l]
    <3>0. DOMAIN s = 1..Len(fs)
        BY <1>4
    <3>2. Places(s, T) \in SUBSET DOMAIN s
        BY DEF Places
    <3>1. P \in SUBSET (1..Len(fs))
        BY <3>0, <3>2, Zenon
    <3> HIDE DEF P
    <3> QED BY <1>6, <1>8, <3>1
  <2>2. <<kept[k], kept[l]>> \in CloudOrder(fs)
      BY <1>3, <1>6, <2>1
  <2> QED BY <2>2 DEF CloudOrder
<1>9. ASSUME NEW i \in T PROVE \E k \in 1..n : kept[k] = i
  <2>1. PICK p \in 1..Len(fs) : s[p] = i
      BY <1>3
  <2>2. p \in P
      BY <1>4, <2>1 DEF Places
  <2> QED BY <1>6, <2>1, <2>2
<1>10. kept \in [1..n -> T]
  <2>1. Len(kept) = n
      BY <1>5
  <2> QED BY <1>7, <2>1
<1>11. \A k, l \in 1..n : k # l => kept[k] # kept[l]
  <2> SUFFICES ASSUME NEW k \in 1..n, NEW l \in 1..n, k # l PROVE kept[k] # kept[l]
      OBVIOUS
  <2>1. kept[k] \in D /\ kept[l] \in D
      BY <1>10, Zenon
  <2>2. k < l \/ l < k
      OBVIOUS
  <2>3. Before(fs, kept[k], kept[l]) \/ Before(fs, kept[l], kept[k])
      BY <1>8, <2>2
  <2>4. \A i \in D : ~Before(fs, i, i)
    <3>1. \A i \in D : fs[i] \in Features /\ i \in Int
        OBVIOUS
    <3>2. \A i \in D : CloudKey(fs[i]) \in Int
        BY <3>1, KeysAreNumbers, Zenon
    <3> QED BY <3>1, <3>2 DEF Before
  <2> QED BY <2>1, <2>3, <2>4
<1>12. Cardinality(T) = n
    BY <1>7, <1>9, <1>10, <1>11, ListedOnce
<1> QED BY <1>5, <1>7, <1>8, <1>9, <1>12, Zenon DEF kept, s

\* The scenes made of any answer are faithful to it.
LEMMA ScenesFaithful == ASSUME NEW fs \in Seq(Features) PROVE Faithful(fs, ScenesOf(fs))
<1> DEFINE T == {i \in DOMAIN fs : BandsOf(fs[i]) # {}}
           usable == {i \in DOMAIN fs : \E a \in DOMAIN fs[i].assets : fs[i].assets[a].href}
           kept == Filtered(sort_by_cloud(fs), T)
           sc == ScenesOf(fs)
<1>1. T = usable
    BY DEF BandsOf, Linked
<1>2. /\ kept \in Seq(T) /\ Len(kept) = Cardinality(T)
      /\ \A i \in T : \E k \in 1..Len(kept) : kept[k] = i
      /\ \A k, l \in 1..Len(kept) : k < l => Before(fs, kept[k], kept[l])
    BY KeptInOrder
<1>3. sc = [k \in DOMAIN kept |-> Scene(fs, kept[k])]
    BY DEF ScenesOf
<1> HIDE DEF T, kept, sc
<1>4. /\ DOMAIN sc = 1..Len(kept) /\ Len(kept) \in Nat
      /\ \A k \in 1..Len(kept) :
           /\ kept[k] \in T
           /\ sc[k].feature = kept[k] /\ sc[k].bands = collect_band_hrefs(fs[kept[k]])
           /\ sc[k].band_metadata = collect_band_metadata(fs[kept[k]])
    BY <1>2, <1>3 DEF Scene
<1>5. {sc[k].feature : k \in DOMAIN sc} = usable
  <2>1. \A k \in DOMAIN sc : sc[k].feature \in T
      BY <1>4
  <2>2. \A i \in T : \E k \in DOMAIN sc : sc[k].feature = i
      BY <1>2, <1>4
  <2> HIDE DEF usable
  <2> QED BY <1>1, <2>1, <2>2
<1>6. Len(sc) = Cardinality(usable)
    BY <1>1, <1>2, <1>3
<1>7. ASSUME NEW k \in DOMAIN sc, NEW l \in DOMAIN sc, k < l
      PROVE  LET f == fs[sc[k].feature]
                 g == fs[sc[l].feature]
             IN  /\ g.cloud # NoValue => f.cloud # NoValue /\ f.cloud <= g.cloud
                 /\ f.cloud = g.cloud => sc[k].feature < sc[l].feature
  <2>1. Before(fs, sc[k].feature, sc[l].feature)
      BY <1>2, <1>4, <1>7
  <2>2. sc[k].feature \in DOMAIN fs /\ sc[l].feature \in DOMAIN fs
      BY <1>4 DEF T
  <2>3. PICK i \in DOMAIN fs, j \in DOMAIN fs : i = sc[k].feature /\ j = sc[l].feature
      BY <2>2
  <2>4. fs[i] \in Features /\ fs[j] \in Features /\ i \in Int /\ j \in Int
      OBVIOUS
  <2>5. PICK a, b : a = fs[i].cloud /\ b = fs[j].cloud
      OBVIOUS
  <2>6. /\ a \in {-1} \cup 0..100 /\ b \in {-1} \cup 0..100 /\ NoValue = -1
        /\ CloudKey(fs[i]) = (IF a = -1 THEN 101 ELSE a) /\ CloudKey(fs[j]) = (IF b = -1 THEN 101 ELSE b)
      BY <2>4, <2>5, CloudKeys
  <2>7. Before(fs, i, j)
      BY <2>1, <2>3
  <2>8. (b # -1 => a # -1 /\ a <= b) /\ (a = b => i < j)
      BY <2>4, <2>6, <2>7 DEF Before
  <2> QED BY <2>3, <2>5, <2>6, <2>8
<1>8. ASSUME NEW k \in DOMAIN sc
      PROVE  /\ DOMAIN sc[k].bands = DOMAIN sc[k].band_metadata
             /\ \A b \in DOMAIN sc[k].bands :
                  LET a == sc[k].bands[b]
                      asset == fs[sc[k].feature].assets[a]
                  IN  /\ asset.href
                      /\ b = canonical_band_name(asset.key)
                      /\ sc[k].band_metadata[b].asset = a
  <2> DEFINE f == fs[kept[k]]
  <2>1. f \in Features /\ sc[k].feature = kept[k]
      BY <1>4 DEF T
  <2>2. sc[k].bands = collect_band_hrefs(f) /\ sc[k].band_metadata = collect_band_metadata(f)
      BY <1>4
  <2> HIDE DEF f
  <2>3. DOMAIN sc[k].bands = BandsOf(f) /\ DOMAIN sc[k].band_metadata = BandsOf(f)
      BY <2>2 DEF collect_band_hrefs, collect_band_metadata
  <2>4. ASSUME NEW b \in BandsOf(f)
        PROVE  /\ f.assets[sc[k].bands[b]].href
               /\ b = canonical_band_name(f.assets[sc[k].bands[b]].key)
               /\ sc[k].band_metadata[b].asset = sc[k].bands[b]
    <3>1. Linked(f) \in SUBSET DOMAIN f.assets /\ \E i \in Linked(f) : canonical_band_name(f.assets[i].key) = b
        BY DEF Linked, BandsOf
    <3>2. FirstWriter(f, Linked(f), b) \in Linked(f)
          /\ canonical_band_name(f.assets[FirstWriter(f, Linked(f), b)].key) = b
        BY <2>1, <3>1, FirstWriterWrites
    <3>3. sc[k].bands[b] = FirstWriter(f, Linked(f), b)
        BY <2>2 DEF collect_band_hrefs
    <3>4. sc[k].band_metadata[b].asset = FirstWriter(f, Linked(f), b)
        BY <2>2 DEF collect_band_metadata, parse_asset_band_metadata
    <3> QED BY <3>2, <3>3, <3>4 DEF Linked
  <2> QED BY <2>1, <2>3, <2>4 DEF f
<1> QED BY <1>5, <1>6, <1>7, <1>8, Zenon DEF Faithful, sc

\* A search that ended well holds the scenes of its catalog's answer.
SceneInv == target \in Searches /\ (phase = "ok" => scenes = ScenesOf(target[3]))

LEMMA SceneInit == SearchInit => SceneInv
BY DEF SearchInit, SceneInv

LEMMA SceneNext == SceneInv /\ [SearchNext]_searchVars => SceneInv'
<1> SUFFICES ASSUME SceneInv, [SearchNext]_searchVars PROVE SceneInv'
    OBVIOUS
<1> USE DEF SceneInv
<1>1. CASE check_url
    BY <1>1 DEF check_url
<1>2. CASE send_ok
  <2>1. target[3] \in {s[3] : s \in Searches}
      OBVIOUS
  <2>2. scenes_of[target[3]] = ScenesOf(target[3])
      BY <2>1 DEF scenes_of
  <2> QED BY <1>2, <2>2 DEF send_ok
<1>3. CASE send_client_error \/ send_transient \/ back_off
    BY <1>3 DEF send_client_error, send_transient, back_off
<1>4. CASE UNCHANGED searchVars
    BY <1>4 DEF searchVars
<1> QED BY <1>1, <1>2, <1>3, <1>4 DEF SearchNext

\* For every catalog, whatever its features, their assets and their number, and
\* after any retries: a search returns every usable feature once, the least
\* cloudy first, and gives a band the href and the metadata of one asset
\* (stac.rs: search, collect_band_hrefs, collect_band_metadata).
THEOREM SearchesReturnFaithfulScenes == SearchSpec => []ScenesAreFaithful
<1>1. SceneInv => ScenesAreFaithful
    BY FeaturesAssumption, ScenesFaithful DEF SceneInv, ScenesAreFaithful
<1> QED BY <1>1, SceneInit, SceneNext, PTL DEF SearchSpec

-----------------------------------------------------------------------------
(* The catalogs.                                                           *)

\* The k-th element of s that is in T stood at at[k].
StoodAt(s, T, at) ==
    LET P == Places(s, T)
        n == Cardinality(P)
    IN  /\ at \in [1..n -> P]
        /\ \A k \in 1..n : Filtered(s, T)[k] = s[at[k]] /\ Cardinality({p \in P : p < at[k]}) = k - 1
        /\ \A p \in P : \E k \in 1..n : at[k] = p

\* The elements of a list that are in T, with the places they stood at.
LEMMA ChosenOf ==
    ASSUME NEW s, IsList(s), NEW T
    PROVE  LET P == Places(s, T)
               n == Cardinality(P)
               out == Filtered(s, T)
           IN  /\ P \in SUBSET Int /\ n \in Nat /\ out \in Seq(Range(s)) /\ Len(out) = n
               /\ \E at : StoodAt(s, T, at)
<1> DEFINE P == Places(s, T)
           n == Cardinality(P)
           out == Filtered(s, T)
<1>1. s \in Seq(Range(s))
    BY DEF IsList
<1>2. /\ n \in 0..Len(s) /\ out \in Seq(Range(s) \cap T) /\ Len(out) = n
      /\ \E at \in [1..n -> P] :
           /\ \A k \in 1..n : out[k] = s[at[k]]
           /\ \A p \in P : \E k \in 1..n : at[k] = p
           /\ \A k, l \in 1..n : k < l => at[k] < at[l]
    BY <1>1, FilteredInOrder
<1>3. P \in SUBSET Int /\ n \in Nat
  <2>1. DOMAIN s \in SUBSET Int /\ Len(s) \in Nat
      BY <1>1
  <2> QED BY <1>2, <2>1 DEF Places
<1> HIDE DEF P, n, out
<1>4. out \in Seq(Range(s))
    BY <1>2
<1>5. PICK at \in [1..n -> P] :
           /\ \A k \in 1..n : out[k] = s[at[k]]
           /\ \A p \in P : \E k \in 1..n : at[k] = p
           /\ \A k, l \in 1..n : k < l => at[k] < at[l]
    BY <1>2
<1>6. \A k \in 1..n : Cardinality({p \in P : p < at[k]}) = k - 1
    BY <1>3, <1>5, RankOf
<1>7. StoodAt(s, T, at)
    BY <1>5, <1>6, Zenon DEF P, n, out, StoodAt
<1> QED BY <1>2, <1>3, <1>4, <1>7 DEF P, n, out

\* Boxes that are not beside one another have a point in common.
LEMMA MeetIsIntersect ==
    ASSUME NEW a, NEW b, IsBox(a), IsBox(b)
    PROVE  Meet(a, b) <=> bbox_intersects(a, b)
<1>1. /\ a[1] \in Int /\ a[2] \in Int /\ a[3] \in Int /\ a[4] \in Int /\ a[1] <= a[3] /\ a[2] <= a[4]
      /\ b[1] \in Int /\ b[2] \in Int /\ b[3] \in Int /\ b[4] \in Int /\ b[1] <= b[3] /\ b[2] <= b[4]
    BY DEF IsBox
<1>2. ASSUME bbox_intersects(a, b) PROVE Meet(a, b)
  <2> DEFINE x == IF a[1] <= b[1] THEN b[1] ELSE a[1]
             y == IF a[2] <= b[2] THEN b[2] ELSE a[2]
  <2>1. b[1] <= a[3] /\ a[1] <= b[3] /\ b[2] <= a[4] /\ a[2] <= b[4]
      BY <1>1, <1>2 DEF bbox_intersects
  <2>2. /\ x \in a[1]..a[3] /\ b[1] <= x /\ x <= b[3]
        /\ y \in a[2]..a[4] /\ b[2] <= y /\ y <= b[4]
      BY <1>1, <2>1
  <2> QED BY <2>2 DEF Meet
<1>3. ASSUME Meet(a, b) PROVE bbox_intersects(a, b)
  <2>1. PICK x \in a[1]..a[3], y \in a[2]..a[4] : b[1] <= x /\ x <= b[3] /\ b[2] <= y /\ y <= b[4]
      BY <1>3 DEF Meet
  <2> QED BY <1>1, <2>1 DEF bbox_intersects
<1> QED BY <1>2, <1>3

\* The search parses what it can, and selects what fits.
LEMMA ParsedIsTime ==
    ASSUME NEW d, IsTime(d)
    PROVE  LET bad == d.form = "empty" \/ (d.form = "interval" /\ d.start = Open /\ d.end = Open)
               On(t) == IF d.form = "instant" THEN t = d.at
                        ELSE (d.start = Open \/ d.start <= t) /\ (d.end = Open \/ t <= d.end)
               p == parse_datetime(d)
           IN  /\ bad => DOMAIN p = {"err"}
               /\ ~bad => DOMAIN p = {"ok"} /\ \A t \in Int : datetime_matches(p.ok, t) <=> On(t)
<1> DEFINE p == parse_datetime(d)
<1>1. CASE d.form = "empty"
    BY <1>1 DEF parse_datetime, Err
<1>2. CASE d.form = "instant"
  <2>1. p = Ok(<<d.at, d.at>>) /\ d.at \in Int
      BY <1>2 DEF parse_datetime, IsTime
  <2>2. DOMAIN p = {"ok"} /\ p.ok[1] = d.at /\ p.ok[2] = d.at
      BY <2>1 DEF Ok
  <2> HIDE DEF p
  <2>3. \A t \in Int : datetime_matches(p.ok, t) <=> t = d.at
      BY <2>1, <2>2, CatalogAssumption DEF datetime_matches
  <2> QED BY <1>2, <2>2, <2>3 DEF p
<1>3. CASE d.form = "interval" /\ d.start = Open /\ d.end = Open
    BY <1>3 DEF parse_datetime, Err
<1>4. CASE d.form = "interval" /\ ~(d.start = Open /\ d.end = Open)
  <2>1. p = Ok(<<d.start, d.end>>) /\ d.start \in Int \cup {Open} /\ d.end \in Int \cup {Open}
      BY <1>4 DEF parse_datetime, IsTime
  <2>2. DOMAIN p = {"ok"} /\ p.ok[1] = d.start /\ p.ok[2] = d.end
      BY <2>1 DEF Ok
  <2> HIDE DEF p
  <2>3. \A t \in Int : datetime_matches(p.ok, t) <=> (d.start = Open \/ d.start <= t) /\ (d.end = Open \/ t <= d.end)
      BY <2>1, <2>2 DEF datetime_matches
  <2> QED BY <1>4, <2>2, <2>3 DEF p
<1> QED BY <1>1, <1>2, <1>3, <1>4 DEF IsTime

LEMMA SearchAnswersExactly ==
    ASSUME NEW q, Askable(q), q.op = "search"
    PROVE  SearchIsExact(q, search(q.req, q.items))
<1> DEFINE d == q.req.datetime
           On(t) == IF d.form = "instant" THEN t = d.at
                    ELSE (d.start = Open \/ d.start <= t) /\ (d.end = Open \/ t <= d.end)
           bad == d # Unset /\ (d.form = "empty" \/ (d.form = "interval" /\ d.start = Open /\ d.end = Open))
           Fits(it) == IF q.req.ids # {} THEN it.id \in q.req.ids
                       ELSE /\ q.req.collections # {} => it.collection \in q.req.collections
                            /\ q.req.bbox # Unset => Meet(q.req.bbox, it.bbox)
                            /\ d # Unset => On(it.datetime)
           n == IF q.req.limit = Unset THEN 100 ELSE q.req.limit
           fitting == {i \in DOMAIN q.items : Fits(q.items[i])}
           touching == IF q.req.ids # {} \/ q.req.bbox = Unset THEN {}
                       ELSE {i \in fitting : ~Overlap(q.req.bbox, q.items[i].bbox)}
           parsed == IF d = Unset THEN Ok(Unset) ELSE parse_datetime(d)
           T == {it \in Range(q.items) : Selected(q.req, parsed.ok, it)}
           out == Filtered(q.items, T)
           m == IF Len(out) <= n THEN Len(out) ELSE n
           r == search(q.req, q.items)
<1>1. /\ IsList(q.items) /\ n \in Nat /\ (q.req.bbox = Unset \/ IsBox(q.req.bbox)) /\ (d = Unset \/ IsTime(d))
      /\ \A i \in DOMAIN q.items : IsBox(q.items[i].bbox) /\ q.items[i].datetime \in Int
    BY DEF Askable
<1>2. bad => DOMAIN parsed = {"err"}
    BY <1>1, ParsedIsTime
<1>3. ~bad => DOMAIN parsed = {"ok"} /\ (d # Unset => \A t \in Int : datetime_matches(parsed.ok, t) <=> On(t))
  <2>1. CASE d = Unset
      BY <2>1 DEF Ok
  <2>2. CASE d # Unset
      BY <1>1, <2>2, ParsedIsTime
  <2> QED BY <2>1, <2>2
<1>4. /\ DOMAIN parsed = {"err"} => r = parsed
      /\ DOMAIN parsed = {"ok"} => r = Ok(SubSeq(out, 1, m))
    BY DEF search
<1>5. CASE bad
    BY <1>2, <1>4, <1>5 DEF SearchIsExact
<1>6. CASE ~bad
  <2>1. \A i \in DOMAIN q.items : Fits(q.items[i]) <=> Selected(q.req, parsed.ok, q.items[i])
    <3> SUFFICES ASSUME NEW i \in DOMAIN q.items PROVE Fits(q.items[i]) <=> Selected(q.req, parsed.ok, q.items[i])
        OBVIOUS
    <3>1. q.req.bbox # Unset => (Meet(q.req.bbox, q.items[i].bbox) <=> bbox_intersects(q.req.bbox, q.items[i].bbox))
        BY <1>1, MeetIsIntersect
    <3>2. d # Unset => (datetime_matches(parsed.ok, q.items[i].datetime) <=> On(q.items[i].datetime))
        BY <1>1, <1>3, <1>6
    <3> HIDE DEF On, parsed
    <3> QED BY <3>1, <3>2 DEF Selected
  <2> HIDE DEF bad, Fits, parsed
  <2>2. Places(q.items, T) = fitting
      BY <2>1 DEF Places, Range
  <2>3. /\ Cardinality(fitting) \in Nat /\ out \in Seq(Range(q.items)) /\ Len(out) = Cardinality(fitting)
        /\ \E at \in [1..Cardinality(fitting) -> fitting] :
             \A k \in 1..Cardinality(fitting) : out[k] = q.items[at[k]] /\ Cardinality({j \in fitting : j < at[k]}) = k - 1
    <3> DEFINE P == Places(q.items, T)
               c == Cardinality(P)
    <3> HIDE DEF fitting, T
    <3>1. c \in Nat /\ out \in Seq(Range(q.items)) /\ Len(out) = c
        BY <1>1, ChosenOf
    <3>3. PICK at : StoodAt(q.items, T, at)
        BY <1>1, ChosenOf
    <3>4. /\ at \in [1..c -> P]
          /\ \A k \in 1..c : out[k] = q.items[at[k]] /\ Cardinality({p \in P : p < at[k]}) = k - 1
        BY <3>3, Zenon DEF StoodAt
    <3>2. P = fitting
        BY <2>2
    <3> HIDE DEF P, out
    <3> QED BY <3>1, <3>2, <3>4, Zenon DEF c
  <2> DEFINE c == Cardinality(fitting)
  <2>4. PICK at \in [1..c -> fitting] :
          \A k \in 1..c : out[k] = q.items[at[k]] /\ Cardinality({j \in fitting : j < at[k]}) = k - 1
      BY <2>3
  <2>5. c \in Nat /\ out \in Seq(Range(q.items)) /\ Len(out) = c
      BY <2>3
  <2> HIDE DEF fitting, T, out, c, n
  <2>6. m \in 0..c /\ m = (IF c <= n THEN c ELSE n)
      BY <1>1, <2>5
  <2> HIDE DEF m
  <2>7. DOMAIN r = {"ok"} /\ r.ok = SubSeq(out, 1, m)
      BY <1>3, <1>4, <1>6 DEF Ok
  <2> HIDE DEF r
  <2>8. Len(r.ok) = m /\ DOMAIN r.ok = 1..m /\ \A k \in 1..m : r.ok[k] = out[k]
      BY <2>5, <2>6, <2>7
  <2>9. ASSUME NEW k \in DOMAIN r.ok
        PROVE  \E i \in fitting : r.ok[k] = q.items[i] /\ Cardinality({j \in fitting : j < i}) = k - 1
    <3>1. k \in 1..c
        BY <2>6, <2>8
    <3>2. at[k] \in fitting /\ r.ok[k] = q.items[at[k]] /\ Cardinality({j \in fitting : j < at[k]}) = k - 1
        BY <2>4, <2>8, <3>1
    <3> QED BY <3>2
  <2>10. "ok" \in DOMAIN r /\ Len(r.ok) = (IF Cardinality(fitting) <= n THEN Cardinality(fitting) ELSE n)
      BY <2>6, <2>7, <2>8 DEF c
  <2>11. fitting = fitting \ {} /\ {} \in SUBSET touching
      OBVIOUS
  <2> HIDE DEF touching
  <2>12. \E left \in SUBSET touching :
            /\ Len(r.ok) = (IF Cardinality(fitting \ left) <= n THEN Cardinality(fitting \ left) ELSE n)
            /\ \A k \in DOMAIN r.ok : \E i \in fitting \ left :
                 r.ok[k] = q.items[i] /\ Cardinality({j \in fitting \ left : j < i}) = k - 1
      BY <2>9, <2>10, <2>11, Zenon
  <2>13. SearchIsExact(q, r)
      BY <1>6, <2>10, <2>12, Zenon DEF SearchIsExact, fitting, touching, n, Fits, bad
  <2> QED BY <2>13 DEF r
<1> QED BY <1>5, <1>6

\* What /collections/{id} answers: 404 when the backend says so or works and no
\* collection has the id, 500 when it fails, and otherwise the first that has it.
LEMMA GotIsTheFirst ==
    ASSUME NEW remote, NEW id, IsList(remote.collections)
    PROVE  LET fine == remote.status = 200 /\ remote.json
               C == remote.collections
               missing == remote.status = 404 \/ (remote.status = 200 /\ \A k \in DOMAIN C : C[k].id # id)
               g == get_collection(remote, id)
           IN  /\ missing => g.status = 404
               /\ ~fine /\ ~missing => g.status = 500
               /\ fine /\ (\E k \in DOMAIN C : C[k].id = id) =>
                    \E p \in DOMAIN C :
                        /\ C[p].id = id
                        /\ ~C[p].wellformed => g.status = 500
                        /\ C[p].wellformed => g = [status |-> 200, body |-> C[p]]
<1> DEFINE fine == remote.status = 200 /\ remote.json
           C == remote.collections
           missing == remote.status = 404 \/ (remote.status = 200 /\ \A k \in DOMAIN C : C[k].id # id)
           T == {c \in Range(C) : c.id = id}
           found == Filtered(C, T)
           P == Places(C, T)
           n == Cardinality(P)
           r == get(remote, id)
           g == get_collection(remote, id)
<1>1. P = {k \in DOMAIN C : C[k].id = id}
    BY DEF Places, Range
<1>2. n \in Nat /\ found \in Seq(Range(C)) /\ Len(found) = n /\ \E at : StoodAt(C, T, at)
    BY ChosenOf
<1>3. /\ remote.status = 404 \/ (remote.status = 200 /\ found = << >>) => r = Err("NotFound")
      /\ ~fine /\ remote.status # 404 /\ ~(remote.status = 200 /\ found = << >>) => r = Err("Backend")
      /\ fine /\ found # << >> /\ ~Head(found).wellformed => r = Err("Backend")
      /\ fine /\ found # << >> /\ Head(found).wellformed => r = Ok(Head(found))
    BY DEF get
<1>4. /\ r = Err("Backend") => g = [status |-> 500, body |-> id]
      /\ r = Err("NotFound") => g = [status |-> 404, body |-> id]
      /\ \A v : r = Ok(v) => g = [status |-> 200, body |-> v]
    BY DEF get_collection, Err, Ok
<1> HIDE DEF fine, found, P, n, r, g
<1>5. remote.status = 200 => (found = << >> <=> \A k \in DOMAIN C : C[k].id # id)
  <2>1. ASSUME \A k \in DOMAIN C : C[k].id # id PROVE found = << >>
    <3>1. P = {}
        BY <1>1, <2>1
    <3>2. n = 0
        BY <3>1, FS_EmptySet DEF n
    <3> QED BY <1>2, <3>2
  <2>2. ASSUME found = << >> PROVE \A k \in DOMAIN C : C[k].id # id
    <3>1. n = 0
        BY <1>2, <2>2
    <3>2. \A p \in P : \E k \in 1..n : TRUE
        BY <1>2, Zenon DEF StoodAt, P, n
    <3>3. 1..n = {}
        BY <3>1
    <3>4. P = {}
        BY <3>2, <3>3, Zenon
    <3> QED BY <1>1, <3>4
  <2> QED BY <2>1, <2>2
<1>6. CASE missing
  <2>1. r = Err("NotFound")
      BY <1>3, <1>5, <1>6
  <2>2. g.status = 404
      BY <1>4, <2>1
  <2>3. ~(fine /\ (\E k \in DOMAIN C : C[k].id = id))
      BY <1>6 DEF fine
  <2> QED BY <1>6, <2>2, <2>3 DEF fine, g
<1>8. CASE ~fine /\ ~missing
  <2>1. r = Err("Backend")
      BY <1>3, <1>5, <1>8
  <2>2. g.status = 500
      BY <1>4, <2>1
  <2> QED BY <1>8, <2>2 DEF fine, g
<1>7. CASE fine /\ (\E k \in DOMAIN C : C[k].id = id)
  <2>0. PICK at : StoodAt(C, T, at)
      BY <1>2
  <2>1. /\ at \in [1..n -> P]
        /\ \A k \in 1..n : found[k] = C[at[k]]
        /\ \A p \in P : \E k \in 1..n : at[k] = p
      BY <2>0, Zenon DEF StoodAt, P, n, found
  <2>2. \E p \in P : TRUE
      BY <1>1, <1>7
  <2>3. n >= 1
      BY <1>2, <2>1, <2>2
  <2>4. found # << >> /\ Head(found) = found[1] /\ 1 \in 1..n
      BY <1>2, <2>3
  <2>5. at[1] \in DOMAIN C /\ C[at[1]].id = id /\ Head(found) = C[at[1]]
      BY <1>1, <2>1, <2>4
  <2>6. /\ ~C[at[1]].wellformed => g.status = 500
        /\ C[at[1]].wellformed => g = [status |-> 200, body |-> C[at[1]]]
      BY <1>3, <1>4, <1>7, <2>4, <2>5
  <2>7. \E p \in DOMAIN C :
           /\ C[p].id = id
           /\ ~C[p].wellformed => g.status = 500
           /\ C[p].wellformed => g = [status |-> 200, body |-> C[p]]
      BY <2>5, <2>6
  <2> QED BY <1>7, <2>7 DEF fine, g
<1>9. missing \/ (~fine /\ ~missing) \/ (fine /\ (\E k \in DOMAIN C : C[k].id = id))
    BY DEF fine
<1> QED BY <1>6, <1>7, <1>8, <1>9

\* Listing and getting collections agree.
LEMMA CollectionsAnswerExactly ==
    ASSUME NEW q, Askable(q), q.op = "collections",
           NEW r, r.listed = list_collections(q.remote),
           r.got = [id \in q.ids |-> get_collection(q.remote, id)]
    PROVE  CollectionsAgree(q, r)
<1> DEFINE fine == q.remote.status = 200 /\ q.remote.json
           C == q.remote.collections
           W == {c \in Range(C) : c.wellformed}
           body == r.listed.body
           out == Filtered(C, W)
           P == Places(C, W)
           n == Cardinality(P)
<1>1. IsList(C)
    BY DEF Askable
<1>2. /\ ~fine => body = << >>
      /\ fine => body = out
    BY DEF list_collections, list, Ok, Err
<1>3. \A k \in DOMAIN body : fine /\ \E p \in DOMAIN C : body[k] = C[p] /\ C[p].wellformed
  <2>1. P = {p \in DOMAIN C : C[p].wellformed}
      BY DEF Places, Range
  <2>2. n \in Nat /\ out \in Seq(Range(C)) /\ Len(out) = n /\ \E at : StoodAt(C, W, at)
      BY <1>1, ChosenOf
  <2> HIDE DEF fine, body, out, P, n
  <2>3. DOMAIN body # {} => fine
      BY <1>2
  <2>0. PICK at : StoodAt(C, W, at)
      BY <2>2
  <2>4. at \in [1..n -> P] /\ \A k \in 1..n : out[k] = C[at[k]]
      BY <2>0, Zenon DEF StoodAt, P, n, out
  <2>5. DOMAIN out = 1..n
      BY <2>2
  <2>6. ASSUME NEW k \in DOMAIN body PROVE fine /\ \E p \in DOMAIN C : body[k] = C[p] /\ C[p].wellformed
    <3>1. fine /\ body = out /\ k \in 1..n
        BY <1>2, <2>3, <2>5
    <3>2. at[k] \in DOMAIN C /\ C[at[k]].wellformed /\ body[k] = C[at[k]]
        BY <2>1, <2>4, <3>1
    <3> QED BY <3>1, <3>2
  <2> QED BY <2>6 DEF body, fine
<1>4. ASSUME NEW k \in DOMAIN body, body[k].id \in q.ids,
             \A c, e \in DOMAIN C : C[c].id = C[e].id => c = e
      PROVE  r.got[body[k].id] = [status |-> 200, body |-> body[k]]
  <2>1. PICK p \in DOMAIN C : body[k] = C[p] /\ C[p].wellformed
      BY <1>3, <1>4
  <2> DEFINE id == C[p].id
             g == get_collection(q.remote, id)
  <2>2. fine
      BY <1>3, <1>4
  <2>3. \E e \in DOMAIN C : C[e].id = id /\ (C[e].wellformed => g = [status |-> 200, body |-> C[e]])
      BY <1>1, <2>2, GotIsTheFirst
  <2> HIDE DEF g, body
  <2>4. g = [status |-> 200, body |-> C[p]]
      BY <1>4, <2>1, <2>3
  <2> QED BY <1>4, <2>1, <2>4 DEF g
<1>5. ASSUME NEW id \in q.ids
      PROVE  r.got[id].status = 404
               <=> q.remote.status = 404 \/ (q.remote.status = 200 /\ \A k \in DOMAIN C : C[k].id # id)
  <2> DEFINE g == get_collection(q.remote, id)
             missing == q.remote.status = 404 \/ (q.remote.status = 200 /\ \A k \in DOMAIN C : C[k].id # id)
  <2>1. /\ missing => g.status = 404
        /\ ~fine /\ ~missing => g.status = 500
        /\ fine /\ (\E k \in DOMAIN C : C[k].id = id) =>
             \E p \in DOMAIN C :
                 /\ ~C[p].wellformed => g.status = 500
                 /\ C[p].wellformed => g = [status |-> 200, body |-> C[p]]
      BY <1>1, GotIsTheFirst
  <2>5. fine /\ ~missing => \E k \in DOMAIN C : C[k].id = id
      OBVIOUS
  <2> HIDE DEF g, fine, missing
  <2>2. (\E p \in DOMAIN C : /\ ~C[p].wellformed => g.status = 500
                             /\ C[p].wellformed => g = [status |-> 200, body |-> C[p]])
        => g.status # 404
      OBVIOUS
  <2>3. g.status = 404 <=> missing
      BY <2>1, <2>2, <2>5
  <2>4. r.got[id] = g
      BY DEF g
  <2> QED BY <2>3, <2>4 DEF missing
<1> HIDE DEF body
<1>6. \A k \in DOMAIN body :
         body[k].id \in q.ids /\ (\A c, e \in DOMAIN C : C[c].id = C[e].id => c = e)
         => r.got[body[k].id] = [status |-> 200, body |-> body[k]]
    BY <1>4
<1> QED BY <1>5, <1>6, Zenon DEF CollectionsAgree, body

\* The places of a list, and the values at them, are finitely many.
LEMMA ListPlaces ==
    ASSUME NEW s, IsList(s)
    PROVE  /\ Len(s) \in Nat /\ DOMAIN s = 1..Len(s) /\ DOMAIN s \in SUBSET Int
           /\ IsFiniteSet(DOMAIN s) /\ \A P \in SUBSET (DOMAIN s) : IsFiniteSet(P)
<1>1. Len(s) \in Nat /\ DOMAIN s = 1..Len(s) /\ DOMAIN s \in SUBSET Int
    BY DEF IsList
<1>2. IsFiniteSet(DOMAIN s)
    BY <1>1, OneTo
<1> QED BY <1>1, <1>2, FS_Subset

\* The items with a datetime, in the order of their times.
LEMMA SortedIsChronological ==
    ASSUME NEW items, IsList(items), \A i \in DOMAIN items : items[i].datetime \in Int \cup {Unset}
    PROVE  LET sorted == get_sorted_datetimes(items)
           IN  /\ {sorted[k] : k \in DOMAIN sorted} = {i \in DOMAIN items : items[i].datetime # Unset}
               /\ \A k, l \in DOMAIN sorted : k < l => items[sorted[k]].datetime <= items[sorted[l]].datetime
<1> DEFINE D == DatedItems(items)
           R == DateOrder(items)
           n == Cardinality(D)
           sorted == Listed(D, R)
<1>1. /\ D = {i \in DOMAIN items : items[i].datetime # Unset}
      /\ \A i \in D : i \in Int /\ items[i].datetime \in Int
      /\ IsFiniteSet(D)
  <2>1. DOMAIN items \in SUBSET Int /\ \A P \in SUBSET (DOMAIN items) : IsFiniteSet(P)
      BY ListPlaces
  <2>2. D = {i \in DOMAIN items : items[i].datetime # Unset} /\ D \in SUBSET (DOMAIN items)
      BY DEF DatedItems
  <2> QED BY <2>1, <2>2
<1>2. \A i, j \in D : <<i, j>> \in R <=> \/ items[i].datetime < items[j].datetime
                                         \/ items[i].datetime = items[j].datetime /\ i < j
    BY DEF DateOrder
<1> HIDE DEF D, R
<1>3. Orders(R, D)
    BY <1>1, <1>2 DEF Orders
<1>4. /\ sorted \in [1..n -> D]
      /\ \A i \in D : \E k \in 1..n : sorted[k] = i
      /\ \A k, m \in 1..n : k < m => <<sorted[k], sorted[m]>> \in R
  <2>1. IsFiniteSet(D)
      BY <1>1
  <2> QED BY <1>3, <2>1, ListedInOrder
<1>5. get_sorted_datetimes(items) = sorted
    BY DEF get_sorted_datetimes, D, R
<1> HIDE DEF sorted, n
<1>6. DOMAIN sorted = 1..n /\ {sorted[k] : k \in DOMAIN sorted} = D
    BY <1>4
<1>7. ASSUME NEW k \in DOMAIN sorted, NEW l \in DOMAIN sorted, k < l
      PROVE  items[sorted[k]].datetime <= items[sorted[l]].datetime
  <2>1. sorted[k] \in D /\ sorted[l] \in D /\ <<sorted[k], sorted[l]>> \in R
      BY <1>4, <1>6, <1>7
  <2> QED BY <1>1, <1>2, <2>1
<1> QED BY <1>1, <1>5, <1>6, <1>7

\* The times of the items within a range, each once, oldest first.
TimesWithin(items, from, to, unique) ==
    /\ \A k, l \in DOMAIN unique : k < l => unique[k] < unique[l]
    /\ {unique[k] : k \in DOMAIN unique} =
         {items[i].datetime : i \in {j \in DOMAIN items : items[j].datetime \in from..to}}

LEMMA UniqueIsRising ==
    ASSUME NEW items, IsList(items), NEW from \in Int, NEW to \in Int,
           \A i \in DOMAIN items : items[i].datetime \in Int \cup {Unset}
    PROVE  TimesWithin(items, from, to, unique_datetimes_in_range(items, from, to))
<1> DEFINE J == {j \in DOMAIN items : items[j].datetime \in from..to}
           P == {items[i].datetime : i \in J}
           seen == {items[i].datetime : i \in DOMAIN items} \ {Unset}
           f == [i \in J |-> items[i].datetime]
           n == Cardinality(P)
           unique == Rising(P)
<1>1. {t \in seen : from <= t /\ t <= to} = P
  <2>1. ASSUME NEW t \in seen, from <= t, t <= to PROVE t \in P
    <3>1. PICK i \in DOMAIN items : t = items[i].datetime
        BY <2>1
    <3>2. items[i].datetime \in from..to
        BY <2>1, <3>1
    <3> QED BY <3>1, <3>2
  <2>2. ASSUME NEW t \in P PROVE t \in seen /\ from <= t /\ t <= to
    <3>1. PICK i \in J : t = items[i].datetime
        BY <2>2
    <3>2. t \in Int /\ from <= t /\ t <= to /\ t # Unset
        BY <3>1, CatalogAssumption
    <3> QED BY <3>1, <3>2
  <2> QED BY <2>1, <2>2
<1>2. unique_datetimes_in_range(items, from, to) = unique
    BY <1>1 DEF unique_datetimes_in_range
<1>3. P \in SUBSET Int
    OBVIOUS
<1>4. IsFiniteSet(P)
  <2>1. IsFiniteSet(J)
      BY ListPlaces
  <2>2. f \in Surjection(J, P)
      BY DEF Surjection
  <2> HIDE DEF J, P, f
  <2> QED BY <2>1, <2>2, FS_Surjection
<1> HIDE DEF P
<1>5. /\ unique \in [1..n -> P]
      /\ \A i \in P : \E k \in 1..n : unique[k] = i
      /\ \A k, m \in 1..n : k < m => unique[k] < unique[m]
    BY <1>3, <1>4, RisingInOrder
<1> HIDE DEF unique, n
<1>6. DOMAIN unique = 1..n /\ {unique[k] : k \in DOMAIN unique} = P
    BY <1>5
<1>7. \A k, l \in DOMAIN unique : k < l => unique[k] < unique[l]
    BY <1>5, <1>6
<1> QED BY <1>2, <1>6, <1>7 DEF P, TimesWithin

\* The items of a tile are the items whose tile is stated and that tile.
LEMMA TileIsExact ==
    ASSUME NEW items, IsList(items), NEW tile, IsTile(tile), \A k \in 1..3 : tile[k] # Unset,
           \A i \in DOMAIN items : IsTile(items[i].mgrs)
    PROVE  LET out == filter_items_by_tile(items, tile)
           IN  \A i \in DOMAIN items : (\E k \in DOMAIN out : out[k] = items[i]) <=> items[i].mgrs = tile
<1> DEFINE T == {it \in Range(items) : \A k \in 1..3 : it.mgrs[k] # Unset /\ it.mgrs[k] = tile[k]}
           P == Places(items, T)
           n == Cardinality(P)
           out == Filtered(items, T)
<1>1. \A i \in DOMAIN items : items[i] \in T <=> items[i].mgrs = tile
  <2> SUFFICES ASSUME NEW i \in DOMAIN items PROVE items[i] \in T <=> items[i].mgrs = tile
      OBVIOUS
  <2> DEFINE g == items[i].mgrs
  <2>1. items[i] \in T <=> \A k \in 1..3 : g[k] # Unset /\ g[k] = tile[k]
      BY DEF Range
  <2>2. g = <<g[1], g[2], g[3]>> /\ tile = <<tile[1], tile[2], tile[3]>>
      BY DEF IsTile
  <2> HIDE DEF g, T
  <2>3. (\A k \in 1..3 : g[k] # Unset /\ g[k] = tile[k]) => g[1] = tile[1] /\ g[2] = tile[2] /\ g[3] = tile[3]
      OBVIOUS
  <2>4. (\A k \in 1..3 : g[k] # Unset /\ g[k] = tile[k]) => g = tile
      BY <2>2, <2>3
  <2>5. g = tile => \A k \in 1..3 : g[k] # Unset /\ g[k] = tile[k]
      OBVIOUS
  <2> QED BY <2>1, <2>4, <2>5 DEF g
<1> HIDE DEF T
<1>2. n \in Nat /\ Len(out) = n /\ out \in Seq(Range(items)) /\ \E at : StoodAt(items, T, at)
    BY ChosenOf
<1>3. PICK at : StoodAt(items, T, at)
    BY <1>2
<1>4. /\ at \in [1..n -> P]
      /\ \A k \in 1..n : out[k] = items[at[k]]
      /\ \A p \in P : \E k \in 1..n : at[k] = p
    BY <1>3, Zenon DEF StoodAt
<1>5. P = {k \in DOMAIN items : items[k] \in T}
    BY DEF Places
<1>6. filter_items_by_tile(items, tile) = out
    BY DEF filter_items_by_tile, T
<1> HIDE DEF P, n, out
<1>7. DOMAIN out = 1..n
    BY <1>2
<1>8. ASSUME NEW i \in DOMAIN items PROVE (\E k \in DOMAIN out : out[k] = items[i]) <=> items[i].mgrs = tile
  <2>1. ASSUME NEW k \in DOMAIN out, out[k] = items[i] PROVE items[i] \in T
      BY <1>4, <1>5, <1>7, <2>1
  <2>2. ASSUME items[i] \in T PROVE \E k \in DOMAIN out : out[k] = items[i]
    <3>1. PICK k \in 1..n : at[k] = i
        BY <1>4, <1>5, <2>2
    <3> QED BY <1>4, <1>7, <3>1
  <2> QED BY <1>1, <2>1, <2>2
<1> QED BY <1>6, <1>8

\* The item helpers together.
LEMMA ItemsAnswerExactly ==
    ASSUME NEW q, Askable(q), q.op = "items",
           NEW r, r.sorted = get_sorted_datetimes(q.items),
           r.unique = unique_datetimes_in_range(q.items, q.from, q.to),
           r.tile = filter_items_by_tile(q.items, q.tile)
    PROVE  ItemsAgree(q, r)
<1>1. /\ IsList(q.items) /\ q.from \in Int /\ q.to \in Int
      /\ IsTile(q.tile) /\ \A k \in 1..3 : q.tile[k] # Unset
      /\ \A i \in DOMAIN q.items : q.items[i].datetime \in Int \cup {Unset}
      /\ \A i \in DOMAIN q.items : IsTile(q.items[i].mgrs)
    BY DEF Askable
<1>2. /\ {r.sorted[k] : k \in DOMAIN r.sorted} = {i \in DOMAIN q.items : q.items[i].datetime # Unset}
      /\ \A k, l \in DOMAIN r.sorted : k < l => q.items[r.sorted[k]].datetime <= q.items[r.sorted[l]].datetime
    BY <1>1, SortedIsChronological
<1>3. TimesWithin(q.items, q.from, q.to, r.unique)
    BY <1>1, UniqueIsRising
<1>4. \A i \in DOMAIN q.items : (\E k \in DOMAIN r.tile : r.tile[k] = q.items[i]) <=> q.items[i].mgrs = q.tile
    BY <1>1, TileIsExact
<1> QED BY <1>2, <1>3, <1>4, Zenon DEF ItemsAgree, TimesWithin

\* A signed URL keeps its scheme and begins with the query it had.
LEMMA SigningOnlyAdds ==
    ASSUME NEW q, Askable(q), q.op = "sign",
           NEW u \in {QueryStringSigner(q.url, q.token), PlanetaryComputerSigner(q.url, q.token),
                      BearerSigner_openeo(q.url, q.token)},
           "ok" \in DOMAIN u
    PROVE  IsPrefix(q.url.query, u.ok.query) /\ u.ok.scheme = q.url.scheme
<1> DEFINE old == q.url.query
           S == Range(old) \cup Range(q.token) \cup {<<"header", q.token>>}
           longer == {old, old \o q.token, Append(old, <<"header", q.token>>)}
<1>1. /\ old \in Seq(Range(old)) /\ q.token \in Seq(Range(q.token)) /\ DOMAIN q.url = {"scheme", "query"}
    BY DEF Askable, IsList
<1>2. old \in Seq(S) /\ q.token \in Seq(S) /\ <<"header", q.token>> \in S
    BY <1>1
<1>3. u.ok.query \in longer /\ u.ok.scheme = q.url.scheme
  <2>1. \A new : LET v == [q.url EXCEPT !.query = new] IN v.query = new /\ v.scheme = q.url.scheme
      BY <1>1
  <2>2. CASE u = QueryStringSigner(q.url, q.token)
    <3>1. u = Ok([q.url EXCEPT !.query = old \o q.token])
        BY <2>2 DEF QueryStringSigner, Err
    <3> QED BY <2>1, <3>1 DEF Ok
  <2>3. CASE u = PlanetaryComputerSigner(q.url, q.token)
    <3>1. u = Ok(q.url) \/ u = Ok([q.url EXCEPT !.query = old \o q.token])
        BY <2>3 DEF PlanetaryComputerSigner
    <3>2. u.ok = q.url \/ u.ok = [q.url EXCEPT !.query = old \o q.token]
      <4>1. \A v : Ok(v).ok = v
          BY DEF Ok
      <4> QED BY <3>1, <4>1
    <3>3. u.ok.query \in {old, old \o q.token} /\ u.ok.scheme = q.url.scheme
      <4>1. CASE u.ok = q.url
          BY <4>1
      <4>2. CASE u.ok = [q.url EXCEPT !.query = old \o q.token]
          BY <2>1, <4>2
      <4> QED BY <3>2, <4>1, <4>2
    <3> QED BY <3>3
  <2>4. CASE u = BearerSigner_openeo(q.url, q.token)
    <3>1. u = Ok(q.url) \/ u = Ok([q.url EXCEPT !.query = Append(old, <<"header", q.token>>)])
        BY <2>4 DEF BearerSigner_openeo
    <3>2. u.ok = q.url \/ u.ok = [q.url EXCEPT !.query = Append(old, <<"header", q.token>>)]
        BY <3>1 DEF Ok
    <3>3. u.ok.query \in {old, Append(old, <<"header", q.token>>)} /\ u.ok.scheme = q.url.scheme
      <4>1. CASE u.ok = q.url
          BY <4>1
      <4>2. CASE u.ok = [q.url EXCEPT !.query = Append(old, <<"header", q.token>>)]
          BY <2>1, <4>2
      <4> QED BY <3>2, <4>1, <4>2
    <3> QED BY <3>3
  <2> QED BY <2>2, <2>3, <2>4
<1> DEFINE token == q.token
           header == <<"header", q.token>>
<1> HIDE DEF S, old, token, header
<1>4. \A new \in longer : new \in Seq(S) /\ Len(old) <= Len(new) /\ \A k \in 1..Len(old) : new[k] = old[k]
  <2>1. old \in Seq(S) /\ token \in Seq(S) /\ header \in S
      BY <1>2 DEF token, header
  <2>2. /\ old \o token \in Seq(S) /\ Len(old) <= Len(old \o token)
        /\ \A k \in 1..Len(old) : (old \o token)[k] = old[k]
      BY <2>1
  <2>3. /\ Append(old, header) \in Seq(S) /\ Len(old) <= Len(Append(old, header))
        /\ \A k \in 1..Len(old) : Append(old, header)[k] = old[k]
      BY <2>1
  <2>4. Len(old) <= Len(old)
      BY <2>1
  <2> QED BY <2>1, <2>2, <2>3, <2>4, Zenon DEF token, header
<1>5. IsPrefix(old, u.ok.query)
  <2> DEFINE new == u.ok.query
  <2>1. new \in Seq(S) /\ Len(old) <= Len(new) /\ \A k \in 1..Len(old) : new[k] = old[k]
      BY <1>3, <1>4
  <2> HIDE DEF new
  <2>2. SubSeq(old, 1, Len(old)) = SubSeq(new, 1, Len(old))
      BY <1>2, <2>1
  <2> QED BY <2>1, <2>2 DEF IsPrefix, new
<1> QED BY <1>3, <1>5 DEF old

-----------------------------------------------------------------------------

\* The question is fixed; there is no answer, or it is what the code answers.
CatalogInv == question \in Questions /\ (answer = Unset \/ answer = <<Answer(question)>>)

\* What the code answers to a question is what was asked for.
LEMMA AnswersAreExact ==
    ASSUME CatalogInv
    PROVE  CatalogAnswersAreExact
<1> SUFFICES ASSUME answer # Unset PROVE CatalogAnswersAreExact
    BY DEF CatalogAnswersAreExact
<1> DEFINE q == question
           r == answer[1]
<1>1. Askable(q)
    BY CatalogAssumption DEF CatalogInv
<1>2. r = Answer(q)
    BY DEF CatalogInv
<1>3. q.op \in {"search", "collections", "items", "sign"}
    BY <1>1 DEF Askable
<1> HIDE DEF q, r
<1>4. CASE q.op = "search"
  <2>1. r = search(q.req, q.items)
      BY <1>2, <1>4 DEF Answer
  <2>2. SearchIsExact(q, r)
      BY <1>1, <1>4, <2>1, SearchAnswersExactly
  <2> QED BY <1>4, <2>2 DEF CatalogAnswersAreExact, q, r
<1>5. CASE q.op = "collections"
  <2>1. r = [listed |-> list_collections(q.remote), got |-> [id \in q.ids |-> get_collection(q.remote, id)]]
      BY <1>2, <1>5 DEF Answer
  <2>2. r.listed = list_collections(q.remote) /\ r.got = [id \in q.ids |-> get_collection(q.remote, id)]
      BY <2>1
  <2>3. CollectionsAgree(q, r)
      BY <1>1, <1>5, <2>2, CollectionsAnswerExactly
  <2> QED BY <1>5, <2>3 DEF CatalogAnswersAreExact, q, r
<1>6. CASE q.op = "items"
  <2>1. r = [sources |-> get_sources_for_asset(q.items, q.name),
             sorted |-> get_sorted_datetimes(q.items),
             unique |-> unique_datetimes_in_range(q.items, q.from, q.to),
             tile |-> filter_items_by_tile(q.items, q.tile)]
      BY <1>2, <1>6 DEF Answer
  <2>2. /\ r.sorted = get_sorted_datetimes(q.items)
        /\ r.unique = unique_datetimes_in_range(q.items, q.from, q.to)
        /\ r.tile = filter_items_by_tile(q.items, q.tile)
      BY <2>1
  <2>3. ItemsAgree(q, r)
      BY <1>1, <1>6, <2>2, ItemsAnswerExactly
  <2> QED BY <1>6, <2>3 DEF CatalogAnswersAreExact, q, r
<1>7. CASE q.op = "sign"
  <2>1. r = [query |-> QueryStringSigner(q.url, q.token), sas |-> PlanetaryComputerSigner(q.url, q.token),
             bearer |-> BearerSigner(q.url, q.token), inline |-> BearerSigner_openeo(q.url, q.token)]
      BY <1>2, <1>7 DEF Answer
  <2>2. /\ r.query = QueryStringSigner(q.url, q.token) /\ r.sas = PlanetaryComputerSigner(q.url, q.token)
        /\ r.inline = BearerSigner_openeo(q.url, q.token)
      BY <2>1
  <2>3. \A s \in {r.query, r.sas, r.inline} :
           "ok" \in DOMAIN s => IsPrefix(q.url.query, s.ok.query) /\ s.ok.scheme = q.url.scheme
      BY <1>1, <1>7, <2>2, SigningOnlyAdds
  <2> QED BY <1>7, <2>3 DEF CatalogAnswersAreExact, q, r
<1> QED BY <1>3, <1>4, <1>5, <1>6, <1>7

\* For every catalog and every question: a search finds exactly the items that
\* fit, in the catalog's order and up to the limit, nothing being claimed of
\* those whose boxes only touch; /collections and /collections/{id} agree, where
\* a backend that answers 404 is one without the collection; the item helpers are complete and in order; a
\* signer keeps the URL and only adds to its query.
THEOREM CatalogsAnswerExactly == CatalogSpec => []CatalogAnswersAreExact
<1>1. CatalogInit => CatalogInv
    BY DEF CatalogInit, CatalogInv
<1>2. CatalogInv /\ [CatalogNext]_catalogVars => CatalogInv'
  <2> SUFFICES ASSUME CatalogInv, [CatalogNext]_catalogVars PROVE CatalogInv'
      OBVIOUS
  <2>1. CASE ask
      BY <2>1 DEF ask, CatalogInv
  <2>2. CASE UNCHANGED catalogVars
      BY <2>2 DEF catalogVars, CatalogInv
  <2> QED BY <2>1, <2>2 DEF CatalogNext
<1>3. CatalogInv => CatalogAnswersAreExact
    BY AnswersAreExact
<1> QED BY <1>1, <1>2, <1>3, PTL DEF CatalogSpec

=============================================================================
