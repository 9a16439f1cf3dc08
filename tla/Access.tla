-------------------------------- MODULE Access --------------------------------
(***************************************************************************)
(* Who may call the openEO server: how it starts (main.rs), what the       *)
(* Authorization header proves (auth), which routes ask for it             *)
(* (security.rs, auth_layer.rs), and the tokens handed out for a password  *)
(* or for an approved device code (routes/credentials.rs).  The gRPC       *)
(* server's own check is here too (orbit-server main.rs).                  *)
(*                                                                         *)
(* A header is [scheme, token] or, for Basic, [scheme, digits] with the    *)
(* base64 digits as numbers 0..63; Pad, Blank and Other stand for `=', for *)
(* white space and for every other character.  Bytes are 0..255.           *)
(***************************************************************************)
EXTENDS Integers, Sequences, FiniteSets, SequencesExt

CONSTANTS
    Codes,          \* device codes the generator may draw
    TokenTtl,       \* lifetime of an issued token (3600 s in the code)
    expires_in,     \* lifetime of a device code (600 s in the code)
    MaxNow,         \* bound: the clock
    MaxTokens,      \* bound: tokens issued
    Policies,       \* the auth policies to explore
    Nobody          \* no header, no credential, no session

\* A session is [issued, approved].
ASSUME AccessAssumption ==
    /\ TokenTtl \in Nat /\ expires_in \in Nat
    /\ Nobody \notin [issued : Nat, approved : BOOLEAN]
    /\ \A p \in Policies : p.basic # Nobody => p.basic \in Seq(Nat) \X Seq(Nat)

VARIABLES
    policy,         \* AppState::auth
    now,            \* now_secs()
    tokens,         \* TokenStore: [exp, from], by order of issue
    sessions        \* DeviceCodeStore: code -> [issued, approved] or Nobody

accessVars == <<policy, now, tokens, sessions>>

-----------------------------------------------------------------------------
(* The header.                                                             *)

Pad == 64
Blank == 65
Other == 66
Failed == Nobody

\* Groups of four digits; the padding of a group says how many bytes it drops.
Group(g) ==
    LET v == [i \in 1..4 |-> IF g[i] = Pad THEN 0 ELSE g[i]]
        triple == v[1] * 262144 + v[2] * 4096 + v[3] * 64 + v[4]
        pads == Cardinality({i \in 1..4 : g[i] = Pad})
    IN <<triple \div 65536>> \o (IF pads < 2 THEN <<(triple \div 256) % 256>> ELSE << >>)
                             \o (IF pads < 1 THEN <<triple % 256>> ELSE << >>)
b64_decode(digits) ==
    LET s == SelectSeq(digits, LAMBDA d : d # Blank) IN
    IF Contains(s, Other) \/ Len(s) % 4 # 0 THEN Failed
    ELSE FlattenSeq([k \in 1..(Len(s) \div 4) |-> Group(SubSeq(s, 4 * k - 3, 4 * k))])

\* The first colon separates the name from the password.
Colon == 58
splits_at_last_colon(h) ==
    LET s == b64_decode(h.digits) IN
    IF h.scheme # "Basic" \/ s = Failed THEN Failed
    ELSE IF ~Contains(s, Colon) \/ \E i \in DOMAIN s : s[i] > 127 THEN Failed
    ELSE LET at == CHOOSE i \in DOMAIN s : s[i] = Colon /\ \A k \in (i + 1)..Len(s) : s[k] # Colon
         IN <<SubSeq(s, 1, at - 1), SubSeq(s, at + 1, Len(s))>>
BasicCredentials(h) ==
    IF h.scheme # "Basic" THEN Failed
    ELSE LET s == b64_decode(h.digits) IN
         IF s = Failed THEN Failed
         ELSE IF ~Contains(s, Colon) \/ \E i \in DOMAIN s : s[i] > 127 THEN Failed
         ELSE LET at == CHOOSE i \in DOMAIN s : s[i] = Colon /\ \A k \in 1..(i - 1) : s[k] # Colon
              IN <<SubSeq(s, 1, at - 1), SubSeq(s, at + 1, Len(s))>>
BearerToken(h) == IF h.scheme = "Bearer" THEN <<h.token>> ELSE Failed
constant_time_eq(a, b) == Len(a) = Len(b) /\ \A i \in DOMAIN a : a[i] = b[i]
matches(c, user, pass) == constant_time_eq(c[1], user) /\ constant_time_eq(c[2], pass)

\* A policy is [kind, bearer, basic]; bearer and basic are Nobody when unset.
Judged(parsed, right) == IF parsed = Failed THEN "BadScheme" ELSE IF right THEN "Authenticated" ELSE "BadCredentials"
check(p, h) ==
    IF p.kind = "open" THEN "Open"
    ELSE IF h = Nobody THEN "Missing"
    ELSE LET bearer == BearerToken(h)  basic == BasicCredentials(h) IN
         IF p.bearer # Nobody /\ bearer # Failed THEN Judged(bearer, bearer[1] = p.bearer)
         ELSE IF p.basic # Nobody /\ basic # Failed THEN Judged(basic, matches(basic, p.basic[1], p.basic[2]))
         ELSE "BadScheme"

-----------------------------------------------------------------------------
(* The routes.  The specification's operations are [path, method,          *)
(* security]; security is Nobody or a sequence of alternatives, each a set *)
(* of schemes, or "malformed" when it is no object.                        *)

Methods == {"GET", "POST", "PUT", "PATCH", "DELETE", "HEAD", "OPTIONS"}
parse_security_array(a) == SelectSeq(a, LAMBDA alt : alt.object)
from_spec(ops) ==
    {[path |-> o.path, method |-> o.method,
      alternatives |-> IF o.security = Nobody THEN << >> ELSE parse_security_array(o.security)] :
        o \in {x \in ops : x.method \in Methods}}
is_public(r) == r.alternatives = << >> \/ \E i \in DOMAIN r.alternatives : r.alternatives[i].schemes = {}
enforce(routes, p, req) ==
    LET declared == {r \in routes : r.path = req.path /\ r.method = req.method} IN
    IF \A r \in declared : is_public(r) THEN 200
    ELSE IF check(p, req.header) \in {"Authenticated", "Open"} THEN 200 ELSE 401

\* Server start: an address others can reach needs a token.
start(args) ==
    IF ~args.loopback /\ args.auth_token = Nobody THEN Nobody
    ELSE [auth |-> [kind |-> IF args.auth_token = Nobody THEN "open" ELSE "bearer", bearer |-> args.auth_token, basic |-> Nobody]]

\* The gRPC server (orbit-server) starts by the same rule; a request carries its
\* one token or, on a loopback address without token, anything.
serve(args) == IF ~args.loopback /\ args.auth_token = Nobody THEN Nobody ELSE [expected |-> args.auth_token]
authenticate_request(h, expected) ==
    IF expected = Nobody THEN "ok"
    ELSE IF h = Nobody THEN "missing authorization header"
    ELSE IF h.scheme # "Bearer" THEN "authorization must be Bearer scheme"
    ELSE IF ~constant_time_eq(h.token, expected) THEN "invalid bearer token" ELSE "ok"

-----------------------------------------------------------------------------
(* Tokens and device codes.                                                *)

AccessInit == policy \in Policies /\ now = 0 /\ tokens = << >> /\ sessions = [c \in Codes |-> Nobody]

tick == now < MaxNow /\ now' = now + 1 /\ UNCHANGED <<policy, tokens, sessions>>
issue(from) == Len(tokens) < MaxTokens /\ tokens' = Append(tokens, [exp |-> now + TokenTtl, from |-> from])
is_valid(t) == tokens[t].exp > now

\* The handler checks the credential again: it asks for a Basic one.
\* Faulty variant: it trusts the middleware, which has judged another scheme.
takes_any_basic(p, h) ==
    p.kind = "open" \/ (h # Nobody /\ p.basic # Nobody /\ BasicCredentials(h) # Failed)
BasicAccepted(p, h) ==
    \/ p.kind = "open"
    \/ /\ h # Nobody /\ p.basic # Nobody
       /\ LET c == BasicCredentials(h) IN c # Failed /\ matches(c, p.basic[1], p.basic[2])
credentials_basic(h) ==
    /\ BasicAccepted(policy, h) /\ issue([by |-> "basic", header |-> h])
    /\ UNCHANGED <<policy, now, sessions>>
device_init ==
    /\ \E c \in Codes : sessions[c] = Nobody /\ sessions' = [sessions EXCEPT ![c] = [issued |-> now, approved |-> FALSE]]
    /\ UNCHANGED <<policy, now, tokens>>
\* Approval does not look at the age of the code.
approve(c) ==
    /\ sessions[c] # Nobody /\ sessions' = [sessions EXCEPT ![c].approved = TRUE]
    /\ UNCHANGED <<policy, now, tokens>>
polls_without_expiry(c) ==
    IF sessions[c] = Nobody THEN "Expired"
    ELSE IF sessions[c].approved THEN "Approved" ELSE "Pending"
poll(c) ==
    IF sessions[c] = Nobody \/ now > sessions[c].issued + expires_in THEN "Expired"
    ELSE IF sessions[c].approved THEN "Approved" ELSE "Pending"
\* A code may be redeemed more than once, a token each time.
device_token(c) ==
    /\ poll(c) = "Approved" /\ issue([by |-> "code", code |-> c, issued |-> sessions[c].issued])
    /\ UNCHANGED <<policy, now, sessions>>
AccessNext(headers) ==
    \/ tick \/ device_init
    \/ \E h \in headers : credentials_basic(h)
    \/ \E c \in Codes : approve(c) \/ device_token(c)
AccessSpec(headers) == AccessInit /\ [][AccessNext(headers)]_accessVars

-----------------------------------------------------------------------------
(* Properties.                                                             *)

\* RFC 4648, as a definition to compare with: bytes to base64 digits.
Encoded(b) ==
    LET n == Len(b)
        at(i) == IF i <= n THEN b[i] ELSE 0
        Four(k) == LET t == at(3 * k - 2) * 65536 + at(3 * k - 1) * 256 + at(3 * k)
                       d == <<t \div 262144, (t \div 4096) % 64, (t \div 64) % 64, t % 64>>
                   IN [i \in 1..4 |-> IF i > 1 + n - 3 * (k - 1) THEN Pad ELSE d[i]]
    IN FlattenSeq([k \in 1..((n + 2) \div 3) |-> Four(k)])
\* Presented by a client that knows the name and the password.
HeaderOf(user, pass) == [scheme |-> "Basic", token |-> << >>, digits |-> Encoded(user \o <<Colon>> \o pass)]

\* A token given for a device code was earned: the code was approved and had not
\* expired, so the token is worthless once the code's and the token's lifetimes
\* have both passed (routes/credentials.rs: poll, issue, is_valid).
CodeTokensAreEarned ==
    \A t \in DOMAIN tokens : tokens[t].from.by = "code" =>
        /\ sessions[tokens[t].from.code] # Nobody /\ sessions[tokens[t].from.code].approved
        /\ is_valid(t) => now < tokens[t].from.issued + expires_in + TokenTtl
\* The bytes of a Basic header, in any of the forms the decoder takes, are the
\* name, a colon and the password.
Carries(h, user, pass) ==
    h # Nobody /\ h.scheme = "Basic" /\ b64_decode(h.digits) = user \o <<Colon>> \o pass
\* Decoding answers with bytes or not at all.
Decodable(headers) ==
    \A h \in headers : h # Nobody /\ h.scheme = "Basic" => b64_decode(h.digits) \in Seq(Nat) \cup {Failed}
\* Every other token was given for the expected name and password, also when a
\* colon is part of the password or the header is not in the form of RFC 4648
\* (routes/credentials.rs: credentials_basic; auth/basic.rs: parse, matches).
PasswordTokensAreEarned ==
    \A t \in DOMAIN tokens : tokens[t].from.by # "code" =>
        \/ policy.kind = "open"
        \/ policy.basic # Nobody /\ Carries(tokens[t].from.header, policy.basic[1], policy.basic[2])

\* Every token that is_valid accepts was earned, whether by a device code or by
\* a password, at whatever time the code was approved and polled
\* (routes/credentials.rs: poll, issue, credentials_basic).
TokensAreEarned == CodeTokensAreEarned /\ PasswordTokensAreEarned
=============================================================================
