------------------------------ MODULE UrlPolicy ------------------------------
(***************************************************************************)
(* UrlPolicy::check of orbit-openeo: which URLs the server itself may ask. *)
(* A href is its scheme (None when it has no "://"), whether it starts     *)
(* with a dash, and its host: an IPv4 address by its first two octets, an  *)
(* IPv6 address by its first segment, whether it is ::1 and the IPv4       *)
(* address it maps (None when it maps none), or a name by its class.       *)
(***************************************************************************)
EXTENDS Integers

None == "none"

default_policy == [allowed_schemes |-> {"https"}, deny_internal_ranges |-> TRUE]
relaxed_dev == [allowed_schemes |-> {"http", "https"}, deny_internal_ranges |-> FALSE]

\* o & mask, for a mask that keeps the upper bits of an octet or a segment.
Upper(o, low) == o - (o % low)

\* Faulty variant: it takes 172.16.0.0/12 for 172.16.0.0/16.
is_internal_v4_narrow(o) ==
    \/ o[1] \in {127, 10, 0}
    \/ o[1] = 169 /\ o[2] = 254
    \/ o[1] = 172 /\ o[2] = 16
    \/ o[1] = 192 /\ o[2] = 168
    \/ o[1] = 100 /\ Upper(o[2], 64) = 64
is_internal_v4(o) ==
    \/ o[1] \in {127, 10, 0}
    \/ o[1] = 169 /\ o[2] = 254
    \/ o[1] = 172 /\ Upper(o[2], 16) = 16
    \/ o[1] = 192 /\ o[2] = 168
    \/ o[1] = 100 /\ Upper(o[2], 64) = 64

is_internal_v6(h) ==
    \/ h.loopback
    \/ Upper(h.segment, 512) = 64512              \* fc00::/7
    \/ Upper(h.segment, 64) = 65152               \* fe80::/10
    \/ h.mapped # None /\ is_internal_v4(h.mapped)

\* What a URL's host parses to.
Octets == (0..255) \X (0..255)
MaxSegment == 65535
Hosts == [kind : {"v4"}, octets : Octets]
    \cup [kind : {"v6"}, segment : 0..MaxSegment, loopback : BOOLEAN, mapped : Octets \cup {None}]
    \cup [kind : {"name"}, class : {"public", "localhost", "internal", "local"}]

is_obvious_internal_hostname(h) == h.class \in {"localhost", "internal", "local"}

is_internal(h) ==
    CASE h.kind = "v4" -> is_internal_v4(h.octets)
      [] h.kind = "v6" -> is_internal_v6(h)
      [] h.kind = "name" -> is_obvious_internal_hostname(h)

check(policy, href) ==
    /\ ~href.dash
    /\ href.scheme # None
    /\ href.scheme \in policy.allowed_schemes
    /\ policy.deny_internal_ranges => ~is_internal(href.host)

\* Reference: the address blocks the policy names, as first and last address
\* (of the upper 16 bits), and the hosts that lie in one of them.
InternalBlocks ==
    {<<0, 255>>, <<10 * 256, 10 * 256 + 255>>, <<127 * 256, 127 * 256 + 255>>,
     <<100 * 256 + 64, 100 * 256 + 127>>, <<169 * 256 + 254, 169 * 256 + 254>>,
     <<172 * 256 + 16, 172 * 256 + 31>>, <<192 * 256 + 168, 192 * 256 + 168>>}
InBlock(o) == \E b \in InternalBlocks : b[1] <= o[1] * 256 + o[2] /\ o[1] * 256 + o[2] <= b[2]
Internal(h) ==
    CASE h.kind = "v4" -> InBlock(h.octets)
      [] h.kind = "v6" -> \/ h.loopback
                          \/ 64512 <= h.segment /\ h.segment <= 65023      \* fc00 .. fdff
                          \/ 65152 <= h.segment /\ h.segment <= 65215      \* fe80 .. febf
                          \/ h.mapped # None /\ InBlock(h.mapped)
      [] h.kind = "name" -> h.class # "public"
=============================================================================
