------------------------------- MODULE Requests -------------------------------
(***************************************************************************)
(* What the remaining routes do with a request: user files in the two file *)
(* stores (file_store.rs, routes/files.rs), user-defined processes         *)
(* (udp_store.rs, routes/process_graphs.rs), the answers to a graph that   *)
(* is validated, submitted or computed at once, and the dates in answers.  *)
(*                                                                         *)
(* Both file stores are run side by side on the same calls.  User ids and  *)
(* paths are sequences of ASCII codes; a user id holds no slash.  A path   *)
(* may: the router takes one URL segment and decodes it, %2F included.     *)
(* The disk is a LocalFileSystem, a tree of directories.                   *)
(***************************************************************************)
EXTENDS Integers, Sequences, FiniteSets, SequencesExt, Functions

CONSTANTS
    Users,      \* user ids
    Paths,      \* paths asked for
    Contents,   \* file contents
    UdpIds,     \* ids of user-defined processes
    MaxRequests,\* bound: requests of one behaviour
    Gone        \* no entry

VARIABLES
    mem,        \* InMemoryFileStore: (user, path) -> content
    disk,       \* ObjectStoreBackend on disk: location -> content
    made,       \* the locations ever written there: their directories stay
    refused,    \* the keys in memory whose put the disk answered with an error
    udps,       \* UdpStore: id -> body or Gone
    handled     \* requests handled

fileVars == <<mem, disk, made, refused>>
requestVars == <<fileVars, udps, handled>>

-----------------------------------------------------------------------------
(* Paths.                                                                  *)

Slash == 47
Percent == 37
Backslash == 92
Digit(c) == CASE c \in 48..57 -> c - 48 [] c \in 65..70 -> c - 55 [] c \in 97..102 -> c - 87 [] OTHER -> -1
percent_decode_once(s) ==
    LET rest[i \in 1..(Len(s) + 3)] ==
            IF i > Len(s) THEN << >>
            ELSE IF s[i] = Percent /\ i + 2 <= Len(s)
                 THEN LET hi == Digit(s[i + 1])  lo == Digit(s[i + 2]) IN
                      IF hi >= 0 /\ lo >= 0 THEN <<16 * hi + lo>> \o rest[i + 3] ELSE <<s[i]>> \o rest[i + 1]
                 ELSE <<s[i]>> \o rest[i + 1]
        out == rest[1]
    IN IF \E i \in DOMAIN out : out[i] > 127 THEN <<Backslash>> ELSE out   \* not UTF-8: a marker that is refused
Pieces(s) ==
    LET cuts == {0, Len(s) + 1} \cup {i \in DOMAIN s : s[i] = Slash} IN
    {SubSeq(s, c[1] + 1, c[2] - 1) : c \in {d \in cuts \X cuts : d[1] < d[2] /\ \A e \in cuts : e <= d[1] \/ e >= d[2]}}
Relative == {<< >>, <<46>>, <<46, 46>>}
Letters == (65..90) \cup (97..122)
Refused == (0..31) \cup {127, Backslash, 58, 60, 62, 34, 124, 63, 42}
validate_path(p) ==
    LET t == percent_decode_once(p) IN
    /\ t # << >> /\ t[1] \notin {Slash, Backslash, 45, 126}
    /\ ~(Len(t) >= 2 /\ t[2] = 58 /\ t[1] \in Letters)
    /\ \A i \in DOMAIN t : t[i] \notin Refused
    /\ Pieces(t) \cap Relative = {}

-----------------------------------------------------------------------------
(* The file stores: what each keeps and answers.                           *)

key_to_path(u, p) == u \o <<Slash>> \o p
Prefix(u) == u \o <<Slash>>
prefix_without_slash(u, loc) == IsPrefix(u, loc)
Under(u, loc) == IsPrefix(Prefix(u), loc)
memory_list(u) == {<<k[2], mem[k]>> : k \in {x \in DOMAIN mem : x[1] = u}}
object_list(u) ==
    {<<SubSeq(loc, Len(Prefix(u)) + 1, Len(loc)), disk[loc]>> : loc \in {l \in DOMAIN disk : Under(u, l)}}

\* LocalFileSystem: a location is a file or a directory, never both.  A name
\* ending in # and digits is kept for its staging files.
Hash == 35
Below(loc, dir) == IsPrefix(dir \o <<Slash>>, loc)
Reserved(loc) ==
    \E i \in DOMAIN loc :
        /\ loc[i] = Hash /\ i < Len(loc) /\ \A j \in (i + 1)..Len(loc) : loc[j] \in 48..57
        /\ ~\E k \in 1..(i - 1) : loc[k] = Hash /\ \A m \in k..i : loc[m] # Slash
UnderFile(loc) == \E f \in DOMAIN disk : Below(loc, f)
IsDir(loc) == \E l \in made : Below(l, loc)
local_put_fails(loc) == Reserved(loc) \/ UnderFile(loc) \/ IsDir(loc)

\* The answer to a GET of a valid path (any other gets 400 from both).
memory_get(u, p) == IF <<u, p>> \in DOMAIN mem THEN 200 ELSE 404
object_get(u, p) ==
    LET loc == key_to_path(u, p) IN
    IF Reserved(loc) \/ UnderFile(loc) THEN 500        \* Io: no such name, not a directory
    ELSE IF loc \in DOMAIN disk THEN 200 ELSE 404      \* a directory is NotFound

Put(f, k, c) == [x \in DOMAIN f \cup {k} |-> IF x = k THEN c ELSE f[x]]
one == handled < MaxRequests /\ handled' = handled + 1
upload_file(u, p, c) ==
    LET loc == key_to_path(u, p) IN
    /\ one /\ validate_path(p)
    /\ mem' = Put(mem, <<u, p>>, c)
    /\ \/ ~local_put_fails(loc) /\ disk' = Put(disk, loc, c) /\ made' = made \cup {loc} /\ refused' = refused \ {<<u, p>>}
       \/ local_put_fails(loc) /\ UNCHANGED <<disk, made>> /\ refused' = refused \cup {<<u, p>>}
    /\ UNCHANGED udps
\* Deleting a file that is not there is no error in either store, a directory
\* or a name below a file is one on disk and changes nothing there.
delete_file(u, p) ==
    /\ one /\ validate_path(p)
    /\ mem' = Restrict(mem, DOMAIN mem \ {<<u, p>>}) /\ disk' = Restrict(disk, DOMAIN disk \ {key_to_path(u, p)})
    /\ refused' = refused \ {<<u, p>>} /\ UNCHANGED <<made, udps>>

-----------------------------------------------------------------------------
(* User-defined processes.  A body is [id, graph, summary, extra].         *)

udp_put(i, body) == [body EXCEPT !.id = i]
store(i, body) ==
    /\ one /\ body.graph = "object"
    /\ udps' = [udps EXCEPT ![i] = udp_put(i, body)] /\ UNCHANGED fileVars
remove(i) ==
    /\ one /\ udps[i] # Gone
    /\ udps' = [udps EXCEPT ![i] = Gone] /\ UNCHANGED fileVars
list_summaries == {[id |-> i, summary |-> udps[i].summary] : i \in {x \in UdpIds : udps[x] # Gone}}

RequestInit ==
    /\ mem = << >> /\ disk = << >> /\ made = {} /\ refused = {} /\ handled = 0 /\ udps = [i \in UdpIds |-> Gone]
RequestNext(bodies) ==
    \/ \E u \in Users, p \in Paths : delete_file(u, p) \/ \E c \in Contents : upload_file(u, p, c)
    \/ \E i \in UdpIds : remove(i) \/ \E b \in bodies : store(i, b)
RequestSpec(bodies) == RequestInit /\ [][RequestNext(bodies)]_requestVars

-----------------------------------------------------------------------------
(* Graphs: POST /validation and POST /jobs on one body [graph, where,      *)
(* analysis, unsupported, errors].                                         *)

\* The first of the two schemas that was compiled judges the body.
SchemaErrors(body, compiled) == IF compiled = {} THEN {} ELSE body.errors
validation(body, compiled) ==
    {<<"ValidationError", e>> : e \in SchemaErrors(body, compiled)}
    \cup {<<"ProcessUnsupported", p>> : p \in body.unsupported}
create_job(body) ==
    IF body.where # "process" THEN <<400, "ProcessGraphMissing">>
    ELSE IF body.graph # "nodes" \/ body.analysis # "ok" THEN <<400, "ProcessGraphInvalid">>
    ELSE IF body.unsupported # {} THEN <<400, "ProcessUnsupported">>
    ELSE <<201, "created">>

-----------------------------------------------------------------------------
(* Dates.  days_to_ymd turns days since 1970-01-01 into <<y, m, d>>.       *)

FromEra(z) ==
    LET era == z \div 146097
        doe == z - era * 146097
        yoe == (doe - doe \div 1460 + doe \div 36524 - doe \div 146096) \div 365
        doy == doe - (365 * yoe + yoe \div 4 - yoe \div 100)
        mp == (5 * doy + 2) \div 153
        m == IF mp < 10 THEN mp + 3 ELSE mp - 9
    IN <<yoe + era * 400 + (IF m <= 2 THEN 1 ELSE 0), m, doy - (153 * mp + 2) \div 5 + 1>>
days_to_ymd(z) == FromEra(z + 719468)

\* The Gregorian calendar, one day after another.
Leap(y) == y % 4 = 0 /\ (y % 100 # 0 \/ y % 400 = 0)
MonthDays(y, m) == IF m = 2 THEN (IF Leap(y) THEN 29 ELSE 28) ELSE IF m \in {4, 6, 9, 11} THEN 30 ELSE 31
NextDay(d) ==
    IF d[3] < MonthDays(d[1], d[2]) THEN <<d[1], d[2], d[3] + 1>>
    ELSE IF d[2] < 12 THEN <<d[1], d[2] + 1, 1>> ELSE <<d[1] + 1, 1, 1>>

-----------------------------------------------------------------------------
(* Properties.                                                             *)

ValidPaths == {p \in Paths : validate_path(p)}
\* A name the disk reserves, or one above or below a name it once held.
Clashes(loc) == Reserved(loc) \/ \E l \in made : Below(l, loc) \/ Below(loc, l)

\* Both file stores keep the same files: for every user, the listing of the
\* object store and of the in-memory store agree on paths and contents, and a
\* file that one of them can read the other can read too.  The exceptions are
\* the names a disk cannot hold beside what it held: a path with another one
\* above or below it ("a" and "a/b"; a directory stays when its files are
\* deleted) or a reserved one.  Their put fails on disk only.  A stored process
\* carries the id it is stored under (file_store.rs, udp_store.rs).
StoresAgree ==
    /\ \A u \in Users : object_list(u) = {e \in memory_list(u) : <<u, e[1]>> \notin refused}
    /\ \A u \in Users, p \in ValidPaths :
           \/ object_get(u, p) = memory_get(u, p)
           \/ Clashes(key_to_path(u, p)) /\ (<<u, p>> \in refused \/ <<404, 500>> = <<memory_get(u, p), object_get(u, p)>>)
    /\ \A k \in refused : Clashes(key_to_path(k[1], k[2]))
    /\ {r.id : r \in list_summaries} = {udps[i].id : i \in {x \in UdpIds : udps[x] # Gone}}
\* A path that is accepted names one file below the user's directory, as it is
\* written and decoded once (file_store.rs: validate_path, percent_decode_once).
PathNamesOneFile(p) ==
    validate_path(p) => Pieces(p) \cap Relative = {} /\ Pieces(percent_decode_once(p)) \cap Relative = {}
\* Consecutive days get consecutive dates, from 1970-01-01 on
\* (job_store.rs and provenance.rs: days_to_ymd).
DatesAreCivil(z) == days_to_ymd(0) = <<1970, 1, 1>> /\ days_to_ymd(z + 1) = NextDay(days_to_ymd(z))
=============================================================================
