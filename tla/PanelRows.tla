----------------------------- MODULE PanelRows ------------------------------
(***************************************************************************)
(* One poll after the other: what the panel answers to GET users, what     *)
(* PanelClient::users makes of it, and what sync_users builds from the     *)
(* rows: the published UserTables and the listeners.  A sync is one step;  *)
(* Supervisor takes it apart, Traffic, TcpRelay and RateLimiter follow the *)
(* objects the tables name.                                                *)
(***************************************************************************)
EXTENDS Policy, Maps

CONSTANTS
  Listings,    \* row sequences the panel may send             (bound)
  MaxPort,     \* port numbers are at most this
  MaxUsers,    \* limits.max_users
  NodeMethod,  \* node.method, for rows without one
  Lower,       \* to_ascii_lowercase on the methods in use
  Supported    \* methods the codec has

NoneGiven == "none"      \* an optional field the row leaves out
NoId == 0

\* A row of the user list; an optional number that is left out is 0, but an
\* `enable` that is left out is 1 (unwrap_or(1)).
PanelUser ==
  [wellFormed : BOOLEAN, id : Nat, user_id : Nat, port : 0 .. MaxPort, password : STRING,
   mode : Int, method : DOMAIN Lower \cup {NoneGiven}, enable : Int, speed : Int,
   connector : Int, ips : Seq(IpItem), ports : Seq(PortItem)]

ASSUME RowsAssumption ==
  /\ MaxUsers \in Nat /\ MaxPort \in Nat
  /\ NodeMethod \in DOMAIN Lower
  /\ \A rs \in Listings : rs \in Seq(PanelUser)

VARIABLES
  tables,     \* the published UserTables
  active,     \* active_users: port -> fingerprint and owner of its listener
  touched,    \* ports whose listener the last sync stopped or spawned
  accepted    \* history: the rows of the last usable answer

vars == <<tables, active, touched, accepted>>

----------------------------------------------------------------------------
(* The panel's answers and PanelClient::users. *)

\* Transport, status, JSON or envelope error, or ret # 1; ret = 1 without
\* data; ret = 1 with rows.
Answers ==
  {[kind |-> "error", rows |-> << >>], [kind |-> "nodata", rows |-> << >>]}
  \cup [kind : {"rows"}, rows : Listings]

\* get_api_optional: one row that does not parse spoils the answer.
Parses(a) == a.kind # "error" /\ \A i \in DOMAIN a.rows : a.rows[i].wellFormed

IsEnabled(row) == row.enable # 0

\* unwrap_or_default, then the enabled rows.
UsersIn(a) ==
  FlattenSeq([i \in DOMAIN a.rows |-> IF IsEnabled(a.rows[i]) THEN <<a.rows[i]>> ELSE << >>])

UserId(row) == IF row.user_id = NoId THEN row.id ELSE row.user_id

WithinMaxUsers(a) == Len(UsersIn(a)) <= MaxUsers

----------------------------------------------------------------------------
(* sync_users: the tables. *)

NoTables == [auth |-> << >>, counters |-> {}, conns |-> {}, speeds |-> << >>,
             policies |-> << >>]

\* Faulty variant: the tables of the last poll are brought up to date.
NewTablesInPlace == tables

\* The tables are built from nothing.
NewTables == NoTables

AddRow(t, row) ==
  LET u == UserId(row)
      policy == FromUser(row) IN
  [auth |-> IF row.mode = 0 THEN Put(t.auth, u, row.password) ELSE t.auth,
   counters |-> t.counters \cup {u},
   conns |-> t.conns \cup {u},
   speeds |-> Put(t.speeds, u, policy.speed_limit_bps),
   policies |-> IF NeedsConnectionPolicy(policy) THEN Put(t.policies, u, policy)
                ELSE t.policies]

TablesOf(users) ==
  LET after[k \in 0 .. Len(users)] ==
        IF k = 0 THEN NewTables ELSE AddRow(after[k - 1], users[k])
  IN after[Len(users)]

----------------------------------------------------------------------------
(* sync_users: the listeners. *)

IsCarrier(row) == row.mode # 0

\* merge_carrier_users: a carrier row is kept unless its port has one.  (The
\* code keeps them in a map; with one row for each port their order is of no
\* consequence.)
KeepFirst(kept, row) ==
  IF ~IsCarrier(row) \/ \E i \in DOMAIN kept : kept[i].port = row.port THEN kept
  ELSE Append(kept, row)

MergeCarriers(users) ==
  LET kept[k \in 0 .. Len(users)] ==
        IF k = 0 THEN << >> ELSE KeepFirst(kept[k - 1], users[k])
  IN kept[Len(users)]

ListenerUsers(users) ==
  IF \E i \in DOMAIN users : IsCarrier(users[i]) THEN MergeCarriers(users) ELSE users

\* Profile::from_user
ProfileOf(row) == Lower[IF row.method = NoneGiven THEN NodeMethod ELSE row.method]
EnsureSupported(profile) == profile \in Supported

\* Faulty variant: the method as the panel spells it.
FingerprintRaw(row) ==
  [port |-> row.port, password |-> row.password, profile |-> row.method, mode |-> row.mode]

Fingerprint(row) ==
  [port |-> row.port, password |-> row.password, profile |-> ProfileOf(row), mode |-> row.mode]

\* ensure_active_user; a row with an unsupported profile is skipped.
EnsureActive(st, row) ==
  LET p == row.port
      new == [fingerprint |-> Fingerprint(row), owner |-> UserId(row)] IN
  IF ~EnsureSupported(ProfileOf(row)) THEN st
  ELSE IF p \in DOMAIN st.active /\ st.active[p].fingerprint = new.fingerprint
  THEN [st EXCEPT !.live = @ \cup {p}]
  ELSE [active |-> Put(st.active, p, new), live |-> st.live \cup {p},
        touched |-> st.touched \cup {p}]

\* The loop over the listener rows, starting from the listeners that are up.
ListenersOf(up, rows) ==
  LET after[k \in 0 .. Len(rows)] ==
        IF k = 0 THEN [active |-> up, live |-> {}, touched |-> {}]
        ELSE EnsureActive(after[k - 1], rows[k])
  IN after[Len(rows)]

Stale(st) == DOMAIN st.active \ st.live

----------------------------------------------------------------------------
(* Config::validate, as far as it concerns the rows. *)
Validate == MaxUsers >= 1 /\ EnsureSupported(Lower[NodeMethod])

Init ==
  /\ Validate
  /\ tables = NoTables /\ active = << >> /\ touched = {}
  /\ accepted = << >>

\* History: an answer is one to act on if it parses and does not enable more
\* users than the node may have.
Enabled(rs) == {i \in DOMAIN rs : rs[i].enable # 0}
Usable(a) ==
  /\ a.kind # "error" /\ \A i \in DOMAIN a.rows : a.rows[i].wellFormed
  /\ Cardinality(Enabled(a.rows)) <= MaxUsers
Observe(a) == accepted' = IF Usable(a) THEN a.rows ELSE accepted

\* The answer to a poll is not usable: sync_users returns early.
SyncFails(a) ==
  /\ ~(Parses(a) /\ WithinMaxUsers(a))
  /\ touched' = {}
  /\ Observe(a)
  /\ UNCHANGED <<tables, active>>

Sync(a) ==
  LET users == UsersIn(a)
      st == ListenersOf(active, ListenerUsers(users)) IN
  /\ Parses(a) /\ WithinMaxUsers(a)
  /\ tables' = TablesOf(users)
  /\ active' = [p \in st.live |-> st.active[p]]
  /\ touched' = st.touched \cup Stale(st)
  /\ Observe(a)

Next == \E a \in Answers : SyncFails(a) \/ Sync(a)

Spec == Init /\ [][Next]_vars

----------------------------------------------------------------------------
Row == UNION {ToSet(rs) : rs \in Listings}

\* Types of the tables and the listeners (UserTables, ActiveUser).
TypeOK ==
  LET ids == {UserId(r) : r \in Row}
      ports == {r.port : r \in Row} IN
  /\ tables.counters \subseteq ids /\ tables.conns = tables.counters
  /\ IsMap(tables.auth, tables.counters, {r.password : r \in Row})
  /\ tables.speeds \in [tables.counters -> Nat]
  /\ DOMAIN tables.policies \subseteq tables.counters
  /\ \A u \in DOMAIN tables.policies : tables.policies[u].conn_limit \in 0 .. ConnMod - 1
  /\ IsMap(active, ports, [fingerprint : {Fingerprint(r) : r \in Row}, owner : ids])
  /\ touched \subseteq ports
  /\ accepted \in Listings \cup {<< >>}

(* What the rows of the last usable answer say of a user. *)

RowsOf(rs, u) == {i \in Enabled(rs) : UserId(rs[i]) = u}
LastOf(S) == CHOOSE i \in S : \A j \in S : j <= i

\* Does an item of an address list say anything?  Does a row limit its user's
\* connections?  (A multiple of 2^32 devices becomes 0, unlimited.)
SaysIp(item) == item # Junk /\ item.prefix <= Bits(item.base.fam)
Restricted(row) ==
  \/ row.connector > 0 /\ row.connector % ConnMod # 0
  \/ \E i \in DOMAIN row.ports : row.ports[i] # Junk
  \/ \E i \in DOMAIN row.ips : SaysIp(row.ips[i])

RestrictedRows(rs, u) == {i \in RowsOf(rs, u) : Restricted(rs[i])}
KeyRows(rs, u) == {i \in RowsOf(rs, u) : rs[i].mode = 0}

\* The tables are those of the last usable answer and of nothing before it:
\* an enabled user has its counter and bucket, a user that may be told apart
\* by its uid has its key, and a policy entry is there exactly for users with
\* a connection-time limit, speed caps left aside (users, sync_users,
\* needs_connection_policy).  Of several rows for a user the last one counts,
\* but the key of an earlier row stays unless a later row gives one, and so
\* does a limit.
TablesFollowRows ==
  LET rs == accepted IN
  /\ tables.counters = {UserId(rs[i]) : i \in Enabled(rs)}
  /\ \A u \in tables.counters :
       tables.speeds[u] = SpeedLimit(rs[LastOf(RowsOf(rs, u))].speed)
  /\ DOMAIN tables.auth = {UserId(rs[i]) : i \in {j \in Enabled(rs) : rs[j].mode = 0}}
  /\ \A u \in DOMAIN tables.auth : tables.auth[u] = rs[LastOf(KeyRows(rs, u))].password
  /\ DOMAIN tables.policies = {u \in tables.counters : RestrictedRows(rs, u) # {}}

\* The row a user's policy is made from.
PolicyRow(u) == accepted[LastOf(RestrictedRows(accepted, u))]

\* The bits of an address in the V6 space, V4 addresses in the mapped block.
V6Of(ip) == IF ip.fam = "v6" THEN ip.n ELSE MappedHead * Pow2[V4Bits] + ip.n
V6Prefix(item) ==
  IF item.prefix = NoPrefix THEN V6Bits
  ELSE item.prefix + IF item.base.fam = "v4" THEN V6Bits - V4Bits ELSE 0
Bit(n, k) == (n \div Pow2[V6Bits - k]) % 2
Covers(item, ip) ==
  SaysIp(item) /\ \A k \in 1 .. V6Prefix(item) : Bit(V6Of(item.base), k) = Bit(V6Of(ip), k)

Between(item, port) ==
  item # Junk /\ port \in item.a .. item.b \cup item.b .. item.a

\* A policy forbids exactly what the lists of its row say: an address that
\* shares the prefix of an item, in either family and with an IPv4 address and
\* its mapped form being the same, and a port between the ends of an item
\* (Cidr, PortRange, parse_list).
ForbiddenExact ==
  \A u \in DOMAIN tables.policies :
    LET row == PolicyRow(u)
        p == tables.policies[u] IN
    /\ \A ip \in IpAddr :
         IpForbidden(p, ip) <=> \E i \in DOMAIN row.ips : Covers(row.ips[i], ip)
    /\ \A port \in 0 .. MaxPort :
         PortForbidden(p, port) <=>
           \E i \in DOMAIN row.ports : Between(row.ports[i], port)

\* Limits keep their value as long as it fits: no positive limit becomes
\* "unlimited", no negative one a limit (from_user, sync_users).  Users with
\* several rows have those of TablesFollowRows.
DeviceLimit(u) ==
  IF u \in DOMAIN tables.policies THEN tables.policies[u].conn_limit ELSE 0

LimitsExact ==
  \A i \in Enabled(accepted) :
    LET row == accepted[i]
        u == UserId(row) IN
    RowsOf(accepted, u) = {i} =>
      /\ row.connector < ConnMod =>
           DeviceLimit(u) = IF row.connector > 0 THEN row.connector ELSE 0
      /\ row.speed >= Mbit => tables.speeds[u] > 0
      /\ row.speed <= 0 => tables.speeds[u] = 0

\* What a session is held to is what the panel's row of its user says: what
\* it forbids and nothing else, and its limits (UserPolicy::from_user).
PoliciesExact == ForbiddenExact /\ LimitsExact

\* The endpoint the rows call for on port p.
EndpointRows(rs, p) ==
  LET carriers == {i \in Enabled(rs) : rs[i].mode # 0} IN
  {i \in Enabled(rs) :
     /\ rs[i].port = p
     /\ carriers # {} => i \in carriers /\ \A j \in carriers : j < i => rs[j].port # p}
Endpoints(rs, p) == {<<rs[i].password, ProfileOf(rs[i]), rs[i].mode>> : i \in EndpointRows(rs, p)}

\* Adding, removing or changing users, their limits, forbidden lists and
\* speeds, or spelling a method differently, disturbs no listener: one whose
\* endpoint stays the same is neither stopped nor spawned (supervisor.rs:25;
\* policy.rs:134 and README.md:23 name changed policies and users as what
\* restarts a listener, which this excludes).  (Plain users that share a
\* port and differ are not covered: they replace each other's listener.)
UserChangesAreSilent ==
  [][\A p \in DOMAIN active :
       /\ Endpoints(accepted, p) = Endpoints(accepted', p)
       /\ Cardinality(Endpoints(accepted, p)) = 1
       => p \notin touched' /\ active'[p] = active[p]]_vars
=============================================================================
