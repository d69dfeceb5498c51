------------------------------ MODULE TcpRelay ------------------------------
(***************************************************************************)
(* One TCP listener and its sessions (tcp.rs), the device limit they       *)
(* enforce (ConnLedger, UserIpSet and ConnGuard of traffic.rs) and the     *)
(* part of sync_users that hands out IP sets and policies.                 *)
(*                                                                         *)
(* A session works from the tables it saw when it was accepted: a sync may *)
(* change a policy, or drop the user and list it again with a new IP set,  *)
(* at any of its awaits.  So IP sets have identities: the g-th UserIpSet   *)
(* created for user u is ips[u][g].  Sessions run on a thread pool: two of *)
(* them may be inside handle_stream at once, each lock is a step.          *)
(***************************************************************************)
EXTENDS Naturals, FiniteSets, Functions, Maps

CONSTANTS
  User,              \* user ids
  IP,                \* client addresses (devices)
  Session,           \* connections
  Addr,              \* addresses a target may resolve to
  Port,              \* target ports
  Policy,            \* policies the panel may send, as UserPolicy parses them
  MaxAccepts,        \* limits.max_accepts_per_port
  EnforceForbidden,  \* node.enforce_forbidden
  EnforceConnLimit,  \* node.enforce_conn_limit
  MaxGen             \* IP sets created per user (bound)

UserPolicy == [conn_limit : Nat, forbidden_ips : SUBSET Addr, forbidden_ports : SUBSET Port]

ASSUME RelayAssumption ==
  /\ Policy \subseteq UserPolicy
  /\ MaxAccepts \in Nat \ {0}      \* spawn_user_listener takes max_accepts.max(1)
  /\ MaxGen \in Nat
  /\ EnforceForbidden \in BOOLEAN
  /\ EnforceConnLimit \in BOOLEAN

VARIABLES
  sets,      \* ConnLedger.state: user -> number of its UserIpSet
  created,   \* how many IP sets each user has had
  ips,       \* every IP set: address -> number of guards on it
  tables,    \* published UserTables: conns_by_user and policies
  pc, live,  \* sync_users: between send_replace and remove_stale_users
  permits,   \* free permits of the listener's semaphore
  context,   \* session -> its StreamContext: tables snapshot and peer_ip
  admitted,  \* session -> user, IP set and target port, once past the limit
  guards,    \* session -> IP set and address of its ConnGuard, if it has one
  candidates,\* session -> allowed addresses it has still to try
  remote,    \* session -> the address it is connected to
  peak       \* history: highest conn_limit published for each IP set

syncVars == <<sets, created, tables, pc, live, peak>>
sessVars == <<context, admitted, guards, candidates, remote>>
vars == <<syncVars, ips, permits, sessVars>>

----------------------------------------------------------------------------
Gen == 1 .. MaxGen
IpSetId == [user : User, gen : Gen]

Empty == << >>
NoPolicy == [conn_limit |-> 0, forbidden_ips |-> {}, forbidden_ports |-> {}]

\* needs_connection_policy: only these users have an entry in the table.
NeedsConnectionPolicy(p) ==
  p.conn_limit > 0 \/ p.forbidden_ips # {} \/ p.forbidden_ports # {}

PolicyOf(t, u) == IF u \in DOMAIN t.policies THEN t.policies[u] ELSE NoPolicy

Init ==
  /\ sets = Empty
  /\ created = [u \in User |-> 0]
  /\ ips = [u \in User |-> [g \in Gen |-> Empty]]
  /\ tables = [conns |-> Empty, policies |-> Empty]
  /\ pc = "idle" /\ live = {}
  /\ permits = MaxAccepts
  /\ context = Empty /\ admitted = Empty /\ guards = Empty
  /\ candidates = Empty /\ remote = Empty
  /\ peak = [u \in User |-> [g \in Gen |-> 0]]

----------------------------------------------------------------------------
(* sync_users, as far as ConnLedger and the policies go. *)

\* Faulty variant: a new IP set on every poll.
EnsureSetsAnew(us) ==
  [u \in DOMAIN sets \cup us |-> IF u \in us THEN created[u] + 1 ELSE sets[u]]

EnsureSets(us) ==
  [u \in DOMAIN sets \cup us |->
     IF u \in DOMAIN sets THEN sets[u] ELSE created[u] + 1]

\* The panel lists the users in DOMAIN listed, each with a policy.
SyncPublish(listed) ==
  LET us == DOMAIN listed IN
  /\ pc = "idle"
  /\ \A u \in us \ DOMAIN sets : created[u] < MaxGen
  /\ sets' = EnsureSets(us)
  /\ created' = [u \in User |-> IF u \in us \ DOMAIN sets
                                THEN created[u] + 1 ELSE created[u]]
  /\ tables' = [conns    |-> Restrict(EnsureSets(us), us),
                policies |-> Restrict(listed, {u \in us : NeedsConnectionPolicy(listed[u])})]
  /\ live' = us
  /\ peak' = [u \in User |-> [g \in Gen |->
                IF u \in us /\ g = EnsureSets(us)[u] /\ listed[u].conn_limit > peak[u][g]
                THEN listed[u].conn_limit ELSE peak[u][g]]]
  /\ pc' = "syncing"
  /\ UNCHANGED <<ips, permits, sessVars>>

SyncRemoveStale ==
  /\ pc = "syncing"
  /\ sets' = Restrict(sets, DOMAIN sets \cap live)
  /\ pc' = "idle"
  /\ UNCHANGED <<created, ips, tables, live, permits, sessVars, peak>>

----------------------------------------------------------------------------
(* ConnGuard. *)

IPs(c) == ips[c.user][c.gen]

\* Faulty variant: off by one at the limit.
MayAcquireOneMore(c, ip, limit) ==
  ip \in DOMAIN IPs(c) \/ limit = 0 \/ Cardinality(DOMAIN IPs(c)) <= limit

\* acquire refuses an address that is new when the set is at its limit.
MayAcquire(c, ip, limit) ==
  ip \in DOMAIN IPs(c) \/ limit = 0 \/ Cardinality(DOMAIN IPs(c)) < limit

OneMore(m, ip) == Put(m, ip, IF ip \in DOMAIN m THEN m[ip] + 1 ELSE 1)

Acquired(c, ip) == [ips EXCEPT ![c.user][c.gen] = OneMore(@, ip)]

\* Faulty variants: the address stays with a count of 0; the guard is leaked.
ReleasedToZero(c, ip) ==
  [ips EXCEPT ![c.user][c.gen] =
     IF ip \notin DOMAIN @ THEN @ ELSE [@ EXCEPT ![ip] = @ - 1]]

ReleasedNever(c, ip) == ips

\* Drop for ConnGuard: the address leaves the set with its last connection.
OneLess(m, ip) ==
  IF ip \notin DOMAIN m THEN m
  ELSE IF m[ip] = 1 THEN Without(m, ip) ELSE [m EXCEPT ![ip] = @ - 1]

Released(c, ip) == [ips EXCEPT ![c.user][c.gen] = OneLess(@, ip)]

----------------------------------------------------------------------------
(* run_listener and handle_stream. *)

\* A connection is accepted if a permit is free, and snapshots the tables.
\* Without a permit it is closed at once, which changes nothing.
Accept(s, ip) ==
  /\ s \notin DOMAIN context
  /\ permits > 0
  /\ permits' = permits - 1
  /\ context' = Put(context, s, [tables |-> tables, ip |-> ip])
  /\ UNCHANGED <<syncVars, ips, admitted, guards, candidates, remote>>

\* Every way out of handle_stream drops the guard, if any, and the permit.
End(s) ==
  /\ ips' = IF s \in DOMAIN guards THEN Released(guards[s].set, guards[s].ip) ELSE ips
  /\ context' = Without(context, s)
  /\ admitted' = Without(admitted, s)
  /\ guards' = Without(guards, s)
  /\ candidates' = Without(candidates, s)
  /\ remote' = Without(remote, s)
  /\ permits' = permits + 1
  /\ UNCHANGED syncVars

\* Client gone, bad handshake, audit block, forbidden port, failed lookup or
\* connect, idle time-out, end of stream.
Close(s) == s \in DOMAIN context /\ End(s)

\* Is the device limit enforced for policy p?
Limited(p) == EnforceConnLimit /\ p.conn_limit > 0

\* The handshake of s is complete for user u (the uid of the auth header, or
\* the listener's own user) and u has an entry in the snapshot.
Authenticated(s, u) ==
  /\ s \in DOMAIN context \ DOMAIN admitted
  /\ u \in DOMAIN context[s].tables.conns

SetOf(s, u) == [user |-> u, gen |-> context[s].tables.conns[u]]

\* The device limit lets the session in; it is reported and goes on to connect.
Admit(s, u, port) ==
  LET p == PolicyOf(context[s].tables, u)
      c == SetOf(s, u)
      ip == context[s].ip IN
  /\ Authenticated(s, u)
  /\ \/ /\ Limited(p)
        /\ MayAcquire(c, ip, p.conn_limit)
        /\ ips' = Acquired(c, ip)
        /\ guards' = Put(guards, s, [set |-> c, ip |-> ip])
     \/ /\ ~Limited(p)
        /\ UNCHANGED <<ips, guards>>
  /\ admitted' = Put(admitted, s, [set |-> c, port |-> port])
  /\ UNCHANGED <<syncVars, permits, context, candidates, remote>>

\* "ip/device limit reached; dropping".
Refuse(s, u) ==
  LET p == PolicyOf(context[s].tables, u) IN
  /\ Authenticated(s, u)
  /\ Limited(p)
  /\ ~MayAcquire(SetOf(s, u), context[s].ip, p.conn_limit)
  /\ End(s)

----------------------------------------------------------------------------
(* connect_target_checked. *)

\* s has been admitted and has no connection to its target yet.
Connecting(s) == s \in DOMAIN admitted \ (DOMAIN candidates \cup DOMAIN remote)

PolicyFor(s) == PolicyOf(context[s].tables, admitted[s].set.user)

PortForbidden(s) == EnforceForbidden /\ admitted[s].port \in PolicyFor(s).forbidden_ports

IpCheck(s) == EnforceForbidden /\ PolicyFor(s).forbidden_ips # {}

\* No forbidden addresses: connect resolves the name itself.
ConnectUnchecked(s, a) ==
  /\ Connecting(s)
  /\ ~PortForbidden(s) /\ ~IpCheck(s)
  /\ remote' = Put(remote, s, a)
  /\ UNCHANGED <<syncVars, ips, permits, context, admitted, guards, candidates>>

Allowed(s, resolved) == {a \in resolved : a \notin PolicyFor(s).forbidden_ips}

\* lookup_host answers; the answer may differ from one call to the next.  An
\* answer without an allowed address ends the session (Close).
Resolve(s, resolved) ==
  /\ Connecting(s)
  /\ ~PortForbidden(s) /\ IpCheck(s)
  /\ Allowed(s, resolved) # {}
  /\ candidates' = Put(candidates, s, Allowed(s, resolved))
  /\ UNCHANGED <<syncVars, ips, permits, context, admitted, guards, remote>>

\* Faulty variant: connect resolves the name again.
DialTargetsResolvedAgain(s) == Addr

\* The addresses the next connect may reach.
DialTargets(s) == candidates[s]

\* The next allowed address refuses, and there is another one.
ConnectFails(s, a) ==
  /\ s \in DOMAIN candidates \ DOMAIN remote
  /\ a \in DialTargets(s) /\ DialTargets(s) # {a}
  /\ candidates' = [candidates EXCEPT ![s] = @ \ {a}]
  /\ UNCHANGED <<syncVars, ips, permits, context, admitted, guards, remote>>

ConnectChecked(s, a) ==
  /\ s \in DOMAIN candidates \ DOMAIN remote
  /\ a \in DialTargets(s)
  /\ remote' = Put(remote, s, a)
  /\ UNCHANGED <<syncVars, ips, permits, context, admitted, guards, candidates>>

----------------------------------------------------------------------------
Listed == UNION {[us -> Policy] : us \in SUBSET User}

SessionStep(s) ==
  \/ \E ip \in IP : Accept(s, ip)
  \/ \E u \in User : Refuse(s, u) \/ \E port \in Port : Admit(s, u, port)
  \/ \E a \in Addr : ConnectUnchecked(s, a) \/ ConnectFails(s, a) \/ ConnectChecked(s, a)
  \/ \E resolved \in SUBSET Addr : Resolve(s, resolved)
  \/ Close(s)

Next ==
  \/ \E listed \in Listed : SyncPublish(listed)
  \/ SyncRemoveStale
  \/ \E s \in Session : SessionStep(s)

Spec == Init /\ [][Next]_vars

----------------------------------------------------------------------------
\* Types: an address in an IP set has at least one guard, and only admitted
\* sessions hold guards and connections (UserIpSet, StreamContext).
TypeOK ==
  /\ IsMap(sets, User, Gen)
  /\ created \in [User -> 0 .. MaxGen]
  /\ \A u \in User, g \in Gen : IsMap(ips[u][g], IP, Nat \ {0})
  /\ IsMap(tables.conns, User, Gen) /\ IsMap(tables.policies, User, Policy)
  /\ pc \in {"idle", "syncing"} /\ live \subseteq User
  /\ permits \in 0 .. MaxAccepts
  /\ DOMAIN context \subseteq Session
  /\ \A s \in DOMAIN context :
       /\ context[s].ip \in IP
       /\ IsMap(context[s].tables.conns, User, Gen)
       /\ IsMap(context[s].tables.policies, User, Policy)
  /\ IsMap(admitted, DOMAIN context, [set : IpSetId, port : Port])
  /\ IsMap(guards, DOMAIN admitted, [set : IpSetId, ip : IP])
  /\ IsMap(candidates, DOMAIN admitted, SUBSET Addr)
  /\ IsMap(remote, DOMAIN admitted, Addr)
  /\ peak \in [User -> [Gen -> Nat]]

\* Every guard is counted once and every count is a guard: an address is in
\* an IP set exactly while some session holds a guard on it, however sessions
\* of several devices come and go and whatever happens to their user, and
\* every free permit is one no session holds (RAII of ConnGuard and _permit on
\* every way out of handle_stream).
Holders(u, g, ip) ==
  {s \in DOMAIN guards : guards[s] = [set |-> [user |-> u, gen |-> g], ip |-> ip]}

NothingLeaks ==
  /\ \A u \in User, g \in Gen, ip \in IP :
       Cardinality(Holders(u, g, ip)) =
         IF ip \in DOMAIN ips[u][g] THEN ips[u][g][ip] ELSE 0
  /\ permits + Cardinality(DOMAIN context) = MaxAccepts

\* The devices counted in one IP set never exceed the largest node_connector
\* ever published with it, although sessions decide with the limit of their
\* own, possibly stale, snapshot (ConnGuard::acquire: check and insert under
\* one lock).
DeviceCap ==
  \A u \in User, g \in Gen : Cardinality(DOMAIN ips[u][g]) <= peak[u][g]

\* A session only ever talks to an address its policy allows, on an allowed
\* port, even when the name resolves differently at the next lookup
\* (connect_target_checked connects to the addresses it checked).
ForbiddenNeverReached ==
  \A s \in DOMAIN remote : EnforceForbidden =>
    /\ remote[s] \notin PolicyFor(s).forbidden_ips
    /\ admitted[s].port \notin PolicyFor(s).forbidden_ports

\* "The sets persist across panel polls (a re-sync that does not change a user
\* must not reset their live IPs)": a user that stays listed keeps its set,
\* and a poll never touches the addresses in one (ConnLedger::ensure_user,
\* remove_stale_users).
SetsPersist ==
  [][/\ \A u \in DOMAIN sets \cap DOMAIN sets' : sets'[u] = sets[u]
     /\ pc' # pc => ips' = ips]_vars

\* "Max distinct client IPs (devices) connected at once": a session let in
\* under a limit comes from a device that was connected already, or the user
\* has no more devices than the limit allows (conn_limit of UserPolicy).
Devices(u) == {context[s].ip : s \in {t \in DOMAIN admitted : admitted[t].set.user = u}}

NewDeviceWithinLimit ==
  [][\A s \in DOMAIN guards' \ DOMAIN guards :
       LET u == admitted'[s].set.user IN
       \/ context[s].ip \in Devices(u)
       \/ Cardinality(Devices(u)) < PolicyOf(context[s].tables, u).conn_limit]_vars
=============================================================================
