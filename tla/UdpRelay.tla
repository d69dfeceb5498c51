------------------------------ MODULE UdpRelay ------------------------------
(***************************************************************************)
(* One UDP listener (udp.rs): its loop, the associations it keeps in a     *)
(* BoundedTtlMap and the response pumps they own.                          *)
(*                                                                         *)
(* The loop handles one datagram at a time and awaits while it does: time  *)
(* passes, tables are published and pumps run between its steps.           *)
(***************************************************************************)
EXTENDS BoundedTtlMap, Sequences

CONSTANTS
  User,             \* user ids; Owner is the listener's own user
  Owner,
  Carrier,          \* users with is_multi_user # 0: auth_users leaves them out
  Key,              \* keys: md5(password) of a user, or Master
  Master,           \* the key of the port
  Peer,             \* client addresses
  Addr, Port,       \* of targets
  Policy,           \* policies the panel may send
  EnforceForbidden, \* node.enforce_forbidden
  Ttl,              \* limits.udp_association_ttl
  MaxAssociations,  \* limits.max_udp_associations
  MaxTime, MaxPumps \* bounds

ASSUME UdpAssumption ==
  /\ Owner \in User /\ Carrier \subseteq User /\ Master \in Key
  /\ Policy \subseteq [forbidden_ips : SUBSET Addr, forbidden_ports : SUBSET Port]
  /\ EnforceForbidden \in BOOLEAN
  /\ Ttl \in Nat /\ MaxTime \in Nat /\ MaxPumps \in Nat
  /\ MaxAssociations \in Nat \ {0}    \* spawn_user_listener takes max(1)

VARIABLES
  now,
  tables,   \* published UserTables: listed user -> key and policy
  pc,       \* the await the listener is in
  datagram, \* what it is handling: peer, user, response key, policy, port
  dest,     \* UdpDest: the addresses the send may reach
  associations,
  pumps,    \* every response pump spawned so far, in order
  used      \* history: when each association last forwarded a datagram

vars == <<now, tables, pc, datagram, dest, associations, pumps, used>>

----------------------------------------------------------------------------
AssociationKey == Peer \X User
Row == [key : Key, policy : Policy]
Datagram == [peer : Peer, user : User, key : Key, policy : Policy, port : Port]

Init ==
  /\ now = 0 /\ tables = << >>
  /\ pc = "recv" /\ datagram = << >> /\ dest = {}
  /\ associations = << >> /\ pumps = << >> /\ used = << >>

Tick ==
  /\ now < MaxTime /\ now' = now + 1
  /\ UNCHANGED <<tables, pc, datagram, dest, associations, pumps, used>>

\* send_replace at the end of a poll.
Publish(t) ==
  /\ tables' = t
  /\ UNCHANGED <<now, pc, datagram, dest, associations, pumps, used>>

----------------------------------------------------------------------------
(* Drop for Association: whatever makes an association leave the map aborts *)
(* its pump.                                                                *)

PumpsOf(m) == {m[k].value : k \in DOMAIN m}

\* Faulty variant: the pump is left running.
NotAborted(ps, old, new) == ps

Aborted(ps, old, new) ==
  [i \in DOMAIN ps |-> IF i \in PumpsOf(old) \ PumpsOf(new) /\ ps[i].state = "running"
                       THEN [ps[i] EXCEPT !.state = "aborted"] ELSE ps[i]]

Expire ==
  /\ associations' = EvictExpired(associations, now, Ttl)
  /\ pumps' = Aborted(pumps, associations, associations')

\* A datagram that is dropped at once: bad HMAC, unknown user, no address in
\* it, or a forbidden port.
ReceiveDropped ==
  /\ pc = "recv"
  /\ Expire
  /\ UNCHANGED <<now, tables, pc, datagram, dest, used>>

\* udp_server_post_decrypt, and the key of the answers: a user of the auth
\* table, the owner too if it is there, proves its own; a datagram of nobody in
\* the table is the owner's and is answered with the port's key.
Authenticated(u, k) ==
  /\ u \in DOMAIN tables
  /\ \/ u \notin Carrier /\ k = tables[u].key
     \/ u = Owner /\ k = Master

PortForbidden(policy, port) == EnforceForbidden /\ port \in policy.forbidden_ports

Receive(peer, u, k, port) ==
  /\ pc = "recv"
  /\ Expire
  /\ Authenticated(u, k)
  /\ ~PortForbidden(tables[u].policy, port)
  /\ datagram' = [peer |-> peer, user |-> u, key |-> k, policy |-> tables[u].policy, port |-> port]
  /\ pc' = "resolving"
  /\ UNCHANGED <<now, tables, dest, used>>

----------------------------------------------------------------------------
(* resolve_udp_dest, and the choice of the outbound socket. *)

IpCheck == EnforceForbidden /\ datagram.policy.forbidden_ips # {}

\* Faulty variant: the first address is taken as it comes.
AnyAddress(resolved) == resolved

Allowed(resolved) == resolved \ datagram.policy.forbidden_ips

\* A checked lookup yields the first allowed address; without a check the send
\* resolves the name itself.
Dests(resolved) == IF IpCheck THEN {{a} : a \in Allowed(resolved)} ELSE {Addr}

ThisKey == <<datagram.peer, datagram.user>>

Resolve(resolved) ==
  /\ pc = "resolving"
  /\ dest' \in Dests(resolved)
  /\ associations' = Touch(associations, ThisKey, now)
  /\ IF ThisKey \in DOMAIN associations
     THEN pc' = "sending" /\ used' = Put(used, ThisKey, now)
     ELSE pc' = "opening" /\ UNCHANGED used
  /\ UNCHANGED <<now, tables, datagram, pumps>>

\* Back to the loop: the datagram is dropped, or it has been sent.
Finish ==
  /\ pc' = "recv" /\ datagram' = << >> /\ dest' = {}
  /\ UNCHANGED <<now, tables, associations, pumps, used>>

\* The lookup fails or every address is forbidden.
Unresolved == pc = "resolving" /\ IpCheck /\ Finish

\* A new association: its outbound socket, its pump, its place in the map.
NewPump == [peer |-> datagram.peer, user |-> datagram.user, key |-> datagram.key,
            state |-> "running"]

Open ==
  /\ pc = "opening" /\ Len(pumps) < MaxPumps
  /\ associations' \in Inserts(associations, ThisKey, Len(pumps) + 1, now, Ttl, MaxAssociations)
  /\ pumps' = Append(Aborted(pumps, associations, associations'), NewPump)
  /\ used' = Put(used, ThisKey, now)
  /\ pc' = "sending"
  /\ UNCHANGED <<now, tables, datagram, dest>>

OpenFails == pc = "opening" /\ Finish

Send == pc = "sending" /\ Finish

\* The stop channel is only looked at between datagrams; leaving the loop
\* drops every association.
Stop ==
  /\ pc = "recv" /\ pc' = "stopped"
  /\ associations' = << >>
  /\ pumps' = Aborted(pumps, associations, << >>)
  /\ UNCHANGED <<now, tables, datagram, dest, used>>

\* spawn_response_pump: a pump that cannot read from its socket, or send to the
\* client, ends; nobody is told.
PumpFails(i) ==
  /\ pumps[i].state = "running"
  /\ pumps' = [pumps EXCEPT ![i].state = "failed"]
  /\ UNCHANGED <<now, tables, pc, datagram, dest, associations, used>>

----------------------------------------------------------------------------
Tables == UNION {[us -> Row] : us \in SUBSET User}

Listener ==
  \/ ReceiveDropped
  \/ \E peer \in Peer, u \in User, k \in Key, port \in Port : Receive(peer, u, k, port)
  \/ \E resolved \in SUBSET Addr : Resolve(resolved)
  \/ Unresolved \/ Open \/ OpenFails \/ Send \/ Stop

Next ==
  \/ Tick
  \/ \E t \in Tables : Publish(t)
  \/ Listener
  \/ \E i \in DOMAIN pumps : PumpFails(i)

Spec == Init /\ [][Next]_vars

----------------------------------------------------------------------------
\* Types: every association has a pump that was spawned and was seen in the
\* past (AssociationKey, Association).
TypeOK ==
  /\ now \in 0 .. MaxTime /\ tables \in Tables
  /\ pc \in {"recv", "resolving", "opening", "sending", "stopped"}
  /\ datagram \in Datagram \cup {<< >>} /\ dest \subseteq Addr
  /\ IsMap(associations, AssociationKey, [value : DOMAIN pumps, last_seen : 0 .. MaxTime])
  /\ pumps \in Seq([peer : Peer, user : User, key : Key,
                    state : {"running", "failed", "aborted"}])
  /\ IsMap(used, AssociationKey, 0 .. MaxTime)

\* Sockets do not leak: every running pump belongs to the one association of
\* its peer and user, and there are never more of them than the limit, whether
\* associations expire, are evicted or go with the listener (Drop for
\* Association, insert of BoundedTtlMap).
PumpsOwned ==
  /\ \A i \in DOMAIN pumps : pumps[i].state = "running" =>
       /\ <<pumps[i].peer, pumps[i].user>> \in DOMAIN associations
       /\ associations[<<pumps[i].peer, pumps[i].user>>].value = i
  /\ Cardinality(DOMAIN associations) <= MaxAssociations

\* A datagram never goes to an address or port its policy forbids, although the
\* name is looked up while policies change (resolve_udp_dest pins the address
\* it checked).
ForbiddenNeverSent ==
  pc = "sending" /\ EnforceForbidden =>
    /\ dest \cap datagram.policy.forbidden_ips = {}
    /\ datagram.port \notin datagram.policy.forbidden_ports

\* An association is only given up when it has been idle for its time to live,
\* or is the longest idle one of a full map, or the listener stops: a peer that
\* keeps sending keeps its outbound socket (touch, insert, expire).
LongestIdle(k) == \A j \in DOMAIN associations : used[k] <= used[j]

AssociationsKept ==
  [][\A k \in DOMAIN associations \ DOMAIN associations' :
       \/ pc' = "stopped"
       \/ now - used[k] >= Ttl
       \/ Cardinality(DOMAIN associations) = MaxAssociations /\ LongestIdle(k)]_vars

\* "user add/remove/password/enable/disable/policy changes take effect live":
\* the answers to a datagram are signed with the key that authenticated it.
AnswerKeyCurrent ==
  pc = "sending" => pumps[associations[ThisKey].value].key = datagram.key

\* "One client peer's outbound UDP socket plus the task that pumps responses
\* back": an association that is used again still has its task.
AnswersPumped ==
  [][pc = "resolving" /\ pc' = "sending" =>
       pumps[associations[ThisKey].value].state = "running"]_vars
=============================================================================
