--------------------------- MODULE TcpRelayProofs ---------------------------
(***************************************************************************)
(* Proofs about TcpRelay, for every set of users, devices, sessions and    *)
(* policies and every number of permits.                                   *)
(***************************************************************************)
EXTENDS TcpRelay, FiniteSetTheorems, TLAPS

----------------------------------------------------------------------------
(* IP sets. *)

\* UserIpSet: every address in it has at least one guard.
IpSet == UNION {[S -> Nat \ {0}] : S \in SUBSET IP}

\* The guards counted on an address.
Count(m, ip) == IF ip \in DOMAIN m THEN m[ip] ELSE 0

\* An IP set is a map from some addresses to counts.
LEMMA IpSetsAreMaps ==
  ASSUME NEW m
  PROVE  m \in IpSet <=> IsMap(m, IP, Nat \ {0})
BY DEF IpSet, IsMap

\* ConnGuard::acquire adds one guard on one address.
LEMMA CountUp ==
  ASSUME NEW m \in IpSet, NEW ip \in IP, NEW r, r = OneMore(m, ip)
  PROVE  /\ r \in IpSet /\ \A j : j \in DOMAIN r <=> j \in DOMAIN m \/ j = ip
         /\ \A j \in IP : /\ Count(m, j) \in Nat
                          /\ j = ip => Count(r, j) = Count(m, j) + 1
                          /\ j # ip => Count(r, j) = Count(m, j)
<1>1. IsMap(m, IP, Nat \ {0})
  BY IpSetsAreMaps
<1>2. \A j \in DOMAIN m : m[j] \in Nat /\ m[j] # 0
  BY <1>1 DEF IsMap
<1> DEFINE n == IF ip \in DOMAIN m THEN m[ip] + 1 ELSE 1
<1>3. n \in Nat \ {0} /\ r = Put(m, ip, n)
  BY <1>2 DEF OneMore
<1>4. IsMap(r, IP, Nat \ {0})
  <2> HIDE DEF n
  <2>1. QED
    BY <1>1, <1>3 DEF IsMap, Put
<1>5. DOMAIN r = DOMAIN m \cup {ip} /\ r[ip] = n /\ \A j \in DOMAIN m : j # ip => r[j] = m[j]
  BY <1>3 DEF Put
<1>6. \A j \in IP : /\ Count(m, j) \in Nat
                    /\ j = ip => Count(r, j) = Count(m, j) + 1
                    /\ j # ip => Count(r, j) = Count(m, j)
  BY <1>2, <1>5 DEF Count
<1>7. QED
  BY <1>4, <1>5, <1>6, IpSetsAreMaps

\* Drop for ConnGuard takes one away, and the address with the last one.
LEMMA CountDown ==
  ASSUME NEW m \in IpSet, NEW ip \in DOMAIN m, NEW r, r = OneLess(m, ip)
  PROVE  /\ r \in IpSet /\ DOMAIN r \subseteq DOMAIN m
         /\ \A j \in IP : /\ Count(m, j) \in Nat
                          /\ j = ip => Count(r, j) = Count(m, j) - 1
                          /\ j # ip => Count(r, j) = Count(m, j)
<1>1. IsMap(m, IP, Nat \ {0})
  BY IpSetsAreMaps
<1>2. \A j \in DOMAIN m : m[j] \in Nat /\ m[j] # 0
  BY <1>1 DEF IsMap
<1>3. CASE m[ip] = 1
  <2>1. DOMAIN r = DOMAIN m \ {ip} /\ \A j \in DOMAIN r : r[j] = m[j]
    BY <1>3 DEF OneLess, Without, Restrict
  <2>2. IsMap(r, IP, Nat \ {0})
    BY <1>1, <1>3 DEF OneLess, IsMap, Without, Restrict
  <2>3. \A j \in IP : /\ Count(m, j) \in Nat
                      /\ j = ip => Count(r, j) = Count(m, j) - 1
                      /\ j # ip => Count(r, j) = Count(m, j)
    BY <1>2, <1>3, <2>1 DEF Count
  <2>4. QED
    BY <2>1, <2>2, <2>3, IpSetsAreMaps
<1>4. CASE m[ip] # 1
  <2>1. r = [m EXCEPT ![ip] = @ - 1]
    BY <1>4 DEF OneLess
  <2>2. m = [j \in DOMAIN m |-> m[j]]
    BY <1>1 DEF IsMap
  <2>3. DOMAIN r = DOMAIN m /\ \A j \in DOMAIN m : r[j] = IF j = ip THEN m[j] - 1 ELSE m[j]
    BY <2>1
  <2>4. IsMap(r, IP, Nat \ {0})
    <3>1. \A j \in DOMAIN m : r[j] \in Nat \ {0}
      BY <1>2, <1>4, <2>3
    <3>2. r \in [DOMAIN m -> Nat \ {0}]
      BY <2>1, <2>2, <2>3, <3>1
    <3>3. QED
      BY <1>1, <2>3, <3>2 DEF IsMap
  <2>5. \A j \in IP : /\ Count(m, j) \in Nat
                      /\ j = ip => Count(r, j) = Count(m, j) - 1
                      /\ j # ip => Count(r, j) = Count(m, j)
    BY <1>2, <2>3 DEF Count
  <2>6. QED
    BY <2>3, <2>4, <2>5, IpSetsAreMaps
<1>5. QED
  BY <1>3, <1>4

\* acquire, as far as all IP sets go.
LEMMA AcquiredSets ==
  ASSUME ips \in [User -> [Gen -> IpSet]], NEW c \in IpSetId, NEW ip \in IP,
         NEW all, all = Acquired(c, ip)
  PROVE  /\ all \in [User -> [Gen -> IpSet]]
         /\ DOMAIN all[c.user][c.gen] = DOMAIN IPs(c) \cup {ip}
         /\ \A u \in User, g \in Gen :
              /\ u # c.user \/ g # c.gen => all[u][g] = ips[u][g]
              /\ \A j \in IP :
                   /\ Count(ips[u][g], j) \in Nat
                   /\ Count(all[u][g], j) = IF u = c.user /\ g = c.gen /\ j = ip
                                            THEN Count(ips[u][g], j) + 1
                                            ELSE Count(ips[u][g], j)
<1>1. c.user \in User /\ c.gen \in Gen
  BY DEF IpSetId
<1> DEFINE old == IPs(c)
           new == OneMore(old, ip)
<1>2. old \in IpSet /\ old = ips[c.user][c.gen]
  BY <1>1 DEF IPs
<1>3. all = [ips EXCEPT ![c.user][c.gen] = new]
  BY <1>1 DEF Acquired, IPs
<1> HIDE DEF old
<1>4. /\ new \in IpSet /\ \A j : j \in DOMAIN new <=> j \in DOMAIN old \/ j = ip
      /\ \A j \in IP : /\ Count(old, j) \in Nat
                       /\ j = ip => Count(new, j) = Count(old, j) + 1
                       /\ j # ip => Count(new, j) = Count(old, j)
  BY <1>2, CountUp
<1> HIDE DEF new
<1>5. /\ all \in [User -> [Gen -> IpSet]]
      /\ \A u \in User, g \in Gen :
           all[u][g] = IF u = c.user /\ g = c.gen THEN new ELSE ips[u][g]
  BY <1>1, <1>3, <1>4
<1>6. \A u \in User, g \in Gen, j \in IP : Count(ips[u][g], j) \in Nat
  <2>1. \A u \in User, g \in Gen : IsMap(ips[u][g], IP, Nat \ {0})
    BY IpSetsAreMaps
  <2>2. QED
    BY <2>1 DEF Count, IsMap
<1>7. QED
  BY <1>1, <1>2, <1>4, <1>5, <1>6 DEF old

\* Drop, as far as all IP sets go.
LEMMA ReleasedSets ==
  ASSUME ips \in [User -> [Gen -> IpSet]], NEW c \in IpSetId, NEW ip \in DOMAIN IPs(c),
         NEW all, all = Released(c, ip)
  PROVE  /\ all \in [User -> [Gen -> IpSet]]
         /\ \A u \in User, g \in Gen :
              /\ DOMAIN all[u][g] \subseteq DOMAIN ips[u][g]
              /\ \A j \in IP :
                   /\ Count(ips[u][g], j) \in Nat
                   /\ Count(all[u][g], j) = IF u = c.user /\ g = c.gen /\ j = ip
                                            THEN Count(ips[u][g], j) - 1
                                            ELSE Count(ips[u][g], j)
<1>1. c.user \in User /\ c.gen \in Gen
  BY DEF IpSetId
<1> DEFINE old == IPs(c)
           new == OneLess(old, ip)
<1>2. old \in IpSet /\ old = ips[c.user][c.gen] /\ ip \in DOMAIN old
  BY <1>1 DEF IPs
<1>3. all = [ips EXCEPT ![c.user][c.gen] = new]
  BY <1>1 DEF Released, IPs
<1> HIDE DEF old
<1>4. /\ new \in IpSet /\ DOMAIN new \subseteq DOMAIN old
      /\ \A j \in IP : /\ Count(old, j) \in Nat
                       /\ j = ip => Count(new, j) = Count(old, j) - 1
                       /\ j # ip => Count(new, j) = Count(old, j)
  BY <1>2, CountDown
<1> HIDE DEF new
<1>5. /\ all \in [User -> [Gen -> IpSet]]
      /\ \A u \in User, g \in Gen :
           all[u][g] = IF u = c.user /\ g = c.gen THEN new ELSE ips[u][g]
  BY <1>1, <1>3, <1>4
<1>6. \A u \in User, g \in Gen, j \in IP : Count(ips[u][g], j) \in Nat
  <2>1. \A u \in User, g \in Gen : IsMap(ips[u][g], IP, Nat \ {0})
    BY IpSetsAreMaps
  <2>2. QED
    BY <2>1 DEF Count, IsMap
<1>7. QED
  BY <1>1, <1>2, <1>4, <1>5, <1>6

----------------------------------------------------------------------------
(* The inductive invariant. *)

\* Connections and the addresses of an IP set are finitely many.
Finite ==
  /\ IsFiniteSet(DOMAIN context)
  /\ \A u \in User, g \in Gen : IsFiniteSet(DOMAIN ips[u][g])

\* No limit in a table is above the highest one published for its IP set.
Published(t) == \A u \in DOMAIN t.conns : PolicyOf(t, u).conn_limit <= peak[u][t.conns[u]]

\* That goes for the current tables and for every snapshot, however old.
LimitsPublished == Published(tables) /\ \A s \in DOMAIN context : Published(context[s].tables)

\* A session is about to dial, or has dialled, what its own snapshot allows.
TargetsAllowed ==
  /\ \A s \in DOMAIN candidates : EnforceForbidden =>
       /\ candidates[s] \cap PolicyFor(s).forbidden_ips = {}
       /\ admitted[s].port \notin PolicyFor(s).forbidden_ports
  /\ ForbiddenNeverReached

\* The inductive invariant.
TcpInv ==
  /\ TypeOK
  /\ ips \in [User -> [Gen -> IpSet]]
  /\ Finite
  /\ NothingLeaks
  /\ LimitsPublished
  /\ DeviceCap
  /\ TargetsAllowed

\* The first conjunct of NothingLeaks, with the guards on an address named.
Counted == \A u \in User, g \in Gen, ip \in IP : Cardinality(Holders(u, g, ip)) = Count(ips[u][g], ip)

\* NothingLeaks is about counts and permits.
LEMMA LeaksSplit ==
  NothingLeaks <=> Counted /\ permits + Cardinality(DOMAIN context) = MaxAccepts
BY DEF NothingLeaks, Counted, Count

\* The sessions that guard an address are finitely many.
LEMMA HoldersFinite ==
  ASSUME TcpInv, NEW u, NEW g, NEW ip
  PROVE  IsFiniteSet(Holders(u, g, ip))
<1>1. Holders(u, g, ip) \subseteq DOMAIN context
  BY DEF TcpInv, TypeOK, IsMap, Holders
<1>2. QED
  BY <1>1, FS_Subset DEF TcpInv, Finite

\* What a session may dial stays allowed while its snapshot, its user and its
\* port stay and it gets no new address.
LEMMA TargetsKept ==
  ASSUME TargetsAllowed,
         \A s \in DOMAIN candidates' :
           /\ s \in DOMAIN candidates /\ candidates'[s] \subseteq candidates[s]
           /\ context'[s] = context[s] /\ admitted'[s] = admitted[s],
         \A s \in DOMAIN remote' :
           /\ s \in DOMAIN remote /\ remote'[s] = remote[s]
           /\ context'[s] = context[s] /\ admitted'[s] = admitted[s]
  PROVE  TargetsAllowed'
<1>1. ASSUME NEW s, context'[s] = context[s], admitted'[s] = admitted[s]
      PROVE  PolicyFor(s)' = PolicyFor(s)
  BY <1>1 DEF PolicyFor
<1> HIDE DEF PolicyFor
<1>2. QED
  BY <1>1 DEF TargetsAllowed, ForbiddenNeverReached

----------------------------------------------------------------------------
\* A listener starts with all its permits and nobody connected.
LEMMA InitTcp == Init => TcpInv
<1> SUFFICES ASSUME Init PROVE TcpInv
  OBVIOUS
<1>1. IsMap(Empty, User, Gen) /\ IsMap(Empty, User, Policy) /\ IsMap(Empty, IP, Nat \ {0})
  BY DEF Empty, IsMap
<1>2. DOMAIN Empty = {} /\ IsFiniteSet({}) /\ Cardinality({}) = 0
  BY FS_EmptySet DEF Empty
<1>3. Empty \in IpSet
  BY <1>1, IpSetsAreMaps
<1>4. ips \in [User -> [Gen -> IpSet]] /\ \A u \in User, g \in Gen : ips[u][g] = Empty
  BY <1>3 DEF Init
<1>5. Finite
  BY <1>2, <1>4 DEF Init, Finite
<1>6. TypeOK
  <2>1. \A K, V : IsMap(Empty, K, V)
    BY <1>2 DEF IsMap, Empty
  <2>2. MaxAccepts \in Nat /\ permits \in 0 .. MaxAccepts /\ created \in [User -> 0 .. MaxGen]
    BY RelayAssumption DEF Init
  <2>3. peak \in [User -> [Gen -> Nat]]
    BY DEF Init
  <2>4. QED
    BY <1>2, <1>4, <2>1, <2>2, <2>3 DEF Init, TypeOK
<1>7. Counted
  <2>1. ASSUME NEW u \in User, NEW g \in Gen, NEW ip \in IP
        PROVE  Cardinality(Holders(u, g, ip)) = Count(ips[u][g], ip)
    <3>1. Holders(u, g, ip) = {}
      BY <1>2 DEF Init, Holders
    <3>2. Count(ips[u][g], ip) = 0
      BY <1>2, <1>4 DEF Count
    <3>3. QED
      BY <1>2, <3>1, <3>2
  <2>2. QED
    BY <2>1 DEF Counted
<1>8. NothingLeaks
  BY <1>2, <1>7, LeaksSplit, RelayAssumption DEF Init
<1>9. LimitsPublished
  BY <1>2 DEF Init, LimitsPublished, Published
<1>10. DeviceCap
  BY <1>2, <1>4 DEF Init, DeviceCap
<1>11. TargetsAllowed
  BY <1>2 DEF Init, TargetsAllowed, ForbiddenNeverReached
<1>12. QED
  BY <1>4, <1>5, <1>6, <1>8, <1>9, <1>10, <1>11 DEF TcpInv

----------------------------------------------------------------------------
(* sync_users. *)

\* Publishing tables: users keep their IP sets, new ones get a fresh one, and
\* no limit already published is forgotten.
LEMMA PublishTcp ==
  ASSUME TcpInv, NEW listed \in Listed, SyncPublish(listed)
  PROVE  TcpInv'
<1> DEFINE us == DOMAIN listed
           all == EnsureSets(us)
<1>1. us \subseteq User /\ \A u \in us : listed[u] \in Policy /\ listed[u].conn_limit \in Nat
  BY RelayAssumption DEF Listed, UserPolicy
<1>2. /\ TypeOK /\ ips \in [User -> [Gen -> IpSet]] /\ Finite /\ NothingLeaks
      /\ LimitsPublished /\ DeviceCap /\ TargetsAllowed
  BY DEF TcpInv
<1>3. /\ \A u \in us \ DOMAIN sets : created[u] < MaxGen
      /\ sets' = all
      /\ created' = [u \in User |-> IF u \in us \ DOMAIN sets THEN created[u] + 1 ELSE created[u]]
      /\ tables' = [conns    |-> Restrict(all, us),
                    policies |-> Restrict(listed, {u \in us : NeedsConnectionPolicy(listed[u])})]
      /\ live' = us /\ pc' = "syncing"
      /\ peak' = [u \in User |-> [g \in Gen |->
                    IF u \in us /\ g = all[u] /\ listed[u].conn_limit > peak[u][g]
                    THEN listed[u].conn_limit ELSE peak[u][g]]]
      /\ UNCHANGED <<ips, permits, context, admitted, guards, candidates, remote>>
  BY DEF SyncPublish, sessVars
<1>4. IsMap(all, User, Gen) /\ DOMAIN all = DOMAIN sets \cup us
  <2>1. IsMap(sets, User, Gen) /\ created \in [User -> 0 .. MaxGen] /\ MaxGen \in Nat
    BY <1>2, RelayAssumption DEF TypeOK
  <2>2. \A u \in DOMAIN sets : u \in User /\ sets[u] \in Gen
    BY <2>1 DEF IsMap
  <2>3. \A u \in us \ DOMAIN sets : created[u] + 1 \in Gen
    BY <1>1, <1>3, <2>1 DEF Gen
  <2>4. all = [u \in DOMAIN sets \cup us |->
                 IF u \in DOMAIN sets THEN sets[u] ELSE created[u] + 1]
    BY DEF EnsureSets
  <2>5. \A u \in DOMAIN sets \cup us : u \in User /\ all[u] \in Gen
    BY <1>1, <2>2, <2>3, <2>4
  <2>6. QED
    BY <2>4, <2>5 DEF IsMap
<1> HIDE DEF all
<1>5. /\ DOMAIN tables'.conns = us /\ \A u \in us : tables'.conns[u] = all[u] /\ all[u] \in Gen
      /\ DOMAIN tables'.policies = {u \in us : NeedsConnectionPolicy(listed[u])}
      /\ \A u \in DOMAIN tables'.policies : tables'.policies[u] = listed[u]
  BY <1>3, <1>4 DEF Restrict, IsMap
<1>6. IsMap(tables'.conns, User, Gen) /\ IsMap(tables'.policies, User, Policy)
  BY <1>1, <1>3, <1>5 DEF IsMap, Restrict
<1>7. /\ peak' \in [User -> [Gen -> Nat]]
      /\ \A u \in User, g \in Gen : peak[u][g] <= peak'[u][g]
      /\ \A u \in us : listed[u].conn_limit <= peak'[u][all[u]]
  <2>1. peak \in [User -> [Gen -> Nat]]
    BY <1>2 DEF TypeOK
  <2>2. \A u \in User, g \in Gen :
          peak'[u][g] = IF u \in us /\ g = all[u] /\ listed[u].conn_limit > peak[u][g]
                        THEN listed[u].conn_limit ELSE peak[u][g]
    BY <1>3
  <2>3. \A u \in User, g \in Gen : peak'[u][g] \in Nat /\ peak[u][g] <= peak'[u][g]
    BY <1>1, <2>1, <2>2
  <2>4. \A u \in us : listed[u].conn_limit <= peak'[u][all[u]]
    BY <1>1, <1>5, <2>1, <2>2
  <2>5. peak' \in [User -> [Gen -> Nat]]
    BY <1>3, <2>3
  <2>6. QED
    BY <2>3, <2>4, <2>5
<1>8. TypeOK'
  <2>1. created' \in [User -> 0 .. MaxGen]
    BY <1>1, <1>2, <1>3, RelayAssumption DEF TypeOK
  <2>2. QED
    BY <1>1, <1>2, <1>3, <1>4, <1>6, <1>7, <2>1 DEF TypeOK
<1>9. LimitsPublished'
  <2>1. Published(tables)'
    <3>1. ASSUME NEW u \in us PROVE PolicyOf(tables', u).conn_limit <= peak'[u][tables'.conns[u]]
      <4>1. CASE NeedsConnectionPolicy(listed[u])
        <5>1. PolicyOf(tables', u) = listed[u]
          BY <1>5, <4>1 DEF PolicyOf
        <5>2. QED
          BY <1>5, <1>7, <5>1
      <4>2. CASE ~NeedsConnectionPolicy(listed[u])
        <5>1. PolicyOf(tables', u).conn_limit = 0
          BY <1>5, <4>2 DEF PolicyOf, NoPolicy
        <5>2. u \in User /\ tables'.conns[u] \in Gen
          BY <1>1, <1>5
        <5>3. peak'[u][tables'.conns[u]] \in Nat
          BY <1>7, <5>2
        <5>4. QED
          BY <5>1, <5>3
      <4>3. QED
        BY <4>1, <4>2
    <3>2. QED
      BY <1>5, <3>1 DEF Published
  <2>2. ASSUME NEW s \in DOMAIN context PROVE Published(context[s].tables)'
    <3> DEFINE t == context[s].tables
    <3>1. Published(t) /\ IsMap(t.conns, User, Gen) /\ IsMap(t.policies, User, Policy)
      BY <1>2 DEF LimitsPublished, TypeOK
    <3>2. context'[s].tables = t
      BY <1>3
    <3> HIDE DEF t
    <3>3. ASSUME NEW u \in DOMAIN t.conns PROVE PolicyOf(t, u).conn_limit <= peak'[u][t.conns[u]]
      <4> DEFINE n == PolicyOf(t, u).conn_limit
                 a == peak[u][t.conns[u]]
                 b == peak'[u][t.conns[u]]
      <4>1. u \in User /\ t.conns[u] \in Gen
        BY <3>1, <3>3 DEF IsMap
      <4>2. n \in Nat
        BY <3>1, RelayAssumption DEF PolicyOf, NoPolicy, IsMap, UserPolicy
      <4>3. a \in Nat /\ b \in Nat /\ a <= b
        BY <1>2, <1>7, <4>1 DEF TypeOK
      <4>4. n <= a
        BY <3>1, <3>3 DEF Published
      <4> HIDE DEF n, a, b
      <4>5. n <= b
        BY <4>2, <4>3, <4>4
      <4>6. QED
        BY <4>5 DEF n, b
    <3>4. QED
      BY <3>2, <3>3 DEF Published
  <2>3. QED
    BY <1>3, <2>1, <2>2 DEF LimitsPublished
<1>10. DeviceCap'
  <2>1. ASSUME NEW u \in User, NEW g \in Gen PROVE Cardinality(DOMAIN ips[u][g]) <= peak'[u][g]
    <3> DEFINE n == Cardinality(DOMAIN ips[u][g])
               a == peak[u][g]
               b == peak'[u][g]
    <3>1. n \in Nat
      BY <1>2, FS_CardinalityType DEF Finite
    <3>2. a \in Nat /\ b \in Nat /\ a <= b
      BY <1>2, <1>7 DEF TypeOK
    <3>3. n <= a
      BY <1>2 DEF DeviceCap
    <3> HIDE DEF n, a, b
    <3>4. n <= b
      BY <3>1, <3>2, <3>3
    <3>5. QED
      BY <3>4 DEF n, b
  <2>2. QED
    BY <1>3, <2>1 DEF DeviceCap
<1>11. Finite' /\ NothingLeaks' /\ ips' \in [User -> [Gen -> IpSet]]
  BY <1>2, <1>3 DEF Finite, NothingLeaks, Holders
<1>12. TargetsAllowed'
  BY <1>2, <1>3 DEF TargetsAllowed, ForbiddenNeverReached, PolicyFor
<1>13. QED
  BY <1>8, <1>9, <1>10, <1>11, <1>12 DEF TcpInv

\* Dropping the IP sets of users that left changes no set that is in use.
LEMMA RemoveStaleTcp ==
  ASSUME TcpInv, SyncRemoveStale
  PROVE  TcpInv'
<1>1. /\ sets' = Restrict(sets, DOMAIN sets \cap live) /\ pc' = "idle"
      /\ UNCHANGED <<created, ips, tables, live, permits, context, admitted, guards, candidates,
                     remote, peak>>
  BY DEF SyncRemoveStale, sessVars
<1>2. TypeOK'
  <2>1. IsMap(sets, User, Gen)
    BY DEF TcpInv, TypeOK
  <2>2. IsMap(sets', User, Gen)
    BY <1>1, <2>1 DEF IsMap, Restrict
  <2>3. QED
    BY <1>1, <2>2 DEF TcpInv, TypeOK
<1>3. NothingLeaks' /\ Finite' /\ DeviceCap' /\ ips' \in [User -> [Gen -> IpSet]]
  BY <1>1 DEF TcpInv, NothingLeaks, Holders, Finite, DeviceCap
<1>4. LimitsPublished'
  BY <1>1 DEF TcpInv, LimitsPublished, Published
<1>5. TargetsAllowed'
  BY <1>1 DEF TcpInv, TargetsAllowed, ForbiddenNeverReached, PolicyFor
<1>6. QED
  BY <1>2, <1>3, <1>4, <1>5 DEF TcpInv

----------------------------------------------------------------------------
(* run_listener and handle_stream. *)

\* Accepting a connection takes a permit and a snapshot of the tables.
LEMMA AcceptTcp ==
  ASSUME TcpInv, NEW s \in Session, NEW ip \in IP, Accept(s, ip)
  PROVE  TcpInv'
<1>1. /\ s \notin DOMAIN context /\ permits > 0 /\ permits' = permits - 1
      /\ context' = Put(context, s, [tables |-> tables, ip |-> ip])
      /\ UNCHANGED <<sets, created, tables, pc, live, peak, ips, admitted, guards, candidates, remote>>
  BY DEF Accept, syncVars
<1>2. /\ TypeOK /\ ips \in [User -> [Gen -> IpSet]] /\ Finite /\ NothingLeaks
      /\ LimitsPublished /\ DeviceCap /\ TargetsAllowed
  BY DEF TcpInv
<1>3. /\ DOMAIN context' = DOMAIN context \cup {s}
      /\ \A t \in DOMAIN context : context'[t] = context[t]
      /\ context'[s].tables = tables /\ context'[s].ip = ip
  BY <1>1 DEF Put
<1>4. DOMAIN admitted \subseteq DOMAIN context
  BY <1>2 DEF TypeOK, IsMap
<1>5. /\ IsFiniteSet(DOMAIN context')
      /\ Cardinality(DOMAIN context') = Cardinality(DOMAIN context) + 1
      /\ Cardinality(DOMAIN context) \in Nat
  BY <1>1, <1>2, <1>3, FS_AddElement, FS_CardinalityType DEF Finite
<1>6. NothingLeaks'
  <2>1. permits \in Nat /\ MaxAccepts \in Nat
    BY <1>2, RelayAssumption DEF TypeOK
  <2>2. permits' + Cardinality(DOMAIN context') = MaxAccepts
    BY <1>1, <1>2, <1>5, <2>1 DEF NothingLeaks
  <2>3. QED
    BY <1>1, <1>2, <2>2 DEF NothingLeaks, Holders
<1>7. TypeOK'
  <2>1. permits' \in 0 .. MaxAccepts
    BY <1>1, <1>2, RelayAssumption DEF TypeOK
  <2>2. ASSUME NEW t \in DOMAIN context'
        PROVE  /\ t \in Session /\ context'[t].ip \in IP
               /\ IsMap(context'[t].tables.conns, User, Gen)
               /\ IsMap(context'[t].tables.policies, User, Policy)
    BY <1>2, <1>3, <2>2 DEF TypeOK
  <2>3. IsMap(admitted', DOMAIN context', [set : IpSetId, port : Port])
    BY <1>1, <1>2, <1>3 DEF TypeOK, IsMap
  <2>4. QED
    BY <1>1, <1>2, <2>1, <2>2, <2>3 DEF TypeOK
<1>8. LimitsPublished'
  <2>1. Published(tables) /\ \A t \in DOMAIN context : Published(context[t].tables)
    BY <1>2 DEF LimitsPublished
  <2>2. \A t \in DOMAIN context' : Published(context'[t].tables)
    BY <1>3, <2>1
  <2>3. QED
    BY <1>1, <2>1, <2>2 DEF LimitsPublished, Published
<1>9. TargetsAllowed'
  <2>1. DOMAIN candidates \subseteq DOMAIN admitted /\ DOMAIN remote \subseteq DOMAIN admitted
    BY <1>2 DEF TypeOK, IsMap
  <2>2. QED
    BY <1>1, <1>2, <1>3, <1>4, <2>1, TargetsKept
<1>10. QED
  BY <1>1, <1>2, <1>5, <1>6, <1>7, <1>8, <1>9 DEF TcpInv, Finite, DeviceCap

\* A guard that is held is on an address its IP set counts.
LEMMA GuardCounted ==
  ASSUME TcpInv, NEW s \in DOMAIN guards
  PROVE  /\ guards[s].set \in IpSetId /\ guards[s].ip \in IP
         /\ guards[s].set.user \in User /\ guards[s].set.gen \in Gen
         /\ guards[s] = [set |-> [user |-> guards[s].set.user, gen |-> guards[s].set.gen],
                         ip |-> guards[s].ip]
         /\ guards[s].ip \in DOMAIN IPs(guards[s].set)
<1> DEFINE c == guards[s].set
           ip == guards[s].ip
<1>1. guards[s] \in [set : IpSetId, ip : IP]
  BY DEF TcpInv, TypeOK, IsMap
<1>2. c \in IpSetId /\ ip \in IP /\ c.user \in User /\ c.gen \in Gen
  BY <1>1 DEF IpSetId
<1>3. guards[s] = [set |-> [user |-> c.user, gen |-> c.gen], ip |-> ip]
  BY <1>1 DEF IpSetId
<1>4. s \in Holders(c.user, c.gen, ip)
  BY <1>3 DEF Holders
<1>5. Cardinality(Holders(c.user, c.gen, ip)) # 0
  BY <1>4, HoldersFinite, FS_EmptySet
<1>6. Count(ips[c.user][c.gen], ip) # 0
  BY <1>2, <1>5, LeaksSplit DEF TcpInv, Counted
<1>7. ip \in DOMAIN IPs(c)
  BY <1>6 DEF Count, IPs
<1>8. QED
  BY <1>2, <1>3, <1>7

\* A map without one key.
LEMMA WithoutKey ==
  ASSUME NEW f, NEW k, NEW K, NEW V, IsMap(f, K, V)
  PROVE  /\ DOMAIN Without(f, k) = DOMAIN f \ {k}
         /\ \A j \in DOMAIN f \ {k} : Without(f, k)[j] = f[j]
         /\ IsMap(Without(f, k), K \ {k}, V)
BY DEF IsMap, Without, Restrict

\* What End leaves of the guards and the IP sets: the guard of s is gone and so
\* is its count; no other count changes.
LEMMA EndCounts ==
  ASSUME TcpInv, NEW s \in DOMAIN context, End(s)
  PROVE  /\ ips' \in [User -> [Gen -> IpSet]] /\ Counted'
         /\ \A u \in User, g \in Gen : DOMAIN ips'[u][g] \subseteq DOMAIN ips[u][g]
<1>1. /\ ips' = IF s \in DOMAIN guards THEN Released(guards[s].set, guards[s].ip) ELSE ips
      /\ guards' = Without(guards, s)
  BY DEF End
<1>2. /\ TypeOK /\ ips \in [User -> [Gen -> IpSet]] /\ Counted
  BY LeaksSplit DEF TcpInv
<1>3. DOMAIN guards' = DOMAIN guards \ {s} /\ \A t \in DOMAIN guards \ {s} : guards'[t] = guards[t]
  BY <1>1, <1>2, WithoutKey DEF TypeOK
<1>4. \A u, g, ip : Holders(u, g, ip)' = Holders(u, g, ip) \ {s}
  BY <1>3 DEF Holders
<1>5. CASE s \notin DOMAIN guards
  <2>1. ips' = ips
    BY <1>1, <1>5
  <2>2. \A u, g, ip : Holders(u, g, ip)' = Holders(u, g, ip)
    BY <1>4, <1>5 DEF Holders
  <2>3. Counted'
    BY <1>2, <2>1, <2>2 DEF Counted
  <2>4. QED
    BY <1>2, <2>1, <2>3
<1>6. CASE s \in DOMAIN guards
  <2> DEFINE c == guards[s].set
             a == guards[s].ip
  <2>1. /\ c \in IpSetId /\ a \in IP /\ a \in DOMAIN IPs(c) /\ c.user \in User /\ c.gen \in Gen
        /\ guards[s] = [set |-> [user |-> c.user, gen |-> c.gen], ip |-> a]
    BY <1>6, GuardCounted
  <2>2. ips' = Released(c, a)
    BY <1>1, <1>6
  <2>3. \A u, g, ip : s \in Holders(u, g, ip) <=> u = c.user /\ g = c.gen /\ ip = a
    <3> DEFINE x == c.user
               y == c.gen
    <3>1. guards[s] = [set |-> [user |-> x, gen |-> y], ip |-> a]
      BY <2>1
    <3> HIDE DEF x, y, a
    <3>2. \A u, g, ip : guards[s] = [set |-> [user |-> u, gen |-> g], ip |-> ip] <=>
                          u = x /\ g = y /\ ip = a
      BY <3>1
    <3>3. QED
      BY <1>6, <3>2 DEF Holders, x, y
  <2> HIDE DEF c, a
  <2>4. /\ ips' \in [User -> [Gen -> IpSet]]
        /\ \A u \in User, g \in Gen :
             /\ DOMAIN ips'[u][g] \subseteq DOMAIN ips[u][g]
             /\ \A j \in IP :
                  /\ Count(ips[u][g], j) \in Nat
                  /\ Count(ips'[u][g], j) = IF u = c.user /\ g = c.gen /\ j = a
                                            THEN Count(ips[u][g], j) - 1
                                            ELSE Count(ips[u][g], j)
    BY <1>2, <2>1, <2>2, ReleasedSets
  <2>5. ASSUME NEW u \in User, NEW g \in Gen, NEW ip \in IP
        PROVE  Cardinality(Holders(u, g, ip)') = Count(ips'[u][g], ip)
    <3> DEFINE H == Holders(u, g, ip)
    <3>1. IsFiniteSet(H) /\ Cardinality(H) = Count(ips[u][g], ip)
      BY <1>2, HoldersFinite DEF Counted
    <3>2. Holders(u, g, ip)' = H \ {s}
      BY <1>4
    <3>3. s \in H <=> u = c.user /\ g = c.gen /\ ip = a
      BY <2>3
    <3> HIDE DEF H
    <3>4. CASE s \in H
      <4>1. Cardinality(H \ {s}) = Cardinality(H) - 1
        BY <3>1, <3>4, FS_RemoveElement
      <4>2. QED
        BY <2>4, <3>1, <3>2, <3>3, <3>4, <4>1
    <3>5. CASE s \notin H
      <4>1. H \ {s} = H
        BY <3>5
      <4>2. QED
        BY <2>4, <3>1, <3>2, <3>3, <3>5, <4>1
    <3>6. QED
      BY <3>4, <3>5
  <2>6. Counted'
    BY <2>5 DEF Counted
  <2>7. QED
    BY <2>4, <2>6
<1>7. QED
  BY <1>5, <1>6

\* Every way out of handle_stream keeps the books in order.
LEMMA EndTcp ==
  ASSUME TcpInv, NEW s \in DOMAIN context, End(s)
  PROVE  TcpInv'
<1>1. /\ context' = Without(context, s) /\ admitted' = Without(admitted, s)
      /\ guards' = Without(guards, s) /\ candidates' = Without(candidates, s)
      /\ remote' = Without(remote, s) /\ permits' = permits + 1
      /\ UNCHANGED <<sets, created, tables, pc, live, peak>>
  BY DEF End, syncVars
<1>2. /\ TypeOK /\ Finite /\ NothingLeaks /\ LimitsPublished /\ DeviceCap /\ TargetsAllowed
  BY DEF TcpInv
<1>3. /\ ips' \in [User -> [Gen -> IpSet]] /\ Counted'
      /\ \A u \in User, g \in Gen : DOMAIN ips'[u][g] \subseteq DOMAIN ips[u][g]
  BY EndCounts
<1>4. /\ DOMAIN context' = DOMAIN context \ {s}
      /\ \A t \in DOMAIN context' : context'[t] = context[t]
  BY <1>1 DEF Without, Restrict
<1> DEFINE A == [set : IpSetId, port : Port]
           G == [set : IpSetId, ip : IP]
           C == SUBSET Addr
<1>a. /\ IsMap(admitted, DOMAIN context, A) /\ IsMap(guards, DOMAIN admitted, G)
      /\ IsMap(candidates, DOMAIN admitted, C) /\ IsMap(remote, DOMAIN admitted, Addr)
  BY <1>2 DEF TypeOK
<1> HIDE DEF A, G, C
<1>5. /\ DOMAIN admitted' = DOMAIN admitted \ {s}
      /\ \A t \in DOMAIN admitted' : admitted'[t] = admitted[t]
  BY <1>1, <1>a, WithoutKey
<1>6. /\ IsMap(admitted', DOMAIN context', A)
      /\ IsMap(guards', DOMAIN admitted', G)
      /\ IsMap(candidates', DOMAIN admitted', C)
      /\ IsMap(remote', DOMAIN admitted', Addr)
  <2>1. IsMap(admitted', DOMAIN context', A)
    BY <1>1, <1>4, <1>a DEF IsMap, Without, Restrict
  <2>2. IsMap(guards', DOMAIN admitted', G)
    BY <1>1, <1>5, <1>a DEF IsMap, Without, Restrict
  <2>3. IsMap(candidates', DOMAIN admitted', C)
    BY <1>1, <1>5, <1>a DEF IsMap, Without, Restrict
  <2>4. IsMap(remote', DOMAIN admitted', Addr)
    BY <1>1, <1>5, <1>a DEF IsMap, Without, Restrict
  <2>5. QED
    BY <2>1, <2>2, <2>3, <2>4
<1>7. /\ DOMAIN candidates' = DOMAIN candidates \ {s}
      /\ \A t \in DOMAIN candidates' : candidates'[t] = candidates[t]
      /\ DOMAIN remote' = DOMAIN remote \ {s}
      /\ \A t \in DOMAIN remote' : remote'[t] = remote[t]
  BY <1>1, <1>2, WithoutKey DEF TypeOK
<1>8. /\ IsFiniteSet(DOMAIN context') /\ Cardinality(DOMAIN context) \in Nat
      /\ Cardinality(DOMAIN context') = Cardinality(DOMAIN context) - 1
      /\ Cardinality(DOMAIN context') \in Nat
  BY <1>2, <1>4, FS_RemoveElement, FS_CardinalityType DEF Finite
<1>9. permits' + Cardinality(DOMAIN context') = MaxAccepts /\ permits' \in 0 .. MaxAccepts
  <2>1. permits \in Nat /\ MaxAccepts \in Nat /\ permits + Cardinality(DOMAIN context) = MaxAccepts
    BY <1>2, RelayAssumption DEF TypeOK, NothingLeaks
  <2>2. QED
    BY <1>1, <1>8, <2>1
<1>10. NothingLeaks'
  <2>1. Counted' /\ (permits + Cardinality(DOMAIN context) = MaxAccepts)'
    BY <1>3, <1>9
  <2>2. (Counted /\ permits + Cardinality(DOMAIN context) = MaxAccepts)' => NothingLeaks'
    BY LeaksSplit, PTL
  <2>3. QED
    BY <2>1, <2>2
<1>11. Finite'
  BY <1>2, <1>3, <1>8, FS_Subset DEF Finite
<1>12. TypeOK'
  <2>1. \A u \in User, g \in Gen : IsMap(ips'[u][g], IP, Nat \ {0})
    BY <1>3, IpSetsAreMaps
  <2>2. QED
    BY <1>1, <1>2, <1>4, <1>6, <1>9, <2>1 DEF TypeOK, A, G, C
<1>13. LimitsPublished'
  <2>1. Published(tables) /\ \A t \in DOMAIN context : Published(context[t].tables)
    BY <1>2 DEF LimitsPublished
  <2>2. \A t \in DOMAIN context' : Published(context'[t].tables)
    BY <1>4, <2>1
  <2>3. QED
    BY <1>1, <2>1, <2>2 DEF LimitsPublished, Published
<1>14. DeviceCap'
  <2>1. ASSUME NEW u \in User, NEW g \in Gen PROVE Cardinality(DOMAIN ips'[u][g]) <= peak[u][g]
    <3> DEFINE S == DOMAIN ips[u][g]
               T == DOMAIN ips'[u][g]
               n == peak[u][g]
    <3>1. IsFiniteSet(S) /\ T \subseteq S /\ n \in Nat /\ Cardinality(S) <= n
      BY <1>2, <1>3 DEF Finite, DeviceCap, TypeOK
    <3> HIDE DEF S, T, n
    <3>2. Cardinality(T) \in Nat /\ Cardinality(S) \in Nat /\ Cardinality(T) <= Cardinality(S)
      BY <3>1, FS_Subset, FS_CardinalityType
    <3>3. Cardinality(T) <= n
      BY <3>1, <3>2
    <3>4. QED
      BY <3>3 DEF T, n
  <2>2. QED
    BY <1>1, <2>1 DEF DeviceCap
<1>15. TargetsAllowed'
  <2>1. /\ DOMAIN candidates' \subseteq DOMAIN admitted' /\ DOMAIN remote' \subseteq DOMAIN admitted'
        /\ DOMAIN admitted' \subseteq DOMAIN context'
    BY <1>6 DEF IsMap
  <2>2. QED
    BY <1>2, <1>4, <1>5, <1>7, <2>1, TargetsKept
<1>16. QED
  BY <1>3, <1>10, <1>11, <1>12, <1>13, <1>14, <1>15 DEF TcpInv

\* acquire counts the new guard, and keeps the number of addresses within the
\* limit it was given.
LEMMA AcquireCounts ==
  ASSUME TcpInv, NEW s \in DOMAIN context \ DOMAIN admitted, NEW c \in IpSetId, NEW ip \in IP,
         NEW limit \in Nat, limit > 0, limit <= peak[c.user][c.gen], MayAcquire(c, ip, limit),
         ips' = Acquired(c, ip), guards' = Put(guards, s, [set |-> c, ip |-> ip]), peak' = peak
  PROVE  /\ ips' \in [User -> [Gen -> IpSet]] /\ Counted' /\ DeviceCap'
         /\ \A u \in User, g \in Gen : IsFiniteSet(DOMAIN ips'[u][g])
<1>1. c.user \in User /\ c.gen \in Gen /\ c = [user |-> c.user, gen |-> c.gen]
  BY DEF IpSetId
<1>2. /\ TypeOK /\ ips \in [User -> [Gen -> IpSet]] /\ Counted /\ DeviceCap /\ Finite
  BY LeaksSplit DEF TcpInv
<1>3. s \notin DOMAIN guards
  BY <1>2 DEF TypeOK, IsMap
<1>4. /\ ips' \in [User -> [Gen -> IpSet]]
      /\ DOMAIN ips'[c.user][c.gen] = DOMAIN IPs(c) \cup {ip}
  BY <1>2, AcquiredSets
<1>5. \A u \in User, g \in Gen : u # c.user \/ g # c.gen => ips'[u][g] = ips[u][g]
  BY <1>2, AcquiredSets
<1>6. \A u \in User, g \in Gen, j \in IP :
        /\ Count(ips[u][g], j) \in Nat
        /\ Count(ips'[u][g], j) = IF u = c.user /\ g = c.gen /\ j = ip
                                  THEN Count(ips[u][g], j) + 1 ELSE Count(ips[u][g], j)
  BY <1>2, AcquiredSets
<1>7. ASSUME NEW u \in User, NEW g \in Gen, NEW j \in IP
      PROVE  Cardinality(Holders(u, g, j)') = Count(ips'[u][g], j)
  <2> DEFINE H == Holders(u, g, j)
  <2>1. IsFiniteSet(H) /\ Cardinality(H) = Count(ips[u][g], j) /\ s \notin H
    BY <1>2, <1>3, HoldersFinite DEF Counted, Holders
  <2>2. /\ DOMAIN guards' = DOMAIN guards \cup {s} /\ guards'[s] = [set |-> c, ip |-> ip]
        /\ \A t \in DOMAIN guards : guards'[t] = guards[t]
    BY <1>3 DEF Put
  <2>3. CASE u = c.user /\ g = c.gen /\ j = ip
    <3>1. Holders(u, g, j)' = H \cup {s}
      BY <1>1, <2>2, <2>3 DEF Holders
    <3>2. Cardinality(H \cup {s}) = Cardinality(H) + 1
      BY <2>1, FS_AddElement
    <3>3. Count(ips'[u][g], j) = Count(ips[u][g], j) + 1
      BY <1>6, <2>3
    <3> HIDE DEF H
    <3>4. QED
      BY <2>1, <3>1, <3>2, <3>3
  <2>4. CASE ~(u = c.user /\ g = c.gen /\ j = ip)
    <3>1. guards'[s] # [set |-> [user |-> u, gen |-> g], ip |-> j]
      BY <1>1, <2>2, <2>4
    <3>2. Holders(u, g, j)' = H
      BY <2>2, <3>1 DEF Holders
    <3>3. QED
      BY <1>6, <2>1, <2>4, <3>2
  <2>5. QED
    BY <2>3, <2>4
<1>8. Counted'
  BY <1>7 DEF Counted
<1>9. IsFiniteSet(DOMAIN IPs(c)) /\ Cardinality(DOMAIN IPs(c)) <= peak[c.user][c.gen]
  BY <1>1, <1>2 DEF Finite, DeviceCap, IPs
<1>10. /\ IsFiniteSet(DOMAIN IPs(c) \cup {ip})
       /\ Cardinality(DOMAIN IPs(c) \cup {ip}) <= peak[c.user][c.gen]
  <2> DEFINE S == DOMAIN IPs(c)
             n == peak[c.user][c.gen]
  <2>1. n \in Nat /\ IsFiniteSet(S) /\ Cardinality(S) <= n /\ Cardinality(S) \in Nat /\ limit <= n
    BY <1>1, <1>2, <1>9, FS_CardinalityType DEF TypeOK
  <2>2. ip \in S \/ limit = 0 \/ Cardinality(S) < limit
    BY DEF MayAcquire
  <2> HIDE DEF S, n
  <2>3. CASE ip \in S
    <3>1. S \cup {ip} = S
      BY <2>3
    <3>2. QED
      BY <2>1, <3>1 DEF S, n
  <2>4. CASE ip \notin S
    <3>1. IsFiniteSet(S \cup {ip}) /\ Cardinality(S \cup {ip}) = Cardinality(S) + 1
      BY <2>1, <2>4, FS_AddElement
    <3>2. Cardinality(S) < limit
      BY <2>2, <2>4
    <3>3. Cardinality(S \cup {ip}) <= n
      BY <2>1, <3>1, <3>2
    <3>4. QED
      BY <3>1, <3>3 DEF S, n
  <2>5. QED
    BY <2>3, <2>4
<1>11. ASSUME NEW u \in User, NEW g \in Gen
       PROVE  IsFiniteSet(DOMAIN ips'[u][g]) /\ Cardinality(DOMAIN ips'[u][g]) <= peak[u][g]
  <2>1. CASE u = c.user /\ g = c.gen
    BY <1>4, <1>10, <2>1
  <2>2. CASE u # c.user \/ g # c.gen
    BY <1>2, <1>5, <2>2 DEF Finite, DeviceCap
  <2>3. QED
    BY <2>1, <2>2
<1>12. QED
  BY <1>4, <1>8, <1>11 DEF DeviceCap

\* Letting a session in keeps the books in order and the limit.
LEMMA AdmitTcp ==
  ASSUME TcpInv, NEW s, NEW u, NEW port \in Port, Admit(s, u, port)
  PROVE  TcpInv'
<1> DEFINE p == PolicyOf(context[s].tables, u)
           c == SetOf(s, u)
           ip == context[s].ip
<1>1. /\ s \in DOMAIN context \ DOMAIN admitted /\ u \in DOMAIN context[s].tables.conns
      /\ \/ /\ Limited(p) /\ MayAcquire(c, ip, p.conn_limit)
            /\ ips' = Acquired(c, ip) /\ guards' = Put(guards, s, [set |-> c, ip |-> ip])
         \/ ips' = ips /\ guards' = guards
      /\ admitted' = Put(admitted, s, [set |-> c, port |-> port])
      /\ UNCHANGED <<sets, created, tables, pc, live, peak, permits, context, candidates, remote>>
  BY DEF Admit, Authenticated, syncVars
<1>2. /\ TypeOK /\ ips \in [User -> [Gen -> IpSet]] /\ Finite /\ NothingLeaks
      /\ LimitsPublished /\ DeviceCap /\ TargetsAllowed /\ Counted
      /\ permits + Cardinality(DOMAIN context) = MaxAccepts
  BY LeaksSplit DEF TcpInv
<1>3. /\ c \in IpSetId /\ ip \in IP /\ c.user = u /\ c.gen = context[s].tables.conns[u]
      /\ p.conn_limit \in Nat
  <2>1. /\ IsMap(context[s].tables.conns, User, Gen) /\ ip \in IP
        /\ IsMap(context[s].tables.policies, User, Policy)
    BY <1>1, <1>2 DEF TypeOK
  <2>2. u \in User /\ context[s].tables.conns[u] \in Gen
    BY <1>1, <2>1 DEF IsMap
  <2>3. p.conn_limit \in Nat
    BY <2>1, RelayAssumption DEF PolicyOf, NoPolicy, IsMap, UserPolicy
  <2>4. QED
    BY <2>1, <2>2, <2>3 DEF SetOf, IpSetId
<1>4. p.conn_limit <= peak[c.user][c.gen]
  BY <1>1, <1>2, <1>3 DEF LimitsPublished, Published
<1> DEFINE limit == p.conn_limit
<1> HIDE DEF p, c, ip
<1>5. /\ ips' \in [User -> [Gen -> IpSet]] /\ Counted' /\ DeviceCap'
      /\ \A v \in User, g \in Gen : IsFiniteSet(DOMAIN ips'[v][g])
  <2>1. CASE /\ Limited(p) /\ MayAcquire(c, ip, p.conn_limit)
             /\ ips' = Acquired(c, ip) /\ guards' = Put(guards, s, [set |-> c, ip |-> ip])
    <3>1. /\ limit \in Nat /\ limit > 0 /\ limit <= peak[c.user][c.gen]
          /\ MayAcquire(c, ip, limit)
      BY <1>3, <1>4, <2>1 DEF Limited
    <3> HIDE DEF limit
    <3>2. QED
      BY <1>1, <1>3, <2>1, <3>1, AcquireCounts
  <2>2. CASE ips' = ips /\ guards' = guards
    BY <1>1, <1>2, <2>2 DEF Counted, Holders, DeviceCap, Finite
  <2>3. QED
    BY <1>1, <2>1, <2>2
<1>6. NothingLeaks'
  <2>1. Counted' /\ (permits + Cardinality(DOMAIN context) = MaxAccepts)'
    BY <1>1, <1>2, <1>5
  <2>2. (Counted /\ permits + Cardinality(DOMAIN context) = MaxAccepts)' => NothingLeaks'
    BY LeaksSplit, PTL
  <2>3. QED
    BY <2>1, <2>2
<1>7. /\ DOMAIN admitted' = DOMAIN admitted \cup {s}
      /\ \A t \in DOMAIN admitted : admitted'[t] = admitted[t]
  BY <1>1 DEF Put
<1>8. TypeOK'
  <2> DEFINE A == [set : IpSetId, port : Port]
             G == [set : IpSetId, ip : IP]
  <2>1. /\ IsMap(admitted, DOMAIN context, A) /\ [set |-> c, port |-> port] \in A
        /\ IsMap(guards, DOMAIN admitted, G) /\ [set |-> c, ip |-> ip] \in G
        /\ IsMap(candidates, DOMAIN admitted, SUBSET Addr) /\ IsMap(remote, DOMAIN admitted, Addr)
    BY <1>2, <1>3 DEF TypeOK
  <2> HIDE DEF A, G
  <2>2. IsMap(admitted', DOMAIN context, A)
    BY <1>1, <2>1 DEF IsMap, Put
  <2>3. IsMap(guards', DOMAIN admitted', G)
    <3>1. CASE guards' = guards
      BY <1>7, <2>1, <3>1 DEF IsMap
    <3>2. CASE guards' = Put(guards, s, [set |-> c, ip |-> ip])
      BY <1>7, <2>1, <3>2 DEF IsMap, Put
    <3>3. QED
      BY <1>1, <3>1, <3>2
  <2>4. IsMap(candidates', DOMAIN admitted', SUBSET Addr) /\ IsMap(remote', DOMAIN admitted', Addr)
    BY <1>1, <1>7, <2>1 DEF IsMap
  <2>5. \A v \in User, g \in Gen : IsMap(ips'[v][g], IP, Nat \ {0})
    BY <1>5, IpSetsAreMaps
  <2>6. QED
    BY <1>1, <1>2, <2>2, <2>3, <2>4, <2>5 DEF TypeOK, A, G
<1>9. TargetsAllowed'
  <2>1. DOMAIN candidates \subseteq DOMAIN admitted /\ DOMAIN remote \subseteq DOMAIN admitted
    BY <1>2 DEF TypeOK, IsMap
  <2>2. QED
    BY <1>1, <1>2, <1>7, <2>1, TargetsKept
<1>10. Finite' /\ LimitsPublished'
  BY <1>1, <1>2, <1>5 DEF Finite, LimitsPublished, Published
<1>11. QED
  BY <1>5, <1>6, <1>8, <1>9, <1>10 DEF TcpInv

----------------------------------------------------------------------------
(* connect_target_checked. *)

\* A step that only moves a session towards its target, to addresses its policy
\* allows.
LEMMA TargetTcp ==
  ASSUME TcpInv, UNCHANGED <<sets, created, tables, pc, live, peak, ips, permits, context, admitted, guards>>,
         IsMap(candidates', DOMAIN admitted, SUBSET Addr), IsMap(remote', DOMAIN admitted, Addr),
         TargetsAllowed'
  PROVE  TcpInv'
<1>1. TypeOK'
  BY DEF TcpInv, TypeOK
<1>2. NothingLeaks' /\ Finite' /\ DeviceCap' /\ LimitsPublished' /\ ips' \in [User -> [Gen -> IpSet]]
  BY DEF TcpInv, NothingLeaks, Holders, Finite, DeviceCap, LimitsPublished, Published
<1>3. QED
  BY <1>1, <1>2 DEF TcpInv

\* Every connect reaches an address the session's own policy allows.
LEMMA ConnectTcp ==
  ASSUME TcpInv, NEW s,
         \/ \E a \in Addr : ConnectUnchecked(s, a) \/ ConnectFails(s, a) \/ ConnectChecked(s, a)
         \/ \E resolved \in SUBSET Addr : Resolve(s, resolved)
  PROVE  TcpInv'
<1>1. /\ IsMap(candidates, DOMAIN admitted, SUBSET Addr) /\ IsMap(remote, DOMAIN admitted, Addr)
      /\ TargetsAllowed
  BY DEF TcpInv, TypeOK
<1>2. UNCHANGED <<sets, created, tables, pc, live, peak, ips, permits, context, admitted, guards>>
  BY DEF ConnectUnchecked, ConnectFails, ConnectChecked, Resolve, syncVars
<1>3. \A t : PolicyFor(t)' = PolicyFor(t)
  BY <1>2 DEF PolicyFor
<1>4. ASSUME NEW a \in Addr, ConnectUnchecked(s, a) PROVE TcpInv'
  <2>1. /\ s \in DOMAIN admitted /\ candidates' = candidates /\ remote' = Put(remote, s, a)
        /\ EnforceForbidden => /\ admitted[s].port \notin PolicyFor(s).forbidden_ports
                               /\ PolicyFor(s).forbidden_ips = {}
    BY <1>4 DEF ConnectUnchecked, Connecting, PortForbidden, IpCheck
  <2>2. IsMap(remote', DOMAIN admitted, Addr)
    BY <1>1, <2>1 DEF IsMap, Put
  <2>3. TargetsAllowed'
    BY <1>1, <1>2, <1>3, <2>1 DEF TargetsAllowed, ForbiddenNeverReached, Put
  <2>4. QED
    BY <1>1, <1>2, <2>1, <2>2, <2>3, TargetTcp
<1>5. ASSUME NEW resolved \in SUBSET Addr, Resolve(s, resolved) PROVE TcpInv'
  <2>1. /\ s \in DOMAIN admitted /\ remote' = remote
        /\ candidates' = Put(candidates, s, Allowed(s, resolved))
        /\ Allowed(s, resolved) \subseteq Addr
        /\ Allowed(s, resolved) \cap PolicyFor(s).forbidden_ips = {}
        /\ EnforceForbidden => admitted[s].port \notin PolicyFor(s).forbidden_ports
    BY <1>5 DEF Resolve, Connecting, PortForbidden, Allowed
  <2>2. IsMap(candidates', DOMAIN admitted, SUBSET Addr)
    BY <1>1, <2>1 DEF IsMap, Put
  <2>3. TargetsAllowed'
    BY <1>1, <1>2, <1>3, <2>1 DEF TargetsAllowed, ForbiddenNeverReached, Put
  <2>4. QED
    BY <1>1, <1>2, <2>1, <2>2, <2>3, TargetTcp
<1>6. ASSUME NEW a \in Addr, ConnectFails(s, a) PROVE TcpInv'
  <2>1. /\ s \in DOMAIN candidates /\ remote' = remote
        /\ candidates' = [candidates EXCEPT ![s] = @ \ {a}]
    BY <1>6 DEF ConnectFails
  <2>2. IsMap(candidates', DOMAIN admitted, SUBSET Addr)
    BY <1>1, <2>1 DEF IsMap
  <2>3. \A t \in DOMAIN candidates' : t \in DOMAIN candidates /\ candidates'[t] \subseteq candidates[t]
    BY <1>1, <2>1 DEF IsMap
  <2>4. TargetsAllowed'
    BY <1>1, <1>2, <2>1, <2>3, TargetsKept
  <2>5. QED
    BY <1>1, <1>2, <2>1, <2>2, <2>4, TargetTcp
<1>7. ASSUME NEW a \in Addr, ConnectChecked(s, a) PROVE TcpInv'
  <2>1. /\ s \in DOMAIN candidates /\ a \in candidates[s] /\ candidates' = candidates
        /\ remote' = Put(remote, s, a)
    BY <1>7 DEF ConnectChecked, DialTargets
  <2>2. IsMap(remote', DOMAIN admitted, Addr)
    BY <1>1, <2>1 DEF IsMap, Put
  <2>3. EnforceForbidden => /\ a \notin PolicyFor(s).forbidden_ips
                            /\ admitted[s].port \notin PolicyFor(s).forbidden_ports
    BY <1>1, <2>1 DEF TargetsAllowed
  <2>4. TargetsAllowed'
    BY <1>1, <1>2, <1>3, <2>1, <2>3 DEF TargetsAllowed, ForbiddenNeverReached, Put
  <2>5. QED
    BY <1>1, <1>2, <2>1, <2>2, <2>4, TargetTcp
<1>8. QED
  BY <1>4, <1>5, <1>6, <1>7

----------------------------------------------------------------------------
\* Every step keeps the invariant.
LEMMA NextTcp == TcpInv /\ [Next]_vars => TcpInv'
<1> SUFFICES ASSUME TcpInv, [Next]_vars PROVE TcpInv'
  OBVIOUS
<1>1. CASE \E listed \in Listed : SyncPublish(listed)
  BY <1>1, PublishTcp
<1>2. CASE SyncRemoveStale
  BY <1>2, RemoveStaleTcp
<1>3. ASSUME NEW s \in Session, SessionStep(s) PROVE TcpInv'
  <2>1. CASE \E ip \in IP : Accept(s, ip)
    BY <2>1, AcceptTcp
  <2>2. CASE \E u \in User : Refuse(s, u)
    BY <2>2, EndTcp DEF Refuse, Authenticated
  <2>3. CASE \E u \in User, port \in Port : Admit(s, u, port)
    BY <2>3, AdmitTcp
  <2>4. CASE \/ \E a \in Addr : ConnectUnchecked(s, a) \/ ConnectFails(s, a) \/ ConnectChecked(s, a)
             \/ \E resolved \in SUBSET Addr : Resolve(s, resolved)
    BY <2>4, ConnectTcp
  <2>5. CASE Close(s)
    BY <2>5, EndTcp DEF Close
  <2>6. QED
    BY <1>3, <2>1, <2>2, <2>3, <2>4, <2>5 DEF SessionStep
<1>4. CASE UNCHANGED vars
  <2>1. UNCHANGED <<sets, created, tables, pc, live, peak, ips, permits, context, admitted, guards,
                    candidates, remote>>
    BY <1>4 DEF vars, syncVars, sessVars
  <2>2. TargetsAllowed'
    BY <2>1 DEF TcpInv, TargetsAllowed, ForbiddenNeverReached, PolicyFor
  <2>3. IsMap(candidates', DOMAIN admitted, SUBSET Addr) /\ IsMap(remote', DOMAIN admitted, Addr)
    BY <2>1 DEF TcpInv, TypeOK
  <2>4. QED
    BY <2>1, <2>2, <2>3, TargetTcp
<1>5. QED
  BY <1>1, <1>2, <1>3, <1>4 DEF Next

\* The inductive invariant holds in every behaviour of a listener.
THEOREM TcpInvariant == Spec => []TcpInv
BY InitTcp, NextTcp, PTL DEF Spec

\* Types: maps stay maps, an address in an IP set has at least one guard, and
\* only admitted sessions hold guards and connections.
THEOREM TcpTypeCorrect == Spec => []TypeOK
<1>1. TcpInv => TypeOK
  BY DEF TcpInv
<1>2. QED
  BY <1>1, TcpInvariant, PTL

\* Every guard is counted once and every count is a guard, and every permit is
\* free or held, whatever the way out of handle_stream and whatever the panel
\* does to the user in between.
THEOREM NothingLeaksHolds == Spec => []NothingLeaks
<1>1. TcpInv => NothingLeaks
  BY DEF TcpInv
<1>2. QED
  BY <1>1, TcpInvariant, PTL

\* However many sessions decide with stale snapshots, the devices in an IP set
\* never exceed the largest limit ever published with it.
THEOREM DeviceCapHolds == Spec => []DeviceCap
<1>1. TcpInv => DeviceCap
  BY DEF TcpInv
<1>2. QED
  BY <1>1, TcpInvariant, PTL

\* No session is ever connected to what its policy forbids, whatever the
\* resolver answers from one lookup to the next.
THEOREM ForbiddenNeverReachedHolds == Spec => []ForbiddenNeverReached
<1>1. TcpInv => ForbiddenNeverReached
  BY DEF TcpInv, TargetsAllowed
<1>2. QED
  BY <1>1, TcpInvariant, PTL

\* A user that stays listed keeps its IP set, and a poll never touches the
\* addresses in one.
THEOREM SetsPersistHolds == Spec => SetsPersist
<1> DEFINE Persist == /\ \A u \in DOMAIN sets \cap DOMAIN sets' : sets'[u] = sets[u]
                      /\ pc' # pc => ips' = ips
<1>1. ASSUME Next PROVE Persist
  <2>1. CASE \E listed \in Listed : SyncPublish(listed)
    BY <2>1 DEF SyncPublish, EnsureSets
  <2>2. CASE SyncRemoveStale
    BY <2>2 DEF SyncRemoveStale, Restrict
  <2>3. ASSUME NEW s \in Session, SessionStep(s) PROVE Persist
    <3>1. UNCHANGED <<sets, pc>>
      BY <2>3 DEF SessionStep, Accept, Refuse, Admit, ConnectUnchecked, ConnectFails, ConnectChecked,
                  Resolve, Close, End, syncVars
    <3>2. QED
      BY <3>1
  <2>4. QED
    BY <1>1, <2>1, <2>2, <2>3 DEF Next
<1>2. [Next]_vars => [Persist]_vars
  BY <1>1
<1>3. QED
  BY <1>2, PTL DEF Spec, SetsPersist
=============================================================================
