--------------------------- MODULE UdpRelayProofs ---------------------------
(***************************************************************************)
(* Proofs about UdpRelay, for every set of users, peers, addresses and     *)
(* policies, every time to live and every capacity.                        *)
(***************************************************************************)
EXTENDS UdpRelay, FiniteSetTheorems, TLAPS

----------------------------------------------------------------------------
(* What the operations of a BoundedTtlMap keep, for every kind of key and  *)
(* value, every time to live and every capacity.                           *)

\* Entries with values in V that were last seen at times in T.
Entries(V, T) == [value : V, last_seen : T]

\* A map of at most capacity entries with keys in K and entries in E.
Bounded(m, K, E, capacity) ==
  /\ IsMap(m, K, E)
  /\ IsFiniteSet(DOMAIN m)
  /\ Cardinality(DOMAIN m) <= capacity

\* An empty map is within every bound.
LEMMA EmptyBounded ==
  ASSUME NEW K, NEW E, NEW capacity \in Nat
  PROVE  Bounded(<< >>, K, E, capacity)
<1>1. DOMAIN << >> = {}
  OBVIOUS
<1>2. QED
  BY <1>1, FS_EmptySet DEF Bounded, IsMap

\* Entries that leave take nothing else with them: what retain and expire keep
\* is as it was.
LEMMA RestrictBounded ==
  ASSUME NEW m, NEW K, NEW E, NEW capacity \in Nat, Bounded(m, K, E, capacity),
         NEW S, S \subseteq DOMAIN m
  PROVE  /\ Bounded(Restrict(m, S), K, E, capacity)
         /\ DOMAIN Restrict(m, S) = S
         /\ \A k \in S : Restrict(m, S)[k] = m[k]
<1>1. DOMAIN Restrict(m, S) = S /\ \A k \in S : Restrict(m, S)[k] = m[k]
  BY DEF Restrict
<1>2. IsMap(Restrict(m, S), K, E)
  BY DEF Restrict, Bounded, IsMap
<1>3. IsFiniteSet(S) /\ Cardinality(S) <= Cardinality(DOMAIN m)
  BY FS_Subset DEF Bounded
<1>4. Cardinality(S) \in Nat /\ Cardinality(DOMAIN m) \in Nat
  BY <1>3, FS_CardinalityType DEF Bounded
<1>5. QED
  BY <1>1, <1>2, <1>3, <1>4 DEF Bounded

\* evict_expired drops the expired entries and no other.
LEMMA EvictExpiredBounded ==
  ASSUME NEW m, NEW K, NEW E, NEW capacity \in Nat, Bounded(m, K, E, capacity),
         NEW time, NEW ttl, NEW r, r = EvictExpired(m, time, ttl)
  PROVE  /\ Bounded(r, K, E, capacity)
         /\ DOMAIN r \subseteq DOMAIN m
         /\ \A k \in DOMAIN m : k \in DOMAIN r <=> ~Expired(m, k, time, ttl)
         /\ \A k \in DOMAIN r : r[k] = m[k]
<1> DEFINE S == {k \in DOMAIN m : ~Expired(m, k, time, ttl)}
<1>1. S \subseteq DOMAIN m
  OBVIOUS
<1>2. r = Restrict(m, S)
  BY DEF EvictExpired
<1> HIDE DEF S
<1>3. /\ Bounded(Restrict(m, S), K, E, capacity)
      /\ DOMAIN Restrict(m, S) = S
      /\ \A k \in S : Restrict(m, S)[k] = m[k]
  BY <1>1, RestrictBounded
<1>4. QED
  BY <1>2, <1>3 DEF S

\* touch changes one time and no key.
LEMMA TouchBounded ==
  ASSUME NEW m, NEW K, NEW V, NEW T, NEW capacity \in Nat,
         Bounded(m, K, Entries(V, T), capacity), NEW k, NEW time \in T,
         NEW r, r = Touch(m, k, time)
  PROVE  /\ Bounded(r, K, Entries(V, T), capacity)
         /\ DOMAIN r = DOMAIN m
         /\ \A j \in DOMAIN m : j # k => r[j] = m[j]
         /\ k \in DOMAIN m => r[k].last_seen = time /\ r[k].value = m[k].value
<1>1. CASE k \in DOMAIN m
  <2>1. r = [m EXCEPT ![k].last_seen = time]
    BY <1>1 DEF Touch
  <2>2. \A j \in DOMAIN m : m[j] \in Entries(V, T)
    BY DEF Bounded, IsMap
  <2>3. m = [j \in DOMAIN m |-> m[j]]
    BY DEF Bounded, IsMap
  <2>4. DOMAIN r = DOMAIN m /\ \A j \in DOMAIN m : j # k => r[j] = m[j]
    BY <2>1
  <2>5. r[k] \in Entries(V, T) /\ r[k].last_seen = time /\ r[k].value = m[k].value
    BY <1>1, <2>1, <2>2 DEF Entries
  <2>6. r = [j \in DOMAIN m |-> r[j]]
    BY <2>1, <2>3
  <2>7. IsMap(r, K, Entries(V, T))
    BY <2>2, <2>4, <2>5, <2>6 DEF IsMap, Bounded
  <2>8. QED
    BY <2>4, <2>5, <2>7 DEF Bounded
<1>2. CASE k \notin DOMAIN m
  BY <1>2 DEF Touch
<1>3. QED
  BY <1>1, <1>2

\* evict_oldest drops one entry, and no entry was seen before it.
LEMMA EvictOldestBounded ==
  ASSUME NEW m, NEW K, NEW E, NEW capacity \in Nat, Bounded(m, K, E, capacity),
         DOMAIN m # {}, NEW n \in EvictOldest(m)
  PROVE  \E k \in OldestKeys(m) :
           /\ DOMAIN n = DOMAIN m \ {k}
           /\ \A j \in DOMAIN n : n[j] = m[j]
           /\ Bounded(n, K, E, capacity)
           /\ Cardinality(DOMAIN n) = Cardinality(DOMAIN m) - 1
<1>1. m # << >>
  OBVIOUS
<1>2. PICK k \in OldestKeys(m) : n = Without(m, k)
  BY <1>1 DEF EvictOldest
<1>3. k \in DOMAIN m
  BY DEF OldestKeys
<1> DEFINE S == DOMAIN m \ {k}
<1>4. S \subseteq DOMAIN m /\ n = Restrict(m, S)
  BY <1>2 DEF Without
<1>5. Cardinality(S) = Cardinality(DOMAIN m) - 1
  BY <1>3, FS_RemoveElement DEF Bounded
<1> HIDE DEF S
<1>6. /\ Bounded(Restrict(m, S), K, E, capacity)
      /\ DOMAIN Restrict(m, S) = S
      /\ \A j \in S : Restrict(m, S)[j] = m[j]
  BY <1>4, RestrictBounded
<1>7. QED
  BY <1>4, <1>5, <1>6 DEF S

\* An entry may be put where there is room, or where there is one already.
MayPut(m, k, v, K, E, capacity) ==
  /\ Bounded(m, K, E, capacity) /\ k \in K /\ v \in E
  /\ k \in DOMAIN m \/ Cardinality(DOMAIN m) < capacity

\* r is m with the entry v for k.
IsPut(r, m, k, v, K, E, capacity) ==
  /\ Bounded(r, K, E, capacity)
  /\ DOMAIN r = DOMAIN m \cup {k} /\ r[k] = v
  /\ \A j \in DOMAIN m : j # k => r[j] = m[j]

\* Putting an entry.
LEMMA PutBounded ==
  ASSUME NEW m, NEW K, NEW E, NEW capacity \in Nat, NEW k, NEW v,
         MayPut(m, k, v, K, E, capacity)
  PROVE  IsPut(Put(m, k, v), m, k, v, K, E, capacity)
<1>0. PICK r : r = Put(m, k, v)
  OBVIOUS
<1>1. IsMap(r, K, E)
  BY <1>0 DEF MayPut, Bounded, IsMap, Put
<1>2. /\ DOMAIN r = DOMAIN m \cup {k} /\ r[k] = v
      /\ \A j \in DOMAIN m : j # k => r[j] = m[j]
  BY <1>0 DEF Put
<1>3. /\ IsFiniteSet(DOMAIN m) /\ Cardinality(DOMAIN m) \in Nat
      /\ Cardinality(DOMAIN m) <= capacity
  BY FS_CardinalityType DEF MayPut, Bounded
<1>4. IsFiniteSet(DOMAIN m \cup {k}) /\ Cardinality(DOMAIN m \cup {k}) <= capacity
  <2>1. CASE k \in DOMAIN m
    <3>1. DOMAIN m \cup {k} = DOMAIN m
      BY <2>1
    <3>2. QED
      BY <1>3, <3>1
  <2>2. CASE k \notin DOMAIN m
    <3>1. /\ IsFiniteSet(DOMAIN m \cup {k})
          /\ Cardinality(DOMAIN m \cup {k}) = Cardinality(DOMAIN m) + 1
      BY <1>3, <2>2, FS_AddElement
    <3>2. QED
      BY <1>3, <2>2, <3>1 DEF MayPut
  <2>3. QED
    BY <2>1, <2>2
<1>5. QED
  BY <1>0, <1>1, <1>2, <1>4 DEF IsPut, Bounded

\* insert stays within the capacity.  The key is in, with the value and the
\* time given; an entry that left was expired, or the map was full of entries
\* none of which was seen before it, and is full again.
LEMMA InsertsBounded ==
  ASSUME NEW m, NEW K, NEW E, NEW capacity \in Nat \ {0}, Bounded(m, K, E, capacity),
         NEW k \in K, NEW v, NEW time, NEW ttl, Entry(v, time) \in E,
         NEW r \in Inserts(m, k, v, time, ttl, capacity)
  PROVE  /\ Bounded(r, K, E, capacity)
         /\ k \in DOMAIN r /\ r[k] = Entry(v, time)
         /\ DOMAIN r \subseteq DOMAIN m \cup {k}
         /\ \A j \in DOMAIN r : j # k => r[j] = m[j]
         /\ \A j \in DOMAIN m \ DOMAIN r :
              \/ Expired(m, j, time, ttl)
              \/ /\ j \in OldestKeys(m)
                 /\ Cardinality(DOMAIN m) = capacity /\ Cardinality(DOMAIN r) = capacity
<1>0. capacity \in Nat
  OBVIOUS
<1> DEFINE e == EvictExpired(m, time, ttl)
<1>1. PICK n \in MakeRoom(e, k, capacity) : r = Put(n, k, Entry(v, time))
  BY DEF Inserts
<1>2. /\ Bounded(e, K, E, capacity)
      /\ DOMAIN e \subseteq DOMAIN m
      /\ \A j \in DOMAIN m : j \in DOMAIN e <=> ~Expired(m, j, time, ttl)
      /\ \A j \in DOMAIN e : e[j] = m[j]
  BY <1>0, EvictExpiredBounded
<1>3. /\ IsFiniteSet(DOMAIN e) /\ IsFiniteSet(DOMAIN m)
      /\ Cardinality(DOMAIN e) \in Nat /\ Cardinality(DOMAIN m) \in Nat
      /\ Cardinality(DOMAIN e) <= capacity /\ Cardinality(DOMAIN m) <= capacity
      /\ DOMAIN e \subseteq DOMAIN m
  BY <1>2, FS_CardinalityType DEF Bounded
<1> HIDE DEF e
<1>4. CASE k \notin DOMAIN e /\ Cardinality(DOMAIN e) >= capacity
  <2>1. n \in EvictOldest(e)
    BY <1>1, <1>4 DEF MakeRoom
  <2>2. Cardinality(DOMAIN e) = capacity /\ DOMAIN e # {}
    BY <1>3, <1>4, FS_EmptySet
  <2>3. PICK o \in OldestKeys(e) :
          /\ DOMAIN n = DOMAIN e \ {o}
          /\ \A j \in DOMAIN n : n[j] = e[j]
          /\ Bounded(n, K, E, capacity)
          /\ Cardinality(DOMAIN n) = Cardinality(DOMAIN e) - 1
    <3>1. Bounded(e, K, E, capacity) /\ DOMAIN e # {}
      BY <1>2, <2>2
    <3>2. QED
      BY <1>0, <2>1, <3>1, EvictOldestBounded, Zenon
  <2>4. DOMAIN m = DOMAIN e /\ Cardinality(DOMAIN m) = capacity
    <3>1. Cardinality(DOMAIN e) <= Cardinality(DOMAIN m)
      BY <1>3, FS_Subset
    <3>2. Cardinality(DOMAIN m) = Cardinality(DOMAIN e)
      BY <1>3, <2>2, <3>1
    <3>3. QED
      BY <1>3, <2>2, <3>2, FS_Subset
  <2>5. o \in OldestKeys(m)
    BY <1>2, <2>4 DEF OldestKeys
  <2>6. k \notin DOMAIN n /\ Cardinality(DOMAIN n) < capacity /\ IsFiniteSet(DOMAIN n)
    BY <1>3, <1>4, <2>2, <2>3 DEF Bounded
  <2>7. /\ Bounded(r, K, E, capacity)
        /\ DOMAIN r = DOMAIN n \cup {k} /\ r[k] = Entry(v, time)
        /\ \A j \in DOMAIN n : j # k => r[j] = n[j]
    <3>1. MayPut(n, k, Entry(v, time), K, E, capacity)
      BY <2>3, <2>6 DEF MayPut
    <3>2. IsPut(Put(n, k, Entry(v, time)), n, k, Entry(v, time), K, E, capacity)
      BY <1>0, <3>1, PutBounded, Zenon
    <3>3. QED
      BY <1>1, <3>2 DEF IsPut
  <2>8. Cardinality(DOMAIN r) = capacity
    <3>1. Cardinality(DOMAIN n \cup {k}) = Cardinality(DOMAIN n) + 1
      BY <2>6, FS_AddElement
    <3>2. QED
      BY <1>3, <2>2, <2>3, <2>7, <3>1
  <2>9. QED
    BY <1>2, <2>3, <2>4, <2>5, <2>7, <2>8
<1>5. CASE ~(k \notin DOMAIN e /\ Cardinality(DOMAIN e) >= capacity)
  <2>1. n = e /\ (k \in DOMAIN e \/ Cardinality(DOMAIN e) < capacity)
    BY <1>1, <1>3, <1>5 DEF MakeRoom
  <2>2. /\ Bounded(r, K, E, capacity)
        /\ DOMAIN r = DOMAIN e \cup {k} /\ r[k] = Entry(v, time)
        /\ \A j \in DOMAIN e : j # k => r[j] = e[j]
    <3>1. MayPut(e, k, Entry(v, time), K, E, capacity)
      BY <1>2, <2>1 DEF MayPut
    <3>2. IsPut(Put(e, k, Entry(v, time)), e, k, Entry(v, time), K, E, capacity)
      BY <1>0, <3>1, PutBounded, Zenon
    <3>3. QED
      BY <1>1, <2>1, <3>2 DEF IsPut
  <2>3. QED
    BY <1>2, <1>3, <2>2
<1>6. QED
  BY <1>4, <1>5

----------------------------------------------------------------------------
Pump == [peer : Peer, user : User, key : Key, state : {"running", "failed", "aborted"}]
Association == Entries(Nat, 0 .. MaxTime)
PumpKey(p) == <<p.peer, p.user>>

\* Every association has a pump of its own peer and user.
Named(ps, m) == \A k \in DOMAIN m : m[k].value \in DOMAIN ps /\ PumpKey(ps[m[k].value]) = k

\* Every running pump is the one its association names.
Owned(ps, m) ==
  \A i \in DOMAIN ps : ps[i].state = "running" =>
    PumpKey(ps[i]) \in DOMAIN m /\ m[PumpKey(ps[i])].value = i

\* While a datagram is handled it is there, and its port was allowed; once it is
\* resolved, so are the addresses it may go to.
DatagramAllowed ==
  /\ pc \in {"resolving", "opening", "sending"} =>
       datagram \in Datagram /\ ~PortForbidden(datagram.policy, datagram.port)
  /\ pc \in {"opening", "sending"} /\ EnforceForbidden =>
       dest \cap datagram.policy.forbidden_ips = {}

\* The map dates an association with its last datagram.
DatedByUse ==
  \A k \in DOMAIN associations : k \in DOMAIN used /\ used[k] = associations[k].last_seen

\* The inductive invariant.
UdpInv ==
  /\ TypeOK
  /\ Bounded(associations, AssociationKey, Association, MaxAssociations)
  /\ Named(pumps, associations)
  /\ Owned(pumps, associations)
  /\ DatagramAllowed
  /\ DatedByUse

\* The constants, one by one.
LEMMA Limits ==
  /\ MaxAssociations \in Nat \ {0} /\ MaxAssociations \in Nat
  /\ Ttl \in Nat /\ MaxTime \in Nat /\ MaxPumps \in Nat /\ EnforceForbidden \in BOOLEAN
BY UdpAssumption

\* The associations as the type invariant sees them.
LEMMA AssociationsType ==
  ASSUME NEW ps, NEW m, NEW n, Bounded(m, AssociationKey, Association, n), Named(ps, m)
  PROVE  IsMap(m, AssociationKey, [value : DOMAIN ps, last_seen : 0 .. MaxTime])
<1>1. \A k \in DOMAIN m : m[k] \in Association /\ m[k].value \in DOMAIN ps
  BY DEF Bounded, IsMap, Named
<1>2. \A k \in DOMAIN m : m[k] \in [value : DOMAIN ps, last_seen : 0 .. MaxTime]
  BY <1>1 DEF Association, Entries
<1>3. QED
  BY <1>2 DEF Bounded, IsMap

\* Aborting pumps stops the pumps of the associations that left, and changes
\* nothing else.
LEMMA AbortedPumps ==
  ASSUME NEW ps \in Seq(Pump), NEW old, NEW new, NEW qs, qs = Aborted(ps, old, new)
  PROVE  /\ qs \in Seq(Pump) /\ Len(qs) = Len(ps) /\ DOMAIN qs = DOMAIN ps
         /\ \A i \in DOMAIN ps :
              /\ PumpKey(qs[i]) = PumpKey(ps[i])
              /\ qs[i].state = "running" =>
                   ps[i].state = "running" /\ i \notin PumpsOf(old) \ PumpsOf(new)
<1>1. Len(ps) \in Nat /\ DOMAIN ps = 1 .. Len(ps) /\ \A i \in DOMAIN ps : ps[i] \in Pump
  OBVIOUS
<1> DEFINE Left == PumpsOf(old) \ PumpsOf(new)
<1>2. qs = [i \in DOMAIN ps |-> IF i \in Left /\ ps[i].state = "running"
                                THEN [ps[i] EXCEPT !.state = "aborted"] ELSE ps[i]]
  BY DEF Aborted
<1> HIDE DEF Left
<1>3. \A i \in DOMAIN ps : /\ qs[i] \in Pump /\ PumpKey(qs[i]) = PumpKey(ps[i])
                           /\ qs[i].state = "running" => ps[i].state = "running" /\ i \notin Left
  BY <1>1, <1>2 DEF Pump, PumpKey
<1>4. qs \in [1 .. Len(ps) -> Pump]
  BY <1>1, <1>2, <1>3
<1>5. qs \in Seq(Pump) /\ Len(qs) = Len(ps)
  BY <1>1, <1>4
<1>6. QED
  BY <1>1, <1>2, <1>3, <1>5 DEF Left

\* Associations leave together with their pumps: what is left is owned and
\* named as before, and a pump without an association does not run.
LEMMA DropTogether ==
  ASSUME NEW ps \in Seq(Pump), NEW old, NEW new, NEW qs, qs = Aborted(ps, old, new),
         Named(ps, old), Owned(ps, old),
         \A k \in DOMAIN new : new[k].value \in DOMAIN ps =>
           k \in DOMAIN old /\ new[k].value = old[k].value
  PROVE  Owned(qs, new)
<1>1. /\ DOMAIN qs = DOMAIN ps
      /\ \A i \in DOMAIN ps :
              /\ PumpKey(qs[i]) = PumpKey(ps[i])
              /\ qs[i].state = "running" =>
                   ps[i].state = "running" /\ i \notin PumpsOf(old) \ PumpsOf(new)
  BY AbortedPumps
<1> SUFFICES ASSUME NEW i \in DOMAIN ps, qs[i].state = "running"
             PROVE  PumpKey(ps[i]) \in DOMAIN new /\ new[PumpKey(ps[i])].value = i
  BY <1>1 DEF Owned
<1>2. PumpKey(ps[i]) \in DOMAIN old /\ old[PumpKey(ps[i])].value = i
  BY <1>1 DEF Owned
<1>3. i \in PumpsOf(new)
  BY <1>1, <1>2 DEF PumpsOf
<1>4. PICK k \in DOMAIN new : new[k].value = i
  BY <1>3 DEF PumpsOf
<1>5. k \in DOMAIN old /\ old[k].value = i
  BY <1>4
<1>6. k = PumpKey(ps[i])
  BY <1>5 DEF Named
<1>7. QED
  BY <1>4, <1>6

\* The pumps of associations that stay are still the ones they name.
LEMMA StillNamed ==
  ASSUME NEW ps \in Seq(Pump), NEW old, NEW new, NEW qs, qs = Aborted(ps, old, new),
         Named(ps, old),
         \A k \in DOMAIN new : k \in DOMAIN old /\ new[k] = old[k]
  PROVE  Named(qs, new)
<1>1. /\ DOMAIN qs = DOMAIN ps
      /\ \A i \in DOMAIN ps : PumpKey(qs[i]) = PumpKey(ps[i])
  BY AbortedPumps
<1>2. QED
  BY <1>1 DEF Named

----------------------------------------------------------------------------
\* A listener starts with nothing.
LEMMA InitUdp == Init => UdpInv
<1> SUFFICES ASSUME Init PROVE UdpInv
  OBVIOUS
<1>1. Bounded(associations, AssociationKey, Association, MaxAssociations)
  BY EmptyBounded, Limits DEF Init
<1>2. DOMAIN associations = {} /\ DOMAIN pumps = {} /\ DOMAIN used = {}
  BY DEF Init
<1>3. Named(pumps, associations) /\ Owned(pumps, associations)
  BY <1>2 DEF Named, Owned
<1>4. IsMap(associations, AssociationKey, [value : DOMAIN pumps, last_seen : 0 .. MaxTime])
  BY <1>1, <1>3, AssociationsType
<1>5. TypeOK
  <2>1. now \in 0 .. MaxTime
    BY Limits DEF Init
  <2>2. tables \in Tables
    <3>1. << >> \in [{} -> Row] /\ {} \in SUBSET User
      OBVIOUS
    <3>2. QED
      BY <3>1 DEF Init, Tables
  <2>3. IsMap(used, AssociationKey, 0 .. MaxTime)
    BY <1>2 DEF Init, IsMap
  <2>4. QED
    BY <1>4, <2>1, <2>2, <2>3 DEF Init, TypeOK
<1>6. QED
  BY <1>1, <1>2, <1>3, <1>5 DEF Init, UdpInv, DatagramAllowed, DatedByUse

\* expire at the head of the loop keeps everything in order.
LEMMA ExpireUdp ==
  ASSUME UdpInv, Expire, UNCHANGED used
  PROVE  /\ Bounded(associations', AssociationKey, Association, MaxAssociations)
         /\ Named(pumps', associations') /\ Owned(pumps', associations')
         /\ pumps' \in Seq(Pump) /\ DatedByUse'
         /\ IsMap(associations', AssociationKey,
                  [value : DOMAIN pumps', last_seen : 0 .. MaxTime])
<1>1. /\ Bounded(associations, AssociationKey, Association, MaxAssociations)
      /\ Named(pumps, associations) /\ Owned(pumps, associations)
      /\ pumps \in Seq(Pump) /\ DatedByUse
  BY DEF UdpInv, TypeOK, Pump
<1>2. /\ associations' = EvictExpired(associations, now, Ttl)
      /\ pumps' = Aborted(pumps, associations, associations')
  BY DEF Expire
<1>3. /\ Bounded(associations', AssociationKey, Association, MaxAssociations)
      /\ DOMAIN associations' \subseteq DOMAIN associations
      /\ \A k \in DOMAIN associations' : associations'[k] = associations[k]
  BY <1>1, <1>2, Limits, EvictExpiredBounded
<1>4. pumps' \in Seq(Pump)
  BY <1>1, <1>2, AbortedPumps
<1>5. Named(pumps', associations')
  <2>1. \A k \in DOMAIN associations' : k \in DOMAIN associations /\ associations'[k] = associations[k]
    BY <1>3
  <2>2. QED
    BY <1>1, <1>2, <2>1, StillNamed
<1>6. Owned(pumps', associations')
  <2>1. \A k \in DOMAIN associations' : associations'[k].value \in DOMAIN pumps =>
          k \in DOMAIN associations /\ associations'[k].value = associations[k].value
    BY <1>3
  <2>2. QED
    BY <1>1, <1>2, <2>1, DropTogether
<1>7. DatedByUse'
  BY <1>1, <1>3 DEF DatedByUse
<1>8. QED
  BY <1>3, <1>4, <1>5, <1>6, <1>7, AssociationsType

\* Dropping a datagram, or having sent it, goes back to the loop.
LEMMA FinishUdp ==
  ASSUME UdpInv, Finish
  PROVE  UdpInv'
<1>1. TypeOK'
  BY DEF UdpInv, TypeOK, Finish
<1>2. QED
  BY <1>1 DEF UdpInv, Finish, DatagramAllowed, DatedByUse

\* Every step keeps the invariant.
LEMMA NextUdp == UdpInv /\ [Next]_vars => UdpInv'
<1> SUFFICES ASSUME UdpInv, [Next]_vars PROVE UdpInv'
  OBVIOUS
<1>a. /\ TypeOK /\ DatagramAllowed /\ DatedByUse
      /\ Bounded(associations, AssociationKey, Association, MaxAssociations)
      /\ Named(pumps, associations) /\ Owned(pumps, associations)
      /\ pumps \in Seq(Pump)
  BY DEF UdpInv, TypeOK, Pump
<1>1. CASE Tick
  <2>1. now' \in 0 .. MaxTime
    BY <1>1, <1>a, Limits DEF Tick, TypeOK
  <2>2. QED
    BY <1>1, <1>a, <2>1 DEF Tick, UdpInv, TypeOK, DatagramAllowed, DatedByUse
<1>2. ASSUME NEW t \in Tables, Publish(t) PROVE UdpInv'
  BY <1>2, <1>a DEF Publish, UdpInv, TypeOK, DatagramAllowed, DatedByUse
<1>3. CASE ReceiveDropped
  <2>1. /\ Expire /\ UNCHANGED <<now, tables, pc, datagram, dest, used>>
    BY <1>3 DEF ReceiveDropped
  <2>2. /\ Bounded(associations', AssociationKey, Association, MaxAssociations)
        /\ Named(pumps', associations') /\ Owned(pumps', associations')
        /\ pumps' \in Seq(Pump) /\ DatedByUse'
        /\ IsMap(associations', AssociationKey,
                 [value : DOMAIN pumps', last_seen : 0 .. MaxTime])
    BY <2>1, ExpireUdp
  <2>3. TypeOK'
    BY <1>a, <2>1, <2>2 DEF TypeOK, Pump
  <2>4. QED
    BY <1>a, <2>1, <2>2, <2>3 DEF UdpInv, DatagramAllowed
<1>4. ASSUME NEW peer \in Peer, NEW u \in User, NEW k \in Key, NEW port \in Port,
             Receive(peer, u, k, port)
      PROVE  UdpInv'
  <2>1. /\ Expire /\ UNCHANGED <<now, tables, dest, used>> /\ pc' = "resolving"
        /\ u \in DOMAIN tables /\ ~PortForbidden(tables[u].policy, port)
        /\ datagram' = [peer |-> peer, user |-> u, key |-> k, policy |-> tables[u].policy,
                        port |-> port]
    BY <1>4 DEF Receive, Authenticated
  <2>2. /\ Bounded(associations', AssociationKey, Association, MaxAssociations)
        /\ Named(pumps', associations') /\ Owned(pumps', associations')
        /\ pumps' \in Seq(Pump) /\ DatedByUse'
        /\ IsMap(associations', AssociationKey,
                 [value : DOMAIN pumps', last_seen : 0 .. MaxTime])
    BY <2>1, ExpireUdp
  <2>3. tables[u].policy \in Policy
    BY <1>a, <2>1 DEF TypeOK, Tables, Row
  <2>4. datagram' \in Datagram
    BY <2>1, <2>3 DEF Datagram
  <2>5. TypeOK'
    BY <1>a, <2>1, <2>2, <2>4 DEF TypeOK, Pump
  <2>6. DatagramAllowed'
    BY <2>1, <2>4 DEF DatagramAllowed, PortForbidden
  <2>7. QED
    BY <2>2, <2>5, <2>6 DEF UdpInv
<1>5. ASSUME NEW resolved \in SUBSET Addr, Resolve(resolved) PROVE UdpInv'
  <2> DEFINE k == ThisKey
  <2>1. /\ pc = "resolving" /\ dest' \in Dests(resolved)
        /\ associations' = Touch(associations, k, now)
        /\ UNCHANGED <<now, tables, datagram, pumps>>
        /\ \/ k \in DOMAIN associations /\ pc' = "sending" /\ used' = Put(used, k, now)
           \/ k \notin DOMAIN associations /\ pc' = "opening" /\ used' = used
    BY <1>5 DEF Resolve
  <2>2. datagram \in Datagram /\ ~PortForbidden(datagram.policy, datagram.port)
    BY <1>a, <2>1 DEF DatagramAllowed
  <2>3. k \in AssociationKey
    BY <2>2 DEF ThisKey, Datagram, AssociationKey
  <2> HIDE DEF k
  <2>4. now \in 0 .. MaxTime
    BY <1>a DEF TypeOK
  <2>5. /\ Bounded(associations', AssociationKey, Association, MaxAssociations)
        /\ DOMAIN associations' = DOMAIN associations
        /\ \A j \in DOMAIN associations : j # k => associations'[j] = associations[j]
        /\ k \in DOMAIN associations => /\ associations'[k].last_seen = now
                                        /\ associations'[k].value = associations[k].value
    <3> DEFINE T == 0 .. MaxTime
    <3>1. Association = Entries(Nat, T) /\ now \in T
      BY <2>4 DEF Association
    <3> HIDE DEF T
    <3>2. Bounded(associations, AssociationKey, Entries(Nat, T), MaxAssociations)
      BY <1>a, <3>1
    <3>3. Bounded(associations', AssociationKey, Entries(Nat, T), MaxAssociations)
      BY <2>1, <3>1, <3>2, Limits, TouchBounded
    <3>4. /\ DOMAIN associations' = DOMAIN associations
          /\ \A j \in DOMAIN associations : j # k => associations'[j] = associations[j]
      BY <2>1, <3>1, <3>2, Limits, TouchBounded
    <3>5. k \in DOMAIN associations => /\ associations'[k].last_seen = now
                                       /\ associations'[k].value = associations[k].value
      BY <2>1, <3>1, <3>2, Limits, TouchBounded
    <3>6. QED
      BY <3>1, <3>3, <3>4, <3>5
  <2>6. Named(pumps', associations') /\ Owned(pumps', associations')
    BY <1>a, <2>1, <2>5 DEF Named, Owned
  <2>7. DatedByUse'
    <3>1. ASSUME NEW j \in DOMAIN associations
          PROVE  j \in DOMAIN used' /\ used'[j] = associations'[j].last_seen
      <4>1. j \in DOMAIN used /\ used[j] = associations[j].last_seen
        BY <1>a, <3>1 DEF DatedByUse
      <4>2. CASE j = k
        BY <2>1, <2>5, <3>1, <4>2 DEF Put
      <4>3. CASE j # k
        BY <2>1, <2>5, <3>1, <4>1, <4>3 DEF Put
      <4>4. QED
        BY <4>2, <4>3
    <3>2. QED
      BY <2>5, <3>1 DEF DatedByUse
  <2>8. dest' \subseteq Addr /\ (EnforceForbidden => dest' \cap datagram.policy.forbidden_ips = {})
    BY <2>1 DEF Dests, IpCheck, Allowed
  <2>9. IsMap(used', AssociationKey, 0 .. MaxTime)
    <3>1. IsMap(used, AssociationKey, 0 .. MaxTime)
      BY <1>a DEF TypeOK
    <3>2. QED
      BY <2>1, <2>3, <2>4, <3>1 DEF IsMap, Put
  <2>10. TypeOK'
    <3>1. IsMap(associations', AssociationKey, [value : DOMAIN pumps', last_seen : 0 .. MaxTime])
      BY <2>5, <2>6, AssociationsType
    <3>2. QED
      BY <1>a, <2>1, <2>8, <2>9, <3>1 DEF TypeOK
  <2>11. DatagramAllowed'
    BY <2>1, <2>2, <2>8 DEF DatagramAllowed, PortForbidden
  <2>12. QED
    BY <2>5, <2>6, <2>7, <2>10, <2>11 DEF UdpInv
<1>6. CASE Unresolved \/ OpenFails \/ Send
  BY <1>6, FinishUdp DEF Unresolved, OpenFails, Send
<1>7. CASE Open
  <2> DEFINE k == ThisKey
             n == Len(pumps) + 1
             rest == Aborted(pumps, associations, associations')
  <2>1. /\ pc = "opening" /\ pc' = "sending"
        /\ associations' \in Inserts(associations, k, n, now, Ttl, MaxAssociations)
        /\ pumps' = Append(rest, NewPump) /\ used' = Put(used, k, now)
        /\ UNCHANGED <<now, tables, datagram, dest>>
    BY <1>7 DEF Open
  <2>2. datagram \in Datagram
    BY <1>a, <2>1 DEF DatagramAllowed
  <2>3. k \in AssociationKey /\ NewPump \in Pump /\ PumpKey(NewPump) = k
    BY <2>2 DEF ThisKey, Datagram, AssociationKey, NewPump, Pump, PumpKey
  <2>4. now \in 0 .. MaxTime /\ Len(pumps) \in Nat /\ DOMAIN pumps = 1 .. Len(pumps)
    BY <1>a DEF TypeOK
  <2>5. Entry(n, now) \in Association
    BY <2>4 DEF Entry, Association, Entries
  <2>6. /\ rest \in Seq(Pump) /\ Len(rest) = Len(pumps) /\ DOMAIN rest = DOMAIN pumps
        /\ \A i \in DOMAIN pumps : PumpKey(rest[i]) = PumpKey(pumps[i])
    BY <1>a, AbortedPumps
  <2>7. n \in Nat /\ n \notin DOMAIN pumps
    BY <2>4
  <2> HIDE DEF k, n
  <2>8. /\ Bounded(associations', AssociationKey, Association, MaxAssociations)
        /\ k \in DOMAIN associations' /\ associations'[k] = Entry(n, now)
        /\ DOMAIN associations' \subseteq DOMAIN associations \cup {k}
        /\ \A j \in DOMAIN associations' : j # k => associations'[j] = associations[j]
    BY <1>a, <2>1, <2>3, <2>5, Limits, InsertsBounded
  <2>9. associations'[k].value = n /\ associations'[k].last_seen = now
    BY <2>8 DEF Entry
  <2>10. Owned(rest, associations')
    <3>1. \A j \in DOMAIN associations' : associations'[j].value \in DOMAIN pumps =>
            j \in DOMAIN associations /\ associations'[j].value = associations[j].value
      BY <2>7, <2>8, <2>9
    <3>2. QED
      BY <1>a, <3>1, DropTogether
  <2> HIDE DEF rest
  <2>11. /\ pumps' \in Seq(Pump) /\ DOMAIN pumps' = DOMAIN pumps \cup {n}
         /\ pumps'[n] = NewPump /\ \A i \in DOMAIN pumps : pumps'[i] = rest[i]
    BY <2>1, <2>3, <2>4, <2>6 DEF n
  <2>12. Named(pumps', associations')
    <3>1. ASSUME NEW j \in DOMAIN associations'
          PROVE  associations'[j].value \in DOMAIN pumps' /\ PumpKey(pumps'[associations'[j].value]) = j
      <4>1. CASE j = k
        BY <2>3, <2>9, <2>11, <4>1
      <4>2. CASE j # k
        <5>1. j \in DOMAIN associations /\ associations'[j] = associations[j]
          BY <2>8, <3>1, <4>2
        <5>2. associations[j].value \in DOMAIN pumps /\ PumpKey(pumps[associations[j].value]) = j
          BY <1>a, <5>1 DEF Named
        <5>3. QED
          BY <2>6, <2>11, <5>1, <5>2
      <4>3. QED
        BY <4>1, <4>2
    <3>2. QED
      BY <3>1 DEF Named
  <2>13. Owned(pumps', associations')
    <3>1. ASSUME NEW i \in DOMAIN pumps', pumps'[i].state = "running"
          PROVE  /\ PumpKey(pumps'[i]) \in DOMAIN associations'
                 /\ associations'[PumpKey(pumps'[i])].value = i
      <4>1. CASE i = n
        BY <2>3, <2>8, <2>9, <2>11, <4>1
      <4>2. CASE i # n
        BY <2>6, <2>10, <2>11, <3>1, <4>2 DEF Owned
      <4>3. QED
        BY <4>1, <4>2
    <3>2. QED
      BY <3>1 DEF Owned
  <2>14. DatedByUse'
    <3>1. ASSUME NEW j \in DOMAIN associations'
          PROVE  j \in DOMAIN used' /\ used'[j] = associations'[j].last_seen
      <4>1. CASE j = k
        BY <2>1, <2>9, <4>1 DEF Put
      <4>2. CASE j # k
        <5>1. j \in DOMAIN associations /\ associations'[j] = associations[j]
          BY <2>8, <3>1, <4>2
        <5>2. j \in DOMAIN used /\ used[j] = associations[j].last_seen
          BY <1>a, <5>1 DEF DatedByUse
        <5>3. QED
          BY <2>1, <4>2, <5>1, <5>2 DEF Put
      <4>3. QED
        BY <4>1, <4>2
    <3>2. QED
      BY <3>1 DEF DatedByUse
  <2>15. IsMap(used', AssociationKey, 0 .. MaxTime)
    <3>1. IsMap(used, AssociationKey, 0 .. MaxTime)
      BY <1>a DEF TypeOK
    <3>2. QED
      BY <2>1, <2>3, <2>4, <3>1 DEF IsMap, Put
  <2>16. TypeOK'
    <3>1. IsMap(associations', AssociationKey, [value : DOMAIN pumps', last_seen : 0 .. MaxTime])
      BY <2>8, <2>12, AssociationsType
    <3>2. QED
      BY <1>a, <2>1, <2>11, <2>15, <3>1 DEF TypeOK, Pump
  <2>17. DatagramAllowed'
    BY <1>a, <2>1 DEF DatagramAllowed, PortForbidden
  <2>18. QED
    BY <2>8, <2>12, <2>13, <2>14, <2>16, <2>17 DEF UdpInv
<1>8. CASE Stop
  <2>1. /\ pc' = "stopped" /\ associations' = << >>
        /\ pumps' = Aborted(pumps, associations, associations')
        /\ UNCHANGED <<now, tables, datagram, dest, used>>
    BY <1>8 DEF Stop
  <2>2. Bounded(associations', AssociationKey, Association, MaxAssociations)
    BY <2>1, EmptyBounded, Limits
  <2>3. DOMAIN associations' = {}
    BY <2>1
  <2>4. pumps' \in Seq(Pump)
    BY <1>a, <2>1, AbortedPumps
  <2>5. Named(pumps', associations') /\ DatedByUse'
    BY <2>3 DEF Named, DatedByUse
  <2>6. Owned(pumps', associations')
    <3>1. \A k \in DOMAIN associations' : associations'[k].value \in DOMAIN pumps =>
            k \in DOMAIN associations /\ associations'[k].value = associations[k].value
      BY <2>3
    <3>2. QED
      BY <1>a, <2>1, <3>1, DropTogether
  <2>7. TypeOK'
    <3>1. IsMap(associations', AssociationKey, [value : DOMAIN pumps', last_seen : 0 .. MaxTime])
      BY <2>2, <2>5, AssociationsType
    <3>2. QED
      BY <1>a, <2>1, <2>4, <3>1 DEF TypeOK, Pump
  <2>8. DatagramAllowed'
    BY <2>1 DEF DatagramAllowed
  <2>9. QED
    BY <2>2, <2>5, <2>6, <2>7, <2>8 DEF UdpInv
<1>9. ASSUME NEW i \in DOMAIN pumps, PumpFails(i) PROVE UdpInv'
  <2>1. /\ pumps' = [pumps EXCEPT ![i].state = "failed"]
        /\ UNCHANGED <<now, tables, pc, datagram, dest, associations, used>>
    BY <1>9 DEF PumpFails
  <2>2. /\ pumps' \in Seq(Pump) /\ DOMAIN pumps' = DOMAIN pumps
        /\ \A j \in DOMAIN pumps : /\ PumpKey(pumps'[j]) = PumpKey(pumps[j])
                                   /\ pumps'[j].state = "running" => pumps[j].state = "running"
    <3>1. \A j \in DOMAIN pumps : pumps[j] \in Pump
      BY <1>a
    <3>2. DOMAIN pumps' = DOMAIN pumps
      BY <2>1
    <3>3. \A j \in DOMAIN pumps :
            /\ pumps'[j] \in Pump /\ PumpKey(pumps'[j]) = PumpKey(pumps[j])
            /\ pumps'[j].state = "running" => pumps[j].state = "running"
      BY <2>1, <3>1 DEF Pump, PumpKey
    <3>4. Len(pumps) \in Nat /\ pumps' \in [1 .. Len(pumps) -> Pump]
      BY <1>a, <2>1, <3>3
    <3>5. QED
      BY <3>2, <3>3, <3>4
  <2>3. Named(pumps', associations') /\ Owned(pumps', associations')
    BY <1>a, <2>1, <2>2 DEF Named, Owned
  <2>4. TypeOK'
    <3>1. IsMap(associations', AssociationKey, [value : DOMAIN pumps', last_seen : 0 .. MaxTime])
      BY <1>a, <2>1, <2>3, AssociationsType
    <3>2. QED
      BY <1>a, <2>1, <2>2, <3>1 DEF TypeOK, Pump
  <2>5. QED
    BY <1>a, <2>1, <2>3, <2>4 DEF UdpInv, DatagramAllowed, DatedByUse
<1>10. CASE UNCHANGED vars
  BY <1>10, <1>a DEF vars, UdpInv, TypeOK, DatagramAllowed, DatedByUse
<1>11. QED
  BY <1>1, <1>2, <1>3, <1>4, <1>5, <1>6, <1>7, <1>8, <1>9, <1>10 DEF Next, Listener

\* The invariant holds in every reachable state.
THEOREM UdpInvariant == Spec => []UdpInv
BY InitUdp, NextUdp, PTL DEF Spec

\* Every state of a UDP listener is well typed.
THEOREM UdpTypeCorrect == Spec => []TypeOK
<1>1. UdpInv => TypeOK
  BY DEF UdpInv
<1>2. QED
  BY <1>1, UdpInvariant, PTL

\* No socket leaks, for any number of peers and users, any time to live and
\* capacity: a running pump belongs to the association of its peer and user
\* (Drop for Association; insert, expire and the end of the loop drop it).
THEOREM PumpsOwnedHolds == Spec => []PumpsOwned
<1>1. UdpInv => PumpsOwned
  BY DEF UdpInv, PumpsOwned, Owned, PumpKey, Bounded
<1>2. QED
  BY <1>1, UdpInvariant, PTL

\* No datagram goes to a forbidden address or port, whatever the name resolves
\* to and however policies change meanwhile (resolve_udp_dest).
THEOREM ForbiddenNeverSentHolds == Spec => []ForbiddenNeverSent
<1>1. UdpInv => ForbiddenNeverSent
  BY DEF UdpInv, DatagramAllowed, ForbiddenNeverSent, PortForbidden
<1>2. QED
  BY <1>1, UdpInvariant, PTL

\* An association is given up only when idle for its time to live, as the
\* longest idle one of a full map, or with the listener (touch, insert,
\* expire).
THEOREM AssociationsKeptHolds == Spec => AssociationsKept
<1> DEFINE Excused(k) == \/ pc' = "stopped"
                         \/ now - used[k] >= Ttl
                         \/ Cardinality(DOMAIN associations) = MaxAssociations /\ LongestIdle(k)
           Kept == \A k \in DOMAIN associations \ DOMAIN associations' : Excused(k)
<1>1. UdpInv /\ [Next]_vars => [Kept]_vars
  <2> SUFFICES ASSUME UdpInv, [Next]_vars PROVE Kept
    OBVIOUS
  <2>a. /\ Bounded(associations, AssociationKey, Association, MaxAssociations)
        /\ DatedByUse /\ TypeOK
    BY DEF UdpInv
  <2>1. CASE associations' = associations
    BY <2>1
  <2>2. CASE Expire
    <3>1. \A k \in DOMAIN associations :
            k \in DOMAIN associations' <=> ~Expired(associations, k, now, Ttl)
      BY <2>a, <2>2, Limits, EvictExpiredBounded DEF Expire
    <3>2. QED
      BY <2>a, <3>1 DEF Expired, DatedByUse
  <2>3. CASE Open
    <3> DEFINE n == Len(pumps) + 1
    <3>1. associations' \in Inserts(associations, ThisKey, n, now, Ttl, MaxAssociations)
      BY <2>3 DEF Open
    <3>2. ThisKey \in AssociationKey
      BY <2>3 DEF Open, UdpInv, DatagramAllowed, ThisKey, Datagram, AssociationKey
    <3>3. Entry(n, now) \in Association
      BY <2>a DEF TypeOK, Entry, Association, Entries
    <3> HIDE DEF n
    <3>4. \A k \in DOMAIN associations \ DOMAIN associations' :
            \/ Expired(associations, k, now, Ttl)
            \/ k \in OldestKeys(associations) /\ Cardinality(DOMAIN associations) = MaxAssociations
      BY <2>a, <3>1, <3>2, <3>3, Limits, InsertsBounded
    <3>5. QED
      BY <2>a, <3>4 DEF Expired, OldestKeys, LongestIdle, DatedByUse
  <2>4. ASSUME NEW resolved \in SUBSET Addr, Resolve(resolved) PROVE Kept
    <3>1. DOMAIN associations' = DOMAIN associations
      BY <2>4 DEF Resolve, Touch
    <3>2. QED
      BY <3>1
  <2>5. CASE Stop
    BY <2>5 DEF Stop
  <2>6. CASE ReceiveDropped \/ \E peer \in Peer, u \in User, k \in Key, port \in Port :
               Receive(peer, u, k, port)
    BY <2>2, <2>6 DEF ReceiveDropped, Receive
  <2>7. CASE \/ Tick \/ Unresolved \/ OpenFails \/ Send
             \/ \E t \in Tables : Publish(t)
             \/ \E i \in DOMAIN pumps : PumpFails(i)
    BY <2>1, <2>7 DEF Tick, Unresolved, OpenFails, Send, Finish, Publish, PumpFails
  <2>8. CASE UNCHANGED vars
    BY <2>1, <2>8 DEF vars
  <2>9. QED
    BY <2>3, <2>4, <2>5, <2>6, <2>7, <2>8 DEF Next, Listener
<1>2. QED
  BY <1>1, UdpInvariant, PTL DEF Spec, AssociationsKept
=============================================================================
