---------------------------- MODULE AuditProofs ----------------------------
(***************************************************************************)
(* Proofs about Audit, for every set of users, addresses and rules, every  *)
(* capacity and every time to live.                                        *)
(***************************************************************************)
EXTENDS Audit, FiniteSetTheorems, TLAPS

----------------------------------------------------------------------------
(* What the operations of a BoundedTtlMap keep, for every kind of key and  *)
(* value, every time to live and every capacity.                           *)

\* Entries with values in V that were last seen at times in T.
Entries(V, T) == [value : V, last_seen : T]

\* A map of at most capacity entries with keys in K and entries in E.
Bounded(m, K, E, capacity) ==
  /\ IsMap(m, K, E)
  /\ IsFiniteSet(DOMAIN m)
  /\ Cardinality(DOMAIN m) <= capacity

\* An empty map is within every bound.
LEMMA EmptyBounded ==
  ASSUME NEW K, NEW E, NEW capacity \in Nat
  PROVE  Bounded(<< >>, K, E, capacity)
<1>1. DOMAIN << >> = {}
  OBVIOUS
<1>2. QED
  BY <1>1, FS_EmptySet DEF Bounded, IsMap

\* Entries that leave take nothing else with them: what retain and expire keep
\* is as it was.
LEMMA RestrictBounded ==
  ASSUME NEW m, NEW K, NEW E, NEW capacity \in Nat, Bounded(m, K, E, capacity),
         NEW S, S \subseteq DOMAIN m
  PROVE  /\ Bounded(Restrict(m, S), K, E, capacity)
         /\ DOMAIN Restrict(m, S) = S
         /\ \A k \in S : Restrict(m, S)[k] = m[k]
<1>1. DOMAIN Restrict(m, S) = S /\ \A k \in S : Restrict(m, S)[k] = m[k]
  BY DEF Restrict
<1>2. IsMap(Restrict(m, S), K, E)
  BY DEF Restrict, Bounded, IsMap
<1>3. IsFiniteSet(S) /\ Cardinality(S) <= Cardinality(DOMAIN m)
  BY FS_Subset DEF Bounded
<1>4. Cardinality(S) \in Nat /\ Cardinality(DOMAIN m) \in Nat
  BY <1>3, FS_CardinalityType DEF Bounded
<1>5. QED
  BY <1>1, <1>2, <1>3, <1>4 DEF Bounded

\* evict_expired drops the expired entries and no other.
LEMMA EvictExpiredBounded ==
  ASSUME NEW m, NEW K, NEW E, NEW capacity \in Nat, Bounded(m, K, E, capacity),
         NEW time, NEW ttl, NEW r, r = EvictExpired(m, time, ttl)
  PROVE  /\ Bounded(r, K, E, capacity)
         /\ DOMAIN r \subseteq DOMAIN m
         /\ \A k \in DOMAIN m : k \in DOMAIN r <=> ~Expired(m, k, time, ttl)
         /\ \A k \in DOMAIN r : r[k] = m[k]
<1> DEFINE S == {k \in DOMAIN m : ~Expired(m, k, time, ttl)}
<1>1. S \subseteq DOMAIN m
  OBVIOUS
<1>2. r = Restrict(m, S)
  BY DEF EvictExpired
<1> HIDE DEF S
<1>3. /\ Bounded(Restrict(m, S), K, E, capacity)
      /\ DOMAIN Restrict(m, S) = S
      /\ \A k \in S : Restrict(m, S)[k] = m[k]
  BY <1>1, RestrictBounded
<1>4. QED
  BY <1>2, <1>3 DEF S

\* retain keeps the given keys.
LEMMA RetainBounded ==
  ASSUME NEW m, NEW K, NEW E, NEW capacity \in Nat, Bounded(m, K, E, capacity),
         NEW keep, NEW r, r = Retain(m, keep)
  PROVE  /\ Bounded(r, K, E, capacity)
         /\ DOMAIN r = DOMAIN m \cap keep
         /\ \A k \in DOMAIN r : r[k] = m[k]
BY RestrictBounded DEF Retain

\* evict_oldest drops one entry, and no entry was seen before it.
LEMMA EvictOldestBounded ==
  ASSUME NEW m, NEW K, NEW E, NEW capacity \in Nat, Bounded(m, K, E, capacity),
         DOMAIN m # {}, NEW n \in EvictOldest(m)
  PROVE  \E k \in OldestKeys(m) :
           /\ DOMAIN n = DOMAIN m \ {k}
           /\ \A j \in DOMAIN n : n[j] = m[j]
           /\ Bounded(n, K, E, capacity)
           /\ Cardinality(DOMAIN n) = Cardinality(DOMAIN m) - 1
<1>1. m # << >>
  OBVIOUS
<1>2. PICK k \in OldestKeys(m) : n = Without(m, k)
  BY <1>1 DEF EvictOldest
<1>3. k \in DOMAIN m
  BY DEF OldestKeys
<1> DEFINE S == DOMAIN m \ {k}
<1>4. S \subseteq DOMAIN m /\ n = Restrict(m, S)
  BY <1>2 DEF Without
<1>5. Cardinality(S) = Cardinality(DOMAIN m) - 1
  BY <1>3, FS_RemoveElement DEF Bounded
<1> HIDE DEF S
<1>6. /\ Bounded(Restrict(m, S), K, E, capacity)
      /\ DOMAIN Restrict(m, S) = S
      /\ \A j \in S : Restrict(m, S)[j] = m[j]
  BY <1>4, RestrictBounded
<1>7. QED
  BY <1>4, <1>5, <1>6 DEF S

\* An entry may be put where there is room, or where there is one already.
MayPut(m, k, v, K, E, capacity) ==
  /\ Bounded(m, K, E, capacity) /\ k \in K /\ v \in E
  /\ k \in DOMAIN m \/ Cardinality(DOMAIN m) < capacity

\* r is m with the entry v for k.
IsPut(r, m, k, v, K, E, capacity) ==
  /\ Bounded(r, K, E, capacity)
  /\ DOMAIN r = DOMAIN m \cup {k} /\ r[k] = v
  /\ \A j \in DOMAIN m : j # k => r[j] = m[j]

\* Putting an entry.
LEMMA PutBounded ==
  ASSUME NEW m, NEW K, NEW E, NEW capacity \in Nat, NEW k, NEW v,
         MayPut(m, k, v, K, E, capacity)
  PROVE  IsPut(Put(m, k, v), m, k, v, K, E, capacity)
<1>0. PICK r : r = Put(m, k, v)
  OBVIOUS
<1>1. IsMap(r, K, E)
  BY <1>0 DEF MayPut, Bounded, IsMap, Put
<1>2. /\ DOMAIN r = DOMAIN m \cup {k} /\ r[k] = v
      /\ \A j \in DOMAIN m : j # k => r[j] = m[j]
  BY <1>0 DEF Put
<1>3. /\ IsFiniteSet(DOMAIN m) /\ Cardinality(DOMAIN m) \in Nat
      /\ Cardinality(DOMAIN m) <= capacity
  BY FS_CardinalityType DEF MayPut, Bounded
<1>4. IsFiniteSet(DOMAIN m \cup {k}) /\ Cardinality(DOMAIN m \cup {k}) <= capacity
  <2>1. CASE k \in DOMAIN m
    <3>1. DOMAIN m \cup {k} = DOMAIN m
      BY <2>1
    <3>2. QED
      BY <1>3, <3>1
  <2>2. CASE k \notin DOMAIN m
    <3>1. /\ IsFiniteSet(DOMAIN m \cup {k})
          /\ Cardinality(DOMAIN m \cup {k}) = Cardinality(DOMAIN m) + 1
      BY <1>3, <2>2, FS_AddElement
    <3>2. QED
      BY <1>3, <2>2, <3>1 DEF MayPut
  <2>3. QED
    BY <2>1, <2>2
<1>5. QED
  BY <1>0, <1>1, <1>2, <1>4 DEF IsPut, Bounded

\* insert stays within the capacity.  The key is in, with the value and the
\* time given; an entry that left was expired, or the map was full of entries
\* none of which was seen before it, and is full again.
LEMMA InsertsBounded ==
  ASSUME NEW m, NEW K, NEW E, NEW capacity \in Nat \ {0}, Bounded(m, K, E, capacity),
         NEW k \in K, NEW v, NEW time, NEW ttl, Entry(v, time) \in E,
         NEW r \in Inserts(m, k, v, time, ttl, capacity)
  PROVE  /\ Bounded(r, K, E, capacity)
         /\ k \in DOMAIN r /\ r[k] = Entry(v, time)
         /\ DOMAIN r \subseteq DOMAIN m \cup {k}
         /\ \A j \in DOMAIN r : j # k => r[j] = m[j]
         /\ \A j \in DOMAIN m \ DOMAIN r :
              \/ Expired(m, j, time, ttl)
              \/ /\ j \in OldestKeys(m)
                 /\ Cardinality(DOMAIN m) = capacity /\ Cardinality(DOMAIN r) = capacity
<1>0. capacity \in Nat
  OBVIOUS
<1> DEFINE e == EvictExpired(m, time, ttl)
<1>1. PICK n \in MakeRoom(e, k, capacity) : r = Put(n, k, Entry(v, time))
  BY DEF Inserts
<1>2. /\ Bounded(e, K, E, capacity)
      /\ DOMAIN e \subseteq DOMAIN m
      /\ \A j \in DOMAIN m : j \in DOMAIN e <=> ~Expired(m, j, time, ttl)
      /\ \A j \in DOMAIN e : e[j] = m[j]
  BY <1>0, EvictExpiredBounded
<1>3. /\ IsFiniteSet(DOMAIN e) /\ IsFiniteSet(DOMAIN m)
      /\ Cardinality(DOMAIN e) \in Nat /\ Cardinality(DOMAIN m) \in Nat
      /\ Cardinality(DOMAIN e) <= capacity /\ Cardinality(DOMAIN m) <= capacity
      /\ DOMAIN e \subseteq DOMAIN m
  BY <1>2, FS_CardinalityType DEF Bounded
<1> HIDE DEF e
<1>4. CASE k \notin DOMAIN e /\ Cardinality(DOMAIN e) >= capacity
  <2>1. n \in EvictOldest(e)
    BY <1>1, <1>4 DEF MakeRoom
  <2>2. Cardinality(DOMAIN e) = capacity /\ DOMAIN e # {}
    BY <1>3, <1>4, FS_EmptySet
  <2>3. PICK o \in OldestKeys(e) :
          /\ DOMAIN n = DOMAIN e \ {o}
          /\ \A j \in DOMAIN n : n[j] = e[j]
          /\ Bounded(n, K, E, capacity)
          /\ Cardinality(DOMAIN n) = Cardinality(DOMAIN e) - 1
    <3>1. Bounded(e, K, E, capacity) /\ DOMAIN e # {}
      BY <1>2, <2>2
    <3>2. QED
      BY <1>0, <2>1, <3>1, EvictOldestBounded, Zenon
  <2>4. DOMAIN m = DOMAIN e /\ Cardinality(DOMAIN m) = capacity
    <3>1. Cardinality(DOMAIN e) <= Cardinality(DOMAIN m)
      BY <1>3, FS_Subset
    <3>2. Cardinality(DOMAIN m) = Cardinality(DOMAIN e)
      BY <1>3, <2>2, <3>1
    <3>3. QED
      BY <1>3, <2>2, <3>2, FS_Subset
  <2>5. o \in OldestKeys(m)
    BY <1>2, <2>4 DEF OldestKeys
  <2>6. k \notin DOMAIN n /\ Cardinality(DOMAIN n) < capacity /\ IsFiniteSet(DOMAIN n)
    BY <1>3, <1>4, <2>2, <2>3 DEF Bounded
  <2>7. /\ Bounded(r, K, E, capacity)
        /\ DOMAIN r = DOMAIN n \cup {k} /\ r[k] = Entry(v, time)
        /\ \A j \in DOMAIN n : j # k => r[j] = n[j]
    <3>1. MayPut(n, k, Entry(v, time), K, E, capacity)
      BY <2>3, <2>6 DEF MayPut
    <3>2. IsPut(Put(n, k, Entry(v, time)), n, k, Entry(v, time), K, E, capacity)
      BY <1>0, <3>1, PutBounded, Zenon
    <3>3. QED
      BY <1>1, <3>2 DEF IsPut
  <2>8. Cardinality(DOMAIN r) = capacity
    <3>1. Cardinality(DOMAIN n \cup {k}) = Cardinality(DOMAIN n) + 1
      BY <2>6, FS_AddElement
    <3>2. QED
      BY <1>3, <2>2, <2>3, <2>7, <3>1
  <2>9. QED
    BY <1>2, <2>3, <2>4, <2>5, <2>7, <2>8
<1>5. CASE ~(k \notin DOMAIN e /\ Cardinality(DOMAIN e) >= capacity)
  <2>1. n = e /\ (k \in DOMAIN e \/ Cardinality(DOMAIN e) < capacity)
    BY <1>1, <1>3, <1>5 DEF MakeRoom
  <2>2. /\ Bounded(r, K, E, capacity)
        /\ DOMAIN r = DOMAIN e \cup {k} /\ r[k] = Entry(v, time)
        /\ \A j \in DOMAIN e : j # k => r[j] = e[j]
    <3>1. MayPut(e, k, Entry(v, time), K, E, capacity)
      BY <1>2, <2>1 DEF MayPut
    <3>2. IsPut(Put(e, k, Entry(v, time)), e, k, Entry(v, time), K, E, capacity)
      BY <1>0, <3>1, PutBounded, Zenon
    <3>3. QED
      BY <1>1, <2>1, <3>2 DEF IsPut
  <2>3. QED
    BY <1>2, <1>3, <2>2
<1>6. QED
  BY <1>4, <1>5

----------------------------------------------------------------------------
SeenEntry == Entries({"unit", "log"}, 0 .. MaxTime)

\* The inductive invariant: each map is finite and within its capacity, and
\* while detect logs are posted the report is exactly what the map holds.
AuditInv ==
  /\ TypeOK
  /\ Len(queue) <= Capacity
  /\ Bounded(sessions, SessionKey, SeenEntry, MaxSessions)
  /\ Bounded(alive, AliveKey, SeenEntry, MaxAlive)
  /\ Bounded(detect, DetectKey, SeenEntry, MaxDetect)
  /\ AliveSinceLastReport
  /\ pc = "detect" => report = DOMAIN detect

\* The constants, one by one.
LEMMA Limits ==
  /\ Capacity \in Nat \ {0} /\ MaxSessions \in Nat \ {0} /\ MaxAlive \in Nat \ {0}
  /\ MaxDetect \in Nat \ {0}
  /\ Capacity \in Nat /\ MaxSessions \in Nat /\ MaxAlive \in Nat /\ MaxDetect \in Nat
  /\ MaxTime \in Nat /\ MaxEvents \in Nat /\ MaxFail \in Nat
BY AuditAssumption

\* A map within its bound has the type the model states.
LEMMA BoundedEntryMap ==
  ASSUME NEW m, NEW K, NEW capacity, Bounded(m, K, SeenEntry, capacity)
  PROVE  EntryMap(m, K)
BY DEF Bounded, EntryMap, SeenEntry, Entries

\* An event is recorded with the present time.
LEMMA EntryNow ==
  ASSUME TypeOK, NEW v \in {"unit", "log"}
  PROVE  Entry(v, now) \in SeenEntry
BY DEF TypeOK, Entry, SeenEntry, Entries

\* Taking an event off the channel.
LEMMA TakeEvent ==
  ASSUME AuditInv, CanRecord, queue' = Tail(queue)
  PROVE  /\ Head(queue) \in RelayEvent
         /\ queue' \in Seq(RelayEvent) /\ Len(queue') <= Capacity
<1>1. queue \in Seq(RelayEvent) /\ queue # << >> /\ Len(queue) <= Capacity
  BY DEF AuditInv, TypeOK, CanRecord
<1>2. Head(queue) \in RelayEvent /\ Tail(queue) \in Seq(RelayEvent)
      /\ Len(Tail(queue)) = Len(queue) - 1 /\ Len(queue) \in Nat
  BY <1>1
<1>3. QED
  BY <1>1, <1>2, Limits

\* Everything is empty at the start.
LEMMA InitAudit == Init => AuditInv
<1> SUFFICES ASSUME Init PROVE AuditInv
  OBVIOUS
<1>1. /\ Bounded(<< >>, SessionKey, SeenEntry, MaxSessions)
      /\ Bounded(<< >>, AliveKey, SeenEntry, MaxAlive)
      /\ Bounded(<< >>, DetectKey, SeenEntry, MaxDetect)
  BY EmptyBounded, Limits
<1>2. /\ EntryMap(<< >>, SessionKey) /\ EntryMap(<< >>, AliveKey) /\ EntryMap(<< >>, DetectKey)
  BY <1>1, BoundedEntryMap
<1>3. queue \in Seq(RelayEvent) /\ Len(queue) = 0
  BY DEF Init
<1>4. TypeOK
  <2>1. now \in 0 .. MaxTime /\ sent \in 0 .. MaxEvents /\ fails \in 0 .. MaxFail
    BY Limits DEF Init
  <2>2. QED
    BY <1>2, <1>3, <2>1 DEF Init, TypeOK
<1>5. AliveSinceLastReport /\ pc # "detect"
  BY DEF Init, AliveSinceLastReport
<1>6. QED
  BY <1>1, <1>3, <1>4, <1>5, Limits DEF Init, AuditInv

\* Every step keeps the invariant.
LEMMA NextAudit == AuditInv /\ [Next]_vars => AuditInv'
<1> SUFFICES ASSUME AuditInv, [Next]_vars PROVE AuditInv'
  OBVIOUS
<1> USE DEF mapVars, postVars
<1>a. /\ TypeOK /\ AliveSinceLastReport
      /\ Bounded(sessions, SessionKey, SeenEntry, MaxSessions)
      /\ Bounded(alive, AliveKey, SeenEntry, MaxAlive)
      /\ Bounded(detect, DetectKey, SeenEntry, MaxDetect)
  BY DEF AuditInv
<1>b. /\ DOMAIN sessions \subseteq SessionKey /\ DOMAIN alive \subseteq AliveKey
      /\ DOMAIN detect \subseteq DetectKey
  BY <1>a DEF Bounded, IsMap
<1>c. ASSUME /\ Bounded(sessions', SessionKey, SeenEntry, MaxSessions)
             /\ Bounded(alive', AliveKey, SeenEntry, MaxAlive)
             /\ Bounded(detect', DetectKey, SeenEntry, MaxDetect)
      PROVE  /\ EntryMap(sessions', SessionKey) /\ EntryMap(alive', AliveKey)
             /\ EntryMap(detect', DetectKey)
  BY <1>c, BoundedEntryMap
<1>1. CASE Tick
  <2>1. TypeOK'
    BY <1>1, <1>a, Limits DEF Tick, TypeOK
  <2>2. QED
    BY <1>1, <2>1 DEF Tick, AuditInv, AliveSinceLastReport
<1>2. ASSUME NEW e \in RelayEvent, Emit(e) PROVE AuditInv'
  <2>1. queue \in Seq(RelayEvent) /\ Len(queue) \in Nat /\ Len(queue) <= Capacity
    BY <1>a DEF AuditInv, TypeOK
  <2>2. queue' \in Seq(RelayEvent) /\ Len(queue') <= Capacity
    BY <1>2, <2>1, Limits DEF Emit, TrySend
  <2>3. TypeOK'
    BY <1>2, <1>a, <2>2, Limits DEF Emit, TypeOK
  <2>4. QED
    BY <1>2, <2>2, <2>3 DEF Emit, AuditInv, AliveSinceLastReport
<1>3. CASE RecordConnect
  <2> DEFINE e == Head(queue)
             s == <<e.user, e.ip, e.source>>
             a == <<e.user, e.ip>>
  <2>1. /\ CanRecord /\ e.kind = "connect" /\ queue' = Tail(queue)
        /\ sessions' \in Inserts(sessions, s, "unit", now, SessionTtl, MaxSessions)
        /\ alive' \in Inserts(alive, a, "unit", now, AliveTtl, MaxAlive)
        /\ seen' = seen \cup {a}
        /\ UNCHANGED <<now, rules, sent, detect, pc, postVars>>
    BY <1>3 DEF RecordConnect
  <2>2. e \in RelayEvent /\ queue' \in Seq(RelayEvent) /\ Len(queue') <= Capacity
    BY <2>1, TakeEvent
  <2>3. e \in Connect
    BY <2>1, <2>2 DEF RelayEvent, Detect
  <2>4. s \in SessionKey /\ a \in AliveKey
    BY <2>3 DEF Connect, SessionKey, AliveKey
  <2>5. Entry("unit", now) \in SeenEntry
    BY <1>a, EntryNow
  <2> HIDE DEF s, a
  <2>6. Bounded(sessions', SessionKey, SeenEntry, MaxSessions)
    BY <1>a, <2>1, <2>4, <2>5, Limits, InsertsBounded
  <2>7. /\ Bounded(alive', AliveKey, SeenEntry, MaxAlive)
        /\ DOMAIN alive' \subseteq DOMAIN alive \cup {a}
    BY <1>a, <2>1, <2>4, <2>5, Limits, InsertsBounded
  <2>8. AliveSinceLastReport'
    BY <1>a, <2>1, <2>7 DEF AliveSinceLastReport, CanRecord
  <2>9. TypeOK'
    BY <1>a, <1>c, <2>1, <2>2, <2>4, <2>6, <2>7 DEF TypeOK
  <2>10. QED
    BY <1>a, <2>1, <2>2, <2>6, <2>7, <2>8, <2>9 DEF AuditInv
<1>4. CASE RecordDetect
  <2> DEFINE e == Head(queue)
             k == <<e.user, e.list, e.ip>>
  <2>1. /\ CanRecord /\ e.kind = "detect" /\ queue' = Tail(queue) /\ pc # "detect"
        /\ detect' \in Inserts(detect, k, "log", now, DetectTtl, MaxDetect)
        /\ UNCHANGED <<now, rules, sent, sessions, alive, pc, postVars, seen>>
    BY <1>4 DEF RecordDetect, CanRecord
  <2>2. e \in RelayEvent /\ queue' \in Seq(RelayEvent) /\ Len(queue') <= Capacity
    BY <2>1, TakeEvent
  <2>3. e \in Detect
    BY <2>1, <2>2 DEF RelayEvent, Connect
  <2>4. k \in DetectKey
    BY <2>3 DEF Detect, DetectKey
  <2>5. Entry("log", now) \in SeenEntry
    BY <1>a, EntryNow
  <2> HIDE DEF k
  <2>6. Bounded(detect', DetectKey, SeenEntry, MaxDetect)
    BY <1>a, <2>1, <2>4, <2>5, Limits, InsertsBounded
  <2>7. TypeOK'
    BY <1>a, <1>c, <2>1, <2>2, <2>6 DEF TypeOK
  <2>8. QED
    BY <1>a, <2>1, <2>2, <2>6, <2>7 DEF AuditInv, AliveSinceLastReport
<1>5. ASSUME NEW us \in SUBSET User, PollSync(us) PROVE AuditInv'
  <2>1. /\ pc = "idle" /\ pc' = "refresh"
        /\ sessions' = Retain(sessions, KeysOf(us, SessionKey))
        /\ alive' = Retain(alive, KeysOf(us, AliveKey))
        /\ detect' = Retain(detect, KeysOf(us, DetectKey))
        /\ UNCHANGED <<now, rules, queue, sent, postVars, seen>>
    BY <1>5 DEF PollSync
  <2>2. Bounded(sessions', SessionKey, SeenEntry, MaxSessions)
    BY <1>a, <2>1, Limits, RetainBounded
  <2>3. /\ Bounded(alive', AliveKey, SeenEntry, MaxAlive)
        /\ DOMAIN alive' = DOMAIN alive \cap KeysOf(us, AliveKey)
    BY <1>a, <2>1, Limits, RetainBounded
  <2>4. Bounded(detect', DetectKey, SeenEntry, MaxDetect)
    BY <1>a, <2>1, Limits, RetainBounded
  <2>5. TypeOK'
    BY <1>a, <1>c, <2>1, <2>2, <2>3, <2>4 DEF TypeOK
  <2>6. QED
    BY <2>1, <2>2, <2>3, <2>4, <2>5 DEF AuditInv, AliveSinceLastReport
<1>6. CASE PollSyncFails
  <2>1. TypeOK'
    BY <1>6, <1>a DEF PollSyncFails, TypeOK
  <2>2. QED
    BY <1>6, <2>1 DEF PollSyncFails, AuditInv, AliveSinceLastReport
<1>7. ASSUME NEW rs \in SUBSET Rule, PollRefresh(rs) PROVE AuditInv'
  <2>1. /\ pc = "refresh" /\ pc' = "idle" /\ rules' = rs
        /\ sessions' = EvictExpired(sessions, now, SessionTtl)
        /\ alive' = EvictExpired(alive, now, AliveTtl)
        /\ detect' = EvictExpired(detect, now, DetectTtl)
        /\ UNCHANGED <<queue, sent, now, postVars, seen>>
    BY <1>7 DEF PollRefresh
  <2>2. Bounded(sessions', SessionKey, SeenEntry, MaxSessions)
    BY <1>a, <2>1, Limits, EvictExpiredBounded
  <2>3. Bounded(alive', AliveKey, SeenEntry, MaxAlive) /\ DOMAIN alive' \subseteq DOMAIN alive
    BY <1>a, <2>1, Limits, EvictExpiredBounded
  <2>4. Bounded(detect', DetectKey, SeenEntry, MaxDetect)
    BY <1>a, <2>1, Limits, EvictExpiredBounded
  <2>5. TypeOK'
    BY <1>a, <1>c, <2>1, <2>2, <2>3, <2>4 DEF TypeOK
  <2>6. QED
    BY <2>1, <2>2, <2>3, <2>4, <2>5 DEF AuditInv, AliveSinceLastReport
<1>8. CASE ReportAlive
  <2>1. applied' = FALSE /\ UNCHANGED <<now, rules, queue, sent, mapVars, fails>>
    BY <1>8 DEF ReportAlive
  <2>2. \/ pc' = "alive" /\ report' = DOMAIN alive /\ seen' = seen
        \/ pc' = "idle" /\ report' = {} /\ seen' = {} /\ DOMAIN alive = {}
        \/ pc' = "detect" /\ report' = DOMAIN detect /\ seen' = {} /\ DOMAIN alive = {}
    BY <1>8 DEF ReportAlive, PostDetect
  <2>3. /\ report' \subseteq AliveKey \cup DetectKey /\ seen' \subseteq AliveKey
        /\ pc' \in {"idle", "refresh", "alive", "detect"}
    BY <1>a, <1>b, <2>2 DEF TypeOK
  <2>4. TypeOK'
    BY <1>a, <2>1, <2>3 DEF TypeOK
  <2>5. AliveSinceLastReport'
    BY <1>a, <2>1, <2>2 DEF AliveSinceLastReport
  <2>6. QED
    BY <2>1, <2>2, <2>4, <2>5 DEF AuditInv
<1>9. CASE PanelApply
  <2>1. TypeOK'
    BY <1>9, <1>a DEF PanelApply, TypeOK
  <2>2. QED
    BY <1>9, <2>1 DEF PanelApply, AuditInv, AliveSinceLastReport
<1>10. CASE AliveAck
  <2>1. /\ applied' = FALSE /\ alive' = Retain(alive, {}) /\ seen' = {}
        /\ UNCHANGED <<now, rules, queue, sent, sessions, detect, fails>>
    BY <1>10 DEF AliveAck, AfterReport
  <2>2. \/ pc' = "idle" /\ report' = {}
        \/ pc' = "detect" /\ report' = DOMAIN detect
    BY <1>10 DEF AliveAck, PostDetect
  <2>3. /\ Bounded(alive', AliveKey, SeenEntry, MaxAlive)
        /\ DOMAIN alive' = DOMAIN alive \cap {}
    BY <1>a, <2>1, Limits, RetainBounded
  <2>4. TypeOK'
    BY <1>a, <1>b, <1>c, <2>1, <2>2, <2>3 DEF TypeOK
  <2>5. AliveSinceLastReport'
    BY <2>2, <2>3 DEF AliveSinceLastReport
  <2>6. QED
    BY <2>1, <2>2, <2>3, <2>4, <2>5 DEF AuditInv
<1>11. CASE DetectAck
  <2>1. /\ pc' = "idle" /\ report' = {} /\ applied' = FALSE /\ detect' = Retain(detect, {})
        /\ UNCHANGED <<now, rules, queue, sent, sessions, alive, fails, seen>>
    BY <1>11 DEF DetectAck, AfterReport
  <2>2. Bounded(detect', DetectKey, SeenEntry, MaxDetect)
    BY <1>a, <2>1, Limits, RetainBounded
  <2>3. TypeOK'
    BY <1>a, <1>c, <2>1, <2>2 DEF TypeOK
  <2>4. QED
    BY <2>1, <2>2, <2>3 DEF AuditInv, AliveSinceLastReport
<1>12. CASE ReportFail
  <2>1. TypeOK'
    <3>1. fails' \in 0 .. MaxFail
      BY <1>12, <1>a, Limits DEF ReportFail, TypeOK
    <3>2. QED
      BY <1>12, <1>a, <3>1 DEF ReportFail, DetectOnFail, TypeOK
  <2>2. QED
    BY <1>12, <2>1 DEF ReportFail, DetectOnFail, AuditInv, AliveSinceLastReport
<1>13. CASE UNCHANGED vars
  <2>1. TypeOK'
    BY <1>13, <1>a DEF vars, TypeOK
  <2>2. QED
    BY <1>13, <2>1 DEF vars, AuditInv, AliveSinceLastReport
<1>14. QED
  BY <1>1, <1>2, <1>3, <1>4, <1>5, <1>6, <1>7, <1>8, <1>9, <1>10, <1>11, <1>12, <1>13
     DEF Next, Record

\* The invariant holds in every reachable state.
THEOREM AuditInvariant == Spec => []AuditInv
BY InitAudit, NextAudit, PTL DEF Spec

\* Every state of the audit maps, the channel and the reports is well typed.
THEOREM AuditTypeCorrect == Spec => []TypeOK
<1>1. AuditInv => TypeOK
  BY DEF AuditInv
<1>2. QED
  BY <1>1, AuditInvariant, PTL

\* Memory is bounded for any rate and order of events, any number of users and
\* addresses, and however clocks, polls and reports interleave (insert evicts
\* before it adds, try_send drops).
THEOREM MemoryBoundedHolds == Spec => []MemoryBounded
<1>1. AuditInv => MemoryBounded
  BY DEF AuditInv, MemoryBounded, Bounded
<1>2. QED
  BY <1>1, AuditInvariant, PTL

\* An alive report never repeats an address of an acknowledged one without a
\* new connection (report_auxiliary_state clears the map it has reported).
THEOREM AliveSinceLastReportHolds == Spec => []AliveSinceLastReport
<1>1. AuditInv => AliveSinceLastReport
  BY DEF AuditInv
<1>2. QED
  BY <1>1, AuditInvariant, PTL

----------------------------------------------------------------------------
\* A recorded detect log is never lost to a failed, lost or overtaken report:
\* it leaves the map only when it was reported and acknowledged, has expired,
\* its user was dropped, or it is the oldest of a full map
\* (report_auxiliary_state, insert, retain, expire).
THEOREM DetectKeptUntilReportedHolds == Spec => DetectKeptUntilReported
<1> DEFINE Excused(k) == Covered(k) \/ Outlived(k) \/ Unlisted(k) \/ Crowded(k)
           Kept == \A k \in DOMAIN detect \ DOMAIN detect' : Excused(k)
<1>1. AuditInv /\ [Next]_vars => [Kept]_vars
  <2> SUFFICES ASSUME AuditInv, [Next]_vars PROVE Kept
    OBVIOUS
  <2> USE DEF mapVars, postVars
  <2>a. TypeOK /\ Bounded(detect, DetectKey, SeenEntry, MaxDetect)
    BY DEF AuditInv
  <2>1. CASE detect' = detect
    BY <2>1
  <2>2. CASE RecordDetect
    <3> DEFINE e == Head(queue)
               k == <<e.user, e.list, e.ip>>
    <3>1. /\ CanRecord /\ e.kind = "detect" /\ queue' = Tail(queue)
          /\ detect' \in Inserts(detect, k, "log", now, DetectTtl, MaxDetect)
      BY <2>2 DEF RecordDetect
    <3>2. e \in Detect
      BY <3>1, TakeEvent DEF RelayEvent, Connect
    <3>3. k \in DetectKey /\ Entry("log", now) \in SeenEntry
      BY <2>a, <3>2, EntryNow DEF Detect, DetectKey
    <3> HIDE DEF k
    <3>4. \A j \in DOMAIN detect \ DOMAIN detect' :
            \/ Expired(detect, j, now, DetectTtl)
            \/ /\ j \in OldestKeys(detect)
               /\ Cardinality(DOMAIN detect) = MaxDetect
               /\ Cardinality(DOMAIN detect') = MaxDetect
      BY <2>a, <3>1, <3>3, Limits, InsertsBounded
    <3>5. QED
      BY <3>4 DEF Outlived, Crowded
  <2>3. ASSUME NEW us \in SUBSET User, PollSync(us) PROVE Kept
    <3>1. pc = "idle" /\ pc' = "refresh" /\ detect' = Retain(detect, KeysOf(us, DetectKey))
      BY <2>3 DEF PollSync
    <3>2. DOMAIN detect' = DOMAIN detect \cap KeysOf(us, DetectKey)
      BY <2>a, <3>1, Limits, RetainBounded
    <3>3. DOMAIN detect \subseteq DetectKey
      BY <2>a DEF Bounded, IsMap
    <3>4. ASSUME NEW k \in DOMAIN detect \ DOMAIN detect' PROVE Unlisted(k)
      <4>1. k[1] \notin us
        BY <3>2, <3>3, <3>4 DEF KeysOf
      <4>2. KeysOf({k[1]}, DOMAIN detect') = {}
        BY <3>2, <4>1 DEF KeysOf
      <4>3. QED
        BY <3>1, <4>2 DEF Unlisted
    <3>5. QED
      BY <3>4
  <2>4. ASSUME NEW rs \in SUBSET Rule, PollRefresh(rs) PROVE Kept
    <3>1. detect' = EvictExpired(detect, now, DetectTtl)
      BY <2>4 DEF PollRefresh
    <3>2. \A k \in DOMAIN detect : k \in DOMAIN detect' <=> ~Expired(detect, k, now, DetectTtl)
      BY <2>a, <3>1, Limits, EvictExpiredBounded
    <3>3. QED
      BY <3>2 DEF Outlived
  <2>5. CASE DetectAck
    <3>1. \A k \in DOMAIN detect : Covered(k)
      BY <2>5 DEF DetectAck, Covered, AuditInv
    <3>2. QED
      BY <3>1
  <2>6. CASE ReportFail
    BY <2>1, <2>6 DEF ReportFail, DetectOnFail
  <2>7. CASE \/ Tick \/ PollSyncFails \/ ReportAlive \/ PanelApply \/ AliveAck
             \/ RecordConnect \/ \E e \in RelayEvent : Emit(e)
    BY <2>1, <2>7 DEF Tick, PollSyncFails, ReportAlive, PanelApply, AliveAck,
                      RecordConnect, Emit
  <2>8. CASE UNCHANGED vars
    BY <2>1, <2>8 DEF vars
  <2>9. QED
    BY <2>2, <2>3, <2>4, <2>5, <2>6, <2>7, <2>8 DEF Next, Record
<1>2. QED
  BY <1>1, AuditInvariant, PTL DEF Spec, DetectKeptUntilReported
=============================================================================
