--------------------------- MODULE BoundedTtlMap ---------------------------
(***************************************************************************)
(* BoundedTtlMap<K, V> of runtime/state.rs, as operators on the map: a     *)
(* function from the keys it holds to entries with a value and the time    *)
(* they were last seen.  The keys of equal age have no order (the HashMap  *)
(* decides), so insert has a set of outcomes.                              *)
(***************************************************************************)
EXTENDS Naturals, FiniteSets, Functions, Maps

\* Faulty variant: entries are dated ahead.
EntryAhead(v, now) == [value |-> v, last_seen |-> now + 1]

Entry(v, now) == [value |-> v, last_seen |-> now]

Expired(m, k, now, ttl) == now - m[k].last_seen >= ttl

\* evict_expired, and expire()
EvictExpired(m, now, ttl) ==
  Restrict(m, {k \in DOMAIN m : ~Expired(m, k, now, ttl)})

\* The keys min_by_key may return.
OldestKeys(m) ==
  {k \in DOMAIN m : \A j \in DOMAIN m : m[k].last_seen <= m[j].last_seen}

\* evict_oldest
EvictOldest(m) == IF m = << >> THEN {m} ELSE {Without(m, k) : k \in OldestKeys(m)}

\* Faulty variant: off by one at the capacity.
MakeRoomLate(m, k, capacity) ==
  IF k \notin DOMAIN m /\ Cardinality(DOMAIN m) > capacity THEN EvictOldest(m) ELSE {m}

\* Room for key k: the map is kept below its capacity, which is never 0.
MakeRoom(m, k, capacity) ==
  IF k \notin DOMAIN m /\ Cardinality(DOMAIN m) >= capacity THEN EvictOldest(m) ELSE {m}

\* insert: expired entries go first, then the oldest if there is no room.
Inserts(m, k, v, now, ttl, capacity) ==
  {Put(n, k, Entry(v, now)) : n \in MakeRoom(EvictExpired(m, now, ttl), k, capacity)}

\* Faulty variant: touch only looks the entry up.
NotTouched(m, k, now) == m

\* touch: refreshes an entry that is there, expired or not.
Touch(m, k, now) == IF k \in DOMAIN m THEN [m EXCEPT ![k].last_seen = now] ELSE m

\* retain
Retain(m, keep) == Restrict(m, DOMAIN m \cap keep)
=============================================================================
