------------------------- MODULE RateLimiterProofs -------------------------
(***************************************************************************)
(* Proofs about RateLimiter, for every set of sessions, rates and chunks   *)
(* and every value of the bounds.                                          *)
(***************************************************************************)
EXTENDS RateLimiter, TLAPS

----------------------------------------------------------------------------
(* Arithmetic. *)

\* min, max and saturating_sub on numbers.
LEMMA Extremes ==
  ASSUME NEW a \in Nat, NEW b \in Nat
  PROVE  /\ Smaller(a, b) \in Nat /\ Larger(a, b) \in Nat /\ Less(a, b) \in Nat
         /\ Smaller(a, b) <= a /\ Smaller(a, b) <= b
         /\ Smaller(a, b) = a \/ Smaller(a, b) = b
         /\ a <= Larger(a, b) /\ b <= Larger(a, b)
         /\ b <= a => Less(a, b) = a - b
         /\ a <= b => Less(a, b) = 0
BY DEF Smaller, Larger, Less

\* One more tick is one more rate.
LEMMA Product ==
  ASSUME NEW a \in Nat, NEW r \in Nat
  PROVE  a * r \in Nat /\ (a + 1) * r = a * r + r
OBVIOUS

\* The wait of a sleeper is a number of ticks.
LEMMA CeilDivType ==
  ASSUME NEW a \in Nat, NEW b \in Nat \ {0}
  PROVE  CeilDiv(a, b) \in Nat
BY DEF CeilDiv

\* capacity_for is positive and no less than the rate.
LEMMA CapacityType ==
  ASSUME NEW r \in Nat
  PROVE  CapacityFor(r) \in Nat \ {0} /\ r <= CapacityFor(r)
BY RateAssumption DEF CapacityFor, Larger

----------------------------------------------------------------------------
(* What the operations on a bucket keep. *)

\* refill credits tokens up to the capacity and changes nothing else.
LEMMA RefillFacts ==
  ASSUME NEW b \in BucketState
  PROVE  /\ Refill(b) \in BucketState
         /\ Refill(b).rate = b.rate /\ Refill(b).capacity = b.capacity
         /\ Refill(b).age = 0
         /\ b.rate # 0 => Refill(b).tokens = Smaller(b.tokens + b.age * b.rate, b.capacity)
         /\ b.rate = 0 => Refill(b).tokens = b.tokens
<1>0. b.age * b.rate \in Nat
  BY RateAssumption, Product DEF BucketState
<1>1. b.tokens + b.age * b.rate \in Nat
  BY <1>0 DEF BucketState
<1>2. Smaller(b.tokens + b.age * b.rate, b.capacity) \in Nat
  BY <1>1, Extremes DEF BucketState
<1> DEFINE t == Smaller(b.tokens + b.age * b.rate, b.capacity)
<1>3. b.rate = 0 => Refill(b) = [b EXCEPT !.age = 0]
  BY DEF Refill
<1>4. b.rate # 0 => Refill(b) = [b EXCEPT !.age = 0, !.tokens = t]
  BY DEF Refill
<1>5. t \in Nat /\ 0 \in 0 .. MaxAge
  BY <1>2, RateAssumption
<1> HIDE DEF t
<1>6. CASE b.rate = 0
  BY <1>3, <1>5, <1>6 DEF BucketState
<1>7. CASE b.rate # 0
  <2>1. /\ [b EXCEPT !.age = 0, !.tokens = t] \in BucketState
        /\ [b EXCEPT !.age = 0, !.tokens = t].rate = b.rate
        /\ [b EXCEPT !.age = 0, !.tokens = t].capacity = b.capacity
        /\ [b EXCEPT !.age = 0, !.tokens = t].age = 0
        /\ [b EXCEPT !.age = 0, !.tokens = t].tokens = t
    BY <1>5 DEF BucketState
  <2>2. QED
    BY <1>4, <1>7, <2>1 DEF t
<1>8. QED
  BY <1>6, <1>7

\* A bucket that has just been refilled holds what it would hold.
LEMMA JustRefilled ==
  ASSUME NEW b \in BucketState, b.age = 0, b.tokens <= b.capacity
  PROVE  Refill(b).tokens = b.tokens
<1>1. b.age * b.rate = 0
  BY DEF BucketState
<1>2. QED
  BY <1>1, RefillFacts DEF BucketState, Smaller

\* refill keeps a bucket within its burst.
LEMMA RefillKeeps ==
  ASSUME NEW b \in BucketState, NEW m \in Nat, NEW p \in Nat, Burst(b, m, p)
  PROVE  Burst(Refill(b), m, p)
<1> DEFINE r == Refill(b)
<1>1. r \in BucketState /\ r.age = 0 /\ r.rate = b.rate /\ r.capacity = b.capacity
  BY RefillFacts
<1>2. r.tokens <= r.capacity
  <2>1. b.age \in Nat /\ b.rate \in Nat /\ b.tokens \in Nat /\ b.capacity \in Nat
    BY RateAssumption DEF BucketState
  <2>2. b.tokens + b.age * b.rate \in Nat
    BY <2>1, Product
  <2>3. Smaller(b.tokens + b.age * b.rate, b.capacity) <= b.capacity
    BY <2>1, <2>2, Extremes
  <2>4. QED
    BY <1>1, <2>3, RefillFacts DEF Burst
<1>3. Refill(r).tokens = r.tokens
  BY <1>1, <1>2, JustRefilled
<1>4. QED
  BY <1>1, <1>2, <1>3 DEF Burst

\* Taking tokens out and counting them.
LEMMA GrantKeeps ==
  ASSUME NEW b \in BucketState, NEW m \in Nat, NEW p \in Nat, Burst(b, m, p),
         b.rate # 0, b.age = 0, NEW n \in Nat, n <= b.tokens
  PROVE  /\ [b EXCEPT !.tokens = @ - n] \in BucketState
         /\ Burst([b EXCEPT !.tokens = @ - n], m + n, p)
<1> DEFINE c == [b EXCEPT !.tokens = @ - n]
<1>1. /\ c \in BucketState /\ c.age = 0 /\ c.rate = b.rate
      /\ c.capacity = b.capacity /\ c.tokens = b.tokens - n
  BY DEF BucketState
<1>2. b.tokens \in Nat /\ b.capacity \in Nat
  BY DEF BucketState
<1>3. Refill(b).tokens = b.tokens
  BY JustRefilled DEF Burst
<1>4. c.tokens <= c.capacity
  BY <1>1, <1>2 DEF Burst
<1>5. Refill(c).tokens = c.tokens
  BY <1>1, <1>4, JustRefilled
<1>6. QED
  BY <1>1, <1>2, <1>3, <1>4, <1>5 DEF Burst

\* A new bucket is full, which is one burst.
LEMMA NewKeeps ==
  ASSUME NEW r \in Nat
  PROVE  /\ NewBucket(r) \in BucketState
         /\ Burst(NewBucket(r), 0, CapacityFor(r))
<1>1. CapacityFor(r) \in Nat
  BY CapacityType
<1>2. NewBucket(r) \in BucketState
  BY <1>1, RateAssumption DEF NewBucket, BucketState
<1>3. Refill(NewBucket(r)).tokens = CapacityFor(r)
  BY <1>1, <1>2, JustRefilled DEF NewBucket
<1>4. QED
  BY <1>1, <1>2, <1>3 DEF Burst, NewBucket

\* set_rate settles the past at the old rate and cuts what is above the new
\* capacity.
LEMMA SetRateKeeps ==
  ASSUME NEW b \in BucketState, NEW m \in Nat, NEW p \in Nat, Burst(b, m, p),
         NEW r \in Nat, r # b.rate
  PROVE  /\ SetRate(b, r) \in BucketState
         /\ r = 0 => Burst(SetRate(b, r), 0, CapacityFor(0))
         /\ r # 0 /\ m = 0 => Burst(SetRate(b, r), m, CapacityFor(r))
         /\ r # 0 => Burst(SetRate(b, r), m, Larger(p, CapacityFor(r)))
<1> DEFINE c == SetRate(b, r)
           old == Refill(b).tokens
           cap == CapacityFor(r)
<1>1. old \in Nat /\ cap \in Nat /\ m + old <= p
  BY RefillFacts, CapacityType DEF BucketState, Burst
<1>2. /\ c.rate = r /\ c.capacity = cap /\ c.age = 0
      /\ c.tokens = Smaller(old, cap)
  BY DEF SetRate
<1>3. /\ Smaller(old, cap) \in Nat
      /\ Smaller(old, cap) <= old /\ Smaller(old, cap) <= cap
      /\ p <= Larger(p, cap) /\ cap <= Larger(p, cap) /\ Larger(p, cap) \in Nat
  BY <1>1, Extremes
<1>4. c \in BucketState
  BY <1>1, <1>3, RateAssumption DEF SetRate, BucketState
<1>5. Refill(c).tokens = c.tokens
  BY <1>2, <1>3, <1>4, JustRefilled
<1> HIDE DEF c, old, cap
<1>6. r = 0 => Burst(c, 0, cap)
  BY <1>1, <1>2, <1>3, <1>5 DEF Burst, cap
<1>7. r # 0 /\ m = 0 => Burst(c, m, cap)
  BY <1>1, <1>2, <1>3, <1>5 DEF Burst, cap
<1>8. r # 0 => Burst(c, m, Larger(p, cap))
  BY <1>1, <1>2, <1>3, <1>5 DEF Burst, cap
<1>9. QED
  BY <1>4, <1>6, <1>7, <1>8 DEF c, cap

\* A tick adds at most the rate to what the bucket would hold, and takes as
\* much off what counts against it.
LEMMA TickKeeps ==
  ASSUME NEW b \in BucketState, NEW m \in Nat, NEW p \in Nat, Burst(b, m, p)
  PROVE  LET c == [b EXCEPT !.age = Smaller(@ + 1, MaxAge)] IN
         /\ c \in BucketState
         /\ Burst(c, Less(m, b.rate), IF m <= b.rate THEN CapacityFor(b.rate) ELSE p)
<1> DEFINE c == [b EXCEPT !.age = Smaller(@ + 1, MaxAge)]
           x == b.tokens + b.age * b.rate
           y == c.tokens + c.age * c.rate
<1>1. /\ b.age \in Nat /\ b.age <= MaxAge /\ MaxAge \in Nat
      /\ b.rate \in Nat /\ b.tokens \in Nat /\ b.capacity \in Nat
  BY RateAssumption DEF BucketState
<1>2. /\ Smaller(b.age + 1, MaxAge) \in 0 .. MaxAge
      /\ Smaller(b.age + 1, MaxAge) = b.age + 1 \/ Smaller(b.age + 1, MaxAge) = b.age
  BY <1>1 DEF Smaller
<1>3. /\ c \in BucketState /\ c.rate = b.rate /\ c.tokens = b.tokens
      /\ c.capacity = b.capacity
      /\ c.age = b.age + 1 \/ c.age = b.age
  BY <1>2 DEF BucketState
<1>4. x \in Nat /\ y \in Nat /\ y <= x + b.rate
  <2>1. /\ b.age * b.rate \in Nat
        /\ (b.age + 1) * b.rate = b.age * b.rate + b.rate
    BY <1>1, Product
  <2>2. CASE c.age = b.age + 1
    BY <1>1, <1>3, <2>1, <2>2
  <2>3. CASE c.age = b.age
    BY <1>1, <1>3, <2>1, <2>3
  <2>4. QED
    BY <1>3, <2>2, <2>3
<1>5. /\ b.rate # 0 => Refill(b).tokens = Smaller(x, b.capacity)
      /\ b.rate # 0 => Refill(c).tokens = Smaller(y, b.capacity)
      /\ b.rate = 0 => Refill(c).tokens = b.tokens
  BY <1>3, RefillFacts
<1>6. /\ b.capacity = CapacityFor(b.rate) /\ b.tokens <= b.capacity /\ b.capacity <= p
      /\ b.rate = 0 => m = 0
      /\ m + Refill(b).tokens <= p
  BY DEF Burst
<1> HIDE DEF c, x, y
<1>7. Refill(c).tokens \in Nat /\ Refill(c).tokens <= b.capacity
  BY <1>1, <1>4, <1>5, <1>6 DEF Smaller
<1>8. m > b.rate => m - b.rate + Refill(c).tokens <= p
  BY <1>1, <1>4, <1>5, <1>6 DEF Smaller
<1>9. Burst(c, Less(m, b.rate), IF m <= b.rate THEN CapacityFor(b.rate) ELSE p)
  <2>1. CASE m <= b.rate
    BY <1>1, <1>3, <1>6, <1>7, <2>1 DEF Burst, Less
  <2>2. CASE ~(m <= b.rate)
    BY <1>1, <1>3, <1>6, <1>7, <1>8, <2>2 DEF Burst, Less
  <2>3. QED
    BY <2>1, <2>2
<1>10. QED
  BY <1>3, <1>9 DEF c

----------------------------------------------------------------------------
(* Maps. *)

\* insert on a HashMap.
LEMMA PutFacts ==
  ASSUME NEW f, NEW K, NEW V, IsMap(f, K, V), NEW k \in K, NEW v \in V
  PROVE  /\ IsMap(Put(f, k, v), K, V)
         /\ DOMAIN Put(f, k, v) = DOMAIN f \cup {k}
         /\ Put(f, k, v)[k] = v
         /\ \A x \in DOMAIN f \ {k} : Put(f, k, v)[x] = f[x]
BY DEF IsMap, Put

\* remove on a HashMap.
LEMMA WithoutFacts ==
  ASSUME NEW f, NEW K, NEW V, IsMap(f, K, V), NEW k
  PROVE  /\ IsMap(Without(f, k), K, V)
         /\ DOMAIN Without(f, k) = DOMAIN f \ {k}
         /\ \A x \in DOMAIN f \ {k} : Without(f, k)[x] = f[x]
BY DEF IsMap, Without, Restrict

\* A map is one into any larger set.
LEMMA WiderMap ==
  ASSUME NEW f, NEW K, NEW V, NEW L, NEW W, IsMap(f, K, V), K \subseteq L, V \subseteq W
  PROVE  IsMap(f, L, W)
BY DEF IsMap

----------------------------------------------------------------------------
(* The inductive invariant. *)

\* Nothing named is missing, no bucket is past its burst, and tables and
\* ledger agree (RateLimiter, SpeedLedger).
RateInv == TypeOK /\ BurstInv /\ PublishedBucketUpdated

\* What the invariant says of one bucket.
LEMMA OneBucket ==
  ASSUME TypeOK, BurstInv, NEW g \in DOMAIN buckets
  PROVE  /\ buckets[g] \in BucketState /\ g \in Bucket
         /\ meter[g] \in Nat /\ peak[g] \in Nat
         /\ Burst(buckets[g], meter[g], peak[g])
BY DEF TypeOK, BurstInv, IsMap

\* The part of the types that is about buckets.
BucketsOK ==
  /\ DOMAIN buckets = 1 .. created /\ IsMap(buckets, Bucket, BucketState)
  /\ meter \in [Bucket -> Nat] /\ peak \in [Bucket -> Nat]

\* A step that changes one bucket need only be looked at there.
LEMMA OneChanged ==
  ASSUME TypeOK, BurstInv, NEW g \in DOMAIN buckets,
         NEW b \in BucketState, NEW m \in Nat, NEW p \in Nat, Burst(b, m, p),
         buckets' = [buckets EXCEPT ![g] = b],
         meter' = [meter EXCEPT ![g] = m], peak' = [peak EXCEPT ![g] = p],
         created' = created
  PROVE  BucketsOK' /\ BurstInv' /\ DOMAIN buckets' = DOMAIN buckets
<1>1. /\ DOMAIN buckets = 1 .. created /\ DOMAIN buckets \subseteq Bucket
      /\ buckets \in [DOMAIN buckets -> BucketState]
      /\ meter \in [Bucket -> Nat] /\ peak \in [Bucket -> Nat]
  BY DEF TypeOK, IsMap
<1>2. /\ DOMAIN buckets' = DOMAIN buckets
      /\ buckets' \in [DOMAIN buckets -> BucketState]
      /\ meter' \in [Bucket -> Nat] /\ peak' \in [Bucket -> Nat]
  BY <1>1
<1>3. BucketsOK'
  BY <1>1, <1>2 DEF BucketsOK, IsMap, Bucket
<1>4. \A h \in DOMAIN buckets' : Burst(buckets[h]', meter[h]', peak[h]')
  <2> TAKE h \in DOMAIN buckets'
  <2>1. CASE h = g
    <3>1. buckets[h]' = b /\ meter[h]' = m /\ peak[h]' = p
      BY <1>1, <2>1
    <3>2. QED
      BY <3>1
  <2>2. CASE h # g
    <3>1. h \in DOMAIN buckets /\ h \in Bucket
      BY <1>1, <1>2
    <3>2. buckets[h]' = buckets[h] /\ meter[h]' = meter[h] /\ peak[h]' = peak[h]
      BY <1>1, <2>2, <3>1
    <3>3. QED
      BY <3>1, <3>2, OneBucket
  <2>3. QED
    BY <2>1, <2>2
<1>5. \A h \in Bucket \ DOMAIN buckets' : meter[h]' = 0
  BY <1>1, <1>2 DEF BurstInv
<1>6. BurstInv'
  BY <1>4, <1>5 DEF BurstInv, Bucket
<1>7. QED
  BY <1>2, <1>3, <1>6

----------------------------------------------------------------------------
(* One lemma per action. *)

\* At the start there is no bucket.
LEMMA InitRate ==
  ASSUME Init
  PROVE  RateInv
<1>1. 1 .. 0 = {} /\ DOMAIN << >> = {} /\ 0 \in 0 .. MaxGen /\ 0 \in 0 .. MaxChanges
  BY RateAssumption
<1>2. TypeOK
  <2>1. \A K, V : IsMap(<< >>, K, V)
    BY <1>1 DEF IsMap
  <2>2. meter \in [Bucket -> Nat] /\ peak \in [Bucket -> Nat]
    BY DEF Init
  <2>3. 0 \in 0 .. 0
    OBVIOUS
  <2>4. QED
    BY <1>1, <2>1, <2>2, <2>3 DEF Init, TypeOK
<1>3. BurstInv /\ PublishedBucketUpdated
  BY <1>1 DEF Init, BurstInv, PublishedBucketUpdated
<1>4. QED
  BY <1>2, <1>3 DEF RateInv

\* ensure_user makes a bucket nothing has been granted from.
LEMMA ListNewRate ==
  ASSUME RateInv, NEW r \in Rate, ListNew(r)
  PROVE  RateInv'
<1>1. r \in Nat /\ CapacityFor(r) \in Nat
  BY RateAssumption, CapacityType
<1> DEFINE new == created + 1
<1>2. /\ created \in 0 .. MaxGen /\ created < MaxGen /\ MaxGen \in Nat
      /\ DOMAIN buckets = 1 .. created
      /\ meter \in [Bucket -> Nat] /\ peak \in [Bucket -> Nat]
  BY RateAssumption DEF RateInv, TypeOK, ListNew
<1>3. new \in Bucket /\ new \notin DOMAIN buckets /\ 1 .. new = 1 .. created \cup {new}
  BY <1>2 DEF Bucket
<1>4. /\ IsMap(buckets', Bucket, BucketState)
      /\ DOMAIN buckets' = 1 .. new
      /\ buckets'[new] = NewBucket(r)
      /\ \A g \in DOMAIN buckets : buckets'[g] = buckets[g]
  <2>1. IsMap(buckets, Bucket, BucketState) /\ buckets' = Put(buckets, new, NewBucket(r))
    BY DEF RateInv, TypeOK, ListNew
  <2>2. NewBucket(r) \in BucketState
    BY <1>1, NewKeeps
  <2>3. /\ IsMap(Put(buckets, new, NewBucket(r)), Bucket, BucketState)
        /\ DOMAIN Put(buckets, new, NewBucket(r)) = DOMAIN buckets \cup {new}
        /\ Put(buckets, new, NewBucket(r))[new] = NewBucket(r)
        /\ \A g \in DOMAIN buckets \ {new} :
             Put(buckets, new, NewBucket(r))[g] = buckets[g]
    BY <1>3, <2>1, <2>2 DEF IsMap, Put
  <2> HIDE DEF new
  <2>4. QED
    BY <1>2, <1>3, <2>1, <2>3
<1>5. /\ meter' = meter /\ peak' = [peak EXCEPT ![new] = CapacityFor(r)]
      /\ created' = new /\ ledger' = new /\ table' = new /\ syncing' = TRUE
      /\ UNCHANGED <<limiter, asleep, changes, granted>>
  BY DEF ListNew
<1>6. TypeOK'
  <2>1. new \in 0 .. MaxGen /\ 1 .. created \subseteq 1 .. new /\ new \in 0 .. new
    BY <1>2
  <2>2. IsMap(limiter, Session, 1 .. created)
    BY DEF RateInv, TypeOK
  <2>3. IsMap(limiter, Session, 1 .. new)
    BY <2>1, <2>2, WiderMap
  <2>4. peak' \in [Bucket -> Nat]
    BY <1>1, <1>2, <1>5
  <2> HIDE DEF new
  <2>5. QED
    BY <1>2, <1>4, <1>5, <2>1, <2>3, <2>4 DEF RateInv, TypeOK, Bucket
<1>7. BurstInv'
  <2>1. \A g \in DOMAIN buckets' : Burst(buckets[g]', meter[g]', peak[g]')
    <3> TAKE g \in DOMAIN buckets'
    <3>1. CASE g = new
      <4>1. meter[new] = 0
        BY <1>3 DEF RateInv, BurstInv
      <4>2. Burst(NewBucket(r), 0, CapacityFor(r))
        BY <1>1, NewKeeps
      <4>3. peak'[new] = CapacityFor(r)
        BY <1>2, <1>3, <1>5
      <4>4. QED
        BY <1>4, <1>5, <3>1, <4>1, <4>2, <4>3
    <3>2. CASE g # new
      <4>1. g \in DOMAIN buckets
        BY <1>2, <1>3, <1>4, <3>2
      <4>2. g \in Bucket /\ Burst(buckets[g], meter[g], peak[g])
        BY <4>1, OneBucket DEF RateInv
      <4>3. buckets'[g] = buckets[g] /\ peak'[g] = peak[g]
        BY <1>2, <1>4, <1>5, <3>2, <4>1, <4>2
      <4>4. QED
        BY <1>5, <4>2, <4>3
    <3>3. QED
      BY <3>1, <3>2
  <2>2. \A g \in Bucket \ DOMAIN buckets' : meter'[g] = 0
    BY <1>2, <1>3, <1>4, <1>5 DEF RateInv, BurstInv
  <2>3. QED
    BY <2>1, <2>2 DEF BurstInv, Bucket
<1>8. QED
  BY <1>5, <1>6, <1>7 DEF RateInv, PublishedBucketUpdated

\* ensure_user sets the rate of the ledger's bucket.
LEMMA ListAgainRate ==
  ASSUME RateInv, NEW r \in Rate, ListAgain(r)
  PROVE  RateInv'
<1> DEFINE b == buckets[ledger]
<1>1. r \in Nat /\ CapacityFor(r) \in Nat /\ CapacityFor(0) \in Nat
  BY RateAssumption, CapacityType
<1>2. ledger \in DOMAIN buckets
  BY RateAssumption DEF RateInv, TypeOK, ListAgain
<1>3. /\ b \in BucketState /\ meter[ledger] \in Nat /\ peak[ledger] \in Nat
      /\ Burst(b, meter[ledger], peak[ledger])
  BY <1>2, OneBucket DEF RateInv
<1>4. /\ buckets' = [buckets EXCEPT ![ledger] = SetRate(b, r)]
      /\ UNCHANGED <<ledger, created, limiter, asleep, granted>>
      /\ table' = ledger /\ syncing' = TRUE
  BY DEF ListAgain
<1>5. meter \in [Bucket -> Nat] /\ peak \in [Bucket -> Nat]
  BY DEF RateInv, TypeOK
<1>6. \E m \in Nat, p \in Nat :
        /\ SetRate(b, r) \in BucketState /\ Burst(SetRate(b, r), m, p)
        /\ meter' = [meter EXCEPT ![ledger] = m]
        /\ peak' = [peak EXCEPT ![ledger] = p]
  <2> DEFINE m0 == meter[ledger]
             p0 == peak[ledger]
  <2>0. /\ meter = [meter EXCEPT ![ledger] = m0]
        /\ peak = [peak EXCEPT ![ledger] = p0]
    BY <1>5
  <2>1. CASE r = b.rate
    <3>1. SetRate(b, r) = b /\ UNCHANGED <<meter, peak>>
      BY <2>1 DEF ListAgain, SetRate
    <3>2. QED
      BY <1>3, <2>0, <3>1
  <2>2. CASE r # b.rate
    <3>1. Remeter(ledger, r)
      BY <2>2 DEF ListAgain
    <3>2. /\ SetRate(b, r) \in BucketState
          /\ r = 0 => Burst(SetRate(b, r), 0, CapacityFor(0))
          /\ r # 0 /\ m0 = 0 => Burst(SetRate(b, r), m0, CapacityFor(r))
          /\ r # 0 => Burst(SetRate(b, r), m0, Larger(p0, CapacityFor(r)))
      BY <1>1, <1>3, <2>2, SetRateKeeps
    <3>3. Larger(p0, CapacityFor(r)) \in Nat
      BY <1>1, <1>3, Extremes
    <3>4. CASE r = 0
      BY <1>1, <3>1, <3>2, <3>4 DEF Remeter
    <3>5. CASE r # 0 /\ m0 = 0
      BY <1>1, <1>3, <2>0, <3>1, <3>2, <3>5 DEF Remeter
    <3>6. CASE r # 0 /\ m0 # 0
      BY <1>1, <1>3, <2>0, <3>1, <3>2, <3>3, <3>6 DEF Remeter
    <3>7. QED
      BY <3>4, <3>5, <3>6
  <2>3. QED
    BY <2>1, <2>2
<1>7. BucketsOK' /\ BurstInv'
  BY <1>2, <1>4, <1>6, OneChanged DEF RateInv
<1>8. changes' \in 0 .. MaxChanges
  BY RateAssumption DEF RateInv, TypeOK, ListAgain
<1>9. TypeOK'
  BY <1>4, <1>7, <1>8 DEF RateInv, TypeOK, BucketsOK
<1>10. QED
  BY <1>4, <1>7, <1>9 DEF RateInv, PublishedBucketUpdated

\* Steps that leave the buckets and what is measured of them alone.
LEMMA BurstUnchanged ==
  ASSUME BurstInv, UNCHANGED <<buckets, meter, peak>>
  PROVE  BurstInv'
BY DEF BurstInv, Bucket

\* The tables are published without the user.
LEMMA UnlistRate ==
  ASSUME RateInv, Unlist
  PROVE  RateInv'
<1>1. TypeOK'
  BY RateAssumption DEF RateInv, TypeOK, Unlist, historyVars, Bucket
<1>2. QED
  BY <1>1, BurstUnchanged DEF RateInv, Unlist, historyVars, PublishedBucketUpdated

\* The ledger keeps the bucket of the published tables.
LEMMA RemoveStaleRate ==
  ASSUME RateInv, RemoveStale
  PROVE  RateInv'
<1>1. TypeOK'
  BY DEF RateInv, TypeOK, RemoveStale, RetainLive, historyVars, Bucket
<1>2. PublishedBucketUpdated'
  BY DEF RemoveStale, RetainLive, PublishedBucketUpdated
<1>3. QED
  BY <1>1, <1>2, BurstUnchanged DEF RateInv, RemoveStale, historyVars

\* A session takes the bucket of the tables.
LEMMA AcceptRate ==
  ASSUME RateInv, NEW s \in Session, Accept(s)
  PROVE  RateInv'
<1>1. /\ IsMap(limiter, Session, 1 .. created) /\ table \in 1 .. created
      /\ IsMap(asleep, DOMAIN limiter, [amount : Chunk, wait : Nat])
  BY RateAssumption DEF RateInv, TypeOK, Accept
<1>2. limiter' = Put(limiter, s, table) /\ UNCHANGED <<ledgerVars, buckets, asleep, historyVars>>
  BY DEF Accept
<1>3. /\ IsMap(limiter', Session, 1 .. created)
      /\ DOMAIN limiter' = DOMAIN limiter \cup {s}
  BY <1>1, <1>2 DEF IsMap, Put
<1>4. IsMap(asleep, DOMAIN limiter', [amount : Chunk, wait : Nat])
  BY <1>1, <1>3 DEF IsMap
<1>5. TypeOK'
  BY <1>2, <1>3, <1>4 DEF RateInv, TypeOK, ledgerVars, historyVars, Bucket
<1>6. QED
  BY <1>2, <1>5, BurstUnchanged DEF RateInv, ledgerVars, historyVars, PublishedBucketUpdated

\* A session that sleeps keeps its bucket.
LEMMA CloseRate ==
  ASSUME RateInv, NEW s \in Session, Close(s)
  PROVE  RateInv'
<1>1. /\ IsMap(limiter, Session, 1 .. created) /\ s \notin DOMAIN asleep
      /\ IsMap(asleep, DOMAIN limiter, [amount : Chunk, wait : Nat])
  BY DEF RateInv, TypeOK, Close
<1>2. limiter' = Without(limiter, s) /\ UNCHANGED <<ledgerVars, buckets, asleep, historyVars>>
  BY DEF Close
<1>3. /\ IsMap(limiter', Session, 1 .. created)
      /\ DOMAIN limiter' = DOMAIN limiter \ {s}
  BY <1>1, <1>2, WithoutFacts
<1>4. IsMap(asleep, DOMAIN limiter', [amount : Chunk, wait : Nat])
  BY <1>1, <1>3 DEF IsMap
<1>5. TypeOK'
  BY <1>2, <1>3, <1>4 DEF RateInv, TypeOK, ledgerVars, historyVars, Bucket
<1>6. QED
  BY <1>2, <1>5, BurstUnchanged DEF RateInv, ledgerVars, historyVars, PublishedBucketUpdated

\* One turn of the loop of acquire, whoever takes it.
LEMMA TurnRate ==
  ASSUME RateInv, NEW s \in DOMAIN limiter, NEW n \in Chunk,
         Turn(s, n), UNCHANGED <<ledgerVars, limiter>>
  PROVE  RateInv'
<1> DEFINE g == limiter[s]
           b == Refill(buckets[g])
           Sleeper == [amount : Chunk, wait : Nat]
<1>1. g \in DOMAIN buckets /\ n \in Nat
  BY RateAssumption DEF RateInv, TypeOK, IsMap
<1>2. /\ buckets[g] \in BucketState /\ g \in Bucket
      /\ meter[g] \in Nat /\ peak[g] \in Nat
      /\ Burst(buckets[g], meter[g], peak[g])
  BY <1>1, OneBucket DEF RateInv
<1>3. b \in BucketState /\ b.age = 0 /\ Burst(b, meter[g], peak[g])
  BY <1>2, RefillFacts, RefillKeeps
<1>4. b.tokens \in Nat /\ b.capacity \in Nat /\ b.rate \in Nat /\ Need(b, n) \in Nat
  BY <1>1, <1>3, Extremes DEF BucketState, Need
<1>5. /\ IsMap(asleep, DOMAIN limiter, Sleeper)
      /\ meter \in [Bucket -> Nat] /\ peak \in [Bucket -> Nat]
      /\ created' = created
  BY DEF RateInv, TypeOK, ledgerVars
<1>6. IsMap(Without(asleep, s), DOMAIN limiter, Sleeper)
  BY <1>5, WithoutFacts
<1>7. ASSUME BucketsOK', BurstInv', granted' \in BOOLEAN,
             IsMap(asleep', DOMAIN limiter, Sleeper)
      PROVE  RateInv'
  BY <1>7 DEF RateInv, TypeOK, BucketsOK, ledgerVars, PublishedBucketUpdated
<1>8. CASE Unlimited(s)
  <2>1. /\ UNCHANGED <<buckets, meter, peak>> /\ asleep' = Without(asleep, s)
        /\ granted' = TRUE
    BY <1>8 DEF Unlimited
  <2>2. BurstInv'
    BY <2>1, BurstUnchanged DEF RateInv
  <2>3. BucketsOK'
    BY <1>5, <2>1 DEF RateInv, TypeOK, BucketsOK, Bucket
  <2>4. QED
    BY <1>6, <1>7, <2>1, <2>2, <2>3
<1>9. CASE Grant(s, n)
  <2>1. /\ b.rate # 0 /\ b.tokens >= Need(b, n)
        /\ buckets' = [buckets EXCEPT ![g] = [b EXCEPT !.tokens = @ - Need(b, n)]]
        /\ asleep' = Without(asleep, s)
        /\ meter' = [meter EXCEPT ![g] = @ + Need(b, n)]
        /\ granted' = TRUE /\ peak' = peak
    BY <1>9 DEF Grant, Enough
  <2>2. /\ [b EXCEPT !.tokens = @ - Need(b, n)] \in BucketState
        /\ Burst([b EXCEPT !.tokens = @ - Need(b, n)], meter[g] + Need(b, n), peak[g])
    BY <1>2, <1>3, <1>4, <2>1, GrantKeeps
  <2>3. /\ meter' = [meter EXCEPT ![g] = meter[g] + Need(b, n)]
        /\ peak' = [peak EXCEPT ![g] = peak[g]]
        /\ meter[g] + Need(b, n) \in Nat
    BY <1>2, <1>4, <1>5, <2>1
  <2> DEFINE c == [b EXCEPT !.tokens = @ - Need(b, n)]
             m == meter[g] + Need(b, n)
             p == peak[g]
  <2>4. /\ g \in DOMAIN buckets /\ c \in BucketState /\ m \in Nat /\ p \in Nat
        /\ Burst(c, m, p)
        /\ buckets' = [buckets EXCEPT ![g] = c]
        /\ meter' = [meter EXCEPT ![g] = m] /\ peak' = [peak EXCEPT ![g] = p]
    BY <1>1, <1>2, <2>1, <2>2, <2>3
  <2> HIDE DEF b, g, c, m, p
  <2>5. BucketsOK' /\ BurstInv'
    BY <1>5, <2>4, OneChanged DEF RateInv
  <2>6. QED
    BY <1>6, <1>7, <2>1, <2>5
<1>10. CASE Sleep(s, n)
  <2>1. /\ b.rate # 0 /\ ~(b.tokens >= Need(b, n))
        /\ buckets' = [buckets EXCEPT ![g] = b]
        /\ asleep' = Put(asleep, s, [amount |-> n,
                            wait |-> CeilDiv(Need(b, n) - b.tokens, b.rate)])
        /\ UNCHANGED <<meter, peak, granted>>
    BY <1>10 DEF Sleep, Enough, historyVars
  <2>2. CeilDiv(Need(b, n) - b.tokens, b.rate) \in Nat
    BY <1>4, <2>1, CeilDivType
  <2>3. /\ meter' = [meter EXCEPT ![g] = meter[g]]
        /\ peak' = [peak EXCEPT ![g] = peak[g]]
    BY <1>5, <2>1
  <2>4. IsMap(asleep', DOMAIN limiter, Sleeper)
    BY <1>5, <2>1, <2>2, PutFacts
  <2>5. granted' \in BOOLEAN
    BY <2>1 DEF RateInv, TypeOK
  <2> DEFINE m == meter[g]
             p == peak[g]
  <2>6. /\ g \in DOMAIN buckets /\ b \in BucketState /\ m \in Nat /\ p \in Nat
        /\ Burst(b, m, p)
        /\ buckets' = [buckets EXCEPT ![g] = b]
        /\ meter' = [meter EXCEPT ![g] = m] /\ peak' = [peak EXCEPT ![g] = p]
    BY <1>1, <1>2, <1>3, <2>1, <2>3
  <2> HIDE DEF b, g, m, p
  <2>7. BucketsOK' /\ BurstInv'
    BY <1>5, <2>6, OneChanged DEF RateInv
  <2>8. QED
    BY <1>7, <2>4, <2>5, <2>7
<1>11. QED
  BY <1>8, <1>9, <1>10 DEF Turn

\* Time passes for every bucket and sleeper.
LEMMA TickRate ==
  ASSUME RateInv, Tick
  PROVE  RateInv'
<1> DEFINE Older(g) == [buckets[g] EXCEPT !.age = Smaller(@ + 1, MaxAge)]
<1>1. /\ buckets' = [g \in DOMAIN buckets |-> Older(g)]
      /\ asleep' = [s \in DOMAIN asleep |-> [asleep[s] EXCEPT !.wait = Less(@, 1)]]
      /\ meter' = [g \in Bucket |-> IF g \in DOMAIN buckets
                                    THEN Less(meter[g], buckets[g].rate) ELSE 0]
      /\ peak' = [g \in Bucket |->
                    IF g \in DOMAIN buckets /\ meter[g] <= buckets[g].rate
                    THEN CapacityFor(buckets[g].rate) ELSE peak[g]]
      /\ granted' = FALSE
      /\ UNCHANGED <<ledgerVars, limiter>>
  BY DEF Tick
<1>2. ASSUME NEW g \in DOMAIN buckets
      PROVE  /\ g \in Bucket /\ buckets[g].rate \in Nat
             /\ Older(g) \in BucketState
             /\ Burst(Older(g), Less(meter[g], buckets[g].rate),
                      IF meter[g] <= buckets[g].rate
                      THEN CapacityFor(buckets[g].rate) ELSE peak[g])
             /\ Less(meter[g], buckets[g].rate) \in Nat
             /\ CapacityFor(buckets[g].rate) \in Nat
  <2>1. /\ buckets[g] \in BucketState /\ g \in Bucket
        /\ meter[g] \in Nat /\ peak[g] \in Nat
        /\ Burst(buckets[g], meter[g], peak[g])
    BY <1>2, OneBucket DEF RateInv
  <2>2. buckets[g].rate \in Nat
    BY <2>1 DEF BucketState
  <2>3. QED
    BY <2>1, <2>2, TickKeeps, Extremes, CapacityType
<1>3. /\ DOMAIN buckets = 1 .. created /\ peak \in [Bucket -> Nat]
      /\ IsMap(asleep, DOMAIN limiter, [amount : Chunk, wait : Nat])
  BY DEF RateInv, TypeOK
<1> HIDE DEF Older
<1>4. BucketsOK'
  <2>1. IsMap(buckets', Bucket, BucketState)
    BY <1>1, <1>2 DEF IsMap
  <2>2. meter' \in [Bucket -> Nat]
    BY <1>1, <1>2
  <2>3. peak' \in [Bucket -> Nat]
    BY <1>1, <1>2, <1>3
  <2>4. DOMAIN buckets' = 1 .. created' /\ created' = created
    BY <1>1, <1>3 DEF ledgerVars
  <2>5. QED
    BY <2>1, <2>2, <2>3, <2>4 DEF BucketsOK, Bucket
<1>5. BurstInv'
  <2>1. \A g \in DOMAIN buckets' : Burst(buckets[g]', meter[g]', peak[g]')
    <3> TAKE g \in DOMAIN buckets'
    <3>1. g \in DOMAIN buckets
      BY <1>1
    <3>2. /\ buckets'[g] = Older(g)
          /\ meter'[g] = Less(meter[g], buckets[g].rate)
          /\ peak'[g] = IF meter[g] <= buckets[g].rate
                        THEN CapacityFor(buckets[g].rate) ELSE peak[g]
      BY <1>1, <1>2, <3>1
    <3>3. QED
      BY <1>2, <3>1, <3>2
  <2>2. \A g \in Bucket \ DOMAIN buckets' : meter'[g] = 0
    BY <1>1
  <2>3. QED
    BY <2>1, <2>2 DEF BurstInv, Bucket
<1>6. IsMap(asleep', DOMAIN limiter, [amount : Chunk, wait : Nat])
  <2>1. \A s \in DOMAIN asleep :
          [asleep[s] EXCEPT !.wait = Less(@, 1)] \in [amount : Chunk, wait : Nat]
    BY <1>3, Extremes DEF IsMap
  <2>2. QED
    BY <1>1, <1>3, <2>1 DEF IsMap
<1>7. TypeOK'
  BY <1>1, <1>4, <1>6 DEF RateInv, TypeOK, BucketsOK, ledgerVars
<1>8. QED
  BY <1>1, <1>5, <1>7 DEF RateInv, ledgerVars, PublishedBucketUpdated

\* Every step keeps the invariant.
LEMMA NextRate ==
  ASSUME RateInv, [Next]_vars
  PROVE  RateInv'
<1>1. CASE Tick
  BY <1>1, TickRate
<1>2. CASE Sync
  BY <1>2, RemoveStaleRate, UnlistRate, ListNewRate, ListAgainRate DEF Sync
<1>3. CASE Relay
  <2>1. PICK s \in Session :
          Accept(s) \/ Close(s) \/ Wake(s) \/ \E n \in Chunk : Acquire(s, n)
    BY <1>3 DEF Relay
  <2>2. CASE Wake(s)
    <3>1. s \in DOMAIN limiter /\ asleep[s].amount \in Chunk
      BY <2>2 DEF Wake, RateInv, TypeOK, IsMap
    <3>2. QED
      BY <2>2, <3>1, TurnRate DEF Wake
  <2>3. ASSUME NEW n \in Chunk, Acquire(s, n) PROVE RateInv'
    BY <2>3, TurnRate DEF Acquire
  <2>4. QED
    BY <2>1, <2>2, <2>3, AcceptRate, CloseRate
<1>4. CASE UNCHANGED vars
  <2>1. TypeOK' /\ PublishedBucketUpdated'
    BY <1>4 DEF RateInv, TypeOK, PublishedBucketUpdated, vars, ledgerVars, historyVars, Bucket
  <2>2. QED
    BY <1>4, <2>1, BurstUnchanged DEF RateInv, vars, historyVars
<1>5. QED
  BY <1>1, <1>2, <1>3, <1>4 DEF Next

----------------------------------------------------------------------------
\* The invariant holds in every reachable state.
THEOREM RateInvariant == Spec => []RateInv
<1>1. Init => RateInv
  BY InitRate
<1>2. RateInv /\ [Next]_vars => RateInv'
  BY NextRate
<1>3. QED
  BY <1>1, <1>2, PTL DEF Spec

\* Every bucket named by the ledger, the tables or a session exists, and
\* every state is of its type (SpeedLedger, RateLimiter).
THEOREM RateTypeCorrect == Spec => []TypeOK
<1>1. RateInv => TypeOK
  BY DEF RateInv
<1>2. QED
  BY <1>1, RateInvariant, PTL

\* No window of time lets more than the rate and one burst through a bucket,
\* however sessions share it and the panel changes it (refill, set_rate,
\* acquire).
THEOREM RateKeptHolds == Spec => []RateKept
<1>1. RateInv => RateKept
  <2>1. ASSUME RateInv, NEW g \in DOMAIN buckets
        PROVE  meter[g] <= peak[g]
    <3>1. /\ buckets[g] \in BucketState /\ meter[g] \in Nat /\ peak[g] \in Nat
          /\ meter[g] + Refill(buckets[g]).tokens <= peak[g]
      BY <2>1, OneBucket DEF RateInv, Burst
    <3>2. Refill(buckets[g]).tokens \in Nat
      BY <3>1, RefillFacts DEF BucketState
    <3>3. QED
      BY <3>1, <3>2
  <2>2. QED
    BY <2>1 DEF RateKept
<1>2. QED
  BY <1>1, RateInvariant, PTL

\* The bucket of the published tables is the one the ledger updates
\* (ensure_user, send_replace, remove_stale_users).
THEOREM PublishedBucketUpdatedHolds == Spec => []PublishedBucketUpdated
<1>1. RateInv => PublishedBucketUpdated
  BY DEF RateInv
<1>2. QED
  BY <1>1, RateInvariant, PTL
=============================================================================
