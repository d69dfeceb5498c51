---------------------------- MODULE RateLimiter ----------------------------
(***************************************************************************)
(* RateLimiter and SpeedLedger of traffic.rs for one user: the token       *)
(* bucket its TCP sessions share, the polls that change its rate, and the  *)
(* sessions that sleep in acquire().  Users do not meet in this code.      *)
(*                                                                         *)
(* Time is counted in ticks and rates in bytes per tick.  A bucket keeps   *)
(* the time since its last refill (its Instant `last`); sleep() may return *)
(* late, never early.  A session holds the bucket of its snapshot, so, as  *)
(* with counters, it matters which bucket object it is: the n-th one made  *)
(* for the user is n, and 0 is none.                                       *)
(***************************************************************************)
EXTENDS Naturals, Maps

CONSTANTS
  Session,    \* TCP sessions of the user
  Rate,       \* values of speed_limit_bps the panel may set; 0 is unlimited
  Chunk,      \* numbers of bytes a relay step acquires
  MinBurst,   \* MIN_BURST
  MaxAge,     \* time after which every bucket is full    (bound)
  MaxGen,     \* buckets made for the user                (bound)
  MaxChanges  \* polls that change or drop the rate       (bound)

ASSUME RateAssumption ==
  /\ Rate \subseteq Nat /\ Chunk \subseteq Nat \ {0}
  /\ MinBurst \in Nat \ {0}
  /\ MaxAge \in Nat /\ MaxGen \in Nat /\ MaxChanges \in Nat
  /\ \A r \in Rate \ {0} : MaxAge * r >= MinBurst /\ MaxAge >= 1

VARIABLES
  ledger,    \* SpeedLedger: the user's bucket
  table,     \* speeds_by_user of the published tables
  created,   \* buckets made so far
  syncing,   \* sync_users is between publishing and dropping stale users
  buckets,   \* bucket -> rate, capacity, tokens, time since the last refill
  limiter,   \* session -> the bucket of its snapshot
  asleep,    \* session -> the amount it acquires and how long it still sleeps
  changes,
  \* history
  meter,     \* bucket -> what it granted beyond its rate in the worst window
  peak,      \* bucket -> the largest capacity in that window
  granted    \* has a session been let through since the last tick?

ledgerVars == <<ledger, table, created, syncing, changes>>
historyVars == <<meter, peak, granted>>
vars == <<ledgerVars, buckets, limiter, asleep, historyVars>>

----------------------------------------------------------------------------
Smaller(a, b) == IF a <= b THEN a ELSE b
Larger(a, b) == IF a >= b THEN a ELSE b
Less(a, b) == IF a > b THEN a - b ELSE 0
CeilDiv(a, b) == (a + b - 1) \div b

Bucket == 1 .. MaxGen

CapacityFor(rate) == Larger(rate, MinBurst)

NewBucket(rate) ==
  [rate |-> rate, capacity |-> CapacityFor(rate),
   tokens |-> CapacityFor(rate), age |-> 0]

\* refill: credit the time since `last` at the present rate.
Refill(b) ==
  IF b.rate = 0 THEN [b EXCEPT !.age = 0]
  ELSE [b EXCEPT !.age = 0,
                 !.tokens = Smaller(b.tokens + b.age * b.rate, b.capacity)]

\* Faulty variant: the time before the change is credited at the new rate.
SetRateUnsettled(b, rate) ==
  IF rate = b.rate THEN b
  ELSE [b EXCEPT !.rate = rate, !.capacity = CapacityFor(rate),
                 !.tokens = Smaller(b.tokens, CapacityFor(rate))]

\* set_rate
SetRate(b, rate) ==
  IF rate = b.rate THEN b
  ELSE [rate |-> rate, capacity |-> CapacityFor(rate),
        tokens |-> Smaller(Refill(b).tokens, CapacityFor(rate)), age |-> 0]

Init ==
  /\ ledger = 0 /\ table = 0 /\ created = 0 /\ syncing = FALSE /\ changes = 0
  /\ buckets = << >> /\ limiter = << >> /\ asleep = << >>
  /\ meter = [g \in Bucket |-> 0] /\ peak = [g \in Bucket |-> 0]
  /\ granted = FALSE

----------------------------------------------------------------------------
(* sync_users, as far as it concerns the bucket. *)

\* The user is listed with this rate: ensure_user, then publish.
ListNew(rate) ==
  /\ ~syncing /\ ledger = 0 /\ created < MaxGen
  /\ created' = created + 1
  /\ ledger' = created + 1
  /\ buckets' = Put(buckets, created + 1, NewBucket(rate))
  /\ peak' = [peak EXCEPT ![created + 1] = CapacityFor(rate)]
  /\ table' = created + 1 /\ syncing' = TRUE
  /\ UNCHANGED <<limiter, asleep, changes, meter, granted>>

\* The worst window so far goes on, with the larger of the two capacities;
\* windows with unlimited stretches are not measured.
Remeter(g, rate) ==
  IF rate = 0
  THEN meter' = [meter EXCEPT ![g] = 0] /\ peak' = [peak EXCEPT ![g] = CapacityFor(0)]
  ELSE /\ peak' = [peak EXCEPT ![g] = IF meter[g] = 0 THEN CapacityFor(rate)
                                      ELSE Larger(@, CapacityFor(rate))]
       /\ UNCHANGED meter

ListAgain(rate) ==
  /\ ~syncing /\ ledger # 0
  /\ buckets' = [buckets EXCEPT ![ledger] = SetRate(@, rate)]
  /\ \/ rate = buckets[ledger].rate /\ UNCHANGED <<changes, meter, peak>>
     \/ /\ rate # buckets[ledger].rate /\ changes < MaxChanges
        /\ changes' = changes + 1
        /\ Remeter(ledger, rate)
  /\ table' = ledger /\ syncing' = TRUE
  /\ UNCHANGED <<ledger, created, limiter, asleep, granted>>

\* Faulty variant: the ledger drops its buckets on every poll.
RetainNone == 0

\* retain(live users): the bucket stays if the poll listed the user.
RetainLive == table

\* The user is not listed.
Unlist ==
  /\ ~syncing /\ ledger # 0 /\ changes < MaxChanges
  /\ changes' = changes + 1
  /\ table' = 0 /\ syncing' = TRUE
  /\ UNCHANGED <<ledger, created, buckets, limiter, asleep, historyVars>>

\* remove_stale_users, after the listeners have been seen to.
RemoveStale ==
  /\ syncing /\ syncing' = FALSE
  /\ ledger' = RetainLive
  /\ UNCHANGED <<table, created, buckets, limiter, asleep, changes, historyVars>>

----------------------------------------------------------------------------
(* Sessions. *)

\* A session of the user starts with the bucket its snapshot names.
Accept(s) ==
  /\ s \notin DOMAIN limiter /\ table # 0
  /\ limiter' = Put(limiter, s, table)
  /\ UNCHANGED <<ledgerVars, buckets, asleep, historyVars>>

\* It ends; while it is in acquire() nothing else of it is polled.
Close(s) ==
  /\ s \in DOMAIN limiter \ DOMAIN asleep
  /\ limiter' = Without(limiter, s)
  /\ UNCHANGED <<ledgerVars, buckets, asleep, historyVars>>

\* Faulty variant: a chunk waits for more than the bucket can hold.
NeedAll(b, n) == n

\* What acquire(n) takes out of the bucket.
Need(b, n) == Smaller(n, b.capacity)

\* Faulty variant: any token will do.
EnoughForSome(b, n) == b.tokens > 0

Enough(b, n) == b.tokens >= Need(b, n)

\* One turn of the loop of acquire(n), under the lock of the bucket.
Unlimited(s) ==
  /\ buckets[limiter[s]].rate = 0
  /\ asleep' = Without(asleep, s)
  /\ granted' = TRUE
  /\ UNCHANGED <<buckets, meter, peak>>

Grant(s, n) ==
  LET g == limiter[s]
      b == Refill(buckets[g]) IN
  /\ b.rate # 0 /\ Enough(b, n)
  /\ buckets' = [buckets EXCEPT ![g] = [b EXCEPT !.tokens = @ - Need(b, n)]]
  /\ asleep' = Without(asleep, s)
  /\ meter' = [meter EXCEPT ![g] = @ + Need(b, n)]
  /\ granted' = TRUE
  /\ UNCHANGED peak

Sleep(s, n) ==
  LET g == limiter[s]
      b == Refill(buckets[g]) IN
  /\ b.rate # 0 /\ ~Enough(b, n)
  /\ buckets' = [buckets EXCEPT ![g] = b]
  /\ asleep' = Put(asleep, s, [amount |-> n,
                               wait |-> CeilDiv(Need(b, n) - b.tokens, b.rate)])
  /\ UNCHANGED historyVars

Turn(s, n) == Unlimited(s) \/ Grant(s, n) \/ Sleep(s, n)

\* A relay step with n bytes calls acquire.
Acquire(s, n) ==
  /\ s \in DOMAIN limiter \ DOMAIN asleep
  /\ Turn(s, n)
  /\ UNCHANGED <<ledgerVars, limiter>>

\* The sleep is over: around the loop again.
Wake(s) ==
  /\ s \in DOMAIN asleep /\ asleep[s].wait = 0
  /\ Turn(s, asleep[s].amount)
  /\ UNCHANGED <<ledgerVars, limiter>>

----------------------------------------------------------------------------
Tick ==
  /\ buckets' = [g \in DOMAIN buckets |->
                   [buckets[g] EXCEPT !.age = Smaller(@ + 1, MaxAge)]]
  /\ asleep' = [s \in DOMAIN asleep |-> [asleep[s] EXCEPT !.wait = Less(@, 1)]]
  /\ meter' = [g \in Bucket |-> IF g \in DOMAIN buckets
                                THEN Less(meter[g], buckets[g].rate) ELSE 0]
  /\ peak' = [g \in Bucket |-> IF g \in DOMAIN buckets /\ meter[g] <= buckets[g].rate
                               THEN CapacityFor(buckets[g].rate) ELSE peak[g]]
  /\ granted' = FALSE
  /\ UNCHANGED <<ledgerVars, limiter>>

Sync == RemoveStale \/ Unlist \/ \E r \in Rate : ListNew(r) \/ ListAgain(r)

Relay ==
  \E s \in Session :
    Accept(s) \/ Close(s) \/ Wake(s) \/ \E n \in Chunk : Acquire(s, n)

Next == Tick \/ Sync \/ Relay

Spec == Init /\ [][Next]_vars

(***************************************************************************)
(* Time passes, and a sleeping task whose timer has fired is polled.  The  *)
(* panel settles on a rate: MaxChanges bounds how often it changes.        *)
(***************************************************************************)
Fairness ==
  /\ WF_vars(Tick)
  /\ \A s \in Session : WF_vars(Wake(s))

FairSpec == Spec /\ Fairness

----------------------------------------------------------------------------
BucketState == [rate : Nat, capacity : Nat, tokens : Nat, age : 0 .. MaxAge]

\* Types: every bucket named anywhere has been made (Bucket, SpeedLedger).
TypeOK ==
  /\ created \in 0 .. MaxGen
  /\ ledger \in 0 .. created /\ table \in 0 .. created
  /\ syncing \in BOOLEAN /\ changes \in 0 .. MaxChanges /\ granted \in BOOLEAN
  /\ DOMAIN buckets = 1 .. created /\ IsMap(buckets, Bucket, BucketState)
  /\ IsMap(limiter, Session, 1 .. created)
  /\ IsMap(asleep, DOMAIN limiter, [amount : Chunk, wait : Nat])
  /\ meter \in [Bucket -> Nat] /\ peak \in [Bucket -> Nat]

\* The cap holds in every window of time, whatever the sessions do and
\* however the panel changes the rate: a bucket lets through at most its rate
\* integrated over the window plus one burst, the largest capacity of a rate
\* in force in that window (refill, set_rate, acquire).  A chunk above the
\* capacity counts as much as the bucket can hold.
RateKept == \A g \in DOMAIN buckets : meter[g] <= peak[g]

\* What a bucket has let through and what it would now hold make up at most
\* one burst.
Burst(b, m, burst) ==
  /\ b.capacity = CapacityFor(b.rate)
  /\ b.tokens <= b.capacity
  /\ b.capacity <= burst
  /\ b.rate = 0 => m = 0
  /\ m + Refill(b).tokens <= burst

\* Why RateKept holds: no bucket is ever past its burst, counting what a
\* refill would credit (refill, set_rate, acquire).
BurstInv ==
  /\ \A g \in DOMAIN buckets : Burst(buckets[g], meter[g], peak[g])
  /\ \A g \in Bucket \ DOMAIN buckets : meter[g] = 0

\* The bucket the published tables name is the one the next poll updates, so
\* the rate of a session accepted now follows the panel (ensure_user,
\* send_replace, remove_stale_users).
PublishedBucketUpdated == table # 0 => table = ledger

\* Whoever sleeps in acquire, some session is let through again and again:
\* no chunk waits for more than its bucket can hold, and no time is lost by
\* looking too early (the loop of acquire).
WaitersProgress == []<>(DOMAIN asleep = {} \/ granted)
=============================================================================
