------------------------------ MODULE Traffic ------------------------------
(***************************************************************************)
(* Traffic accounting: the TrafficLedger of traffic.rs, the relay tasks    *)
(* that count bytes into it, and the two handlers of the supervisor's run  *)
(* loop that read and change it: sync_users (which users have a counter)   *)
(* and report_traffic (what the panel is billed).                          *)
(*                                                                         *)
(* A relay task never looks a user up in the ledger.  It takes a snapshot  *)
(* of the published tables when it accepts, picks its Arc<UserCounters>    *)
(* out of that snapshot once the client has authenticated, and counts into *)
(* that object until it ends, whatever the ledger does meanwhile.  So the  *)
(* identity of counter objects matters: the n-th UserCounters created for  *)
(* user u is the pair <<u, n>>.                                            *)
(*                                                                         *)
(* The run loop is one task: its handlers interleave with relay tasks and  *)
(* with the network, never with each other.                                *)
(***************************************************************************)
EXTENDS Naturals, FiniteSets, Functions, Maps

CONSTANTS
  User,       \* user ids the panel may list
  Session,    \* relay tasks: TCP sessions and UDP response pumps
  MaxUsers,   \* limits.max_users
  MaxChunk,   \* most bytes one read may deliver        (bound)
  MaxBytes,   \* bytes relayed per user and direction   (bound)
  MaxGen,     \* counter objects created per user       (bound)
  MaxFail     \* traffic reports that fail              (bound)

ASSUME BoundsAssumption ==
  /\ MaxUsers \in Nat
  /\ MaxChunk \in Nat
  /\ MaxBytes \in Nat
  /\ MaxGen \in Nat
  /\ MaxFail \in Nat

VARIABLES
  \* TrafficLedger and the counter objects it has ever created
  counters,     \* TrafficState.counters: user -> number of its counter object
  checkpoints,  \* TrafficState.checkpoints: user -> CounterSnapshot
  created,      \* how many counter objects each user has had
  bytes,        \* the AtomicU64 pair of every counter object
  \* what the listeners see
  tables,       \* published UserTables.counters_by_user
  handshaking,  \* session -> the snapshot of tables it took at accept
  relaying,     \* session -> the counter object it counts into
  \* the run loop
  pc,           \* which handler is running, and how far it got
  live,         \* live_user_ids of the running sync
  loaded,       \* counter values read so far by pending_deltas
  deltas,       \* the report being posted: user -> TrafficDelta
  posted,       \* how far the POST got: "sent" or "applied" by the panel
  fails,        \* failed reports so far
  \* the panel
  late,         \* requests the client gave up on that the panel may still apply
  billed,       \* what the panel has added to each user's traffic
  \* history
  relayed,      \* bytes relayed on behalf of each user
  repeated,     \* bytes billed by reports whose acknowledgement was lost
  forfeited     \* bytes in counter objects the ledger no longer has

ledgerVars  == <<counters, checkpoints, created>>
relayVars   == <<handshaking, relaying>>
reportVars  == <<loaded, deltas, posted, fails, late>>
historyVars == <<relayed, repeated, forfeited>>
vars == <<ledgerVars, bytes, tables, relayVars, pc, live, reportVars, billed,
          historyVars>>

----------------------------------------------------------------------------
Dir == {"up", "down"}
Tally == [Dir -> Nat]
Zero == [d \in Dir |-> 0]
Gen == 1 .. MaxGen
CounterObject == [user : User, gen : Gen]
TrafficDelta == [delta : Tally, checkpoint : Tally]

UserTables == UNION {[S -> Gen] : S \in SUBSET User}

Minus(a, b) == IF a > b THEN a - b ELSE 0    \* u64::saturating_sub

Checkpoint(u) == IF u \in DOMAIN checkpoints THEN checkpoints[u] ELSE Zero

Init ==
  /\ counters = << >> /\ checkpoints = << >>
  /\ created = [u \in User |-> 0]
  /\ bytes = [u \in User |-> [g \in Gen |-> Zero]]
  /\ tables = << >> /\ handshaking = << >> /\ relaying = << >>
  /\ pc = "idle" /\ live = {}
  /\ loaded = << >> /\ deltas = << >> /\ posted = "none"
  /\ fails = 0 /\ late = {}
  /\ billed = [u \in User |-> Zero]
  /\ relayed = [u \in User |-> Zero]
  /\ repeated = [u \in User |-> Zero]
  /\ forfeited = [u \in User |-> Zero]

----------------------------------------------------------------------------
(* Relay tasks. *)

\* tables_rx.borrow().clone() when a connection is accepted.
Accept(s) ==
  /\ s \notin DOMAIN handshaking \cup DOMAIN relaying
  /\ handshaking' = Put(handshaking, s, tables)
  /\ UNCHANGED <<ledgerVars, bytes, tables, relaying, pc, live, reportVars,
                 billed, historyVars>>

\* Does counter object c belong to the ledger?
InLedger(c) == c.user \in DOMAIN counters /\ counters[c.user] = c.gen

\* record_upload / record_download: n more bytes in counter object c.
Record(c, d, n) ==
  /\ relayed[c.user][d] + n <= MaxBytes
  /\ bytes' = [bytes EXCEPT ![c.user][c.gen][d] = @ + n]
  /\ relayed' = [relayed EXCEPT ![c.user][d] = @ + n]
  /\ forfeited' = IF InLedger(c) THEN forfeited
                  ELSE [forfeited EXCEPT ![c.user][d] = @ + n]

\* The client authenticated as u: take u's counter out of the snapshot and
\* count the n bytes of the handshake.
Authenticate(s, u, n) ==
  /\ s \in DOMAIN handshaking
  /\ u \in DOMAIN handshaking[s]
  /\ LET c == [user |-> u, gen |-> handshaking[s][u]] IN
     /\ Record(c, "up", n)
     /\ relaying' = Put(relaying, s, c)
  /\ handshaking' = Without(handshaking, s)
  /\ UNCHANGED <<ledgerVars, tables, pc, live, reportVars, billed, repeated>>

\* n bytes move in direction d.
Transfer(s, d, n) ==
  /\ s \in DOMAIN relaying
  /\ Record(relaying[s], d, n)
  /\ UNCHANGED <<ledgerVars, tables, relayVars, pc, live, reportVars, billed,
                 repeated>>

\* The task ends: handshake failure, client gone, error or time-out.
Close(s) ==
  /\ s \in DOMAIN handshaking \cup DOMAIN relaying
  /\ handshaking' = Without(handshaking, s)
  /\ relaying' = Without(relaying, s)
  /\ UNCHANGED <<ledgerVars, bytes, tables, pc, live, reportVars, billed,
                 historyVars>>

----------------------------------------------------------------------------
(* sync_users.  A failed fetch or more than max_users rows returns early   *)
(* and changes nothing.  Between publishing the tables and dropping stale  *)
(* users the handler awaits listener tasks, so relays run in between.      *)

\* ensure_user for every row: a known user keeps its object, a new one gets
\* a default object and, unless one is left over, a default checkpoint.
\* Faulty variants: objects numbered from 0; a fresh object on every poll.
EnsureCountersOffByOne(us) ==
  [u \in DOMAIN counters \cup us |->
     IF u \in DOMAIN counters THEN counters[u] ELSE created[u]]

EnsureCountersAnew(us) ==
  [u \in DOMAIN counters \cup us |->
     IF u \in us THEN created[u] + 1 ELSE counters[u]]

EnsureCounters(us) ==
  [u \in DOMAIN counters \cup us |->
     IF u \in DOMAIN counters THEN counters[u] ELSE created[u] + 1]

EnsureCheckpoints(us) ==
  [u \in DOMAIN checkpoints \cup (us \ DOMAIN counters) |-> Checkpoint(u)]

\* Faulty variant: the table gets objects of its own.
CountersByUserDetached(us) == [u \in us |-> created[u] + 1]

\* The counters_by_user table: what ensure_user returned for each row.
CountersByUser(us) == Restrict(EnsureCounters(us), us)

SyncPublish(us) ==
  /\ pc = "idle"
  /\ Cardinality(us) <= MaxUsers
  /\ \A u \in us \ DOMAIN counters : created[u] < MaxGen
  /\ counters' = EnsureCounters(us)
  /\ checkpoints' = EnsureCheckpoints(us)
  /\ created' = [u \in User |-> IF u \in us \ DOMAIN counters
                                THEN created[u] + 1 ELSE created[u]]
  /\ tables' = CountersByUser(us)
  /\ live' = us
  /\ pc' = "syncing"
  /\ UNCHANGED <<bytes, relayVars, reportVars, billed, historyVars>>

\* What a user's counter holds that no acknowledged report has covered.
Pending(u, d) ==
  IF u \in DOMAIN counters
  THEN Minus(bytes[u][counters[u]][d], Checkpoint(u)[d]) ELSE 0

\* remove_stale_users retains the live users of each map.
RetainCounters(us) == Restrict(counters, DOMAIN counters \cap us)
RetainCheckpoints(us) == Restrict(checkpoints, DOMAIN checkpoints \cap us)

SyncRemoveStale ==
  /\ pc = "syncing"
  /\ counters' = RetainCounters(live)
  /\ checkpoints' = RetainCheckpoints(live)
  /\ forfeited' = [u \in User |-> [d \in Dir |->
                     forfeited[u][d] + IF u \in live THEN 0 ELSE Pending(u, d)]]
  /\ pc' = "idle"
  /\ UNCHANGED <<created, bytes, tables, relayVars, live, reportVars, billed,
                 relayed, repeated>>

----------------------------------------------------------------------------
(* report_traffic. *)

ReportBegin ==
  /\ pc = "idle"
  /\ pc' = "loading"
  /\ loaded' = << >>
  /\ UNCHANGED <<ledgerVars, bytes, tables, relayVars, live, deltas, posted,
                 fails, late, billed, historyVars>>

\* One relaxed load of UserCounters::snapshot: upload, then download.
LoadCounter(u, d) ==
  /\ pc = "loading"
  /\ u \in DOMAIN counters
  /\ <<u, d>> \notin DOMAIN loaded
  /\ d = "down" => <<u, "up">> \in DOMAIN loaded
  /\ loaded' = Put(loaded, <<u, d>>, bytes[u][counters[u]][d])
  /\ UNCHANGED <<ledgerVars, bytes, tables, relayVars, pc, live, deltas,
                 posted, fails, late, billed, historyVars>>

\* pending_deltas' entry for u, from the values it loaded.
DeltaOf(u) ==
  [delta |-> [d \in Dir |-> Minus(loaded[<<u, d>>], Checkpoint(u)[d])],
   checkpoint |-> [d \in Dir |-> loaded[<<u, d>>]]]

\* Faulty variant: a user who only downloaded is skipped.
PendingDeltasOfUploaders ==
  [u \in {v \in DOMAIN counters : DeltaOf(v).delta["up"] > 0} |-> DeltaOf(u)]

PendingDeltas ==
  [u \in {v \in DOMAIN counters : \E d \in Dir : DeltaOf(v).delta[d] > 0}
     |-> DeltaOf(u)]

\* The list is complete: nothing to report, or the POST goes out.
Post ==
  /\ pc = "loading"
  /\ \A u \in DOMAIN counters, d \in Dir : <<u, d>> \in DOMAIN loaded
  /\ deltas' = PendingDeltas
  /\ loaded' = << >>
  /\ \/ DOMAIN PendingDeltas = {} /\ pc' = "idle" /\ posted' = "none"
     \/ DOMAIN PendingDeltas # {} /\ pc' = "posting" /\ posted' = "sent"
  /\ UNCHANGED <<ledgerVars, bytes, tables, relayVars, live, fails, late,
                 billed, historyVars>>

\* The amounts a report asks the panel to add.
Amount(report, u, d) == IF u \in DOMAIN report THEN report[u].delta[d] ELSE 0

AddReport(total, report) ==
  [u \in User |-> [d \in Dir |-> total[u][d] + Amount(report, u, d)]]

\* The panel handles the request.
PanelApply ==
  /\ pc = "posting" /\ posted = "sent"
  /\ billed' = AddReport(billed, deltas)
  /\ posted' = "applied"
  /\ UNCHANGED <<ledgerVars, bytes, tables, relayVars, pc, live, loaded,
                 deltas, fails, late, historyVars>>

\* Faulty variant: the checkpoint moves to what the counter holds by now.
MarkReportedLatest ==
  [u \in DOMAIN checkpoints |->
     IF u \in DOMAIN counters THEN bytes[u][counters[u]] ELSE checkpoints[u]]

\* mark_reported: the checkpoint moves to the values the report was made from.
MarkReported ==
  [u \in DOMAIN checkpoints \cup (DOMAIN deltas \cap DOMAIN counters) |->
     IF u \in DOMAIN deltas \cap DOMAIN counters
     THEN deltas[u].checkpoint ELSE checkpoints[u]]

ReportAck ==
  /\ pc = "posting" /\ posted = "applied"
  /\ checkpoints' = MarkReported
  /\ deltas' = << >> /\ posted' = "none" /\ pc' = "idle"
  /\ UNCHANGED <<counters, created, bytes, tables, relayVars, live, loaded,
                 fails, late, billed, historyVars>>

\* Faulty variant: a failed report is marked like a successful one.
CheckpointsAdvanceOnFail == MarkReported

\* What the early return of a failed report leaves in the checkpoints.
CheckpointsOnFail == checkpoints

\* The POST fails: refused, timed out, or its answer lost.  If the panel has
\* not handled the request yet it may still do so.
ReportFail ==
  /\ pc = "posting" /\ fails < MaxFail
  /\ checkpoints' = CheckpointsOnFail
  /\ fails' = fails + 1
  /\ \/ posted = "sent" /\ late' = late \cup {<<fails + 1, deltas>>}
                        /\ UNCHANGED repeated
     \/ posted = "applied" /\ repeated' = AddReport(repeated, deltas)
                           /\ UNCHANGED late
  /\ deltas' = << >> /\ posted' = "none" /\ pc' = "idle"
  /\ UNCHANGED <<counters, created, bytes, tables, relayVars, live, loaded,
                 billed, relayed, forfeited>>

\* A request the client gave up on reaches the panel after all.
PanelApplyLate(r) ==
  /\ r \in late
  /\ late' = late \ {r}
  /\ billed' = AddReport(billed, r[2])
  /\ repeated' = AddReport(repeated, r[2])
  /\ UNCHANGED <<ledgerVars, bytes, tables, relayVars, pc, live, loaded,
                 deltas, posted, fails, relayed, forfeited>>

----------------------------------------------------------------------------
Relay ==
  \E s \in Session :
    \/ Accept(s)
    \/ \E u \in User, n \in 1 .. MaxChunk : Authenticate(s, u, n)
    \/ \E d \in Dir, n \in 1 .. MaxChunk : Transfer(s, d, n)
    \/ Close(s)

Sync == SyncRemoveStale \/ \E us \in SUBSET User : SyncPublish(us)

Report ==
  \/ ReportBegin
  \/ \E u \in User, d \in Dir : LoadCounter(u, d)
  \/ Post
  \/ ReportAck
  \/ ReportFail

Panel == PanelApply \/ \E r \in late : PanelApplyLate(r)

Next == Relay \/ Sync \/ Report \/ Panel

Spec == Init /\ [][Next]_vars

(***************************************************************************)
(* The run loop is a task tokio keeps polling, so a handler that can go on *)
(* does; the random choice of select! among ready branches gives a due     *)
(* traffic tick strong fairness against the other branches.  The panel     *)
(* answers: MaxFail bounds how often it does not.                          *)
(***************************************************************************)
Fairness ==
  /\ WF_vars(SyncRemoveStale)
  /\ SF_vars(ReportBegin)
  /\ WF_vars(\E u \in User, d \in Dir : LoadCounter(u, d))
  /\ WF_vars(Post)
  /\ WF_vars(PanelApply)
  /\ WF_vars(ReportAck)

FairSpec == Spec /\ Fairness

----------------------------------------------------------------------------
\* Types: every table names known users and counter objects that exist, and
\* every tally is a number (TrafficState, UserTables).
TypeOK ==
  /\ IsMap(counters, User, Gen)
  /\ IsMap(checkpoints, User, Tally)
  /\ created \in [User -> 0 .. MaxGen]
  /\ bytes \in [User -> [Gen -> Tally]]
  /\ tables \in UserTables
  /\ IsMap(handshaking, Session, UserTables)
  /\ IsMap(relaying, Session, CounterObject)
  /\ pc \in {"idle", "syncing", "loading", "posting"}
  /\ live \in SUBSET User
  /\ IsMap(loaded, User \X Dir, Nat)
  /\ IsMap(deltas, User, TrafficDelta)
  /\ posted \in {"none", "sent", "applied"}
  /\ fails \in 0 .. MaxFail
  /\ \A r \in late : r[1] \in 1 .. MaxFail /\ IsMap(r[2], User, TrafficDelta)
  /\ billed \in [User -> Tally]
  /\ relayed \in [User -> Tally]
  /\ repeated \in [User -> Tally]
  /\ forfeited \in [User -> Tally]

\* No byte is billed that was not relayed and none is dropped, whatever the
\* order of relaying, syncing, reporting and answering: what the panel has
\* billed, what the ledger still has to report and what left the ledger with
\* a dropped counter add up to what was relayed, plus repeats of reports whose
\* acknowledgement got lost and a report applied but not yet acknowledged
\* (pending_deltas, mark_reported, remove_stale_users).
AppliedNow(u, d) == IF posted = "applied" THEN Amount(deltas, u, d) ELSE 0

Conservation ==
  \A u \in User, d \in Dir :
    billed[u][d] + Pending(u, d) + forfeited[u][d]
      = relayed[u][d] + repeated[u][d] + AppliedNow(u, d)

\* A checkpoint never runs ahead of the counter it belongs to, also when a
\* user was dropped and listed again: the saturating_sub of pending_deltas
\* never hides traffic.
CheckpointBehindCounter ==
  \A u \in DOMAIN counters, d \in Dir :
    Checkpoint(u)[d] <= bytes[u][counters[u]][d]

\* The published table only holds counters the ledger reports, so a session
\* accepted now is billed (ensure_user, send_replace and remove_stale_users
\* in sync_users agree on the objects).
PublishedCountersReported ==
  \A u \in DOMAIN tables : u \in DOMAIN counters /\ tables[u] = counters[u]

\* A user that stays listed keeps its counter object and never loses ground:
\* only an acknowledged report moves its checkpoint, and only forward.
CheckpointMonotone ==
  [][\A u \in DOMAIN counters \cap DOMAIN counters' :
       /\ counters'[u] = counters[u]
       /\ \A d \in Dir : Checkpoint(u)[d] <= Checkpoint(u)'[d]
       /\ Checkpoint(u)' # Checkpoint(u) => posted = "applied"]_vars

(***************************************************************************)
(* The inductive invariant behind them.  A ledger entry always names the   *)
(* newest object of its user; objects not created yet hold zero; what a    *)
(* report loaded or is posting lies between the checkpoint and the counter.*)
(***************************************************************************)
ObjectsExist ==
  /\ \A u \in DOMAIN counters : counters[u] = created[u]
  /\ \A u \in DOMAIN tables : tables[u] <= created[u]
  /\ \A s \in DOMAIN handshaking : \A u \in DOMAIN handshaking[s] :
       handshaking[s][u] <= created[u]
  /\ \A s \in DOMAIN relaying : relaying[s].gen <= created[relaying[s].user]
  /\ \A u \in User, g \in Gen : g > created[u] => bytes[u][g] = Zero

LoadedBetween ==
  pc = "loading" =>
    \A u \in User, d \in Dir : <<u, d>> \in DOMAIN loaded =>
      /\ u \in DOMAIN counters
      /\ checkpoints[u][d] <= loaded[<<u, d>>]
      /\ loaded[<<u, d>>] <= bytes[u][counters[u]][d]

PostingBetween ==
  IF pc = "posting"
  THEN \A u \in DOMAIN deltas, d \in Dir :
         /\ u \in DOMAIN counters
         /\ checkpoints[u][d] + deltas[u].delta[d] = deltas[u].checkpoint[d]
         /\ deltas[u].checkpoint[d] <= bytes[u][counters[u]][d]
  ELSE posted = "none"

LedgerInv ==
  /\ TypeOK
  /\ DOMAIN checkpoints = DOMAIN counters
  /\ pc = "syncing" => DOMAIN tables = live
  /\ PublishedCountersReported
  /\ ObjectsExist
  /\ CheckpointBehindCounter
  /\ LoadedBetween
  /\ PostingBetween
  /\ Conservation

\* Once a byte is counted for a listed user, an acknowledged report covers it
\* or the user's counter is dropped by a later sync.
EveryByteSettles ==
  \A u \in User, g \in Gen, d \in Dir, n \in 1 .. MaxBytes :
    (InLedger([user |-> u, gen |-> g]) /\ bytes[u][g][d] >= n)
      ~> (~InLedger([user |-> u, gen |-> g]) \/ Checkpoint(u)[d] >= n)

\* "user_id -> traffic counter (u/d byte accumulators reported to the panel)":
\* while a user is listed, every session relaying for it counts into the
\* object the ledger reports.
LiveSessionsReported ==
  \A s \in DOMAIN relaying :
    relaying[s].user \in DOMAIN counters => InLedger(relaying[s])
=============================================================================
