# Verification of sspanel-ssr-rust-backend

TLA+ models of the node backend under `src/src/`: a single tokio process that
polls an SSPanel for users, runs one TCP and one UDP listener per port, relays
traffic for authenticated users, enforces per-user limits and reports traffic,
online addresses and audit hits back to the panel. TLC checks the models on
small instances; TLAPS proves for every instance the accounting, the rate cap, the
device limit, and the safety of the listeners, the UDP associations, the audit maps
and the supervisor's loop. An abstract specification, `Billing`, says what the
accounting promises: `Traffic` is proved to implement it.

## 1. The system

| Part | Source | State | Operations | Correct when |
|---|---|---|---|---|
| Traffic ledger | `traffic.rs` | per-user atomic counters, checkpoints | `ensure_user`, `remove_stale_users`, `record_*`, `pending_deltas`, `mark_reported` | every relayed byte is billed once, or accounted for as forfeited or repeated |
| Device limit | `traffic.rs` | per-user IP set with reference counts | `ConnGuard::acquire`, `drop` | no leaked slot, no set above its limit |
| Rate limiter | `traffic.rs` | token bucket per user | `set_rate`, `acquire` | aggregate rate kept, waiters progress |
| TCP relay | `tcp.rs` | permits, sessions | accept, handshake, admission, connect, relay | permits return, forbidden targets never reached |
| UDP relay | `udp.rs` | associations, response pumps | receive, resolve, touch, open, send, pump, stop | no leaked pump, busy peers keep their socket, answers reach their client |
| Supervisor | `runtime/supervisor.rs` | `active_users`, intervals | select loop, `sync_users`, `ensure_active_user`, `stop_all`, signals | listeners follow the panel's rows, no needless restart, shutdown works |
| Audit | `audit.rs`, `supervisor.rs` | event channel, three bounded maps | `try_send`, `record_event`, prune, `report_auxiliary_state` | bounded memory, detect logs kept until acknowledged |
| BoundedTtlMap | `runtime/state.rs` | map with capacity and time to live | `insert`, `touch`, `expire`, `retain` | never above capacity, evicts the oldest |
| User tables | `user_tables.rs` | a `watch` channel with the latest snapshot | `send_replace`, `borrow` | sessions see one consistent snapshot |
| Policy | `policy.rs` | none | CIDR, port range and limit parsing | rules match what they say |
| Codec | `ssr/*` | reassembly buffers, user id | `decrypt`, `encrypt`, UDP packets | payload independent of fragmentation |
| Panel client | `panel.rs` | none | GET and POST with a time-out, `users` | an unusable answer changes nothing, a usable one everything |
| Config, start-up, installer | `config.rs`, `main.rs`, `install.sh` | none | `validate` | — |

The supervisor's run loop is **one task**: `select!` picks a ready branch, and
its handler runs to the end, awaiting the panel and stopping listeners, before
anything else of the loop runs. Listener and session tasks run concurrently on
a thread pool. They meet the loop in four places: the published `UserTables`
snapshot (taken at accept or per datagram), shared `Arc` objects in it (counters,
IP sets, buckets), the event channel, and the stop channels.

What is hard here: sessions that use a snapshot the panel has since replaced;
reports whose acknowledgement is lost; a user dropped by one poll and listed by
the next while its sessions run; sockets that outlive the task that owned them;
futures that exist only while the loop is inside its `select!`; names that
resolve differently twice. `PROJECT.json` lists every hazard at its line.

## 2. Modules

| Module | Models | Checked by |
|---|---|---|
| `Maps` | `HashMap` as a function on its keys | — |
| `Traffic` | ledger, counting tasks, `sync_users`, `report_traffic`, the panel's bill | `Traffic_ledger.cfg` |
| `Billing` | abstract: what is owed, charged, unheard of, in doubt | through `TrafficBilling` |
| `TrafficBilling` | the refinement from `Traffic` to `Billing` | `Traffic_ledger.cfg` |
| `TrafficProofs` | theorems about `Traffic`; `Traffic` implements `Billing` | TLAPS |
| `TcpRelay` | one listener, its sessions, the device limit, `connect_target_checked` | `Tcp_*.cfg` |
| `TcpRelayProofs` | theorems about `TcpRelay` | TLAPS |
| `BoundedTtlMap` | the map's operations as operators | through `Audit`, `UdpRelay` |
| `UdpRelay` | one UDP listener, associations, pumps | `Udp_*.cfg` |
| `UdpRelayProofs` | theorems about `UdpRelay` | TLAPS |
| `Audit` | event channel, maps, auxiliary reports | `Audit_*.cfg` |
| `AuditProofs` | theorems about `Audit` | TLAPS |
| `Supervisor` | run loop, listener life cycle, signals | `Supervisor_*.cfg` |
| `SupervisorProofs` | theorems about `Supervisor` | TLAPS |
| `RateLimiter` | a user's token buckets, the sessions that sleep in `acquire`, the polls that change the rate | `Rate_limiter.cfg` |
| `RateLimiterProofs` | theorems about `RateLimiter` | TLAPS |
| `AuthStream` | the codec of a TCP session, its handshake and relay loops, the UDP key choice | `Auth_stream.cfg` |
| `AuthStreamProofs` | theorems about `AuthStream` | TLAPS |
| `Policy` | CIDR blocks, port ranges and limits as operators | through `PanelRows` |
| `PanelRows` | answers of the panel, the tables and listeners a poll makes of them | `Panel_rows.cfg` |
| `PanelRowsProofs` | theorems about `PanelRows` and `Policy` | TLAPS |
| `MC*` | instances: constants and symmetry sets | |

**Traffic.** The identity of counter objects matters, because sessions hold an
`Arc`: the *n*-th object of a user is a record of user and number.
`SyncPublish` is `sync_users` up to `send_replace`; `SyncRemoveStale` its end;
relays run in between, as the handler awaits listeners there. A report is
`ReportBegin`, one `LoadCounter` per relaxed atomic load, `Post`, then
`PanelApply` / `ReportAck`, or `ReportFail`. A failed request may have been
applied (the answer was lost) or may still be applied (`PanelApplyLate`). Three
history variables (`relayed`, `repeated`, `forfeited`) exist for the properties.
A session is a TCP session, or a UDP datagram (accept, authenticate, close), or
a response pump.

**TcpRelay.** `Accept` takes a permit and the snapshot; `Admit`/`Refuse` is the
device check; `Resolve`, `ConnectFails`, `ConnectChecked`, `ConnectUnchecked`
are `connect_target_checked`, with an answer of the resolver that is arbitrary at
each call. Every way out is `End`: guard and permit are dropped together. What
policies exist is a constant; a poll may change a user's policy at any time.

**UdpRelay.** One datagram at a time: `Receive` (expire, snapshot, HMAC, forbidden
port), `Resolve` (lookup and `touch`), `Open` (bind, spawn, `insert`), `Send`.
Expiry, eviction and `Stop` abort the pumps of what they drop. `used` is history.
`Carrier` are the users whose rows have a mode and so no key in `auth_users`; the
owner of a plain port is answered with its own key or, unnamed, with the port's.

**Audit.** The channel is a sequence with `try_send`; the maps use
`BoundedTtlMap`, whose eviction among equally old keys is a choice. Time is a
clock with a bound. A poll is `PollSync` (or `PollSyncFails`) and `PollRefresh`.

**Supervisor.** `Branch` is a branch of `select!` that wins: the signal future,
with what it has received, is dropped. A stop is sent to one listener at a time
and awaited; a listener inside a lookup may be given up on after two seconds.
UDP sockets stay held while aborted pumps have not been dropped. The bound on
spawned tasks is applied where the panel's answer is chosen.

**Billing, TrafficBilling.** What a user owes is its pending amount, less a report
the panel has applied and the node has not heard of. Relaying is `Use`; the panel
applying a report is `Charge`, its answer `Acknowledge`, a lost answer `Reopen`, a
time-out `GiveUp`, a late arrival `ChargeLate`, `remove_stale_users` `Waive`. All
other steps of `Traffic`, in particular the loads of a report and the publication
of tables, stutter. `Billing` says nothing of counters or checkpoints.

**RateLimiter.** Users do not meet in this code, so there is one. As with counters,
the identity of the bucket matters: the *n*-th bucket made for the user is *n*.
`ListNew`/`ListAgain`/`Unlist` are `sync_users` up to the publication,
`RemoveStale` its end. `Unlimited`, `Grant` and `Sleep` are the three ways out of
one turn of `acquire`'s loop under the bucket's lock; `Wake` is the next turn. A
bucket keeps the time since its last refill in ticks, up to `MaxAge`, by which it
is full. `meter` is history: what has been let through beyond the rate in the
worst window that ends now; `peak` is the largest burst allowed in that window.

**AuthStream.** The stream is the IV and the client's packets, its bytes numbered;
a buffer is a stretch `[first, size]` of it, so every way of cutting the stream is
a sequence of `Read(n)`. `Read` is a whole turn: IV, decrypt, all packets the
buffer holds, then the handshake or relay loop. A field is readable where the
client put one and the keys match; otherwise the outcome of decrypting a length is
arbitrary. A client may sign with any key, the IV it sends included. Lengths of
headers are the code's; packet sizes are small. `FromRemote` is the way back. `UdpAccepts` is `udp_server_post_decrypt`'s choice of a key.

**Policy, PanelRows.** An item of a list is what it says, or `Junk`; addresses have
few bits, with IPv4 mapped into a block of the IPv6 space; numbers are cast modulo
`ConnMod` (2^32 in the code) and divided by `Mbit`. `Sync` is `PanelClient::users`
and `sync_users` in one step (`Supervisor` takes it apart): limits, tables from
nothing, merged carriers, fingerprints, stale listeners. `SyncFails` is every early
return. Each of the code's loops over the rows is a recursive function of the number
of rows handled, `1 << k` is `Pow2`. The properties compare the result with what the
rows say (`accepted`: the rows of the last usable answer, as sent), defined without
the code's operators: bit by bit for prefixes, by membership for ranges.

Operators named as faulty variants (`MarkReportedLatest`, `NotAborted`, ...) are
not part of the models: each shows that a property fails when the code has that
mistake (`mutants` in `PROJECT.json`).

## 3. Runs

| Run | Instance | Shows |
|---|---|---|
| `Traffic_ledger` | one user, one session, two counter objects, two bytes per direction, one failed report | the accounts balance (`Conservation`), checkpoints only move forward, published counters are reported ones, every counted byte is acknowledged or its counter dropped; `BillingKept`: every step is one of `Billing` or none |
| `Tcp_sessions` | three devices, three connections, two policies, two IP sets, three addresses, two ports | nothing leaks, sets within their limits, sets persist across polls, forbidden targets never reached |
| `Udp_relay` | four association keys over a capacity of two, two policies, two addresses and ports | every pump owned by its association, busy peers kept, forbidden targets never sent to |
| `Audit_events` | two users, a channel of two, maps of one entry, one failed report | bounds, per-cycle alive reports, detect logs kept until acknowledged; every event that is in the channel is recorded, and every log gone, in the end (`EventsSettle`, with a mutant for each half) |
| `Supervisor_loop` | two ports, four listings with clashing carriers and unsupported rows, six tasks, one failing socket | no forgotten listener, entries follow the rows, repeated rows restart nothing, the loop always returns to its `select!` |
| `Rate_limiter` | two sessions, rates 0, 1 and 3, chunks below and above a burst, two buckets, two rate changes | a bucket lets through at most its rate over any window plus one burst, across rate changes; the published bucket is the one polls update; sleepers make progress |
| `Auth_stream` | 100 clients: users and keys, the IV among them, in all pairings and port modes, headers in one or several packets, empty packets, one mistake in each field of each packet; every way of cutting the stream | payload independent of the cuts, nothing past a failed check, the right user, TCP and UDP agree on who is let in, the way back is decodable |
| `Panel_rows` | all listings of up to two of 13 rows, some of three, and every single address and port item; failed and empty answers; two polls and more in any order | tables are exactly those of the last usable answer, policies forbid exactly what the lists say, limits keep their value, listeners with the same endpoint are not disturbed |

Runs that refute what a comment or test says (details under `findings`):

| Run | Finding |
|---|---|
| `Tcp_unlimited` | connections made under limit 0 are not tracked, a later limit ignores them |
| `Supervisor_sigterm` | a SIGTERM during a handler is lost |
| `Supervisor_rebind` | a rebind that loses the race for the socket is never retried |
| `Udp_deadpump` | an association whose pump ended is reused: no answers |

Two more comments are refuted by properties that pass, because these state what the
code does instead:

* `protocol.rs:114` says that an unknown user on a single-port node "uses recv_iv as
  key and will fail checksum". The IV is the client's own: one that signs with it
  passes, and is served as the listener's `fallback_user_id` (`tcp.rs:214`).
  `FragmentationIrrelevant` counts this client among those that are not refused
  (`Sound`), and `RightUser` says whom it is served as. Both are proved.
* `policy.rs:134` ("fold it into a listener fingerprint and restart the listener only
  when a user's policy actually changes"), `policy.rs:176` (a change of the policy map
  "would flip the listener fingerprint") and line 23 of the repository's README (a
  listener is rebuilt when users or policies change, speeds aside) describe a
  fingerprint with the policy in it. The code's has the endpoint only, as
  `supervisor.rs:25` says: `UserChangesAreSilent` shows, and its theorem proves, that no
  change of users or policies rebuilds a listener. They reach new connections through
  the tables.

Known limits of the code that have no run of their own:

* A session that outlives disable and re-enable of its user counts into a counter
  nobody reports (`LiveSessionsReported` of `Traffic` fails with two objects).
* After a password change UDP answers are signed with the old key for as long as
  the peer keeps sending (`AnswerKeyCurrent` of `UdpRelay` fails).
* With two IP sets (`MaxGen = 2`) `NewDeviceWithinLimit` also fails without any
  limit of 0: a user dropped by one poll and listed by the next gets an empty IP set
  beside its connected devices. In the same way it gets a full new bucket beside the
  one its old sessions hold, and both together may exceed the cap; `RateKept` is
  stated per bucket.
* `NoNeedlessRestart` fails for a listing with two plain users on one port, who
  restart each other's listener on every poll; the listings of `Supervisor_loop`
  give every plain user a port of its own, and `UserChangesAreSilent` excludes them.
* `fallback_user_id` is captured when a listener is spawned and is not part of its
  fingerprint: when the first of two merged carrier rows goes away, the listener
  keeps the old id.
* On a port in mode 1 an unknown uid with the port's key is let in over TCP and
  refused over UDP; `TransportsAgree` speaks of modes 0 and 2.
* A `node_connector` that is a multiple of 2^32 becomes 0, unlimited
  (`PoliciesExact` speaks of values that fit); an answer with `ret = 1` and no data
  is an empty listing (`TablesFollowRows` states it that way).
* `WaitersProgress` is about some session: `acquire` has no queue, so one session
  may starve while others are let through, and a sleeper keeps the wait computed
  at the old rate until it wakes. UDP is not rate-limited at all.
* A decoding error drops what the same read had already decoded.
* The check against `MAX_HANDSHAKE_BYTES` cannot fail: a header that is
  still incomplete is shorter than 259 bytes.

**Bounds.** Two counter objects per user are what re-listing needs; two bytes per
direction tell a lost byte from a repeated one; one failed report, applied, late
or refused, makes all repeats. Three devices exceed a limit of two. Two
associations of different age, which a time to live of two ticks allows, and four keys
make eviction choose the older; the clock passes the time to live. The maps of
`Audit_events` hold one entry, so there eviction has no choice (two entries and four
detect keys are too many states for the liveness property); that the oldest entry goes
is `DetectKeptUntilReportedHolds`, for every capacity. Six listener tasks allow a restart after two ports have been spawned.
Rates below and above the minimal burst, and a chunk above both capacities, reach
every branch of `acquire`; two changes allow up and down, and to and from unlimited.
Packets of a few bytes suffice for the codec because its decisions only compare
lengths; the number of packets passes `IdMod`, so numbers wrap. Two bits of IPv4
and four of IPv6 have every prefix length, also inside and outside the mapped block.
`CHECK_DEADLOCK FALSE` is used where the program or the listener ends. Symmetry
is used in safety runs only.

**Fairness.** The run loop is a task the runtime keeps polling, every request has
a time-out, and `select!` chooses among ready branches at random: handlers go
on (weak fairness) and a branch that is ready again and again is taken (strong
fairness). The panel answers after `MaxFail` failures.
In `RateLimiter` time passes and a session whose timer fired is polled (weak
fairness); the panel settles on a rate after `MaxChanges`. In `Supervisor`,
`FairSpec` assumes nothing of name lookups; `CooperativeSpec` also lets lookups
finish and the panel answer, so that the two refuted liveness properties fail
because of the backend and not of its surroundings.

## 4. Proofs

`TrafficProofs` proves, for every set of users and sessions and every value of
the bounds (`BoundsAssumption`: they are natural numbers):

* `TypeCorrect`: `TypeOK`;
* `LedgerInvariant`: the inductive invariant `LedgerInv`;
* `ConservationHolds`, `CheckpointBehindCounterHolds`,
  `PublishedCountersReportedHolds`, `CheckpointMonotoneHolds`.

`Conservation` is not inductive. When an acknowledgement moves the checkpoint, the
pending amount must shrink by exactly the reported delta; that needs the delta
and checkpoint of a report in flight to lie between the ledger's checkpoint and
the counter (`PostingBetween`), hence the same of the values being loaded
(`LoadedBetween`), hence that no checkpoint is ahead of its counter. A dropped
and re-listed user needs that objects not yet created hold zero and that an
entry names the newest object (`ObjectsExist`). `RecordLedger` covers the two
actions that count bytes; `NextLedger` has one step per action.

`RateLimiterProofs` proves, for every set of sessions, rates and chunk sizes
(`RateAssumption`: natural numbers, chunks and the minimal burst positive; that
`MaxAge` fills every bucket matters to the model's fidelity, not to the proof):

* `RateInvariant`: the inductive invariant `RateInv`;
* `RateTypeCorrect`, `RateKeptHolds`, `PublishedBucketUpdatedHolds`.

`RateKept` is not inductive: a grant must be paid for by the bucket. `BurstInv` adds
what a refill would now credit to what has been let through: a grant moves an
amount from one to the other, a tick adds at most the rate to the first and takes
the rate off the second, `set_rate` settles before it changes the rate and cuts the
tokens to the new capacity. One lemma per operation on a bucket (`RefillKeeps`,
`GrantKeeps`, `SetRateKeeps`, `TickKeeps`, `NewKeeps`), one per action above them.

`TrafficProofs` also proves `BillingImplemented`: `Spec => BillingKept`, every initial
state and every step of `Traffic` is one of `Billing` under the mapping of `TrafficBilling`, or
a stutter. What is owed is defined from pending amounts, counters and a report in
flight; following it action by action would repeat the proof of `Conservation`.
Instead `OwedBalance` derives from `Conservation` that owed, billed and forfeited add up
to relayed and repeated, in every state, so the effect of a step on what is owed can be
read off the history variables it assigns. Beyond `LedgerInv` only `RequestsNumbered` is
needed: requests given up on have distinct numbers, so the panel gets each at most once.

`TcpRelayProofs` proves, for every set of users, devices, sessions, addresses and
policies, any number of permits and with either enforcement switched on or off
(`RelayAssumption`):

* `TcpInvariant`: the inductive invariant `TcpInv`;
* `TcpTypeCorrect`, `NothingLeaksHolds`, `DeviceCapHolds`,
  `ForbiddenNeverReachedHolds`, and the action property `SetsPersistHolds`.

`NothingLeaks` and the types need each other: that a count never falls below one, and a
permit never exceeds the total, is because the guard or permit returned was counted
(`GuardCounted`). `DeviceCap` is not inductive: sessions decide with the limit of their
own snapshot, so `LimitsPublished` says of every snapshot still in use that its limits
are at most the highest published for that IP set. `ForbiddenNeverReached` needs the
same of the addresses a session has still to try (`TargetsAllowed`). `AcquiredSets` and
`ReleasedSets` say what `acquire` and `drop` do to all counts at once.

`SupervisorProofs` proves, for all ports, configurations and panel answers and any
number of tasks and faults (`SupervisorAssumption`):

* `SupervisorInvariant`: the inductive invariant `SupervisorInv`;
* `SupervisorTypeCorrect`, `NoForgottenListenerHolds`, `SyncConvergesHolds`;
* `NoNeedlessRestartHolds`, under the hypothesis `PlainPortsAgree`: supported plain
  users that share a port have one configuration. The code does not see to that (see
  the known limits above); for carriers `CarriersMerged` proves what is needed from
  `merge_carrier_users`.

`NoForgottenListener` needs that the listener waited for has been told to stop
(`FirstTold`), as a busy one is given up on without having ended, and that nothing is
left of an earlier stop when a new one begins (`StopsComplete`). `SyncConverges` speaks
of the end of a sync; `SyncInv` says how far it has got: rows of one port are handled in
order (`InOrder`), a handled row's port has an entry or a later row is about to put one
there (`Covered`), and the entry of a row that decides is not disturbed (`Settled`).
It holds for clashing plain users too: the last one's listener remains.

`AuditProofs` and `UdpRelayProofs` begin with one lemma per operation of `BoundedTtlMap`
they use (`Bounded`: keys, entries and size). `InsertsBounded` is the one that matters: an
insert expires, then evicts at most one oldest entry, then adds, so that the size never
passes the capacity and every other entry survives unchanged unless expired or oldest.

`AuditProofs` proves for every capacity, time to live and number of events
(`AuditAssumption`) the inductive `AuditInvariant`, `AuditTypeCorrect`,
`MemoryBoundedHolds`, `AliveSinceLastReportHolds` and the action property
`DetectKeptUntilReportedHolds`. The last needs an invariant as well: while detect logs
are posted the report is exactly what the map holds, because the loop is one task and
records nothing meanwhile; so what `retain(false)` drops was reported.

`UdpRelayProofs` proves for every set of peers, users and policies, every capacity and
time to live (`UdpAssumption`) the inductive `UdpInvariant`, `UdpTypeCorrect`,
`PumpsOwnedHolds`, `ForbiddenNeverSentHolds` and the action property
`AssociationsKeptHolds`. `PumpsOwned` needs the converse as well (`Named`: an association's
pump is of its own peer and user), or an eviction could abort the pump of another.
`DatedByUse` ties the map's time stamps to the history of use.

`AuthStreamProofs` proves, for every table of users, set of clients, number and size of
packets, IV and unit length and modulus of packet numbers, and for every way of cutting
the stream:

* `AuthInvariant`: the inductive invariant `AuthInv`;
* `AuthTypeCorrect`, `FragmentationIrrelevantHolds`, `PayloadIntactHolds`,
  `NothingPastAnErrorHolds`, `RightUserHolds`, `TransportsAgreeHolds`;
* `ClientDecodesHolds`, the way back.

`AuthAssumption` says of a client that the mistake it makes, if any, is in one of its
packets and in a field that packet has; nothing is assumed of the key it signs with.
`RightUser` therefore has a case for a stream without a listed uid: it is served as the
listener's own user, if signed with the port's key or, on a single-port node, with its
IV. A client is `Correct` only if its packets are shorter than `MAX_PACKET`; the code
refuses others.
The invariant is that a session which has not failed has decoded some number `d` of
packets (`Decoding`): the buffer starts where packet `d` ends and reaches to the last byte
read, the packet number is that of packet `d + 1`, header and key are there exactly if
`d > 0`, no complete packet is left in the buffer, none of the `d` has a mistake, and what
was delivered is the payload of all `d`. `InOrder` and `HeaderCut` say that it lies in order
in the two parts before and after the end of the address, `Welcome` that a correct client
that signs with the right key is not refused. `DataPacketStep` and `AuthPacketStep` say
what one turn of `server_post_decrypt` makes of such a state, `PostDecryptEnds` that
enough turns reach a state that waits or fails, `DeliverStep` what the handshake and relay
loops make of the result. Of the way back `Gapless` says that each packet begins where the
one before it ends, with the next number; `ModAdd` covers the wrap.
Sums over packets and the turns of a call are recursive functions. That they exist and
what they compute is shown by induction: `SetInduction` states the principle for a set of
numbers, from the library's `WFMin` and `NatLessThanWellFounded`, because no prover
instantiates the library's own, which takes a predicate.

`PanelRowsProofs` proves, for every set of listings of any length, any number of users and
ports, every width of the two address families and every position of the mapped block:

* `PanelInvariant`: the inductive invariant `PanelInv`;
* `PanelTypeCorrect`, `TablesFollowRowsHolds`, `PoliciesExactHolds`, and the action
  property `UserChangesAreSilentHolds`.

`RowsAssumption` says that rows have the types `PanelUser` gives them (serde refuses others),
`PolicyAssumption` and `MappedAssumption` that widths and moduli are positive and the mapped
block lies in the IPv6 space. `TablesFollowRows` does not say what a policy holds, so it
cannot support `PoliciesExact`; `TablesMatch` says what every entry of every table holds.
`ActiveMatch` says that a port has a listener exactly if an enabled, supported row calls for
one, and that its fingerprint is that of such a row, without which a poll with the same
rows could find another fingerprint and restart it.

The argument for `Sync` follows the code. `UsersNumbered` relates the filtered rows of
`users()` to the rows as sent, in order, so that a last row of the one is a last row of the
other. Each loop has an invariant for its first k rows (`Built` for the tables, `Merged` for
the carriers, `Reached` for the listeners), a lemma for one more row (`BuiltStep`,
`MergedStep`, `ReachedStep`), and an induction (`TablesBuilt`, `CarriersMerged`,
`ListenersReached`). `TablesMatchRows` and `ListenersStep` carry the result over to the rows
as sent. `UserChangesAreSilent` then follows in `SilentStep`: if all rows of a port agree on
one endpoint before and after, the fingerprint found is the one asked for.

For `Policy`, `BitsAreLeads` shows by induction on the prefix that two addresses agree in
their first k bits exactly if they have the same quotient by the power of two, which
is what the masks of `v4_in` and `v6_in` compare; `MappedLeads` moves a prefix of an IPv4
block to the mapped block; `ContainsShared` combines the four cases of `Cidr::contains`, and
`ItemExact` adds what `Cidr::parse` makes of hosts and prefixes that are too long.
`IpsExact` and `PortsExact` lift it to lists, from which the items that do not parse are left
out, `FromUserExact` to a row. As in `AuthStreamProofs`, recursive functions exist and compute
what they should by `SetInduction`; `TablesLoopExists` and its like state existence.

Only model-checked:

* liveness (`HandlersReturn`, `EventsSettle`, `EveryByteSettles`, `WaitersProgress`): fairness
  and ENABLED are beyond the prover;
* the four violations, which are counterexamples.

## 5. Not modelled

Ciphers, key derivation and regular expressions (bytes in, bytes out, no state of
interest here), HMACs being ideal; the text of HTTP, JSON, addresses and port
lists, which is abstracted to whether and to what it parses; the configuration file
and command line, whose values are the CONSTANTS (`Validate` is the part of
`Config::validate` that concerns them); logging, installer. Counters are unbounded
numbers: a u64 of bytes does not wrap in the life of a process. Poisoned locks are
not modelled (no code panics while it holds one).

## 6. Where it stands

All components with logic of their own are modelled, and every safety invariant and action
property that a passing run checks is proved. What could be added:

1. `NoNeedlessRestart` without the hypothesis `PlainPortsAgree`, should the code come to merge
   plain users of one port as it merges carriers.
2. A refinement of `PanelRows` by `Supervisor`, whose rows are already reduced to their
   configuration: `Sync` as one step against the handler taken apart.
