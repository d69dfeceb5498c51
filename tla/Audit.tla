------------------------------- MODULE Audit -------------------------------
(***************************************************************************)
(* Auditing: relay tasks emit connect and detect events into a bounded     *)
(* channel (audit.rs); the run loop of supervisor.rs drains it into three  *)
(* bounded maps with a time to live, prunes them on every poll and reports *)
(* them with report_auxiliary_state.                                       *)
(***************************************************************************)
EXTENDS BoundedTtlMap, Sequences

CONSTANTS
  User, IP, Rule,
  Source,         \* client ports: a peer is an address and a port
  Capacity,       \* EVENT_CHANNEL_CAPACITY
  MaxSessions, MaxAlive, MaxDetect,   \* limits.max_sessions, ...
  SessionTtl, AliveTtl, DetectTtl,    \* limits.session_ttl, ...
  MaxTime, MaxEvents, MaxFail         \* bounds

ASSUME AuditAssumption ==
  /\ {Capacity, MaxSessions, MaxAlive, MaxDetect} \subseteq Nat \ {0}
  /\ {SessionTtl, AliveTtl, DetectTtl, MaxTime, MaxEvents, MaxFail} \subseteq Nat

VARIABLES
  now,
  rules,     \* the published rule set
  queue,     \* the event channel
  sent,      \* events emitted so far
  sessions, alive, detect,   \* the three maps
  pc,        \* "idle", or the await the run loop is in
  report,    \* keys of the report being posted
  applied,   \* the panel has handled it
  fails,
  seen       \* history: alive keys recorded since the last acknowledged report

mapVars == <<sessions, alive, detect>>
postVars == <<report, applied, fails>>
vars == <<now, rules, queue, sent, mapVars, pc, postVars, seen>>

----------------------------------------------------------------------------
Connect == [kind : {"connect"}, user : User, ip : IP, source : Source]
Detect == [kind : {"detect"}, user : User, ip : IP, list : Rule]
RelayEvent == Connect \cup Detect

SessionKey == User \X IP \X Source
AliveKey == User \X IP
DetectKey == User \X Rule \X IP

Init ==
  /\ now = 0 /\ rules = {}
  /\ queue = << >> /\ sent = 0
  /\ sessions = << >> /\ alive = << >> /\ detect = << >>
  /\ pc = "idle" /\ report = {} /\ applied = FALSE /\ fails = 0
  /\ seen = {}

Tick ==
  /\ now < MaxTime /\ now' = now + 1
  /\ UNCHANGED <<rules, queue, sent, mapVars, pc, postVars, seen>>

\* try_send: an event that finds the channel full is dropped.
TrySend(e) == IF Len(queue) < Capacity THEN Append(queue, e) ELSE queue

\* A relay task reports a connection, or a match of a published rule.
Emit(e) ==
  /\ sent < MaxEvents /\ sent' = sent + 1
  /\ e.kind = "detect" => e.list \in rules
  /\ queue' = TrySend(e)
  /\ UNCHANGED <<now, rules, mapVars, pc, postVars, seen>>

----------------------------------------------------------------------------
(* The run loop. *)

\* Faulty variant: events are taken in full batches only.
CanRecordBatch == pc = "idle" /\ Len(queue) = Capacity

\* When the loop takes events: never inside another handler.
CanRecord == pc = "idle" /\ queue # << >>

RecordConnect ==
  LET e == Head(queue) IN
  /\ CanRecord /\ e.kind = "connect"
  /\ sessions' \in Inserts(sessions, <<e.user, e.ip, e.source>>, "unit", now,
                           SessionTtl, MaxSessions)
  /\ alive' \in Inserts(alive, <<e.user, e.ip>>, "unit", now, AliveTtl, MaxAlive)
  /\ seen' = seen \cup {<<e.user, e.ip>>}
  /\ queue' = Tail(queue)
  /\ UNCHANGED <<now, rules, sent, detect, pc, postVars>>

RecordDetect ==
  LET e == Head(queue) IN
  /\ CanRecord /\ e.kind = "detect"
  /\ detect' \in Inserts(detect, <<e.user, e.list, e.ip>>, "log", now,
                         DetectTtl, MaxDetect)
  /\ queue' = Tail(queue)
  /\ UNCHANGED <<now, rules, sent, sessions, alive, pc, postVars, seen>>

\* The end of sync_users keeps the entries of listed users; a sync that fails
\* keeps everything.  Then the rules are fetched.
KeysOf(us, keys) == {k \in keys : k[1] \in us}

PollSync(us) ==
  /\ pc = "idle" /\ pc' = "refresh"
  /\ sessions' = Retain(sessions, KeysOf(us, SessionKey))
  /\ alive' = Retain(alive, KeysOf(us, AliveKey))
  /\ detect' = Retain(detect, KeysOf(us, DetectKey))
  /\ UNCHANGED <<now, rules, queue, sent, postVars, seen>>

PollSyncFails ==
  /\ pc = "idle" /\ pc' = "refresh"
  /\ UNCHANGED <<now, rules, queue, sent, mapVars, postVars, seen>>

\* refresh_detect_rules keeps the current set on failure (rs = rules), then
\* expire_local_state.
PollRefresh(rs) ==
  /\ pc = "refresh" /\ pc' = "idle"
  /\ rules' = rs
  /\ sessions' = EvictExpired(sessions, now, SessionTtl)
  /\ alive' = EvictExpired(alive, now, AliveTtl)
  /\ detect' = EvictExpired(detect, now, DetectTtl)
  /\ UNCHANGED <<queue, sent, now, postVars, seen>>

----------------------------------------------------------------------------
(* report_auxiliary_state: alive addresses first, then detect logs; any    *)
(* error leaves at once.                                                   *)

\* Detect logs are only posted if there are any.
PostDetect ==
  \/ detect = << >> /\ pc' = "idle" /\ report' = {}
  \/ detect # << >> /\ pc' = "detect" /\ report' = DOMAIN detect

\* Nothing is posted for an empty list of addresses, which counts as reported.
ReportAlive ==
  /\ pc = "idle" /\ applied' = FALSE
  /\ \/ alive # << >> /\ pc' = "alive" /\ report' = DOMAIN alive /\ seen' = seen
     \/ alive = << >> /\ PostDetect /\ seen' = {}
  /\ UNCHANGED <<now, rules, queue, sent, mapVars, fails>>

PanelApply ==
  /\ pc \in {"alive", "detect"} /\ ~applied
  /\ applied' = TRUE
  /\ UNCHANGED <<now, rules, queue, sent, mapVars, pc, report, fails, seen>>

\* Faulty variant: the map is not cleared.
AfterReportKept(m) == m

\* What an acknowledged report leaves in a map: retain(|_, _| false).
AfterReport(m) == Retain(m, {})

AliveAck ==
  /\ pc = "alive" /\ applied
  /\ alive' = AfterReport(alive)
  /\ seen' = {}
  /\ applied' = FALSE
  /\ PostDetect
  /\ UNCHANGED <<now, rules, queue, sent, sessions, detect, fails>>

DetectAck ==
  /\ pc = "detect" /\ applied
  /\ detect' = AfterReport(detect)
  /\ pc' = "idle" /\ report' = {} /\ applied' = FALSE
  /\ UNCHANGED <<now, rules, queue, sent, sessions, alive, fails, seen>>

\* Faulty variant: the logs are taken out before the report succeeds.
DetectDrained == << >>

\* What a failed report leaves in the detect map.
DetectOnFail == detect

\* Refused, timed out, or applied with the answer lost.
ReportFail ==
  /\ pc \in {"alive", "detect"} /\ fails < MaxFail
  /\ fails' = fails + 1
  /\ detect' = DetectOnFail
  /\ pc' = "idle" /\ report' = {} /\ applied' = FALSE
  /\ UNCHANGED <<now, rules, queue, sent, sessions, alive, seen>>

----------------------------------------------------------------------------
Record == RecordConnect \/ RecordDetect

Next ==
  \/ Tick
  \/ \E e \in RelayEvent : Emit(e)
  \/ Record
  \/ \E us \in SUBSET User : PollSync(us)
  \/ PollSyncFails
  \/ \E rs \in SUBSET Rule : PollRefresh(rs)
  \/ ReportAlive \/ PanelApply \/ AliveAck \/ DetectAck \/ ReportFail

Spec == Init /\ [][Next]_vars

(***************************************************************************)
(* The loop runs its handlers to the end and, select! choosing at random   *)
(* among ready branches, a due report and a waiting event get their turn.  *)
(* The panel answers: MaxFail bounds how often it does not.                *)
(***************************************************************************)
Fairness ==
  /\ SF_vars(Record)
  /\ SF_vars(ReportAlive)
  /\ WF_vars(PanelApply) /\ WF_vars(AliveAck) /\ WF_vars(DetectAck)
  /\ WF_vars(\E rs \in SUBSET Rule : PollRefresh(rs))

FairSpec == Spec /\ Fairness

----------------------------------------------------------------------------
EntryMap(m, K) == IsMap(m, K, [value : {"unit", "log"}, last_seen : 0 .. MaxTime])

\* Types: map entries have a key of their own kind and were seen in the past
\* (SessionKey, AliveIpKey, DetectLogKey).
TypeOK ==
  /\ now \in 0 .. MaxTime /\ rules \subseteq Rule
  /\ queue \in Seq(RelayEvent) /\ sent \in 0 .. MaxEvents
  /\ EntryMap(sessions, SessionKey) /\ EntryMap(alive, AliveKey) /\ EntryMap(detect, DetectKey)
  /\ pc \in {"idle", "refresh", "alive", "detect"}
  /\ report \subseteq AliveKey \cup DetectKey
  /\ applied \in BOOLEAN /\ fails \in 0 .. MaxFail
  /\ seen \subseteq AliveKey

\* "live memory never exceeds capacity entries": whatever the rate of events,
\* channel and maps stay within their bounds (insert evicts before it adds,
\* try_send drops).
MemoryBounded ==
  /\ Len(queue) <= Capacity
  /\ Cardinality(DOMAIN sessions) <= MaxSessions
  /\ Cardinality(DOMAIN alive) <= MaxAlive
  /\ Cardinality(DOMAIN detect) <= MaxDetect

\* "the next report reflects only the IPs seen since this one": an alive report
\* never repeats an address of an acknowledged one without a new connection.
AliveSinceLastReport ==
  /\ DOMAIN alive \subseteq seen
  /\ pc = "alive" => report \subseteq seen

\* A recorded detect log leaves the map only when the panel acknowledged a
\* report that contains it, or its time is up, its user is no longer listed,
\* or it is the oldest and the map is full; a failed, lost or overtaken report
\* never drops one (report_auxiliary_state, insert).
Covered(k) == pc = "detect" /\ applied /\ k \in report
Outlived(k) == Expired(detect, k, now, DetectTtl)
Unlisted(k) == pc = "idle" /\ pc' = "refresh" /\ KeysOf({k[1]}, DOMAIN detect') = {}
Crowded(k) ==
  /\ k \in OldestKeys(detect)
  /\ Cardinality(DOMAIN detect) = MaxDetect /\ Cardinality(DOMAIN detect') = MaxDetect

DetectKeptUntilReported ==
  [][\A k \in DOMAIN detect \ DOMAIN detect' :
       Covered(k) \/ Outlived(k) \/ Unlisted(k) \/ Crowded(k)]_vars

\* Event e is in its maps with the present time, as the step that takes it
\* from the channel leaves it.
Holds(m, k) == k \in DOMAIN m /\ m[k].last_seen = now
Recorded(e) ==
  \/ /\ e.kind = "connect"
     /\ Holds(sessions, <<e.user, e.ip, e.source>>) /\ Holds(alive, <<e.user, e.ip>>)
  \/ e.kind = "detect" /\ Holds(detect, <<e.user, e.list, e.ip>>)

\* Every event that got into the channel is recorded in the end, although the
\* loop is kept from it by handlers and reports, and although no other event
\* may follow; and every recorded detect log is reported or dropped in the
\* end, although reports fail (run, record_event, report_auxiliary_state).
EventsSettle ==
  /\ \A e \in RelayEvent : (\E i \in DOMAIN queue : queue[i] = e) ~> Recorded(e)
  /\ \A k \in DetectKey : (k \in DOMAIN detect) ~> (k \notin DOMAIN detect)
=============================================================================
