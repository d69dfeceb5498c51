--------------------------- MODULE TrafficProofs ---------------------------
(***************************************************************************)
(* Proofs about Traffic, for every set of users and relay tasks and every  *)
(* value of the bounds.                                                    *)
(***************************************************************************)
EXTENDS TrafficBilling, TLAPS

----------------------------------------------------------------------------
(* Facts about the operators. *)

\* A published or captured table is a map from some users to object numbers.
LEMMA UserTablesAreMaps ==
  ASSUME NEW t
  PROVE  t \in UserTables <=> IsMap(t, User, Gen)
BY DEF UserTables, IsMap

\* Keeping part of a map keeps its type.
LEMMA RestrictMap ==
  ASSUME NEW f, NEW K, NEW V, IsMap(f, K, V), NEW S, S \subseteq DOMAIN f
  PROVE  /\ IsMap(Restrict(f, S), K, V)
         /\ DOMAIN Restrict(f, S) = S
         /\ \A x \in S : Restrict(f, S)[x] = f[x]
BY DEF IsMap, Restrict

\* saturating_sub is a difference when it does not saturate.
LEMMA SaturatingSub ==
  ASSUME NEW a \in Nat, NEW b \in Nat
  PROVE  /\ Minus(a, b) \in Nat
         /\ b <= a => Minus(a, b) = a - b
BY DEF Minus

\* A report adds a natural number to every entry.
LEMMA AddReportType ==
  ASSUME NEW total \in [User -> Tally], NEW report, IsMap(report, User, TrafficDelta)
  PROVE  /\ AddReport(total, report) \in [User -> Tally]
         /\ \A u \in User, d \in Dir :
              /\ Amount(report, u, d) \in Nat
              /\ AddReport(total, report)[u][d] = total[u][d] + Amount(report, u, d)
<1>1. \A u \in User, d \in Dir : Amount(report, u, d) \in Nat
  BY DEF Amount, IsMap, TrafficDelta, Tally
<1>2. QED
  BY <1>1 DEF AddReport, Tally

\* The unreported traffic of a user is a number.
LEMMA PendingType ==
  ASSUME TypeOK, NEW u \in User, NEW d \in Dir
  PROVE  /\ Checkpoint(u) \in Tally
         /\ Checkpoint(u)[d] \in Nat
         /\ Pending(u, d) \in Nat
<1>1. Zero \in Tally
  BY DEF Zero, Tally
<1>2. Checkpoint(u) \in Tally
  BY <1>1 DEF Checkpoint, TypeOK, IsMap
<1>3. Checkpoint(u)[d] \in Nat
  BY <1>2 DEF Tally
<1>4. u \in DOMAIN counters => bytes[u][counters[u]][d] \in Nat
  BY DEF TypeOK, IsMap, Tally
<1>5. QED
  BY <1>2, <1>3, <1>4, SaturatingSub DEF Pending

----------------------------------------------------------------------------
(* Type correctness. *)

\* A fresh ledger, as TrafficLedger::default makes it, is well typed.
LEMMA InitType == Init => TypeOK
<1> SUFFICES ASSUME Init PROVE TypeOK
  OBVIOUS
<1>1. Zero \in Tally
  BY DEF Zero, Tally
<1>2. \A K, V : IsMap(<< >>, K, V)
  BY DEF IsMap
<1>3. << >> \in UserTables
  BY <1>2, UserTablesAreMaps
<1>4. QED
  BY <1>1, <1>2, <1>3, BoundsAssumption DEF Init, TypeOK

\* record_upload and record_download keep the tallies well typed.
LEMMA RecordType ==
  ASSUME TypeOK, NEW c \in CounterObject, NEW d \in Dir, NEW n \in Nat, Record(c, d, n)
  PROVE  /\ bytes' \in [User -> [Gen -> Tally]]
         /\ relayed' \in [User -> Tally]
         /\ forfeited' \in [User -> Tally]
<1>1. c.user \in User /\ c.gen \in Gen
  BY DEF CounterObject
<1>2. /\ bytes[c.user][c.gen][d] + n \in Nat
      /\ relayed[c.user][d] + n \in Nat
      /\ forfeited[c.user][d] + n \in Nat
  BY <1>1 DEF TypeOK, Tally
<1>3. bytes' \in [User -> [Gen -> Tally]]
  BY <1>1, <1>2 DEF Record, TypeOK, Tally
<1>4. relayed' \in [User -> Tally] /\ forfeited' \in [User -> Tally]
  BY <1>1, <1>2 DEF Record, TypeOK, Tally
<1>5. QED
  BY <1>3, <1>4

\* Every step keeps the types.
LEMMA NextType == TypeOK /\ [Next]_vars => TypeOK'
<1> SUFFICES ASSUME TypeOK, [Next]_vars PROVE TypeOK'
  OBVIOUS
<1> USE DEF ledgerVars, relayVars, reportVars, historyVars
<1>1. ASSUME NEW s \in Session, Accept(s) PROVE TypeOK'
  <2>1. IsMap(handshaking', Session, UserTables)
    BY <1>1 DEF Accept, TypeOK, IsMap, Put
  <2>2. QED
    BY <1>1, <2>1 DEF Accept, TypeOK
<1>2. ASSUME NEW s \in Session, NEW u \in User, NEW n \in 1 .. MaxChunk,
             Authenticate(s, u, n)
      PROVE  TypeOK'
  <2> DEFINE c == [user |-> u, gen |-> handshaking[s][u]]
  <2>1. handshaking[s][u] \in Gen
    BY <1>2, UserTablesAreMaps DEF Authenticate, TypeOK, IsMap
  <2>2. c \in CounterObject
    BY <2>1 DEF CounterObject
  <2>3. IsMap(relaying', Session, CounterObject)
    BY <1>2, <2>2 DEF Authenticate, TypeOK, IsMap, Put
  <2>4. IsMap(handshaking', Session, UserTables)
    BY <1>2, RestrictMap DEF Authenticate, TypeOK, Without
  <2>5. Record(c, "up", n) /\ n \in Nat /\ "up" \in Dir
    BY <1>2, BoundsAssumption DEF Authenticate, Dir
  <2>6. /\ bytes' \in [User -> [Gen -> Tally]]
        /\ relayed' \in [User -> Tally]
        /\ forfeited' \in [User -> Tally]
    BY <2>2, <2>5, RecordType
  <2>7. QED
    BY <1>2, <2>3, <2>4, <2>6 DEF Authenticate, TypeOK
<1>3. ASSUME NEW s \in Session, NEW d \in Dir, NEW n \in 1 .. MaxChunk,
             Transfer(s, d, n)
      PROVE  TypeOK'
  <2>1. relaying[s] \in CounterObject /\ Record(relaying[s], d, n) /\ n \in Nat
    BY <1>3, BoundsAssumption DEF Transfer, TypeOK, IsMap
  <2>2. /\ bytes' \in [User -> [Gen -> Tally]]
        /\ relayed' \in [User -> Tally]
        /\ forfeited' \in [User -> Tally]
    BY <2>1, RecordType
  <2>3. QED
    BY <1>3, <2>2 DEF Transfer, TypeOK
<1>4. ASSUME NEW s \in Session, Close(s) PROVE TypeOK'
  <2>1. IsMap(handshaking', Session, UserTables) /\ IsMap(relaying', Session, CounterObject)
    BY <1>4, RestrictMap DEF Close, TypeOK, Without
  <2>2. QED
    BY <1>4, <2>1 DEF Close, TypeOK
<1>5. ASSUME NEW us \in SUBSET User, SyncPublish(us) PROVE TypeOK'
  <2>1. IsMap(EnsureCounters(us), User, Gen)
    BY <1>5, BoundsAssumption DEF SyncPublish, EnsureCounters, TypeOK, IsMap, Gen
  <2>2. IsMap(checkpoints', User, Tally)
    <3>1. \A u \in User : Checkpoint(u) \in Tally
      BY PendingType DEF Dir
    <3>2. QED
      BY <1>5, <3>1 DEF SyncPublish, EnsureCheckpoints, TypeOK, IsMap
  <2>3. created' \in [User -> 0 .. MaxGen]
    BY <1>5, BoundsAssumption DEF SyncPublish, TypeOK
  <2>4. us \subseteq DOMAIN EnsureCounters(us)
    BY DEF EnsureCounters
  <2>5. tables' \in UserTables
    BY <1>5, <2>1, <2>4, RestrictMap, UserTablesAreMaps DEF SyncPublish, CountersByUser
  <2>6. QED
    BY <1>5, <2>1, <2>2, <2>3, <2>5 DEF SyncPublish, TypeOK
<1>6. CASE SyncRemoveStale
  <2>1. IsMap(counters', User, Gen) /\ IsMap(checkpoints', User, Tally)
    BY <1>6, RestrictMap
       DEF SyncRemoveStale, RetainCounters, RetainCheckpoints, TypeOK
  <2>2. forfeited' \in [User -> Tally]
    <3>1. ASSUME NEW u \in User, NEW d \in Dir
          PROVE  forfeited[u][d] + (IF u \in live THEN 0 ELSE Pending(u, d)) \in Nat
      BY <3>1, PendingType DEF TypeOK, Tally
    <3>2. QED
      BY <1>6, <3>1 DEF SyncRemoveStale, Tally
  <2>3. QED
    BY <1>6, <2>1, <2>2 DEF SyncRemoveStale, TypeOK
<1>7. CASE ReportBegin
  BY <1>7 DEF ReportBegin, TypeOK, IsMap
<1>8. ASSUME NEW u \in User, NEW d \in Dir, LoadCounter(u, d) PROVE TypeOK'
  <2>1. bytes[u][counters[u]][d] \in Nat
    BY <1>8 DEF LoadCounter, TypeOK, IsMap, Tally
  <2>2. IsMap(loaded', User \X Dir, Nat)
    BY <1>8, <2>1 DEF LoadCounter, TypeOK, IsMap, Put
  <2>3. QED
    BY <1>8, <2>2 DEF LoadCounter, TypeOK
<1>9. CASE Post
  <2>1. ASSUME NEW u \in DOMAIN counters PROVE DeltaOf(u) \in TrafficDelta
    <3>1. \A d \in Dir : loaded[<<u, d>>] \in Nat
      BY <1>9, <2>1 DEF Post, TypeOK, IsMap
    <3>2. \A d \in Dir : Minus(loaded[<<u, d>>], Checkpoint(u)[d]) \in Nat
      BY <3>1, <2>1, PendingType, SaturatingSub DEF TypeOK, IsMap
    <3>3. QED
      BY <3>1, <3>2 DEF DeltaOf, TrafficDelta, Tally
  <2>2. IsMap(deltas', User, TrafficDelta)
    BY <1>9, <2>1 DEF Post, PendingDeltas, TypeOK, IsMap
  <2>3. IsMap(loaded', User \X Dir, Nat)
    BY <1>9 DEF Post, IsMap
  <2>4. pc' \in {"idle", "posting"} /\ posted' \in {"none", "sent"}
    BY <1>9 DEF Post
  <2>5. QED
    BY <1>9, <2>2, <2>3, <2>4 DEF Post, TypeOK
<1>10. CASE PanelApply
  BY <1>10, AddReportType DEF PanelApply, TypeOK
<1>11. CASE ReportAck
  <2>1. IsMap(checkpoints', User, Tally)
    BY <1>11 DEF ReportAck, MarkReported, TypeOK, IsMap, TrafficDelta
  <2>2. IsMap(deltas', User, TrafficDelta)
    BY <1>11 DEF ReportAck, IsMap
  <2>3. QED
    BY <1>11, <2>1, <2>2 DEF ReportAck, TypeOK
<1>12. CASE ReportFail
  <2>1. fails' \in 0 .. MaxFail /\ fails' \in 1 .. MaxFail
    BY <1>12, BoundsAssumption DEF ReportFail, TypeOK
  <2>2. \A r \in late' : r[1] \in 1 .. MaxFail /\ IsMap(r[2], User, TrafficDelta)
    BY <1>12, <2>1 DEF ReportFail, TypeOK
  <2>3. repeated' \in [User -> Tally]
    BY <1>12, AddReportType DEF ReportFail, TypeOK
  <2>4. IsMap(deltas', User, TrafficDelta)
    BY <1>12 DEF ReportFail, IsMap
  <2>5. QED
    BY <1>12, <2>1, <2>2, <2>3, <2>4 DEF ReportFail, CheckpointsOnFail, TypeOK
<1>13. ASSUME NEW r \in late, PanelApplyLate(r) PROVE TypeOK'
  <2>1. IsMap(r[2], User, TrafficDelta)
    BY <1>13 DEF TypeOK
  <2>2. billed' \in [User -> Tally] /\ repeated' \in [User -> Tally]
    BY <1>13, <2>1, AddReportType DEF PanelApplyLate, TypeOK
  <2>3. QED
    BY <1>13, <2>2 DEF PanelApplyLate, TypeOK
<1>14. CASE UNCHANGED vars
  BY <1>14 DEF vars, TypeOK, IsMap
<1>15. QED
  BY <1>1, <1>2, <1>3, <1>4, <1>5, <1>6, <1>7, <1>8, <1>9, <1>10, <1>11,
     <1>12, <1>13, <1>14 DEF Next, Relay, Sync, Report, Panel

\* Every state of the accounting is well typed: counters, reports and tables
\* never name a user or an object that does not exist.
THEOREM TypeCorrect == Spec => []TypeOK
BY InitType, NextType, PTL DEF Spec

----------------------------------------------------------------------------
(* The accounting invariant. *)

\* Counting n bytes: counters only grow, and a byte is either pending in the
\* ledger or forfeited at once.
LEMMA RecordLedger ==
  ASSUME LedgerInv, TypeOK', NEW c \in CounterObject, NEW d \in Dir, NEW n \in Nat,
         Record(c, d, n), c.gen <= created[c.user],
         UNCHANGED <<ledgerVars, tables, pc, live, reportVars, billed, repeated>>
  PROVE  /\ \A u \in User, g \in Gen : g > created'[u] => bytes'[u][g] = Zero
         /\ CheckpointBehindCounter' /\ LoadedBetween' /\ PostingBetween'
         /\ Conservation'
<1> USE DEF ledgerVars, reportVars
<1>1. c.user \in User /\ c.gen \in Gen
  BY DEF CounterObject
<1>2. TypeOK
  BY DEF LedgerInv
<1>3. \A u \in User, g \in Gen, e \in Dir :
        bytes'[u][g][e] = bytes[u][g][e]
                          + (IF u = c.user /\ g = c.gen /\ e = d THEN n ELSE 0)
  BY <1>1, <1>2 DEF Record, TypeOK, Tally
<1>4. \A u \in User, g \in Gen, e \in Dir :
        /\ bytes[u][g][e] \in Nat /\ bytes'[u][g][e] \in Nat
        /\ bytes[u][g][e] <= bytes'[u][g][e]
  <2>1. \A u \in User, g \in Gen, e \in Dir : bytes[u][g][e] \in Nat
    BY <1>2 DEF TypeOK, Tally
  <2>2. QED
    BY <1>3, <2>1
<1>5. \A u \in User, g \in Gen : g > created'[u] => bytes'[u][g] = Zero
  BY <1>1, <1>2 DEF Record, TypeOK, LedgerInv, ObjectsExist, Gen
<1>6. \A u \in DOMAIN counters : u \in User /\ counters[u] \in Gen
  BY <1>2 DEF TypeOK, IsMap
<1>7. \A u \in User, e \in Dir : Checkpoint(u)' = Checkpoint(u) /\ Checkpoint(u)[e] \in Nat
  BY <1>2, PendingType DEF Checkpoint
<1>8. CheckpointBehindCounter'
  BY <1>4, <1>6, <1>7 DEF LedgerInv, CheckpointBehindCounter
<1>9. LoadedBetween'
  <2>1. \A p \in DOMAIN loaded : loaded[p] \in Nat
    BY <1>2 DEF TypeOK, IsMap
  <2>2. QED
    BY <1>4, <1>6, <2>1 DEF LedgerInv, LoadedBetween
<1>10. PostingBetween'
  <2>1. \A u \in DOMAIN deltas, e \in Dir : deltas[u].checkpoint[e] \in Nat
    BY <1>2 DEF TypeOK, IsMap, TrafficDelta, Tally
  <2>2. QED
    BY <1>4, <1>6, <2>1 DEF LedgerInv, PostingBetween
<1>11. Conservation'
  <2> SUFFICES ASSUME NEW u \in User, NEW e \in Dir
               PROVE  billed'[u][e] + Pending(u, e)' + forfeited'[u][e]
                        = relayed'[u][e] + repeated'[u][e] + AppliedNow(u, e)'
    BY DEF Conservation
  <2> DEFINE k == IF u = c.user /\ e = d THEN n ELSE 0
  <2>1. AppliedNow(u, e)' = AppliedNow(u, e) /\ billed'[u][e] = billed[u][e]
        /\ repeated'[u][e] = repeated[u][e]
    BY DEF AppliedNow, Amount
  <2>2. relayed'[u][e] = relayed[u][e] + k
    BY <1>1, <1>2 DEF Record, TypeOK, Tally
  <2>3. AppliedNow(u, e) \in Nat
    BY <1>2, AddReportType DEF AppliedNow, TypeOK
  <2>4. /\ billed[u][e] \in Nat /\ forfeited[u][e] \in Nat
        /\ relayed[u][e] \in Nat /\ repeated[u][e] \in Nat
        /\ k \in Nat /\ Pending(u, e) \in Nat
    BY <1>2, PendingType DEF TypeOK, Tally
  <2>5. billed[u][e] + Pending(u, e) + forfeited[u][e]
          = relayed[u][e] + repeated[u][e] + AppliedNow(u, e)
    BY DEF LedgerInv, Conservation
  <2>6. CASE InLedger(c) /\ u = c.user
    <3>1. Pending(u, e)' = Pending(u, e) + k
      <4>1. u \in DOMAIN counters /\ counters[u] = c.gen
        BY <2>6 DEF InLedger
      <4>2. Pending(u, e) = bytes[u][counters[u]][e] - Checkpoint(u)[e]
        BY <4>1, <1>4, <1>6, <1>7, SaturatingSub
           DEF Pending, LedgerInv, CheckpointBehindCounter
      <4>3. Pending(u, e)' = bytes'[u][counters[u]][e] - Checkpoint(u)[e]
        BY <4>1, <1>4, <1>6, <1>7, <1>8, SaturatingSub
           DEF Pending, CheckpointBehindCounter
      <4>4. bytes'[u][counters[u]][e] = bytes[u][counters[u]][e] + k
        BY <1>3, <1>6, <2>6, <4>1
      <4>5. QED
        BY <1>4, <1>6, <1>7, <2>4, <4>1, <4>2, <4>3, <4>4
    <3>2. forfeited'[u][e] = forfeited[u][e]
      BY <2>6 DEF Record
    <3>3. QED
      BY <2>1, <2>2, <2>3, <2>4, <2>5, <3>1, <3>2
  <2>7. CASE ~(InLedger(c) /\ u = c.user)
    <3>1. Pending(u, e)' = Pending(u, e)
      BY <1>3, <1>4, <1>6, <1>7, <2>7 DEF Pending, InLedger
    <3>2. forfeited'[u][e] = forfeited[u][e] + k
      BY <1>1, <1>2, <2>4, <2>7 DEF Record, TypeOK, Tally
    <3>3. QED
      BY <2>1, <2>2, <2>3, <2>4, <2>5, <3>1, <3>2
  <2>8. QED
    BY <2>6, <2>7
<1>12. QED
  BY <1>5, <1>8, <1>9, <1>10, <1>11

\* The invariant holds at the start.
LEMMA InitLedger == Init => LedgerInv
<1> SUFFICES ASSUME Init PROVE LedgerInv
  OBVIOUS
<1>1. TypeOK
  BY InitType
<1>2. DOMAIN counters = {} /\ DOMAIN checkpoints = {} /\ DOMAIN tables = {}
      /\ DOMAIN handshaking = {} /\ DOMAIN relaying = {} /\ pc = "idle" /\ posted = "none"
  BY DEF Init
<1>3. ObjectsExist
  BY <1>2 DEF ObjectsExist, Init
<1>4. Conservation
  BY <1>2 DEF Conservation, Init, Pending, AppliedNow, Zero
<1>5. QED
  BY <1>1, <1>2, <1>3, <1>4
     DEF LedgerInv, PublishedCountersReported, CheckpointBehindCounter,
         LoadedBetween, PostingBetween

\* A step that leaves counters, checkpoints and bytes alone leaves the pending
\* traffic alone.
LEMMA SamePending ==
  ASSUME UNCHANGED <<counters, checkpoints, bytes>>
  PROVE  \A u, d : Pending(u, d)' = Pending(u, d)
BY DEF Pending, Checkpoint

\* Every step keeps the invariant.
LEMMA NextLedger == LedgerInv /\ [Next]_vars => LedgerInv'
<1> SUFFICES ASSUME LedgerInv, [Next]_vars PROVE LedgerInv'
  OBVIOUS
<1> USE DEF ledgerVars, relayVars, reportVars, historyVars
<1>a. TypeOK /\ TypeOK'
  BY NextType DEF LedgerInv
<1>b. ASSUME UNCHANGED <<ledgerVars, bytes, pc, loaded, deltas, posted,
                         billed, historyVars>>
      PROVE  /\ CheckpointBehindCounter' /\ LoadedBetween' /\ PostingBetween'
             /\ Conservation'
  BY <1>b DEF LedgerInv, CheckpointBehindCounter, LoadedBetween, PostingBetween,
         Conservation, Pending, Checkpoint, AppliedNow, Amount
<1>1. ASSUME NEW s \in Session, Accept(s) PROVE LedgerInv'
  <2>1. ObjectsExist'
    BY <1>1 DEF Accept, LedgerInv, ObjectsExist, Put
  <2>2. QED
    BY <1>1, <1>a, <1>b, <2>1 DEF Accept, LedgerInv, PublishedCountersReported
<1>2. ASSUME NEW s \in Session, NEW u \in User, NEW n \in 1 .. MaxChunk,
             Authenticate(s, u, n)
      PROVE  LedgerInv'
  <2> DEFINE c == [user |-> u, gen |-> handshaking[s][u]]
  <2>1. c \in CounterObject
    BY <1>2, <1>a, UserTablesAreMaps DEF Authenticate, TypeOK, IsMap, CounterObject
  <2>2. Record(c, "up", n) /\ n \in Nat /\ "up" \in Dir
    BY <1>2, BoundsAssumption DEF Authenticate, Dir
  <2>3. c.gen <= created[c.user]
    BY <1>2 DEF Authenticate, LedgerInv, ObjectsExist
  <2>4. UNCHANGED <<ledgerVars, tables, pc, live, reportVars, billed, repeated>>
    BY <1>2 DEF Authenticate
  <2>5. /\ \A v \in User, g \in Gen : g > created'[v] => bytes'[v][g] = Zero
        /\ CheckpointBehindCounter' /\ LoadedBetween' /\ PostingBetween'
        /\ Conservation'
    BY <1>a, <2>1, <2>2, <2>3, <2>4, RecordLedger
  <2>6. \A t \in DOMAIN relaying' : relaying'[t].gen <= created'[relaying'[t].user]
    BY <1>2, <2>3, <2>4 DEF Authenticate, LedgerInv, ObjectsExist, Put
  <2>7. \A t \in DOMAIN handshaking' : \A v \in DOMAIN handshaking'[t] :
          handshaking'[t][v] <= created'[v]
    BY <1>2, <2>4 DEF Authenticate, LedgerInv, ObjectsExist, Without, Restrict
  <2>8. ObjectsExist'
    BY <2>4, <2>5, <2>6, <2>7 DEF LedgerInv, ObjectsExist
  <2>9. QED
    BY <1>a, <2>4, <2>5, <2>8 DEF LedgerInv, PublishedCountersReported
<1>3. ASSUME NEW s \in Session, NEW d \in Dir, NEW n \in 1 .. MaxChunk,
             Transfer(s, d, n)
      PROVE  LedgerInv'
  <2>1. relaying[s] \in CounterObject /\ Record(relaying[s], d, n) /\ n \in Nat
    BY <1>3, <1>a, BoundsAssumption DEF Transfer, TypeOK, IsMap
  <2>2. relaying[s].gen <= created[relaying[s].user]
    BY <1>3 DEF Transfer, LedgerInv, ObjectsExist
  <2>3. UNCHANGED <<ledgerVars, tables, relayVars, pc, live, reportVars, billed, repeated>>
    BY <1>3 DEF Transfer
  <2>4. /\ \A v \in User, g \in Gen : g > created'[v] => bytes'[v][g] = Zero
        /\ CheckpointBehindCounter' /\ LoadedBetween' /\ PostingBetween'
        /\ Conservation'
    BY <1>a, <2>1, <2>2, <2>3, RecordLedger
  <2>5. ObjectsExist'
    BY <2>3, <2>4 DEF LedgerInv, ObjectsExist
  <2>6. QED
    BY <1>a, <2>3, <2>4, <2>5 DEF LedgerInv, PublishedCountersReported
<1>4. ASSUME NEW s \in Session, Close(s) PROVE LedgerInv'
  <2>1. ObjectsExist'
    BY <1>4 DEF Close, LedgerInv, ObjectsExist, Without, Restrict
  <2>2. QED
    BY <1>4, <1>a, <1>b, <2>1 DEF Close, LedgerInv, PublishedCountersReported
<1>c. /\ \A u \in DOMAIN counters : u \in User /\ counters[u] \in Gen
      /\ \A u \in User, g \in Gen, d \in Dir : bytes[u][g][d] \in Nat
      /\ \A u \in User : created[u] \in Nat
      /\ \A u \in User, d \in Dir : /\ billed[u][d] \in Nat /\ relayed[u][d] \in Nat
                                    /\ repeated[u][d] \in Nat /\ forfeited[u][d] \in Nat
      /\ DOMAIN checkpoints = DOMAIN counters
      /\ Zero \in Tally
  BY <1>a DEF TypeOK, IsMap, Tally, LedgerInv, Zero
<1>d. \A u \in User, d \in Dir :
        /\ Checkpoint(u)[d] \in Nat /\ Pending(u, d) \in Nat
        /\ u \in DOMAIN counters =>
             Pending(u, d) = bytes[u][counters[u]][d] - Checkpoint(u)[d]
  BY <1>a, <1>c, PendingType, SaturatingSub DEF Pending, LedgerInv, CheckpointBehindCounter
<1>5. ASSUME NEW us \in SUBSET User, SyncPublish(us) PROVE LedgerInv'
  <2>1. /\ UNCHANGED <<bytes, relayVars, reportVars, billed, historyVars>>
        /\ pc = "idle" /\ pc' = "syncing" /\ live' = us /\ posted = "none"
    BY <1>5 DEF SyncPublish, LedgerInv, PostingBetween
  <2>2. /\ DOMAIN counters' = DOMAIN counters \cup us
        /\ \A u \in DOMAIN counters : counters'[u] = counters[u]
        /\ \A u \in us \ DOMAIN counters : counters'[u] = created[u] + 1
    BY <1>5 DEF SyncPublish, EnsureCounters
  <2>3. \A u \in User : created'[u] = IF u \in us \ DOMAIN counters
                                      THEN created[u] + 1 ELSE created[u]
    BY <1>5 DEF SyncPublish
  <2>4. DOMAIN tables' = us /\ \A u \in us : tables'[u] = counters'[u]
    BY <1>5, <2>2 DEF SyncPublish, CountersByUser, Restrict
  <2>5. /\ DOMAIN checkpoints' = DOMAIN counters'
        /\ \A u \in DOMAIN checkpoints' : checkpoints'[u] = Checkpoint(u)
    BY <1>5, <1>c, <2>2 DEF SyncPublish, EnsureCheckpoints
  <2>6. \A u \in User : Checkpoint(u)' = Checkpoint(u)
    BY <2>2, <2>5, <1>c DEF Checkpoint
  <2>7. ObjectsExist'
    <3>1. \A u \in DOMAIN counters' : counters'[u] = created'[u]
      BY <1>c, <2>2, <2>3 DEF LedgerInv, ObjectsExist
    <3>2. \A u \in DOMAIN tables' : tables'[u] <= created'[u]
      BY <1>c, <2>2, <2>3, <2>4, <3>1
    <3>3. \A u \in User : created[u] <= created'[u]
      BY <1>c, <2>3
    <3>4. \A s \in DOMAIN handshaking : \A u \in DOMAIN handshaking[s] :
            u \in User /\ handshaking[s][u] \in Gen
      BY <1>a, UserTablesAreMaps DEF TypeOK, IsMap
    <3>5. \A s \in DOMAIN relaying : relaying[s].user \in User /\ relaying[s].gen \in Gen
      BY <1>a DEF TypeOK, IsMap, CounterObject
    <3>6. \A u \in User : created'[u] \in Nat
      BY <1>c, <2>3
    <3>7. \A s \in DOMAIN handshaking' : \A u \in DOMAIN handshaking'[s] :
            handshaking'[s][u] <= created'[u]
      BY <1>c, <2>1, <3>3, <3>4, <3>6 DEF LedgerInv, ObjectsExist, Gen
    <3>8. \A s \in DOMAIN relaying' : relaying'[s].gen <= created'[relaying'[s].user]
      BY <1>c, <2>1, <3>3, <3>5, <3>6 DEF LedgerInv, ObjectsExist, Gen
    <3>9. \A u \in User, g \in Gen : g > created'[u] => bytes'[u][g] = Zero
      BY <1>c, <2>1, <3>3, <3>6 DEF LedgerInv, ObjectsExist, Gen
    <3>10. QED
      BY <3>1, <3>2, <3>7, <3>8, <3>9 DEF ObjectsExist
  <2>8. \A u \in us \ DOMAIN counters, d \in Dir :
          Checkpoint(u)[d] = 0 /\ bytes[u][counters'[u]][d] = 0
    <3>1. \A u \in us \ DOMAIN counters : Checkpoint(u) = Zero
      BY <1>c DEF Checkpoint
    <3>2. \A u \in us \ DOMAIN counters : counters'[u] \in Gen /\ counters'[u] > created[u]
      BY <1>a, <1>c, <2>2 DEF TypeOK, IsMap
    <3>3. QED
      BY <3>1, <3>2 DEF LedgerInv, ObjectsExist, Zero
  <2>9. CheckpointBehindCounter'
    BY <1>c, <1>d, <2>1, <2>2, <2>6, <2>8 DEF LedgerInv, CheckpointBehindCounter
  <2>10. \A u \in User, d \in Dir : Pending(u, d)' = Pending(u, d)
    BY <1>c, <2>1, <2>2, <2>6, <2>8 DEF Pending, Minus
  <2>11. Conservation'
    BY <2>1, <2>10 DEF LedgerInv, Conservation, AppliedNow, Amount
  <2>12. QED
    BY <1>a, <2>1, <2>2, <2>4, <2>5, <2>7, <2>9, <2>11
       DEF LedgerInv, PublishedCountersReported, LoadedBetween, PostingBetween
<1>6. CASE SyncRemoveStale
  <2>1. /\ UNCHANGED <<created, bytes, tables, relayVars, live, reportVars, billed,
                       relayed, repeated>>
        /\ pc = "syncing" /\ pc' = "idle" /\ posted = "none" /\ DOMAIN tables = live
    BY <1>6 DEF SyncRemoveStale, LedgerInv, PostingBetween
  <2>2. /\ DOMAIN counters' = DOMAIN counters \cap live
        /\ DOMAIN checkpoints' = DOMAIN counters'
        /\ \A u \in DOMAIN counters' : counters'[u] = counters[u]
                                       /\ checkpoints'[u] = checkpoints[u]
    BY <1>6, <1>c DEF SyncRemoveStale, RetainCounters, RetainCheckpoints, Restrict
  <2>3. \A u \in DOMAIN counters' : Checkpoint(u)' = Checkpoint(u)
    BY <1>c, <2>2 DEF Checkpoint
  <2>4. PublishedCountersReported'
    BY <2>1, <2>2 DEF LedgerInv, PublishedCountersReported
  <2>5. ObjectsExist'
    BY <2>1, <2>2 DEF LedgerInv, ObjectsExist
  <2>6. CheckpointBehindCounter'
    BY <2>1, <2>2, <2>3 DEF LedgerInv, CheckpointBehindCounter
  <2>7. \A u \in User, d \in Dir :
          Pending(u, d)' = IF u \in live THEN Pending(u, d) ELSE 0
    BY <2>1, <2>2, <2>3 DEF Pending
  <2>8. \A u \in User, d \in Dir :
          forfeited'[u][d] = forfeited[u][d] + IF u \in live THEN 0 ELSE Pending(u, d)
    BY <1>6 DEF SyncRemoveStale
  <2>9. Conservation'
    BY <1>c, <1>d, <2>1, <2>7, <2>8 DEF LedgerInv, Conservation, AppliedNow, Amount
  <2>10. QED
    BY <1>a, <2>1, <2>2, <2>4, <2>5, <2>6, <2>9
       DEF LedgerInv, LoadedBetween, PostingBetween
<1>7. CASE ReportBegin
  BY <1>7, <1>a, SamePending
     DEF ReportBegin, LedgerInv, PublishedCountersReported, ObjectsExist,
         CheckpointBehindCounter, LoadedBetween, PostingBetween, Conservation,
         AppliedNow, Amount, Checkpoint
<1>8. ASSUME NEW u \in User, NEW d \in Dir, LoadCounter(u, d) PROVE LedgerInv'
  <2>1. /\ UNCHANGED <<ledgerVars, bytes, tables, relayVars, pc, live, deltas,
                       posted, billed, historyVars>>
        /\ pc = "loading" /\ u \in DOMAIN counters
        /\ loaded' = [p \in DOMAIN loaded \cup {<<u, d>>} |->
                        IF p = <<u, d>> THEN bytes[u][counters[u]][d] ELSE loaded[p]]
    BY <1>8 DEF LoadCounter, Put
  <2>2. checkpoints[u][d] <= bytes[u][counters[u]][d]
    BY <1>c, <2>1 DEF LedgerInv, CheckpointBehindCounter, Checkpoint
  <2>3. LoadedBetween'
    BY <1>c, <2>1, <2>2 DEF LedgerInv, LoadedBetween
  <2>4. CheckpointBehindCounter' /\ PostingBetween' /\ Conservation'
    BY <2>1, SamePending
       DEF LedgerInv, CheckpointBehindCounter, PostingBetween, Conservation,
           AppliedNow, Amount, Checkpoint
  <2>5. QED
    BY <1>a, <2>1, <2>3, <2>4 DEF LedgerInv, PublishedCountersReported, ObjectsExist
<1>9. CASE Post
  <2>1. /\ UNCHANGED <<ledgerVars, bytes, tables, relayVars, live, billed, historyVars>>
        /\ pc = "loading" /\ posted = "none" /\ pc' # "loading" /\ pc' # "syncing"
        /\ pc' # "posting" => posted' = "none"
        /\ posted' # "applied" /\ deltas' = PendingDeltas
    BY <1>9 DEF Post, LedgerInv, PostingBetween
  <2>2. ASSUME NEW u \in DOMAIN counters, NEW d \in Dir
        PROVE  /\ loaded[<<u, d>>] \in Nat
               /\ checkpoints[u][d] <= loaded[<<u, d>>]
               /\ loaded[<<u, d>>] <= bytes[u][counters[u]][d]
    BY <1>9, <1>a, <1>c, <2>1, <2>2 DEF Post, LedgerInv, LoadedBetween, TypeOK, IsMap
  <2>3. ASSUME NEW u \in DOMAIN deltas', NEW d \in Dir
        PROVE  /\ u \in DOMAIN counters
               /\ deltas'[u].checkpoint[d] = loaded[<<u, d>>]
               /\ deltas'[u].delta[d] = Minus(loaded[<<u, d>>], checkpoints[u][d])
    BY <1>c, <2>1, <2>3 DEF PendingDeltas, DeltaOf, Checkpoint
  <2>4. \A u \in DOMAIN counters, d \in Dir : checkpoints[u][d] \in Nat
    BY <1>c, <1>d DEF Checkpoint
  <2>5. ASSUME NEW u \in DOMAIN deltas', NEW d \in Dir
        PROVE  checkpoints[u][d] + deltas'[u].delta[d] = deltas'[u].checkpoint[d]
    <3>1. u \in DOMAIN counters
      BY <2>3, <2>5
    <3>2. /\ loaded[<<u, d>>] \in Nat /\ checkpoints[u][d] \in Nat
          /\ checkpoints[u][d] <= loaded[<<u, d>>]
      BY <2>2, <2>4, <3>1
    <3>3. deltas'[u].delta[d] = loaded[<<u, d>>] - checkpoints[u][d]
      BY <2>3, <2>5, <3>2, SaturatingSub
    <3>4. QED
      BY <2>3, <2>5, <3>2, <3>3
  <2>6. PostingBetween'
    <3>1. ASSUME NEW u \in DOMAIN deltas', NEW d \in Dir
          PROVE  /\ u \in DOMAIN counters'
                 /\ checkpoints'[u][d] + deltas'[u].delta[d] = deltas'[u].checkpoint[d]
                 /\ deltas'[u].checkpoint[d] <= bytes'[u][counters'[u]][d]
      <4>1. u \in DOMAIN counters /\ deltas'[u].checkpoint[d] = loaded[<<u, d>>]
        BY <2>3, <3>1
      <4>2. loaded[<<u, d>>] <= bytes[u][counters[u]][d]
        BY <2>2, <4>1
      <4>3. QED
        BY <2>1, <2>5, <3>1, <4>1, <4>2
    <3>2. QED
      BY <2>1, <3>1 DEF PostingBetween
  <2>7. Conservation'
    BY <2>1, SamePending DEF LedgerInv, Conservation, AppliedNow
  <2>8. CheckpointBehindCounter' /\ LoadedBetween'
    BY <2>1 DEF LedgerInv, CheckpointBehindCounter, Checkpoint, LoadedBetween
  <2>9. QED
    BY <1>a, <2>1, <2>6, <2>7, <2>8 DEF LedgerInv, PublishedCountersReported, ObjectsExist
<1>10. CASE PanelApply
  <2>1. /\ UNCHANGED <<ledgerVars, bytes, tables, relayVars, pc, live, loaded,
                       deltas, historyVars>>
        /\ pc = "posting" /\ posted = "sent" /\ posted' = "applied"
        /\ billed' = AddReport(billed, deltas)
    BY <1>10 DEF PanelApply
  <2>2. \A u \in User, d \in Dir : /\ Amount(deltas, u, d) \in Nat
                                   /\ billed'[u][d] = billed[u][d] + Amount(deltas, u, d)
    BY <1>a, <2>1, AddReportType DEF TypeOK
  <2>3. \A u \in User, d \in Dir :
          AppliedNow(u, d) = 0 /\ AppliedNow(u, d)' = Amount(deltas, u, d)
    BY <2>1 DEF AppliedNow, Amount
  <2>4. Conservation'
    BY <1>c, <1>d, <2>1, <2>2, <2>3, SamePending DEF LedgerInv, Conservation
  <2>5. CheckpointBehindCounter' /\ LoadedBetween' /\ PostingBetween'
    BY <2>1 DEF LedgerInv, CheckpointBehindCounter, Checkpoint, LoadedBetween, PostingBetween
  <2>6. QED
    BY <1>a, <2>1, <2>4, <2>5 DEF LedgerInv, PublishedCountersReported, ObjectsExist
<1>11. CASE ReportAck
  <2>1. /\ UNCHANGED <<counters, created, bytes, tables, relayVars, live, loaded,
                       billed, historyVars>>
        /\ pc = "posting" /\ posted = "applied" /\ posted' = "none" /\ pc' = "idle"
        /\ checkpoints' = MarkReported
    BY <1>11 DEF ReportAck
  <2>2. /\ DOMAIN deltas \subseteq DOMAIN counters
        /\ \A u \in DOMAIN deltas, d \in Dir :
             /\ checkpoints[u][d] + deltas[u].delta[d] = deltas[u].checkpoint[d]
             /\ deltas[u].checkpoint[d] <= bytes[u][counters[u]][d]
             /\ deltas[u].delta[d] \in Nat /\ deltas[u].checkpoint[d] \in Nat
    <3>1. DOMAIN deltas \subseteq DOMAIN counters
      BY <2>1 DEF LedgerInv, PostingBetween, Dir
    <3>2. \A u \in DOMAIN deltas, d \in Dir :
            deltas[u].delta[d] \in Nat /\ deltas[u].checkpoint[d] \in Nat
      BY <1>a DEF TypeOK, IsMap, TrafficDelta, Tally
    <3>3. QED
      BY <2>1, <3>1, <3>2 DEF LedgerInv, PostingBetween
  <2>3. /\ DOMAIN checkpoints' = DOMAIN counters'
        /\ \A u \in DOMAIN counters : Checkpoint(u)' =
             IF u \in DOMAIN deltas THEN deltas[u].checkpoint ELSE Checkpoint(u)
    BY <1>c, <2>1, <2>2 DEF MarkReported, Checkpoint
  <2>4. CheckpointBehindCounter'
    BY <2>1, <2>2, <2>3 DEF LedgerInv, CheckpointBehindCounter
  <2>5. ASSUME NEW u \in User, NEW d \in Dir
        PROVE  Pending(u, d)' \in Nat /\ Pending(u, d)' + Amount(deltas, u, d) = Pending(u, d)
    <3>1. CASE u \in DOMAIN deltas
      <4>1. /\ u \in DOMAIN counters /\ Checkpoint(u) = checkpoints[u]
            /\ Amount(deltas, u, d) = deltas[u].delta[d]
        BY <1>c, <2>2, <3>1 DEF Amount, Checkpoint
      <4>2. Pending(u, d)' = bytes[u][counters[u]][d] - deltas[u].checkpoint[d]
        BY <1>c, <2>1, <2>2, <2>3, <3>1, <4>1, SaturatingSub DEF Pending
      <4>3. QED
        BY <1>c, <1>d, <2>2, <3>1, <4>1, <4>2
    <3>2. CASE u \notin DOMAIN deltas
      BY <1>d, <2>1, <2>3, <3>2 DEF Pending, Amount
    <3>3. QED
      BY <3>1, <3>2
  <2>6. \A u \in User, d \in Dir : /\ AppliedNow(u, d) = Amount(deltas, u, d)
                                   /\ AppliedNow(u, d)' = 0
                                   /\ Amount(deltas, u, d) \in Nat
    <3>1. repeated \in [User -> Tally] /\ IsMap(deltas, User, TrafficDelta)
      BY <1>a DEF TypeOK
    <3>2. \A u \in User, d \in Dir : Amount(deltas, u, d) \in Nat
      BY <3>1, AddReportType
    <3>3. QED
      BY <2>1, <3>2 DEF AppliedNow
  <2>7. Conservation'
    <3> SUFFICES ASSUME NEW u \in User, NEW d \in Dir
                 PROVE  billed[u][d] + Pending(u, d)' + forfeited[u][d]
                          = relayed[u][d] + repeated[u][d] + AppliedNow(u, d)'
      BY <2>1 DEF Conservation
    <3>1. billed[u][d] + Pending(u, d) + forfeited[u][d]
            = relayed[u][d] + repeated[u][d] + AppliedNow(u, d)
      BY DEF LedgerInv, Conservation
    <3>2. /\ billed[u][d] \in Nat /\ relayed[u][d] \in Nat
          /\ repeated[u][d] \in Nat /\ forfeited[u][d] \in Nat
          /\ Pending(u, d) \in Nat
      BY <1>c, <1>d
    <3>3. /\ AppliedNow(u, d) = Amount(deltas, u, d) /\ AppliedNow(u, d)' = 0
          /\ Amount(deltas, u, d) \in Nat /\ Pending(u, d)' \in Nat
          /\ Pending(u, d)' + Amount(deltas, u, d) = Pending(u, d)
      BY <2>5, <2>6
    <3>4. QED
      BY <3>1, <3>2, <3>3
  <2>8. QED
    BY <1>a, <2>1, <2>3, <2>4, <2>7
       DEF LedgerInv, PublishedCountersReported, ObjectsExist, LoadedBetween, PostingBetween
<1>12. CASE ReportFail
  <2>1. /\ UNCHANGED <<ledgerVars, bytes, tables, relayVars, live, loaded,
                       billed, relayed, forfeited>>
        /\ pc = "posting" /\ posted' = "none" /\ pc' = "idle"
    BY <1>12 DEF ReportFail, CheckpointsOnFail
  <2>2. \A u \in User, d \in Dir :
          repeated'[u][d] = repeated[u][d] + AppliedNow(u, d) /\ AppliedNow(u, d)' = 0
    <3>1. CASE posted = "sent" /\ UNCHANGED repeated
      BY <1>c, <2>1, <3>1 DEF AppliedNow
    <3>2. CASE posted = "applied" /\ repeated' = AddReport(repeated, deltas)
      <4>1. repeated \in [User -> Tally] /\ IsMap(deltas, User, TrafficDelta)
        BY <1>a DEF TypeOK
      <4>2. \A u \in User, d \in Dir :
              repeated'[u][d] = repeated[u][d] + Amount(deltas, u, d)
        BY <3>2, <4>1, AddReportType
      <4>3. \A u \in User, d \in Dir :
              AppliedNow(u, d) = Amount(deltas, u, d) /\ AppliedNow(u, d)' = 0
        BY <2>1, <3>2 DEF AppliedNow
      <4>4. QED
        BY <4>2, <4>3
    <3>3. QED
      BY <1>12, <3>1, <3>2 DEF ReportFail
  <2>3. \A u \in User, d \in Dir : AppliedNow(u, d) \in Nat
    <3>1. repeated \in [User -> Tally] /\ IsMap(deltas, User, TrafficDelta)
      BY <1>a DEF TypeOK
    <3>2. \A u \in User, d \in Dir : Amount(deltas, u, d) \in Nat
      BY <3>1, AddReportType
    <3>3. QED
      BY <3>2 DEF AppliedNow
  <2>4. Conservation'
    BY <1>c, <1>d, <2>1, <2>2, <2>3, SamePending DEF LedgerInv, Conservation
  <2>5. CheckpointBehindCounter' /\ LoadedBetween' /\ PostingBetween'
    BY <2>1 DEF LedgerInv, CheckpointBehindCounter, Checkpoint, LoadedBetween, PostingBetween
  <2>6. QED
    BY <1>a, <2>1, <2>4, <2>5 DEF LedgerInv, PublishedCountersReported, ObjectsExist
<1>13. ASSUME NEW r \in late, PanelApplyLate(r) PROVE LedgerInv'
  <2>1. /\ UNCHANGED <<ledgerVars, bytes, tables, relayVars, pc, live, loaded,
                       deltas, posted, relayed, forfeited>>
        /\ billed' = AddReport(billed, r[2]) /\ repeated' = AddReport(repeated, r[2])
    BY <1>13 DEF PanelApplyLate
  <2>2. \A u \in User, d \in Dir :
          /\ Amount(r[2], u, d) \in Nat
          /\ billed'[u][d] = billed[u][d] + Amount(r[2], u, d)
          /\ repeated'[u][d] = repeated[u][d] + Amount(r[2], u, d)
    <3>1. IsMap(r[2], User, TrafficDelta)
      BY <1>a DEF TypeOK
    <3>2. billed \in [User -> Tally] /\ repeated \in [User -> Tally]
      BY <1>a DEF TypeOK
    <3>3. QED
      BY <2>1, <3>1, <3>2, AddReportType
  <2>3. \A u \in User, d \in Dir :
          AppliedNow(u, d)' = AppliedNow(u, d) /\ AppliedNow(u, d) \in Nat
    BY <1>a, <2>1, AddReportType DEF AppliedNow, Amount, TypeOK
  <2>4. Conservation'
    <3> SUFFICES ASSUME NEW u \in User, NEW d \in Dir
                 PROVE  billed'[u][d] + Pending(u, d) + forfeited[u][d]
                          = relayed[u][d] + repeated'[u][d] + AppliedNow(u, d)
      BY <2>1, <2>3, SamePending DEF Conservation
    <3>1. billed[u][d] + Pending(u, d) + forfeited[u][d]
            = relayed[u][d] + repeated[u][d] + AppliedNow(u, d)
      BY DEF LedgerInv, Conservation
    <3>2. /\ billed[u][d] \in Nat /\ relayed[u][d] \in Nat
          /\ repeated[u][d] \in Nat /\ forfeited[u][d] \in Nat
          /\ Pending(u, d) \in Nat
      BY <1>c, <1>d
    <3>3. PICK k \in Nat : /\ billed'[u][d] = billed[u][d] + k
                           /\ repeated'[u][d] = repeated[u][d] + k
      BY <2>2
    <3>4. AppliedNow(u, d) \in Nat
      BY <2>3
    <3> DEFINE b == billed[u][d]   p == Pending(u, d)   f == forfeited[u][d]
               l == relayed[u][d]  q == repeated[u][d]  a == AppliedNow(u, d)
    <3>5. /\ b \in Nat /\ p \in Nat /\ f \in Nat /\ l \in Nat /\ q \in Nat
          /\ a \in Nat /\ b + p + f = l + q + a
      BY <3>1, <3>2, <3>4
    <3> HIDE DEF b, p, f, l, q, a
    <3>6. (b + k) + p + f = l + (q + k) + a
      BY <3>5
    <3>7. QED
      BY <3>3, <3>6 DEF b, p, f, l, q, a
  <2>5. CheckpointBehindCounter' /\ LoadedBetween' /\ PostingBetween'
    BY <2>1 DEF LedgerInv, CheckpointBehindCounter, Checkpoint, LoadedBetween, PostingBetween
  <2>6. QED
    BY <1>a, <2>1, <2>4, <2>5 DEF LedgerInv, PublishedCountersReported, ObjectsExist
<1>14. CASE UNCHANGED vars
  BY <1>14, <1>a, <1>b DEF vars, LedgerInv, PublishedCountersReported, ObjectsExist
<1>15. QED
  BY <1>1, <1>2, <1>3, <1>4, <1>5, <1>6, <1>7, <1>8, <1>9, <1>10, <1>11,
     <1>12, <1>13, <1>14 DEF Next, Relay, Sync, Report, Panel

\* The accounting invariant holds in every reachable state.
THEOREM LedgerInvariant == Spec => []LedgerInv
BY InitLedger, NextLedger, PTL DEF Spec

\* Exact accounting for any number of users, relay tasks, syncs, failed and
\* late reports: bytes are billed, pending, or forfeited with a dropped
\* counter, and only a lost acknowledgement bills one again (pending_deltas,
\* mark_reported, remove_stale_users).
THEOREM ConservationHolds == Spec => []Conservation
<1>1. LedgerInv => Conservation
  BY DEF LedgerInv
<1>2. QED
  BY <1>1, LedgerInvariant, PTL

\* The saturating_sub of pending_deltas never saturates.
THEOREM CheckpointBehindCounterHolds == Spec => []CheckpointBehindCounter
<1>1. LedgerInv => CheckpointBehindCounter
  BY DEF LedgerInv
<1>2. QED
  BY <1>1, LedgerInvariant, PTL

\* Tables published by sync_users only hold counters the ledger reports.
THEOREM PublishedCountersReportedHolds == Spec => []PublishedCountersReported
<1>1. LedgerInv => PublishedCountersReported
  BY DEF LedgerInv
<1>2. QED
  BY <1>1, LedgerInvariant, PTL

\* While a user stays listed its counter object is kept, and only an
\* acknowledged report moves its checkpoint, forward (mark_reported; the early
\* return of report_traffic; ensure_user).
THEOREM CheckpointMonotoneHolds == Spec => CheckpointMonotone
<1> DEFINE Kept(u) == /\ counters'[u] = counters[u]
                      /\ \A d \in Dir : Checkpoint(u)[d] <= Checkpoint(u)'[d]
                      /\ Checkpoint(u)' # Checkpoint(u) => posted = "applied"
<1>1. LedgerInv /\ [Next]_vars
        => [\A u \in DOMAIN counters \cap DOMAIN counters' : Kept(u)]_vars
  <2> SUFFICES ASSUME LedgerInv, [Next]_vars, NEW u \in DOMAIN counters \cap DOMAIN counters'
               PROVE  Kept(u)
    OBVIOUS
  <2> USE DEF ledgerVars, relayVars, reportVars, historyVars
  <2>1. u \in User /\ \A d \in Dir : Checkpoint(u)[d] \in Nat
    BY PendingType DEF LedgerInv, TypeOK, IsMap
  <2>2. ASSUME UNCHANGED <<counters, checkpoints>> PROVE Kept(u)
    BY <2>1, <2>2 DEF Checkpoint
  <2>3. ASSUME NEW us \in SUBSET User, SyncPublish(us) PROVE Kept(u)
    <3>1. counters'[u] = counters[u] /\ Checkpoint(u)' = Checkpoint(u)
      BY <2>3 DEF SyncPublish, EnsureCounters, EnsureCheckpoints, Checkpoint, LedgerInv
    <3>2. QED
      BY <2>1, <3>1
  <2>4. CASE SyncRemoveStale
    <3>1. counters'[u] = counters[u] /\ Checkpoint(u)' = Checkpoint(u)
      BY <2>4 DEF SyncRemoveStale, RetainCounters, RetainCheckpoints, Restrict,
                  Checkpoint, LedgerInv
    <3>2. QED
      BY <2>1, <3>1
  <2>5. CASE ReportAck
    <3>1. counters'[u] = counters[u] /\ posted = "applied" /\ pc = "posting"
          /\ checkpoints' = MarkReported
      BY <2>5 DEF ReportAck
    <3>2. CASE u \in DOMAIN deltas
      <4>1. Checkpoint(u)' = deltas[u].checkpoint /\ Checkpoint(u) = checkpoints[u]
        BY <3>1, <3>2 DEF MarkReported, Checkpoint, LedgerInv
      <4>2. \A d \in Dir : checkpoints[u][d] + deltas[u].delta[d] = deltas[u].checkpoint[d]
        BY <3>1, <3>2 DEF LedgerInv, PostingBetween
      <4>3. \A d \in Dir : deltas[u].delta[d] \in Nat
        BY <3>2 DEF LedgerInv, TypeOK, IsMap, TrafficDelta, Tally
      <4>4. \A d \in Dir : checkpoints[u][d] <= deltas[u].checkpoint[d]
        BY <2>1, <4>1, <4>2, <4>3
      <4>5. QED
        BY <3>1, <4>1, <4>4
    <3>3. CASE u \notin DOMAIN deltas
      BY <2>1, <3>1, <3>3 DEF MarkReported, Checkpoint, LedgerInv
    <3>4. QED
      BY <3>2, <3>3
  <2>6. CASE \E s \in Session :
               \/ Accept(s)
               \/ \E v \in User, n \in 1 .. MaxChunk : Authenticate(s, v, n)
               \/ \E d \in Dir, n \in 1 .. MaxChunk : Transfer(s, d, n)
               \/ Close(s)
    BY <2>2, <2>6 DEF Accept, Authenticate, Transfer, Close
  <2>7. CASE \/ ReportBegin \/ Post \/ ReportFail \/ PanelApply
             \/ \E v \in User, d \in Dir : LoadCounter(v, d)
             \/ \E r \in late : PanelApplyLate(r)
    BY <2>2, <2>7 DEF ReportBegin, Post, ReportFail, CheckpointsOnFail, PanelApply,
                      LoadCounter, PanelApplyLate
  <2>8. CASE UNCHANGED vars
    BY <2>2, <2>8 DEF vars
  <2>9. QED
    BY <2>3, <2>4, <2>5, <2>6, <2>7, <2>8 DEF Next, Relay, Sync, Report, Panel
<1>2. QED
  BY <1>1, LedgerInvariant, PTL DEF Spec, CheckpointMonotone

----------------------------------------------------------------------------
(* Traffic implements Billing. *)

\* Requests the node gave up on have numbers of their own, all used up: the
\* panel gets each of them at most once.
RequestsNumbered ==
  /\ \A r \in late : r[1] <= fails
  /\ \A r, q \in late : r[1] = q[1] => r = q

\* Giving up on a request takes the next number.
LEMMA NextNumbered ==
  TypeOK /\ RequestsNumbered /\ [Next]_vars => RequestsNumbered'
<1> SUFFICES ASSUME TypeOK, RequestsNumbered, [Next]_vars PROVE RequestsNumbered'
  OBVIOUS
<1> USE DEF ledgerVars, relayVars, reportVars, historyVars
<1>1. fails \in Nat /\ \A r \in late : r[1] \in Nat
  BY BoundsAssumption DEF TypeOK
<1>2. CASE UNCHANGED <<late, fails>>
  BY <1>2 DEF RequestsNumbered
<1>3. CASE ReportFail
  <2>1. /\ fails' = fails + 1
        /\ late' = late \/ late' = late \cup {<<fails + 1, deltas>>}
    BY <1>3 DEF ReportFail
  <2>2. QED
    BY <1>1, <2>1 DEF RequestsNumbered
<1>4. ASSUME NEW r \in late, PanelApplyLate(r) PROVE RequestsNumbered'
  BY <1>4 DEF PanelApplyLate, RequestsNumbered
<1>5. CASE Relay
  BY <1>2, <1>5 DEF Relay, Accept, Authenticate, Transfer, Close
<1>6. CASE Sync
  BY <1>2, <1>6 DEF Sync, SyncRemoveStale, SyncPublish
<1>7. CASE \/ ReportBegin \/ Post \/ ReportAck \/ PanelApply
           \/ \E u \in User, d \in Dir : LoadCounter(u, d)
  BY <1>2, <1>7 DEF ReportBegin, Post, ReportAck, PanelApply, LoadCounter
<1>8. CASE UNCHANGED vars
  BY <1>2, <1>8 DEF vars
<1>9. QED
  BY <1>3, <1>4, <1>5, <1>6, <1>7, <1>8 DEF Next, Report, Panel

\* What the refinement rests on.
BillingInv == LedgerInv /\ RequestsNumbered

\* It holds in every reachable state.
THEOREM BillingInvariant == Spec => []BillingInv
<1>1. Init => BillingInv
  BY InitLedger DEF Init, BillingInv, RequestsNumbered
<1>2. BillingInv /\ [Next]_vars => BillingInv'
  BY NextLedger, NextNumbered DEF BillingInv, LedgerInv
<1>3. QED
  BY <1>1, <1>2, PTL DEF Spec

----------------------------------------------------------------------------
(* The refinement mapping. *)

\* What is owed was used, or charged twice, and neither charged nor forfeited.
OwedBalances ==
  /\ Owed \in [User -> Tally] /\ Unacked \in [User -> Tally]
  /\ billed \in [User -> Tally] /\ forfeited \in [User -> Tally]
  /\ relayed \in [User -> Tally] /\ repeated \in [User -> Tally]
  /\ \A u \in User, d \in Dir :
       Owed[u][d] + billed[u][d] + forfeited[u][d] = relayed[u][d] + repeated[u][d]

\* A report in the making asks for no more than is pending, so what is owed is
\* a difference.
LEMMA OwedOf ==
  ASSUME LedgerInv, NEW u \in User, NEW d \in Dir
  PROVE  /\ AppliedNow(u, d) \in Nat /\ Owed[u][d] \in Nat
         /\ pc = "posting" => Amount(deltas, u, d) \in Nat /\ Amount(deltas, u, d) <= Pending(u, d)
         /\ Owed[u][d] = Pending(u, d) - AppliedNow(u, d)
         /\ Owed[u][d] + billed[u][d] + forfeited[u][d]
              = relayed[u][d] + repeated[u][d]
<1>1. TypeOK
  BY DEF LedgerInv
<1>2. /\ Pending(u, d) \in Nat /\ Checkpoint(u)[d] \in Nat
      /\ billed[u][d] \in Nat /\ forfeited[u][d] \in Nat
      /\ relayed[u][d] \in Nat /\ repeated[u][d] \in Nat
  BY <1>1, PendingType DEF TypeOK, Tally
<1>3. Amount(deltas, u, d) \in Nat
  BY <1>1, AddReportType DEF TypeOK
<1>4. AppliedNow(u, d) \in Nat
  BY <1>3 DEF AppliedNow
<1>5. pc = "posting" => Amount(deltas, u, d) <= Pending(u, d)
  <2>1. CASE pc = "posting" /\ u \in DOMAIN deltas
    <3>1. /\ u \in DOMAIN counters /\ Checkpoint(u) = checkpoints[u]
          /\ checkpoints[u][d] + deltas[u].delta[d] = deltas[u].checkpoint[d]
          /\ deltas[u].checkpoint[d] <= bytes[u][counters[u]][d]
      BY <2>1 DEF LedgerInv, PostingBetween, Checkpoint
    <3>2. /\ bytes[u][counters[u]][d] \in Nat
          /\ deltas[u].delta[d] \in Nat /\ deltas[u].checkpoint[d] \in Nat
      BY <1>1, <2>1, <3>1 DEF TypeOK, IsMap, TrafficDelta, Tally
    <3>3. Pending(u, d) = bytes[u][counters[u]][d] - checkpoints[u][d]
      <4>1. checkpoints[u][d] \in Nat
        BY <1>2, <3>1
      <4>2. checkpoints[u][d] <= bytes[u][counters[u]][d]
        BY <3>1, <3>2, <4>1
      <4>3. Minus(bytes[u][counters[u]][d], checkpoints[u][d])
              = bytes[u][counters[u]][d] - checkpoints[u][d]
        BY <3>2, <4>1, <4>2, SaturatingSub
      <4>4. QED
        BY <3>1, <4>3 DEF Pending
    <3>4. QED
      BY <1>2, <2>1, <3>1, <3>2, <3>3 DEF Amount
  <2>2. CASE u \notin DOMAIN deltas
    BY <1>2, <2>2 DEF Amount
  <2>3. QED
    BY <2>1, <2>2
<1>6. AppliedNow(u, d) <= Pending(u, d)
  BY <1>2, <1>5 DEF AppliedNow, LedgerInv, PostingBetween
<1>7. Owed[u][d] = Pending(u, d) - AppliedNow(u, d)
  BY <1>2, <1>4, <1>6, SaturatingSub DEF Owed
<1>8. billed[u][d] + Pending(u, d) + forfeited[u][d]
        = relayed[u][d] + repeated[u][d] + AppliedNow(u, d)
  BY DEF LedgerInv, Conservation
<1>9. QED
  BY <1>2, <1>3, <1>4, <1>5, <1>6, <1>7, <1>8

\* The same for all users at once.
LEMMA OwedBalance == LedgerInv => OwedBalances
<1> SUFFICES ASSUME LedgerInv PROVE OwedBalances
  OBVIOUS
<1>1. \A u \in User, d \in Dir : AppliedNow(u, d) \in Nat /\ Owed[u][d] \in Nat
  BY OwedOf
<1>2. Unacked \in [User -> Tally]
  BY <1>1 DEF Unacked, Tally
<1>3. Owed \in [User -> Tally]
  <2>1. \A u \in User, d \in Dir : Minus(Pending(u, d), AppliedNow(u, d)) \in Nat
    BY <1>1 DEF Owed
  <2>2. QED
    BY <2>1 DEF Owed, Tally
<1>4. QED
  BY <1>2, <1>3, OwedOf DEF OwedBalances, LedgerInv, TypeOK

\* And in the next state.
LEMMA OwedBalanceNext == LedgerInv' => OwedBalances'
BY OwedBalance, PTL

\* Two tables of tallies with the same entries are the same.
LEMMA SameTallies ==
  ASSUME NEW f \in [User -> Tally], NEW g \in [User -> Tally],
         \A u \in User, d \in Dir : f[u][d] = g[u][d]
  PROVE  f = g
<1>1. \A u \in User : f[u] = g[u]
  BY DEF Tally
<1>2. QED
  BY <1>1

\* What is owed changes with what is used, billed, repeated and forfeited.
LEMMA OwedChange ==
  ASSUME OwedBalances, OwedBalances', NEW u \in User, NEW d \in Dir,
         NEW b \in Nat, NEW f \in Nat, NEW r \in Nat, NEW q \in Nat,
         billed'[u][d] = billed[u][d] + b, forfeited'[u][d] = forfeited[u][d] + f,
         relayed'[u][d] = relayed[u][d] + r, repeated'[u][d] = repeated[u][d] + q
  PROVE  Owed[u][d] \in Nat /\ Owed'[u][d] \in Nat /\ Owed'[u][d] + b + f = Owed[u][d] + r + q
<1> DEFINE x == Owed[u][d]  y == Owed'[u][d]
           B == billed[u][d]  F == forfeited[u][d]  R == relayed[u][d]  Q == repeated[u][d]
<1>1. x \in Nat /\ y \in Nat /\ B \in Nat /\ F \in Nat /\ R \in Nat /\ Q \in Nat
  BY DEF OwedBalances, Tally
<1>2. x + B + F = R + Q
  BY DEF OwedBalances
<1>3. y + (B + b) + (F + f) = (R + r) + (Q + q)
  <2>1. y + billed'[u][d] + forfeited'[u][d] = relayed'[u][d] + repeated'[u][d]
    BY DEF OwedBalances
  <2>2. QED
    BY <2>1
<1> HIDE DEF x, y, B, F, R, Q
<1>4. y + b + f = x + r + q
  BY <1>1, <1>2, <1>3
<1>5. QED
  BY <1>1, <1>4 DEF x, y

\* The tally of an applied report is empty when there is none.
LEMMA NothingUnacked == posted # "applied" => Unacked = Bill!Nothing
BY DEF Unacked, AppliedNow, Bill!Nothing

\* Bytes counted into the ledger are owed, others are not.
LEMMA RecordOwed ==
  ASSUME OwedBalances, OwedBalances', NEW c \in CounterObject, NEW d \in Dir,
         NEW n \in Nat, Record(c, d, n), UNCHANGED <<billed, repeated>>
  PROVE  \A u \in User, e \in Dir :
           /\ Owed[u][e] \in Nat
           /\ Owed'[u][e] = Owed[u][e] + (IF InLedger(c) /\ u = c.user /\ e = d
                                        THEN n ELSE 0)
<1> SUFFICES ASSUME NEW u \in User, NEW e \in Dir
             PROVE  /\ Owed[u][e] \in Nat
                    /\ Owed'[u][e] = Owed[u][e] + (IF InLedger(c) /\ u = c.user /\ e = d
                                                 THEN n ELSE 0)
  OBVIOUS
<1> DEFINE k == IF u = c.user /\ e = d THEN n ELSE 0
           f == IF InLedger(c) THEN 0 ELSE k
<1>1. c.user \in User
  BY DEF CounterObject
<1>2. relayed'[u][e] = relayed[u][e] + k /\ forfeited'[u][e] = forfeited[u][e] + f
  BY <1>1 DEF Record, OwedBalances, Tally
<1>3. k \in Nat /\ f \in Nat
  OBVIOUS
<1> HIDE DEF k, f
<1> DEFINE x == Owed[u][e]  y == Owed'[u][e]
           B == billed[u][e]  F == forfeited[u][e]  R == relayed[u][e]  Q == repeated[u][e]
<1>4. x \in Nat /\ y \in Nat /\ B \in Nat /\ F \in Nat /\ R \in Nat /\ Q \in Nat
  BY DEF OwedBalances, Tally
<1>5. x + B + F = R + Q /\ y + B + (F + f) = (R + k) + Q
  BY <1>2 DEF OwedBalances
<1> HIDE DEF x, y, B, F, R, Q
<1>6. y + f = x + k
  BY <1>3, <1>4, <1>5
<1>7. y = x + (IF InLedger(c) THEN k ELSE 0)
  BY <1>3, <1>4, <1>6 DEF f
<1>8. QED
  BY <1>3, <1>4, <1>7 DEF k, x, y

\* Counting bytes is using them, or, in an object the ledger no longer has,
\* nothing at all.
LEMMA RecordBills ==
  ASSUME LedgerInv, LedgerInv', NEW c \in CounterObject, NEW d \in Dir, NEW n \in Nat \ {0},
         Record(c, d, n), UNCHANGED <<billed, repeated, deltas, posted, late>>
  PROVE  Bill!Use(c.user, d) \/ UNCHANGED Bill!vars
<1>1. c.user \in User
  BY DEF CounterObject
<1>a. OwedBalances /\ OwedBalances'
  BY OwedBalance, OwedBalanceNext
<1>2. \A u \in User, e \in Dir :
        /\ Owed[u][e] \in Nat
        /\ Owed'[u][e] = Owed[u][e] + (IF InLedger(c) /\ u = c.user /\ e = d
                                     THEN n ELSE 0)
  BY <1>a, RecordOwed
<1>3. Unacked' = Unacked /\ Doubt' = Doubt /\ billed' = billed
  BY DEF Unacked, AppliedNow, Amount, Doubt
<1>4. CASE InLedger(c)
  <2>1. Owed'[c.user][d] > Owed[c.user][d]
    BY <1>1, <1>2, <1>4
  <2>2. Owed \in [User -> Tally] /\ Owed' \in [User -> Tally]
    BY <1>a DEF OwedBalances
  <2> DEFINE after == [Owed EXCEPT ![c.user][d] = Owed'[c.user][d]]
  <2>3. after \in [User -> Tally]
    BY <1>1, <2>2 DEF Tally
  <2>4. \A u \in User, e \in Dir : Owed'[u][e] = after[u][e]
    BY <1>1, <1>2, <2>2 DEF Tally
  <2>5. Owed' = after
    <3> HIDE DEF after
    <3>1. QED
      BY <2>2, <2>3, <2>4, SameTallies
  <2>6. QED
    BY <1>3, <2>1, <2>5 DEF Bill!Use
<1>5. CASE ~InLedger(c)
  <2>1. \A u \in User, e \in Dir : Owed'[u][e] = Owed[u][e]
    BY <1>2, <1>5
  <2>2. Owed' = Owed
    BY <1>a, <2>1, SameTallies DEF OwedBalances
  <2>3. QED
    BY <1>3, <2>2 DEF Bill!vars
<1>6. QED
  BY <1>4, <1>5

\* Every step of Traffic is a step of Billing, or none.
LEMMA NextBills ==
  BillingInv /\ LedgerInv' /\ [Next]_vars => [Bill!Next]_(Bill!vars)
<1> SUFFICES ASSUME BillingInv, LedgerInv', [Next]_vars
             PROVE  [Bill!Next]_(Bill!vars)
  OBVIOUS
<1> USE DEF ledgerVars, relayVars, reportVars, historyVars
<1>a. LedgerInv /\ TypeOK /\ OwedBalances /\ OwedBalances'
  BY OwedBalance, OwedBalanceNext DEF BillingInv, LedgerInv
<1>b. /\ Owed \in [User -> Tally] /\ Owed' \in [User -> Tally]
      /\ Unacked \in [User -> Tally] /\ Unacked' \in [User -> Tally]
  BY <1>a DEF OwedBalances
<1>c. ASSUME UNCHANGED <<billed, historyVars>> PROVE Owed' = Owed
  <2>1. ASSUME NEW u \in User, NEW d \in Dir PROVE Owed'[u][d] = Owed[u][d]
    <3>1. /\ billed'[u][d] = billed[u][d] + 0 /\ forfeited'[u][d] = forfeited[u][d] + 0
          /\ relayed'[u][d] = relayed[u][d] + 0 /\ repeated'[u][d] = repeated[u][d] + 0
      BY <1>a, <1>c DEF OwedBalances, Tally
    <3>2. /\ Owed[u][d] \in Nat /\ Owed'[u][d] \in Nat
          /\ Owed'[u][d] + 0 + 0 = Owed[u][d] + 0 + 0
      BY <1>a, <3>1, OwedChange
    <3>3. QED
      BY <3>2
  <2>2. QED
    BY <1>b, <2>1, SameTallies
<1>d. ASSUME UNCHANGED <<billed, historyVars, deltas, posted, late>>
      PROVE  UNCHANGED Bill!vars
  <2>2. Owed' = Owed
    BY <1>c, <1>d
  <2>3. QED
    BY <1>d, <2>2 DEF Bill!vars, Unacked, AppliedNow, Amount, Doubt
<1>1. ASSUME NEW s \in Session, Accept(s) PROVE UNCHANGED Bill!vars
  BY <1>1, <1>d DEF Accept
<1>2. ASSUME NEW s \in Session, NEW u \in User, NEW n \in 1 .. MaxChunk,
             Authenticate(s, u, n)
      PROVE  [Bill!Next]_(Bill!vars)
  <2> DEFINE c == [user |-> u, gen |-> handshaking[s][u]]
  <2>1. c \in CounterObject
    BY <1>2, <1>a, UserTablesAreMaps DEF Authenticate, TypeOK, IsMap, CounterObject
  <2>2. Record(c, "up", n) /\ n \in Nat \ {0} /\ "up" \in Dir
    BY <1>2, BoundsAssumption DEF Authenticate, Dir
  <2>3. UNCHANGED <<billed, repeated, deltas, posted, late>>
    BY <1>2 DEF Authenticate
  <2>4. Bill!Use(c.user, "up") \/ UNCHANGED Bill!vars
    BY <1>a, <2>1, <2>2, <2>3, RecordBills
  <2>5. QED
    BY <2>2, <2>4 DEF Bill!Next
<1>3. ASSUME NEW s \in Session, NEW d \in Dir, NEW n \in 1 .. MaxChunk,
             Transfer(s, d, n)
      PROVE  [Bill!Next]_(Bill!vars)
  <2>1. relaying[s] \in CounterObject /\ Record(relaying[s], d, n) /\ n \in Nat \ {0}
    BY <1>3, <1>a, BoundsAssumption DEF Transfer, TypeOK, IsMap
  <2>2. UNCHANGED <<billed, repeated, deltas, posted, late>>
    BY <1>3 DEF Transfer
  <2>3. Bill!Use(relaying[s].user, d) \/ UNCHANGED Bill!vars
    BY <1>a, <2>1, <2>2, RecordBills
  <2>4. relaying[s].user \in User
    BY <2>1 DEF CounterObject
  <2>5. QED
    BY <2>3, <2>4 DEF Bill!Next
<1>4. ASSUME NEW s \in Session, Close(s) PROVE UNCHANGED Bill!vars
  BY <1>4, <1>d DEF Close
<1>5. ASSUME NEW us \in SUBSET User, SyncPublish(us) PROVE UNCHANGED Bill!vars
  BY <1>5, <1>d DEF SyncPublish
<1>6. CASE SyncRemoveStale
  <2>1. posted # "applied" /\ UNCHANGED <<billed, relayed, repeated, deltas, posted, late>>
    BY <1>6, <1>a DEF SyncRemoveStale, LedgerInv, PostingBetween
  <2>2. Unacked = Bill!Nothing /\ Unacked' = Unacked /\ Doubt' = Doubt
    BY <2>1, NothingUnacked DEF Unacked, AppliedNow, Amount, Doubt
  <2>3. ASSUME NEW u \in User, NEW d \in Dir
        PROVE  Owed'[u][d] = IF u \in live THEN Owed[u][d] ELSE 0
    <3>1. Owed[u][d] = Pending(u, d) /\ Pending(u, d) \in Nat
      <4>1. Pending(u, d) \in Nat
        BY <1>a, PendingType
      <4>2. AppliedNow(u, d) = 0
        BY <2>1 DEF AppliedNow
      <4>3. QED
        BY <1>a, <4>1, <4>2, OwedOf
    <3> DEFINE f == IF u \in live THEN 0 ELSE Owed[u][d]
    <3>2. forfeited'[u][d] = forfeited[u][d] + f /\ f \in Nat
      BY <1>6, <3>1 DEF SyncRemoveStale
    <3>3. /\ billed'[u][d] = billed[u][d] + 0 /\ relayed'[u][d] = relayed[u][d] + 0
          /\ repeated'[u][d] = repeated[u][d] + 0
      BY <1>a, <2>1 DEF OwedBalances, Tally
    <3> HIDE DEF f
    <3>4. /\ Owed[u][d] \in Nat /\ Owed'[u][d] \in Nat
          /\ Owed'[u][d] + 0 + f = Owed[u][d] + 0 + 0
      BY <1>a, <3>2, <3>3, OwedChange
    <3>5. QED
      BY <3>2, <3>4 DEF f
  <2>4. \A u \in User : Owed'[u] = Owed[u] \/ Owed'[u] = Bill!Nothing[u]
    BY <1>b, <2>3 DEF Tally, Bill!Nothing
  <2>5. Owed' = [u \in User |-> Owed'[u]]
    BY <1>b
  <2>6. QED
    BY <2>1, <2>2, <2>4, <2>5 DEF Bill!Next, Bill!Waive
<1>7. CASE ReportBegin
  BY <1>7, <1>d DEF ReportBegin
<1>8. ASSUME NEW u \in User, NEW d \in Dir, LoadCounter(u, d) PROVE UNCHANGED Bill!vars
  BY <1>8, <1>d DEF LoadCounter
<1>9. CASE Post
  <2>1. /\ posted # "applied" /\ posted' # "applied"
        /\ UNCHANGED <<billed, historyVars, late>>
    BY <1>9, <1>a DEF Post, LedgerInv, PostingBetween
  <2>2. Unacked' = Unacked
    BY <2>1 DEF Unacked, AppliedNow
  <2>4. Owed' = Owed
    BY <1>c, <2>1
  <2>5. QED
    BY <2>1, <2>2, <2>4 DEF Bill!vars, Doubt
<1>10. CASE PanelApply
  <2>1. /\ pc = "posting" /\ posted = "sent" /\ posted' = "applied"
        /\ billed' = AddReport(billed, deltas) /\ UNCHANGED <<deltas, late, historyVars>>
    BY <1>10 DEF PanelApply
  <2>2. Unacked = Bill!Nothing /\ Doubt' = Doubt
    BY <2>1, NothingUnacked DEF Doubt
  <2>3. ASSUME NEW u \in User, NEW d \in Dir
        PROVE  /\ Unacked'[u][d] <= Owed[u][d]
               /\ Owed[u][d] = Owed'[u][d] + Unacked'[u][d]
               /\ billed'[u][d] = billed[u][d] + Unacked'[u][d]
    <3>1. Unacked'[u][d] = Amount(deltas, u, d)
      BY <2>1 DEF Unacked, AppliedNow, Amount
    <3>2. Pending(u, d) \in Nat /\ AppliedNow(u, d) = 0
      BY <1>a, <2>1, PendingType DEF AppliedNow
    <3>3. /\ Amount(deltas, u, d) \in Nat /\ Amount(deltas, u, d) <= Pending(u, d)
          /\ Owed[u][d] = Pending(u, d) - AppliedNow(u, d)
      BY <1>a, <2>1, OwedOf
    <3>4. billed'[u][d] = billed[u][d] + Amount(deltas, u, d)
      BY <2>1 DEF AddReport
    <3>5. /\ forfeited'[u][d] = forfeited[u][d] + 0 /\ relayed'[u][d] = relayed[u][d] + 0
          /\ repeated'[u][d] = repeated[u][d] + 0
      BY <1>a, <2>1 DEF OwedBalances, Tally
    <3>6. /\ Owed[u][d] \in Nat /\ Owed'[u][d] \in Nat
          /\ Owed'[u][d] + Amount(deltas, u, d) + 0 = Owed[u][d] + 0 + 0
      BY <1>a, <3>3, <3>4, <3>5, OwedChange
    <3>7. QED
      BY <3>1, <3>2, <3>3, <3>4, <3>6
  <2>4. billed \in [User -> Tally] /\ billed' \in [User -> Tally]
    BY <1>a DEF OwedBalances
  <2>5. Bill!AtMost(Unacked', Owed)
    BY <2>3 DEF Bill!AtMost
  <2>6. Owed = Bill!Plus(Owed', Unacked') /\ billed' = Bill!Plus(billed, Unacked')
    <3>1. Bill!Plus(Owed', Unacked') \in [User -> Tally]
          /\ Bill!Plus(billed, Unacked') \in [User -> Tally]
      BY <1>b, <2>4 DEF Bill!Plus, Tally
    <3>2. \A u \in User, d \in Dir : /\ Owed[u][d] = Bill!Plus(Owed', Unacked')[u][d]
                                     /\ billed'[u][d] = Bill!Plus(billed, Unacked')[u][d]
      BY <2>3 DEF Bill!Plus
    <3>3. QED
      BY <1>b, <2>4, <3>1, <3>2, SameTallies
  <2>7. QED
    BY <2>2, <2>5, <2>6 DEF Bill!Next, Bill!Charge
<1>11. CASE ReportAck
  <2>1. /\ posted' # "applied" /\ UNCHANGED <<billed, late, historyVars>>
    BY <1>11 DEF ReportAck
  <2>2. Unacked' = Bill!Nothing
    BY <2>1 DEF Unacked, AppliedNow, Bill!Nothing
  <2>4. Owed' = Owed
    BY <1>c, <2>1
  <2>5. QED
    BY <2>1, <2>2, <2>4 DEF Bill!Next, Bill!Acknowledge, Doubt
<1>12. CASE ReportFail /\ posted = "sent" /\ late' = late \cup {<<fails + 1, deltas>>}
  <2>1. /\ pc = "posting" /\ posted' # "applied" /\ fails \in Nat
        /\ UNCHANGED <<billed, historyVars>>
    BY <1>12, <1>a, BoundsAssumption DEF ReportFail, TypeOK
  <2>2. Unacked' = Unacked
    BY <1>12, <2>1 DEF Unacked, AppliedNow
  <2>4. Owed' = Owed
    BY <1>c, <2>1
  <2> DEFINE request == <<fails + 1, Amounts(deltas)>>
  <2>5. Doubt' = Doubt \cup {request}
    <3> DEFINE Mapped(r) == <<r[1], Amounts(r[2])>>
    <3>1. Doubt' = {Mapped(r) : r \in late \cup {<<fails + 1, deltas>>}}
      BY <1>12 DEF Doubt, Amounts, Amount
    <3>2. Mapped(<<fails + 1, deltas>>) = request
      OBVIOUS
    <3>3. Doubt = {Mapped(r) : r \in late}
      BY DEF Doubt
    <3> HIDE DEF Mapped, request
    <3>4. QED
      BY <3>1, <3>2, <3>3
  <2>6. Bill!AtMost(request[2], Owed)
    <3>1. ASSUME NEW u \in User, NEW d \in Dir PROVE Amount(deltas, u, d) <= Owed[u][d]
      <4>1. Pending(u, d) \in Nat /\ AppliedNow(u, d) = 0
        BY <1>a, <1>12, PendingType DEF AppliedNow
      <4>2. /\ Amount(deltas, u, d) <= Pending(u, d)
            /\ Owed[u][d] = Pending(u, d) - AppliedNow(u, d)
        BY <1>a, <2>1, OwedOf
      <4>3. QED
        BY <4>1, <4>2
    <3>2. QED
      BY <3>1 DEF Bill!AtMost, Amounts
  <2>7. \A q \in Doubt : q[1] # request[1]
    <3>1. \A r \in late : r[1] \in Nat /\ r[1] <= fails
      BY <1>a, BoundsAssumption DEF TypeOK, BillingInv, RequestsNumbered
    <3>2. QED
      BY <2>1, <3>1 DEF Doubt
  <2>8. QED
    BY <2>1, <2>2, <2>4, <2>5, <2>6, <2>7 DEF Bill!Next, Bill!GiveUp
<1>13. CASE ReportFail /\ posted = "applied" /\ repeated' = AddReport(repeated, deltas)
                      /\ UNCHANGED late
  <2>1. /\ posted' # "applied" /\ UNCHANGED <<billed, relayed, forfeited>>
    BY <1>13 DEF ReportFail
  <2>2. Unacked' = Bill!Nothing /\ Doubt' = Doubt
    BY <1>13, <2>1 DEF Unacked, AppliedNow, Bill!Nothing, Doubt
  <2>3. ASSUME NEW u \in User, NEW d \in Dir
        PROVE  Owed'[u][d] = Owed[u][d] + Unacked[u][d]
    <3>1. Unacked[u][d] = Amount(deltas, u, d)
      BY <1>13 DEF Unacked, AppliedNow
    <3>2. repeated'[u][d] = repeated[u][d] + Amount(deltas, u, d)
      BY <1>13 DEF AddReport
    <3>3. Unacked[u][d] \in Nat
      BY <1>b DEF Tally
    <3>4. /\ billed'[u][d] = billed[u][d] + 0 /\ relayed'[u][d] = relayed[u][d] + 0
          /\ forfeited'[u][d] = forfeited[u][d] + 0
      BY <1>a, <2>1 DEF OwedBalances, Tally
    <3>5. /\ Owed[u][d] \in Nat /\ Owed'[u][d] \in Nat
          /\ Owed'[u][d] + 0 + 0 = Owed[u][d] + 0 + Unacked[u][d]
      BY <1>a, <3>1, <3>2, <3>3, <3>4, OwedChange
    <3>6. QED
      BY <3>3, <3>5
  <2>4. Owed' = Bill!Plus(Owed, Unacked)
    <3>1. Bill!Plus(Owed, Unacked) \in [User -> Tally]
      BY <1>b DEF Bill!Plus, Tally
    <3>2. \A u \in User, d \in Dir : Owed'[u][d] = Bill!Plus(Owed, Unacked)[u][d]
      BY <2>3 DEF Bill!Plus
    <3>3. QED
      BY <1>b, <3>1, <3>2, SameTallies
  <2>5. QED
    BY <2>1, <2>2, <2>4 DEF Bill!Next, Bill!Reopen
<1>14. ASSUME NEW r \in late, PanelApplyLate(r) PROVE [Bill!Next]_(Bill!vars)
  <2>1. /\ late' = late \ {r} /\ billed' = AddReport(billed, r[2])
        /\ repeated' = AddReport(repeated, r[2])
        /\ UNCHANGED <<deltas, posted, relayed, forfeited>>
    BY <1>14 DEF PanelApplyLate
  <2> DEFINE request == <<r[1], Amounts(r[2])>>
  <2>2. request \in Doubt /\ Doubt' = Doubt \ {request}
    <3>1. \A q \in late : q # r => q[1] # r[1]
      BY DEF BillingInv, RequestsNumbered
    <3>2. Doubt' = {<<q[1], Amounts(q[2])>> : q \in late \ {r}}
      BY <2>1 DEF Doubt, Amounts, Amount
    <3>3. QED
      BY <3>1, <3>2 DEF Doubt
  <2>3. \A u \in User, d \in Dir : Amount(r[2], u, d) \in Nat
    <3>1. IsMap(r[2], User, TrafficDelta) /\ billed \in [User -> Tally]
      BY <1>a DEF TypeOK
    <3>2. QED
      BY <3>1, AddReportType
  <2>4. billed' = Bill!Plus(billed, request[2])
    BY <2>1 DEF AddReport, Bill!Plus, Amounts
  <2>5. \A u \in User, d \in Dir : Owed'[u][d] = Owed[u][d]
    <3> SUFFICES ASSUME NEW u \in User, NEW d \in Dir PROVE Owed'[u][d] = Owed[u][d]
      OBVIOUS
    <3>1. PICK k \in Nat : /\ billed'[u][d] = billed[u][d] + k
                           /\ repeated'[u][d] = repeated[u][d] + k
      BY <2>1, <2>3 DEF AddReport
    <3>2. relayed'[u][d] = relayed[u][d] + 0 /\ forfeited'[u][d] = forfeited[u][d] + 0
      BY <1>a, <2>1 DEF OwedBalances, Tally
    <3>3. /\ Owed[u][d] \in Nat /\ Owed'[u][d] \in Nat
          /\ Owed'[u][d] + k + 0 = Owed[u][d] + 0 + k
      BY <1>a, <3>1, <3>2, OwedChange
    <3>4. QED
      BY <3>3
  <2>6. Owed' = Owed
    BY <1>b, <2>5, SameTallies
  <2>7. Unacked' = Unacked
    BY <2>1 DEF Unacked, AppliedNow, Amount
  <2>8. QED
    BY <2>2, <2>4, <2>6, <2>7 DEF Bill!Next, Bill!ChargeLate
<1>15. CASE UNCHANGED vars
  BY <1>15, <1>d DEF vars
<1>16. CASE Relay
  BY <1>1, <1>2, <1>3, <1>4, <1>16 DEF Relay
<1>17. CASE Sync
  BY <1>5, <1>6, <1>17 DEF Sync
<1>18. CASE Report
  <2>1. CASE ReportFail
    BY <1>12, <1>13, <2>1 DEF ReportFail
  <2>2. QED
    BY <1>7, <1>8, <1>9, <1>11, <1>18, <2>1 DEF Report
<1>19. CASE Panel
  BY <1>10, <1>14, <1>19 DEF Panel
<1>20. QED
  BY <1>15, <1>16, <1>17, <1>18, <1>19 DEF Next

\* The accounting refines the promise made to the panel, for any number of
\* users, relay tasks, polls, failed and late reports: every step charges,
\* waives or owes as Billing allows, or changes no bill (pending_deltas,
\* mark_reported, remove_stale_users, report_traffic).
THEOREM BillingImplemented == Spec => BillingKept
<1>1. Init => Bill!Init
  <2> SUFFICES ASSUME Init PROVE Bill!Init
    OBVIOUS
  <2>1. \A u \in User, d \in Dir : Pending(u, d) = 0 /\ AppliedNow(u, d) = 0
    BY DEF Init, Pending, AppliedNow
  <2>2. Owed = Bill!Nothing /\ Unacked = Bill!Nothing
    BY <2>1 DEF Owed, Unacked, Minus, Bill!Nothing
  <2>3. billed = Bill!Nothing /\ Doubt = {}
    BY DEF Init, Zero, Bill!Nothing, Doubt
  <2>4. QED
    BY <2>2, <2>3 DEF Bill!Init
<1>2. BillingInv => LedgerInv
  BY DEF BillingInv
<1>3. QED
  BY <1>1, <1>2, BillingInvariant, NextBills, PTL DEF Spec, BillingKept, Bill!Spec
=============================================================================
