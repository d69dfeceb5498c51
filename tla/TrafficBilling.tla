--------------------------- MODULE TrafficBilling ---------------------------
(***************************************************************************)
(* Traffic implements Billing.  A user owes what its counter is ahead of   *)
(* its checkpoint, less a report the panel has applied and the node has    *)
(* not heard of; bytes counted into an object the ledger no longer has are *)
(* owed by nobody.                                                         *)
(***************************************************************************)
EXTENDS Traffic

Owed == [u \in User |-> [d \in Dir |-> Minus(Pending(u, d), AppliedNow(u, d))]]
Unacked == [u \in User |-> [d \in Dir |-> AppliedNow(u, d)]]
Amounts(report) == [u \in User |-> [d \in Dir |-> Amount(report, u, d)]]
Doubt == {<<r[1], Amounts(r[2])>> : r \in late}

Bill == INSTANCE Billing WITH owed <- Owed, unacked <- Unacked, doubt <- Doubt

\* Every step of relays, polls, reports and the network is one the billing
\* allows or none at all: no byte is charged that is not owed, none stops
\* being owed unless it was charged or its user was dropped, and only a report
\* without an answer may be charged twice (pending_deltas, mark_reported,
\* remove_stale_users, report_traffic).
BillingKept == Bill!Spec
=============================================================================
