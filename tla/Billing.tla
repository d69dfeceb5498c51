------------------------------ MODULE Billing -------------------------------
(***************************************************************************)
(* What the accounting of a node promises its panel, whatever counters,    *)
(* checkpoints, polls and reports it uses.  Every user owes what it has    *)
(* used and not been billed for.  A report charges part of what is owed.   *)
(* Until the node hears that a charge was made it may have to believe that *)
(* it was not, and then owes the same again; a request it gave up on may   *)
(* still be charged, once.  What a user owes when it is dropped is waived. *)
(*                                                                         *)
(* Nothing else changes a bill or what is owed.                            *)
(***************************************************************************)
EXTENDS Naturals

CONSTANTS User, Dir

VARIABLES
  owed,     \* user -> direction -> bytes used and not charged
  billed,   \* user -> direction -> bytes charged
  unacked,  \* the charge the node has not heard of yet
  doubt     \* requests given up on, numbered, that may still be charged

vars == <<owed, billed, unacked, doubt>>

Nothing == [u \in User |-> [d \in Dir |-> 0]]

Plus(a, b) == [u \in User |-> [d \in Dir |-> a[u][d] + b[u][d]]]
AtMost(a, b) == \A u \in User, d \in Dir : a[u][d] <= b[u][d]

Init ==
  /\ owed = Nothing /\ billed = Nothing
  /\ unacked = Nothing /\ doubt = {}

\* A user relays some bytes in one direction.
Use(u, d) ==
  /\ owed'[u][d] > owed[u][d]
  /\ owed' = [owed EXCEPT ![u][d] = owed'[u][d]]
  /\ UNCHANGED <<billed, unacked, doubt>>

\* The panel charges some of what is owed; one charge at a time is unheard of.
Charge ==
  /\ unacked = Nothing
  /\ AtMost(unacked', owed)
  /\ owed = Plus(owed', unacked')
  /\ billed' = Plus(billed, unacked')
  /\ UNCHANGED doubt

\* The node hears that the charge was made.
Acknowledge ==
  /\ unacked' = Nothing
  /\ UNCHANGED <<owed, billed, doubt>>

\* It hears nothing: all of it is owed again.
Reopen ==
  /\ owed' = Plus(owed, unacked)
  /\ unacked' = Nothing
  /\ UNCHANGED <<billed, doubt>>

\* It gives up on a request for some of what is owed ...
GiveUp ==
  /\ \E r \in doubt' : /\ doubt' = doubt \cup {r} /\ AtMost(r[2], owed)
                       /\ \A q \in doubt : q[1] # r[1]
  /\ UNCHANGED <<owed, billed, unacked>>

\* ... that the panel gets after all.
ChargeLate ==
  /\ \E r \in doubt : doubt' = doubt \ {r} /\ billed' = Plus(billed, r[2])
  /\ UNCHANGED <<owed, unacked>>

\* Users are dropped, with all they owe.
Waive ==
  /\ unacked = Nothing
  /\ \A u \in User : owed'[u] = owed[u] \/ owed'[u] = Nothing[u]
  /\ owed' = [u \in User |-> owed'[u]]
  /\ UNCHANGED <<billed, unacked, doubt>>

Next ==
  \/ \E u \in User, d \in Dir : Use(u, d)
  \/ Charge \/ Acknowledge \/ Reopen \/ GiveUp \/ ChargeLate \/ Waive

Spec == Init /\ [][Next]_vars
=============================================================================
