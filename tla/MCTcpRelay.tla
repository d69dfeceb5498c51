----------------------------- MODULE MCTcpRelay -----------------------------
(***************************************************************************)
(* Small instances of TcpRelay for TLC.                                    *)
(***************************************************************************)
EXTENDS TcpRelay, TLC

CONSTANTS a1, p1

\* Unlimited, or limited to one device; or two devices, with a forbidden address
\* and a forbidden port.
LimitTo(n) == [conn_limit |-> n, forbidden_ips |-> {}, forbidden_ports |-> {}]
LimitPolicies == {LimitTo(0), LimitTo(1)}
TargetPolicies ==
  {LimitTo(0), [conn_limit |-> 2, forbidden_ips |-> {a1}, forbidden_ports |-> {p1}]}

\* Devices are interchangeable, and so are connections and the addresses no
\* policy names.
Symm == Permutations(IP) \cup Permutations(Session) \cup Permutations(Addr \ {a1})
=============================================================================
