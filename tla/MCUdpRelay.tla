----------------------------- MODULE MCUdpRelay -----------------------------
(***************************************************************************)
(* Small instances of UdpRelay for TLC.                                    *)
(***************************************************************************)
EXTENDS UdpRelay, TLC

CONSTANTS a1, p1

\* No rule; a forbidden address; a forbidden port as well.
NoRule == [forbidden_ips |-> {}, forbidden_ports |-> {}]
Forbidding == [forbidden_ips |-> {a1}, forbidden_ports |-> {p1}]
Policies == {NoRule, Forbidding}
NoPolicies == {NoRule}

\* Peers are interchangeable.
Symm == Permutations(Peer)
=============================================================================
