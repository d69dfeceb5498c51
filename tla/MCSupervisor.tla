---------------------------- MODULE MCSupervisor ----------------------------
(***************************************************************************)
(* Small instances of Supervisor for TLC.                                  *)
(***************************************************************************)
EXTENDS Supervisor, TLC

CONSTANTS p1, p2, c1, c2, bad

Carrier(p, c) == [port |-> p, config |-> c, carrier |-> TRUE]
Plain(p, c) == [port |-> p, config |-> c, carrier |-> FALSE]

\* Carriers come, go, change and clash on a port, next to users of their own
\* and an unsupported row; plain users each have their port.
CarrierListings ==
  {<< >>,
   <<Carrier(p1, c2), Carrier(p1, c1), Plain(p2, c1)>>,
   <<Carrier(p1, bad), Carrier(p2, c1)>>,
   <<Plain(p1, c1), Plain(p2, bad)>>}

\* One carrier whose password is rotated.
RotatingCarrier == {<<Carrier(p1, c1)>>, <<Carrier(p1, c2)>>}
=============================================================================
