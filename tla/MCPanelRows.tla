---------------------------- MODULE MCPanelRows -----------------------------
(***************************************************************************)
(* Instance of PanelRows for TLC: plain users and carriers that share      *)
(* ports and ids, limits at their edges, and every address and port item   *)
(* on its own.                                                             *)
(***************************************************************************)
EXTENDS PanelRows

Plain ==
  [wellFormed |-> TRUE, id |-> 1, user_id |-> NoId, port |-> 1, password |-> "a", mode |-> 0,
   method |-> "rc4-md5", enable |-> 1, speed |-> 0, connector |-> 0,
   ips |-> << >>, ports |-> << >>]
Carrier == [Plain EXCEPT !.id = 4, !.mode = 2]

V4(n) == [fam |-> "v4", n |-> n]
V6(n) == [fam |-> "v6", n |-> n]
Ip(base, prefix) == [kind |-> "ip", base |-> base, prefix |-> prefix]
Ports(a, b) == [kind |-> "port", a |-> a, b |-> b]

Rows ==
  {Plain,
   [Plain EXCEPT !.speed = 5],
   [Plain EXCEPT !.speed = -3, !.connector = -1],
   [Plain EXCEPT !.connector = 3, !.method = "RC4-MD5"],
   [Plain EXCEPT !.connector = 4, !.password = "b"],
   [Plain EXCEPT !.enable = 0],
   [Plain EXCEPT !.id = 2, !.port = 2, !.method = NoneGiven,
                 !.ips = <<Ip(V4(2), 1), Junk, Ip(V6(1), NoPrefix)>>],
   [Plain EXCEPT !.id = 2, !.port = 2, !.method = "aes-256-cfb", !.ports = <<Junk, Ports(3, 1)>>],
   [Plain EXCEPT !.id = 3, !.user_id = 1, !.port = 2, !.speed = 2],
   Carrier,
   [Carrier EXCEPT !.id = 5, !.connector = 1],
   [Carrier EXCEPT !.id = 5, !.password = "c"],
   [Plain EXCEPT !.wellFormed = FALSE]}

IpItems ==
  {Ip(V4(n), k) : n \in 0 .. Pow2[V4Bits] - 1, k \in NoPrefix .. V4Bits + 1}
  \cup {Ip(V6(n), k) : n \in 0 .. Pow2[V6Bits] - 1, k \in NoPrefix .. V6Bits + 1}
PortItems == {Ports(a, b) : a \in 0 .. MaxPort, b \in 0 .. MaxPort}

MCListings ==
  UNION {[1 .. n -> Rows] : n \in 0 .. 2}
  \cup {<<r, Plain, [Plain EXCEPT !.id = 2, !.port = 2]>> : r \in Rows}
  \cup {<<[Plain EXCEPT !.ips = <<item>>]>> : item \in IpItems}
  \cup {<<[Plain EXCEPT !.ports = <<item>>]>> : item \in PortItems}

MCLower ==
  [m \in {"rc4-md5", "RC4-MD5", "aes-256-cfb"} |-> IF m = "RC4-MD5" THEN "rc4-md5" ELSE m]
=============================================================================
