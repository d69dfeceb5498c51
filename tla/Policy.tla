------------------------------- MODULE Policy -------------------------------
(***************************************************************************)
(* policy.rs: what a row of the panel's user list makes of its limits and  *)
(* forbidden lists, and what the lists match.                              *)
(*                                                                         *)
(* Addresses have V4Bits and V6Bits bits instead of 32 and 128; the mapped *)
(* block (::ffff:0:0/96 in the code) is the V6 addresses that start with   *)
(* the bits of MappedHead.  An item of a list is what its text says, read  *)
(* as a CIDR block or a port range, or as nothing at all.                  *)
(***************************************************************************)
EXTENDS Integers, SequencesExt

CONSTANTS
  V4Bits, V6Bits, MappedHead,
  ConnMod,    \* conn_limit is a u32: 2^32
  Mbit        \* speeds are given in units of 1/Mbit of a byte per second

ASSUME PolicyAssumption ==
  /\ V4Bits \in Nat \ {0} /\ V6Bits \in Nat /\ V4Bits < V6Bits
  /\ ConnMod \in Nat \ {0} /\ Mbit \in Nat \ {0}

\* 1 << k, for every width in use.
Pow2[k \in 0 .. V6Bits] == IF k = 0 THEN 1 ELSE 2 * Pow2[k - 1]

ASSUME MappedAssumption == MappedHead \in 0 .. Pow2[V6Bits - V4Bits] - 1

Junk == [kind |-> "junk"]       \* an item that is not of its list's form
NoPrefix == -1                  \* an address without a prefix length

Bits(fam) == IF fam = "v4" THEN V4Bits ELSE V6Bits
IpAddr == [fam : {"v4"}, n : 0 .. Pow2[V4Bits] - 1] \cup [fam : {"v6"}, n : 0 .. Pow2[V6Bits] - 1]

\* What an item of an address list and of a port list says.
IpItem == {Junk} \cup [kind : {"ip"}, base : IpAddr, prefix : Nat \cup {NoPrefix}]
PortItem == {Junk} \cup [kind : {"port"}, a : Nat, b : Nat]

----------------------------------------------------------------------------
(* Cidr *)

\* Cidr::parse of an item with an address: no prefix means the host, a
\* prefix that is too long spoils the item.
CidrParse(item) ==
  IF item = Junk \/ item.prefix > Bits(item.base.fam) THEN << >>
  ELSE <<[base |-> item.base,
          prefix |-> IF item.prefix = NoPrefix THEN Bits(item.base.fam) ELSE item.prefix]>>

\* Faulty variant: a shift by the whole width, which shifts by nothing.
InPrefixUnguarded(bits, base, ip, prefix) ==
  LET shift == (bits - prefix) % bits IN base \div Pow2[shift] = ip \div Pow2[shift]

\* v4_in, v6_in: equal under the mask.
InPrefix(bits, base, ip, prefix) ==
  prefix = 0 \/ base \div Pow2[bits - prefix] = ip \div Pow2[bits - prefix]

IsMapped(n) == n \div Pow2[V4Bits] = MappedHead
ToMapped(n) == MappedHead * Pow2[V4Bits] + n

CidrContains(c, ip) ==
  LET fam == c.base.fam IN
  \/ fam = ip.fam /\ InPrefix(Bits(fam), c.base.n, ip.n, c.prefix)
  \/ /\ fam = "v4" /\ ip.fam = "v6" /\ IsMapped(ip.n)
     /\ InPrefix(V4Bits, c.base.n, ip.n % Pow2[V4Bits], c.prefix)
  \/ /\ fam = "v6" /\ ip.fam = "v4"
     /\ InPrefix(V6Bits, c.base.n, ToMapped(ip.n), c.prefix)

----------------------------------------------------------------------------
(* PortRange *)

\* PortRange::parse of "a-b" or "a": the ends may be given in any order.
PortRangeParse(item) ==
  IF item = Junk THEN << >>
  ELSE IF item.a <= item.b THEN <<[start |-> item.a, end |-> item.b]>>
  ELSE <<[start |-> item.b, end |-> item.a]>>

PortRangeContains(r, port) == r.start <= port /\ port <= r.end

----------------------------------------------------------------------------
(* UserPolicy *)

\* parse_list: the items that parse, in order.
ParseIps(list) == FlattenSeq([i \in DOMAIN list |-> CidrParse(list[i])])
ParsePorts(list) == FlattenSeq([i \in DOMAIN list |-> PortRangeParse(list[i])])

\* node_connector: no less than 0, then cast to u32.
ConnLimit(connector) == (IF connector < 0 THEN 0 ELSE connector) % ConnMod

\* Faulty variant: a negative cap is taken as it is.
SpeedLimitSigned(speed) == speed \div Mbit

\* node_speedlimit in whole bytes per second.
SpeedLimit(speed) == (IF speed < 0 THEN 0 ELSE speed) \div Mbit

FromUser(row) ==
  [speed_limit_bps |-> SpeedLimit(row.speed),
   conn_limit |-> ConnLimit(row.connector),
   forbidden_ips |-> ParseIps(row.ips),
   forbidden_ports |-> ParsePorts(row.ports)]

NeedsConnectionPolicy(p) ==
  p.conn_limit > 0 \/ p.forbidden_ips # << >> \/ p.forbidden_ports # << >>

PortForbidden(p, port) ==
  \E i \in DOMAIN p.forbidden_ports : PortRangeContains(p.forbidden_ports[i], port)
IpForbidden(p, ip) ==
  \E i \in DOMAIN p.forbidden_ips : CidrContains(p.forbidden_ips[i], ip)
=============================================================================
