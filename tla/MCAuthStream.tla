---------------------------- MODULE MCAuthStream ----------------------------
(***************************************************************************)
(* Instance of AuthStream for TLC: two users beside the port's own key,    *)
(* and clients that differ in who they are, what they ask for, how they    *)
(* divide their bytes into packets and what they get wrong.                *)
(***************************************************************************)
EXTENDS AuthStream

MCUsers == [u \in {1, 2} |-> IF u = 1 THEN "k1" ELSE "k2"]

Addr(kind, dlen) == [kind |-> kind, dlen |-> dlen, utf8 |-> TRUE]

Plain ==
  [mode |-> 0, uid |-> 1, key |-> "k1", addr |-> Addr("domain", 1), cuts |-> <<3, 4, 1>>,
   pads |-> <<1, 2, 1>>, at |-> 0, wrong |-> "sum", noise |-> 40]

\* Every pairing of uid and key, with what a wrong key may decrypt to.
Identities ==
  {[Plain EXCEPT !.uid = u, !.key = k, !.noise = n, !.mode = m] :
     m \in {0, 1, 2}, u \in {1, 2, 9}, k \in {"k1", "k2", "master", "iv"}, n \in {40, 9000}}

\* Header in one packet or several, empty packets, packets that end together.
Divisions ==
  {[Plain EXCEPT !.cuts = c, !.pads = [i \in 1 .. Len(c) |-> 1], !.addr = a] :
     c \in {<<9>>, <<0, 1, 8>>, <<5, 4>>, <<1, 1, 1, 8>>},
     a \in {Addr("domain", 1), Addr("v4", 0), Addr("domain", 0)}}
  \cup {[Plain EXCEPT !.cuts = <<18, 3>>, !.pads = <<0, 3>>, !.addr = Addr("v6", 0)]}

BadAddresses ==
  {[Plain EXCEPT !.addr = Addr("other", 0)], [Plain EXCEPT !.addr.utf8 = FALSE]}

Mistakes ==
  {[Plain EXCEPT !.at = 1, !.wrong = w] : w \in {"head", "auth", "length", "sum", "pad"}}
  \cup {[Plain EXCEPT !.at = p, !.wrong = w] :
          p \in {2, 3}, w \in {"mac", "length", "sum", "pad"}}

MCClients == Identities \cup Divisions \cup BadAddresses \cup Mistakes
=============================================================================
