-------------------------- MODULE AuthStreamProofs --------------------------
(***************************************************************************)
(* Proofs about AuthStream: the type invariant, what the server decodes    *)
(* however TCP cuts the client's stream, whom it takes the client for, and *)
(* what the client gets back.                                              *)
(***************************************************************************)
EXTENDS AuthStream, FiniteSetTheorems, SequenceTheorems, WellFoundedInduction, TLAPS

----------------------------------------------------------------------------
(* Induction over the natural numbers, stated for a set: the library states *)
(* it for a predicate, which no backend can instantiate.                    *)

\* A set that holds 0 and with every number the next one holds all of them.
LEMMA SetInduction ==
  ASSUME NEW S, 0 \in S, \A n \in Nat : n \in S => n + 1 \in S
  PROVE  \A n \in Nat : n \in S
<1> DEFINE T == Nat \ S
           R == OpToRel(<, Nat)
<1>1. SUFFICES ASSUME T # {} PROVE FALSE
  OBVIOUS
<1>2. IsWellFoundedOn(R, Nat)
  BY NatLessThanWellFounded
<1>3. \A x, y \in Nat : y < x => <<y, x>> \in R
  BY DEF OpToRel
<1> HIDE DEF R
<1>4. IsWellFoundedOn(R, Nat) => \E x \in T : \A y \in T : ~(<<y, x>> \in R)
  BY <1>1, WFMin
<1>5. PICK x \in T : \A y \in T : ~(<<y, x>> \in R)
  BY <1>2, <1>4
<1>6. \A y \in T : ~(y < x)
  BY <1>3, <1>5
<1>7. x - 1 \in Nat /\ x - 1 < x /\ (x - 1) + 1 = x
  OBVIOUS
<1>8. x - 1 \in T
  BY <1>7
<1>9. QED
  BY <1>6, <1>7, <1>8

----------------------------------------------------------------------------
(* Prefix sums. *)

\* The sums of the prefixes of s as an equation of the function.
SumsTo(f, s, n) == f = [p \in 0 .. n |-> IF p = 0 THEN 0 ELSE f[p - 1] + s[p]]

\* The prefixes of a sequence have sums: the recursion of Sums is well founded.
LEMMA SumsExist ==
  ASSUME NEW s
  PROVE  \A n \in Nat : \E f : SumsTo(f, s, n)
<1> DEFINE Good == {n \in Nat : \E f : SumsTo(f, s, n)}
<1>1. 0 \in Good
  <2>1. SumsTo([p \in 0 .. 0 |-> 0], s, 0)
    BY DEF SumsTo
  <2>2. QED
    BY <2>1
<1>2. ASSUME NEW n \in Nat, n \in Good PROVE n + 1 \in Good
  <2>1. PICK f : SumsTo(f, s, n)
    BY <1>2
  <2> DEFINE g == [p \in 0 .. n + 1 |-> IF p = n + 1 THEN f[n] + s[n + 1] ELSE f[p]]
  <2>2. SumsTo(g, s, n + 1)
    <3>1. ASSUME NEW p \in 0 .. n + 1
          PROVE  g[p] = IF p = 0 THEN 0 ELSE g[p - 1] + s[p]
      <4>1. CASE p = n + 1
        BY <4>1
      <4>2. CASE p # n + 1
        BY <4>2, <2>1 DEF SumsTo
      <4>3. QED
        BY <4>1, <4>2
    <3>2. QED
      BY <3>1 DEF SumsTo
  <2>3. QED
    BY <2>2
<1> HIDE DEF Good
<1>3. \A n \in Nat : n \in Good
  BY <1>1, <1>2, SetInduction
<1>4. QED
  BY <1>3 DEF Good

\* What Sums computes.
LEMMA SumsDef ==
  ASSUME NEW s, Len(s) \in Nat
  PROVE  /\ Sums(s)[0] = 0
         /\ \A p \in 1 .. Len(s) : Sums(s)[p] = Sums(s)[p - 1] + s[p]
<1>1. \E f : SumsTo(f, s, Len(s))
  BY SumsExist
<1>2. SumsTo(CHOOSE f : SumsTo(f, s, Len(s)), s, Len(s))
  BY <1>1
<1>3. Sums(s) = CHOOSE f : SumsTo(f, s, Len(s))
  BY DEF Sums, SumsTo
<1>4. SumsTo(Sums(s), s, Len(s))
  BY <1>2, <1>3
<1>5. QED
  BY <1>4 DEF SumsTo

\* Prefix sums of natural numbers are natural numbers and grow.
LEMMA SumsGrow ==
  ASSUME NEW s \in Seq(Nat)
  PROVE  /\ \A p \in 0 .. Len(s) : Sums(s)[p] \in Nat
         /\ \A p, q \in 0 .. Len(s) : p <= q => Sums(s)[p] <= Sums(s)[q]
<1> DEFINE f == Sums(s)
<1>1. /\ Len(s) \in Nat /\ f[0] = 0
      /\ \A p \in 1 .. Len(s) : f[p] = f[p - 1] + s[p] /\ s[p] \in Nat
  BY SumsDef
<1> HIDE DEF f
<1> DEFINE Good == {n \in Nat : n <= Len(s) => \A p \in 0 .. n : f[p] \in Nat /\ f[p] <= f[n]}
<1>2. 0 \in Good
  BY <1>1
<1>3. ASSUME NEW n \in Nat, n \in Good PROVE n + 1 \in Good
  <2>1. CASE n + 1 <= Len(s)
    <3>1. \A p \in 0 .. n : f[p] \in Nat /\ f[p] <= f[n]
      BY <1>1, <1>3, <2>1
    <3>2. f[n + 1] = f[n] + s[n + 1] /\ s[n + 1] \in Nat
      BY <1>1, <2>1
    <3>3. \A p \in 0 .. n + 1 : p = n + 1 \/ p \in 0 .. n
      OBVIOUS
    <3>4. f[n] \in Nat
      BY <3>1
    <3>5. \A p \in 0 .. n + 1 : f[p] \in Nat /\ f[p] <= f[n + 1]
      BY <3>1, <3>2, <3>3, <3>4
    <3>6. QED
      BY <3>5
  <2>2. QED
    BY <2>1
<1> HIDE DEF Good
<1>4. \A n \in Nat : n \in Good
  BY <1>2, <1>3, SetInduction
<1>5. \A n \in 0 .. Len(s) : \A p \in 0 .. n : f[p] \in Nat /\ f[p] <= f[n]
  BY <1>1, <1>4 DEF Good
<1>6. QED
  BY <1>5 DEF f

----------------------------------------------------------------------------
(* The client's stream. *)

\* The number of packets the client sends.
NumPackets == Len(client.cuts)

\* What is assumed of a client, field by field.
LEMMA ClientFields ==
  ASSUME client \in Clients
  PROVE  /\ client.mode \in Nat /\ client.uid \in Nat \ {0} /\ client.key \in STRING
         /\ client.addr \in Address /\ client.noise \in Nat
         /\ client.cuts \in Seq(Nat) /\ client.pads \in Seq(Nat)
         /\ Len(client.pads) = NumPackets /\ NumPackets \in Nat \ {0} /\ Packets = 1 .. NumPackets
         /\ client.at \in 0 .. NumPackets
         /\ client.wrong \in {"head", "auth", "length", "sum", "pad", "mac"}
         /\ client.at = 1 => client.wrong # "mac"
         /\ client.at > 1 => client.wrong \notin {"head", "auth"}
<1>1. /\ client \in ClientStream /\ Len(client.cuts) = Len(client.pads)
      /\ client.cuts # << >> /\ client.at <= Len(client.cuts)
      /\ client.at = 1 => client.wrong # "mac"
      /\ client.at > 1 => client.wrong \notin {"head", "auth"}
  BY AuthAssumption
<1>2. /\ client.mode \in Nat /\ client.uid \in Nat \ {0} /\ client.key \in STRING
      /\ client.addr \in Address /\ client.noise \in Nat /\ client.at \in Nat
      /\ client.cuts \in Seq(Nat) /\ client.pads \in Seq(Nat)
      /\ client.wrong \in {"head", "auth", "length", "sum", "pad", "mac"}
  BY <1>1 DEF ClientStream
<1>3. NumPackets \in Nat \ {0}
  BY <1>1, <1>2 DEF NumPackets
<1>4. QED
  BY <1>1, <1>2, <1>3 DEF NumPackets, Packets

\* Lengths of the parts of a packet.
LEMMA PacketFields ==
  ASSUME client \in Clients, NEW p \in 1 .. NumPackets
  PROVE  /\ client.cuts[p] \in Nat /\ client.pads[p] \in Nat
         /\ Overhead(p) = client.pads[p] + (IF p = 1 THEN 31 ELSE 4)
         /\ WireLen(p) = Overhead(p) + client.cuts[p] + 4
         /\ WireLen(p) \in Nat /\ WireLen(p) >= 8 /\ (p = 1 => WireLen(p) >= 35)
<1>1. client.cuts[p] \in Nat /\ client.pads[p] \in Nat
  <2>1. PICK s \in Seq(Nat), t \in Seq(Nat) : s = client.cuts /\ t = client.pads
    BY ClientFields
  <2>2. Len(s) = NumPackets /\ Len(t) = NumPackets
    BY <2>1, ClientFields DEF NumPackets
  <2>3. s[p] \in Nat /\ t[p] \in Nat
    BY <2>2
  <2>4. QED
    BY <2>1, <2>3
<1>2. Overhead(p) = client.pads[p] + (IF p = 1 THEN 31 ELSE 4)
  BY DEF Overhead, AuthHead
<1>3. WireLen(p) = Overhead(p) + client.cuts[p] + 4
  BY DEF WireLen, MacLen
<1>4. QED
  BY <1>1, <1>2, <1>3

\* The payload before packet p + 1, and that it grows with p.
LEMMA CountFacts ==
  ASSUME client \in Clients
  PROVE  /\ Count(0) = 0
         /\ \A p \in 1 .. NumPackets : Count(p) = Count(p - 1) + client.cuts[p]
         /\ \A p \in 0 .. NumPackets : Count(p) \in Nat
         /\ \A p, q \in 0 .. NumPackets : p <= q => Count(p) <= Count(q)
<1>1. client.cuts \in Seq(Nat) /\ Len(client.cuts) \in Nat
  BY ClientFields
<1>2. QED
  BY <1>1, SumsDef, SumsGrow DEF Count, NumPackets

\* Where the packets end; no two end at one place.
LEMMA EndFacts ==
  ASSUME client \in Clients
  PROVE  /\ EndOf(0) = IvLen
         /\ \A p \in 1 .. NumPackets : EndOf(p) = EndOf(p - 1) + WireLen(p)
         /\ \A p \in 0 .. NumPackets :
              EndOf(p) \in Nat /\ EndOf(p) >= IvLen /\ EndOf(p) <= StreamLen
         /\ \A p, q \in 0 .. NumPackets : p < q => EndOf(p) < EndOf(q)
         /\ \A p, q \in 0 .. NumPackets : p <= q => EndOf(p) <= EndOf(q)
<1> DEFINE s == [q \in 1 .. NumPackets |-> WireLen(q)]
<1>1. NumPackets \in Nat \ {0} /\ Packets = 1 .. NumPackets /\ IvLen \in Nat \ {0}
  BY ClientFields, AuthAssumption
<1>2. \A p \in 1 .. NumPackets : WireLen(p) \in Nat /\ WireLen(p) >= 8
  BY PacketFields
<1>3. s \in Seq(Nat) /\ Len(s) = NumPackets /\ \A p \in 1 .. NumPackets : s[p] = WireLen(p)
  BY <1>1, <1>2
<1>4. \A p : EndOf(p) = IvLen + Sums(s)[p]
  BY <1>1 DEF EndOf
<1> HIDE DEF s
<1> DEFINE f == Sums(s)
<1>5. /\ f[0] = 0
      /\ \A p \in 1 .. NumPackets : f[p] = f[p - 1] + WireLen(p)
  BY <1>1, <1>3, SumsDef
<1>6. /\ \A p \in 0 .. NumPackets : f[p] \in Nat
      /\ \A p, q \in 0 .. NumPackets : p <= q => f[p] <= f[q]
  BY <1>3, SumsGrow
<1>7. \A p \in 0 .. NumPackets : EndOf(p) = IvLen + f[p]
  BY <1>4
<1> HIDE DEF f
<1>8. \A p, q \in 0 .. NumPackets : p < q => f[p] < f[q]
  <2>1. SUFFICES ASSUME NEW p \in 0 .. NumPackets, NEW q \in 0 .. NumPackets, p < q
                 PROVE  f[p] < f[q]
    OBVIOUS
  <2>2. p + 1 \in 1 .. NumPackets /\ p + 1 \in 0 .. NumPackets /\ p + 1 <= q /\ (p + 1) - 1 = p
    BY <1>1, <2>1
  <2>3. f[p + 1] = f[p] + WireLen(p + 1) /\ WireLen(p + 1) \in Nat /\ WireLen(p + 1) >= 8
    BY <1>2, <1>5, <2>2
  <2>4. f[p] \in Nat /\ f[p + 1] <= f[q] /\ f[p + 1] \in Nat /\ f[q] \in Nat
    BY <1>6, <2>2
  <2>5. QED
    BY <2>3, <2>4
<1>9. StreamLen = EndOf(NumPackets)
  BY DEF StreamLen, NumPackets
<1>10. \A p \in 0 .. NumPackets : EndOf(p) \in Nat /\ EndOf(p) >= IvLen /\ EndOf(p) <= StreamLen
  BY <1>1, <1>6, <1>7, <1>9
<1>11. /\ 0 \in 0 .. NumPackets
       /\ \A p \in 1 .. NumPackets : p - 1 \in 0 .. NumPackets /\ p \in 0 .. NumPackets
  BY <1>1
<1>12. EndOf(0) = IvLen
  BY <1>1, <1>5, <1>7, <1>11
<1>13. ASSUME NEW p \in 1 .. NumPackets PROVE EndOf(p) = EndOf(p - 1) + WireLen(p)
  <2>1. EndOf(p) = IvLen + f[p] /\ EndOf(p - 1) = IvLen + f[p - 1] /\ f[p - 1] \in Nat
    BY <1>6, <1>7, <1>11
  <2>2. f[p] = f[p - 1] + WireLen(p) /\ WireLen(p) \in Nat
    BY <1>2, <1>5
  <2>3. QED
    BY <1>1, <2>1, <2>2
<1>14. ASSUME NEW p \in 0 .. NumPackets, NEW q \in 0 .. NumPackets
       PROVE  (p < q => EndOf(p) < EndOf(q)) /\ (p <= q => EndOf(p) <= EndOf(q))
  <2>1. EndOf(p) = IvLen + f[p] /\ EndOf(q) = IvLen + f[q] /\ f[p] \in Nat /\ f[q] \in Nat
    BY <1>6, <1>7
  <2>2. (p < q => f[p] < f[q]) /\ (p <= q => f[p] <= f[q])
    BY <1>6, <1>8
  <2>3. QED
    BY <1>1, <2>1, <2>2
<1>15. QED
  BY <1>10, <1>12, <1>13, <1>14

\* The stream is chosen once.
LEMMA StreamKept ==
  ASSUME client' = client
  PROVE  /\ NumPackets' = NumPackets /\ StreamLen' = StreamLen /\ Packets' = Packets
         /\ \A p : EndOf(p)' = EndOf(p) /\ Count(p)' = Count(p) /\ WireLen(p)' = WireLen(p)
<1>1. NumPackets' = NumPackets /\ Packets' = Packets
  BY DEF NumPackets, Packets
<1>2. \A p : WireLen(p)' = WireLen(p)
  BY DEF WireLen, Overhead
<1>3. [q \in Packets |-> WireLen(q)]' = [q \in Packets |-> WireLen(q)]
  BY <1>1, <1>2
<1>4. \A p : EndOf(p)' = EndOf(p)
  BY <1>3 DEF EndOf
<1>5. \A p : Count(p)' = Count(p)
  BY DEF Count
<1>6. QED
  BY <1>1, <1>2, <1>4, <1>5 DEF StreamLen

----------------------------------------------------------------------------
(* Arithmetic modulo IdMod, and sequences of consecutive numbers. *)

\* The remainder is the only one.
LEMMA Remainder ==
  ASSUME NEW a \in Nat, NEW m \in Nat \ {0}, NEW q \in Int, NEW r \in 0 .. m - 1,
         a = m * q + r
  PROVE  a % m = r
OBVIOUS

\* Quotient and remainder.
LEMMA Division ==
  ASSUME NEW a \in Nat, NEW m \in Nat \ {0}
  PROVE  a % m \in 0 .. m - 1 /\ a \div m \in Nat /\ a = m * (a \div m) + (a % m)
<1>1. a % m \in 0 .. m - 1
  OBVIOUS
<1>2. a \div m \in Nat
  OBVIOUS
<1>3. a = m * (a \div m) + (a % m)
  OBVIOUS
<1>4. QED
  BY <1>1, <1>2, <1>3

\* A counter that wraps: adding before or after the remainder is the same.
LEMMA ModAdd ==
  ASSUME NEW a \in Nat, NEW b \in Nat, NEW m \in Nat \ {0}
  PROVE  ((a % m) + b) % m = (a + b) % m
<1> DEFINE q == a \div m
           r == a % m
           h == (r + b) \div m
           t == (r + b) % m
<1>1. q \in Nat /\ r \in 0 .. m - 1 /\ a = m * q + r
  BY Division
<1>2. r + b \in Nat
  BY <1>1
<1>3. h \in Nat /\ t \in 0 .. m - 1 /\ r + b = m * h + t
  BY <1>2, Division
<1> HIDE DEF q, r, h, t
<1>4. a + b = m * (q + h) + t /\ a + b \in Nat /\ q + h \in Int
  BY <1>1, <1>3
<1>5. (a + b) % m = t
  BY <1>3, <1>4, Remainder
<1>6. QED
  BY <1>5 DEF r, t

\* The counter after one more packet.
LEMMA ModSucc ==
  ASSUME NEW a \in Nat, NEW m \in Nat \ {0}
  PROVE  ((a % m) + 1) % m = (a + 1) % m
<1>1. PICK b \in Nat : b = 1
  OBVIOUS
<1>2. ((a % m) + b) % m = (a + b) % m
  BY ModAdd
<1>3. QED
  BY <1>1, <1>2

\* The n numbers after a.
Run(a, n) == [i \in 1 .. n |-> a + i]

\* A run is a sequence.
LEMMA RunType ==
  ASSUME NEW a \in Nat, NEW n \in Nat
  PROVE  /\ Run(a, n) \in Seq(Nat) /\ Len(Run(a, n)) = n
         /\ \A i \in 1 .. n : Run(a, n)[i] = a + i
BY DEF Run

\* Sequences are equal when they are so entry by entry.
LEMMA SameEntries ==
  ASSUME NEW s \in Seq(Nat), NEW t \in Seq(Nat), Len(s) = Len(t),
         \A i \in 1 .. Len(s) : s[i] = t[i]
  PROVE  s = t
OBVIOUS

\* A run continued where it ends.
LEMMA RunConcat ==
  ASSUME NEW a \in Nat, NEW m \in Nat, NEW n \in Nat
  PROVE  Run(a, m) \o Run(a + m, n) = Run(a, m + n)
<1> DEFINE s == Run(a, m)
           t == Run(a + m, n)
           w == Run(a, m + n)
<1>1. a + m \in Nat /\ m + n \in Nat
  OBVIOUS
<1>2. /\ s \in Seq(Nat) /\ Len(s) = m /\ \A i \in 1 .. m : s[i] = a + i
      /\ t \in Seq(Nat) /\ Len(t) = n /\ \A i \in 1 .. n : t[i] = (a + m) + i
      /\ w \in Seq(Nat) /\ Len(w) = m + n /\ \A i \in 1 .. m + n : w[i] = a + i
  BY <1>1, RunType
<1> HIDE DEF s, t, w
<1> DEFINE c == s \o t
<1>3. /\ c \in Seq(Nat) /\ Len(c) = m + n
      /\ \A i \in 1 .. m + n : c[i] = IF i <= m THEN s[i] ELSE t[i - m]
  BY <1>2, ConcatProperties
<1> HIDE DEF c
<1>4. ASSUME NEW i \in 1 .. m + n PROVE c[i] = w[i]
  <2>1. CASE i <= m
    BY <1>2, <1>3, <2>1
  <2>2. CASE i > m
    <3>1. ~(i <= m) /\ i - m \in 1 .. n
      BY <2>2
    <3>2. c[i] = t[i - m]
      BY <1>3, <3>1
    <3>3. w[i] = a + i /\ t[i - m] = (a + m) + (i - m)
      BY <1>2, <3>1
    <3>4. QED
      BY <3>2, <3>3
  <2>3. QED
    BY <2>1, <2>2
<1>5. c = w
  BY <1>2, <1>3, <1>4, SameEntries
<1>6. QED
  BY <1>5 DEF c, s, t, w

\* A run cut in two.
LEMMA RunSplit ==
  ASSUME NEW m \in Nat, NEW k \in 0 .. m
  PROVE  SubSeq(Run(0, m), 1, k) = Run(0, k) /\ SubSeq(Run(0, m), k + 1, m) = Run(k, m - k)
<1> DEFINE s == Run(0, m)
<1>1. s \in Seq(Nat) /\ Len(s) = m /\ \A i \in 1 .. m : s[i] = 0 + i
  BY RunType
<1> HIDE DEF s
<1>2. SubSeq(s, 1, k) = Run(0, k)
  <2>1. /\ SubSeq(s, 1, k) \in Seq(Nat) /\ Len(SubSeq(s, 1, k)) = k
        /\ \A i \in 1 .. k : SubSeq(s, 1, k)[i] = i
    BY <1>1
  <2>2. Run(0, k) \in Seq(Nat) /\ Len(Run(0, k)) = k /\ \A i \in 1 .. k : Run(0, k)[i] = i
    BY RunType
  <2>3. QED
    BY <2>1, <2>2, SameEntries
<1>3. SubSeq(s, k + 1, m) = Run(k, m - k)
  <2>1. /\ SubSeq(s, k + 1, m) \in Seq(Nat) /\ Len(SubSeq(s, k + 1, m)) = m - k
        /\ \A i \in 1 .. m - k : SubSeq(s, k + 1, m)[i] = k + i
    BY <1>1
  <2>2. /\ Run(k, m - k) \in Seq(Nat) /\ Len(Run(k, m - k)) = m - k
        /\ \A i \in 1 .. m - k : Run(k, m - k)[i] = k + i
    BY RunType
  <2>3. QED
    BY <2>1, <2>2, SameEntries
<1>4. QED
  BY <1>2, <1>3 DEF s

----------------------------------------------------------------------------
(* The decoder: AuthPacket, then turns of DataPacket. *)

\* A stretch of the stream.
Buffer == [first : Nat, size : Nat]

\* Packet numbers.
Ids == 0 .. IdMod - 1

\* The states server_post_decrypt goes through.
DecoderState ==
  [buf : Buffer, has : BOOLEAN, id : DOMAIN Users \cup {None}, key : Keys,
   recv : Ids, out : Seq(Nat), go : {"on", "wait", "failed"}]

\* The client signs with the key the server looks up for its uid.
Mine == UserKey(client.uid) = client.key

\* The server knows whom it talks to.
Recognised(id, key) == Mine /\ id = UserId(client.uid) /\ key = client.key

\* A decoder that has read d packets from a buffer that ends at byte x of the
\* stream, the first c of them in earlier calls.
Decoded(st, c, d, x) ==
  /\ d \in 0 .. NumPackets /\ c \in 0 .. d /\ x \in IvLen .. StreamLen
  /\ st.buf.first = EndOf(d) /\ st.buf.first + st.buf.size = x
  /\ st.has <=> d > 0
  /\ d > 0 => Recognised(st.id, st.key)
  /\ st.recv = (IF d = 0 THEN 1 ELSE d) % IdMod
  /\ st.out = Run(Count(c), Count(d) - Count(c))
  /\ client.at # 0 => d < client.at

\* The same, with no complete packet left in the buffer.
Drawn(st, c, d, x) ==
  Decoded(st, c, d, x) /\ (Mine /\ d < NumPackets => x < EndOf(d + 1))

\* What a turn finds at the start of the buffer, packet p: no length, one that
\* is refused, part of the packet, a packet with a wrong checksum, one with too
\* much padding, or a good one.
Short(st) == st.buf.size <= 4
Refused(st, p) ==
  /\ ~Short(st)
  /\ \/ p = 0 \/ st.key # client.key \/ st.recv # PacketId(p) \/ Wrong(p, "mac")
     \/ LengthField(p) \notin MinData .. MaxPacket - 1
Admitted(st, p) ==
  ~Short(st) /\ p # 0 /\ ~Wrong(p, "mac") /\ LengthField(p) \in MinData .. MaxPacket - 1
Partial(st, p) == Admitted(st, p) /\ LengthField(p) > st.buf.size
Forged(st, p) ==
  Admitted(st, p) /\ ~(LengthField(p) > st.buf.size) /\ ~Checksum(p, LengthField(p))
Overrun(p) == 4 + PadField(p) > LengthField(p) - MacLen
Overrunning(st, p) ==
  /\ Admitted(st, p) /\ ~(LengthField(p) > st.buf.size) /\ Checksum(p, LengthField(p))
  /\ Overrun(p)
Whole(st, p) ==
  /\ Admitted(st, p) /\ ~(LengthField(p) > st.buf.size) /\ Checksum(p, LengthField(p))
  /\ ~Overrun(p)

\* A data packet's turn as a list of cases.
TurnCases(st, p, r) ==
  \/ Short(st) /\ r = [st EXCEPT !.go = "wait"]
  \/ Refused(st, p) /\ r = [st EXCEPT !.go = "failed"]
  \/ Partial(st, p) /\ r = [st EXCEPT !.go = "wait"]
  \/ Forged(st, p) /\ r = [st EXCEPT !.go = "failed"]
  \/ Overrunning(st, p) /\ r = [st EXCEPT !.recv = (st.recv + 1) % IdMod, !.go = "failed"]
  \/ /\ Whole(st, p)
     /\ r = [st EXCEPT !.recv = (st.recv + 1) % IdMod,
                       !.out = st.out \o Payload(p, 4 + PadField(p), LengthField(p) - MacLen),
                       !.buf = Drained(st.buf, LengthField(p))]

\* These are the cases of DataPacket.
LEMMA DataPacketCases ==
  ASSUME NEW st, NEW p, p = PacketAt(st.buf), NEW r, r = DataPacket(st)
  PROVE  TurnCases(st, p, r)
BY Zenon DEF TurnCases, DataPacket, Short, Refused, Admitted, Partial, Forged, Overrun,
             Overrunning, Whole

\* The packet a decoder starts its turn with is the next one.
LEMMA NextPacket ==
  ASSUME client \in Clients, NEW buf, NEW d \in 0 .. NumPackets, buf.first = EndOf(d)
  PROVE  PacketAt(buf) = IF d < NumPackets THEN d + 1 ELSE 0
<1>1. NumPackets \in Nat \ {0} /\ Packets = 1 .. NumPackets
  BY ClientFields
<1>2. \A p, q \in 0 .. NumPackets : p < q => EndOf(p) < EndOf(q)
  BY EndFacts
<1>3. \A p \in 0 .. NumPackets : EndOf(p) \in Nat
  BY EndFacts
<1>4. ASSUME NEW p \in 1 .. NumPackets, Starts(buf, p) PROVE p = d + 1
  <2>1. p - 1 \in 0 .. NumPackets /\ EndOf(p - 1) = EndOf(d)
    BY <1>1, <1>4 DEF Starts
  <2>2. ~(p - 1 < d) /\ ~(d < p - 1)
    BY <1>2, <1>3, <2>1
  <2>3. QED
    BY <1>1, <2>1, <2>2
<1>5. CASE d < NumPackets
  <2>1. d + 1 \in 1 .. NumPackets /\ (d + 1) - 1 = d
    BY <1>1, <1>5
  <2>2. Starts(buf, d + 1)
    BY <1>1, <2>1 DEF Starts
  <2>3. \E p \in Packets : Starts(buf, p)
    BY <1>1, <2>1, <2>2
  <2>4. PacketAt(buf) = CHOOSE p \in Packets : Starts(buf, p)
    BY <2>3 DEF PacketAt
  <2>5. PacketAt(buf) \in Packets /\ Starts(buf, PacketAt(buf))
    BY <2>3, <2>4
  <2>6. QED
    BY <1>1, <1>4, <1>5, <2>5
<1>6. CASE ~(d < NumPackets)
  <2>1. ~\E p \in Packets : Starts(buf, p)
    BY <1>1, <1>4, <1>6
  <2>2. QED
    BY <1>6, <2>1 DEF PacketAt
<1>7. QED
  BY <1>5, <1>6

\* What becomes of a decoder's state when a call goes on, waits or fails.
LEMMA GoChanged ==
  ASSUME NEW st \in DecoderState, NEW g \in {"on", "wait", "failed"},
         NEW r, r = [st EXCEPT !.go = g]
  PROVE  /\ r \in DecoderState /\ r.go = g /\ r.buf = st.buf /\ r.has = st.has
         /\ r.id = st.id /\ r.key = st.key /\ r.recv = st.recv /\ r.out = st.out
BY DEF DecoderState

\* What becomes of it when a data packet is read.
Taken(st, n, o, b, r) ==
  /\ r \in DecoderState /\ r.go = st.go /\ r.buf = b /\ r.has = st.has
  /\ r.id = st.id /\ r.key = st.key /\ r.recv = n /\ r.out = o

\* It is still a decoder state.
LEMMA PacketTaken ==
  ASSUME NEW st \in DecoderState, NEW n \in Ids, NEW o \in Seq(Nat),
         NEW b \in Buffer, NEW r, r = [st EXCEPT !.recv = n, !.out = o, !.buf = b]
  PROVE  Taken(st, n, o, b, r)
BY DEF DecoderState, Taken

\* The payload of a packet that passed its checks.
LEMMA PayloadRun ==
  ASSUME client \in Clients, NEW p \in 1 .. NumPackets
  PROVE  Payload(p, Overhead(p), WireLen(p) - MacLen) = Run(Count(p - 1), client.cuts[p])
<1>1. /\ client.cuts[p] \in Nat /\ Overhead(p) \in Nat
      /\ WireLen(p) - MacLen - Overhead(p) = client.cuts[p]
  BY PacketFields DEF MacLen
<1>2. p - 1 \in 0 .. NumPackets
  BY ClientFields
<1>3. Count(p - 1) \in Nat
  BY <1>2, CountFacts
<1>4. \A i \in Nat : Count(p - 1) + Overhead(p) - Overhead(p) + i = Count(p - 1) + i
  BY <1>1, <1>3
<1>5. QED
  BY <1>1, <1>4 DEF Payload, Run

\* What a turn may make of a decoder that has read d packets.
TurnResult(st, c, d, x, r) ==
  /\ r \in DecoderState /\ r.id = st.id /\ r.key = st.key /\ r.has = st.has
  /\ \/ r.go = "failed" /\ ~Correct /\ r.buf = st.buf
     \/ r.go = "on" /\ Decoded(r, c, d + 1, x)
     \/ r.go = "wait" /\ Drawn(r, c, d, x)

\* A turn on a decoder that has read d packets waits for the rest of the next
\* one, reads it, or fails, and fails only on a client that is at fault.
LEMMA DataPacketStep ==
  ASSUME client \in Clients, NEW st \in DecoderState, st.go = "on",
         NEW c, NEW d, NEW x, Decoded(st, c, d, x), d # 0,
         NEW r, r = DataPacket(st)
  PROVE  TurnResult(st, c, d, x, r)
<1> DEFINE p == d + 1
<1>1. /\ NumPackets \in Nat \ {0} /\ IdMod \in Nat \ {0} /\ Packets = 1 .. NumPackets
      /\ client.at \in 0 .. NumPackets
      /\ client.wrong \in {"head", "auth", "length", "sum", "pad", "mac"}
      /\ client.at > 1 => client.wrong \notin {"head", "auth"}
  BY ClientFields, AuthAssumption
<1>2. /\ d \in 1 .. NumPackets /\ d \in Nat /\ c \in 0 .. d
      /\ st.buf.first = EndOf(d) /\ st.buf.first + st.buf.size = x
      /\ st.has /\ st.key = client.key /\ Mine /\ st.id = UserId(client.uid)
      /\ st.recv = d % IdMod /\ st.out = Run(Count(c), Count(d) - Count(c))
      /\ x \in IvLen .. StreamLen
      /\ client.at # 0 => d < client.at
  BY <1>1 DEF Decoded, Recognised
<1>3. st.buf \in Buffer /\ st.buf.first \in Nat /\ st.buf.size \in Nat
  BY DEF DecoderState, Buffer
<1>4. /\ EndOf(d) \in Nat /\ EndOf(NumPackets) = StreamLen
      /\ x \in Nat /\ StreamLen \in Nat /\ x <= StreamLen
  BY <1>1, <1>2, EndFacts, AuthAssumption DEF StreamLen, NumPackets
<1>5. CASE r = [st EXCEPT !.go = "wait"] /\ (d < NumPackets => x < EndOf(p))
  <2>1. /\ r \in DecoderState /\ r.go = "wait" /\ r.buf = st.buf /\ r.has = st.has
        /\ r.id = st.id /\ r.key = st.key /\ r.recv = st.recv /\ r.out = st.out
    BY <1>5, GoChanged
  <2>2. Decoded(r, c, d, x)
    BY <2>1 DEF Decoded
  <2>3. QED
    BY <1>5, <2>1, <2>2 DEF Drawn, TurnResult
<1>6. CASE r = [st EXCEPT !.go = "failed"] /\ ~Correct
  <2>1. /\ r \in DecoderState /\ r.go = "failed" /\ r.buf = st.buf /\ r.has = st.has
        /\ r.id = st.id /\ r.key = st.key
    BY <1>6, GoChanged
  <2>2. QED
    BY <1>6, <2>1 DEF TurnResult
<1>7. CASE d = NumPackets
  <2>1. st.buf.size <= 4
    BY <1>2, <1>3, <1>4, <1>7
  <2>2. r = [st EXCEPT !.go = "wait"]
    <3>1. TurnCases(st, PacketAt(st.buf), r)
      BY DataPacketCases
    <3>2. QED
      BY <2>1, <3>1 DEF TurnCases, Short, Refused, Admitted, Partial, Forged, Overrunning, Whole
  <2>3. QED
    BY <1>2, <1>5, <1>7, <2>2
<1>8. CASE d < NumPackets
  <2>1. /\ p \in 1 .. NumPackets /\ p > 1 /\ PacketAt(st.buf) = p /\ p - 1 = d
        /\ p \in 0 .. NumPackets /\ d \in 0 .. NumPackets
    BY <1>1, <1>2, <1>8, NextPacket
  <2>2. /\ WireLen(p) \in Nat /\ WireLen(p) >= 8 /\ EndOf(p) = EndOf(d) + WireLen(p)
        /\ Overhead(p) = client.pads[p] + 4 /\ WireLen(p) = Overhead(p) + client.cuts[p] + 4
        /\ client.pads[p] \in Nat /\ client.cuts[p] \in Nat
    BY <2>1, PacketFields, EndFacts
  <2>3. PacketId(p) = d % IdMod
    BY <2>1 DEF PacketId
  <2>4. /\ Wrong(p, "length") => LengthField(p) = 6
        /\ ~Wrong(p, "length") => LengthField(p) = WireLen(p)
        /\ Wrong(p, "pad") => PadField(p) = 8192
        /\ ~Wrong(p, "pad") => PadField(p) = client.pads[p]
    BY DEF LengthField, PadField, MaxPacket
  <2>5. /\ \A w : Wrong(p, w) => ~Correct
        /\ ~(WireLen(p) < MaxPacket) => ~Correct
    BY <1>1, <2>1 DEF Wrong, Correct
  <2> HIDE DEF p
  <2>6. CASE Short(st) /\ r = [st EXCEPT !.go = "wait"]
    <3>1. x < EndOf(p)
      BY <1>2, <1>3, <1>4, <2>2, <2>6 DEF Short
    <3>2. QED
      BY <1>5, <2>6, <3>1
  <2>7. CASE Refused(st, p) /\ r = [st EXCEPT !.go = "failed"]
    <3>1. CASE Wrong(p, "mac") \/ Wrong(p, "length")
      BY <1>6, <2>5, <2>7, <3>1
    <3>2. CASE ~Wrong(p, "mac") /\ ~Wrong(p, "length")
      <4>1. LengthField(p) = WireLen(p) /\ LengthField(p) \notin MinData .. MaxPacket - 1
        BY <1>2, <2>1, <2>3, <2>4, <2>7, <3>2 DEF Refused
      <4>2. ~(WireLen(p) < MaxPacket)
        <5>1. PICK n \in Nat : n = WireLen(p)
          BY <2>2
        <5>2. n >= 8
          BY <2>2, <5>1
        <5>3. n \notin MinData .. MaxPacket - 1
          BY <4>1, <5>1
        <5>4. ~(n < 8192)
          BY <5>2, <5>3 DEF MinData, MaxPacket
        <5>5. QED
          BY <5>1, <5>4 DEF MaxPacket
      <4>3. QED
        BY <1>6, <2>5, <2>7, <4>2
    <3>3. QED
      BY <3>1, <3>2
  <2>8. Admitted(st, p) => LengthField(p) = WireLen(p) /\ ~Wrong(p, "length")
    BY <2>4 DEF Admitted, MinData
  <2>9. CASE Partial(st, p) /\ r = [st EXCEPT !.go = "wait"]
    <3>1. x < EndOf(p)
      BY <1>2, <1>3, <1>4, <2>2, <2>8, <2>9 DEF Partial
    <3>2. QED
      BY <1>5, <2>9, <3>1
  <2>10. CASE Forged(st, p) /\ r = [st EXCEPT !.go = "failed"]
    <3>1. Wrong(p, "sum")
      BY <2>1, <2>8, <2>10 DEF Forged, Checksum
    <3>2. QED
      BY <1>6, <2>5, <2>10, <3>1
  <2>11. (st.recv + 1) % IdMod = p % IdMod /\ (st.recv + 1) % IdMod \in Ids
    <3>1. PICK n \in Nat, m \in Nat \ {0} : n = d /\ m = IdMod
      BY <1>1, <1>2
    <3>2. ((n % m) + 1) % m = (n + 1) % m
      BY ModSucc
    <3>3. n + 1 \in Nat
      OBVIOUS
    <3>4. (n + 1) % m \in 0 .. m - 1
      BY <3>3, Division
    <3>5. (st.recv + 1) % IdMod = (n + 1) % m /\ p = n + 1
      BY <1>2, <3>1, <3>2 DEF p
    <3>6. QED
      BY <3>1, <3>4, <3>5 DEF Ids
  <2>12. CASE /\ Overrunning(st, p)
              /\ r = [st EXCEPT !.recv = (st.recv + 1) % IdMod, !.go = "failed"]
    <3>1. Wrong(p, "pad")
      BY <2>2, <2>4, <2>8, <2>12 DEF Overrunning, Overrun, MacLen
    <3>2. /\ r \in DecoderState /\ r.go = "failed" /\ r.buf = st.buf /\ r.has = st.has
          /\ r.id = st.id /\ r.key = st.key
      BY <2>11, <2>12 DEF DecoderState
    <3>3. QED
      BY <2>5, <3>1, <3>2 DEF TurnResult
  <2>13. CASE /\ Whole(st, p)
              /\ r = [st EXCEPT !.recv = (st.recv + 1) % IdMod,
                                !.out = st.out \o Payload(p, 4 + PadField(p), LengthField(p) - MacLen),
                                !.buf = Drained(st.buf, LengthField(p))]
    <3>1. /\ LengthField(p) = WireLen(p) /\ ~Wrong(p, "length") /\ ~Wrong(p, "sum")
          /\ ~Wrong(p, "mac") /\ WireLen(p) \in 7 .. 8191 /\ ~(WireLen(p) > st.buf.size)
      <4>1. /\ Admitted(st, p) /\ Checksum(p, LengthField(p)) /\ ~(LengthField(p) > st.buf.size)
        BY <2>13, Zenon DEF Whole
      <4>2. ~Wrong(p, "mac") /\ LengthField(p) \in MinData .. MaxPacket - 1
        BY <4>1, Zenon DEF Admitted
      <4>3. MinData .. MaxPacket - 1 = 7 .. 8191
        BY DEF MinData, MaxPacket
      <4>4. LengthField(p) = WireLen(p) /\ ~Wrong(p, "length") /\ ~Wrong(p, "sum")
        BY <2>8, <4>1, Zenon DEF Checksum
      <4>5. LengthField(p) \in 7 .. 8191
        BY <4>2, <4>3
      <4>6. QED
        BY <4>1, <4>2, <4>4, <4>5
    <3>2. ~Wrong(p, "pad")
      <4>1. PICK n \in Nat : n = WireLen(p)
        BY <2>2
      <4>2. ~(4 + PadField(p) > n - 4)
        BY <2>13, <3>1, <4>1 DEF Whole, Overrun, MacLen
      <4>3. ASSUME PadField(p) = 8192 PROVE FALSE
        <5>1. ~(4 + 8192 > n - 4)
          BY <4>2, <4>3
        <5>2. n \in 7 .. 8191
          BY <3>1, <4>1
        <5>3. QED
          BY <5>1, <5>2
      <4>4. QED
        BY <2>4, <4>3
    <3>3. 4 + PadField(p) = Overhead(p)
      BY <2>2, <2>4, <3>2
    <3>4. client.at # 0 => p < client.at
      <4>1. client.at # p
        BY <1>1, <2>1, <3>1, <3>2 DEF Wrong
      <4>2. QED
        BY <1>1, <1>2, <2>1, <4>1
    <3>5. /\ c \in 0 .. NumPackets /\ Count(c) \in Nat /\ Count(d) \in Nat /\ Count(c) <= Count(d)
          /\ Count(p) = Count(d) + client.cuts[p]
      <4>1. c \in 0 .. NumPackets /\ c <= d
        BY <1>1, <1>2
      <4>2. QED
        BY <2>1, <4>1, CountFacts
    <3> DEFINE o == st.out \o Payload(p, 4 + PadField(p), LengthField(p) - MacLen)
               n == (st.recv + 1) % IdMod
               b == Drained(st.buf, LengthField(p))
    <3>6. o = Run(Count(c), Count(p) - Count(c)) /\ o \in Seq(Nat)
      <4>1. Payload(p, 4 + PadField(p), LengthField(p) - MacLen) = Run(Count(d), client.cuts[p])
        BY <2>1, <3>1, <3>3, PayloadRun
      <4>2. PICK a \in Nat, m \in Nat, k \in Nat :
              a = Count(c) /\ m = Count(d) - Count(c) /\ k = client.cuts[p]
        BY <2>2, <3>5
      <4>3. a + m = Count(d) /\ m + k = Count(p) - Count(c) /\ m + k \in Nat
        BY <2>2, <3>5, <4>2
      <4>4. Run(a, m) \o Run(a + m, k) = Run(a, m + k) /\ Run(a, m + k) \in Seq(Nat)
        BY <4>3, RunConcat, RunType
      <4>5. QED
        BY <1>2, <4>1, <4>2, <4>3, <4>4
    <3>7. b \in Buffer /\ b.first = EndOf(p) /\ b.first + b.size = x
      <4>1. b = [first |-> st.buf.first + WireLen(p), size |-> st.buf.size - WireLen(p)]
        BY <3>1 DEF Drained
      <4>2. /\ st.buf.first + WireLen(p) = EndOf(p) /\ EndOf(p) \in Nat
            /\ st.buf.size - WireLen(p) \in Nat /\ EndOf(p) + (st.buf.size - WireLen(p)) = x
        <5>1. PICK a \in Nat, w \in Nat, z \in Nat :
                a = EndOf(d) /\ w = WireLen(p) /\ z = st.buf.size
          BY <1>3, <1>4, <2>2
        <5>2. st.buf.first = a /\ a + z = x
          BY <1>2, <5>1
        <5>3. EndOf(p) = a + w
          BY <2>2, <5>1
        <5>4. ~(w > z)
          BY <3>1, <5>1
        <5>5. z - w \in Nat /\ (a + w) + (z - w) = a + z
          BY <5>4
        <5>6. QED
          BY <5>1, <5>2, <5>3, <5>5
      <4>3. QED
        BY <4>1, <4>2 DEF Buffer
    <3>8. n = p % IdMod /\ n \in Ids
      BY <2>11
    <3>9. r = [st EXCEPT !.recv = n, !.out = o, !.buf = b]
      BY <2>13
    <3> HIDE DEF n, o, b
    <3>10. /\ r \in DecoderState /\ r.go = st.go /\ r.buf = b /\ r.has = st.has
           /\ r.id = st.id /\ r.key = st.key /\ r.recv = n /\ r.out = o
      <4>1. n \in Ids /\ o \in Seq(Nat) /\ b \in Buffer
        BY <3>6, <3>7, <3>8
      <4>2. Taken(st, n, o, b, r)
        BY <3>9, <4>1, PacketTaken, Zenon
      <4>3. QED
        BY <4>2 DEF Taken
    <3>11. Decoded(r, c, p, x)
      BY <1>1, <1>2, <2>1, <3>4, <3>5, <3>6, <3>7, <3>8, <3>10 DEF Decoded, Recognised
    <3>12. QED
      BY <3>10, <3>11 DEF p, TurnResult
  <2>14. p = PacketAt(st.buf)
    BY <2>1
  <2>15. TurnCases(st, p, r)
    BY <2>14, DataPacketCases
  <2>16. QED
    BY <2>6, <2>7, <2>9, <2>10, <2>12, <2>13, <2>15, Zenon DEF TurnCases
<1>9. QED
  BY <1>1, <1>2, <1>7, <1>8

\* The key and id looked up for a uid.
LEMMA LookupTypes ==
  UserKey(client.uid) \in Keys /\ UserId(client.uid) \in DOMAIN Users \cup {None}
<1>1. CASE client.uid \in DOMAIN Users
  BY <1>1 DEF UserKey, UserId, Keys, Range
<1>2. CASE client.uid \notin DOMAIN Users
  BY <1>2 DEF UserKey, UserId, Keys
<1>3. QED
  BY <1>1, <1>2

\* The length the server reads in the auth header.
AuthLength == IF Mine THEN LengthField(1) ELSE client.noise

\* What the call finds of the auth packet: a head that is refused or not yet
\* there, a header that is forged, a packet that is refused, part of one, or a
\* good one.
HeadRefused(st) == st.buf.size >= CheckHead /\ (~Starts(st.buf, 1) \/ Wrong(1, "head"))
HeadPartial(st) == ~HeadRefused(st) /\ st.buf.size < AuthHead
HeadForged(st) == ~HeadRefused(st) /\ ~(st.buf.size < AuthHead) /\ Wrong(1, "auth")
HeadGood(st) == ~HeadRefused(st) /\ ~(st.buf.size < AuthHead) /\ ~Wrong(1, "auth")
AuthBad(st) ==
  \/ AuthLength \notin AuthHead .. MaxPacket - 1
  \/ /\ st.buf.size >= AuthLength
     /\ ~Mine \/ ~Checksum(1, AuthLength) \/ AuthHead + PadField(1) > AuthLength - MacLen
AuthRefused(st) == HeadGood(st) /\ AuthBad(st)
AuthPartial(st) == HeadGood(st) /\ ~AuthBad(st) /\ st.buf.size < AuthLength
AuthWhole(st) == HeadGood(st) /\ ~AuthBad(st) /\ ~(st.buf.size < AuthLength)

\* The state with the user of the header filled in.
Known(st) == [st EXCEPT !.id = UserId(client.uid), !.key = UserKey(client.uid)]

\* The auth packet's part of a call as a list of cases.
AuthCases(st, r) ==
  \/ HeadRefused(st) /\ r = [st EXCEPT !.go = "failed"]
  \/ HeadPartial(st) /\ r = [st EXCEPT !.go = "wait"]
  \/ HeadForged(st) /\ r = [st EXCEPT !.go = "failed"]
  \/ AuthRefused(st) /\ r = [Known(st) EXCEPT !.go = "failed"]
  \/ AuthPartial(st) /\ r = [Known(st) EXCEPT !.go = "wait"]
  \/ /\ AuthWhole(st)
     /\ r = [Known(st) EXCEPT !.has = TRUE,
                              !.out = Payload(1, AuthHead + PadField(1), AuthLength - MacLen),
                              !.buf = Drained(st.buf, AuthLength)]

\* These are the cases of AuthPacket.
LEMMA AuthPacketCases ==
  ASSUME NEW st, NEW r, r = AuthPacket(st)
  PROVE  AuthCases(st, r)
BY Zenon DEF AuthCases, AuthPacket, AuthLength, Mine, HeadRefused, HeadPartial, HeadForged,
             HeadGood, AuthBad, AuthRefused, AuthPartial, AuthWhole, Known

\* The state with the user filled in is a decoder state.
LEMMA KnownState ==
  ASSUME NEW st \in DecoderState, NEW k, k = Known(st)
  PROVE  /\ k \in DecoderState /\ k.go = st.go /\ k.buf = st.buf /\ k.has = st.has
         /\ k.recv = st.recv /\ k.out = st.out
         /\ k.id = UserId(client.uid) /\ k.key = UserKey(client.uid)
BY LookupTypes DEF Known, DecoderState

\* What becomes of it when the auth packet is read.
AuthTaken(k, o, b, r) ==
  /\ r \in DecoderState /\ r.go = k.go /\ r.buf = b /\ r.has = TRUE
  /\ r.id = k.id /\ r.key = k.key /\ r.recv = k.recv /\ r.out = o

\* It is still a decoder state, now with the header.
LEMMA AuthPacketTaken ==
  ASSUME NEW k \in DecoderState, NEW o \in Seq(Nat), NEW b \in Buffer,
         NEW r, r = [k EXCEPT !.has = TRUE, !.out = o, !.buf = b]
  PROVE  AuthTaken(k, o, b, r)
BY DEF AuthTaken, DecoderState

\* What a call may make of a decoder that has read nothing.
AuthResult(x, r) ==
  /\ r \in DecoderState
  /\ \/ r.go = "failed" /\ ~(Correct /\ Mine) /\ r.buf.first = IvLen /\ IvLen + r.buf.size = x
     \/ r.go = "on" /\ Decoded(r, 0, 1, x)
     \/ r.go = "wait" /\ Drawn(r, 0, 0, x)
\* The first packet makes the server know its client, or is waited for; the
\* session fails on it only when the client is at fault.
LEMMA AuthPacketStep ==
  ASSUME client \in Clients, NEW st \in DecoderState, st.go = "on",
         NEW x, Decoded(st, 0, 0, x), NEW r, r = AuthPacket(st)
  PROVE  AuthResult(x, r)
<1>1. /\ NumPackets \in Nat \ {0} /\ IdMod \in Nat \ {0} /\ Packets = 1 .. NumPackets
      /\ client.at \in 0 .. NumPackets
      /\ client.wrong \in {"head", "auth", "length", "sum", "pad", "mac"}
      /\ client.at = 1 => client.wrong # "mac"
  BY ClientFields, AuthAssumption
<1>2. /\ EndOf(0) = IvLen /\ IvLen \in Nat /\ x \in IvLen .. StreamLen
      /\ st.buf.first = IvLen /\ IvLen + st.buf.size = x /\ st.has = FALSE
      /\ st.recv = 1 % IdMod /\ st.out = Run(Count(0), Count(0) - Count(0))
  BY EndFacts, AuthAssumption DEF Decoded, DecoderState
<1>3. st.buf \in Buffer /\ st.buf.first \in Nat /\ st.buf.size \in Nat
  BY DEF DecoderState, Buffer
<1>4. 1 \in 1 .. NumPackets /\ 1 \in 0 .. NumPackets /\ 0 \in 0 .. NumPackets
  BY <1>1
<1>5. /\ WireLen(1) \in Nat /\ WireLen(1) >= 35 /\ EndOf(1) = IvLen + WireLen(1)
      /\ Overhead(1) = client.pads[1] + 31 /\ WireLen(1) = Overhead(1) + client.cuts[1] + 4
      /\ client.pads[1] \in Nat /\ client.cuts[1] \in Nat
  BY <1>2, <1>4, PacketFields, EndFacts
<1>6. /\ Wrong(1, "length") => LengthField(1) = 6
      /\ ~Wrong(1, "length") => LengthField(1) = WireLen(1)
      /\ Wrong(1, "pad") => PadField(1) = 8192
      /\ ~Wrong(1, "pad") => PadField(1) = client.pads[1]
  BY DEF LengthField, PadField, MaxPacket
<1>7. /\ \A w : Wrong(1, w) => ~Correct
      /\ ~(WireLen(1) < MaxPacket) => ~Correct
  BY <1>1, <1>4 DEF Wrong, Correct
<1>8. Starts(st.buf, 1)
  BY <1>1, <1>2, <1>4 DEF Starts
<1>9. \A s \in DecoderState :
        (s.go = "failed" /\ s.buf = st.buf /\ ~(Correct /\ Mine)) => (s = r => AuthResult(x, r))
  BY <1>2 DEF AuthResult
<1>10. \A s \in DecoderState :
         /\ s.go = "wait" /\ s.buf = st.buf /\ s.has = st.has /\ s.recv = st.recv
         /\ s.out = st.out /\ (Mine => x < EndOf(1))
         => (s = r => AuthResult(x, r))
  <2>1. SUFFICES ASSUME NEW s \in DecoderState, s = r, s.go = "wait", s.buf = st.buf,
                        s.has = st.has, s.recv = st.recv, s.out = st.out, Mine => x < EndOf(1)
                 PROVE  AuthResult(x, r)
    OBVIOUS
  <2>2. Decoded(s, 0, 0, x)
    BY <2>1 DEF Decoded
  <2>3. QED
    BY <2>1, <2>2 DEF AuthResult, Drawn
<1>11. CASE HeadRefused(st) /\ r = [st EXCEPT !.go = "failed"]
  <2>1. ~Correct
    BY <1>7, <1>8, <1>11 DEF HeadRefused
  <2>2. r \in DecoderState /\ r.go = "failed" /\ r.buf = st.buf
    BY <1>11, GoChanged
  <2>3. QED
    BY <1>9, <2>1, <2>2
<1>12. CASE HeadPartial(st) /\ r = [st EXCEPT !.go = "wait"]
  <2>1. x < EndOf(1)
    BY <1>2, <1>3, <1>5, <1>12 DEF HeadPartial, AuthHead
  <2>2. /\ r \in DecoderState /\ r.go = "wait" /\ r.buf = st.buf /\ r.has = st.has
        /\ r.recv = st.recv /\ r.out = st.out
    BY <1>12, GoChanged
  <2>3. QED
    BY <1>10, <2>1, <2>2
<1>13. CASE HeadForged(st) /\ r = [st EXCEPT !.go = "failed"]
  <2>1. ~Correct
    BY <1>7, <1>13 DEF HeadForged
  <2>2. r \in DecoderState /\ r.go = "failed" /\ r.buf = st.buf
    BY <1>13, GoChanged
  <2>3. QED
    BY <1>9, <2>1, <2>2
<1>14. PICK k : k = Known(st)
  OBVIOUS
<1>15. /\ k \in DecoderState /\ k.go = "on" /\ k.buf = st.buf /\ k.has = st.has
       /\ k.recv = st.recv /\ k.out = st.out
       /\ k.id = UserId(client.uid) /\ k.key = UserKey(client.uid)
  BY <1>14, KnownState
<1>16. Mine => AuthLength = LengthField(1)
  BY DEF AuthLength
<1>17. CASE AuthRefused(st) /\ r = [k EXCEPT !.go = "failed"]
  <2>1. r \in DecoderState /\ r.go = "failed" /\ r.buf = st.buf
    BY <1>15, <1>17, GoChanged
  <2>2. ~(Correct /\ Mine)
    <3>1. SUFFICES ASSUME Correct, Mine PROVE FALSE
      OBVIOUS
    <3>2. /\ ~Wrong(1, "length") /\ ~Wrong(1, "sum") /\ ~Wrong(1, "pad") /\ WireLen(1) < 8192
      BY <1>7, <3>1 DEF MaxPacket
    <3>3. AuthLength = WireLen(1) /\ PadField(1) = client.pads[1]
      BY <1>6, <1>16, <3>1, <3>2
    <3>4. Checksum(1, AuthLength)
      BY <3>2, <3>3 DEF Checksum
    <3>5. AuthLength \in AuthHead .. MaxPacket - 1
      <4>1. PICK n \in Nat : n = WireLen(1)
        BY <1>5
      <4>2. n >= 35 /\ n < 8192
        BY <1>5, <3>2, <4>1
      <4>3. n \in 31 .. 8191
        BY <4>2
      <4>4. QED
        BY <3>3, <4>1, <4>3 DEF AuthHead, MaxPacket
    <3>6. ~(AuthHead + PadField(1) > AuthLength - MacLen)
      <4>1. PICK a \in Nat, b \in Nat : a = client.pads[1] /\ b = client.cuts[1]
        BY <1>5
      <4>2. ~(31 + a > ((a + 31) + b + 4) - 4)
        OBVIOUS
      <4>3. AuthLength = (a + 31) + b + 4 /\ PadField(1) = a
        BY <1>5, <3>3, <4>1
      <4>4. QED
        BY <4>2, <4>3 DEF AuthHead, MacLen
    <3>7. QED
      BY <1>17, <3>1, <3>4, <3>5, <3>6 DEF AuthRefused, AuthBad
  <2>3. QED
    BY <1>9, <2>1, <2>2
<1>18. Mine /\ AuthLength \in AuthHead .. MaxPacket - 1
         => AuthLength = WireLen(1) /\ ~Wrong(1, "length")
  BY <1>6, <1>16 DEF AuthHead
<1>19. CASE AuthPartial(st) /\ r = [k EXCEPT !.go = "wait"]
  <2>1. /\ r \in DecoderState /\ r.go = "wait" /\ r.buf = st.buf /\ r.has = st.has
        /\ r.recv = st.recv /\ r.out = st.out
    BY <1>15, <1>19, GoChanged
  <2>2. ASSUME Mine PROVE x < EndOf(1)
    <3>1. AuthLength = WireLen(1)
      BY <1>18, <1>19, <2>2 DEF AuthPartial, AuthBad
    <3>2. st.buf.size < WireLen(1)
      BY <1>19, <3>1 DEF AuthPartial
    <3>3. QED
      BY <1>2, <1>3, <1>5, <3>2
  <2>3. QED
    BY <1>10, <2>1, <2>2
<1>20. CASE /\ AuthWhole(st)
            /\ r = [k EXCEPT !.has = TRUE,
                             !.out = Payload(1, AuthHead + PadField(1), AuthLength - MacLen),
                             !.buf = Drained(st.buf, AuthLength)]
  <2>1. ~(st.buf.size < AuthLength) /\ ~AuthBad(st) /\ HeadGood(st)
    BY <1>20 DEF AuthWhole
  <2>2. AuthLength \in 31 .. 8191
    BY <2>1 DEF AuthBad, AuthHead, MaxPacket
  <2>3. st.buf.size >= AuthLength
    <3>1. AuthLength \in Nat
      BY <2>2
    <3>2. PICK n \in Nat, z \in Nat : n = AuthLength /\ z = st.buf.size
      BY <1>3, <3>1
    <3>3. ~(z < n)
      BY <2>1, <3>2
    <3>4. z >= n
      BY <3>3
    <3>5. QED
      BY <3>2, <3>4
  <2>4. /\ Mine /\ Checksum(1, AuthLength)
        /\ ~(AuthHead + PadField(1) > AuthLength - MacLen)
    BY <2>1, <2>3 DEF AuthBad
  <2>5. /\ AuthLength = WireLen(1) /\ ~Wrong(1, "length") /\ ~Wrong(1, "sum")
        /\ WireLen(1) \in 31 .. 8191
    BY <1>18, <2>1, <2>2, <2>4 DEF AuthBad, Checksum
  <2>6. ~Wrong(1, "pad")
    <3>1. PICK n \in Nat : n = WireLen(1)
      BY <1>5
    <3>2. ~(31 + PadField(1) > n - 4)
      BY <2>4, <2>5, <3>1 DEF AuthHead, MacLen
    <3>3. ASSUME PadField(1) = 8192 PROVE FALSE
      <4>1. ~(31 + 8192 > n - 4)
        BY <3>2, <3>3
      <4>2. n \in 31 .. 8191
        BY <2>5, <3>1
      <4>3. QED
        BY <4>1, <4>2
    <3>4. QED
      BY <1>6, <3>3
  <2>7. ~Wrong(1, "head") /\ ~Wrong(1, "auth")
    <3>1. st.buf.size >= CheckHead
      <4>1. AuthLength \in Nat
        BY <2>2
      <4>2. PICK n \in Nat, z \in Nat : n = AuthLength /\ z = st.buf.size
        BY <1>3, <4>1
      <4>3. n \in 31 .. 8191 /\ z >= n
        BY <2>2, <2>3, <4>2
      <4>4. z >= 7
        BY <4>3
      <4>5. QED
        BY <4>2, <4>4 DEF CheckHead
    <3>2. QED
      BY <2>1, <3>1 DEF HeadGood, HeadRefused
  <2>8. client.at # 0 => 1 < client.at
    BY <1>1, <2>5, <2>6, <2>7 DEF Wrong
  <2>9. AuthHead + PadField(1) = Overhead(1)
    BY <1>5, <1>6, <2>6 DEF AuthHead
  <2>10. Count(0) = 0 /\ Count(1) = client.cuts[1] /\ Count(1) \in Nat
    BY <1>4, <1>5, CountFacts
  <2> DEFINE o == Payload(1, AuthHead + PadField(1), AuthLength - MacLen)
             b == Drained(st.buf, AuthLength)
  <2>11. o = Run(0, Count(1)) /\ o \in Seq(Nat)
    <3>1. o = Run(Count(0), client.cuts[1])
      BY <1>4, <2>5, <2>9, PayloadRun
    <3>2. QED
      BY <2>10, <3>1, RunType
  <2>12. b \in Buffer /\ b.first = EndOf(1) /\ b.first + b.size = x
    <3>1. b = [first |-> st.buf.first + WireLen(1), size |-> st.buf.size - WireLen(1)]
      BY <2>5 DEF Drained
    <3>2. /\ st.buf.first + WireLen(1) = EndOf(1) /\ EndOf(1) \in Nat
          /\ st.buf.size - WireLen(1) \in Nat /\ EndOf(1) + (st.buf.size - WireLen(1)) = x
      <4>1. PICK a \in Nat, w \in Nat, z \in Nat :
              a = IvLen /\ w = WireLen(1) /\ z = st.buf.size
        BY <1>2, <1>3, <1>5
      <4>2. st.buf.first = a /\ a + z = x
        BY <1>2, <4>1
      <4>3. EndOf(1) = a + w
        BY <1>5, <4>1
      <4>4. z >= w
        BY <2>3, <2>5, <4>1
      <4>5. z - w \in Nat /\ (a + w) + (z - w) = a + z
        BY <4>4
      <4>6. QED
        BY <4>1, <4>2, <4>3, <4>5
    <3>3. QED
      BY <3>1, <3>2 DEF Buffer
  <2>13. r = [k EXCEPT !.has = TRUE, !.out = o, !.buf = b]
    BY <1>20
  <2> HIDE DEF o, b
  <2>14. AuthTaken(k, o, b, r)
    BY <1>15, <2>11, <2>12, <2>13, AuthPacketTaken, Zenon
  <2>15. /\ r \in DecoderState /\ r.go = "on" /\ r.buf = b /\ r.has /\ r.recv = 1 % IdMod
         /\ r.id = UserId(client.uid) /\ r.key = client.key /\ r.out = o
    BY <1>2, <1>15, <2>4, <2>14 DEF AuthTaken, Mine
  <2>16. r.out = Run(Count(0), Count(1) - Count(0))
    <3>1. Count(1) - Count(0) = Count(1)
      BY <2>10
    <3>2. QED
      BY <2>10, <2>11, <2>15, <3>1
  <2>17. Decoded(r, 0, 1, x)
    BY <1>2, <1>4, <2>4, <2>8, <2>12, <2>15, <2>16 DEF Decoded, Recognised
  <2>18. QED
    BY <2>15, <2>17 DEF AuthResult
<1>21. AuthCases(st, r)
  BY AuthPacketCases
<1>22. QED
  BY <1>11, <1>12, <1>13, <1>14, <1>17, <1>19, <1>20, <1>21, Zenon DEF AuthCases

----------------------------------------------------------------------------
(* A whole call of server_post_decrypt. *)

\* The state after the first k turns, as long as the call goes on; c packets
\* were decoded before the call, and the buffer ends at byte x of the stream.
CallState(r, k, c, x) ==
  /\ r \in DecoderState
  /\ c # 0 => r.has /\ Recognised(r.id, r.key)
  /\ \/ /\ r.go = "failed" /\ ~(Correct /\ Mine)
        /\ r.buf.first \in IvLen .. StreamLen /\ r.buf.first + r.buf.size = x
     \/ r.go = "on" /\ \E d \in 1 .. NumPackets : d >= k /\ Decoded(r, c, d, x)
     \/ r.go = "wait" /\ \E d \in 0 .. NumPackets : Drawn(r, c, d, x)

\* A decoder's buffer starts at the end of a packet.
LEMMA DecodedBuffer ==
  ASSUME client \in Clients, NEW st, NEW c, NEW d, NEW x, Decoded(st, c, d, x)
  PROVE  /\ d \in 0 .. NumPackets
         /\ st.buf.first \in IvLen .. StreamLen /\ st.buf.first + st.buf.size = x
<1>1. d \in 0 .. NumPackets /\ st.buf.first = EndOf(d) /\ st.buf.first + st.buf.size = x
  BY DEF Decoded
<1>2. /\ EndOf(d) \in Nat /\ EndOf(d) >= IvLen /\ EndOf(d) <= StreamLen /\ IvLen \in Nat
      /\ StreamLen = EndOf(NumPackets)
  BY <1>1, EndFacts, AuthAssumption DEF StreamLen, NumPackets
<1>3. StreamLen \in Nat
  BY <1>2, ClientFields, EndFacts
<1>4. EndOf(d) \in IvLen .. StreamLen
  BY <1>2, <1>3
<1>5. QED
  BY <1>1, <1>4

\* A turn takes one such state to the next.
LEMMA TurnKeeps ==
  ASSUME client \in Clients, NEW st, NEW k \in Nat, NEW c, NEW x, CallState(st, k, c, x),
         NEW r, r = Turn(st)
  PROVE  CallState(r, k + 1, c, x)
<1>1. CASE st.go # "on"
  <2>1. r = st
    BY <1>1 DEF Turn
  <2>2. QED
    BY <1>1, <2>1 DEF CallState
<1>2. CASE st.go = "on"
  <2>1. /\ st \in DecoderState /\ (c # 0 => st.has /\ Recognised(st.id, st.key))
        /\ \E d \in 1 .. NumPackets : d >= k /\ Decoded(st, c, d, x)
    BY <1>2 DEF CallState
  <2>2. PICK d \in 1 .. NumPackets : d >= k /\ Decoded(st, c, d, x)
    BY <2>1
  <2>3. NumPackets \in Nat /\ d \in Nat /\ d # 0
    BY ClientFields
  <2>4. r = DataPacket(st)
    BY <1>2 DEF Turn
  <2>5. TurnResult(st, c, d, x, r)
    BY <1>2, <2>1, <2>2, <2>3, <2>4, DataPacketStep
  <2>6. r \in DecoderState /\ (c # 0 => r.has /\ Recognised(r.id, r.key))
    BY <2>1, <2>5 DEF TurnResult
  <2>7. CASE r.go = "failed" /\ ~Correct /\ r.buf = st.buf
    BY <2>2, <2>6, <2>7, DecodedBuffer DEF CallState
  <2>8. CASE r.go = "on" /\ Decoded(r, c, d + 1, x)
    <3>1. d + 1 \in 0 .. NumPackets
      BY <2>8, DecodedBuffer
    <3>2. d + 1 \in 1 .. NumPackets /\ d + 1 >= k + 1
      BY <2>2, <2>3, <3>1
    <3>3. QED
      BY <2>6, <2>8, <3>2 DEF CallState
  <2>9. CASE r.go = "wait" /\ Drawn(r, c, d, x)
    <3>1. d \in 0 .. NumPackets
      BY <2>3
    <3>2. QED
      BY <2>6, <2>9, <3>1 DEF CallState
  <2>10. QED
    BY <2>5, <2>7, <2>8, <2>9 DEF TurnResult
<1>3. QED
  BY <1>1, <1>2

\* The turns of a call as an equation of the function PostDecrypt recurs on.
TurnsTo(f, buf, n) == f = [k \in 0 .. n |-> IF k = 0 THEN Begin(buf) ELSE Turn(f[k - 1])]

\* The recursion is well founded.
LEMMA TurnsExist ==
  ASSUME NEW buf
  PROVE  \A n \in Nat : \E f : TurnsTo(f, buf, n)
<1> DEFINE Good == {n \in Nat : \E f : TurnsTo(f, buf, n)}
<1>1. 0 \in Good
  <2>1. TurnsTo([k \in 0 .. 0 |-> Begin(buf)], buf, 0)
    BY DEF TurnsTo
  <2>2. QED
    BY <2>1
<1>2. ASSUME NEW n \in Nat, n \in Good PROVE n + 1 \in Good
  <2>1. PICK f : TurnsTo(f, buf, n)
    BY <1>2
  <2> DEFINE g == [k \in 0 .. n + 1 |-> IF k = n + 1 THEN Turn(f[n]) ELSE f[k]]
  <2>2. TurnsTo(g, buf, n + 1)
    <3>1. ASSUME NEW k \in 0 .. n + 1
          PROVE  g[k] = IF k = 0 THEN Begin(buf) ELSE Turn(g[k - 1])
      <4>1. CASE k = n + 1
        BY <4>1
      <4>2. CASE k # n + 1
        BY <4>2, <2>1 DEF TurnsTo
      <4>3. QED
        BY <4>1, <4>2
    <3>2. QED
      BY <3>1 DEF TurnsTo
  <2>3. QED
    BY <2>2
<1> HIDE DEF Good
<1>3. \A n \in Nat : n \in Good
  BY <1>1, <1>2, SetInduction
<1>4. QED
  BY <1>3 DEF Good

\* PostDecrypt is the last of its turns.
LEMMA PostDecryptTurns ==
  ASSUME client \in Clients, NEW buf
  PROVE  \E f : TurnsTo(f, buf, NumPackets + 1) /\ PostDecrypt(buf) = f[NumPackets + 1]
<1>1. NumPackets + 1 \in Nat
  BY ClientFields
<1>2. \E f : TurnsTo(f, buf, NumPackets + 1)
  BY <1>1, TurnsExist
<1>3. TurnsTo(CHOOSE f : TurnsTo(f, buf, NumPackets + 1), buf, NumPackets + 1)
  BY <1>2
<1>4. PostDecrypt(buf) = (CHOOSE f : TurnsTo(f, buf, NumPackets + 1))[NumPackets + 1]
  BY DEF PostDecrypt, TurnsTo, NumPackets
<1>5. QED
  BY <1>3, <1>4

\* A call that begins well ends waiting for more, or fails on a client at fault.
LEMMA PostDecryptEnds ==
  ASSUME client \in Clients, NEW buf, NEW c, NEW x, CallState(Begin(buf), 0, c, x),
         NEW r, r = PostDecrypt(buf)
  PROVE  CallState(r, NumPackets + 1, c, x) /\ r.go # "on"
<1>1. PICK f : TurnsTo(f, buf, NumPackets + 1) /\ r = f[NumPackets + 1]
  BY PostDecryptTurns
<1>2. NumPackets \in Nat
  BY ClientFields
<1> DEFINE Good == {k \in Nat : k <= NumPackets + 1 => CallState(f[k], k, c, x)}
<1>3. 0 \in Good
  <2>1. f[0] = Begin(buf)
    BY <1>1, <1>2 DEF TurnsTo
  <2>2. QED
    BY <2>1
<1>4. ASSUME NEW k \in Nat, k \in Good PROVE k + 1 \in Good
  <2>1. CASE k + 1 <= NumPackets + 1
    <3>1. CallState(f[k], k, c, x)
      BY <1>2, <1>4, <2>1
    <3>2. f[k + 1] = Turn(f[k])
      BY <1>1, <1>2, <2>1 DEF TurnsTo
    <3>3. CallState(f[k + 1], k + 1, c, x)
      BY <3>1, <3>2, TurnKeeps
    <3>4. QED
      BY <3>3
  <2>2. QED
    BY <2>1
<1> HIDE DEF Good
<1>5. \A k \in Nat : k \in Good
  BY <1>3, <1>4, SetInduction
<1>6. CallState(f[NumPackets + 1], NumPackets + 1, c, x)
  <2>1. NumPackets + 1 \in Nat /\ NumPackets + 1 <= NumPackets + 1
    BY <1>2
  <2>2. QED
    BY <1>5, <2>1 DEF Good
<1>7. ~\E d \in 1 .. NumPackets : d >= NumPackets + 1
  BY <1>2
<1>8. QED
  BY <1>1, <1>6, <1>7 DEF CallState

----------------------------------------------------------------------------
(* The inductive invariant. *)

\* The session has decoded d packets and holds no further complete one.
Decoding(d) ==
  /\ d \in 0 .. NumPackets
  /\ recv_buf.first = EndOf(d)
  /\ started => recv_buf.first + recv_buf.size = got
  /\ ~started => d = 0 /\ recv_buf.size = 0 /\ got = recv_iv_buf
  /\ has_recv_header <=> d > 0
  /\ d > 0 => Recognised(user_id, user_key)
  /\ recv_id = (IF d = 0 THEN 1 ELSE d) % IdMod
  /\ client.at # 0 => d < client.at
  /\ Mine /\ d < NumPackets => got < EndOf(d + 1)
  /\ Len(app_buf) + Len(forwarded) = Count(d)

\* A session that has not failed is between two packets.
InStep == pc # "failed" => \E d \in 0 .. NumPackets : Decoding(d)

\* What was decoded is the start of what the client sent, in two parts: the
\* address header, as far as it is there, and what follows it.
InOrder ==
  /\ app_buf = Run(0, Len(app_buf))
  /\ forwarded = Run(Len(app_buf), Len(forwarded))
  /\ client.at # 0 => Len(app_buf) + Len(forwarded) <= Count(client.at - 1)

\* The header ends where it should, and only a recognised client has one.
HeaderCut ==
  /\ pc = "relay" => connected
  /\ pc = "handshake" => ~connected
  /\ ~connected => /\ forwarded = << >> /\ ~HasAddress(app_buf)
                   /\ app_buf # << >> => client.addr.kind # "other"
  /\ connected => /\ client.addr.kind # "other" /\ Len(app_buf) = AddressEnd(client.addr)
                  /\ Recognised(user_id, user_key)

\* A client that is not at fault is not refused.
Welcome == Correct /\ Mine => pc # "failed"

\* What every step keeps of the client's direction.
AuthInv == TypeOK /\ InStep /\ InOrder /\ HeaderCut /\ Welcome

\* The call begins where the last one ended.
LEMMA BeginCall ==
  ASSUME AuthInv, NEW d \in 0 .. NumPackets, Decoding(d),
         NEW x \in IvLen .. StreamLen, NEW buf \in Buffer,
         buf.first = EndOf(d), buf.first + buf.size = x
  PROVE  CallState(Begin(buf), 0, d, x)
<1>1. /\ client \in Clients /\ NumPackets \in Nat \ {0} /\ IdMod \in Nat \ {0}
      /\ has_recv_header \in BOOLEAN /\ user_id \in DOMAIN Users \cup {None}
      /\ user_key \in Keys /\ recv_id \in Ids
  BY ClientFields, AuthAssumption DEF AuthInv, TypeOK, Ids
<1>2. /\ has_recv_header <=> d > 0
      /\ d > 0 => Recognised(user_id, user_key)
      /\ recv_id = (IF d = 0 THEN 1 ELSE d) % IdMod
      /\ client.at # 0 => d < client.at
  BY DEF Decoding
<1> DEFINE st == [buf |-> buf, has |-> has_recv_header, id |-> user_id, key |-> user_key,
                  recv |-> recv_id, out |-> << >>, go |-> "on"]
<1>3. /\ st \in DecoderState /\ st.go = "on" /\ st.buf = buf /\ st.id = user_id
      /\ st.key = user_key /\ st.recv = recv_id /\ st.out = << >>
      /\ st.has <=> has_recv_header
  BY <1>1 DEF DecoderState
<1>4. Begin(buf) = IF has_recv_header THEN st ELSE AuthPacket(st)
  BY DEF Begin
<1> HIDE DEF st
<1>5. Run(Count(d), Count(d) - Count(d)) = << >>
  <2>1. Count(d) - Count(d) = 0
    BY <1>1, CountFacts
  <2>2. QED
    BY <2>1 DEF Run
<1>6. d \in 0 .. d
  OBVIOUS
<1>7. Decoded(st, d, d, x)
  BY <1>2, <1>3, <1>5, <1>6 DEF Decoded
<1>8. CASE d = 0
  <2>1. Begin(buf) = AuthPacket(st)
    BY <1>2, <1>4, <1>8
  <2>2. AuthResult(x, Begin(buf))
    BY <1>1, <1>3, <1>7, <1>8, <2>1, AuthPacketStep
  <2>3. CASE /\ Begin(buf).go = "failed" /\ ~(Correct /\ Mine)
             /\ Begin(buf).buf.first = IvLen /\ IvLen + Begin(buf).buf.size = x
    <3>1. IvLen \in IvLen .. StreamLen
      BY <1>1, EndFacts
    <3>2. QED
      BY <1>8, <2>2, <2>3, <3>1 DEF AuthResult, CallState
  <2>4. CASE Begin(buf).go = "on" /\ Decoded(Begin(buf), 0, 1, x)
    <3>1. 1 \in 1 .. NumPackets /\ 1 >= 0
      BY <1>1
    <3>2. QED
      BY <1>8, <2>2, <2>4, <3>1 DEF AuthResult, CallState
  <2>5. CASE Begin(buf).go = "wait" /\ Drawn(Begin(buf), 0, 0, x)
    BY <1>8, <2>2, <2>5 DEF AuthResult, CallState
  <2>6. QED
    BY <2>2, <2>3, <2>4, <2>5 DEF AuthResult
<1>9. CASE d # 0
  <2>1. d \in 1 .. NumPackets /\ d > 0 /\ d >= 0
    BY <1>1, <1>9
  <2>2. Begin(buf) = st /\ st.has /\ Recognised(st.id, st.key)
    BY <1>2, <1>3, <1>4, <2>1
  <2>3. QED
    BY <1>3, <1>7, <2>1, <2>2 DEF CallState
<1>10. QED
  BY <1>8, <1>9

\* The client's part of the state is chosen once.
LEMMA ClientKept ==
  ASSUME client' = client
  PROVE  /\ Mine' <=> Mine
         /\ Correct' <=> Correct
         /\ \A i, k : Recognised(i, k)' <=> Recognised(i, k)
<1>1. /\ Packets' = Packets /\ \A p : WireLen(p)' = WireLen(p)
  BY StreamKept
<1>2. UserKey(client.uid)' = UserKey(client.uid) /\ UserId(client.uid)' = UserId(client.uid)
  BY DEF UserKey, UserId
<1>3. Mine' <=> Mine
  BY <1>2 DEF Mine
<1>4. Correct' <=> Correct
  BY <1>1 DEF Correct
<1>5. QED
  BY <1>2, <1>3, <1>4 DEF Recognised

\* An address header has at least four bytes.
LEMMA AddressLength ==
  ASSUME client \in Clients
  PROVE  /\ AddressEnd(client.addr) \in Nat /\ AddressEnd(client.addr) >= 4
         /\ HeaderLen \in Nat /\ HeaderLen >= 4
         /\ client.addr.kind # "other" => HeaderLen = AddressEnd(client.addr)
<1>1. /\ client.addr.dlen \in Nat
      /\ client.addr.kind \in {"v4", "v6", "domain", "other"}
  BY ClientFields DEF Address
<1>2. CASE client.addr.kind = "domain"
  BY <1>1, <1>2 DEF AddressEnd, HeaderLen
<1>3. CASE client.addr.kind = "v4"
  BY <1>3 DEF AddressEnd, HeaderLen
<1>4. CASE client.addr.kind \in {"v6", "other"}
  BY <1>4 DEF AddressEnd, HeaderLen
<1>5. QED
  BY <1>1, <1>2, <1>3, <1>4

\* What became of the decoded bytes: n of them are there in all.
Delivered(n) ==
  /\ app_buf' \in Seq(Nat) /\ forwarded' \in Seq(Nat) /\ connected' \in BOOLEAN
  /\ pc' \in {"handshake", "relay", "failed"}
  /\ app_buf' = Run(0, Len(app_buf')) /\ forwarded' = Run(Len(app_buf'), Len(forwarded'))
  /\ pc' # "failed" => Len(app_buf') + Len(forwarded') = n
  /\ Len(app_buf') + Len(forwarded') <= n
  /\ pc' = "failed" => ~Correct
  /\ pc' = "relay" => connected'
  /\ pc' = "handshake" => ~connected'
  /\ ~connected' => /\ forwarded' = << >>
                    /\ ~(client.addr.kind # "other" /\ Len(app_buf') >= AddressEnd(client.addr))
                    /\ app_buf' # << >> => client.addr.kind # "other"
  /\ connected' => client.addr.kind # "other" /\ Len(app_buf') = AddressEnd(client.addr)

\* The same with the lengths of the two parts, h and g, and of the header, e.
Parts(n, h, g, e) ==
  /\ app_buf' = Run(0, h) /\ forwarded' = Run(h, g) /\ connected' \in BOOLEAN
  /\ pc' \in {"handshake", "relay", "failed"}
  /\ pc' # "failed" => h + g = n
  /\ h + g <= n
  /\ pc' = "failed" => ~Correct
  /\ pc' = "relay" => connected'
  /\ pc' = "handshake" => ~connected'
  /\ ~connected' => g = 0 /\ ~(client.addr.kind # "other" /\ h >= e)
  /\ ~connected' => (h # 0 => client.addr.kind # "other")
  /\ connected' => client.addr.kind # "other" /\ h = e

\* The lengths are those of the parts.
LEMMA DeliveredParts ==
  ASSUME NEW n \in Nat, NEW h \in Nat, NEW g \in Nat, NEW e \in Nat,
         e = AddressEnd(client.addr), Parts(n, h, g, e)
  PROVE  Delivered(n)
<1>1. /\ app_buf' = Run(0, h) /\ forwarded' = Run(h, g) /\ connected' \in BOOLEAN
      /\ pc' \in {"handshake", "relay", "failed"}
      /\ pc' # "failed" => h + g = n
      /\ h + g <= n
      /\ pc' = "failed" => ~Correct
      /\ pc' = "relay" => connected'
      /\ pc' = "handshake" => ~connected'
      /\ ~connected' => g = 0 /\ ~(client.addr.kind # "other" /\ h >= e)
      /\ ~connected' => (h # 0 => client.addr.kind # "other")
      /\ connected' => client.addr.kind # "other" /\ h = e
  BY DEF Parts
<1>2. /\ app_buf' \in Seq(Nat) /\ Len(app_buf') = h
      /\ forwarded' \in Seq(Nat) /\ Len(forwarded') = g
  BY <1>1, RunType
<1>3. app_buf' # << >> => h # 0
  BY <1>2
<1>4. g = 0 => forwarded' = << >>
  BY <1>2
<1>5. QED
  BY <1>1, <1>2, <1>3, <1>4 DEF Delivered

\* Deliver keeps the decoded bytes in order and cuts them at the header's end.
LEMMA DeliverStep ==
  ASSUME AuthInv, pc \in {"handshake", "relay"}, NEW a \in Nat, NEW m \in Nat,
         Len(app_buf) + Len(forwarded) = a, Deliver(Run(a, m))
  PROVE  Delivered(a + m)
<1>1. /\ client \in Clients /\ app_buf \in Seq(Nat) /\ forwarded \in Seq(Nat)
      /\ connected \in BOOLEAN
  BY DEF AuthInv, TypeOK
<1>2. /\ app_buf = Run(0, Len(app_buf)) /\ forwarded = Run(Len(app_buf), Len(forwarded))
      /\ pc = "relay" => connected
      /\ pc = "handshake" => ~connected
      /\ ~connected => /\ forwarded = << >> /\ ~HasAddress(app_buf)
                       /\ app_buf # << >> => client.addr.kind # "other"
      /\ connected => client.addr.kind # "other" /\ Len(app_buf) = AddressEnd(client.addr)
  BY DEF AuthInv, InOrder, HeaderCut
<1>3. AddressEnd(client.addr) \in Nat /\ AddressEnd(client.addr) >= 4
  BY <1>1, AddressLength
<1>4. PICK h \in Nat, f \in Nat, e \in Nat :
        h = Len(app_buf) /\ f = Len(forwarded) /\ e = AddressEnd(client.addr)
  BY <1>1, <1>3
<1>5. h + f = a /\ app_buf = Run(0, h) /\ forwarded = Run(h, f) /\ a + m \in Nat /\ e >= 4
  BY <1>2, <1>3, <1>4
<1>6. PICK n \in Nat : n = a + m
  BY <1>5
<1>7. CASE /\ pc = "relay" /\ forwarded' = forwarded \o Run(a, m)
           /\ UNCHANGED <<pc, app_buf, connected>>
  <2>1. Run(h, f) \o Run(h + f, m) = Run(h, f + m)
    BY RunConcat
  <2>2. PICK g \in Nat : g = f + m
    OBVIOUS
  <2>3. Run(a, m) = Run(h + f, m)
    BY <1>5
  <2>4. forwarded' = Run(h, g) /\ app_buf' = Run(0, h)
    BY <1>5, <1>7, <2>1, <2>2, <2>3
  <2>5. h + g = n /\ connected /\ connected' = connected /\ h = e
    <3>1. h + g = n
      BY <1>5, <1>6, <2>2
    <3>2. connected /\ connected' = connected
      BY <1>2, <1>7
    <3>3. QED
      BY <1>2, <1>4, <3>1, <3>2
  <2>6. Parts(n, h, g, e)
    BY <1>1, <1>2, <1>7, <2>4, <2>5 DEF Parts
  <2>7. QED
    BY <1>4, <1>6, <2>6, DeliveredParts
<1>8. CASE pc = "handshake"
  <2>1. ~connected /\ forwarded = << >> /\ f = 0 /\ h = a
    BY <1>2, <1>4, <1>5, <1>8
  <2>2. /\ app_buf \o Run(a, m) = Run(0, a + m)
        /\ Run(0, a + m) \in Seq(Nat) /\ Len(Run(0, a + m)) = a + m
    <3>1. Run(0, a) \o Run(0 + a, m) = Run(0, a + m)
      BY RunConcat
    <3>2. 0 + a = a
      OBVIOUS
    <3>3. QED
      BY <1>5, <2>1, <3>1, <3>2, RunType
  <2>3. PICK buf \in Seq(Nat) :
          buf = Run(0, a + m) /\ Len(buf) = a + m /\ buf = app_buf \o Run(a, m)
    BY <2>2
  <2>4. Run(a + m, 0) = << >> /\ Run(a, 0) = << >>
    BY DEF Run
  <2>5. CASE Incomplete(buf) /\ app_buf' = buf /\ UNCHANGED <<pc, forwarded, connected>>
    <3>1. ~(client.addr.kind # "other" /\ Len(buf) >= AddressEnd(client.addr))
      BY <2>5 DEF Incomplete, HasAddress
    <3>2. buf # << >> => client.addr.kind # "other"
      BY <2>5 DEF Incomplete, Invalid
    <3>3. /\ app_buf' = Run(0, a + m) /\ forwarded' = Run(a + m, 0) /\ (a + m) + 0 = a + m
          /\ pc' = "handshake" /\ connected' = FALSE
      BY <1>5, <1>8, <2>1, <2>3, <2>4, <2>5
    <3>4. /\ ~(client.addr.kind # "other" /\ a + m >= e)
          /\ a + m # 0 => client.addr.kind # "other"
      BY <1>4, <2>3, <3>1, <3>2
    <3>5. n + 0 = n /\ app_buf' = Run(0, n) /\ forwarded' = Run(n, 0)
      BY <1>6, <3>3
    <3>6. /\ ~(client.addr.kind # "other" /\ n >= e)
          /\ n # 0 => client.addr.kind # "other"
      BY <1>6, <3>4
    <3>7. n + 0 <= n
      OBVIOUS
    <3>8. ~connected' /\ connected' \in BOOLEAN
      BY <3>3
    <3>9. Parts(n, n, 0, e)
      BY <3>3, <3>5, <3>6, <3>7, <3>8, Zenon DEF Parts
    <3>10. QED
      BY <1>4, <1>6, <3>9, DeliveredParts
  <2>6. CASE Invalid(buf) /\ pc' = "failed" /\ UNCHANGED appVars
    <3>1. ~Correct
      BY <2>6 DEF Invalid, Correct
    <3>2. /\ app_buf' = Run(0, a) /\ forwarded' = Run(a, 0) /\ a + 0 <= a + m
          /\ pc' = "failed" /\ connected' = FALSE
      BY <1>5, <2>1, <2>4, <2>6 DEF appVars
    <3>3. /\ ~(client.addr.kind # "other" /\ a >= e)
          /\ a # 0 => client.addr.kind # "other"
      BY <1>2, <1>4, <2>1 DEF HasAddress
    <3>4. Parts(n, a, 0, e)
      BY <1>6, <3>1, <3>2, <3>3 DEF Parts
    <3>5. QED
      BY <1>4, <1>6, <3>4, DeliveredParts
  <2>7. CASE /\ HasAddress(buf) /\ ~Invalid(buf) /\ pc' = "relay" /\ connected' = TRUE
             /\ app_buf' = SubSeq(buf, 1, AddressEnd(client.addr))
             /\ forwarded' = SubSeq(buf, AddressEnd(client.addr) + 1, Len(buf))
    <3>1. client.addr.kind # "other" /\ e \in 0 .. a + m
      <4>1. client.addr.kind # "other" /\ Len(buf) >= AddressEnd(client.addr)
        BY <2>7, Zenon DEF HasAddress
      <4>2. n >= e
        BY <1>4, <1>6, <2>3, <4>1
      <4>3. e \in 0 .. n
        BY <4>2
      <4>4. QED
        BY <1>6, <4>1, <4>3
    <3>2. app_buf' = Run(0, e) /\ forwarded' = Run(e, (a + m) - e)
      BY <1>4, <1>5, <2>3, <2>7, <3>1, RunSplit
    <3>3. (a + m) - e \in Nat /\ e + ((a + m) - e) = a + m
      BY <1>5, <3>1
    <3>4. PICK g \in Nat : g = (a + m) - e
      BY <3>3
    <3>5. e + g = n /\ app_buf' = Run(0, e) /\ forwarded' = Run(e, g)
      BY <1>6, <3>2, <3>3, <3>4
    <3>6. e + g <= n /\ connected' /\ connected' \in BOOLEAN
      BY <2>7, <3>5
    <3>7. Parts(n, e, g, e)
      BY <2>7, <3>1, <3>5, <3>6, Zenon DEF Parts
    <3>8. QED
      BY <1>4, <1>6, <3>7, DeliveredParts
  <2>8. QED
    BY <1>8, <2>3, <2>5, <2>6, <2>7 DEF Deliver
<1>9. QED
  BY <1>7, <1>8 DEF Deliver

\* The lengths of the stream.
LEMMA Lengths ==
  ASSUME client \in Clients
  PROVE  /\ IvLen \in Nat \ {0} /\ StreamLen \in Nat /\ IvLen <= StreamLen
         /\ StreamLen = EndOf(NumPackets) /\ NumPackets \in Nat \ {0} /\ IdMod \in Nat \ {0}
<1>1. /\ IvLen \in Nat \ {0} /\ IdMod \in Nat \ {0} /\ NumPackets \in Nat \ {0}
      /\ StreamLen = EndOf(NumPackets)
  BY ClientFields, AuthAssumption DEF StreamLen, NumPackets
<1>2. EndOf(NumPackets) \in Nat /\ EndOf(NumPackets) >= IvLen
  BY <1>1, EndFacts
<1>3. QED
  BY <1>1, <1>2

\* The buffer with what a read brings holds the stream up to byte got + n.
LEMMA ReadBuffer ==
  ASSUME AuthInv, NEW d \in 0 .. NumPackets, Decoding(d), NEW n \in 1 .. StreamLen - got,
         started \/ recv_iv_buf + n >= IvLen,
         NEW buf, buf = [recv_buf EXCEPT !.size = @ + CipherBytes(n)]
  PROVE  /\ buf \in Buffer /\ buf.first = EndOf(d) /\ buf.first + buf.size = got + n
         /\ got + n \in IvLen .. StreamLen
<1>1. /\ client \in Clients /\ got \in 0 .. StreamLen /\ recv_iv_buf \in Nat
      /\ recv_buf \in [first : IvLen .. StreamLen, size : 0 .. StreamLen - IvLen]
  BY Lengths DEF AuthInv, TypeOK
<1>2. /\ IvLen \in Nat /\ StreamLen \in Nat /\ IvLen <= StreamLen /\ EndOf(0) = IvLen
      /\ EndOf(d) \in Nat
  BY <1>1, Lengths, EndFacts
<1>3. PICK g \in Nat, b \in Nat, z \in Nat, m \in Nat, iv \in Nat, w \in Nat :
        /\ g = got /\ b = recv_buf.first /\ z = recv_buf.size /\ m = n
        /\ iv = IvLen /\ w = recv_iv_buf
  <2>1. recv_buf.first \in Nat /\ recv_buf.size \in Nat /\ got \in Nat /\ n \in Nat
    BY <1>1, <1>2
  <2>2. QED
    BY <1>1, <1>2, <2>1
<1>4. /\ recv_buf.first = EndOf(d)
      /\ started => b + z = g
      /\ ~started => d = 0 /\ z = 0 /\ g = w /\ b = iv
  BY <1>2, <1>3 DEF Decoding
<1>5. buf = [first |-> b, size |-> z + CipherBytes(n)]
  BY <1>1, <1>3
<1>6. z + CipherBytes(n) \in Nat /\ b + (z + CipherBytes(n)) = g + m
  <2>1. CASE started
    <3>1. CipherBytes(n) = m
      BY <1>3, <2>1 DEF CipherBytes
    <3>2. QED
      BY <1>4, <2>1, <3>1
  <2>2. CASE ~started
    <3>1. CipherBytes(n) = (w + m) - iv /\ w + m >= iv
      BY <1>3, <2>2 DEF CipherBytes
    <3>2. QED
      BY <1>4, <2>2, <3>1
  <2>3. QED
    BY <2>1, <2>2
<1>7. buf \in Buffer /\ buf.first = b /\ buf.first + buf.size = got + n
  BY <1>3, <1>5, <1>6 DEF Buffer
<1>8. got + n \in IvLen .. StreamLen
  <2>1. g + m >= iv
    <3>1. CASE started
      <4>1. b >= iv
        BY <1>1, <1>3
      <4>2. QED
        BY <1>4, <3>1, <4>1
    <3>2. CASE ~started
      BY <1>3, <1>4, <3>2
    <3>3. QED
      BY <3>1, <3>2
  <2>2. g + m <= StreamLen
    BY <1>1, <1>2, <1>3
  <2>3. QED
    BY <1>2, <1>3, <2>1, <2>2
<1>9. QED
  BY <1>3, <1>4, <1>7, <1>8

\* A read keeps the invariant.
LEMMA ReadStep ==
  ASSUME AuthInv, NEW n \in 1 .. StreamLen - got, Read(n)
  PROVE  AuthInv'
<1> DEFINE buf == [recv_buf EXCEPT !.size = @ + CipherBytes(n)]
           st == PostDecrypt(buf)
<1>1. /\ pc \in {"handshake", "relay"} /\ (started \/ recv_iv_buf + n >= IvLen)
      /\ got' = got + n /\ started' = TRUE /\ recv_iv_buf' = 0
      /\ recv_buf' = st.buf /\ has_recv_header' = st.has
      /\ user_id' = st.id /\ user_key' = st.key /\ recv_id' = st.recv
      /\ \/ st.go = "failed" /\ pc' = "failed" /\ UNCHANGED appVars
         \/ st.go # "failed" /\ Deliver(st.out)
      /\ client' = client /\ UNCHANGED outVars
  BY DEF Read
<1>2. PICK d \in 0 .. NumPackets : Decoding(d)
  BY <1>1 DEF AuthInv, InStep
<1>3. /\ client \in Clients /\ IvLen \in Nat \ {0} /\ StreamLen \in Nat /\ IvLen <= StreamLen
      /\ NumPackets \in Nat \ {0} /\ IdMod \in Nat \ {0}
  BY Lengths DEF AuthInv, TypeOK
<1>4. /\ buf \in Buffer /\ buf.first = EndOf(d) /\ buf.first + buf.size = got + n
      /\ got + n \in IvLen .. StreamLen
  BY <1>1, <1>2, ReadBuffer
<1> HIDE DEF buf
<1>5. CallState(Begin(buf), 0, d, got + n)
  BY <1>2, <1>4, BeginCall
<1>6. CallState(st, NumPackets + 1, d, got + n) /\ st.go # "on"
  BY <1>3, <1>5, PostDecryptEnds
<1> HIDE DEF st
<1>7. /\ st \in DecoderState /\ (d # 0 => st.has /\ Recognised(st.id, st.key))
  BY <1>6 DEF CallState
<1>8. /\ Mine' <=> Mine
      /\ Correct' <=> Correct
      /\ \A i, k : Recognised(i, k)' <=> Recognised(i, k)
      /\ NumPackets' = NumPackets /\ StreamLen' = StreamLen
      /\ \A p : EndOf(p)' = EndOf(p) /\ Count(p)' = Count(p)
  BY <1>1, ClientKept, StreamKept
<1>9. /\ Len(app_buf) + Len(forwarded) = Count(d) /\ (client.at # 0 => d < client.at)
  BY <1>2 DEF Decoding
<1>10. /\ got' \in 0 .. StreamLen /\ recv_iv_buf' \in 0 .. IvLen - 1 /\ started' \in BOOLEAN
       /\ has_recv_header' \in BOOLEAN /\ user_id' \in DOMAIN Users \cup {None}
       /\ user_key' \in Keys /\ recv_id' \in 0 .. IdMod - 1
       /\ st.buf \in Buffer
  BY <1>1, <1>3, <1>4, <1>7 DEF DecoderState, Ids
<1>11. ASSUME st.buf.first \in IvLen .. StreamLen, st.buf.first + st.buf.size = got + n
       PROVE  recv_buf' \in [first : IvLen .. StreamLen, size : 0 .. StreamLen - IvLen]
  <2>1. st.buf.size \in 0 .. StreamLen - IvLen
    <3>1. PICK b \in Nat, z \in Nat : b = st.buf.first /\ z = st.buf.size
      BY <1>10 DEF Buffer
    <3>2. b >= IvLen /\ b + z <= StreamLen
      BY <1>3, <1>4, <1>11, <3>1
    <3>3. z \in 0 .. StreamLen - IvLen
      BY <1>3, <3>2
    <3>4. QED
      BY <3>1, <3>3
  <2>2. QED
    BY <1>1, <1>10, <1>11, <2>1 DEF Buffer
<1>12. CASE st.go = "failed"
  <2>1. /\ pc' = "failed" /\ UNCHANGED appVars /\ ~(Correct /\ Mine)
        /\ st.buf.first \in IvLen .. StreamLen /\ st.buf.first + st.buf.size = got + n
    BY <1>1, <1>6, <1>12 DEF CallState
  <2>2. TypeOK'
    BY <1>1, <1>8, <1>10, <1>11, <2>1 DEF AuthInv, TypeOK, appVars, outVars
  <2>3. InStep' /\ Welcome'
    BY <1>8, <2>1 DEF InStep, Welcome
  <2>4. InOrder'
    BY <1>1, <1>8, <2>1 DEF AuthInv, InOrder, appVars
  <2>5. connected => Recognised(st.id, st.key)
    <3>1. SUFFICES ASSUME connected PROVE d # 0
      BY <1>7
    <3>2. Len(app_buf) = AddressEnd(client.addr) /\ AddressEnd(client.addr) >= 4
          /\ app_buf \in Seq(Nat) /\ forwarded \in Seq(Nat)
      BY <1>3, <3>1, AddressLength DEF AuthInv, HeaderCut, TypeOK
    <3>3. Count(d) # 0
      BY <1>3, <1>9, <3>2, AddressLength
    <3>4. QED
      BY <1>3, <3>3, CountFacts
  <2>6. HeaderCut'
    BY <1>1, <1>8, <2>1, <2>5 DEF AuthInv, HeaderCut, appVars, HasAddress
  <2>7. QED
    BY <2>2, <2>3, <2>4, <2>6 DEF AuthInv
<1>13. CASE st.go = "wait"
  <2>1. PICK e \in 0 .. NumPackets : Drawn(st, d, e, got + n)
    BY <1>6, <1>13 DEF CallState
  <2>2. /\ d \in 0 .. e /\ st.buf.first = EndOf(e) /\ st.buf.first + st.buf.size = got + n
        /\ st.has <=> e > 0
        /\ e > 0 => Recognised(st.id, st.key)
        /\ st.recv = (IF e = 0 THEN 1 ELSE e) % IdMod
        /\ st.out = Run(Count(d), Count(e) - Count(d))
        /\ client.at # 0 => e < client.at
        /\ Mine /\ e < NumPackets => got + n < EndOf(e + 1)
    BY <2>1 DEF Drawn, Decoded
  <2>3. st.buf.first \in IvLen .. StreamLen
    BY <1>3, <2>1, DecodedBuffer DEF Drawn
  <2>4. PICK a \in Nat, m \in Nat : a = Count(d) /\ m = Count(e) - Count(d) /\ a + m = Count(e)
    <3>1. Count(d) \in Nat /\ Count(e) \in Nat /\ Count(d) <= Count(e) /\ d <= e
      BY <1>3, <2>2, CountFacts
    <3>2. QED
      BY <3>1
  <2>5. Deliver(Run(a, m))
    BY <1>1, <1>13, <2>2, <2>4
  <2>6. Delivered(a + m)
    BY <1>1, <1>9, <2>4, <2>5, DeliverStep
  <2>7. Delivered(Count(e))
    BY <2>4, <2>6
  <2>8. TypeOK'
    BY <1>1, <1>8, <1>10, <1>11, <2>2, <2>3, <2>7 DEF AuthInv, TypeOK, outVars, Delivered
  <2>9. InStep'
    <3>1. ASSUME pc' # "failed" PROVE Decoding(e)'
      BY <1>1, <1>8, <2>2, <2>7, <3>1 DEF Decoding, Delivered
    <3>2. QED
      BY <1>8, <3>1 DEF InStep
  <2>10. InOrder'
    <3>1. ASSUME client.at # 0 PROVE Len(app_buf') + Len(forwarded') <= Count(client.at - 1)
      <4>1. /\ Len(app_buf') + Len(forwarded') <= Count(e)
            /\ Len(app_buf') \in Nat /\ Len(forwarded') \in Nat
        BY <2>7 DEF Delivered
      <4>2. client.at - 1 \in 0 .. NumPackets /\ e <= client.at - 1
        BY <1>3, <2>2, <3>1, ClientFields
      <4>3. Count(e) <= Count(client.at - 1) /\ Count(e) \in Nat /\ Count(client.at - 1) \in Nat
        BY <1>3, <4>2, CountFacts
      <4>4. QED
        BY <4>1, <4>3
    <3>2. QED
      BY <1>1, <1>8, <2>7, <3>1 DEF InOrder, Delivered
  <2>11. connected' => Recognised(st.id, st.key)
    <3>1. SUFFICES ASSUME connected' PROVE e > 0
      BY <2>2
    <3>2. /\ Len(app_buf') = AddressEnd(client.addr) /\ Len(forwarded') \in Nat
          /\ Len(app_buf') + Len(forwarded') <= Count(e)
      BY <2>7, <3>1 DEF Delivered
    <3>3. Count(e) # 0
      BY <1>3, <3>2, AddressLength
    <3>4. QED
      BY <1>3, <3>3, CountFacts
  <2>12. HeaderCut'
    BY <1>1, <1>8, <2>7, <2>11 DEF HeaderCut, Delivered, HasAddress
  <2>13. Welcome'
    BY <1>8, <2>7 DEF Welcome, Delivered
  <2>14. QED
    BY <2>8, <2>9, <2>10, <2>12, <2>13 DEF AuthInv
<1>14. QED
  BY <1>6, <1>7, <1>12, <1>13 DEF DecoderState

\* The initial state satisfies the invariant.
LEMMA AuthInit == Init => AuthInv
<1>1. SUFFICES ASSUME Init PROVE AuthInv
  OBVIOUS
<1>2. /\ client \in Clients /\ got = 0 /\ recv_iv_buf = 0 /\ started = FALSE
      /\ recv_buf = [first |-> IvLen, size |-> 0] /\ has_recv_header = FALSE
      /\ user_id = None /\ user_key = "master" /\ recv_id = 1 % IdMod
      /\ pc = "handshake" /\ app_buf = << >> /\ forwarded = << >> /\ connected = FALSE
      /\ pack_id = 1 % IdMod /\ send_iv_emitted = FALSE /\ fetched = 0 /\ sent = << >>
  BY <1>1 DEF Init
<1>3. /\ IvLen \in Nat \ {0} /\ StreamLen \in Nat /\ IvLen <= StreamLen
      /\ NumPackets \in Nat \ {0} /\ IdMod \in Nat \ {0} /\ MaxRemote \in Nat
  BY <1>2, Lengths, AuthAssumption
<1>4. 1 % IdMod \in 0 .. IdMod - 1
  BY <1>3, Division
<1>5. Run(0, 0) = << >> /\ Len(<< >>) = 0 /\ << >> \in Seq(Nat)
  BY RunType DEF Run
<1>6. TypeOK
  <2>1. recv_buf \in [first : IvLen .. StreamLen, size : 0 .. StreamLen - IvLen]
    BY <1>2, <1>3
  <2>2. user_key \in Keys /\ user_id \in DOMAIN Users \cup {None}
    BY <1>2 DEF Keys
  <2>3. got \in 0 .. StreamLen /\ recv_iv_buf \in 0 .. IvLen - 1 /\ fetched \in 0 .. MaxRemote
    BY <1>2, <1>3
  <2>4. QED
    BY <1>2, <1>4, <1>5, <2>1, <2>2, <2>3 DEF TypeOK
<1>7. Decoding(0)
  <2>1. EndOf(0) = IvLen /\ Count(0) = 0
    BY <1>2, EndFacts, CountFacts
  <2>2. 0 < NumPackets => 0 < EndOf(0 + 1)
    <3>1. EndOf(1) \in Nat /\ EndOf(1) >= IvLen
      BY <1>2, <1>3, EndFacts
    <3>2. QED
      BY <1>3, <3>1
  <2>3. client.at # 0 => 0 < client.at
    BY <1>2, <1>3, ClientFields
  <2>4. Len(app_buf) + Len(forwarded) = Count(0)
    BY <1>2, <1>5, <2>1
  <2>5. /\ 0 \in 0 .. NumPackets
        /\ recv_buf.first = EndOf(0) /\ recv_buf.size = 0 /\ got = recv_iv_buf
        /\ recv_id = (IF 0 = 0 THEN 1 ELSE 0) % IdMod
    BY <1>2, <1>3, <2>1
  <2>6. ~(0 > 0)
    OBVIOUS
  <2>7. QED
    BY <1>2, <2>2, <2>3, <2>4, <2>5, <2>6 DEF Decoding
<1>8. InStep
  BY <1>3, <1>7 DEF InStep
<1>9. InOrder
  <2>1. ASSUME client.at # 0 PROVE Count(client.at - 1) \in Nat
    <3>1. client.at \in 0 .. NumPackets /\ NumPackets \in Nat
      BY <1>2, ClientFields
    <3>2. client.at - 1 \in 0 .. NumPackets
      BY <2>1, <3>1
    <3>3. QED
      BY <1>2, <3>2, CountFacts
  <2>2. QED
    BY <1>2, <1>5, <2>1 DEF InOrder
<1>10. HeaderCut
  <2>1. ~(0 >= AddressEnd(client.addr))
    BY <1>2, AddressLength
  <2>2. QED
    BY <1>2, <1>5, <2>1 DEF HeaderCut, HasAddress
<1>11. Welcome
  BY <1>2 DEF Welcome
<1>12. QED
  BY <1>6, <1>8, <1>9, <1>10, <1>11 DEF AuthInv

\* A read of a part of the IV keeps the invariant.
LEMMA ReadIvStep ==
  ASSUME AuthInv, NEW n \in 1 .. StreamLen - got, ReadIv(n)
  PROVE  AuthInv'
<1>1. /\ pc = "handshake" /\ ~started /\ recv_iv_buf + n < IvLen
      /\ got' = got + n /\ recv_iv_buf' = recv_iv_buf + n
      /\ client' = client /\ started' = started /\ recv_buf' = recv_buf
      /\ has_recv_header' = has_recv_header /\ user_id' = user_id /\ user_key' = user_key
      /\ recv_id' = recv_id /\ pc' = pc /\ app_buf' = app_buf /\ forwarded' = forwarded
      /\ connected' = connected /\ pack_id' = pack_id /\ send_iv_emitted' = send_iv_emitted
      /\ fetched' = fetched
  BY DEF ReadIv, appVars, outVars
<1>2. /\ client \in Clients /\ got \in 0 .. StreamLen /\ recv_iv_buf \in 0 .. IvLen - 1
      /\ started \in BOOLEAN
  BY DEF AuthInv, TypeOK
<1>3. /\ IvLen \in Nat \ {0} /\ StreamLen \in Nat /\ IvLen <= StreamLen
      /\ NumPackets \in Nat \ {0}
  BY <1>2, Lengths
<1>4. /\ Mine' <=> Mine
      /\ Correct' <=> Correct
      /\ \A i, k : Recognised(i, k)' <=> Recognised(i, k)
      /\ NumPackets' = NumPackets /\ StreamLen' = StreamLen
      /\ \A p : EndOf(p)' = EndOf(p) /\ Count(p)' = Count(p)
  BY <1>1, ClientKept, StreamKept
<1>5. got' \in 0 .. StreamLen /\ recv_iv_buf' \in 0 .. IvLen - 1
  BY <1>1, <1>2, <1>3
<1>6. PICK d \in 0 .. NumPackets : Decoding(d)
  BY <1>1 DEF AuthInv, InStep
<1>7. d = 0 /\ got = recv_iv_buf
  BY <1>1, <1>6 DEF Decoding
<1>8. got' = recv_iv_buf' /\ got' < EndOf(d + 1)
  <2>1. EndOf(1) \in Nat /\ EndOf(1) >= IvLen /\ d + 1 = 1
    BY <1>2, <1>3, <1>7, EndFacts
  <2>2. got' = recv_iv_buf' /\ recv_iv_buf' < IvLen
    BY <1>1, <1>7
  <2>3. got' < EndOf(1)
    BY <1>3, <1>5, <2>1, <2>2
  <2>4. QED
    BY <2>1, <2>2, <2>3
<1>9. Decoding(d)'
  BY <1>1, <1>4, <1>6, <1>7, <1>8 DEF Decoding
<1>10. TypeOK'
  BY <1>1, <1>4, <1>5 DEF AuthInv, TypeOK
<1>11. InStep'
  BY <1>4, <1>9 DEF InStep
<1>12. InOrder'
  BY <1>1, <1>4 DEF AuthInv, InOrder
<1>13. HeaderCut' /\ Welcome'
  BY <1>1, <1>4 DEF AuthInv, HeaderCut, Welcome, HasAddress
<1>14. QED
  BY <1>10, <1>11, <1>12, <1>13 DEF AuthInv

\* A step that leaves the client's direction alone keeps the invariant, also
\* when it closes the session.
LEMMA OtherStep ==
  ASSUME AuthInv, UNCHANGED <<client, inVars, appVars>>,
         pc' = pc \/ pc' = "closed",
         pack_id' \in 0 .. IdMod - 1, send_iv_emitted' \in BOOLEAN, fetched' \in 0 .. MaxRemote,
         pc' = "closed" => pc # "failed"
  PROVE  AuthInv'
<1>1. /\ client' = client /\ got' = got /\ recv_iv_buf' = recv_iv_buf /\ started' = started
      /\ recv_buf' = recv_buf /\ has_recv_header' = has_recv_header
      /\ user_id' = user_id /\ user_key' = user_key /\ recv_id' = recv_id
      /\ app_buf' = app_buf /\ forwarded' = forwarded /\ connected' = connected
  BY DEF inVars, appVars
<1>2. /\ Mine' <=> Mine
      /\ Correct' <=> Correct
      /\ \A i, k : Recognised(i, k)' <=> Recognised(i, k)
      /\ NumPackets' = NumPackets /\ StreamLen' = StreamLen
      /\ \A p : EndOf(p)' = EndOf(p) /\ Count(p)' = Count(p)
  BY <1>1, ClientKept, StreamKept
<1>3. TypeOK'
  BY <1>1, <1>2 DEF AuthInv, TypeOK
<1>4. InStep'
  <2>1. ASSUME pc' # "failed" PROVE \E d \in 0 .. NumPackets : Decoding(d)'
    <3>1. PICK d \in 0 .. NumPackets : Decoding(d)
      BY <2>1 DEF AuthInv, InStep
    <3>2. Decoding(d)'
      BY <1>1, <1>2, <3>1 DEF Decoding
    <3>3. QED
      BY <3>2
  <2>2. QED
    BY <1>2, <2>1 DEF InStep
<1>5. InOrder'
  BY <1>1, <1>2 DEF AuthInv, InOrder
<1>6. HeaderCut' /\ Welcome'
  BY <1>1, <1>2 DEF AuthInv, HeaderCut, Welcome, HasAddress
<1>7. QED
  BY <1>3, <1>4, <1>5, <1>6 DEF AuthInv

\* Every step keeps the invariant.
LEMMA AuthNext == AuthInv /\ [Next]_vars => AuthInv'
<1>1. SUFFICES ASSUME AuthInv, [Next]_vars PROVE AuthInv'
  OBVIOUS
<1>2. /\ pack_id \in 0 .. IdMod - 1 /\ send_iv_emitted \in BOOLEAN /\ fetched \in 0 .. MaxRemote
      /\ IdMod \in Nat \ {0} /\ UnitLen \in Nat \ {0} /\ MaxRemote \in Nat
  BY <1>1, AuthAssumption DEF AuthInv, TypeOK
<1>3. ASSUME NEW n \in 1 .. StreamLen - got, ReadIv(n) PROVE AuthInv'
  BY <1>1, <1>3, ReadIvStep
<1>4. ASSUME NEW n \in 1 .. StreamLen - got, Read(n) PROVE AuthInv'
  BY <1>1, <1>4, ReadStep
<1>5. ASSUME NEW n \in 1 .. MaxRemote, FromRemote(n) PROVE AuthInv'
  <2>1. /\ fetched + n <= MaxRemote /\ send_iv_emitted' = TRUE /\ pc' = pc
        /\ pack_id' = (pack_id + Pieces(n)) % IdMod /\ fetched' = fetched + n
        /\ UNCHANGED <<client, inVars, appVars>> /\ pc # "closed"
    BY <1>5 DEF FromRemote
  <2>2. Pieces(n) \in Nat
    <3>1. n - 1 \in Nat
      BY <1>2
    <3>2. (n - 1) \div UnitLen \in Nat
      BY <1>2, <3>1, Division
    <3>3. QED
      BY <3>2 DEF Pieces
  <2>3. pack_id' \in 0 .. IdMod - 1
    <3>1. PICK a \in Nat : a = pack_id + Pieces(n)
      BY <1>2, <2>2
    <3>2. a % IdMod \in 0 .. IdMod - 1
      BY <1>2, Division
    <3>3. QED
      BY <2>1, <3>1, <3>2
  <2>4. fetched' \in 0 .. MaxRemote
    BY <1>2, <2>1
  <2>5. QED
    BY <1>1, <2>1, <2>3, <2>4, OtherStep
<1>6. ASSUME Close PROVE AuthInv'
  <2>1. /\ pc \in {"handshake", "relay"} /\ pc' = "closed"
        /\ UNCHANGED <<client, inVars, appVars>>
        /\ pack_id' = pack_id /\ send_iv_emitted' = send_iv_emitted /\ fetched' = fetched
    BY <1>6 DEF Close, outVars
  <2>2. QED
    BY <1>1, <1>2, <2>1, OtherStep
<1>7. ASSUME UNCHANGED vars PROVE AuthInv'
  <2>1. /\ pc' = pc /\ UNCHANGED <<client, inVars, appVars>>
        /\ pack_id' = pack_id /\ send_iv_emitted' = send_iv_emitted /\ fetched' = fetched
    BY <1>7 DEF vars, outVars
  <2>2. pc' = "closed" => pc # "failed"
    BY <2>1
  <2>3. QED
    BY <1>1, <1>2, <2>1, <2>2, OtherStep
<1>8. QED
  BY <1>1, <1>3, <1>4, <1>5, <1>6, <1>7 DEF Next

\* The session's state is always between two packets of the client's stream,
\* with exactly the payload of the packets before delivered.
THEOREM AuthInvariant == Spec => []AuthInv
<1>1. Init => AuthInv
  BY AuthInit
<1>2. AuthInv /\ [Next]_vars => AuthInv'
  BY AuthNext
<1>3. QED
  BY <1>1, <1>2, PTL DEF Spec

----------------------------------------------------------------------------
(* What the invariant says of a session. *)

\* Types of the session's state (ServerSession, AuthAes128Md5).
THEOREM AuthTypeCorrect == Spec => []TypeOK
<1>1. AuthInv => TypeOK
  BY DEF AuthInv
<1>2. QED
  BY <1>1, AuthInvariant, PTL

\* The packets that have arrived completely are those the session decoded.
LEMMA ArrivedCount ==
  ASSUME AuthInv, Mine, NEW d \in 0 .. NumPackets, Decoding(d)
  PROVE  Arrived = Count(d)
<1>1. /\ client \in Clients /\ got \in Nat /\ Packets = 1 .. NumPackets
      /\ NumPackets \in Nat \ {0} /\ d \in Nat /\ d <= NumPackets
  <2>1. client \in Clients /\ got \in 0 .. StreamLen
    BY DEF AuthInv, TypeOK
  <2>2. QED
    BY <2>1, Lengths, ClientFields
<1>2. ASSUME NEW p \in 1 .. NumPackets PROVE EndOf(p) <= got <=> p <= d
  <2>1. /\ EndOf(p) \in Nat /\ EndOf(d) \in Nat
        /\ p <= d => EndOf(p) <= EndOf(d)
    BY <1>1, EndFacts
  <2>2. CASE p <= d
    <3>1. d # 0
      BY <1>1, <2>2
    <3>2. started /\ recv_buf.first = EndOf(d) /\ recv_buf.first + recv_buf.size = got
      BY <3>1 DEF Decoding, AuthInv, TypeOK
    <3>3. recv_buf.size \in Nat
      BY <1>1, Lengths DEF AuthInv, TypeOK
    <3>4. PICK z \in Nat : z = recv_buf.size /\ EndOf(d) + z = got
      BY <3>2, <3>3
    <3>5. QED
      BY <1>1, <2>1, <2>2, <3>4
  <2>3. CASE ~(p <= d)
    <3>1. d + 1 \in 0 .. NumPackets /\ d + 1 <= p /\ d < NumPackets
      BY <1>1, <2>3
    <3>2. got < EndOf(d + 1)
      BY <3>1 DEF Decoding
    <3>3. EndOf(d + 1) <= EndOf(p) /\ EndOf(d + 1) \in Nat
      BY <1>1, <3>1, EndFacts
    <3>4. QED
      BY <1>1, <2>1, <2>3, <3>2, <3>3
  <2>4. QED
    BY <2>2, <2>3
<1>3. {p \in Packets : EndOf(p) <= got} = 1 .. d
  BY <1>1, <1>2
<1>4. Cardinality(1 .. d) = d
  <2>1. Cardinality(1 .. d) = IF 1 > d THEN 0 ELSE d - 1 + 1
    BY <1>1, FS_Interval
  <2>2. QED
    BY <1>1, <2>1
<1>5. QED
  BY <1>3, <1>4 DEF Arrived

\* However the stream is cut, a sound client's complete packets and nothing
\* else have been decoded, and it is not refused (decrypt,
\* server_post_decrypt).
THEOREM FragmentationIrrelevantHolds == Spec => []FragmentationIrrelevant
<1>1. ASSUME AuthInv, Sound, pc # "closed"
      PROVE  pc # "failed" /\ app_buf \o forwarded = [i \in 1 .. Arrived |-> i]
  <2>1. Correct /\ Mine
    BY <1>1 DEF Sound, Mine, UserKey
  <2>2. pc # "failed"
    BY <1>1, <2>1 DEF AuthInv, Welcome
  <2>3. PICK d \in 0 .. NumPackets : Decoding(d)
    BY <1>1, <2>2 DEF AuthInv, InStep
  <2>4. Arrived = Count(d) /\ Len(app_buf) + Len(forwarded) = Count(d)
    BY <1>1, <2>1, <2>3, ArrivedCount DEF Decoding
  <2>5. PICK h \in Nat, g \in Nat : h = Len(app_buf) /\ g = Len(forwarded)
    BY <1>1 DEF AuthInv, TypeOK
  <2>6. app_buf = Run(0, h) /\ forwarded = Run(h, g)
    BY <1>1, <2>5 DEF AuthInv, InOrder
  <2>7. Run(0, h) \o Run(0 + h, g) = Run(0, h + g)
    BY RunConcat
  <2>8. 0 + h = h
    OBVIOUS
  <2>9. app_buf \o forwarded = Run(0, h + g)
    BY <2>6, <2>7, <2>8
  <2>10. Run(0, h + g) = [i \in 1 .. h + g |-> i]
    BY DEF Run
  <2>11. h + g = Arrived
    BY <2>4, <2>5
  <2>12. QED
    BY <2>2, <2>9, <2>10, <2>11
<1>2. AuthInv => FragmentationIrrelevant
  BY <1>1 DEF FragmentationIrrelevant
<1>3. QED
  BY <1>2, AuthInvariant, PTL

\* The remote gets the client's bytes after the address header, and is
\* connected to once the header is there (parse, split_off).
THEOREM PayloadIntactHolds == Spec => []PayloadIntact
<1>1. ASSUME AuthInv PROVE PayloadIntact
  <2>1. /\ client \in Clients /\ app_buf \in Seq(Nat) /\ forwarded \in Seq(Nat)
        /\ connected \in BOOLEAN
    BY <1>1 DEF AuthInv, TypeOK
  <2>2. /\ HeaderLen \in Nat /\ HeaderLen >= 4
        /\ client.addr.kind # "other" => HeaderLen = AddressEnd(client.addr)
    BY <2>1, AddressLength
  <2>3. forwarded = Run(HeaderLen, Len(forwarded))
    <3>1. CASE connected
      BY <1>1, <2>2, <3>1 DEF AuthInv, HeaderCut, InOrder
    <3>2. CASE ~connected
      <4>1. forwarded = << >> /\ Len(forwarded) = 0
        BY <1>1, <3>2 DEF AuthInv, HeaderCut
      <4>2. Run(HeaderLen, 0) = << >>
        BY <2>2, RunType
      <4>3. QED
        BY <4>1, <4>2
    <3>3. QED
      BY <3>1, <3>2
  <2>4. ASSUME pc = "handshake" PROVE Len(app_buf) < HeaderLen
    <3>1. ~HasAddress(app_buf) /\ (app_buf # << >> => client.addr.kind # "other")
      BY <1>1, <2>4 DEF AuthInv, HeaderCut
    <3>2. CASE client.addr.kind # "other"
      BY <2>1, <2>2, <3>1, <3>2 DEF HasAddress
    <3>3. CASE app_buf = << >>
      BY <2>2, <3>3
    <3>4. QED
      BY <3>1, <3>2, <3>3
  <2>5. QED
    BY <2>3, <2>4 DEF PayloadIntact, Run
<1>2. QED
  BY <1>1, AuthInvariant, PTL

\* Nothing of a packet that fails a check, and nothing after it, is decoded,
\* and the session does not outlive the packet's arrival (bad_mac, the error
\* returns of server_post_decrypt).
THEOREM NothingPastAnErrorHolds == Spec => []NothingPastAnError
<1>1. ASSUME AuthInv, client.at # 0 PROVE Len(app_buf) + Len(forwarded) <= Count(client.at - 1)
  BY <1>1 DEF AuthInv, InOrder
<1>2. ASSUME AuthInv, client.at # 0, pc = "relay" PROVE got < EndOf(client.at)
  <2>1. PICK d \in 0 .. NumPackets : Decoding(d)
    BY <1>2 DEF AuthInv, InStep
  <2>2. Mine /\ client \in Clients /\ got \in 0 .. StreamLen
    BY <1>2 DEF AuthInv, HeaderCut, Recognised, TypeOK
  <2>3. /\ d < client.at /\ client.at \in 0 .. NumPackets /\ NumPackets \in Nat /\ StreamLen \in Nat
    BY <1>2, <2>1, <2>2, ClientFields, Lengths DEF Decoding
  <2>4. d + 1 \in 0 .. NumPackets /\ d + 1 <= client.at /\ d < NumPackets
    BY <2>3
  <2>5. got < EndOf(d + 1)
    BY <2>1, <2>2, <2>4 DEF Decoding
  <2>6. EndOf(d + 1) <= EndOf(client.at) /\ EndOf(d + 1) \in Nat /\ EndOf(client.at) \in Nat
    BY <2>2, <2>3, <2>4, EndFacts
  <2>7. QED
    BY <2>2, <2>3, <2>5, <2>6
<1>3. AuthInv => NothingPastAnError
  BY <1>1, <1>2 DEF NothingPastAnError
<1>4. QED
  BY <1>3, AuthInvariant, PTL

\* A session that relays does so for the listed user whose key signed the
\* stream; one without a listed uid, for the listener's own user and with the
\* port's key, on a single-port node with the stream's IV (the header's uid,
\* is_multi_user = 2).
THEOREM RightUserHolds == Spec => []RightUser
<1>1. ASSUME AuthInv, connected PROVE RightUser
  <2>1. UserKey(client.uid) = client.key /\ user_id = UserId(client.uid)
    BY <1>1 DEF AuthInv, HeaderCut, Recognised, Mine
  <2>2. CASE client.uid \in DOMAIN Users
    BY <2>1, <2>2 DEF RightUser, UserKey, UserId
  <2>3. CASE client.uid \notin DOMAIN Users
    BY <2>1, <2>3 DEF RightUser, UserKey, UserId
  <2>4. QED
    BY <2>2, <2>3
<1>2. AuthInv => RightUser
  BY <1>1 DEF RightUser
<1>3. QED
  BY <1>2, AuthInvariant, PTL

\* On a port of mode 0 or 2 a client is let in over UDP exactly if it is over
\* TCP (server_post_decrypt, udp_server_post_decrypt).
THEOREM TransportsAgreeHolds == Spec => []TransportsAgree
<1>1. ASSUME client.mode \in {0, 2} PROVE UdpAccepts <=> Mine
  BY <1>1 DEF UdpAccepts, UdpUserKey, Mine, UserKey
<1>2. ASSUME AuthInv, client.mode \in {0, 2}, connected PROVE UdpAccepts
  BY <1>1, <1>2 DEF AuthInv, HeaderCut, Recognised
<1>3. ASSUME AuthInv, client.mode \in {0, 2}, pc = "failed", UdpAccepts PROVE ~Correct
  BY <1>1, <1>3 DEF AuthInv, Welcome
<1>4. AuthInv => TransportsAgree
  BY <1>2, <1>3 DEF TransportsAgree
<1>5. QED
  BY <1>4, AuthInvariant, PTL

----------------------------------------------------------------------------
(* Towards the client: what encrypt sends. *)

\* A product grows with each factor.
LEMMA ProductGrows ==
  ASSUME NEW u \in Nat, NEW j \in Nat, NEW k \in Nat, j <= k
  PROVE  j * u \in Nat /\ k * u \in Nat /\ j * u <= k * u
<1>1. j * u \in Nat /\ k * u \in Nat
  OBVIOUS
<1>2. PICK i \in Nat : k = j + i
  <2>1. k - j \in Nat /\ k = j + (k - j)
    OBVIOUS
  <2>2. QED
    BY <2>1
<1>3. k * u = j * u + i * u /\ i * u \in Nat
  BY <1>2
<1>4. QED
  BY <1>1, <1>3

\* All pieces of n bytes but the last are full, and the last is not empty.
LEMMA PieceCount ==
  ASSUME NEW n \in Nat \ {0}, NEW u \in Nat \ {0}, NEW c, c = (n - 1) \div u + 1
  PROVE  /\ c \in Nat \ {0} /\ n <= c * u
         /\ \A k \in 1 .. c : /\ (k - 1) * u \in Nat /\ k * u \in Nat /\ (k - 1) * u < n
                              /\ k * u = (k - 1) * u + u
                              /\ k < c => k * u < n
<1>1. n - 1 \in Nat
  OBVIOUS
<1>2. PICK q \in Nat, r \in 0 .. u - 1 : q = (n - 1) \div u /\ n - 1 = u * q + r
  <2>1. (n - 1) % u \in 0 .. u - 1 /\ (n - 1) \div u \in Nat
        /\ n - 1 = u * ((n - 1) \div u) + ((n - 1) % u)
    BY <1>1, Division
  <2>2. QED
    BY <2>1
<1>3. c = q + 1 /\ c \in Nat \ {0}
  BY <1>2
<1>4. q * u \in Nat /\ c * u = q * u + u /\ n = q * u + r + 1
  BY <1>2, <1>3
<1>5. n <= c * u /\ q * u < n
  BY <1>2, <1>4
<1>6. ASSUME NEW k \in 1 .. c
      PROVE  /\ (k - 1) * u \in Nat /\ k * u \in Nat /\ (k - 1) * u < n
             /\ k * u = (k - 1) * u + u
             /\ k < c => k * u < n
  <2>1. k \in Nat /\ k - 1 \in Nat /\ k - 1 <= q /\ (k < c => k <= q)
    BY <1>3
  <2>2. (k - 1) * u \in Nat /\ k * u \in Nat /\ k * u = (k - 1) * u + u
    BY <2>1
  <2>3. (k - 1) * u <= q * u /\ (k <= q => k * u <= q * u)
    BY <2>1, ProductGrows
  <2>4. QED
    BY <1>4, <1>5, <2>1, <2>2, <2>3
<1>7. QED
  BY <1>3, <1>5, <1>6

\* The pieces of n bytes follow each other without a gap.
LEMMA PieceFacts ==
  ASSUME NEW n \in Nat \ {0}, NEW f \in Nat, f = fetched, NEW c, c = Pieces(n)
  PROVE  /\ c \in Nat \ {0}
         /\ \A k \in 1 .. c : PackData(n, k).len \in 1 .. UnitLen /\ PackData(n, k).from \in Nat
         /\ PackData(n, 1).from = f
         /\ \A k \in 1 .. c : k # 1 =>
              PackData(n, k).from = PackData(n, k - 1).from + PackData(n, k - 1).len
         /\ PackData(n, c).from + PackData(n, c).len = f + n
<1>1. PICK u \in Nat \ {0} : u = UnitLen
  BY AuthAssumption
<1>2. /\ c \in Nat \ {0} /\ n <= c * u
      /\ \A k \in 1 .. c : /\ (k - 1) * u \in Nat /\ k * u \in Nat /\ (k - 1) * u < n
                           /\ k * u = (k - 1) * u + u
                           /\ k < c => k * u < n
  BY <1>1, PieceCount DEF Pieces
<1>3. \A k : /\ PackData(n, k).from = f + (k - 1) * u
             /\ PackData(n, k).len = IF k * u <= n THEN u ELSE n - (k - 1) * u
  BY <1>1 DEF PackData
<1>4. ASSUME NEW k \in 1 .. c
      PROVE  /\ PackData(n, k).len \in 1 .. u /\ PackData(n, k).from \in Nat
             /\ k < c => PackData(n, k).from + PackData(n, k).len = f + k * u
             /\ k = c => PackData(n, k).from + PackData(n, k).len = f + n
  <2>1. PICK a \in Nat, b \in Nat : a = (k - 1) * u /\ b = k * u
    BY <1>2
  <2>2. a < n /\ b = a + u /\ (k < c => b < n) /\ (k = c => n <= b)
    BY <1>2, <2>1
  <2>3. /\ PackData(n, k).from = f + a
        /\ PackData(n, k).len = IF b <= n THEN u ELSE n - a
    BY <1>3, <2>1
  <2>4. PICK l \in Nat : l = IF b <= n THEN u ELSE n - a
    <3>1. n - a \in Nat
      BY <2>2
    <3>2. (IF b <= n THEN u ELSE n - a) \in Nat
      BY <3>1
    <3>3. QED
      BY <3>2
  <2>5. /\ l \in 1 .. u
        /\ k < c => (f + a) + l = f + b
        /\ k = c => (f + a) + l = f + n
    BY <2>2, <2>4
  <2>6. QED
    BY <2>1, <2>3, <2>4, <2>5
<1>5. PackData(n, 1).from = f
  <2>1. (1 - 1) * u = 0
    OBVIOUS
  <2>2. QED
    BY <1>3, <2>1
<1>6. ASSUME NEW k \in 1 .. c, k # 1
      PROVE  PackData(n, k).from = PackData(n, k - 1).from + PackData(n, k - 1).len
  <2>1. k - 1 \in 1 .. c /\ k - 1 < c
    BY <1>2, <1>6
  <2>2. PackData(n, k - 1).from + PackData(n, k - 1).len = f + (k - 1) * u
    BY <1>4, <2>1
  <2>3. QED
    BY <1>3, <2>2
<1>7. c \in 1 .. c
  BY <1>2
<1>8. PackData(n, c).from + PackData(n, c).len = f + n
  BY <1>4, <1>7
<1>9. QED
  BY <1>1, <1>2, <1>4, <1>5, <1>6, <1>8

\* A packet to the client: its number and the stretch of the remote's bytes.
Piece == [id : Nat, from : Nat, len : Nat]

\* s is the IV and packets numbered from 1 that hold the first f bytes, none
\* larger than a unit.
Gapless(s, f) ==
  /\ s \in Seq(Piece) /\ Len(s) \in Nat \ {0} /\ s[1] = Iv
  /\ \A i \in 1 .. Len(s) : i # 1 =>
       /\ s[i].id = (i - 1) % IdMod /\ s[i].len \in 1 .. UnitLen
       /\ s[i].from = s[i - 1].from + s[i - 1].len
  /\ s[Len(s)].from + s[Len(s)].len = f

\* What has gone to the client, and what the next packet's number will be.
InSequence ==
  /\ sent = << >> => ~send_iv_emitted /\ fetched = 0 /\ pack_id = 1 % IdMod
  /\ sent # << >> => send_iv_emitted /\ Gapless(sent, fetched) /\ pack_id = Len(sent) % IdMod

\* What every step keeps of both directions.
SendInv == AuthInv /\ InSequence

\* What encrypt puts before the pieces of a read: what was sent, with the IV.
LEMMA BeforePieces ==
  ASSUME SendInv, NEW s, s = sent \o IvOnce
  PROVE  Gapless(s, fetched) /\ pack_id = Len(s) % IdMod
<1>1. CASE sent = << >>
  <2>1. s = <<Iv>>
    BY <1>1 DEF SendInv, InSequence, IvOnce
  <2>2. Iv \in Piece /\ Iv.from = 0 /\ Iv.len = 0
    BY AuthAssumption DEF Iv, Piece
  <2>3. s \in Seq(Piece) /\ Len(s) = 1 /\ s[1] = Iv
    BY <2>1, <2>2
  <2>4. fetched = 0 /\ pack_id = 1 % IdMod
    BY <1>1 DEF SendInv, InSequence
  <2>5. s[Len(s)].from + s[Len(s)].len = fetched
    BY <2>2, <2>3, <2>4
  <2>6. Gapless(s, fetched)
    BY <2>3, <2>5 DEF Gapless
  <2>7. QED
    BY <2>3, <2>4, <2>6
<1>2. CASE sent # << >>
  <2>1. send_iv_emitted /\ Gapless(sent, fetched) /\ pack_id = Len(sent) % IdMod
    BY <1>2 DEF SendInv, InSequence
  <2>2. sent \in Seq(Piece)
    BY <2>1 DEF Gapless
  <2>3. s = sent
    BY <2>1, <2>2 DEF IvOnce
  <2>4. QED
    BY <2>1, <2>3
<1>3. QED
  BY <1>1, <1>2

\* The pieces of n bytes continue what was sent.
LEMMA PiecesAppended ==
  ASSUME TypeOK, NEW n \in Nat \ {0}, NEW s, Gapless(s, fetched), pack_id = Len(s) % IdMod,
         NEW w, w = s \o [k \in 1 .. Pieces(n) |-> PackData(n, k)]
  PROVE  /\ Gapless(w, fetched + n)
         /\ (pack_id + Pieces(n)) % IdMod = Len(w) % IdMod
<1>1. PICK f \in Nat, m \in Nat \ {0} : f = fetched /\ m = IdMod
  BY AuthAssumption DEF TypeOK
<1>2. PICK c \in Nat \ {0} : c = Pieces(n)
  BY <1>1, PieceFacts
<1>3. /\ \A k \in 1 .. c : PackData(n, k).len \in 1 .. UnitLen /\ PackData(n, k).from \in Nat
      /\ PackData(n, 1).from = f
      /\ \A k \in 1 .. c : k # 1 =>
           PackData(n, k).from = PackData(n, k - 1).from + PackData(n, k - 1).len
      /\ PackData(n, c).from + PackData(n, c).len = f + n
  BY <1>1, <1>2, PieceFacts
<1>4. PICK l \in Nat \ {0} : l = Len(s)
  BY DEF Gapless
<1>5. /\ s \in Seq(Piece) /\ s[1] = Iv
      /\ \A i \in 1 .. l : i # 1 =>
           /\ s[i].id = (i - 1) % m /\ s[i].len \in 1 .. UnitLen
           /\ s[i].from = s[i - 1].from + s[i - 1].len
      /\ s[l].from + s[l].len = f
  BY <1>1, <1>4 DEF Gapless
<1>6. ASSUME NEW k \in 1 .. c PROVE PackData(n, k).id = ((l + k) - 1) % m
  <2>1. PackData(n, k).id = (pack_id + k - 1) % m
    BY <1>1 DEF PackData
  <2>2. l % m \in Nat
    BY Division
  <2>3. PICK j \in Nat : j = k - 1
    BY <1>2
  <2>4. ((l % m) + j) % m = (l + j) % m
    BY ModAdd
  <2>5. pack_id + k - 1 = (l % m) + j /\ l + j = (l + k) - 1
    BY <1>1, <1>4, <2>2, <2>3
  <2>6. QED
    BY <2>1, <2>4, <2>5
<1> DEFINE t == [k \in 1 .. c |-> PackData(n, k)]
<1>7. ASSUME NEW k \in 1 .. c PROVE PackData(n, k) \in Piece
  <2>1. ((l + k) - 1) % m \in Nat
    <3>1. PICK j \in Nat : j = (l + k) - 1
      BY <1>2
    <3>2. QED
      BY <3>1, Division
  <2>2. PackData(n, k).id \in Nat /\ PackData(n, k).from \in Nat /\ PackData(n, k).len \in Nat
    <3>1. \A x \in 1 .. UnitLen : x \in Nat
      BY AuthAssumption
    <3>2. QED
      BY <1>3, <1>6, <2>1, <3>1, Zenon
  <2>3. PackData(n, k) = [id |-> PackData(n, k).id, from |-> PackData(n, k).from,
                          len |-> PackData(n, k).len]
    BY DEF PackData
  <2>4. QED
    BY <2>2, <2>3 DEF Piece
<1>8. t \in Seq(Piece) /\ Len(t) = c /\ \A k \in 1 .. c : t[k] = PackData(n, k)
  BY <1>2, <1>7
<1>9. w = s \o t
  BY <1>2
<1> HIDE DEF t
<1>10. /\ w \in Seq(Piece) /\ Len(w) = l + c
       /\ \A i \in 1 .. l + c : w[i] = IF i <= l THEN s[i] ELSE t[i - l]
  <2>1. /\ s \o t \in Seq(Piece) /\ Len(s \o t) = Len(s) + Len(t)
        /\ \A i \in 1 .. Len(s) + Len(t) : (s \o t)[i] = IF i <= Len(s) THEN s[i] ELSE t[i - Len(s)]
    BY <1>5, <1>8, ConcatProperties, Zenon
  <2>2. QED
    BY <1>4, <1>8, <1>9, <2>1, Zenon
<1>11. /\ \A i \in 1 .. l : w[i] = s[i]
       /\ \A k \in 1 .. c : w[l + k] = PackData(n, k)
  <2>1. ASSUME NEW i \in 1 .. l PROVE w[i] = s[i]
    BY <1>2, <1>10
  <2>2. ASSUME NEW k \in 1 .. c PROVE w[l + k] = PackData(n, k)
    <3>1. l + k \in 1 .. l + c /\ ~(l + k <= l) /\ (l + k) - l = k
      OBVIOUS
    <3>2. QED
      BY <1>8, <1>10, <3>1
  <2>3. QED
    BY <2>1, <2>2
<1>12. ASSUME NEW i \in 1 .. l + c, i # 1
       PROVE  /\ w[i].id = (i - 1) % m /\ w[i].len \in 1 .. UnitLen
              /\ w[i].from = w[i - 1].from + w[i - 1].len
  <2>1. CASE i <= l
    <3>1. i \in 1 .. l /\ i - 1 \in 1 .. l
      BY <1>12, <2>1
    <3>2. w[i] = s[i] /\ w[i - 1] = s[i - 1]
      BY <1>11, <3>1
    <3>3. QED
      BY <1>5, <1>12, <3>1, <3>2
  <2>2. CASE i > l
    <3>1. PICK k \in 1 .. c : i = l + k
      <4>1. i - l \in 1 .. c /\ i = l + (i - l)
        BY <2>2
      <4>2. QED
        BY <4>1
    <3>2. w[i] = PackData(n, k)
      BY <1>11, <3>1
    <3>3. w[i].id = (i - 1) % m /\ w[i].len \in 1 .. UnitLen
      BY <1>3, <1>6, <3>1, <3>2
    <3>4. w[i].from = w[i - 1].from + w[i - 1].len
      <4>1. CASE k = 1
        <5>1. i - 1 = l /\ l \in 1 .. l
          BY <3>1, <4>1
        <5>2. w[i - 1] = s[l]
          BY <1>11, <5>1
        <5>3. QED
          BY <1>3, <1>5, <3>2, <4>1, <5>2
      <4>2. CASE k # 1
        <5>1. k - 1 \in 1 .. c /\ i - 1 = l + (k - 1)
          BY <3>1, <4>2
        <5>2. w[i - 1] = PackData(n, k - 1)
          BY <1>11, <5>1
        <5>3. QED
          BY <1>3, <3>2, <4>2, <5>2
      <4>3. QED
        BY <4>1, <4>2
    <3>5. QED
      BY <3>3, <3>4
  <2>3. i <= l \/ i > l
    OBVIOUS
  <2>4. QED
    BY <2>1, <2>2, <2>3, Zenon
<1>13. w[1] = Iv /\ w[l + c] = PackData(n, c)
  <2>1. 1 \in 1 .. l /\ c \in 1 .. c
    OBVIOUS
  <2>2. QED
    BY <1>5, <1>11, <2>1
<1>14. Gapless(w, fetched + n)
  <2>1. Len(w) \in Nat \ {0}
    <3>1. l + c \in Nat \ {0}
      OBVIOUS
    <3>2. QED
      BY <1>10, <3>1, Zenon
  <2>2. w[Len(w)].from + w[Len(w)].len = fetched + n
    BY <1>1, <1>3, <1>10, <1>13
  <2>3. QED
    BY <1>1, <1>10, <1>12, <1>13, <2>1, <2>2 DEF Gapless
<1>15. (pack_id + Pieces(n)) % IdMod = Len(w) % IdMod
  <2>1. ((l % m) + c) % m = (l + c) % m
    BY ModAdd
  <2>2. QED
    BY <1>1, <1>2, <1>4, <1>10, <2>1
<1>16. QED
  BY <1>14, <1>15

\* Every step keeps what was sent in sequence.
LEMMA SendNext == SendInv /\ [Next]_vars => SendInv'
<1>1. SUFFICES ASSUME SendInv, [Next]_vars PROVE SendInv'
  OBVIOUS
<1>2. AuthInv' /\ TypeOK
  BY <1>1, AuthNext DEF SendInv, AuthInv
<1>3. ASSUME UNCHANGED outVars PROVE InSequence'
  BY <1>1, <1>3 DEF SendInv, InSequence, Gapless, outVars
<1>4. ASSUME NEW n \in 1 .. MaxRemote, FromRemote(n) PROVE InSequence'
  <2>1. /\ sent' = sent \o IvOnce \o [k \in 1 .. Pieces(n) |-> PackData(n, k)]
        /\ send_iv_emitted' = TRUE
        /\ pack_id' = (pack_id + Pieces(n)) % IdMod /\ fetched' = fetched + n
    BY <1>4 DEF FromRemote
  <2>2. PICK s : s = sent \o IvOnce
    OBVIOUS
  <2>3. Gapless(s, fetched) /\ pack_id = Len(s) % IdMod
    BY <1>1, <2>2, BeforePieces
  <2>4. PICK w : w = s \o [k \in 1 .. Pieces(n) |-> PackData(n, k)]
    OBVIOUS
  <2>5. n \in Nat \ {0}
    BY AuthAssumption
  <2>6. Gapless(w, fetched + n) /\ (pack_id + Pieces(n)) % IdMod = Len(w) % IdMod
    BY <1>2, <2>3, <2>4, <2>5, PiecesAppended
  <2>7. sent' = w
    BY <2>1, <2>2, <2>4
  <2>8. w # << >>
    BY <2>6 DEF Gapless
  <2>9. Gapless(sent', fetched') /\ pack_id' = Len(sent') % IdMod /\ sent' # << >>
    BY <2>1, <2>6, <2>7, <2>8
  <2>10. QED
    BY <2>1, <2>9 DEF InSequence, Gapless
<1>5. CASE UNCHANGED vars
  BY <1>2, <1>3, <1>5 DEF vars, SendInv
<1>6. CASE Next
  BY <1>2, <1>3, <1>4, <1>6 DEF Next, ReadIv, Read, Close, SendInv
<1>7. QED
  BY <1>1, <1>5, <1>6

\* The client gets one IV and packets numbered from 1 that hold what the
\* remote sent, none larger than a unit, also after the numbers wrap
\* (encrypt, pack_data).
THEOREM ClientDecodesHolds == Spec => []ClientDecodes
<1>1. Init => SendInv
  BY AuthInit DEF Init, SendInv, InSequence
<1>2. SendInv => ClientDecodes
  <2>1. SUFFICES ASSUME SendInv, sent # << >>
        PROVE  LET P(k) == sent[k + 1]
                   n == Len(sent) - 1
               IN /\ sent[1] = Iv
                  /\ \A k \in 1 .. n :
                       /\ P(k).id = k % IdMod
                       /\ P(k).len \in 1 .. UnitLen
                       /\ P(k).from = IF k = 1 THEN 0 ELSE P(k - 1).from + P(k - 1).len
                  /\ P(n).from + P(n).len = fetched
    BY DEF ClientDecodes
  <2>2. Gapless(sent, fetched)
    BY <2>1 DEF SendInv, InSequence
  <2>3. PICK l \in Nat \ {0} : l = Len(sent)
    BY <2>2 DEF Gapless
  <2>4. /\ sent[1] = Iv
        /\ \A i \in 1 .. l : i # 1 =>
             /\ sent[i].id = (i - 1) % IdMod /\ sent[i].len \in 1 .. UnitLen
             /\ sent[i].from = sent[i - 1].from + sent[i - 1].len
        /\ sent[l].from + sent[l].len = fetched
    BY <2>2, <2>3 DEF Gapless
  <2>5. ASSUME NEW k \in 1 .. l - 1
        PROVE  /\ sent[k + 1].id = k % IdMod
               /\ sent[k + 1].len \in 1 .. UnitLen
               /\ sent[k + 1].from
                    = IF k = 1 THEN 0 ELSE sent[(k - 1) + 1].from + sent[(k - 1) + 1].len
    <3>1. k + 1 \in 1 .. l /\ k + 1 # 1 /\ (k + 1) - 1 = k /\ (k - 1) + 1 = k
      BY <2>3
    <3>2. k = 1 => sent[k].from + sent[k].len = 0
      BY <2>4 DEF Iv
    <3>3. QED
      BY <2>4, <3>1, <3>2
  <2>6. (l - 1) + 1 = l
    OBVIOUS
  <2>7. QED
    BY <2>3, <2>4, <2>5, <2>6
<1>3. QED
  BY <1>1, <1>2, SendNext, PTL DEF Spec
=============================================================================
