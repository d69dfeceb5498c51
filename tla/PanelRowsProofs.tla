--------------------------- MODULE PanelRowsProofs --------------------------
(***************************************************************************)
(* Proofs about PanelRows and Policy: what a poll makes of the panel's     *)
(* rows, for every list of rows, every width of the addresses and every    *)
(* limit.                                                                  *)
(***************************************************************************)
EXTENDS PanelRows, FiniteSetTheorems, SequenceTheorems, WellFoundedInduction, TLAPS

----------------------------------------------------------------------------
(* Induction over the natural numbers, stated for a set: the library states *)
(* it for a predicate, which no backend can instantiate.                    *)

\* A set that holds 0 and with every number the next one holds all of them.
LEMMA SetInduction ==
  ASSUME NEW S, 0 \in S, \A n \in Nat : n \in S => n + 1 \in S
  PROVE  \A n \in Nat : n \in S
<1> DEFINE T == Nat \ S
           R == OpToRel(<, Nat)
<1>1. SUFFICES ASSUME T # {} PROVE FALSE
  OBVIOUS
<1>2. IsWellFoundedOn(R, Nat)
  BY NatLessThanWellFounded
<1>3. \A x, y \in Nat : y < x => <<y, x>> \in R
  BY DEF OpToRel
<1> HIDE DEF R
<1>4. IsWellFoundedOn(R, Nat) => \E x \in T : \A y \in T : ~(<<y, x>> \in R)
  BY <1>1, WFMin
<1>5. PICK x \in T : \A y \in T : ~(<<y, x>> \in R)
  BY <1>2, <1>4
<1>6. \A y \in T : ~(y < x)
  BY <1>3, <1>5
<1>7. x - 1 \in Nat /\ x - 1 < x /\ (x - 1) + 1 = x
  OBVIOUS
<1>8. x - 1 \in T
  BY <1>7
<1>9. QED
  BY <1>6, <1>7, <1>8

----------------------------------------------------------------------------
(* Quotients, remainders and powers of two. *)

\* The remainder is the only one.
LEMMA Remainder ==
  ASSUME NEW a \in Nat, NEW m \in Nat \ {0}, NEW q \in Int, NEW r \in 0 .. m - 1,
         a = m * q + r
  PROVE  a % m = r
OBVIOUS

\* Quotient and remainder.
LEMMA Division ==
  ASSUME NEW a \in Nat, NEW m \in Nat \ {0}
  PROVE  a % m \in 0 .. m - 1 /\ a \div m \in Nat /\ a = m * (a \div m) + (a % m)
<1>1. a % m \in 0 .. m - 1
  OBVIOUS
<1>2. a \div m \in Nat
  OBVIOUS
<1>3. a = m * (a \div m) + (a % m)
  OBVIOUS
<1>4. QED
  BY <1>1, <1>2, <1>3

\* The quotient is the only one.
LEMMA Quotient ==
  ASSUME NEW a \in Nat, NEW m \in Nat \ {0}, NEW q \in Int, NEW r \in 0 .. m - 1,
         a = m * q + r
  PROVE  a \div m = q
OBVIOUS

\* Dividing twice by a number is dividing by their product, for 2.
LEMMA HalfQuotient ==
  ASSUME NEW a \in Nat, NEW m \in Nat \ {0}
  PROVE  (a \div m) \div 2 = a \div (2 * m)
<1> DEFINE q == a \div m
           r == a % m
           h == q \div 2
           t == q % 2
<1>1. q \in Nat /\ r \in 0 .. m - 1 /\ a = m * q + r
  BY Division
<1>2. h \in Nat /\ t \in 0 .. 1 /\ q = 2 * h + t
  BY <1>1, Division
<1> HIDE DEF q, r, h, t
<1>3. PICK s \in Nat : s = m * t + r
  BY <1>1, <1>2
<1>4. s \in 0 .. (2 * m) - 1
  <2>1. t = 0 \/ t = 1
    BY <1>2
  <2>2. QED
    BY <1>1, <1>3, <2>1
<1>5. a = (2 * m) * h + s
  BY <1>1, <1>2, <1>3
<1>6. 2 * m \in Nat \ {0}
  OBVIOUS
<1>7. a \div (2 * m) = h
  BY <1>2, <1>4, <1>5, <1>6, Quotient
<1>8. QED
  BY <1>7 DEF h, q

\* Numbers of two digits are equal digit by digit.
LEMMA TwoDigits ==
  ASSUME NEW c \in Nat \ {0}, NEW g \in Nat, NEW h \in Nat,
         NEW u \in 0 .. c - 1, NEW v \in 0 .. c - 1
  PROVE  c * g + u = c * h + v <=> g = h /\ u = v
<1>1. PICK a \in Nat : a = c * g + u
  OBVIOUS
<1>2. a \div c = g /\ a % c = u
  BY <1>1, Quotient, Remainder
<1>3. ASSUME a = c * h + v PROVE g = h /\ u = v
  <2>1. a \div c = h /\ a % c = v
    BY <1>3, Quotient, Remainder
  <2>2. QED
    BY <1>2, <2>1
<1>4. QED
  BY <1>1, <1>3

\* In base c the quotient by m of h * (m * c) + n has the digits of h and one
\* more, that of n.
OneDigitMore(h, n, m, c) ==
  (h * (m * c) + n) \div m = c * h + (n \div m) /\ n \div m \in 0 .. c - 1

\* The quotient of a number whose high part is a multiple of the divisor.
LEMMA HighPart ==
  ASSUME NEW m \in Nat \ {0}, NEW c \in Nat \ {0}, NEW h \in Nat, NEW n \in 0 .. (m * c) - 1
  PROVE  OneDigitMore(h, n, m, c)
<1> DEFINE d == n \div m
           r == n % m
<1>1. n \in Nat
  OBVIOUS
<1>2. d \in Nat /\ r \in 0 .. m - 1 /\ n = m * d + r
  BY <1>1, Division
<1> HIDE DEF d, r
<1>3. PICK k \in Nat : k = c * h
  OBVIOUS
<1>4. h * (m * c) = m * k
  BY <1>3
<1>5. PICK a \in Nat : a = m * k + n
  BY <1>1
<1>6. a = m * (k + d) + r /\ k + d \in Int
  BY <1>2, <1>5
<1>7. a \div m = k + d
  BY <1>2, <1>6, Quotient
<1>8. d <= c - 1
  <2>1. SUFFICES ASSUME d >= c PROVE FALSE
    BY <1>2
  <2>2. PICK e \in Nat : d = c + e
    <3>1. d - c \in Nat /\ d = c + (d - c)
      BY <1>2, <2>1
    <3>2. QED
      BY <3>1
  <2>3. m * d = m * c + m * e
    BY <2>2
  <2>4. m * e \in Nat /\ m * c \in Nat
    BY <2>2
  <2>5. QED
    BY <1>2, <2>3, <2>4
<1>9. (h * (m * c) + n) \div m = c * h + (n \div m) /\ n \div m \in 0 .. c - 1
  BY <1>2, <1>3, <1>4, <1>5, <1>7, <1>8 DEF d
<1>10. QED
  BY <1>9, Zenon DEF OneDigitMore

\* The powers of two as an equation of the function.
Doubles(f, n) == f = [k \in 0 .. n |-> IF k = 0 THEN 1 ELSE 2 * f[k - 1]]

\* The recursion of Pow2 is well founded.
LEMMA DoublesExist == \A n \in Nat : \E f : Doubles(f, n)
<1> DEFINE Good == {n \in Nat : \E f : Doubles(f, n)}
<1>1. 0 \in Good
  <2>1. Doubles([k \in 0 .. 0 |-> 1], 0)
    BY DEF Doubles
  <2>2. QED
    BY <2>1
<1>2. ASSUME NEW n \in Nat, n \in Good PROVE n + 1 \in Good
  <2>1. PICK f : Doubles(f, n)
    BY <1>2
  <2> DEFINE g == [k \in 0 .. n + 1 |-> IF k = n + 1 THEN 2 * f[n] ELSE f[k]]
  <2>2. Doubles(g, n + 1)
    <3>1. ASSUME NEW k \in 0 .. n + 1
          PROVE  g[k] = IF k = 0 THEN 1 ELSE 2 * g[k - 1]
      <4>1. CASE k = n + 1
        BY <4>1
      <4>2. CASE k # n + 1
        BY <4>2, <2>1 DEF Doubles
      <4>3. QED
        BY <4>1, <4>2
    <3>2. QED
      BY <3>1 DEF Doubles
  <2>3. QED
    BY <2>2
<1> HIDE DEF Good
<1>3. \A n \in Nat : n \in Good
  BY <1>1, <1>2, SetInduction
<1>4. QED
  BY <1>3 DEF Good

\* What Pow2 computes.
LEMMA Pow2Def ==
  /\ Pow2[0] = 1
  /\ \A k \in 1 .. V6Bits : Pow2[k] = 2 * Pow2[k - 1]
  /\ \A k \in 0 .. V6Bits : Pow2[k] \in Nat \ {0}
<1>1. V6Bits \in Nat
  BY PolicyAssumption
<1>2. \E f : Doubles(f, V6Bits)
  BY <1>1, DoublesExist
<1>3. Doubles(CHOOSE f : Doubles(f, V6Bits), V6Bits)
  BY <1>2
<1>4. Pow2 = CHOOSE f : Doubles(f, V6Bits)
  BY DEF Pow2, Doubles
<1>5. Doubles(Pow2, V6Bits)
  BY <1>3, <1>4
<1>6. Pow2[0] = 1 /\ \A k \in 1 .. V6Bits : Pow2[k] = 2 * Pow2[k - 1]
  BY <1>1, <1>5 DEF Doubles
<1> DEFINE Good == {k \in Nat : k <= V6Bits => Pow2[k] \in Nat \ {0}}
<1>7. 0 \in Good
  BY <1>6
<1>8. ASSUME NEW k \in Nat, k \in Good PROVE k + 1 \in Good
  <2>1. CASE k + 1 <= V6Bits
    <3>1. k + 1 \in 1 .. V6Bits /\ (k + 1) - 1 = k /\ k <= V6Bits
      BY <1>1, <2>1
    <3>2. Pow2[k + 1] = 2 * Pow2[k] /\ Pow2[k] \in Nat \ {0}
      BY <1>6, <1>8, <3>1
    <3>3. QED
      BY <3>2
  <2>2. QED
    BY <2>1
<1> HIDE DEF Good
<1>9. \A k \in Nat : k \in Good
  BY <1>7, <1>8, SetInduction
<1>10. QED
  BY <1>1, <1>6, <1>9 DEF Good

\* Powers of two multiply.
LEMMA Pow2Product ==
  ASSUME NEW i \in Nat, NEW n \in Nat, i + n <= V6Bits
  PROVE  Pow2[i + n] = Pow2[i] * Pow2[n]
<1>1. V6Bits \in Nat
  BY PolicyAssumption
<1> DEFINE Good == {j \in Nat : i + j <= V6Bits => Pow2[i + j] = Pow2[i] * Pow2[j]}
<1>2. 0 \in Good
  <2>1. i \in 0 .. V6Bits /\ i + 0 = i
    BY <1>1
  <2>2. PICK a \in Nat : a = Pow2[i]
    BY <2>1, Pow2Def
  <2>3. a * 1 = a
    OBVIOUS
  <2>4. QED
    BY <2>1, <2>2, <2>3, Pow2Def
<1>3. ASSUME NEW j \in Nat, j \in Good PROVE j + 1 \in Good
  <2>1. CASE i + (j + 1) <= V6Bits
    <3>1. /\ i \in 0 .. V6Bits /\ j \in 0 .. V6Bits /\ i + j <= V6Bits
          /\ j + 1 \in 1 .. V6Bits /\ (j + 1) - 1 = j
          /\ i + (j + 1) \in 1 .. V6Bits /\ (i + (j + 1)) - 1 = i + j
      BY <1>1, <2>1
    <3>2. PICK a \in Nat, b \in Nat : a = Pow2[i] /\ b = Pow2[j]
      BY <3>1, Pow2Def
    <3>3. Pow2[i + j] = a * b
      BY <1>3, <3>1, <3>2
    <3>4. Pow2[j + 1] = 2 * b /\ Pow2[i + (j + 1)] = 2 * (a * b)
      BY <3>1, <3>2, <3>3, Pow2Def
    <3>5. 2 * (a * b) = a * (2 * b)
      OBVIOUS
    <3>6. Pow2[i + (j + 1)] = Pow2[i] * Pow2[j + 1]
      BY <3>2, <3>4, <3>5
    <3>7. QED
      BY <3>6
  <2>2. QED
    BY <2>1
<1> HIDE DEF Good
<1>4. \A j \in Nat : j \in Good
  BY <1>2, <1>3, SetInduction
<1>5. QED
  BY <1>4 DEF Good

----------------------------------------------------------------------------
(* Prefixes of addresses. *)

\* Numbers that share their first q bits, counted from the left of V6Bits.
SharePrefix(x, y, q) == \A k \in 1 .. q : Bit(x, k) = Bit(y, k)

\* The number that the first q bits of x make.
Lead(x, q) == x \div Pow2[V6Bits - q]

\* One more bit.
LEMMA LeadStep ==
  ASSUME NEW x \in Nat, NEW q \in Nat, q + 1 <= V6Bits
  PROVE  /\ Lead(x, q) \in Nat /\ Lead(x, q + 1) \in Nat /\ Bit(x, q + 1) \in 0 .. 1
         /\ Lead(x, q + 1) = 2 * Lead(x, q) + Bit(x, q + 1)
<1>1. /\ V6Bits \in Nat /\ V6Bits - q \in 1 .. V6Bits
      /\ (V6Bits - q) - 1 = V6Bits - (q + 1) /\ V6Bits - (q + 1) \in 0 .. V6Bits
  BY PolicyAssumption
<1>2. PICK m \in Nat \ {0} : m = Pow2[V6Bits - (q + 1)]
  BY <1>1, Pow2Def
<1>3. Pow2[V6Bits - q] = 2 * m
  BY <1>1, <1>2, Pow2Def
<1>4. PICK a \in Nat : a = x \div m
  BY Division
<1>5. (a \div 2) = x \div (2 * m)
  BY <1>4, HalfQuotient
<1>6. a % 2 \in 0 .. 1 /\ a \div 2 \in Nat /\ a = 2 * (a \div 2) + (a % 2)
  OBVIOUS
<1>7. Lead(x, q + 1) = a /\ Lead(x, q) = a \div 2 /\ Bit(x, q + 1) = a % 2
  BY <1>2, <1>3, <1>4, <1>5 DEF Lead, Bit
<1>8. QED
  BY <1>6, <1>7

\* A number of V6Bits bits is shorter than every larger power of two.
LEMMA SmallQuotient ==
  ASSUME NEW m \in Nat \ {0}, NEW x \in 0 .. m - 1
  PROVE  x \div m = 0
<1>1. x \in Nat /\ x = m * 0 + x
  OBVIOUS
<1>2. QED
  BY <1>1, Quotient

\* Sharing the first q bits is having equal quotients, which is what the masks
\* of v4_in and v6_in compare.
LEMMA BitsAreLeads ==
  ASSUME NEW x \in 0 .. Pow2[V6Bits] - 1, NEW y \in 0 .. Pow2[V6Bits] - 1,
         NEW p \in 0 .. V6Bits
  PROVE  SharePrefix(x, y, p) <=> Lead(x, p) = Lead(y, p)
<1>1. V6Bits \in Nat /\ V6Bits - 0 = V6Bits /\ V6Bits \in 0 .. V6Bits
  BY PolicyAssumption
<1>2. PICK M \in Nat \ {0} : M = Pow2[V6Bits]
  BY <1>1, Pow2Def
<1>3. x \in 0 .. M - 1 /\ y \in 0 .. M - 1 /\ x \in Nat /\ y \in Nat
  BY <1>2
<1> DEFINE Good == {q \in Nat : q <= V6Bits =>
                      (SharePrefix(x, y, q) <=> Lead(x, q) = Lead(y, q))}
<1>4. 0 \in Good
  <2>1. Lead(x, 0) = 0 /\ Lead(y, 0) = 0
    BY <1>1, <1>2, <1>3, SmallQuotient DEF Lead
  <2>2. SharePrefix(x, y, 0)
    BY DEF SharePrefix
  <2>3. QED
    BY <2>1, <2>2
<1>5. ASSUME NEW q \in Nat, q \in Good PROVE q + 1 \in Good
  <2>1. CASE q + 1 <= V6Bits
    <3>1. SharePrefix(x, y, q) <=> Lead(x, q) = Lead(y, q)
      BY <1>1, <1>5, <2>1
    <3>2. \A k \in 1 .. q + 1 : k \in 1 .. q \/ k = q + 1
      OBVIOUS
    <3>3. q + 1 \in 1 .. q + 1 /\ \A k \in 1 .. q : k \in 1 .. q + 1
      OBVIOUS
    <3>4. SharePrefix(x, y, q + 1) <=> SharePrefix(x, y, q) /\ Bit(x, q + 1) = Bit(y, q + 1)
      BY <3>2, <3>3, Zenon DEF SharePrefix
    <3>5. /\ Lead(x, q) \in Nat /\ Bit(x, q + 1) \in 0 .. 1
          /\ Lead(x, q + 1) = 2 * Lead(x, q) + Bit(x, q + 1)
          /\ Lead(y, q) \in Nat /\ Bit(y, q + 1) \in 0 .. 1
          /\ Lead(y, q + 1) = 2 * Lead(y, q) + Bit(y, q + 1)
      BY <1>3, <2>1, LeadStep
    <3>6. PICK a \in Nat, b \in Nat : a = Lead(x, q) /\ b = Lead(y, q)
      BY <3>5
    <3>7. PICK s \in 0 .. 1, t \in 0 .. 1 : s = Bit(x, q + 1) /\ t = Bit(y, q + 1)
      BY <3>5
    <3>8. 2 * a + s = 2 * b + t <=> a = b /\ s = t
      OBVIOUS
    <3>9. Lead(x, q + 1) = 2 * a + s /\ Lead(y, q + 1) = 2 * b + t
      BY <3>5, <3>6, <3>7, Zenon
    <3>10. Lead(x, q + 1) = Lead(y, q + 1)
             <=> Lead(x, q) = Lead(y, q) /\ Bit(x, q + 1) = Bit(y, q + 1)
      BY <3>6, <3>7, <3>8, <3>9, Zenon
    <3>11. SharePrefix(x, y, q + 1) <=> Lead(x, q + 1) = Lead(y, q + 1)
      BY <3>1, <3>4, <3>10, Zenon
    <3>12. QED
      BY <3>11
  <2>2. QED
    BY <2>1
<1> HIDE DEF Good
<1>6. \A q \in Nat : q \in Good
  BY <1>4, <1>5, SetInduction
<1>7. p \in Nat /\ p <= V6Bits
  BY <1>1
<1>8. QED
  BY <1>6, <1>7 DEF Good

\* The guard for a prefix of no bits changes nothing: v4_in and v6_in compare
\* quotients.
LEMMA InPrefixQuotients ==
  ASSUME NEW bits \in 0 .. V6Bits, NEW prefix \in 0 .. bits,
         NEW b \in 0 .. Pow2[bits] - 1, NEW i \in 0 .. Pow2[bits] - 1
  PROVE  InPrefix(bits, b, i, prefix)
           <=> b \div Pow2[bits - prefix] = i \div Pow2[bits - prefix]
<1>1. CASE prefix = 0
  <2>1. PICK m \in Nat \ {0} : m = Pow2[bits]
    BY Pow2Def
  <2>2. bits - prefix = bits
    BY <1>1, PolicyAssumption
  <2>3. b \in 0 .. m - 1 /\ i \in 0 .. m - 1
    BY <2>1
  <2>4. b \div m = 0 /\ i \div m = 0
    BY <2>3, SmallQuotient
  <2>5. QED
    BY <1>1, <2>1, <2>2, <2>4 DEF InPrefix
<1>2. CASE prefix # 0
  BY <1>2 DEF InPrefix
<1>3. QED
  BY <1>1, <1>2

\* An IPv4 address in the mapped block: its first V6Bits - V4Bits bits are
\* those of the block, the others its own.
LEMMA MappedLeads ==
  ASSUME NEW g \in Nat, NEW h \in Nat, NEW u \in 0 .. Pow2[V4Bits] - 1,
         NEW v \in 0 .. Pow2[V4Bits] - 1, NEW prefix \in 0 .. V4Bits,
         NEW q, q = prefix + (V6Bits - V4Bits)
  PROVE  Lead(g * Pow2[V4Bits] + u, q) = Lead(h * Pow2[V4Bits] + v, q)
           <=> /\ g = h
               /\ u \div Pow2[V4Bits - prefix] = v \div Pow2[V4Bits - prefix]
<1>1. /\ V4Bits - prefix \in 0 .. V6Bits /\ prefix \in 0 .. V6Bits
      /\ V4Bits - prefix \in Nat /\ prefix \in Nat
      /\ (V4Bits - prefix) + prefix = V4Bits /\ V4Bits <= V6Bits
      /\ V6Bits - q = V4Bits - prefix
  BY PolicyAssumption
<1>2. PICK m \in Nat \ {0}, c \in Nat \ {0} : m = Pow2[V4Bits - prefix] /\ c = Pow2[prefix]
  BY <1>1, Pow2Def
<1>3. Pow2[V4Bits] = m * c
  <2>1. Pow2[(V4Bits - prefix) + prefix] = Pow2[V4Bits - prefix] * Pow2[prefix]
    BY <1>1, Pow2Product
  <2>2. QED
    BY <1>1, <1>2, <2>1
<1>4. u \in 0 .. (m * c) - 1 /\ v \in 0 .. (m * c) - 1
  BY <1>3
<1>5. (g * (m * c) + u) \div m = c * g + (u \div m) /\ u \div m \in 0 .. c - 1
  <2>1. OneDigitMore(g, u, m, c)
    BY <1>4, HighPart
  <2>2. QED
    BY <2>1, Zenon DEF OneDigitMore
<1>6. (h * (m * c) + v) \div m = c * h + (v \div m) /\ v \div m \in 0 .. c - 1
  <2>1. OneDigitMore(h, v, m, c)
    BY <1>4, HighPart
  <2>2. QED
    BY <2>1, Zenon DEF OneDigitMore
<1>7. PICK d \in 0 .. c - 1, e \in 0 .. c - 1 : d = u \div m /\ e = v \div m
  BY <1>5, <1>6, Zenon
<1>8. c * g + d = c * h + e <=> g = h /\ d = e
  BY TwoDigits
<1>9. Lead(g * Pow2[V4Bits] + u, q) = c * g + d
  BY <1>1, <1>2, <1>3, <1>5, <1>7, Zenon DEF Lead
<1>10. Lead(h * Pow2[V4Bits] + v, q) = c * h + e
  BY <1>1, <1>2, <1>3, <1>6, <1>7, Zenon DEF Lead
<1>11. QED
  BY <1>2, <1>7, <1>8, <1>9, <1>10, Zenon

----------------------------------------------------------------------------
(* Cidr and PortRange. *)

\* A number of two digits is below the product of their bounds.
LEMMA DigitsBelow ==
  ASSUME NEW c \in Nat \ {0}, NEW m \in Nat \ {0}, NEW h \in 0 .. c - 1, NEW n \in 0 .. m - 1
  PROVE  h * m + n \in 0 .. (c * m) - 1
<1>1. PICK k \in Nat : c = h + 1 + k
  <2>1. c - (h + 1) \in Nat /\ c = h + 1 + (c - (h + 1))
    OBVIOUS
  <2>2. QED
    BY <2>1
<1>2. c * m = h * m + m + k * m
  BY <1>1
<1>3. k * m \in Nat /\ h * m \in Nat
  BY <1>1
<1>4. PICK a \in Nat, b \in Nat : a = k * m /\ b = h * m
  BY <1>3
<1>5. b + n \in 0 .. (b + m + a) - 1
  OBVIOUS
<1>6. QED
  BY <1>2, <1>4, <1>5, Zenon

\* The fields of an address.
LEMMA AddrFields ==
  ASSUME NEW ip \in IpAddr
  PROVE  \/ ip.fam = "v4" /\ ip.n \in 0 .. Pow2[V4Bits] - 1
         \/ ip.fam = "v6" /\ ip.n \in 0 .. Pow2[V6Bits] - 1
BY DEF IpAddr

\* The widths and their powers.
LEMMA Widths ==
  /\ V4Bits \in Nat /\ V6Bits \in Nat /\ V4Bits <= V6Bits /\ V6Bits - V4Bits \in Nat
  /\ V4Bits \in 0 .. V6Bits /\ V6Bits \in 0 .. V6Bits /\ V6Bits - V4Bits \in 0 .. V6Bits
  /\ Pow2[V4Bits] \in Nat \ {0} /\ Pow2[V6Bits] \in Nat \ {0}
  /\ Pow2[V6Bits - V4Bits] \in Nat \ {0}
  /\ Pow2[V6Bits] = Pow2[V6Bits - V4Bits] * Pow2[V4Bits]
  /\ MappedHead \in Nat /\ MappedHead \in 0 .. Pow2[V6Bits - V4Bits] - 1
<1>1. /\ V4Bits \in Nat /\ V6Bits \in Nat /\ V4Bits <= V6Bits /\ V6Bits - V4Bits \in Nat
      /\ V4Bits \in 0 .. V6Bits /\ V6Bits \in 0 .. V6Bits /\ V6Bits - V4Bits \in 0 .. V6Bits
      /\ (V6Bits - V4Bits) + V4Bits = V6Bits /\ V6Bits <= V6Bits
  BY PolicyAssumption
<1>2. /\ Pow2[V4Bits] \in Nat \ {0} /\ Pow2[V6Bits] \in Nat \ {0}
      /\ Pow2[V6Bits - V4Bits] \in Nat \ {0}
  BY <1>1, Pow2Def, Zenon
<1>3. Pow2[(V6Bits - V4Bits) + V4Bits] = Pow2[V6Bits - V4Bits] * Pow2[V4Bits]
  BY <1>1, Pow2Product
<1>4. PICK c \in Nat \ {0} : c = Pow2[V6Bits - V4Bits]
  BY <1>2
<1>5. MappedHead \in 0 .. c - 1
  BY <1>4, MappedAssumption
<1>6. MappedHead \in Nat
  BY <1>5
<1>7. QED
  BY <1>1, <1>2, <1>3, <1>4, <1>5, <1>6, Zenon

\* Every address has its place among the V6 addresses.
LEMMA V6OfRange ==
  ASSUME NEW ip \in IpAddr
  PROVE  V6Of(ip) \in 0 .. Pow2[V6Bits] - 1
<1>1. CASE ip.fam = "v4"
  <2>1. V6Of(ip) = MappedHead * Pow2[V4Bits] + ip.n /\ ip.n \in 0 .. Pow2[V4Bits] - 1
    BY <1>1, AddrFields DEF V6Of
  <2>2. MappedHead * Pow2[V4Bits] + ip.n \in 0 .. (Pow2[V6Bits - V4Bits] * Pow2[V4Bits]) - 1
    BY <2>1, Widths, DigitsBelow, Zenon
  <2>3. QED
    BY <2>1, <2>2, Widths, Zenon
<1>2. CASE ip.fam = "v6"
  BY <1>2, AddrFields DEF V6Of
<1>3. QED
  BY <1>1, <1>2, AddrFields

\* What an item that says something says, and what Cidr::parse makes of it.
LEMMA SaidItem ==
  ASSUME NEW item \in IpItem, SaysIp(item)
  PROVE  /\ item.base \in IpAddr
         /\ \E k \in 0 .. Bits(item.base.fam) :
              /\ CidrParse(item) = <<[base |-> item.base, prefix |-> k]>>
              /\ V6Prefix(item) = IF item.base.fam = "v4" THEN k + (V6Bits - V4Bits) ELSE k
<1>1. item # Junk /\ item \in [kind : {"ip"}, base : IpAddr, prefix : Nat \cup {NoPrefix}]
  BY DEF SaysIp, IpItem
<1>2. item.base \in IpAddr /\ item.prefix \in Nat \cup {NoPrefix}
  BY <1>1
<1>3. Bits(item.base.fam) \in Nat
  BY Widths DEF Bits
<1>4. item.prefix <= Bits(item.base.fam)
  BY DEF SaysIp
<1>5. ~(item.prefix > Bits(item.base.fam))
  BY <1>2, <1>3, <1>4 DEF NoPrefix
<1> DEFINE k == IF item.prefix = NoPrefix THEN Bits(item.base.fam) ELSE item.prefix
<1>6. CidrParse(item) = <<[base |-> item.base, prefix |-> k]>>
  BY <1>1, <1>5 DEF CidrParse
<1>7. CASE item.prefix = NoPrefix
  <2>1. k = Bits(item.base.fam) /\ k \in 0 .. Bits(item.base.fam)
    BY <1>3, <1>7
  <2>2. V6Prefix(item) = IF item.base.fam = "v4" THEN k + (V6Bits - V4Bits) ELSE k
    BY <1>7, <2>1, Widths DEF V6Prefix, Bits
  <2>3. QED
    BY <1>2, <1>6, <2>1, <2>2
<1>8. CASE item.prefix # NoPrefix
  <2>1. k = item.prefix /\ k \in 0 .. Bits(item.base.fam)
    BY <1>2, <1>3, <1>4, <1>8
  <2>2. V6Prefix(item) = IF item.base.fam = "v4" THEN k + (V6Bits - V4Bits) ELSE k
    BY <1>2, <1>8, <2>1, Widths DEF V6Prefix, NoPrefix
  <2>3. QED
    BY <1>2, <1>6, <2>1, <2>2
<1>9. QED
  BY <1>7, <1>8

\* A block and the addresses in it, whatever the families: Cidr::contains is
\* right about the bits.
LEMMA ContainsShared ==
  ASSUME NEW base \in IpAddr, NEW ip \in IpAddr, NEW k \in 0 .. Bits(base.fam),
         NEW q, q = IF base.fam = "v4" THEN k + (V6Bits - V4Bits) ELSE k
  PROVE  CidrContains([base |-> base, prefix |-> k], ip)
           <=> SharePrefix(V6Of(base), V6Of(ip), q)
<1>1. q \in 0 .. V6Bits
  BY Widths DEF Bits
<1>2. SharePrefix(V6Of(base), V6Of(ip), q) <=> Lead(V6Of(base), q) = Lead(V6Of(ip), q)
  BY <1>1, V6OfRange, BitsAreLeads
<1>3. "v4" # "v6"
  OBVIOUS
<1>4. CASE base.fam = "v4"
  <2>1. /\ base.n \in 0 .. Pow2[V4Bits] - 1 /\ k \in 0 .. V4Bits /\ q = k + (V6Bits - V4Bits)
        /\ V6Of(base) = MappedHead * Pow2[V4Bits] + base.n
    BY <1>3, <1>4, AddrFields DEF Bits, V6Of
  <2>2. \A h \in Nat : \A v \in 0 .. Pow2[V4Bits] - 1 :
          Lead(MappedHead * Pow2[V4Bits] + base.n, q) = Lead(h * Pow2[V4Bits] + v, q)
            <=> /\ MappedHead = h
                /\ base.n \div Pow2[V4Bits - k] = v \div Pow2[V4Bits - k]
    <3>1. MappedHead \in Nat
      BY Widths
    <3>2. QED
      BY <2>1, <3>1, MappedLeads
  <2>3. \A v \in 0 .. Pow2[V4Bits] - 1 :
          InPrefix(V4Bits, base.n, v, k)
            <=> base.n \div Pow2[V4Bits - k] = v \div Pow2[V4Bits - k]
    BY <2>1, Widths, InPrefixQuotients
  <2>4. CASE ip.fam = "v4"
    <3>1. ip.n \in 0 .. Pow2[V4Bits] - 1 /\ V6Of(ip) = MappedHead * Pow2[V4Bits] + ip.n
      BY <1>3, <2>4, AddrFields DEF V6Of
    <3>2. CidrContains([base |-> base, prefix |-> k], ip) <=> InPrefix(V4Bits, base.n, ip.n, k)
      BY <1>3, <1>4, <2>4 DEF CidrContains, Bits
    <3>3. InPrefix(V4Bits, base.n, ip.n, k)
            <=> base.n \div Pow2[V4Bits - k] = ip.n \div Pow2[V4Bits - k]
      BY <2>3, <3>1, Zenon
    <3>4. MappedHead \in Nat
      BY Widths
    <3>5. Lead(MappedHead * Pow2[V4Bits] + base.n, q) = Lead(MappedHead * Pow2[V4Bits] + ip.n, q)
            <=> /\ MappedHead = MappedHead
                /\ base.n \div Pow2[V4Bits - k] = ip.n \div Pow2[V4Bits - k]
      BY <2>2, <3>1, <3>4, Zenon
    <3>6. QED
      BY <1>2, <2>1, <3>1, <3>2, <3>3, <3>5, Zenon
  <2>5. CASE ip.fam = "v6"
    <3>1. ip.n \in 0 .. Pow2[V6Bits] - 1 /\ V6Of(ip) = ip.n
      BY <1>3, <2>5, AddrFields DEF V6Of
    <3>2. PICK m \in Nat \ {0}, n \in Nat : m = Pow2[V4Bits] /\ n = ip.n
      BY <3>1, Widths
    <3>3. n % m \in 0 .. m - 1 /\ n \div m \in Nat /\ n = m * (n \div m) + (n % m)
      BY Division
    <3>4. n = (n \div m) * m + (n % m)
      <4>1. PICK d \in Nat, r \in Nat : d = n \div m /\ r = n % m
        BY <3>3
      <4>2. m * d + r = d * m + r
        OBVIOUS
      <4>3. QED
        BY <3>3, <4>1, <4>2, Zenon
    <3>5. CidrContains([base |-> base, prefix |-> k], ip)
            <=> n \div m = MappedHead /\ InPrefix(V4Bits, base.n, n % m, k)
      BY <1>3, <1>4, <2>5, <3>2 DEF CidrContains, Bits, IsMapped
    <3>6. n % m \in 0 .. Pow2[V4Bits] - 1
      BY <3>2, <3>3, Zenon
    <3>7. InPrefix(V4Bits, base.n, n % m, k)
            <=> base.n \div Pow2[V4Bits - k] = (n % m) \div Pow2[V4Bits - k]
      BY <2>3, <3>6, Zenon
    <3>8. Lead(MappedHead * Pow2[V4Bits] + base.n, q) = Lead((n \div m) * Pow2[V4Bits] + (n % m), q)
            <=> /\ MappedHead = n \div m
                /\ base.n \div Pow2[V4Bits - k] = (n % m) \div Pow2[V4Bits - k]
      BY <2>2, <3>3, <3>6, Zenon
    <3>9. QED
      BY <1>2, <2>1, <3>1, <3>2, <3>4, <3>5, <3>7, <3>8, Zenon
  <2>6. QED
    BY <2>4, <2>5, AddrFields
<1>5. CASE base.fam = "v6"
  <2>1. /\ base.n \in 0 .. Pow2[V6Bits] - 1 /\ k \in 0 .. V6Bits /\ q = k
        /\ V6Of(base) = base.n
    BY <1>3, <1>5, AddrFields DEF Bits, V6Of
  <2>2. V6Of(ip) \in 0 .. Pow2[V6Bits] - 1
    BY V6OfRange
  <2>3. CidrContains([base |-> base, prefix |-> k], ip)
          <=> InPrefix(V6Bits, base.n, V6Of(ip), k)
    <3>1. CASE ip.fam = "v4"
      BY <1>3, <1>5, <3>1 DEF CidrContains, Bits, V6Of, ToMapped
    <3>2. CASE ip.fam = "v6"
      BY <1>3, <1>5, <3>2 DEF CidrContains, Bits, V6Of
    <3>3. QED
      BY <3>1, <3>2, AddrFields
  <2>4. InPrefix(V6Bits, base.n, V6Of(ip), k) <=> Lead(base.n, k) = Lead(V6Of(ip), k)
    BY <2>1, <2>2, Widths, InPrefixQuotients, Zenon DEF Lead
  <2>5. QED
    BY <1>2, <2>1, <2>3, <2>4, Zenon
<1>6. QED
  BY <1>4, <1>5, AddrFields

\* An item of an address list forbids what it says.
LEMMA ItemExact ==
  ASSUME NEW item \in IpItem, NEW ip \in IpAddr
  PROVE  /\ ~SaysIp(item) => CidrParse(item) = << >> /\ ~Covers(item, ip)
         /\ SaysIp(item) => \E c : /\ CidrParse(item) = <<c>>
                                   /\ CidrContains(c, ip) <=> Covers(item, ip)
<1>1. CASE ~SaysIp(item)
  <2>1. item = Junk \/ (item.prefix \in Int /\ ~(item.prefix <= Bits(item.base.fam)))
    BY <1>1 DEF SaysIp, IpItem, NoPrefix
  <2>2. Bits(item.base.fam) \in Nat
    BY Widths DEF Bits
  <2>3. item = Junk \/ item.prefix > Bits(item.base.fam)
    BY <2>1, <2>2
  <2>4. QED
    BY <1>1, <2>3 DEF CidrParse, Covers
<1>2. CASE SaysIp(item)
  <2>1. item.base \in IpAddr
    BY <1>2, SaidItem
  <2>2. PICK k \in 0 .. Bits(item.base.fam) :
          /\ CidrParse(item) = <<[base |-> item.base, prefix |-> k]>>
          /\ V6Prefix(item) = IF item.base.fam = "v4" THEN k + (V6Bits - V4Bits) ELSE k
    BY <1>2, SaidItem
  <2>3. CidrContains([base |-> item.base, prefix |-> k], ip)
          <=> SharePrefix(V6Of(item.base), V6Of(ip), V6Prefix(item))
    BY <2>1, <2>2, ContainsShared
  <2>4. Covers(item, ip) <=> SharePrefix(V6Of(item.base), V6Of(ip), V6Prefix(item))
    BY <1>2 DEF Covers, SharePrefix
  <2>5. CidrContains([base |-> item.base, prefix |-> k], ip) <=> Covers(item, ip)
    BY <2>3, <2>4
  <2>6. QED
    BY <1>2, <2>2, <2>5, Zenon
<1>3. QED
  BY <1>1, <1>2

\* An item of a port list forbids the ports between its ends.
LEMMA PortItemExact ==
  ASSUME NEW item \in PortItem, NEW port \in Nat
  PROVE  /\ item = Junk => PortRangeParse(item) = << >> /\ ~Between(item, port)
         /\ item # Junk => \E r : /\ PortRangeParse(item) = <<r>>
                                  /\ PortRangeContains(r, port) <=> Between(item, port)
<1>1. CASE item = Junk
  BY <1>1 DEF PortRangeParse, Between
<1>2. CASE item # Junk
  <2>1. item.a \in Nat /\ item.b \in Nat
    BY <1>2 DEF PortItem
  <2>2. CASE item.a <= item.b
    <3>1. PortRangeParse(item) = <<[start |-> item.a, end |-> item.b]>>
      BY <1>2, <2>2 DEF PortRangeParse
    <3>2. PortRangeContains([start |-> item.a, end |-> item.b], port) <=> Between(item, port)
      BY <1>2, <2>1, <2>2 DEF PortRangeContains, Between
    <3>3. QED
      BY <1>2, <3>1, <3>2
  <2>3. CASE ~(item.a <= item.b)
    <3>1. PortRangeParse(item) = <<[start |-> item.b, end |-> item.a]>>
      BY <1>2, <2>3 DEF PortRangeParse
    <3>2. PortRangeContains([start |-> item.b, end |-> item.a], port) <=> Between(item, port)
      BY <1>2, <2>1, <2>3 DEF PortRangeContains, Between
    <3>3. QED
      BY <1>2, <3>1, <3>2
  <2>4. QED
    BY <2>2, <2>3
<1>3. QED
  BY <1>1, <1>2

----------------------------------------------------------------------------
(* filter and filter_map: the values of the options that hold one. *)

\* An optional value, as a sequence.
Options(T) == {<< >>} \cup {<<x>> : x \in T}

\* The concatenations of the prefixes of ss as an equation of the function.
Flattens(f, ss, n) ==
  f = [i \in 1 .. n |-> IF i = 1 THEN ss[i] ELSE f[i - 1] \o ss[i]]

\* m says where in the first n options the values of f come from: in their
\* order, each from its own, and none is left out.
Picks(m, f, ss, n) ==
  /\ m \in [1 .. Len(f) -> 1 .. n]
  /\ \A a, b \in 1 .. Len(f) : a < b => m[a] < m[b]
  /\ \A a \in 1 .. Len(f) : ss[m[a]] = <<f[a]>>
  /\ \A i \in 1 .. n : ss[i] # << >> => \E a \in 1 .. Len(f) : m[a] = i

\* The recursion of FlattenSeq is well founded.
LEMMA FlattensExist ==
  ASSUME NEW ss
  PROVE  \A n \in Nat : \E f : Flattens(f, ss, n)
<1> DEFINE Good == {n \in Nat : \E f : Flattens(f, ss, n)}
<1>1. 0 \in Good
  <2>1. Flattens([i \in 1 .. 0 |-> << >>], ss, 0)
    BY DEF Flattens
  <2>2. QED
    BY <2>1
<1>2. ASSUME NEW n \in Nat, n \in Good PROVE n + 1 \in Good
  <2>1. PICK f : Flattens(f, ss, n)
    BY <1>2
  <2> DEFINE new == IF n = 0 THEN ss[n + 1] ELSE f[n] \o ss[n + 1]
             g == [i \in 1 .. n + 1 |-> IF i = n + 1 THEN new ELSE f[i]]
  <2>2. Flattens(g, ss, n + 1)
    <3>1. ASSUME NEW i \in 1 .. n + 1
          PROVE  g[i] = IF i = 1 THEN ss[i] ELSE g[i - 1] \o ss[i]
      <4>1. CASE i = n + 1
        <5>1. g[i] = new
          BY <4>1
        <5>2. CASE n = 0
          BY <4>1, <5>1, <5>2
        <5>3. CASE n # 0
          <6>1. i # 1 /\ i - 1 = n /\ n \in 1 .. n + 1 /\ n # n + 1
            BY <4>1, <5>3
          <6>2. g[i - 1] = f[n]
            BY <6>1
          <6>3. QED
            BY <4>1, <5>1, <5>3, <6>1, <6>2
        <5>4. QED
          BY <5>2, <5>3
      <4>2. CASE i # n + 1
        <5>1. i \in 1 .. n /\ i \in 1 .. n + 1
          BY <4>2
        <5>2. f[i] = IF i = 1 THEN ss[i] ELSE f[i - 1] \o ss[i]
          BY <2>1, <5>1, Zenon DEF Flattens
        <5>3. g[i] = f[i]
          BY <4>2, <5>1
        <5>4. CASE i = 1
          BY <5>2, <5>3, <5>4
        <5>5. CASE i # 1
          <6>1. i - 1 \in 1 .. n + 1 /\ i - 1 # n + 1
            BY <5>5
          <6>2. g[i - 1] = f[i - 1]
            BY <6>1
          <6>3. QED
            BY <5>2, <5>3, <5>5, <6>2, Zenon
        <5>6. QED
          BY <5>4, <5>5
      <4>3. QED
        BY <4>1, <4>2
    <3>2. QED
      BY <3>1, Zenon DEF Flattens
  <2>3. QED
    BY <2>2
<1> HIDE DEF Good
<1>3. \A n \in Nat : n \in Good
  BY <1>1, <1>2, SetInduction
<1>4. QED
  BY <1>3 DEF Good

\* One more option.
LEMMA PicksStep ==
  ASSUME NEW T, NEW ss, NEW n \in Nat, NEW f \in Seq(T), NEW m, Picks(m, f, ss, n),
         ss[n + 1] \in Options(T), NEW g, g = f \o ss[n + 1]
  PROVE  g \in Seq(T) /\ \E l : Picks(l, g, ss, n + 1)
<1>1. CASE ss[n + 1] = << >>
  <2>1. g = f
    BY <1>1
  <2>2. Picks(m, f, ss, n + 1)
    <3>1. m \in [1 .. Len(f) -> 1 .. n + 1]
      BY DEF Picks
    <3>2. \A i \in 1 .. n + 1 : i \in 1 .. n \/ i = n + 1
      OBVIOUS
    <3>3. QED
      BY <1>1, <3>1, <3>2 DEF Picks
  <2>3. QED
    BY <2>1, <2>2
<1>2. ASSUME NEW x \in T, ss[n + 1] = <<x>>
      PROVE  g \in Seq(T) /\ \E l : Picks(l, g, ss, n + 1)
  <2>1. Len(f) \in Nat /\ g \in Seq(T) /\ Len(g) = Len(f) + 1
    BY <1>2
  <2>2. (\A a \in 1 .. Len(f) : g[a] = f[a]) /\ g[Len(f) + 1] = x
    BY <1>2
  <2> DEFINE l == [a \in 1 .. Len(f) + 1 |-> IF a = Len(f) + 1 THEN n + 1 ELSE m[a]]
  <2>3. PICK k \in Nat : k = Len(f)
    BY <2>1
  <2>4. /\ \A a \in 1 .. k : m[a] \in 1 .. n
        /\ \A a, b \in 1 .. k : a < b => m[a] < m[b]
        /\ \A a \in 1 .. k : ss[m[a]] = <<f[a]>>
        /\ \A i \in 1 .. n : ss[i] # << >> => \E a \in 1 .. k : m[a] = i
    BY <2>3 DEF Picks
  <2>5. /\ l \in [1 .. k + 1 -> 1 .. n + 1]
        /\ l[k + 1] = n + 1 /\ \A a \in 1 .. k : l[a] = m[a]
    BY <2>3, <2>4
  <2> HIDE DEF l
  <2>6. /\ \A a \in 1 .. k + 1 : a \in 1 .. k \/ a = k + 1
        /\ \A i \in 1 .. n + 1 : i \in 1 .. n \/ i = n + 1
        /\ k + 1 \in 1 .. k + 1 /\ \A a \in 1 .. k : a \in 1 .. k + 1
    OBVIOUS
  <2>7. ASSUME NEW a \in 1 .. k + 1, NEW b \in 1 .. k + 1, a < b PROVE l[a] < l[b]
    <3>1. a \in 1 .. k
      BY <2>7
    <3>2. CASE b = k + 1
      BY <2>4, <2>5, <3>1, <3>2
    <3>3. CASE b # k + 1
      BY <2>4, <2>5, <2>7, <3>1, <3>3
    <3>4. QED
      BY <3>2, <3>3
  <2>8. ASSUME NEW a \in 1 .. k + 1 PROVE ss[l[a]] = <<g[a]>>
    <3>1. CASE a = k + 1
      BY <1>2, <2>2, <2>3, <2>5, <3>1
    <3>2. CASE a \in 1 .. k
      BY <2>2, <2>3, <2>4, <2>5, <3>2
    <3>3. QED
      BY <2>6, <3>1, <3>2
  <2>9. ASSUME NEW i \in 1 .. n + 1, ss[i] # << >> PROVE \E a \in 1 .. k + 1 : l[a] = i
    <3>1. CASE i = n + 1
      BY <2>5, <2>6, <3>1
    <3>2. CASE i \in 1 .. n
      BY <2>4, <2>5, <2>6, <2>9, <3>2
    <3>3. QED
      BY <2>6, <3>1, <3>2
  <2>10. Picks(l, g, ss, n + 1)
    BY <2>1, <2>3, <2>5, <2>7, <2>8, <2>9 DEF Picks
  <2>11. QED
    BY <2>1, <2>10
<1>3. QED
  BY <1>1, <1>2 DEF Options

\* What the concatenation of optional values is.
LEMMA FlattenOptions ==
  ASSUME NEW T, NEW ss \in Seq(Options(T))
  PROVE  FlattenSeq(ss) \in Seq(T) /\ \E m : Picks(m, FlattenSeq(ss), ss, Len(ss))
<1>1. Len(ss) \in Nat /\ DOMAIN ss = 1 .. Len(ss)
  OBVIOUS
<1>2. CASE Len(ss) = 0
  <2>1. FlattenSeq(ss) = ss /\ ss = << >>
    BY <1>2 DEF FlattenSeq
  <2>2. Picks(<< >>, << >>, << >>, 0)
    BY DEF Picks
  <2>3. << >> \in Seq(T)
    OBVIOUS
  <2>4. QED
    BY <1>2, <2>1, <2>2, <2>3
<1>3. CASE Len(ss) # 0
  <2> DEFINE n == Len(ss)
             F == CHOOSE f : Flattens(f, ss, n)
  <2>1. \E f : Flattens(f, ss, n)
    BY <1>1, FlattensExist
  <2>2. Flattens(F, ss, n)
    BY <2>1
  <2>3. FlattenSeq(ss) = F[n]
    BY <1>3 DEF FlattenSeq, Flattens
  <2> HIDE DEF F
  <2>4. /\ n \in Nat \ {0}
        /\ \A i \in 1 .. n : F[i] = IF i = 1 THEN ss[i] ELSE F[i - 1] \o ss[i]
        /\ \A i \in 1 .. n : ss[i] \in Options(T)
    <3>1. n \in Nat \ {0} /\ \A i \in 1 .. n : ss[i] \in Options(T)
      BY <1>1, <1>3
    <3>2. \A i \in 1 .. n : F[i] = IF i = 1 THEN ss[i] ELSE F[i - 1] \o ss[i]
      BY <2>2, Zenon DEF Flattens
    <3>3. QED
      BY <3>1, <3>2
  <2> HIDE DEF n
  <2> DEFINE Good == {k \in Nat : k + 1 <= n =>
                        F[k + 1] \in Seq(T) /\ \E m : Picks(m, F[k + 1], ss, k + 1)}
  <2>5. 0 \in Good
    <3>1. 1 \in 1 .. n
      BY <2>4
    <3>2. F[1] = ss[1] /\ ss[0 + 1] = ss[1] /\ ss[1] \in Options(T)
      BY <2>4, <3>1
    <3>3. << >> \in Seq(T)
      OBVIOUS
    <3>4. Picks(<< >>, << >>, ss, 0)
      BY DEF Picks
    <3>5. << >> \o ss[0 + 1] = ss[1]
      BY <3>2 DEF Options
    <3>6. 0 \in Nat /\ ss[0 + 1] \in Options(T) /\ ss[1] = << >> \o ss[0 + 1]
      BY <3>2, <3>5
    <3>7. ss[1] \in Seq(T) /\ \E l : Picks(l, ss[1], ss, 0 + 1)
      BY <3>3, <3>4, <3>6, PicksStep
    <3>8. F[0 + 1] \in Seq(T) /\ \E m : Picks(m, F[0 + 1], ss, 0 + 1)
      BY <3>2, <3>7
    <3>9. QED
      BY <3>8
  <2>6. ASSUME NEW k \in Nat, k \in Good PROVE k + 1 \in Good
    <3>1. CASE (k + 1) + 1 <= n
      <4>1. /\ k + 1 \in Nat /\ k + 1 <= n /\ (k + 1) + 1 \in 1 .. n
            /\ (k + 1) + 1 # 1 /\ ((k + 1) + 1) - 1 = k + 1
        BY <2>4, <3>1
      <4>2. F[k + 1] \in Seq(T) /\ \E m : Picks(m, F[k + 1], ss, k + 1)
        BY <2>6, <4>1
      <4>3. /\ F[(k + 1) + 1] = F[k + 1] \o ss[(k + 1) + 1]
            /\ ss[(k + 1) + 1] \in Options(T)
        BY <2>4, <4>1
      <4>4. /\ F[(k + 1) + 1] \in Seq(T)
            /\ \E m : Picks(m, F[(k + 1) + 1], ss, (k + 1) + 1)
        BY <4>1, <4>2, <4>3, PicksStep
      <4>5. QED
        BY <4>1, <4>4
    <3>2. QED
      BY <3>1
  <2> HIDE DEF Good
  <2>7. \A k \in Nat : k \in Good
    BY <2>5, <2>6, SetInduction
  <2>8. n - 1 \in Nat /\ (n - 1) + 1 = n /\ n <= n
    BY <2>4
  <2>9. F[n] \in Seq(T) /\ \E m : Picks(m, F[n], ss, n)
    BY <2>7, <2>8 DEF Good
  <2>10. QED
    BY <2>3, <2>9 DEF n
<1>4. QED
  BY <1>2, <1>3

----------------------------------------------------------------------------
(* UserPolicy. *)

\* Block and range, as parsed.
Cidr == [base : IpAddr, prefix : Nat]
PortRange == [start : Nat, end : Nat]

\* The parsed address list: something is forbidden if an item says anything,
\* and exactly what the items say.
LEMMA IpsExact ==
  ASSUME NEW list \in Seq(IpItem)
  PROVE  /\ ParseIps(list) # << >> <=> \E i \in DOMAIN list : SaysIp(list[i])
         /\ \A ip \in IpAddr :
              (\E i \in DOMAIN ParseIps(list) : CidrContains(ParseIps(list)[i], ip))
                <=> \E i \in DOMAIN list : Covers(list[i], ip)
<1> DEFINE ss == [i \in DOMAIN list |-> CidrParse(list[i])]
           f == ParseIps(list)
<1>1. /\ Len(list) \in Nat /\ DOMAIN list = 1 .. Len(list)
      /\ \A i \in DOMAIN list : list[i] \in IpItem
  OBVIOUS
<1>2. \A i \in DOMAIN list : ~SaysIp(list[i]) => CidrParse(list[i]) = << >>
  <2> TAKE i \in DOMAIN list
  <2>1. list[i] \in IpItem
    BY <1>1
  <2>2. HAVE ~SaysIp(list[i])
  <2>3. Bits(list[i].base.fam) \in Nat
    BY Widths DEF Bits
  <2>4. list[i] = Junk \/ list[i].prefix > Bits(list[i].base.fam)
    BY <2>1, <2>2, <2>3 DEF SaysIp, IpItem, NoPrefix
  <2>5. QED
    BY <2>4 DEF CidrParse
<1>3. \A i \in DOMAIN list : SaysIp(list[i]) => \E c \in Cidr : CidrParse(list[i]) = <<c>>
  <2> TAKE i \in DOMAIN list
  <2>1. HAVE SaysIp(list[i])
  <2>2. PICK k \in 0 .. Bits(list[i].base.fam) :
          CidrParse(list[i]) = <<[base |-> list[i].base, prefix |-> k]>>
    BY <1>1, <2>1, SaidItem
  <2>3. list[i].base \in IpAddr /\ k \in Nat
    BY <1>1, <2>1, SaidItem, Widths DEF Bits
  <2>4. [base |-> list[i].base, prefix |-> k] \in Cidr
    BY <2>3 DEF Cidr
  <2>5. QED
    BY <2>2, <2>4
<1>4. \A i \in DOMAIN list : CidrParse(list[i]) \in Options(Cidr)
  BY <1>2, <1>3 DEF Options
<1>5. ss \in Seq(Options(Cidr)) /\ Len(ss) = Len(list)
  BY <1>1, <1>4
<1>6. \A i \in 1 .. Len(list) : ss[i] = CidrParse(list[i])
  BY <1>1
<1>7. f = FlattenSeq(ss)
  BY DEF ParseIps
<1> HIDE DEF ss, f
<1>8. PICK m : Picks(m, f, ss, Len(list))
  BY <1>5, <1>7, FlattenOptions
<1>9. f \in Seq(Cidr)
  BY <1>5, <1>7, FlattenOptions
<1>10. Len(f) \in Nat /\ DOMAIN f = 1 .. Len(f) /\ (f # << >> <=> 1 \in 1 .. Len(f))
  BY <1>9
<1>11. \A a \in 1 .. Len(f) : m[a] \in 1 .. Len(list) /\ CidrParse(list[m[a]]) = <<f[a]>>
  BY <1>6, <1>8 DEF Picks
<1>12. \A i \in 1 .. Len(list) : CidrParse(list[i]) # << >> => \E a \in 1 .. Len(f) : m[a] = i
  BY <1>6, <1>8 DEF Picks
<1>13. \A a \in 1 .. Len(f) : SaysIp(list[m[a]])
  <2> TAKE a \in 1 .. Len(f)
  <2>1. <<f[a]>> # << >>
    OBVIOUS
  <2>2. QED
    BY <1>1, <1>2, <1>11, <2>1, Zenon
<1>14. ASSUME NEW i \in 1 .. Len(list), SaysIp(list[i])
       PROVE  \E a \in 1 .. Len(f) : m[a] = i
  <2>1. CidrParse(list[i]) # << >>
    <3>1. PICK c : CidrParse(list[i]) = <<c>>
      BY <1>1, <1>3, <1>14
    <3>2. <<c>> # << >>
      OBVIOUS
    <3>3. QED
      BY <3>1, <3>2
  <2>2. QED
    BY <1>12, <2>1
<1>15. f # << >> <=> \E i \in DOMAIN list : SaysIp(list[i])
  <2>1. ASSUME f # << >> PROVE \E i \in DOMAIN list : SaysIp(list[i])
    BY <1>1, <1>10, <1>11, <1>13, <2>1, Zenon
  <2>2. ASSUME NEW i \in DOMAIN list, SaysIp(list[i]) PROVE f # << >>
    <3>1. PICK a \in 1 .. Len(f) : m[a] = i
      BY <1>1, <1>14, <2>2
    <3>2. QED
      BY <1>10, <3>1
  <2>3. QED
    BY <2>1, <2>2
<1>16. ASSUME NEW ip \in IpAddr
       PROVE  (\E a \in DOMAIN f : CidrContains(f[a], ip))
                <=> \E i \in DOMAIN list : Covers(list[i], ip)
  <2>1. ASSUME NEW a \in 1 .. Len(f) PROVE CidrContains(f[a], ip) <=> Covers(list[m[a]], ip)
    <3>1. list[m[a]] \in IpItem /\ SaysIp(list[m[a]]) /\ CidrParse(list[m[a]]) = <<f[a]>>
      BY <1>1, <1>11, <1>13, <2>1
    <3>2. PICK c : /\ CidrParse(list[m[a]]) = <<c>>
                   /\ CidrContains(c, ip) <=> Covers(list[m[a]], ip)
      BY <3>1, ItemExact
    <3>3. c = f[a]
      <4>1. <<c>>[1] = c /\ <<f[a]>>[1] = f[a]
        OBVIOUS
      <4>2. QED
        BY <3>1, <3>2, <4>1, Zenon
    <3>4. QED
      BY <3>2, <3>3
  <2>2. ASSUME NEW i \in 1 .. Len(list), Covers(list[i], ip)
        PROVE  \E a \in 1 .. Len(f) : CidrContains(f[a], ip)
    <3>1. SaysIp(list[i])
      BY <2>2 DEF Covers
    <3>2. PICK a \in 1 .. Len(f) : m[a] = i
      BY <1>14, <3>1
    <3>3. QED
      BY <2>1, <2>2, <3>2
  <2>3. QED
    BY <1>1, <1>10, <1>11, <2>1, <2>2, Zenon
<1>17. QED
  BY <1>15, <1>16 DEF f

\* The parsed port list likewise.
LEMMA PortsExact ==
  ASSUME NEW list \in Seq(PortItem)
  PROVE  /\ ParsePorts(list) # << >> <=> \E i \in DOMAIN list : list[i] # Junk
         /\ \A port \in Nat :
              (\E i \in DOMAIN ParsePorts(list) : PortRangeContains(ParsePorts(list)[i], port))
                <=> \E i \in DOMAIN list : Between(list[i], port)
<1> DEFINE ss == [i \in DOMAIN list |-> PortRangeParse(list[i])]
           f == ParsePorts(list)
<1>1. /\ Len(list) \in Nat /\ DOMAIN list = 1 .. Len(list)
      /\ \A i \in DOMAIN list : list[i] \in PortItem
  OBVIOUS
<1>2. \A i \in DOMAIN list : list[i] = Junk => PortRangeParse(list[i]) = << >>
  BY DEF PortRangeParse
<1>3. \A i \in DOMAIN list : list[i] # Junk =>
        \E r \in PortRange : PortRangeParse(list[i]) = <<r>>
  <2> TAKE i \in DOMAIN list
  <2>1. HAVE list[i] # Junk
  <2>2. list[i].a \in Nat /\ list[i].b \in Nat
    BY <1>1, <2>1 DEF PortItem
  <2>3. CASE list[i].a <= list[i].b
    <3>1. PortRangeParse(list[i]) = <<[start |-> list[i].a, end |-> list[i].b]>>
      BY <2>1, <2>3 DEF PortRangeParse
    <3>2. [start |-> list[i].a, end |-> list[i].b] \in PortRange
      BY <2>2 DEF PortRange
    <3>3. QED
      BY <3>1, <3>2
  <2>4. CASE ~(list[i].a <= list[i].b)
    <3>1. PortRangeParse(list[i]) = <<[start |-> list[i].b, end |-> list[i].a]>>
      BY <2>1, <2>4 DEF PortRangeParse
    <3>2. [start |-> list[i].b, end |-> list[i].a] \in PortRange
      BY <2>2 DEF PortRange
    <3>3. QED
      BY <3>1, <3>2
  <2>5. QED
    BY <2>3, <2>4
<1>4. \A i \in DOMAIN list : PortRangeParse(list[i]) \in Options(PortRange)
  BY <1>2, <1>3 DEF Options
<1>5. ss \in Seq(Options(PortRange)) /\ Len(ss) = Len(list)
  BY <1>1, <1>4
<1>6. \A i \in 1 .. Len(list) : ss[i] = PortRangeParse(list[i])
  BY <1>1
<1>7. f = FlattenSeq(ss)
  BY DEF ParsePorts
<1> HIDE DEF ss, f
<1>8. PICK m : Picks(m, f, ss, Len(list))
  BY <1>5, <1>7, FlattenOptions
<1>9. f \in Seq(PortRange)
  BY <1>5, <1>7, FlattenOptions
<1>10. Len(f) \in Nat /\ DOMAIN f = 1 .. Len(f) /\ (f # << >> <=> 1 \in 1 .. Len(f))
  BY <1>9
<1>11. \A a \in 1 .. Len(f) : m[a] \in 1 .. Len(list) /\ PortRangeParse(list[m[a]]) = <<f[a]>>
  BY <1>6, <1>8 DEF Picks
<1>12. \A i \in 1 .. Len(list) :
         PortRangeParse(list[i]) # << >> => \E a \in 1 .. Len(f) : m[a] = i
  BY <1>6, <1>8 DEF Picks
<1>13. \A a \in 1 .. Len(f) : list[m[a]] # Junk
  <2> TAKE a \in 1 .. Len(f)
  <2>1. <<f[a]>> # << >>
    OBVIOUS
  <2>2. QED
    BY <1>1, <1>2, <1>11, <2>1, Zenon
<1>14. ASSUME NEW i \in 1 .. Len(list), list[i] # Junk
       PROVE  \E a \in 1 .. Len(f) : m[a] = i
  <2>1. PortRangeParse(list[i]) # << >>
    <3>1. PICK r : PortRangeParse(list[i]) = <<r>>
      BY <1>1, <1>3, <1>14
    <3>2. <<r>> # << >>
      OBVIOUS
    <3>3. QED
      BY <3>1, <3>2
  <2>2. QED
    BY <1>12, <2>1
<1>15. f # << >> <=> \E i \in DOMAIN list : list[i] # Junk
  <2>1. ASSUME f # << >> PROVE \E i \in DOMAIN list : list[i] # Junk
    BY <1>1, <1>10, <1>11, <1>13, <2>1, Zenon
  <2>2. ASSUME NEW i \in DOMAIN list, list[i] # Junk PROVE f # << >>
    <3>1. PICK a \in 1 .. Len(f) : m[a] = i
      BY <1>1, <1>14, <2>2
    <3>2. QED
      BY <1>10, <3>1
  <2>3. QED
    BY <2>1, <2>2
<1>16. ASSUME NEW port \in Nat
       PROVE  (\E a \in DOMAIN f : PortRangeContains(f[a], port))
                <=> \E i \in DOMAIN list : Between(list[i], port)
  <2>1. ASSUME NEW a \in 1 .. Len(f)
        PROVE  PortRangeContains(f[a], port) <=> Between(list[m[a]], port)
    <3>1. /\ list[m[a]] \in PortItem /\ list[m[a]] # Junk
          /\ PortRangeParse(list[m[a]]) = <<f[a]>>
      BY <1>1, <1>11, <1>13, <2>1
    <3>2. PICK r : /\ PortRangeParse(list[m[a]]) = <<r>>
                   /\ PortRangeContains(r, port) <=> Between(list[m[a]], port)
      BY <3>1, PortItemExact
    <3>3. r = f[a]
      <4>1. <<r>>[1] = r /\ <<f[a]>>[1] = f[a]
        OBVIOUS
      <4>2. QED
        BY <3>1, <3>2, <4>1, Zenon
    <3>4. QED
      BY <3>2, <3>3
  <2>2. ASSUME NEW i \in 1 .. Len(list), Between(list[i], port)
        PROVE  \E a \in 1 .. Len(f) : PortRangeContains(f[a], port)
    <3>1. list[i] # Junk
      BY <2>2 DEF Between
    <3>2. PICK a \in 1 .. Len(f) : m[a] = i
      BY <1>14, <3>1
    <3>3. QED
      BY <2>1, <2>2, <3>2
  <2>3. QED
    BY <1>1, <1>10, <1>11, <2>1, <2>2, Zenon
<1>17. QED
  BY <1>15, <1>16 DEF f

\* The fields of a row.
LEMMA RowFields ==
  ASSUME NEW row \in PanelUser
  PROVE  /\ row.id \in Nat /\ row.user_id \in Nat /\ row.port \in 0 .. MaxPort
         /\ row.mode \in Int /\ row.enable \in Int /\ row.speed \in Int
         /\ row.connector \in Int /\ row.ips \in Seq(IpItem) /\ row.ports \in Seq(PortItem)
BY DEF PanelUser

\* from_user: the limits, and what the policy forbids.
LEMMA FromUserExact ==
  ASSUME NEW row \in PanelUser
  PROVE  /\ SpeedLimit(row.speed) \in Nat
         /\ row.speed >= Mbit => SpeedLimit(row.speed) > 0
         /\ row.speed <= 0 => SpeedLimit(row.speed) = 0
         /\ FromUser(row).speed_limit_bps = SpeedLimit(row.speed)
         /\ FromUser(row).conn_limit \in 0 .. ConnMod - 1
         /\ row.connector < ConnMod =>
              FromUser(row).conn_limit = IF row.connector > 0 THEN row.connector ELSE 0
         /\ NeedsConnectionPolicy(FromUser(row)) <=> Restricted(row)
         /\ \A ip \in IpAddr :
              IpForbidden(FromUser(row), ip) <=> \E i \in DOMAIN row.ips : Covers(row.ips[i], ip)
         /\ \A port \in Nat :
              PortForbidden(FromUser(row), port)
                <=> \E i \in DOMAIN row.ports : Between(row.ports[i], port)
<1>1. ConnMod \in Nat \ {0} /\ Mbit \in Nat \ {0}
  BY PolicyAssumption
<1>2. PICK s \in Int, c \in Int : s = row.speed /\ c = row.connector
  BY RowFields
<1>3. PICK q \in Nat \ {0}, w \in Nat \ {0} : q = Mbit /\ w = ConnMod
  BY <1>1
<1> DEFINE p == FromUser(row)
<1>4. /\ p.speed_limit_bps = SpeedLimit(s) /\ p.conn_limit = ConnLimit(c)
      /\ p.forbidden_ips = ParseIps(row.ips) /\ p.forbidden_ports = ParsePorts(row.ports)
  BY <1>2 DEF FromUser
<1> HIDE DEF p
<1>5. /\ SpeedLimit(s) \in Nat
      /\ s >= Mbit => SpeedLimit(s) > 0
      /\ s <= 0 => SpeedLimit(s) = 0
  <2>1. CASE s <= 0
    <3>1. SpeedLimit(s) = 0 \div q
      BY <1>3, <2>1 DEF SpeedLimit
    <3>2. 0 \div q = 0
      OBVIOUS
    <3>3. QED
      BY <1>3, <2>1, <3>1, <3>2
  <2>2. CASE s > 0
    <3>1. SpeedLimit(s) = s \div q
      BY <1>3, <2>2 DEF SpeedLimit
    <3>2. s \in Nat
      BY <2>2
    <3>3. PICK d \in Nat, r \in 0 .. q - 1 : d = s \div q /\ s = q * d + r
      BY <3>2, Division
    <3>4. s >= q => d > 0
      <4>1. SUFFICES ASSUME s >= q, d = 0 PROVE FALSE
        BY <3>3
      <4>2. QED
        BY <3>3, <4>1
    <3>5. QED
      BY <1>3, <2>2, <3>1, <3>3, <3>4
  <2>3. QED
    BY <2>1, <2>2
<1>6. /\ ConnLimit(c) \in 0 .. ConnMod - 1
      /\ c < ConnMod => ConnLimit(c) = IF c > 0 THEN c ELSE 0
      /\ ConnLimit(c) > 0 <=> c > 0 /\ c % ConnMod # 0
  <2>1. CASE c <= 0
    <3>1. ConnLimit(c) = 0 % w
      BY <1>3, <2>1 DEF ConnLimit
    <3>2. 0 % w = 0
      OBVIOUS
    <3>3. QED
      BY <1>3, <2>1, <3>1, <3>2
  <2>2. CASE c > 0
    <3>1. ConnLimit(c) = c % w /\ c \in Nat
      BY <1>3, <2>2 DEF ConnLimit
    <3>2. c % w \in 0 .. w - 1
      BY <3>1
    <3>3. c < w => c % w = c
      BY <3>1
    <3>4. QED
      BY <1>3, <2>2, <3>1, <3>2, <3>3
  <2>3. QED
    BY <2>1, <2>2
<1>7. NeedsConnectionPolicy(p) <=> Restricted(row)
  <2>1. p.forbidden_ips # << >> <=> \E i \in DOMAIN row.ips : SaysIp(row.ips[i])
    BY <1>4, RowFields, IpsExact
  <2>2. p.forbidden_ports # << >> <=> \E i \in DOMAIN row.ports : row.ports[i] # Junk
    BY <1>4, RowFields, PortsExact
  <2>3. p.conn_limit > 0 <=> row.connector > 0 /\ row.connector % ConnMod # 0
    BY <1>2, <1>4, <1>6, Zenon
  <2>4. QED
    BY <2>1, <2>2, <2>3, Zenon DEF NeedsConnectionPolicy, Restricted
<1>8. \A ip \in IpAddr :
        IpForbidden(p, ip) <=> \E i \in DOMAIN row.ips : Covers(row.ips[i], ip)
  BY <1>4, RowFields, IpsExact DEF IpForbidden
<1>9. \A port \in Nat :
        PortForbidden(p, port) <=> \E i \in DOMAIN row.ports : Between(row.ports[i], port)
  BY <1>4, RowFields, PortsExact DEF PortForbidden
<1>10. QED
  BY <1>2, <1>4, <1>5, <1>6, <1>7, <1>8, <1>9, Zenon DEF p

----------------------------------------------------------------------------
(* The users of an answer. *)

\* m numbers the enabled rows of rs in their order: they are the users f.
Numbers(m, f, rs) ==
  /\ f \in Seq(PanelUser) /\ m \in [1 .. Len(f) -> Enabled(rs)]
  /\ \A x, y \in 1 .. Len(f) : x < y => m[x] < m[y]
  /\ \A x \in 1 .. Len(f) : f[x] = rs[m[x]]
  /\ \A i \in Enabled(rs) : \E x \in 1 .. Len(f) : m[x] = i

\* users() returns the enabled rows, each once and in the panel's order.
LEMMA UsersNumbered ==
  ASSUME NEW a, NEW rs \in Seq(PanelUser), a.rows = rs
  PROVE  \E m : Numbers(m, UsersIn(a), rs)
<1> DEFINE ss == [i \in DOMAIN rs |-> IF IsEnabled(rs[i]) THEN <<rs[i]>> ELSE << >>]
           f == UsersIn(a)
<1>1. /\ Len(rs) \in Nat /\ DOMAIN rs = 1 .. Len(rs)
      /\ \A i \in DOMAIN rs : rs[i] \in PanelUser
  OBVIOUS
<1>2. \A i \in DOMAIN rs :
        (IF IsEnabled(rs[i]) THEN <<rs[i]>> ELSE << >>) \in Options(PanelUser)
  BY <1>1 DEF Options
<1>3. ss \in Seq(Options(PanelUser)) /\ Len(ss) = Len(rs)
  BY <1>1, <1>2
<1>4. \A i \in 1 .. Len(rs) : ss[i] = IF IsEnabled(rs[i]) THEN <<rs[i]>> ELSE << >>
  BY <1>1
<1>5. f = FlattenSeq(ss)
  BY DEF UsersIn
<1> HIDE DEF ss, f
<1>6. PICK m : Picks(m, f, ss, Len(rs))
  BY <1>3, <1>5, FlattenOptions
<1>7. f \in Seq(PanelUser)
  BY <1>3, <1>5, FlattenOptions
<1>8. ASSUME NEW x \in 1 .. Len(f) PROVE m[x] \in Enabled(rs) /\ f[x] = rs[m[x]]
  <2>1. m[x] \in 1 .. Len(rs) /\ ss[m[x]] = <<f[x]>>
    BY <1>6 DEF Picks
  <2>2. <<f[x]>> # << >> /\ <<f[x]>>[1] = f[x] /\ <<rs[m[x]]>>[1] = rs[m[x]]
    OBVIOUS
  <2>3. IsEnabled(rs[m[x]]) /\ <<rs[m[x]]>> = <<f[x]>>
    BY <1>4, <2>1, <2>2, Zenon
  <2>4. f[x] = rs[m[x]]
    BY <2>2, <2>3, Zenon
  <2>5. QED
    BY <1>1, <2>1, <2>3, <2>4 DEF IsEnabled, Enabled
<1>9. ASSUME NEW i \in Enabled(rs) PROVE \E x \in 1 .. Len(f) : m[x] = i
  <2>1. i \in 1 .. Len(rs) /\ IsEnabled(rs[i])
    BY <1>1 DEF Enabled, IsEnabled
  <2>2. <<rs[i]>> # << >>
    OBVIOUS
  <2>3. ss[i] # << >>
    BY <1>4, <2>1, <2>2, Zenon
  <2>4. QED
    BY <1>6, <2>1, <2>3 DEF Picks
<1>10. m \in [1 .. Len(f) -> Enabled(rs)]
  BY <1>6, <1>8 DEF Picks
<1>11. \A x, y \in 1 .. Len(f) : x < y => m[x] < m[y]
  BY <1>6 DEF Picks
<1>12. Numbers(m, f, rs)
  BY <1>7, <1>8, <1>9, <1>10, <1>11, Zenon DEF Numbers
<1>13. QED
  BY <1>12 DEF f

\* There are as many users as enabled rows.
LEMMA UsersCounted ==
  ASSUME NEW rs \in Seq(PanelUser), NEW f, NEW m, Numbers(m, f, rs)
  PROVE  Len(f) = Cardinality(Enabled(rs))
<1>1. Len(f) \in Nat
  BY DEF Numbers
<1>2. Enabled(rs) \subseteq Nat
  BY DEF Enabled
<1>3. ASSUME NEW x \in 1 .. Len(f), NEW y \in 1 .. Len(f), m[x] = m[y] PROVE x = y
  <2>1. PICK i \in Nat : i = m[x] /\ i = m[y]
    BY <1>2, <1>3 DEF Numbers
  <2>2. /\ x < y => m[x] < m[y]
        /\ y < x => m[y] < m[x]
    BY DEF Numbers
  <2>3. QED
    BY <1>1, <2>1, <2>2
<1>4. m \in Bijection(1 .. Len(f), Enabled(rs))
  BY <1>3 DEF Numbers, Bijection, Injection, IsInjective, Surjection
<1>5. ExistsBijection(1 .. Len(f), Enabled(rs))
  BY <1>4 DEF ExistsBijection
<1>6. QED
  BY <1>1, <1>5, FS_CountingElements

\* The guards of sync_users accept the usable answers.
LEMMA UsableExact ==
  ASSUME NEW a, a.rows \in Seq(PanelUser)
  PROVE  Usable(a) <=> Parses(a) /\ WithinMaxUsers(a)
<1>1. PICK m : Numbers(m, UsersIn(a), a.rows)
  BY UsersNumbered
<1>2. Len(UsersIn(a)) = Cardinality(Enabled(a.rows))
  BY <1>1, UsersCounted
<1>3. QED
  BY <1>2, Zenon DEF Usable, Parses, WithinMaxUsers

----------------------------------------------------------------------------
(* The tables. *)

\* i is the last index in S.
IsLast(i, S) == i \in S /\ \A j \in S : j <= i

\* The rows of user u among the first k users, those with limits and those
\* that give a key.
UserRows(f, k, u) == {i \in 1 .. k : UserId(f[i]) = u}
LimitRows(f, k, u) == {i \in 1 .. k : UserId(f[i]) = u /\ Restricted(f[i])}
PlainRows(f, k, u) == {i \in 1 .. k : UserId(f[i]) = u /\ f[i].mode = 0}

\* t is what the first k users make of the tables.
Built(t, f, k) ==
  /\ t.counters = {UserId(f[i]) : i \in 1 .. k}
  /\ t.conns = t.counters
  /\ DOMAIN t.auth = {UserId(f[i]) : i \in {j \in 1 .. k : f[j].mode = 0}}
  /\ t.auth \in [DOMAIN t.auth -> {f[i].password : i \in 1 .. k}]
  /\ \A u \in DOMAIN t.auth :
       \E i : IsLast(i, PlainRows(f, k, u)) /\ t.auth[u] = f[i].password
  /\ t.speeds \in [t.counters -> Nat]
  /\ \A u \in t.counters :
       \E i : IsLast(i, UserRows(f, k, u)) /\ t.speeds[u] = SpeedLimit(f[i].speed)
  /\ DOMAIN t.policies = {UserId(f[i]) : i \in {j \in 1 .. k : Restricted(f[j])}}
  /\ \A u \in DOMAIN t.policies :
       \E i : IsLast(i, LimitRows(f, k, u)) /\ t.policies[u] = FromUser(f[i])

\* Nothing is built from no user.
LEMMA BuiltFromNothing ==
  ASSUME NEW f
  PROVE  Built(NoTables, f, 0)
<1>1. 1 .. 0 = {} /\ DOMAIN << >> = {}
  OBVIOUS
<1>2. /\ NoTables.counters = {} /\ NoTables.conns = {} /\ NoTables.auth = << >>
      /\ NoTables.speeds = << >> /\ NoTables.policies = << >>
  BY DEF NoTables
<1>3. << >> \in [{} -> Nat]
  OBVIOUS
<1>4. << >> \in [{} -> {f[i].password : i \in 1 .. 0}]
  OBVIOUS
<1>5. QED
  BY <1>1, <1>2, <1>3, <1>4, Zenon DEF Built

\* The rows of the users when one more row has been handled.
LEMMA OneMoreRow ==
  ASSUME NEW f, NEW k \in Nat, NEW u, NEW i
  PROVE  /\ UserId(f[k + 1]) = u => IsLast(k + 1, UserRows(f, k + 1, u))
         /\ UserId(f[k + 1]) # u /\ IsLast(i, UserRows(f, k, u))
              => IsLast(i, UserRows(f, k + 1, u))
         /\ UserId(f[k + 1]) = u /\ Restricted(f[k + 1])
              => IsLast(k + 1, LimitRows(f, k + 1, u))
         /\ ~(UserId(f[k + 1]) = u /\ Restricted(f[k + 1])) /\ IsLast(i, LimitRows(f, k, u))
              => IsLast(i, LimitRows(f, k + 1, u))
         /\ UserId(f[k + 1]) = u /\ f[k + 1].mode = 0
              => IsLast(k + 1, PlainRows(f, k + 1, u))
         /\ ~(UserId(f[k + 1]) = u /\ f[k + 1].mode = 0) /\ IsLast(i, PlainRows(f, k, u))
              => IsLast(i, PlainRows(f, k + 1, u))
<1>1. /\ \A j \in 1 .. k + 1 : j \in 1 .. k \/ j = k + 1
      /\ \A j \in 1 .. k : j \in 1 .. k + 1
      /\ k + 1 \in 1 .. k + 1 /\ \A j \in 1 .. k + 1 : j <= k + 1
  OBVIOUS
<1>2. UserId(f[k + 1]) = u => IsLast(k + 1, UserRows(f, k + 1, u))
  BY <1>1, Zenon DEF IsLast, UserRows
<1>3. UserId(f[k + 1]) # u => UserRows(f, k + 1, u) = UserRows(f, k, u)
  BY <1>1, Zenon DEF UserRows
<1>4. UserId(f[k + 1]) = u /\ Restricted(f[k + 1]) => IsLast(k + 1, LimitRows(f, k + 1, u))
  BY <1>1, Zenon DEF IsLast, LimitRows
<1>5. ~(UserId(f[k + 1]) = u /\ Restricted(f[k + 1]))
        => LimitRows(f, k + 1, u) = LimitRows(f, k, u)
  BY <1>1, Zenon DEF LimitRows
<1>6. UserId(f[k + 1]) = u /\ f[k + 1].mode = 0 => IsLast(k + 1, PlainRows(f, k + 1, u))
  BY <1>1, Zenon DEF IsLast, PlainRows
<1>7. ~(UserId(f[k + 1]) = u /\ f[k + 1].mode = 0)
        => PlainRows(f, k + 1, u) = PlainRows(f, k, u)
  BY <1>1, Zenon DEF PlainRows
<1>8. QED
  BY <1>2, <1>3, <1>4, <1>5, <1>6, <1>7, Zenon

\* One more row.
LEMMA BuiltStep ==
  ASSUME NEW f, NEW k \in Nat, NEW t, Built(t, f, k), f[k + 1] \in PanelUser,
         NEW s, s = AddRow(t, f[k + 1])
  PROVE  Built(s, f, k + 1)
<1> DEFINE row == f[k + 1]
           u0 == UserId(row)
<1>1. /\ \A j \in 1 .. k + 1 : j \in 1 .. k \/ j = k + 1
      /\ \A j \in 1 .. k : j \in 1 .. k + 1
      /\ k + 1 \in 1 .. k + 1
  OBVIOUS
<1>2. /\ NeedsConnectionPolicy(FromUser(row)) <=> Restricted(row)
      /\ FromUser(row).speed_limit_bps = SpeedLimit(row.speed)
      /\ SpeedLimit(row.speed) \in Nat
  BY FromUserExact
<1>3. /\ s.auth = IF row.mode = 0 THEN Put(t.auth, u0, row.password) ELSE t.auth
      /\ s.counters = t.counters \cup {u0} /\ s.conns = t.conns \cup {u0}
      /\ s.speeds = Put(t.speeds, u0, FromUser(row).speed_limit_bps)
      /\ s.policies = IF NeedsConnectionPolicy(FromUser(row))
                      THEN Put(t.policies, u0, FromUser(row)) ELSE t.policies
  BY DEF AddRow
<1> HIDE DEF row
<1>4. /\ row = f[k + 1] /\ u0 = UserId(f[k + 1])
  BY DEF row
<1> HIDE DEF u0
<1>5. s.counters = {UserId(f[i]) : i \in 1 .. k + 1} /\ s.conns = s.counters
  <2>1. t.counters = {UserId(f[i]) : i \in 1 .. k} /\ t.conns = t.counters
    BY DEF Built
  <2>2. QED
    BY <1>1, <1>3, <1>4, <2>1, Zenon
<1>6. /\ DOMAIN s.auth = {UserId(f[i]) : i \in {j \in 1 .. k + 1 : f[j].mode = 0}}
      /\ s.auth \in [DOMAIN s.auth -> {f[i].password : i \in 1 .. k + 1}]
      /\ \A u \in DOMAIN s.auth :
           \E i : IsLast(i, PlainRows(f, k + 1, u)) /\ s.auth[u] = f[i].password
  <2>0. ASSUME NEW u \in DOMAIN t.auth, ~(u = u0 /\ row.mode = 0), s.auth[u] = t.auth[u]
        PROVE  \E i : IsLast(i, PlainRows(f, k + 1, u)) /\ s.auth[u] = f[i].password
    <3>1. PICK i : IsLast(i, PlainRows(f, k, u)) /\ t.auth[u] = f[i].password
      BY DEF Built
    <3>2. IsLast(i, PlainRows(f, k + 1, u))
      BY <1>4, <2>0, <3>1, OneMoreRow
    <3>3. QED
      BY <2>0, <3>1, <3>2
  <2>1. /\ DOMAIN t.auth = {UserId(f[i]) : i \in {j \in 1 .. k : f[j].mode = 0}}
        /\ t.auth \in [DOMAIN t.auth -> {f[i].password : i \in 1 .. k}]
    BY DEF Built
  <2>2. \A y \in DOMAIN t.auth : t.auth[y] \in {f[i].password : i \in 1 .. k + 1}
    BY <1>1, <2>1
  <2>3. row.password \in {f[i].password : i \in 1 .. k + 1}
    BY <1>1, <1>4, Zenon
  <2>4. CASE row.mode = 0
    <3>1. s.auth = Put(t.auth, u0, row.password)
      BY <1>3, <2>4
    <3>2. DOMAIN s.auth = DOMAIN t.auth \cup {u0}
      BY <3>1 DEF Put
    <3>3. s.auth \in [DOMAIN s.auth -> {f[i].password : i \in 1 .. k + 1}]
      BY <2>2, <2>3, <3>1, <3>2 DEF Put
    <3>4. {UserId(f[i]) : i \in {j \in 1 .. k + 1 : f[j].mode = 0}}
            = {UserId(f[i]) : i \in {j \in 1 .. k : f[j].mode = 0}} \cup {u0}
      BY <1>1, <1>4, <2>4, Zenon
    <3>5. ASSUME NEW u \in DOMAIN s.auth
          PROVE  \E i : IsLast(i, PlainRows(f, k + 1, u)) /\ s.auth[u] = f[i].password
      <4>1. CASE u = u0
        <5>1. s.auth[u] = f[k + 1].password
          BY <1>4, <3>1, <4>1 DEF Put
        <5>2. IsLast(k + 1, PlainRows(f, k + 1, u))
          BY <1>4, <2>4, <4>1, OneMoreRow
        <5>3. QED
          BY <5>1, <5>2
      <4>2. CASE u # u0
        <5>1. u \in DOMAIN t.auth
          BY <3>2, <4>2
        <5>2. s.auth[u] = t.auth[u]
          BY <3>1, <4>2, <5>1 DEF Put
        <5>3. QED
          BY <2>0, <4>2, <5>1, <5>2
      <4>3. QED
        BY <4>1, <4>2
    <3>6. QED
      BY <2>1, <3>2, <3>3, <3>4, <3>5, Zenon
  <2>5. CASE row.mode # 0
    <3>1. s.auth = t.auth
      BY <1>3, <2>5
    <3>2. s.auth \in [DOMAIN s.auth -> {f[i].password : i \in 1 .. k + 1}]
      BY <2>1, <2>2, <3>1
    <3>3. {j \in 1 .. k + 1 : f[j].mode = 0} = {j \in 1 .. k : f[j].mode = 0}
      BY <1>1, <1>4, <2>5, Zenon
    <3>4. QED
      BY <2>0, <2>1, <2>5, <3>1, <3>2, <3>3, Zenon
  <2>6. QED
    BY <2>4, <2>5
<1>7. /\ s.speeds \in [s.counters -> Nat]
      /\ \A u \in s.counters :
           \E i : IsLast(i, UserRows(f, k + 1, u)) /\ s.speeds[u] = SpeedLimit(f[i].speed)
  <2>1. t.speeds \in [t.counters -> Nat] /\ DOMAIN t.speeds = t.counters
    BY DEF Built
  <2>2. \A y \in DOMAIN t.speeds : t.speeds[y] \in Nat
    BY <2>1
  <2>3. /\ s.speeds = Put(t.speeds, u0, SpeedLimit(row.speed))
        /\ DOMAIN t.speeds \cup {u0} = s.counters
    BY <1>2, <1>3, <2>1
  <2>4. s.speeds \in [s.counters -> Nat]
    BY <1>2, <2>2, <2>3 DEF Put
  <2>5. ASSUME NEW u \in s.counters
        PROVE  \E i : IsLast(i, UserRows(f, k + 1, u)) /\ s.speeds[u] = SpeedLimit(f[i].speed)
    <3>1. CASE u = u0
      <4>1. s.speeds[u] = SpeedLimit(f[k + 1].speed)
        BY <1>4, <2>3, <3>1 DEF Put
      <4>2. IsLast(k + 1, UserRows(f, k + 1, u))
        BY <1>4, <3>1, OneMoreRow
      <4>3. QED
        BY <4>1, <4>2
    <3>2. CASE u # u0
      <4>1. u \in t.counters
        BY <1>3, <3>2
      <4>2. s.speeds[u] = t.speeds[u]
        BY <2>1, <2>3, <3>2, <4>1 DEF Put
      <4>3. PICK i : IsLast(i, UserRows(f, k, u)) /\ t.speeds[u] = SpeedLimit(f[i].speed)
        BY <4>1 DEF Built
      <4>4. IsLast(i, UserRows(f, k + 1, u))
        BY <1>4, <3>2, <4>3, OneMoreRow
      <4>5. QED
        BY <4>2, <4>3, <4>4
    <3>3. QED
      BY <3>1, <3>2
  <2>6. QED
    BY <2>4, <2>5
<1>8. /\ DOMAIN s.policies = {UserId(f[i]) : i \in {j \in 1 .. k + 1 : Restricted(f[j])}}
      /\ \A u \in DOMAIN s.policies :
           \E i : IsLast(i, LimitRows(f, k + 1, u)) /\ s.policies[u] = FromUser(f[i])
  <2>1. DOMAIN t.policies = {UserId(f[i]) : i \in {j \in 1 .. k : Restricted(f[j])}}
    BY DEF Built
  <2>2. ASSUME NEW u \in DOMAIN t.policies, ~(u = u0 /\ Restricted(row)),
               s.policies[u] = t.policies[u]
        PROVE  \E i : IsLast(i, LimitRows(f, k + 1, u)) /\ s.policies[u] = FromUser(f[i])
    <3>1. PICK i : IsLast(i, LimitRows(f, k, u)) /\ t.policies[u] = FromUser(f[i])
      BY DEF Built
    <3>2. IsLast(i, LimitRows(f, k + 1, u))
      BY <1>4, <2>2, <3>1, OneMoreRow
    <3>3. QED
      BY <2>2, <3>1, <3>2
  <2>3. CASE Restricted(row)
    <3>1. s.policies = Put(t.policies, u0, FromUser(row))
      BY <1>2, <1>3, <2>3
    <3>2. DOMAIN s.policies = DOMAIN t.policies \cup {u0}
      BY <3>1 DEF Put
    <3>3. {UserId(f[i]) : i \in {j \in 1 .. k + 1 : Restricted(f[j])}}
            = {UserId(f[i]) : i \in {j \in 1 .. k : Restricted(f[j])}} \cup {u0}
      BY <1>1, <1>4, <2>3, Zenon
    <3>4. ASSUME NEW u \in DOMAIN s.policies
          PROVE  \E i : IsLast(i, LimitRows(f, k + 1, u)) /\ s.policies[u] = FromUser(f[i])
      <4>1. CASE u = u0
        <5>1. s.policies[u] = FromUser(f[k + 1])
          BY <1>4, <3>1, <4>1 DEF Put
        <5>2. IsLast(k + 1, LimitRows(f, k + 1, u))
          BY <1>4, <2>3, <4>1, OneMoreRow
        <5>3. QED
          BY <5>1, <5>2
      <4>2. CASE u # u0
        <5>1. u \in DOMAIN t.policies
          BY <3>2, <4>2
        <5>2. s.policies[u] = t.policies[u]
          BY <3>1, <4>2, <5>1 DEF Put
        <5>3. QED
          BY <2>2, <4>2, <5>1, <5>2
      <4>3. QED
        BY <4>1, <4>2
    <3>5. QED
      BY <2>1, <3>2, <3>3, <3>4, Zenon
  <2>4. CASE ~Restricted(row)
    <3>1. s.policies = t.policies
      BY <1>2, <1>3, <2>4
    <3>2. {j \in 1 .. k + 1 : Restricted(f[j])} = {j \in 1 .. k : Restricted(f[j])}
      BY <1>1, <1>4, <2>4, Zenon
    <3>3. QED
      BY <2>1, <2>2, <2>4, <3>1, <3>2, Zenon
  <2>5. QED
    BY <2>3, <2>4
<1>9. QED
  BY <1>5, <1>6, <1>7, <1>8, Zenon DEF Built

\* The tables after each user, as an equation of the function.
TablesLoop(g, f, n) ==
  g = [k \in 0 .. n |-> IF k = 0 THEN NewTables ELSE AddRow(g[k - 1], f[k])]

\* The recursion of TablesOf is well founded.
LEMMA TablesLoopExists ==
  ASSUME NEW f
  PROVE  \A n \in Nat : \E g : TablesLoop(g, f, n)
<1> DEFINE Good == {n \in Nat : \E g : TablesLoop(g, f, n)}
<1>1. 0 \in Good
  <2>1. TablesLoop([k \in 0 .. 0 |-> NewTables], f, 0)
    BY DEF TablesLoop
  <2>2. QED
    BY <2>1
<1>2. ASSUME NEW n \in Nat, n \in Good PROVE n + 1 \in Good
  <2>1. PICK g : TablesLoop(g, f, n)
    BY <1>2
  <2> DEFINE h == [k \in 0 .. n + 1 |-> IF k = n + 1 THEN AddRow(g[n], f[n + 1]) ELSE g[k]]
  <2>2. TablesLoop(h, f, n + 1)
    <3>1. ASSUME NEW k \in 0 .. n + 1
          PROVE  h[k] = IF k = 0 THEN NewTables ELSE AddRow(h[k - 1], f[k])
      <4>1. CASE k = n + 1
        <5>1. h[k] = AddRow(g[n], f[n + 1]) /\ k # 0 /\ k - 1 = n /\ h[n] = g[n]
          BY <4>1
        <5>2. QED
          BY <4>1, <5>1
      <4>2. CASE k # n + 1
        <5>1. h[k] = g[k] /\ k \in 0 .. n /\ (k # 0 => h[k - 1] = g[k - 1])
          BY <4>2
        <5>2. QED
          BY <2>1, <5>1 DEF TablesLoop
      <4>3. QED
        BY <4>1, <4>2
    <3>2. QED
      BY <3>1 DEF TablesLoop
  <2>3. QED
    BY <2>2
<1> HIDE DEF Good
<1>3. \A n \in Nat : n \in Good
  BY <1>1, <1>2, SetInduction
<1>4. QED
  BY <1>3 DEF Good

\* The loop of sync_users over all users.
LEMMA TablesBuilt ==
  ASSUME NEW f \in Seq(PanelUser)
  PROVE  Built(TablesOf(f), f, Len(f))
<1> DEFINE n == Len(f)
           F == CHOOSE g : TablesLoop(g, f, n)
<1>1. n \in Nat /\ \A k \in 1 .. n : f[k] \in PanelUser
  OBVIOUS
<1>2. \E g : TablesLoop(g, f, n)
  BY <1>1, TablesLoopExists
<1>3. TablesLoop(F, f, n)
  BY <1>2
<1>4. TablesOf(f) = F[n]
  BY DEF TablesOf, TablesLoop
<1> HIDE DEF F, n
<1>5. F[0] = NoTables /\ \A k \in 1 .. n : F[k] = AddRow(F[k - 1], f[k])
  BY <1>1, <1>3 DEF TablesLoop, NewTables
<1> DEFINE Good == {k \in Nat : k <= n => Built(F[k], f, k)}
<1>6. 0 \in Good
  BY <1>5, BuiltFromNothing
<1>7. ASSUME NEW k \in Nat, k \in Good PROVE k + 1 \in Good
  <2>1. CASE k + 1 <= n
    <3>1. k <= n /\ k + 1 \in 1 .. n /\ (k + 1) - 1 = k
      BY <1>1, <2>1
    <3>2. Built(F[k], f, k) /\ f[k + 1] \in PanelUser /\ F[k + 1] = AddRow(F[k], f[k + 1])
      BY <1>1, <1>5, <1>7, <3>1
    <3>3. Built(F[k + 1], f, k + 1)
      BY <3>2, BuiltStep
    <3>4. QED
      BY <3>3
  <2>2. QED
    BY <2>1
<1> HIDE DEF Good
<1>8. \A k \in Nat : k \in Good
  BY <1>6, <1>7, SetInduction
<1>9. Built(F[n], f, n)
  BY <1>1, <1>8 DEF Good
<1>10. QED
  BY <1>4, <1>9 DEF n

\* t is what the rows of an answer say.
TablesMatch(t, rs) ==
  /\ t.counters = {UserId(rs[i]) : i \in Enabled(rs)}
  /\ t.conns = t.counters
  /\ DOMAIN t.auth = {UserId(rs[i]) : i \in {j \in Enabled(rs) : rs[j].mode = 0}}
  /\ t.auth \in [DOMAIN t.auth -> {rs[i].password : i \in Enabled(rs)}]
  /\ \A u \in DOMAIN t.auth : t.auth[u] = rs[LastOf(KeyRows(rs, u))].password
  /\ t.speeds \in [t.counters -> Nat]
  /\ \A u \in t.counters :
       /\ LastOf(RowsOf(rs, u)) \in RowsOf(rs, u)
       /\ t.speeds[u] = SpeedLimit(rs[LastOf(RowsOf(rs, u))].speed)
  /\ DOMAIN t.policies = {u \in t.counters : RestrictedRows(rs, u) # {}}
  /\ \A u \in DOMAIN t.policies :
       /\ LastOf(RestrictedRows(rs, u)) \in RestrictedRows(rs, u)
       /\ t.policies[u] = FromUser(rs[LastOf(RestrictedRows(rs, u))])

\* The last index is the only one.
LEMMA LastUnique ==
  ASSUME NEW S, S \subseteq Int, NEW i, IsLast(i, S)
  PROVE  LastOf(S) = i
<1>1. LastOf(S) \in S /\ \A j \in S : j <= LastOf(S)
  BY DEF LastOf, IsLast
<1>2. i \in S /\ \A j \in S : j <= i
  BY DEF IsLast
<1>3. i <= LastOf(S) /\ LastOf(S) <= i /\ i \in Int /\ LastOf(S) \in Int
  BY <1>1, <1>2
<1>4. QED
  BY <1>3

\* The last row of a user among the users is its last enabled row.
LEMMA LastNumbered ==
  ASSUME NEW rs \in Seq(PanelUser), NEW f, NEW m, Numbers(m, f, rs), NEW u, NEW x
  PROVE  /\ IsLast(x, UserRows(f, Len(f), u))
              => LastOf(RowsOf(rs, u)) = m[x] /\ m[x] \in RowsOf(rs, u) /\ f[x] = rs[m[x]]
         /\ IsLast(x, LimitRows(f, Len(f), u))
              => /\ LastOf(RestrictedRows(rs, u)) = m[x] /\ m[x] \in RestrictedRows(rs, u)
                 /\ f[x] = rs[m[x]]
         /\ IsLast(x, PlainRows(f, Len(f), u))
              => LastOf(KeyRows(rs, u)) = m[x] /\ f[x] = rs[m[x]]
<1>1. Len(f) \in Nat
  BY DEF Numbers
<1>2. Enabled(rs) \subseteq Int
  BY DEF Enabled
<1>3. /\ \A y \in 1 .. Len(f) : m[y] \in Enabled(rs) /\ f[y] = rs[m[y]]
      /\ \A i \in Enabled(rs) : \E y \in 1 .. Len(f) : m[y] = i
      /\ \A y, z \in 1 .. Len(f) : y < z => m[y] < m[z]
  BY DEF Numbers
<1>4. ASSUME NEW y \in 1 .. Len(f), NEW z \in 1 .. Len(f), y <= z PROVE m[y] <= m[z]
  <2>1. m[y] \in Int /\ m[z] \in Int
    BY <1>2, <1>3
  <2>2. CASE y = z
    BY <2>1, <2>2
  <2>3. CASE y # z
    <3>1. y < z
      BY <1>1, <1>4, <2>3
    <3>2. m[y] < m[z]
      BY <1>3, <3>1
    <3>3. QED
      BY <2>1, <3>2
  <2>4. QED
    BY <2>2, <2>3
<1>5. ASSUME IsLast(x, UserRows(f, Len(f), u))
      PROVE  LastOf(RowsOf(rs, u)) = m[x] /\ m[x] \in RowsOf(rs, u) /\ f[x] = rs[m[x]]
  <2>1. /\ x \in 1 .. Len(f) /\ UserId(f[x]) = u
        /\ \A y \in 1 .. Len(f) : UserId(f[y]) = u => y <= x
    BY <1>5 DEF IsLast, UserRows
  <2>2. m[x] \in RowsOf(rs, u) /\ f[x] = rs[m[x]]
    BY <1>3, <2>1, Zenon DEF RowsOf
  <2>3. ASSUME NEW i \in RowsOf(rs, u) PROVE i <= m[x]
    <3>1. PICK y \in 1 .. Len(f) : m[y] = i
      BY <1>3 DEF RowsOf
    <3>2. UserId(f[y]) = u
      BY <1>3, <3>1, Zenon DEF RowsOf
    <3>3. QED
      BY <1>4, <2>1, <3>1, <3>2
  <2>4. IsLast(m[x], RowsOf(rs, u)) /\ RowsOf(rs, u) \subseteq Int
    BY <1>2, <2>2, <2>3 DEF IsLast, RowsOf
  <2>5. QED
    BY <2>2, <2>4, LastUnique
<1>6. ASSUME IsLast(x, LimitRows(f, Len(f), u))
      PROVE  /\ LastOf(RestrictedRows(rs, u)) = m[x] /\ m[x] \in RestrictedRows(rs, u)
             /\ f[x] = rs[m[x]]
  <2>1. /\ x \in 1 .. Len(f) /\ UserId(f[x]) = u /\ Restricted(f[x])
        /\ \A y \in 1 .. Len(f) : UserId(f[y]) = u /\ Restricted(f[y]) => y <= x
    BY <1>6 DEF IsLast, LimitRows
  <2>2. m[x] \in RestrictedRows(rs, u) /\ f[x] = rs[m[x]]
    BY <1>3, <2>1, Zenon DEF RestrictedRows, RowsOf
  <2>3. ASSUME NEW i \in RestrictedRows(rs, u) PROVE i <= m[x]
    <3>1. PICK y \in 1 .. Len(f) : m[y] = i
      BY <1>3 DEF RestrictedRows, RowsOf
    <3>2. UserId(f[y]) = u /\ Restricted(f[y])
      BY <1>3, <3>1, Zenon DEF RestrictedRows, RowsOf
    <3>3. QED
      BY <1>4, <2>1, <3>1, <3>2
  <2>4. IsLast(m[x], RestrictedRows(rs, u)) /\ RestrictedRows(rs, u) \subseteq Int
    BY <1>2, <2>2, <2>3 DEF IsLast, RestrictedRows, RowsOf
  <2>5. QED
    BY <2>2, <2>4, LastUnique
<1>7. ASSUME IsLast(x, PlainRows(f, Len(f), u))
      PROVE  LastOf(KeyRows(rs, u)) = m[x] /\ f[x] = rs[m[x]]
  <2>1. /\ x \in 1 .. Len(f) /\ UserId(f[x]) = u /\ f[x].mode = 0
        /\ \A y \in 1 .. Len(f) : UserId(f[y]) = u /\ f[y].mode = 0 => y <= x
    BY <1>7 DEF IsLast, PlainRows
  <2>2. m[x] \in KeyRows(rs, u) /\ f[x] = rs[m[x]]
    BY <1>3, <2>1, Zenon DEF KeyRows, RowsOf
  <2>3. ASSUME NEW i \in KeyRows(rs, u) PROVE i <= m[x]
    <3>1. PICK y \in 1 .. Len(f) : m[y] = i
      BY <1>3 DEF KeyRows, RowsOf
    <3>2. UserId(f[y]) = u /\ f[y].mode = 0
      BY <1>3, <3>1, Zenon DEF KeyRows, RowsOf
    <3>3. QED
      BY <1>4, <2>1, <3>1, <3>2
  <2>4. IsLast(m[x], KeyRows(rs, u)) /\ KeyRows(rs, u) \subseteq Int
    BY <1>2, <2>2, <2>3 DEF IsLast, KeyRows, RowsOf
  <2>5. QED
    BY <2>2, <2>4, LastUnique
<1>8. QED
  BY <1>5, <1>6, <1>7

\* The tables that a poll publishes are those of its rows.
LEMMA TablesMatchRows ==
  ASSUME NEW rs \in Seq(PanelUser), NEW f, NEW m, Numbers(m, f, rs), NEW t, t = TablesOf(f)
  PROVE  TablesMatch(t, rs)
<1>1. f \in Seq(PanelUser) /\ Len(f) \in Nat
  BY DEF Numbers
<1>2. Built(t, f, Len(f))
  BY <1>1, TablesBuilt
<1>3. /\ \A y \in 1 .. Len(f) : m[y] \in Enabled(rs) /\ f[y] = rs[m[y]]
      /\ \A i \in Enabled(rs) : \E y \in 1 .. Len(f) : m[y] = i
  BY DEF Numbers
<1>4. /\ \A y \in 1 .. Len(f) : \E i \in Enabled(rs) : f[y] = rs[i]
      /\ \A i \in Enabled(rs) : \E y \in 1 .. Len(f) : rs[i] = f[y]
  BY <1>3
<1>5. {UserId(f[y]) : y \in 1 .. Len(f)} = {UserId(rs[i]) : i \in Enabled(rs)}
  BY <1>4
<1>6. {UserId(f[y]) : y \in {z \in 1 .. Len(f) : f[z].mode = 0}}
        = {UserId(rs[i]) : i \in {j \in Enabled(rs) : rs[j].mode = 0}}
  BY <1>4
<1>7. {f[y].password : y \in 1 .. Len(f)} = {rs[i].password : i \in Enabled(rs)}
  BY <1>4
<1>8. {UserId(f[y]) : y \in {z \in 1 .. Len(f) : Restricted(f[z])}}
        = {u \in {UserId(rs[i]) : i \in Enabled(rs)} : RestrictedRows(rs, u) # {}}
  <2>1. ASSUME NEW y \in 1 .. Len(f), Restricted(f[y])
        PROVE  /\ UserId(f[y]) \in {UserId(rs[i]) : i \in Enabled(rs)}
               /\ RestrictedRows(rs, UserId(f[y])) # {}
    <3>1. m[y] \in RestrictedRows(rs, UserId(f[y]))
      BY <1>3, <2>1, Zenon DEF RestrictedRows, RowsOf
    <3>2. QED
      BY <1>3, <3>1, Zenon
  <2>2. ASSUME NEW u, RestrictedRows(rs, u) # {}
        PROVE  \E y \in {z \in 1 .. Len(f) : Restricted(f[z])} : u = UserId(f[y])
    <3>1. PICK i \in RestrictedRows(rs, u) : TRUE
      BY <2>2
    <3>2. i \in Enabled(rs) /\ UserId(rs[i]) = u /\ Restricted(rs[i])
      BY DEF RestrictedRows, RowsOf
    <3>3. QED
      BY <1>4, <3>2
  <2>3. QED
    BY <2>1, <2>2, Zenon
<1>9. ASSUME NEW u \in t.counters
      PROVE  /\ LastOf(RowsOf(rs, u)) \in RowsOf(rs, u)
             /\ t.speeds[u] = SpeedLimit(rs[LastOf(RowsOf(rs, u))].speed)
  <2>1. PICK x : IsLast(x, UserRows(f, Len(f), u)) /\ t.speeds[u] = SpeedLimit(f[x].speed)
    BY <1>2 DEF Built
  <2>2. LastOf(RowsOf(rs, u)) = m[x] /\ m[x] \in RowsOf(rs, u) /\ f[x] = rs[m[x]]
    BY <2>1, LastNumbered
  <2>3. QED
    BY <2>1, <2>2, Zenon
<1>10. ASSUME NEW u \in DOMAIN t.policies
      PROVE  /\ LastOf(RestrictedRows(rs, u)) \in RestrictedRows(rs, u)
             /\ t.policies[u] = FromUser(rs[LastOf(RestrictedRows(rs, u))])
  <2>1. PICK x : IsLast(x, LimitRows(f, Len(f), u)) /\ t.policies[u] = FromUser(f[x])
    BY <1>2 DEF Built
  <2>2. /\ LastOf(RestrictedRows(rs, u)) = m[x] /\ m[x] \in RestrictedRows(rs, u)
        /\ f[x] = rs[m[x]]
    BY <2>1, LastNumbered
  <2>3. QED
    BY <2>1, <2>2, Zenon
<1>11. ASSUME NEW u \in DOMAIN t.auth
       PROVE  t.auth[u] = rs[LastOf(KeyRows(rs, u))].password
  <2>1. PICK x : IsLast(x, PlainRows(f, Len(f), u)) /\ t.auth[u] = f[x].password
    BY <1>2 DEF Built
  <2>2. LastOf(KeyRows(rs, u)) = m[x] /\ f[x] = rs[m[x]]
    BY <2>1, LastNumbered
  <2>3. QED
    BY <2>1, <2>2, Zenon
<1>12. QED
  BY <1>2, <1>5, <1>6, <1>7, <1>8, <1>9, <1>10, <1>11, Zenon DEF Built, TablesMatch

\* No rows make no tables.
LEMMA NoTablesMatch == TablesMatch(NoTables, << >>)
<1> DEFINE e == << >>
<1>1. Enabled(e) = {}
  BY DEF Enabled
<1>2. DOMAIN << >> = {}
  OBVIOUS
<1>3. /\ NoTables.counters = {} /\ NoTables.conns = {} /\ NoTables.auth = << >>
      /\ NoTables.speeds = << >> /\ NoTables.policies = << >>
  BY DEF NoTables
<1>4. << >> \in [{} -> Nat] /\ << >> \in [{} -> {e[i].password : i \in Enabled(e)}]
  OBVIOUS
<1>5. QED
  BY <1>1, <1>2, <1>3, <1>4, Zenon DEF TablesMatch

----------------------------------------------------------------------------
(* The rows that get a listener. *)

\* Row i is the first carrier row of its port.
FirstCarrier(f, i) ==
  IsCarrier(f[i]) /\ \A j \in 1 .. i - 1 : IsCarrier(f[j]) => f[j].port # f[i].port

\* s is what merge_carrier_users makes of the first k users.
Merged(s, f, k) ==
  /\ s \in Seq(PanelUser)
  /\ \A x \in 1 .. Len(s) : \E i \in 1 .. k : s[x] = f[i] /\ FirstCarrier(f, i)
  /\ \A i \in 1 .. k : FirstCarrier(f, i) => \E x \in 1 .. Len(s) : s[x] = f[i]
  /\ \A i \in 1 .. k : IsCarrier(f[i]) => \E x \in 1 .. Len(s) : s[x].port = f[i].port

\* One more row.
LEMMA MergedStep ==
  ASSUME NEW f, NEW k \in Nat, NEW s, Merged(s, f, k), f[k + 1] \in PanelUser,
         NEW r, r = KeepFirst(s, f[k + 1])
  PROVE  Merged(r, f, k + 1)
<1>1. /\ \A i \in 1 .. k + 1 : i \in 1 .. k \/ i = k + 1
      /\ \A i \in 1 .. k : i \in 1 .. k + 1
      /\ k + 1 \in 1 .. k + 1 /\ (k + 1) - 1 = k
  OBVIOUS
<1>2. /\ s \in Seq(PanelUser) /\ Len(s) \in Nat /\ DOMAIN s = 1 .. Len(s)
      /\ \A x \in 1 .. Len(s) : \E i \in 1 .. k : s[x] = f[i] /\ FirstCarrier(f, i)
      /\ \A i \in 1 .. k : FirstCarrier(f, i) => \E x \in 1 .. Len(s) : s[x] = f[i]
      /\ \A i \in 1 .. k : IsCarrier(f[i]) => \E x \in 1 .. Len(s) : s[x].port = f[i].port
  <2>1. s \in Seq(PanelUser)
    BY Zenon DEF Merged
  <2>2. Len(s) \in Nat /\ DOMAIN s = 1 .. Len(s)
    BY <2>1
  <2>3. QED
    BY <2>1, <2>2, Zenon DEF Merged
<1>3. CASE ~IsCarrier(f[k + 1])
  <2>1. r = s /\ ~FirstCarrier(f, k + 1)
    BY <1>3 DEF KeepFirst, FirstCarrier
  <2>2. QED
    BY <1>1, <1>2, <1>3, <2>1, Zenon DEF Merged
<1>4. CASE IsCarrier(f[k + 1]) /\ \E x \in DOMAIN s : s[x].port = f[k + 1].port
  <2>1. r = s
    BY <1>4 DEF KeepFirst
  <2>2. PICK x \in 1 .. Len(s) : s[x].port = f[k + 1].port
    BY <1>2, <1>4
  <2>3. PICK i \in 1 .. k : s[x] = f[i] /\ FirstCarrier(f, i)
    BY <1>2
  <2>4. IsCarrier(f[i]) /\ f[i].port = f[k + 1].port
    BY <2>2, <2>3 DEF FirstCarrier
  <2>5. ~FirstCarrier(f, k + 1)
    BY <1>1, <2>4 DEF FirstCarrier
  <2>6. QED
    BY <1>1, <1>2, <2>1, <2>2, <2>5, Zenon DEF Merged
<1>5. CASE IsCarrier(f[k + 1]) /\ ~\E x \in DOMAIN s : s[x].port = f[k + 1].port
  <2>1. r = Append(s, f[k + 1])
    BY <1>5 DEF KeepFirst
  <2>2. /\ r \in Seq(PanelUser) /\ Len(r) = Len(s) + 1 /\ r[Len(s) + 1] = f[k + 1]
        /\ \A x \in 1 .. Len(s) : r[x] = s[x]
    BY <1>2, <2>1
  <2>3. /\ \A x \in 1 .. Len(r) : x \in 1 .. Len(s) \/ x = Len(s) + 1
        /\ \A x \in 1 .. Len(s) : x \in 1 .. Len(r)
        /\ Len(s) + 1 \in 1 .. Len(r)
    BY <1>2, <2>2
  <2>4. FirstCarrier(f, k + 1)
    BY <1>1, <1>2, <1>5, Zenon DEF FirstCarrier
  <2>5. ASSUME NEW x \in 1 .. Len(r)
        PROVE  \E i \in 1 .. k + 1 : r[x] = f[i] /\ FirstCarrier(f, i)
    <3>1. CASE x = Len(s) + 1
      BY <1>1, <2>2, <2>4, <3>1
    <3>2. CASE x \in 1 .. Len(s)
      <4>1. PICK i \in 1 .. k : s[x] = f[i] /\ FirstCarrier(f, i)
        BY <1>2, <3>2
      <4>2. QED
        BY <1>1, <2>2, <3>2, <4>1, Zenon
    <3>3. QED
      BY <2>3, <3>1, <3>2
  <2>6. ASSUME NEW i \in 1 .. k + 1, FirstCarrier(f, i)
        PROVE  \E x \in 1 .. Len(r) : r[x] = f[i]
    <3>1. CASE i = k + 1
      BY <2>2, <2>3, <3>1
    <3>2. CASE i \in 1 .. k
      <4>1. PICK x \in 1 .. Len(s) : s[x] = f[i]
        BY <1>2, <2>6, <3>2
      <4>2. QED
        BY <2>2, <2>3, <4>1, Zenon
    <3>3. QED
      BY <1>1, <3>1, <3>2
  <2>7. ASSUME NEW i \in 1 .. k + 1, IsCarrier(f[i])
        PROVE  \E x \in 1 .. Len(r) : r[x].port = f[i].port
    <3>1. CASE i = k + 1
      BY <2>2, <2>3, <3>1
    <3>2. CASE i \in 1 .. k
      <4>1. PICK x \in 1 .. Len(s) : s[x].port = f[i].port
        BY <1>2, <2>7, <3>2
      <4>2. r[x] = s[x] /\ x \in 1 .. Len(r)
        BY <2>2, <2>3
      <4>3. QED
        BY <4>1, <4>2
    <3>3. QED
      BY <1>1, <3>1, <3>2
  <2>8. QED
    BY <2>2, <2>5, <2>6, <2>7 DEF Merged
<1>6. QED
  BY <1>3, <1>4, <1>5

\* The merged rows after each user, as an equation of the function.
MergeLoop(g, f, n) ==
  g = [k \in 0 .. n |-> IF k = 0 THEN << >> ELSE KeepFirst(g[k - 1], f[k])]

\* The recursion of MergeCarriers is well founded.
LEMMA MergeLoopExists ==
  ASSUME NEW f
  PROVE  \A n \in Nat : \E g : MergeLoop(g, f, n)
<1> DEFINE Good == {n \in Nat : \E g : MergeLoop(g, f, n)}
<1>1. 0 \in Good
  <2>1. MergeLoop([k \in 0 .. 0 |-> << >>], f, 0)
    BY DEF MergeLoop
  <2>2. QED
    BY <2>1
<1>2. ASSUME NEW n \in Nat, n \in Good PROVE n + 1 \in Good
  <2>1. PICK g : MergeLoop(g, f, n)
    BY <1>2
  <2> DEFINE h == [k \in 0 .. n + 1 |-> IF k = n + 1 THEN KeepFirst(g[n], f[n + 1]) ELSE g[k]]
  <2>2. MergeLoop(h, f, n + 1)
    <3>1. ASSUME NEW k \in 0 .. n + 1
          PROVE  h[k] = IF k = 0 THEN << >> ELSE KeepFirst(h[k - 1], f[k])
      <4>1. CASE k = n + 1
        <5>1. h[k] = KeepFirst(g[n], f[n + 1]) /\ k # 0 /\ k - 1 = n /\ h[n] = g[n]
          BY <4>1
        <5>2. QED
          BY <4>1, <5>1
      <4>2. CASE k # n + 1
        <5>1. h[k] = g[k] /\ k \in 0 .. n /\ (k # 0 => h[k - 1] = g[k - 1])
          BY <4>2
        <5>2. QED
          BY <2>1, <5>1 DEF MergeLoop
      <4>3. QED
        BY <4>1, <4>2
    <3>2. QED
      BY <3>1 DEF MergeLoop
  <2>3. QED
    BY <2>2
<1> HIDE DEF Good
<1>3. \A n \in Nat : n \in Good
  BY <1>1, <1>2, SetInduction
<1>4. QED
  BY <1>3 DEF Good

\* merge_carrier_users over all users.
LEMMA CarriersMerged ==
  ASSUME NEW f \in Seq(PanelUser)
  PROVE  Merged(MergeCarriers(f), f, Len(f))
<1> DEFINE n == Len(f)
           F == CHOOSE g : MergeLoop(g, f, n)
<1>1. n \in Nat /\ \A k \in 1 .. n : f[k] \in PanelUser
  OBVIOUS
<1>2. \E g : MergeLoop(g, f, n)
  BY <1>1, MergeLoopExists
<1>3. MergeLoop(F, f, n)
  BY <1>2
<1>4. MergeCarriers(f) = F[n]
  BY DEF MergeCarriers, MergeLoop
<1> HIDE DEF F, n
<1>5. F[0] = << >> /\ \A k \in 1 .. n : F[k] = KeepFirst(F[k - 1], f[k])
  BY <1>1, <1>3 DEF MergeLoop
<1> DEFINE Good == {k \in Nat : k <= n => Merged(F[k], f, k)}
<1>6. 0 \in Good
  <2>1. Merged(<< >>, f, 0)
    BY DEF Merged
  <2>2. QED
    BY <1>5, <2>1
<1>7. ASSUME NEW k \in Nat, k \in Good PROVE k + 1 \in Good
  <2>1. CASE k + 1 <= n
    <3>1. k <= n /\ k + 1 \in 1 .. n /\ (k + 1) - 1 = k
      BY <1>1, <2>1
    <3>2. Merged(F[k], f, k) /\ f[k + 1] \in PanelUser /\ F[k + 1] = KeepFirst(F[k], f[k + 1])
      BY <1>1, <1>5, <1>7, <3>1
    <3>3. Merged(F[k + 1], f, k + 1)
      BY <3>2, MergedStep
    <3>4. QED
      BY <3>3
  <2>2. QED
    BY <2>1
<1> HIDE DEF Good
<1>8. \A k \in Nat : k \in Good
  BY <1>6, <1>7, SetInduction
<1>9. Merged(F[n], f, n)
  BY <1>1, <1>8 DEF Good
<1>10. QED
  BY <1>4, <1>9 DEF n

\* L holds the rows that call for an endpoint, and no other.
EndpointList(L, rs) ==
  /\ L \in Seq(PanelUser)
  /\ \A x \in 1 .. Len(L) : \E i \in EndpointRows(rs, L[x].port) : L[x] = rs[i]
  /\ \A p : \A i \in EndpointRows(rs, p) : \E x \in 1 .. Len(L) : L[x] = rs[i]

\* The rows sync_users gives a listener are those of the endpoints.
LEMMA ListenerUsersExact ==
  ASSUME NEW rs \in Seq(PanelUser), NEW f, NEW m, Numbers(m, f, rs)
  PROVE  EndpointList(ListenerUsers(f), rs)
<1> DEFINE L == ListenerUsers(f)
           carriers == {i \in Enabled(rs) : rs[i].mode # 0}
<1>1. f \in Seq(PanelUser) /\ Len(f) \in Nat /\ DOMAIN f = 1 .. Len(f)
  BY DEF Numbers
<1>2. /\ \A y \in 1 .. Len(f) : m[y] \in Enabled(rs) /\ f[y] = rs[m[y]]
      /\ \A i \in Enabled(rs) : \E y \in 1 .. Len(f) : m[y] = i
      /\ \A y, z \in 1 .. Len(f) : y < z => m[y] < m[z]
  BY DEF Numbers
<1>3. Enabled(rs) \subseteq Int
  BY DEF Enabled
<1>4. ASSUME NEW p, NEW i
      PROVE  i \in EndpointRows(rs, p)
               <=> /\ i \in Enabled(rs) /\ rs[i].port = p
                   /\ carriers # {} => i \in carriers /\ \A j \in carriers : j < i => rs[j].port # p
  BY DEF EndpointRows
<1>5. CASE \E y \in DOMAIN f : IsCarrier(f[y])
  <2>1. L = MergeCarriers(f)
    BY <1>5 DEF ListenerUsers
  <2>2. Merged(L, f, Len(f))
    BY <1>1, <2>1, CarriersMerged
  <2>3. carriers # {}
    <3>1. PICK y \in 1 .. Len(f) : IsCarrier(f[y])
      BY <1>1, <1>5
    <3>2. m[y] \in carriers
      BY <1>2, <3>1 DEF IsCarrier
    <3>3. QED
      BY <3>2
  <2> HIDE DEF L
  <2>4. ASSUME NEW x \in 1 .. Len(L)
        PROVE  \E i \in EndpointRows(rs, L[x].port) : L[x] = rs[i]
    <3>1. PICK y \in 1 .. Len(f) : L[x] = f[y] /\ FirstCarrier(f, y)
      BY <2>2 DEF Merged
    <3>2. m[y] \in Enabled(rs) /\ L[x] = rs[m[y]] /\ m[y] \in carriers
      BY <1>2, <3>1 DEF FirstCarrier, IsCarrier
    <3>3. ASSUME NEW j \in carriers, j < m[y] PROVE rs[j].port # L[x].port
      <4>1. PICK z \in 1 .. Len(f) : m[z] = j
        BY <1>2
      <4>2. ~(y < z) /\ y # z
        <5>1. j \in Int /\ m[y] \in Int
          BY <1>3, <3>2
        <5>2. y < z => m[y] < j
          BY <1>2, <4>1
        <5>3. QED
          BY <3>3, <4>1, <5>1, <5>2
      <4>3. z \in 1 .. y - 1
        BY <1>1, <4>2
      <4>4. IsCarrier(f[z]) /\ f[z] = rs[j]
        BY <1>2, <4>1 DEF IsCarrier
      <4>5. f[z].port # f[y].port
        BY <3>1, <4>3, <4>4 DEF FirstCarrier
      <4>6. QED
        BY <3>1, <4>4, <4>5
    <3>4. m[y] \in EndpointRows(rs, L[x].port)
      BY <1>4, <3>2, <3>3
    <3>5. QED
      BY <3>2, <3>4
  <2>5. ASSUME NEW p, NEW i \in EndpointRows(rs, p)
        PROVE  \E x \in 1 .. Len(L) : L[x] = rs[i]
    <3>1. /\ i \in Enabled(rs) /\ rs[i].port = p /\ i \in carriers
          /\ \A j \in carriers : j < i => rs[j].port # p
      BY <1>4, <2>3, <2>5
    <3>2. PICK y \in 1 .. Len(f) : m[y] = i
      BY <1>2, <3>1
    <3>3. f[y] = rs[i] /\ IsCarrier(f[y])
      BY <1>2, <3>1, <3>2 DEF IsCarrier
    <3>4. ASSUME NEW z \in 1 .. y - 1, IsCarrier(f[z]) PROVE f[z].port # f[y].port
      <4>1. z \in 1 .. Len(f) /\ z < y
        BY <1>1
      <4>2. m[z] < i /\ m[z] \in carriers /\ f[z] = rs[m[z]]
        BY <1>2, <3>2, <3>4, <4>1 DEF IsCarrier
      <4>3. QED
        BY <3>1, <3>3, <4>2
    <3>5. FirstCarrier(f, y)
      BY <3>3, <3>4 DEF FirstCarrier
    <3>6. PICK x \in 1 .. Len(L) : L[x] = f[y]
      BY <2>2, <3>5 DEF Merged
    <3>7. QED
      BY <3>3, <3>6
  <2>6. L \in Seq(PanelUser)
    BY <2>2 DEF Merged
  <2>7. EndpointList(L, rs)
    BY <2>4, <2>5, <2>6, Zenon DEF EndpointList
  <2>8. QED
    BY <2>7 DEF L
<1>6. CASE ~\E y \in DOMAIN f : IsCarrier(f[y])
  <2>1. L = f
    BY <1>6 DEF ListenerUsers
  <2>2. carriers = {}
    <3>1. SUFFICES ASSUME NEW i \in carriers PROVE FALSE
      OBVIOUS
    <3>2. PICK y \in 1 .. Len(f) : m[y] = i
      BY <1>2
    <3>3. IsCarrier(f[y])
      BY <1>2, <3>2 DEF IsCarrier
    <3>4. QED
      BY <1>1, <1>6, <3>3
  <2> HIDE DEF carriers
  <2>3. ASSUME NEW x \in 1 .. Len(f)
        PROVE  \E i \in EndpointRows(rs, f[x].port) : f[x] = rs[i]
    <3>1. m[x] \in Enabled(rs) /\ f[x] = rs[m[x]]
      BY <1>2
    <3>2. m[x] \in EndpointRows(rs, f[x].port)
      BY <1>4, <2>2, <3>1
    <3>3. QED
      BY <3>1, <3>2
  <2>4. ASSUME NEW p, NEW i \in EndpointRows(rs, p)
        PROVE  \E x \in 1 .. Len(f) : f[x] = rs[i]
    <3>1. i \in Enabled(rs)
      BY <1>4, <2>4
    <3>2. QED
      BY <1>2, <3>1
  <2>5. EndpointList(f, rs)
    BY <1>1, <2>3, <2>4, Zenon DEF EndpointList
  <2>6. QED
    BY <2>1, <2>5
<1>7. QED
  BY <1>5, <1>6

----------------------------------------------------------------------------
(* The listeners. *)

\* The entry of a listener spawned for a row.
Spawned(row) == [fingerprint |-> Fingerprint(row), owner |-> UserId(row)]

\* st is where the loop over the listener rows L, started from the listeners
\* up, is after k rows.
Reached(st, up, L, k) ==
  /\ st = [active |-> st.active, live |-> st.live, touched |-> st.touched]
  /\ st.live \subseteq DOMAIN st.active
  /\ \A p \in st.touched : \E x \in 1 .. k : L[x].port = p
  /\ \A p \in st.live : \E x \in 1 .. k :
       /\ L[x].port = p /\ EnsureSupported(ProfileOf(L[x]))
       /\ st.active[p].fingerprint = Fingerprint(L[x])
  /\ \A x \in 1 .. k : EnsureSupported(ProfileOf(L[x])) => L[x].port \in st.live
  /\ \A p \in DOMAIN st.active :
       \/ p \in DOMAIN up /\ st.active[p] = up[p]
       \/ \E x \in 1 .. k : L[x].port = p /\ st.active[p] = Spawned(L[x])
  /\ \A p \in DOMAIN up :
       (\A x \in 1 .. k : L[x].port = p => Fingerprint(L[x]) = up[p].fingerprint)
         => p \in DOMAIN st.active /\ st.active[p] = up[p] /\ p \notin st.touched

\* A field of a loop state that is changed.
LEMMA LiveAdded ==
  ASSUME NEW st, st = [active |-> st.active, live |-> st.live, touched |-> st.touched],
         NEW p, NEW r, r = [st EXCEPT !.live = @ \cup {p}]
  PROVE  /\ r.active = st.active /\ r.live = st.live \cup {p} /\ r.touched = st.touched
         /\ r = [active |-> r.active, live |-> r.live, touched |-> r.touched]
<1>1. PICK a, l, t : st = [active |-> a, live |-> l, touched |-> t]
  OBVIOUS
<1>2. r = [active |-> a, live |-> l \cup {p}, touched |-> t]
  BY <1>1
<1>3. st.active = a /\ st.live = l /\ st.touched = t
  BY <1>1
<1>4. r.active = a /\ r.live = l \cup {p} /\ r.touched = t
  BY <1>2
<1>5. QED
  BY <1>2, <1>3, <1>4

\* One more row.
LEMMA ReachedStep ==
  ASSUME NEW up, NEW L, NEW k \in Nat, NEW st, Reached(st, up, L, k),
         NEW r, r = EnsureActive(st, L[k + 1])
  PROVE  Reached(r, up, L, k + 1)
<1> DEFINE row == L[k + 1]
           q == row.port
<1>1. /\ \A x \in 1 .. k + 1 : x \in 1 .. k \/ x = k + 1
      /\ \A x \in 1 .. k : x \in 1 .. k + 1
      /\ k + 1 \in 1 .. k + 1
  OBVIOUS
<1>2. /\ st = [active |-> st.active, live |-> st.live, touched |-> st.touched]
      /\ st.live \subseteq DOMAIN st.active
      /\ \A p \in st.touched : \E x \in 1 .. k : L[x].port = p
      /\ \A p \in st.live : \E x \in 1 .. k :
           /\ L[x].port = p /\ EnsureSupported(ProfileOf(L[x]))
           /\ st.active[p].fingerprint = Fingerprint(L[x])
      /\ \A x \in 1 .. k : EnsureSupported(ProfileOf(L[x])) => L[x].port \in st.live
      /\ \A p \in DOMAIN st.active :
           \/ p \in DOMAIN up /\ st.active[p] = up[p]
           \/ \E x \in 1 .. k : L[x].port = p /\ st.active[p] = Spawned(L[x])
      /\ \A p \in DOMAIN up :
           (\A x \in 1 .. k : L[x].port = p => Fingerprint(L[x]) = up[p].fingerprint)
             => p \in DOMAIN st.active /\ st.active[p] = up[p] /\ p \notin st.touched
  BY DEF Reached
<1>3. CASE ~EnsureSupported(ProfileOf(row))
  <2>1. r = st
    BY <1>3 DEF EnsureActive
  <2>2. \A p \in st.touched : \E x \in 1 .. k + 1 : L[x].port = p
    BY <1>1, <1>2, Zenon
  <2>3. ASSUME NEW p \in st.live
        PROVE  \E x \in 1 .. k + 1 : /\ L[x].port = p /\ EnsureSupported(ProfileOf(L[x]))
                                     /\ st.active[p].fingerprint = Fingerprint(L[x])
    <3>1. PICK x \in 1 .. k : /\ L[x].port = p /\ EnsureSupported(ProfileOf(L[x]))
                              /\ st.active[p].fingerprint = Fingerprint(L[x])
      BY <1>2
    <3>2. QED
      BY <1>1, <3>1
  <2>4. \A x \in 1 .. k + 1 : EnsureSupported(ProfileOf(L[x])) => L[x].port \in st.live
    BY <1>1, <1>2, <1>3
  <2>5. ASSUME NEW p \in DOMAIN st.active
        PROVE  \/ p \in DOMAIN up /\ st.active[p] = up[p]
               \/ \E x \in 1 .. k + 1 : L[x].port = p /\ st.active[p] = Spawned(L[x])
    BY <1>1, <1>2
  <2>6. ASSUME NEW p \in DOMAIN up,
               \A x \in 1 .. k + 1 : L[x].port = p => Fingerprint(L[x]) = up[p].fingerprint
        PROVE  p \in DOMAIN st.active /\ st.active[p] = up[p] /\ p \notin st.touched
    BY <1>1, <1>2, <2>6, Zenon
  <2>7. Reached(st, up, L, k + 1)
    BY <1>2, <2>2, <2>3, <2>4, <2>5, <2>6, Zenon DEF Reached
  <2>8. QED
    BY <2>1, <2>7
<1>4. CASE /\ EnsureSupported(ProfileOf(row))
           /\ q \in DOMAIN st.active /\ st.active[q].fingerprint = Fingerprint(row)
  <2>1. r = [st EXCEPT !.live = @ \cup {q}]
    BY <1>4 DEF EnsureActive
  <2>2. /\ r.active = st.active /\ r.live = st.live \cup {q} /\ r.touched = st.touched
        /\ r = [active |-> r.active, live |-> r.live, touched |-> r.touched]
    BY <1>2, <2>1, LiveAdded
  <2>3. r.live \subseteq DOMAIN r.active
    BY <1>2, <1>4, <2>2
  <2>4. \A p \in r.touched : \E x \in 1 .. k + 1 : L[x].port = p
    BY <1>1, <1>2, <2>2, Zenon
  <2>5. ASSUME NEW p \in r.live
        PROVE  \E x \in 1 .. k + 1 : /\ L[x].port = p /\ EnsureSupported(ProfileOf(L[x]))
                                     /\ r.active[p].fingerprint = Fingerprint(L[x])
    <3>1. CASE p = q
      BY <1>1, <1>4, <2>2, <3>1
    <3>2. CASE p \in st.live
      <4>1. PICK x \in 1 .. k : /\ L[x].port = p /\ EnsureSupported(ProfileOf(L[x]))
                                /\ st.active[p].fingerprint = Fingerprint(L[x])
        BY <1>2, <3>2
      <4>2. QED
        BY <1>1, <2>2, <4>1
    <3>3. QED
      BY <2>2, <3>1, <3>2
  <2>6. \A x \in 1 .. k + 1 : EnsureSupported(ProfileOf(L[x])) => L[x].port \in r.live
    BY <1>1, <1>2, <2>2
  <2>7. ASSUME NEW p \in DOMAIN r.active
        PROVE  \/ p \in DOMAIN up /\ r.active[p] = up[p]
               \/ \E x \in 1 .. k + 1 : L[x].port = p /\ r.active[p] = Spawned(L[x])
    <3>1. p \in DOMAIN st.active /\ r.active[p] = st.active[p]
      BY <2>2
    <3>2. QED
      BY <1>1, <1>2, <3>1
  <2>8. \A p \in DOMAIN up :
          (\A x \in 1 .. k + 1 : L[x].port = p => Fingerprint(L[x]) = up[p].fingerprint)
            => p \in DOMAIN r.active /\ r.active[p] = up[p] /\ p \notin r.touched
    BY <1>1, <1>2, <2>2, Zenon
  <2>9. QED
    BY <2>2, <2>3, <2>4, <2>5, <2>6, <2>7, <2>8, Zenon DEF Reached
<1>5. CASE /\ EnsureSupported(ProfileOf(row))
           /\ ~(q \in DOMAIN st.active /\ st.active[q].fingerprint = Fingerprint(row))
  <2>1. r = [active |-> Put(st.active, q, Spawned(row)), live |-> st.live \cup {q},
             touched |-> st.touched \cup {q}]
    BY <1>5 DEF EnsureActive, Spawned
  <2>2. /\ r.active = Put(st.active, q, Spawned(row)) /\ r.live = st.live \cup {q}
        /\ r.touched = st.touched \cup {q}
        /\ r = [active |-> r.active, live |-> r.live, touched |-> r.touched]
    BY <2>1
  <2>3. /\ DOMAIN r.active = DOMAIN st.active \cup {q} /\ r.active[q] = Spawned(row)
        /\ \A p \in DOMAIN st.active : p # q => r.active[p] = st.active[p]
    BY <2>2 DEF Put
  <2>4. r.live \subseteq DOMAIN r.active
    BY <1>2, <2>2, <2>3
  <2>5. \A p \in r.touched : \E x \in 1 .. k + 1 : L[x].port = p
    BY <1>1, <1>2, <2>2
  <2>6. ASSUME NEW p \in r.live
        PROVE  \E x \in 1 .. k + 1 : /\ L[x].port = p /\ EnsureSupported(ProfileOf(L[x]))
                                     /\ r.active[p].fingerprint = Fingerprint(L[x])
    <3>1. CASE p = q
      <4>1. r.active[p].fingerprint = Fingerprint(row)
        BY <2>3, <3>1 DEF Spawned
      <4>2. QED
        BY <1>1, <1>5, <3>1, <4>1
    <3>2. CASE p # q
      <4>1. p \in st.live /\ r.active[p] = st.active[p]
        BY <1>2, <2>2, <2>3, <3>2
      <4>2. PICK x \in 1 .. k : /\ L[x].port = p /\ EnsureSupported(ProfileOf(L[x]))
                                /\ st.active[p].fingerprint = Fingerprint(L[x])
        BY <1>2, <4>1
      <4>3. QED
        BY <1>1, <4>1, <4>2
    <3>3. QED
      BY <3>1, <3>2
  <2>7. \A x \in 1 .. k + 1 : EnsureSupported(ProfileOf(L[x])) => L[x].port \in r.live
    BY <1>1, <1>2, <2>2
  <2>8. ASSUME NEW p \in DOMAIN r.active
        PROVE  \/ p \in DOMAIN up /\ r.active[p] = up[p]
               \/ \E x \in 1 .. k + 1 : L[x].port = p /\ r.active[p] = Spawned(L[x])
    <3>1. CASE p = q
      BY <1>1, <2>3, <3>1
    <3>2. CASE p # q
      <4>1. p \in DOMAIN st.active /\ r.active[p] = st.active[p]
        BY <2>3, <3>2
      <4>2. QED
        BY <1>1, <1>2, <4>1, Zenon
    <3>3. QED
      BY <3>1, <3>2
  <2>9. ASSUME NEW p \in DOMAIN up,
               \A x \in 1 .. k + 1 : L[x].port = p => Fingerprint(L[x]) = up[p].fingerprint
        PROVE  p \in DOMAIN r.active /\ r.active[p] = up[p] /\ p \notin r.touched
    <3>1. p \in DOMAIN st.active /\ st.active[p] = up[p] /\ p \notin st.touched
      BY <1>1, <1>2, <2>9, Zenon
    <3>2. p # q
      BY <1>1, <1>5, <2>9, <3>1
    <3>3. QED
      BY <2>2, <2>3, <3>1, <3>2
  <2>10. QED
    BY <2>2, <2>4, <2>5, <2>6, <2>7, <2>8, <2>9, Zenon DEF Reached
<1>6. QED
  BY <1>3, <1>4, <1>5

\* The listeners after each row, as an equation of the function.
ListenerLoop(g, up, L, n) ==
  g = [k \in 0 .. n |-> IF k = 0 THEN [active |-> up, live |-> {}, touched |-> {}]
                        ELSE EnsureActive(g[k - 1], L[k])]

\* The recursion of ListenersOf is well founded.
LEMMA ListenerLoopExists ==
  ASSUME NEW up, NEW L
  PROVE  \A n \in Nat : \E g : ListenerLoop(g, up, L, n)
<1> DEFINE Good == {n \in Nat : \E g : ListenerLoop(g, up, L, n)}
           first == [active |-> up, live |-> {}, touched |-> {}]
<1>1. 0 \in Good
  <2>1. ListenerLoop([k \in 0 .. 0 |-> first], up, L, 0)
    BY DEF ListenerLoop
  <2>2. QED
    BY <2>1
<1>2. ASSUME NEW n \in Nat, n \in Good PROVE n + 1 \in Good
  <2>1. PICK g : ListenerLoop(g, up, L, n)
    BY <1>2
  <2> DEFINE h == [k \in 0 .. n + 1 |->
                     IF k = n + 1 THEN EnsureActive(g[n], L[n + 1]) ELSE g[k]]
  <2>2. ListenerLoop(h, up, L, n + 1)
    <3>1. ASSUME NEW k \in 0 .. n + 1
          PROVE  h[k] = IF k = 0 THEN first ELSE EnsureActive(h[k - 1], L[k])
      <4>1. CASE k = n + 1
        <5>1. h[k] = EnsureActive(g[n], L[n + 1]) /\ k # 0 /\ k - 1 = n /\ h[n] = g[n]
          BY <4>1
        <5>2. QED
          BY <4>1, <5>1
      <4>2. CASE k # n + 1
        <5>1. h[k] = g[k] /\ k \in 0 .. n /\ (k # 0 => h[k - 1] = g[k - 1])
          BY <4>2
        <5>2. QED
          BY <2>1, <5>1 DEF ListenerLoop
      <4>3. QED
        BY <4>1, <4>2
    <3>2. QED
      BY <3>1 DEF ListenerLoop
  <2>3. QED
    BY <2>2
<1> HIDE DEF Good
<1>3. \A n \in Nat : n \in Good
  BY <1>1, <1>2, SetInduction
<1>4. QED
  BY <1>3 DEF Good

\* The loop over all listener rows.
LEMMA ListenersReached ==
  ASSUME NEW up, NEW L, Len(L) \in Nat
  PROVE  Reached(ListenersOf(up, L), up, L, Len(L))
<1> DEFINE n == Len(L)
           F == CHOOSE g : ListenerLoop(g, up, L, n)
           first == [active |-> up, live |-> {}, touched |-> {}]
<1>1. \E g : ListenerLoop(g, up, L, n)
  BY ListenerLoopExists
<1>2. ListenerLoop(F, up, L, n)
  BY <1>1
<1>3. ListenersOf(up, L) = F[n]
  BY DEF ListenersOf, ListenerLoop
<1>4. n \in Nat
  OBVIOUS
<1> HIDE DEF F, n
<1>5. F[0] = first /\ \A k \in 1 .. n : F[k] = EnsureActive(F[k - 1], L[k])
  <2>1. 0 \in 0 .. n /\ \A k \in 1 .. n : k \in 0 .. n /\ k # 0
    BY <1>4
  <2>2. \A k \in 0 .. n : F[k] = IF k = 0 THEN first ELSE EnsureActive(F[k - 1], L[k])
    BY <1>2, Zenon DEF ListenerLoop
  <2> HIDE DEF first
  <2>3. QED
    BY <2>1, <2>2, Zenon
<1> DEFINE Good == {k \in Nat : k <= n => Reached(F[k], up, L, k)}
<1>6. 0 \in Good
  <2>1. /\ first.active = up /\ first.live = {} /\ first.touched = {}
        /\ first = [active |-> first.active, live |-> first.live, touched |-> first.touched]
    OBVIOUS
  <2> HIDE DEF first
  <2>2. Reached(first, up, L, 0)
    BY <2>1 DEF Reached
  <2>3. QED
    BY <1>5, <2>2
<1>7. ASSUME NEW k \in Nat, k \in Good PROVE k + 1 \in Good
  <2>1. CASE k + 1 <= n
    <3>1. k <= n /\ k + 1 \in 1 .. n /\ (k + 1) - 1 = k
      BY <1>4, <2>1
    <3>2. Reached(F[k], up, L, k) /\ F[k + 1] = EnsureActive(F[k], L[k + 1])
      BY <1>5, <1>7, <3>1
    <3>3. Reached(F[k + 1], up, L, k + 1)
      BY <3>2, ReachedStep
    <3>4. QED
      BY <3>3
  <2>2. QED
    BY <2>1
<1> HIDE DEF Good
<1>8. \A k \in Nat : k \in Good
  BY <1>6, <1>7, SetInduction
<1>9. Reached(F[n], up, L, n)
  BY <1>4, <1>8 DEF Good
<1>10. QED
  BY <1>3, <1>9 DEF n

----------------------------------------------------------------------------
(* The inductive invariant. *)

\* The ports and the ids of the rows the panel may send.
RowPorts == {r.port : r \in Row}
RowIds == {UserId(r) : r \in Row}
RowPrints == {Fingerprint(r) : r \in Row}

\* Every listener serves an endpoint that the rows call for, and every port
\* with such an endpoint has its listener.
ActiveMatch(act, rs) ==
  /\ \A p \in DOMAIN act : \E i \in EndpointRows(rs, p) :
       act[p].fingerprint = Fingerprint(rs[i]) /\ EnsureSupported(ProfileOf(rs[i]))
  /\ \A p \in RowPorts : \A i \in EndpointRows(rs, p) :
       EnsureSupported(ProfileOf(rs[i])) => p \in DOMAIN act

\* What every poll leaves behind: tables and listeners of the same rows.
PanelInv ==
  /\ accepted \in Listings \cup {<< >>}
  /\ TablesMatch(tables, accepted)
  /\ IsMap(active, RowPorts, [fingerprint : RowPrints, owner : RowIds])
  /\ ActiveMatch(active, accepted)
  /\ touched \subseteq RowPorts

\* The rows of an answer are rows.
LEMMA AnswerRows ==
  ASSUME NEW rs \in Listings \cup {<< >>}
  PROVE  rs \in Seq(PanelUser) /\ \A i \in DOMAIN rs : rs[i] \in Row
<1>1. CASE rs = << >>
  <2>1. rs \in Seq(PanelUser) /\ DOMAIN rs = {}
    BY <1>1
  <2>2. QED
    BY <2>1
<1>2. CASE rs \in Listings
  <2>1. rs \in Seq(PanelUser)
    BY <1>2, RowsAssumption
  <2>2. \A i \in DOMAIN rs : rs[i] \in ToSet(rs)
    BY DEF ToSet
  <2>3. QED
    BY <1>2, <2>1, <2>2 DEF Row
<1>3. QED
  BY <1>1, <1>2

\* An answer's rows are a listing or none.
LEMMA AnswerKinds ==
  ASSUME NEW a \in Answers
  PROVE  a.rows \in Listings \cup {<< >>}
BY DEF Answers

\* What a poll that is acted on makes of the listeners.
LEMMA ListenersStep ==
  ASSUME NEW rs \in Listings \cup {<< >>}, NEW L, EndpointList(L, rs),
         NEW up, IsMap(up, RowPorts, [fingerprint : RowPrints, owner : RowIds]),
         NEW st, st = ListenersOf(up, L), NEW act, act = [p \in st.live |-> st.active[p]]
  PROVE  /\ IsMap(act, RowPorts, [fingerprint : RowPrints, owner : RowIds])
         /\ ActiveMatch(act, rs)
         /\ st.touched \cup Stale(st) \subseteq RowPorts
<1>1. L \in Seq(PanelUser) /\ Len(L) \in Nat
  BY DEF EndpointList
<1>2. Reached(st, up, L, Len(L))
  BY <1>1, ListenersReached
<1>3. \A x \in 1 .. Len(L) : \E i \in EndpointRows(rs, L[x].port) : L[x] = rs[i]
  BY DEF EndpointList
<1>4. ASSUME NEW x \in 1 .. Len(L)
      PROVE  /\ L[x].port \in RowPorts
             /\ Spawned(L[x]) \in [fingerprint : RowPrints, owner : RowIds]
  <2>1. PICK i \in EndpointRows(rs, L[x].port) : L[x] = rs[i]
    BY <1>3
  <2>2. i \in DOMAIN rs
    BY DEF EndpointRows, Enabled
  <2>3. L[x] \in Row
    BY <2>1, <2>2, AnswerRows
  <2>4. Fingerprint(L[x]) \in RowPrints /\ UserId(L[x]) \in RowIds /\ L[x].port \in RowPorts
    BY <2>3 DEF RowPrints, RowIds, RowPorts
  <2>5. QED
    BY <2>4 DEF Spawned
<1>5. /\ DOMAIN up \subseteq RowPorts
      /\ \A p \in DOMAIN up : up[p] \in [fingerprint : RowPrints, owner : RowIds]
  BY DEF IsMap
<1>6. /\ st.live \subseteq DOMAIN st.active
      /\ \A p \in st.touched : \E x \in 1 .. Len(L) : L[x].port = p
      /\ \A p \in DOMAIN st.active :
           \/ p \in DOMAIN up /\ st.active[p] = up[p]
           \/ \E x \in 1 .. Len(L) : L[x].port = p /\ st.active[p] = Spawned(L[x])
  BY <1>2 DEF Reached
<1>7. ASSUME NEW p \in DOMAIN st.active
      PROVE  p \in RowPorts /\ st.active[p] \in [fingerprint : RowPrints, owner : RowIds]
  <2>1. CASE p \in DOMAIN up /\ st.active[p] = up[p]
    BY <1>5, <2>1
  <2>2. ASSUME NEW x \in 1 .. Len(L), L[x].port = p, st.active[p] = Spawned(L[x])
        PROVE  p \in RowPorts /\ st.active[p] \in [fingerprint : RowPrints, owner : RowIds]
    BY <1>4, <2>2
  <2>3. QED
    BY <1>6, <2>1, <2>2
<1>8. DOMAIN act = st.live /\ \A p \in st.live : act[p] = st.active[p]
  OBVIOUS
<1>9. IsMap(act, RowPorts, [fingerprint : RowPrints, owner : RowIds])
  <2> DEFINE E == [fingerprint : RowPrints, owner : RowIds]
  <2>1. \A p \in st.live : p \in RowPorts /\ st.active[p] \in E
    BY <1>6, <1>7
  <2> HIDE DEF E
  <2>2. IsMap(act, RowPorts, E)
    BY <2>1 DEF IsMap
  <2>3. QED
    BY <2>2 DEF E
<1>10. ASSUME NEW p \in DOMAIN act
       PROVE  \E i \in EndpointRows(rs, p) :
                act[p].fingerprint = Fingerprint(rs[i]) /\ EnsureSupported(ProfileOf(rs[i]))
  <2>1. p \in st.live /\ act[p] = st.active[p]
    BY <1>8
  <2>2. PICK x \in 1 .. Len(L) : /\ L[x].port = p /\ EnsureSupported(ProfileOf(L[x]))
                                 /\ st.active[p].fingerprint = Fingerprint(L[x])
    BY <1>2, <2>1 DEF Reached
  <2>3. PICK i \in EndpointRows(rs, L[x].port) : L[x] = rs[i]
    BY <1>3
  <2>4. QED
    BY <2>1, <2>2, <2>3, Zenon
<1>11. ASSUME NEW p \in RowPorts, NEW i \in EndpointRows(rs, p),
              EnsureSupported(ProfileOf(rs[i]))
       PROVE  p \in DOMAIN act
  <2>1. PICK x \in 1 .. Len(L) : L[x] = rs[i]
    BY DEF EndpointList
  <2>2. L[x].port = p
    BY <2>1 DEF EndpointRows
  <2>3. L[x].port \in st.live
    BY <1>2, <1>11, <2>1 DEF Reached
  <2>4. QED
    BY <1>8, <2>2, <2>3
<1>12. ActiveMatch(act, rs)
  BY <1>10, <1>11, Zenon DEF ActiveMatch
<1>13. st.touched \cup Stale(st) \subseteq RowPorts
  BY <1>4, <1>6, <1>7 DEF Stale
<1>14. QED
  BY <1>9, <1>12, <1>13

\* At the start there are no rows, no tables and no listeners.
LEMMA PanelInit == Init => PanelInv
<1> SUFFICES ASSUME Init PROVE PanelInv
  OBVIOUS
<1>1. tables = NoTables /\ active = << >> /\ touched = {} /\ accepted = << >>
  BY DEF Init
<1>2. DOMAIN << >> = {}
  OBVIOUS
<1>3. IsMap(<< >>, RowPorts, [fingerprint : RowPrints, owner : RowIds])
  BY <1>2 DEF IsMap
<1>4. ActiveMatch(<< >>, << >>)
  <2> DEFINE none == << >>
  <2>1. DOMAIN none = {} /\ \A p : EndpointRows(none, p) = {}
    BY <1>2 DEF EndpointRows, Enabled
  <2> HIDE DEF none
  <2>2. ActiveMatch(none, none)
    BY <2>1, Zenon DEF ActiveMatch
  <2>3. QED
    BY <2>2 DEF none
<1>5. QED
  BY <1>1, <1>3, <1>4, NoTablesMatch, Zenon DEF PanelInv

\* An answer that is not acted on changes neither the rows nor what was made of
\* them.
LEMMA SyncFailsStep ==
  ASSUME PanelInv, NEW a \in Answers, SyncFails(a)
  PROVE  PanelInv'
<1>1. a.rows \in Listings \cup {<< >>}
  BY AnswerKinds
<1>2. a.rows \in Seq(PanelUser)
  BY <1>1, AnswerRows
<1>3. ~Usable(a)
  BY <1>2, UsableExact DEF SyncFails
<1>4. accepted' = accepted /\ tables' = tables /\ active' = active /\ touched' = {}
  BY <1>3 DEF SyncFails, Observe
<1>5. QED
  BY <1>4 DEF PanelInv

\* An answer that is acted on: its rows, the tables and the listeners.
LEMMA SyncFacts ==
  ASSUME NEW a \in Answers, Sync(a)
  PROVE  /\ accepted' = a.rows /\ accepted' \in Listings \cup {<< >>}
         /\ TablesMatch(tables', accepted')
         /\ \E L : /\ EndpointList(L, accepted')
                   /\ active' = [p \in ListenersOf(active, L).live |->
                                   ListenersOf(active, L).active[p]]
                   /\ touched' = ListenersOf(active, L).touched
                                   \cup Stale(ListenersOf(active, L))
<1>1. a.rows \in Listings \cup {<< >>}
  BY AnswerKinds
<1>2. a.rows \in Seq(PanelUser)
  BY <1>1, AnswerRows
<1>3. Usable(a)
  BY <1>2, UsableExact DEF Sync
<1>4. accepted' = a.rows
  BY <1>3 DEF Sync, Observe
<1>5. PICK m : Numbers(m, UsersIn(a), a.rows)
  BY <1>2, UsersNumbered
<1>6. tables' = TablesOf(UsersIn(a))
  BY DEF Sync
<1>7. TablesMatch(tables', a.rows)
  BY <1>2, <1>5, <1>6, TablesMatchRows
<1> DEFINE L == ListenerUsers(UsersIn(a))
<1>8. EndpointList(L, a.rows)
  BY <1>2, <1>5, ListenerUsersExact
<1>9. /\ active' = [p \in ListenersOf(active, L).live |-> ListenersOf(active, L).active[p]]
      /\ touched' = ListenersOf(active, L).touched \cup Stale(ListenersOf(active, L))
  BY DEF Sync
<1> HIDE DEF L
<1>10. QED
  BY <1>1, <1>4, <1>7, <1>8, <1>9

\* A poll keeps the invariant.
LEMMA PanelNext == PanelInv /\ [Next]_vars => PanelInv'
<1> SUFFICES ASSUME PanelInv, [Next]_vars PROVE PanelInv'
  OBVIOUS
<1>1. ASSUME NEW a \in Answers, SyncFails(a) PROVE PanelInv'
  BY <1>1, SyncFailsStep
<1>2. ASSUME NEW a \in Answers, Sync(a) PROVE PanelInv'
  <2>1. accepted' \in Listings \cup {<< >>} /\ TablesMatch(tables', accepted')
    BY <1>2, SyncFacts
  <2>2. PICK L : /\ EndpointList(L, accepted')
                 /\ active' = [p \in ListenersOf(active, L).live |->
                                 ListenersOf(active, L).active[p]]
                 /\ touched' = ListenersOf(active, L).touched \cup Stale(ListenersOf(active, L))
    BY <1>2, SyncFacts
  <2>3. IsMap(active, RowPorts, [fingerprint : RowPrints, owner : RowIds])
    BY DEF PanelInv
  <2>4. /\ IsMap(active', RowPorts, [fingerprint : RowPrints, owner : RowIds])
        /\ ActiveMatch(active', accepted')
        /\ touched' \subseteq RowPorts
    BY <2>1, <2>2, <2>3, ListenersStep
  <2>5. QED
    BY <2>1, <2>4 DEF PanelInv
<1>3. CASE UNCHANGED vars
  BY <1>3 DEF vars, PanelInv
<1>4. QED
  BY <1>1, <1>2, <1>3 DEF Next

\* The tables and the listeners are always those of the rows of the last usable
\* answer (users, sync_users, ensure_active_user).
THEOREM PanelInvariant == Spec => []PanelInv
<1>1. Init => PanelInv
  BY PanelInit
<1>2. PanelInv /\ [Next]_vars => PanelInv'
  BY PanelNext
<1>3. QED
  BY <1>1, <1>2, PTL DEF Spec

----------------------------------------------------------------------------
(* The properties. *)

\* The tables and the listeners have their types: no table names a user that is
\* not counted, and limits fit their integers.
THEOREM PanelTypeCorrect == Spec => []TypeOK
<1>1. PanelInv => TypeOK
  <2> SUFFICES ASSUME PanelInv PROVE TypeOK
    OBVIOUS
  <2>1. /\ accepted \in Listings \cup {<< >>} /\ TablesMatch(tables, accepted)
        /\ IsMap(active, RowPorts, [fingerprint : RowPrints, owner : RowIds])
        /\ touched \subseteq RowPorts
    BY DEF PanelInv
  <2>2. /\ accepted \in Seq(PanelUser)
        /\ \A i \in Enabled(accepted) : accepted[i] \in Row /\ accepted[i] \in PanelUser
    BY <2>1, AnswerRows DEF Enabled
  <2>3. tables.counters \subseteq RowIds /\ tables.conns = tables.counters
    BY <2>1, <2>2 DEF TablesMatch, RowIds
  <2>4. IsMap(tables.auth, tables.counters, {r.password : r \in Row})
    <3>1. DOMAIN tables.auth \subseteq tables.counters
      BY <2>1 DEF TablesMatch
    <3>2. \A i \in Enabled(accepted) : accepted[i].password \in {r.password : r \in Row}
      BY <2>2
    <3>3. tables.auth \in [DOMAIN tables.auth -> {accepted[i].password : i \in Enabled(accepted)}]
      BY <2>1 DEF TablesMatch
    <3>4. tables.auth \in [DOMAIN tables.auth -> {r.password : r \in Row}]
      BY <3>2, <3>3
    <3>5. QED
      BY <3>1, <3>4 DEF IsMap
  <2>5. tables.speeds \in [tables.counters -> Nat]
    BY <2>1 DEF TablesMatch
  <2>6. DOMAIN tables.policies \subseteq tables.counters
    BY <2>1 DEF TablesMatch
  <2>7. \A u \in DOMAIN tables.policies : tables.policies[u].conn_limit \in 0 .. ConnMod - 1
    <3> TAKE u \in DOMAIN tables.policies
    <3>1. PICK i \in RestrictedRows(accepted, u) : tables.policies[u] = FromUser(accepted[i])
      BY <2>1 DEF TablesMatch
    <3>2. accepted[i] \in PanelUser
      BY <2>2 DEF RestrictedRows, RowsOf
    <3>3. QED
      BY <3>1, <3>2, FromUserExact
  <2>8. QED
    BY <2>1, <2>3, <2>4, <2>5, <2>6, <2>7, Zenon
       DEF TypeOK, RowPorts, RowIds, RowPrints
<1>2. QED
  BY <1>1, PanelInvariant, PTL

\* After every history of answers the tables follow the rows of the last usable
\* one: keys, counters, speeds and policies (sync_users).
THEOREM TablesFollowRowsHolds == Spec => []TablesFollowRows
<1>1. PanelInv => TablesFollowRows
  BY DEF PanelInv, TablesMatch, TablesFollowRows
<1>2. QED
  BY <1>1, PanelInvariant, PTL

\* The lists of a policy forbid exactly what its row says, whatever the width
\* of the addresses.
LEMMA ForbiddenExactHolds == PanelInv => ForbiddenExact
<1> SUFFICES ASSUME PanelInv, NEW u \in DOMAIN tables.policies
             PROVE  LET row == PolicyRow(u)
                        p == tables.policies[u] IN
                    /\ \A ip \in IpAddr :
                         IpForbidden(p, ip) <=> \E i \in DOMAIN row.ips : Covers(row.ips[i], ip)
                    /\ \A port \in 0 .. MaxPort :
                         PortForbidden(p, port) <=>
                           \E i \in DOMAIN row.ports : Between(row.ports[i], port)
  BY DEF ForbiddenExact
<1> DEFINE row == PolicyRow(u)
<1>1. /\ LastOf(RestrictedRows(accepted, u)) \in RestrictedRows(accepted, u)
      /\ tables.policies[u] = FromUser(row)
  BY DEF PanelInv, TablesMatch, PolicyRow
<1>2. row \in PanelUser
  <2>1. accepted \in Seq(PanelUser)
    BY AnswerRows DEF PanelInv
  <2>2. LastOf(RestrictedRows(accepted, u)) \in DOMAIN accepted
    BY <1>1 DEF RestrictedRows, RowsOf, Enabled
  <2>3. QED
    BY <2>1, <2>2 DEF PolicyRow
<1> HIDE DEF row
<1>3. \A ip \in IpAddr :
        IpForbidden(FromUser(row), ip) <=> \E i \in DOMAIN row.ips : Covers(row.ips[i], ip)
  BY <1>2, FromUserExact
<1>4. \A port \in 0 .. MaxPort :
        PortForbidden(FromUser(row), port)
          <=> \E i \in DOMAIN row.ports : Between(row.ports[i], port)
  <2>1. \A port \in 0 .. MaxPort : port \in Nat
    OBVIOUS
  <2>2. QED
    BY <1>2, <2>1, FromUserExact
<1>5. QED
  BY <1>1, <1>3, <1>4 DEF row

\* A user with one row has the limits of that row.
LEMMA LimitsExactHolds == PanelInv => LimitsExact
<1> SUFFICES ASSUME PanelInv, NEW i \in Enabled(accepted),
                    RowsOf(accepted, UserId(accepted[i])) = {i}
             PROVE  /\ accepted[i].connector < ConnMod =>
                         DeviceLimit(UserId(accepted[i]))
                           = IF accepted[i].connector > 0 THEN accepted[i].connector ELSE 0
                    /\ accepted[i].speed >= Mbit => tables.speeds[UserId(accepted[i])] > 0
                    /\ accepted[i].speed <= 0 => tables.speeds[UserId(accepted[i])] = 0
  BY DEF LimitsExact
<1> DEFINE row == accepted[i]
           u == UserId(row)
<1>1. TablesMatch(tables, accepted)
  BY DEF PanelInv
<1>2. row \in PanelUser
  BY AnswerRows DEF PanelInv, Enabled
<1>3. u \in tables.counters
  BY <1>1 DEF TablesMatch
<1>4. RowsOf(accepted, u) = {i}
  OBVIOUS
<1>5. tables.speeds[u] = SpeedLimit(row.speed)
  <2>1. /\ LastOf(RowsOf(accepted, u)) \in RowsOf(accepted, u)
        /\ tables.speeds[u] = SpeedLimit(accepted[LastOf(RowsOf(accepted, u))].speed)
    BY <1>1, <1>3 DEF TablesMatch
  <2>2. LastOf(RowsOf(accepted, u)) = i
    BY <1>4, <2>1
  <2>3. QED
    BY <2>1, <2>2
<1>6. row.connector < ConnMod =>
        DeviceLimit(u) = IF row.connector > 0 THEN row.connector ELSE 0
  <2>1. RestrictedRows(accepted, u) = IF Restricted(row) THEN {i} ELSE {}
    BY <1>4 DEF RestrictedRows
  <2>2. DOMAIN tables.policies = {v \in tables.counters : RestrictedRows(accepted, v) # {}}
    BY <1>1 DEF TablesMatch
  <2>3. CASE Restricted(row)
    <3>1. RestrictedRows(accepted, u) = {i} /\ u \in DOMAIN tables.policies
      BY <1>3, <2>1, <2>2, <2>3
    <3>2. /\ LastOf(RestrictedRows(accepted, u)) \in RestrictedRows(accepted, u)
          /\ tables.policies[u] = FromUser(accepted[LastOf(RestrictedRows(accepted, u))])
      BY <1>1, <3>1 DEF TablesMatch
    <3>3. LastOf(RestrictedRows(accepted, u)) = i
      BY <3>1, <3>2
    <3>4. tables.policies[u] = FromUser(row)
      BY <3>2, <3>3
    <3>5. DeviceLimit(u) = FromUser(row).conn_limit
      BY <3>1, <3>4 DEF DeviceLimit
    <3>6. row.connector < ConnMod =>
            FromUser(row).conn_limit = IF row.connector > 0 THEN row.connector ELSE 0
      BY <1>2, FromUserExact
    <3>7. QED
      BY <3>5, <3>6, Zenon
  <2>4. CASE ~Restricted(row)
    <3>1. u \notin DOMAIN tables.policies
      BY <2>1, <2>2, <2>4
    <3>2. DeviceLimit(u) = 0
      BY <3>1 DEF DeviceLimit
    <3>3. PICK c \in Int, w \in Nat \ {0} : c = row.connector /\ w = ConnMod
      BY <1>2, RowFields, PolicyAssumption
    <3>4. ~(c > 0 /\ c % w # 0)
      BY <2>4, <3>3 DEF Restricted
    <3>5. c < w /\ c > 0 => c % w = c
      OBVIOUS
    <3>6. c < w => ~(c > 0)
      BY <3>4, <3>5
    <3>7. QED
      BY <3>2, <3>3, <3>6, Zenon
  <2>5. QED
    BY <2>3, <2>4
<1>7. /\ row.speed >= Mbit => SpeedLimit(row.speed) > 0
      /\ row.speed <= 0 => SpeedLimit(row.speed) = 0
  BY <1>2, FromUserExact
<1>8. QED
  BY <1>5, <1>6, <1>7, Zenon

\* What a session is held to is what the panel's row of its user says: a policy
\* forbids the addresses and the ports of its lists and no other, in either
\* family, and a limit keeps its value (UserPolicy::from_user, Cidr, PortRange).
THEOREM PoliciesExactHolds == Spec => []PoliciesExact
<1>1. PanelInv => PoliciesExact
  BY ForbiddenExactHolds, LimitsExactHolds DEF PoliciesExact
<1>2. QED
  BY <1>1, PanelInvariant, PTL

\* The endpoints of a port are finitely many.
LEMMA EndpointsFinite ==
  ASSUME NEW rs \in Seq(PanelUser), NEW p
  PROVE  IsFiniteSet(Endpoints(rs, p))
<1> DEFINE S == EndpointRows(rs, p)
           T == Endpoints(rs, p)
           e == [i \in S |-> <<rs[i].password, ProfileOf(rs[i]), rs[i].mode>>]
<1>1. Len(rs) \in Nat /\ S \subseteq 1 .. Len(rs)
  BY DEF EndpointRows, Enabled
<1>2. IsFiniteSet(1 .. Len(rs))
  BY <1>1, FS_Interval
<1>3. IsFiniteSet(S)
  BY <1>1, <1>2, FS_Subset
<1>4. e \in Surjection(S, T)
  BY DEF Surjection, Endpoints
<1> HIDE DEF S, T, e
<1>5. IsFiniteSet(T)
  BY <1>3, <1>4, FS_Surjection
<1>6. QED
  BY <1>5 DEF T

\* A listener whose endpoint stays the same is left alone by a poll.
LEMMA SilentStep ==
  ASSUME NEW old \in Seq(PanelUser), NEW new \in Seq(PanelUser), NEW up,
         ActiveMatch(up, old), NEW L, EndpointList(L, new), NEW p \in DOMAIN up,
         Endpoints(old, p) = Endpoints(new, p), Cardinality(Endpoints(old, p)) = 1,
         NEW st, st = ListenersOf(up, L)
  PROVE  p \in st.live /\ st.active[p] = up[p] /\ p \notin st.touched \cup Stale(st)
<1>1. PICK e : Endpoints(old, p) = {e} /\ Endpoints(new, p) = {e}
  BY EndpointsFinite, FS_Singleton
<1>2. PICK i \in EndpointRows(old, p) :
        up[p].fingerprint = Fingerprint(old[i]) /\ EnsureSupported(ProfileOf(old[i]))
  BY DEF ActiveMatch
<1>3. old[i].port = p
  BY DEF EndpointRows
<1>4. e = <<old[i].password, ProfileOf(old[i]), old[i].mode>>
  BY <1>1 DEF Endpoints
<1>5. L \in Seq(PanelUser) /\ Len(L) \in Nat
  BY DEF EndpointList
<1>6. Reached(st, up, L, Len(L))
  BY <1>5, ListenersReached
<1>7. ASSUME NEW j \in EndpointRows(new, p)
      PROVE  /\ Fingerprint(new[j]) = up[p].fingerprint
             /\ EnsureSupported(ProfileOf(new[j])) /\ new[j].port = p
  <2>1. new[j].port = p
    BY DEF EndpointRows
  <2>2. e = <<new[j].password, ProfileOf(new[j]), new[j].mode>>
    BY <1>1 DEF Endpoints
  <2>3. /\ new[j].password = old[i].password /\ ProfileOf(new[j]) = ProfileOf(old[i])
        /\ new[j].mode = old[i].mode
    BY <1>4, <2>2
  <2>4. Fingerprint(new[j]) = Fingerprint(old[i])
    BY <1>3, <2>1, <2>3 DEF Fingerprint
  <2>5. QED
    BY <1>2, <2>1, <2>3, <2>4
<1>8. ASSUME NEW x \in 1 .. Len(L), L[x].port = p
      PROVE  Fingerprint(L[x]) = up[p].fingerprint
  <2>1. PICK j \in EndpointRows(new, p) : L[x] = new[j]
    BY <1>8 DEF EndpointList
  <2>2. QED
    BY <1>7, <2>1
<1>9. p \in DOMAIN st.active /\ st.active[p] = up[p] /\ p \notin st.touched
  BY <1>6, <1>8 DEF Reached
<1>10. PICK j \in EndpointRows(new, p) : TRUE
  BY <1>1 DEF Endpoints
<1>11. PICK x \in 1 .. Len(L) : L[x] = new[j]
  BY DEF EndpointList
<1>12. EnsureSupported(ProfileOf(L[x])) /\ L[x].port = p
  BY <1>7, <1>11
<1>13. p \in st.live
  BY <1>6, <1>12 DEF Reached
<1>14. QED
  BY <1>9, <1>13 DEF Stale

\* A poll that leaves the endpoint of a port as it is neither stops nor spawns
\* its listener, whatever else it changes (sync_users, ensure_active_user).
THEOREM UserChangesAreSilentHolds == Spec => UserChangesAreSilent
<1> DEFINE Same(p) == /\ Endpoints(accepted, p) = Endpoints(accepted', p)
                      /\ Cardinality(Endpoints(accepted, p)) = 1
           Silent == \A p \in DOMAIN active :
                       Same(p) => p \notin touched' /\ active'[p] = active[p]
<1>1. ASSUME PanelInv, Next PROVE Silent
  <2> SUFFICES ASSUME NEW p \in DOMAIN active, Same(p)
               PROVE  p \notin touched' /\ active'[p] = active[p]
    OBVIOUS
  <2>1. ASSUME NEW a \in Answers, SyncFails(a)
        PROVE  p \notin touched' /\ active'[p] = active[p]
    BY <2>1 DEF SyncFails
  <2>2. ASSUME NEW a \in Answers, Sync(a)
        PROVE  p \notin touched' /\ active'[p] = active[p]
    <3>1. accepted \in Seq(PanelUser) /\ ActiveMatch(active, accepted)
      BY <1>1, AnswerRows DEF PanelInv
    <3>2. accepted' \in Seq(PanelUser)
      BY <2>2, SyncFacts, AnswerRows
    <3>3. PICK L : /\ EndpointList(L, accepted')
                   /\ active' = [q \in ListenersOf(active, L).live |->
                                   ListenersOf(active, L).active[q]]
                   /\ touched' = ListenersOf(active, L).touched
                                   \cup Stale(ListenersOf(active, L))
      BY <2>2, SyncFacts
    <3>4. /\ p \in ListenersOf(active, L).live
          /\ ListenersOf(active, L).active[p] = active[p]
          /\ p \notin ListenersOf(active, L).touched \cup Stale(ListenersOf(active, L))
      BY <3>1, <3>2, <3>3, SilentStep
    <3>5. QED
      BY <3>3, <3>4
  <2>3. QED
    BY <1>1, <2>1, <2>2 DEF Next
<1>2. PanelInv /\ [Next]_vars => [Silent]_vars
  BY <1>1
<1>3. UserChangesAreSilent <=> [][Silent]_vars
  BY DEF UserChangesAreSilent
<1>4. QED
  BY <1>2, <1>3, PanelInvariant, PTL DEF Spec

=============================================================================
