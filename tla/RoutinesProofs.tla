--------------------------- MODULE RoutinesProofs ---------------------------
(***************************************************************************)
(* What the routines of Routines compute, for every width and operand.     *)
(***************************************************************************)
EXTENDS Routines, NaturalsInduction, WellFoundedInduction, TLAPS

-----------------------------------------------------------------------------
(***************************************************************************)
(* Arithmetic.                                                             *)
(***************************************************************************)

\* Induction over the natural numbers, for a set of them.
LEMMA SetInduction ==
  ASSUME NEW X, 0 \in X, \A n \in Nat : n \in X => n + 1 \in X
  PROVE  Nat \subseteq X
<1> DEFINE L == OpToRel(<, Nat)
           M == Nat \ X
<1>1. ASSUME M # {} PROVE FALSE
  <2>1. IsWellFoundedOn(L, Nat) /\ M \subseteq Nat
    BY NatLessThanWellFounded
  <2>2. \A x, y \in Nat : x < y => <<x, y>> \in L
    BY DEF OpToRel
  <2> HIDE DEF L, M
  <2>3. PICK x \in M : \A y \in M : ~(<<y, x>> \in L)
    BY <1>1, <2>1, WFMin
  <2>4. x \in Nat /\ x # 0 /\ x \notin X
    BY <2>3 DEF M
  <2>5. x - 1 \in Nat /\ x - 1 < x /\ x = (x - 1) + 1
    BY <2>4
  <2>6. x - 1 \notin M
    BY <2>2, <2>3, <2>4, <2>5
  <2>7. x - 1 \in X
    BY <2>5, <2>6 DEF M
  <2> QED BY <2>4, <2>5, <2>7
<1> QED
  BY <1>1

\* Powers of two are positive.
LEMMA PowersPositive ==
  ASSUME NEW n \in 0..2 * Host
  PROVE  2^n \in Nat /\ 2^n > 0
<1> DEFINE X == {k \in Nat : k <= 2 * Host => 2^k > 0}
<1>1. 0 \in X
  OBVIOUS
<1>2. ASSUME NEW k \in Nat, k \in X PROVE k + 1 \in X
  <2>1. CASE k + 1 <= 2 * Host
    <3>1. 2^(k + 1) = 2 * 2^k
      BY <2>1, PowersOfTwo, HostAssumption
    <3>2. 2^k > 0 /\ 2^k \in Int
      BY <1>2, <2>1, HostAssumption
    <3> QED BY <3>1, <3>2
  <2> QED BY <2>1, HostAssumption
<1> HIDE DEF X
<1>3. n \in X
  BY <1>1, <1>2, SetInduction, HostAssumption
<1> QED BY <1>3, HostAssumption DEF X

\* The numbers of w bits are as many negative ones as others.
LEMMA Halves ==
  ASSUME NEW w \in 1..2 * Host
  PROVE  Top(w) \in Nat /\ Top(w) > 0 /\ 2^w = 2 * Top(w) /\ 2^w \in Nat
<1>1. w - 1 \in 0..2 * Host - 1 /\ (w - 1) + 1 = w
  BY HostAssumption
<1>2. 2^((w - 1) + 1) = 2 * 2^(w - 1)
  BY <1>1, PowersOfTwo
<1>3. 2^(w - 1) \in Nat /\ 2^(w - 1) > 0
  BY <1>1, PowersPositive, HostAssumption
<1> QED BY <1>1, <1>2, <1>3 DEF Top

\* Powers multiply.
LEMMA PowersMultiply ==
  ASSUME NEW m \in 0..2 * Host, NEW n \in 0..2 * Host, m + n <= 2 * Host
  PROVE  2^(m + n) = 2^m * 2^n
<1> DEFINE X == {k \in Nat : m + k <= 2 * Host => 2^(m + k) = 2^m * 2^k}
<1>0. 2^m \in Int
  BY PowersPositive
<1>1. 0 \in X
  BY <1>0, HostAssumption
<1>2. ASSUME NEW k \in Nat, k \in X PROVE k + 1 \in X
  <2>1. CASE m + (k + 1) <= 2 * Host
    <3>1. 2^((m + k) + 1) = 2 * 2^(m + k) /\ 2^(k + 1) = 2 * 2^k /\ m + (k + 1) = (m + k) + 1
      BY <2>1, PowersOfTwo, HostAssumption
    <3>2. 2^(m + k) = 2^m * 2^k /\ 2^k \in Int /\ 2^(m + k) \in Int
      BY <1>2, <2>1, HostAssumption
    <3>3. \A a, b \in Int : 2 * (a * b) = a * (2 * b)
      OBVIOUS
    <3> QED BY <1>0, <3>1, <3>2, <3>3
  <2> QED BY <2>1, HostAssumption
<1> HIDE DEF X
<1>3. n \in X
  BY <1>1, <1>2, SetInduction, HostAssumption
<1> QED BY <1>3 DEF X

\* A wider type has at least twice the values.
LEMMA WiderDoubles ==
  ASSUME NEW w \in 1..Host, w < Host
  PROVE  2 * 2^w <= 2^Host
<1>1. Host = (w + 1) + (Host - (w + 1)) /\ w + 1 \in 0..2 * Host /\ Host - (w + 1) \in 0..2 * Host
  BY HostAssumption
<1>2. 2^Host = 2^(w + 1) * 2^(Host - (w + 1)) /\ 2^(w + 1) = 2 * 2^w
  BY <1>1, PowersMultiply, PowersOfTwo, HostAssumption
<1>3. 2^(Host - (w + 1)) \in Nat \ {0} /\ 2^w \in Nat
  BY <1>1, PowersPositive, HostAssumption
<1>4. \A a \in Nat, b \in Nat \ {0} : a <= a * b
  OBVIOUS
<1> QED BY <1>2, <1>3, <1>4

\* Division with remainder.
LEMMA Division ==
  ASSUME NEW P \in Nat \ {0}, NEW v \in Int
  PROVE  /\ v \div P \in Int /\ v % P \in 0..P - 1
         /\ v = P * (v \div P) + (v % P)
OBVIOUS

\* A quotient and a remainder are the only ones.
LEMMA DivisionUnique ==
  ASSUME NEW P \in Nat \ {0}, NEW q \in Int, NEW z \in 0..P - 1, NEW v, v = P * q + z
  PROVE  v \div P = q /\ v % P = z
OBVIOUS

\* The low bits do not change when the value wraps around in a wider type.
LEMMA CutWrap ==
  ASSUME NEW w \in 1..Host, NEW v \in Int
  PROVE  Wrap(v) \in 0..2^Host - 1 /\ Cut(Wrap(v), w) = Cut(v, w)
<1> DEFINE P == 2^w
           K == 2^(Host - w)
           H == 2^Host
<1>1. Host = w + (Host - w) /\ w \in 0..2 * Host /\ Host - w \in 0..2 * Host
  BY HostAssumption
<1>2. P \in Nat \ {0} /\ K \in Nat \ {0} /\ H = P * K
  BY <1>1, PowersPositive, PowersMultiply, HostAssumption
<1> HIDE DEF P, K, H
<1>3. H \in Nat \ {0}
  <2>1. \A a, b \in Nat \ {0} : a * b \in Nat \ {0}
    OBVIOUS
  <2> QED BY <1>2, <2>1
<1> DEFINE q == v \div H
           u == v % H
           z == u % P
<1>4. q \in Int /\ u \in 0..H - 1 /\ v = H * q + u
  BY <1>3, Division
<1> HIDE DEF q, u
<1>5. u \div P \in Int /\ z \in 0..P - 1 /\ u = P * (u \div P) + z
  BY <1>2, <1>3, <1>4, Division
<1> DEFINE d == u \div P
           k == K * q + d
<1> HIDE DEF z, d
<1>6. v = P * k + z
  <2>1. \A a, b, c, e \in Int : (a * b) * c + (a * e) = a * (b * c + e)
    OBVIOUS
  <2>2. v = (P * K) * q + (P * d + z) /\ d \in Int
    BY <1>2, <1>4, <1>5 DEF d
  <2>3. (P * K) * q + P * d = P * k
    BY <1>2, <1>4, <2>1, <2>2
  <2>4. (P * K) * q \in Int /\ P * d \in Int /\ P * k \in Int /\ z \in Int
    BY <1>2, <1>4, <1>5, <2>2
  <2> HIDE DEF k
  <2> QED BY <2>2, <2>3, <2>4
<1>7. k \in Int
  BY <1>2, <1>4, <1>5 DEF d
<1> HIDE DEF k
<1>8. v % P = z
  BY <1>2, <1>5, <1>6, <1>7, DivisionUnique
<1> QED BY <1>4, <1>8 DEF Wrap, Cut, P, H, u, z

\* The sign of a value is that of its low bits.
LEMMA SignOf ==
  ASSUME NEW w \in 1..2 * Host, NEW v \in Int
  PROVE  /\ Cut(v, w) \in 0..2^w - 1
         /\ Msb(v, w) = IF Cut(v, w) >= Top(w) THEN 1 ELSE 0
<1> DEFINE T == Top(w)
           z == v % (2 * T)
           q == v \div (2 * T)
<1>1. T \in Nat /\ T > 0 /\ 2^w = 2 * T
  BY Halves
<1> HIDE DEF T
<1>2. 2 * T \in Nat \ {0} /\ T \in Nat \ {0}
  BY <1>1
<1>3. q \in Int /\ z \in 0..(2 * T) - 1 /\ v = (2 * T) * q + z
  BY <1>2, Division
<1> HIDE DEF q, z
<1>4. CASE z >= T
  <2> DEFINE a == 2 * q + 1
             b == z - T
  <2>1. v = T * a + b /\ a \in Int /\ b \in 0..T - 1
    BY <1>1, <1>3, <1>4
  <2> HIDE DEF a, b
  <2>2. v \div T = a
    BY <1>2, <1>3, <2>1, DivisionUnique
  <2>3. (v \div T) % 2 = 1
    BY <1>3, <2>2 DEF a
  <2> QED BY <1>1, <1>3, <1>4, <2>3 DEF Msb, BitOf, Cut, T, Top, z
<1>5. CASE ~(z >= T)
  <2> DEFINE a == 2 * q
  <2>1. v = T * a + z /\ a \in Int /\ z \in 0..T - 1
    BY <1>1, <1>3, <1>5
  <2> HIDE DEF a
  <2>2. v \div T = a
    BY <1>2, <1>3, <2>1, DivisionUnique
  <2>3. (v \div T) % 2 = 0
    BY <1>3, <2>2 DEF a
  <2> QED BY <1>1, <1>3, <1>5, <2>3 DEF Msb, BitOf, Cut, T, Top, z
<1> QED BY <1>4, <1>5

\* The low bits of a number at most two moduli away.
LEMMA CutNear ==
  ASSUME NEW w \in 1..2 * Host, NEW v \in Int
  PROVE  /\ 0 <= v /\ v < 2^w => Cut(v, w) = v
         /\ 2^w <= v /\ v < 2 * 2^w => Cut(v, w) = v - 2^w
         /\ -(2^w) <= v /\ v < 0 => Cut(v, w) = v + 2^w
<1>1. 2^w \in Nat \ {0}
  BY PowersPositive, HostAssumption
<1>2. ASSUME NEW P \in Nat \ {0}
      PROVE  /\ 0 <= v /\ v < P => v % P = v
             /\ P <= v /\ v < 2 * P => v % P = v - P
             /\ -P <= v /\ v < 0 => v % P = v + P
  OBVIOUS
<1> QED BY <1>1, <1>2 DEF Cut

\* The bit above the operand.
LEMMA CarryBit ==
  ASSUME NEW w \in 1..Host, NEW v \in 0..(2 * 2^w) - 1
  PROVE  BitOf(v, w) = IF v >= 2^w THEN 1 ELSE 0
<1>1. 2^w \in Nat \ {0}
  BY PowersPositive, HostAssumption
<1>2. ASSUME NEW P \in Nat \ {0}, NEW u \in 0..(2 * P) - 1
      PROVE  (u \div P) % 2 = IF u >= P THEN 1 ELSE 0
  OBVIOUS
<1> QED BY <1>1, <1>2 DEF BitOf
-----------------------------------------------------------------------------
(***************************************************************************)
(* Sums and differences.                                                   *)
(***************************************************************************)
Nums(w) == 0..2^w - 1
Flags == [FlagNames -> {0, 1}]

\* The flags that follow the value.
ValueFlags(r, w) == /\ r.f.zf = Flag(r.val = 0)
                    /\ r.f.sf = Flag(r.val >= Top(w))

\* What updateFlags_OSZAPC leaves, for a value and three conditions.
LEMMA ResultIs ==
  ASSUME NEW w \in 2..Host, NEW v \in Int, NEW carry, NEW adjust, NEW overflow,
         NEW r, r = Result(v, w, carry, adjust, overflow)
  PROVE  /\ r.val = Cut(v, w) /\ r.val \in Nums(w) /\ r.f \in Flags /\ ValueFlags(r, w)
         /\ r.f.cf = Flag(carry) /\ r.f.af = Flag(adjust) /\ r.f.of = Flag(overflow)
<1>1. w \in 1..2 * Host
  BY HostAssumption
<1>2. Cut(v, w) \in 0..2^w - 1 /\ Msb(v, w) = IF Cut(v, w) >= Top(w) THEN 1 ELSE 0
  BY <1>1, SignOf
<1>3. \A b : Flag(b) \in {0, 1}
  BY DEF Flag
<1> DEFINE f == [cf |-> Flag(carry), af |-> Flag(adjust), zf |-> Flag(Cut(v, w) = 0),
                 sf |-> Msb(v, w), of |-> Flag(overflow)]
<1>4. r.val = Cut(v, w) /\ r.f = f
  BY DEF Result
<1>5. f \in Flags
  BY <1>2, <1>3 DEF Flags, FlagNames
<1>6. f.zf = Flag(Cut(v, w) = 0) /\ f.sf = Flag(Cut(v, w) >= Top(w))
  BY <1>2 DEF Flag
<1>7. f.cf = Flag(carry) /\ f.af = Flag(adjust) /\ f.of = Flag(overflow)
  OBVIOUS
<1> HIDE DEF f
<1> QED BY <1>2, <1>4, <1>5, <1>6, <1>7 DEF Nums, ValueFlags

\* What the proofs below need to know of a width.
LEMMA WidthIs ==
  ASSUME NEW w \in 2..Host
  PROVE  /\ w \in 1..Host /\ w \in 1..2 * Host /\ w - 1 \in 1..2 * Host
         /\ Top(w) \in Nat /\ Top(w) >= 2 /\ 2^w \in Nat /\ 2^w = 2 * Top(w)
         /\ 2^Host \in Nat /\ 2^w <= 2^Host /\ (w < Host => 2 * 2^w <= 2^Host)
         /\ Nums(w) \subseteq Int
<1>1. w \in 1..Host /\ w \in 1..2 * Host /\ w - 1 \in 1..2 * Host /\ Host \in 0..2 * Host
  BY HostAssumption
<1>2. Top(w) \in Nat /\ Top(w) > 0 /\ 2^w \in Nat /\ 2^w = 2 * Top(w)
  BY <1>1, Halves
<1>3. 2^(w - 1) = 2 * Top(w - 1) /\ Top(w - 1) \in Nat /\ Top(w - 1) > 0
  BY <1>1, Halves
<1>4. Top(w) >= 2
  BY <1>3 DEF Top
<1>5. 2^Host \in Nat
  BY <1>1, PowersPositive
<1>6. w < Host => 2 * 2^w <= 2^Host
  BY <1>1, WiderDoubles
<1>7. 2^w <= 2^Host
  <2>1. CASE w < Host
    BY <1>2, <1>5, <1>6, <2>1
  <2>2. CASE ~(w < Host)
    BY <1>1, <1>2, <2>2, HostAssumption
  <2> QED BY <2>1, <2>2
<1> QED BY <1>1, <1>2, <1>4, <1>5, <1>6, <1>7 DEF Nums

\* ALUOPAdd: the value and the carry are the sum, OF is the overflow.
LEMMA AddExact ==
  ASSUME NEW w \in 2..Host, NEW x \in Nums(w), NEW y \in Nums(w), NEW r, r = ALUOPAdd(x, y, w)
  PROVE  /\ r.val \in Nums(w) /\ r.f \in Flags /\ ValueFlags(r, w)
         /\ x + y = r.val + 2^w * r.f.cf
         /\ r.f.of = Flag(~InRange(Signed(x, w) + Signed(y, w), w))
         /\ r.f.af = Flag(Nibble(x) + Nibble(y) >= 16)
<1> DEFINE T == Top(w)
           H == 2^Host
           u == Wrap(x + y)
           z == Cut(u, w)
           carry == IF w = Host THEN u < x \/ u < y ELSE BitOf(u, w) = 1
           adjust == Nibble(x) + Nibble(y) >= 16
           overflow == Msb(x, w) = Msb(y, w) /\ Msb(x, w) # Msb(u, w)
<1>1. /\ w \in 1..Host /\ w \in 1..2 * Host
      /\ T \in Nat /\ T >= 2 /\ 2^w = 2 * T /\ H \in Nat /\ 2 * T <= H /\ (w < Host => 4 * T <= H)
  BY WidthIs
<1>2. x \in 0..(2 * T) - 1 /\ y \in 0..(2 * T) - 1 /\ x + y \in Int
  BY <1>1 DEF Nums
<1>3. u \in 0..H - 1 /\ z = Cut(x + y, w)
  BY <1>1, <1>2, CutWrap
<1>4. /\ x + y < 2 * T => z = x + y
      /\ 2 * T <= x + y => z = x + y - 2 * T
  BY <1>1, <1>2, <1>3, CutNear
<1>5. /\ Msb(x, w) = IF x >= T THEN 1 ELSE 0
      /\ Msb(y, w) = IF y >= T THEN 1 ELSE 0
      /\ Msb(u, w) = IF z >= T THEN 1 ELSE 0
  <2>1. Cut(x, w) = x /\ Cut(y, w) = y
    BY <1>1, <1>2, CutNear
  <2> QED BY <1>1, <1>2, <1>3, <2>1, SignOf
<1>6. carry = (x + y >= 2 * T)
  <2>1. CASE w = Host
    <3>1. H = 2 * T
      BY <1>1, <2>1
    <3>2. z = u
      BY <1>1, <1>3, <3>1, CutNear
    <3> QED BY <1>2, <1>4, <2>1, <3>2, <1>1
  <2>2. CASE w # Host
    <3>1. x + y < H
      BY <1>1, <1>2, <2>2, HostAssumption
    <3>2. u = x + y
      <4>1. Host \in 1..2 * Host
        BY HostAssumption
      <4> QED BY <1>2, <3>1, <4>1, CutNear DEF Wrap, Cut
    <3>3. BitOf(u, w) = IF u >= 2 * T THEN 1 ELSE 0
      BY <1>1, <1>2, <3>2, CarryBit
    <3> QED BY <1>2, <2>2, <3>2, <3>3, <1>1
  <2> QED BY <2>1, <2>2
<1>7. overflow = ~InRange(Signed(x, w) + Signed(y, w), w)
  <2> HIDE DEF u, z, T
  <2>1. Signed(x, w) = (IF x >= T THEN x - 2 * T ELSE x) /\ Signed(y, w) = (IF y >= T THEN y - 2 * T ELSE y)
    BY <1>1 DEF Signed, T
  <2> QED BY <1>1, <1>2, <1>4, <1>5, <2>1 DEF InRange, T
<1>8. r = Result(u, w, carry, adjust, overflow)
  BY DEF ALUOPAdd
<1> HIDE DEF u, carry, adjust, overflow
<1>9. /\ r.val = z /\ r.val \in Nums(w) /\ r.f \in Flags /\ ValueFlags(r, w)
      /\ r.f.cf = Flag(carry) /\ r.f.af = Flag(adjust) /\ r.f.of = Flag(overflow)
  BY <1>3, <1>8, ResultIs
<1> HIDE DEF z, T
<1>10. x + y = r.val + 2^w * r.f.cf
  <2>1. r.f.cf = IF x + y >= 2 * T THEN 1 ELSE 0
    BY <1>6, <1>9 DEF Flag
  <2>2. 2^w * r.f.cf = IF x + y >= 2 * T THEN 2 * T ELSE 0
    BY <1>1, <2>1
  <2> QED BY <1>1, <1>2, <1>4, <1>9, <2>2
<1> QED BY <1>7, <1>9, <1>10 DEF adjust

\* ALUOPAdd3: the same with a carry in.
LEMMA AdcExact ==
  ASSUME NEW w \in 2..Host, NEW x \in Nums(w), NEW y \in Nums(w), NEW c \in {0, 1},
         NEW r, r = ALUOPAdd3(x, y, c, w)
  PROVE  /\ r.val \in Nums(w) /\ r.f \in Flags /\ ValueFlags(r, w)
         /\ x + y + c = r.val + 2^w * r.f.cf
         /\ r.f.of = Flag(~InRange(Signed(x, w) + Signed(y, w) + c, w))
         /\ r.f.af = Flag(Nibble(x) + Nibble(y) + c >= 16)
<1> DEFINE T == Top(w)
           H == 2^Host
           u == Wrap(x + y + c)
           z == Cut(u, w)
           low == Cut(x, w - 1) + Cut(y, w - 1) + Cut(c, w - 1)
           carry == IF w = Host
                    THEN u < x \/ u < y \/ u < c \/ (x = Ones(w) /\ y = Ones(w) /\ c = 1)
                    ELSE BitOf(u, w) = 1
           adjust == Nibble(x) + Nibble(y) + c >= 16
           overflow == carry # (Msb(low, w) = 1)
<1>1. /\ w \in 1..Host /\ w \in 1..2 * Host /\ w - 1 \in 1..2 * Host
      /\ T \in Nat /\ T >= 2 /\ 2^w = 2 * T /\ H \in Nat /\ 2 * T <= H /\ (w < Host => 4 * T <= H)
  BY WidthIs
<1>2. x \in 0..(2 * T) - 1 /\ y \in 0..(2 * T) - 1 /\ c \in 0..1 /\ x + y + c \in Int
  BY <1>1 DEF Nums
<1>3. u \in 0..H - 1 /\ z = Cut(x + y + c, w)
  BY <1>1, <1>2, CutWrap
<1>4. /\ x + y + c < 2 * T => z = x + y + c
      /\ 2 * T <= x + y + c => z = x + y + c - 2 * T
  BY <1>1, <1>2, <1>3, CutNear
<1>5. Msb(low, w) = IF (IF x >= T THEN x - T ELSE x) + (IF y >= T THEN y - T ELSE y) + c >= T THEN 1 ELSE 0
  <2>1. /\ 2^(w - 1) = T
        /\ Cut(x, w - 1) = (IF x >= T THEN x - T ELSE x)
        /\ Cut(y, w - 1) = (IF y >= T THEN y - T ELSE y)
        /\ Cut(c, w - 1) = c
    <3>1. 2^(w - 1) = T
      BY DEF Top
    <3>2. \A v \in 0..(2 * T) - 1 : Cut(v, w - 1) = IF v >= T THEN v - T ELSE v
      <4> TAKE v \in 0..(2 * T) - 1
      <4>1. v \in Int /\ 0 <= v /\ v < 2 * T
        BY <1>1
      <4> HIDE DEF T
      <4> QED BY <1>1, <3>1, <4>1, CutNear
    <3>3. c \in 0..(2 * T) - 1 /\ c < T
      BY <1>1, <1>2
    <3> HIDE DEF T
    <3> QED BY <1>1, <1>2, <3>1, <3>2, <3>3
  <2>2. low \in 0..(2 * T) - 1
    <3> HIDE DEF T
    <3> QED BY <1>1, <1>2, <2>1
  <2>3. Cut(low, w) = low /\ low \in Int
    <3> HIDE DEF low, T
    <3> QED BY <1>1, <2>2, CutNear
  <2>4. Msb(low, w) = IF low >= T THEN 1 ELSE 0
    <3> HIDE DEF low
    <3> QED BY <1>1, <2>3, SignOf
  <2> QED BY <2>1, <2>4
<1>6. carry = (x + y + c >= 2 * T)
  <2>1. CASE w = Host
    <3>1. H = 2 * T
      BY <1>1, <2>1
    <3>2. z = u
      BY <1>1, <1>3, <3>1, CutNear
    <3>3. Ones(w) = 2 * T - 1
      BY <1>1 DEF Ones
    <3> HIDE DEF T, H, u, z
    <3> QED BY <1>2, <1>4, <2>1, <3>2, <3>3, <1>1
  <2>2. CASE w # Host
    <3>1. x + y + c < H
      BY <1>1, <1>2, <2>2, HostAssumption
    <3>2. u = x + y + c
      <4>1. Host \in 1..2 * Host
        BY HostAssumption
      <4> QED BY <1>2, <3>1, <4>1, CutNear DEF Wrap, Cut
    <3>3. BitOf(u, w) = IF u >= 2 * T THEN 1 ELSE 0
      BY <1>1, <1>2, <3>2, CarryBit
    <3> QED BY <1>2, <2>2, <3>2, <3>3, <1>1
  <2> QED BY <2>1, <2>2
<1>7. overflow = ~InRange(Signed(x, w) + Signed(y, w) + c, w)
  <2>1. Signed(x, w) = (IF x >= T THEN x - 2 * T ELSE x) /\ Signed(y, w) = (IF y >= T THEN y - 2 * T ELSE y)
    BY <1>1 DEF Signed, T
  <2> HIDE DEF u, z, T, carry, low
  <2>2. InRange(Signed(x, w) + Signed(y, w) + c, w)
          = (-T <= Signed(x, w) + Signed(y, w) + c /\ Signed(x, w) + Signed(y, w) + c < T)
    BY DEF InRange, T
  <2>3. (Msb(low, w) = 1)
          = ((IF x >= T THEN x - T ELSE x) + (IF y >= T THEN y - T ELSE y) + c >= T)
    BY <1>5
  <2> DEFINE sum == (IF x >= T THEN x - T ELSE x) + (IF y >= T THEN y - T ELSE y) + c
  <2>4. overflow = ((x + y + c >= 2 * T) # (sum >= T))
    BY <1>6, <2>3
  <2>5. sum = x + y + c - (IF x >= T THEN T ELSE 0) - (IF y >= T THEN T ELSE 0)
    BY <1>1, <1>2
  <2> HIDE DEF sum
  <2>6. InRange(Signed(x, w) + Signed(y, w) + c, w) = ((x + y + c >= 2 * T) = (sum >= T))
    BY <1>1, <1>2, <2>1, <2>2, <2>5
  <2> QED BY <2>4, <2>6
<1>8. r = Result(u, w, carry, adjust, overflow)
  BY DEF ALUOPAdd3
<1> HIDE DEF u, carry, adjust, overflow, low
<1>9. /\ r.val = z /\ r.val \in Nums(w) /\ r.f \in Flags /\ ValueFlags(r, w)
      /\ r.f.cf = Flag(carry) /\ r.f.af = Flag(adjust) /\ r.f.of = Flag(overflow)
  BY <1>3, <1>8, ResultIs
<1> HIDE DEF z, T
<1>10. x + y + c = r.val + 2^w * r.f.cf
  <2>1. r.f.cf = IF x + y + c >= 2 * T THEN 1 ELSE 0
    BY <1>6, <1>9 DEF Flag
  <2>2. 2^w * r.f.cf = IF x + y + c >= 2 * T THEN 2 * T ELSE 0
    BY <1>1, <2>1
  <2> QED BY <1>1, <1>2, <1>4, <1>9, <2>2
<1> QED BY <1>7, <1>9, <1>10 DEF adjust

\* A sum with a carry in.
Sum3(r, x, y, c, w) ==
  /\ r.val \in Nums(w) /\ r.f \in Flags
  /\ x + y + c = r.val + 2^w * r.f.cf
  /\ r.f.af = Flag(Nibble(x) + Nibble(y) + c >= 16)

\* The same in a form that applies at a width given by a numeral.
LEMMA AdcSum ==
  ASSUME NEW w \in 2..Host, NEW x \in Nums(w), NEW y \in Nums(w), NEW c \in {0, 1},
         NEW r, r = ALUOPAdd3(x, y, c, w)
  PROVE  Sum3(r, x, y, c, w)
BY AdcExact DEF Sum3

\* The low bits and the sign of -y.
LEMMA NegatedIs ==
  ASSUME NEW w \in 2..Host, NEW y \in Nums(w), NEW n, n = Wrap(-y)
  PROVE  /\ n \in Int
         /\ \A v \in Int : Cut(v + n, w) = Cut(v - y, w)
         /\ Msb(n, w) = IF y = 0 THEN 0 ELSE IF y <= Top(w) THEN 1 ELSE 0
<1>1. /\ w \in 1..Host /\ w \in 1..2 * Host
      /\ Top(w) \in Nat /\ Top(w) >= 2 /\ 2^w = 2 * Top(w) /\ 2^Host \in Nat
  BY WidthIs
<1>2. y \in 0..(2 * Top(w)) - 1 /\ -y \in Int
  BY <1>1 DEF Nums
<1>3. n \in Int /\ Cut(n, w) = Cut(-y, w)
  <2>1. n \in 0..2^Host - 1 /\ Cut(n, w) = Cut(-y, w)
    BY <1>1, <1>2, CutWrap
  <2> QED BY <1>1, <2>1
<1>4. Cut(-y, w) = IF y = 0 THEN 0 ELSE 2 * Top(w) - y
  <2>1. CASE y = 0
    BY <1>1, <1>2, <2>1, CutNear
  <2>2. CASE y # 0
    BY <1>1, <1>2, <2>2, CutNear
  <2> QED BY <2>1, <2>2
<1>5. Msb(n, w) = IF y = 0 THEN 0 ELSE IF y <= Top(w) THEN 1 ELSE 0
  BY <1>1, <1>2, <1>3, <1>4, SignOf
<1>6. ASSUME NEW v \in Int PROVE Cut(v + n, w) = Cut(v - y, w)
  <2> DEFINE P == 2 * Top(w)
             a == n \div P
             b == (-y) \div P
             z == n % P
             d == (v - y) \div P
             e == (v - y) % P
             k == d + a - b
  <2>1. P \in Nat \ {0}
    BY <1>1
  <2> HIDE DEF P
  <2>2. a \in Int /\ z \in 0..P - 1 /\ n = P * a + z
    BY <1>3, <2>1, Division
  <2>3. z = (-y) % P
    BY <1>1, <1>3 DEF Cut, P
  <2>4. b \in Int /\ -y = P * b + z
    BY <1>2, <2>1, <2>3, Division
  <2>5. d \in Int /\ e \in 0..P - 1 /\ v - y = P * d + e
    BY <1>2, <2>1, Division
  <2> HIDE DEF a, b, z, d, e
  <2>6. k \in Int /\ v + n = P * k + e
    <3>1. P * k = P * d + P * a - P * b
      BY <2>1, <2>2, <2>4, <2>5
    <3>2. v + n = (v - y) + (n - (-y))
      BY <1>2, <1>3
    <3>3. P * a \in Int /\ P * b \in Int /\ P * d \in Int /\ z \in Int /\ e \in Int
      BY <2>1, <2>2, <2>4, <2>5
    <3> QED BY <2>2, <2>4, <2>5, <3>1, <3>2, <3>3
  <2> DEFINE t == v + n
  <2>7. t = P * k + e
    BY <2>6
  <2> HIDE DEF k, t
  <2>8. t % P = e
    BY <2>1, <2>5, <2>6, <2>7, DivisionUnique
  <2> QED BY <1>1, <2>8 DEF Cut, P, e, t
<1> QED BY <1>3, <1>5, <1>6

\* ALUOPSub: CF is the borrow; OF is the overflow unless the least number is
\* subtracted, and then 0.
LEMMA SubExact ==
  ASSUME NEW w \in 2..Host, NEW x \in Nums(w), NEW y \in Nums(w), NEW r, r = ALUOPSub(x, y, w)
  PROVE  /\ r.val \in Nums(w) /\ r.f \in Flags /\ ValueFlags(r, w)
         /\ r.f.cf = Flag(x < y)
         /\ x - y = r.val - 2^w * r.f.cf
         /\ y # Top(w) => r.f.of = Flag(~InRange(Signed(x, w) - Signed(y, w), w))
<1> DEFINE T == Top(w)
           n == Wrap(-y)
           u == Wrap(x + n)
           z == Cut(u, w)
           adjust == Nibble(x) < Nibble(n)
           overflow == Msb(x, w) = Msb(n, w) /\ y # T /\ Msb(x, w) # Msb(u, w)
<1>1. /\ w \in 1..Host /\ w \in 1..2 * Host
      /\ T \in Nat /\ T >= 2 /\ 2^w = 2 * T /\ 2^Host \in Nat
  BY WidthIs
<1>2. x \in 0..(2 * T) - 1 /\ y \in 0..(2 * T) - 1 /\ x - y \in Int
  BY <1>1 DEF Nums
<1>3. /\ n \in Int /\ Cut(x + n, w) = Cut(x - y, w)
      /\ Msb(n, w) = IF y = 0 THEN 0 ELSE IF y <= T THEN 1 ELSE 0
  <2> HIDE DEF n
  <2>1. n = Wrap(-y)
    BY DEF n
  <2> QED BY <1>2, <2>1, NegatedIs
<1> HIDE DEF n
<1>4. u \in Int /\ z = Cut(x - y, w)
  <2>1. x + n \in Int
    BY <1>2, <1>3
  <2>2. u \in 0..2^Host - 1 /\ z = Cut(x + n, w)
    BY <1>1, <2>1, CutWrap
  <2> QED BY <1>1, <1>3, <2>2
<1>5. z = IF x < y THEN x - y + 2 * T ELSE x - y
  BY <1>1, <1>2, <1>4, CutNear
<1>6. Msb(x, w) = (IF x >= T THEN 1 ELSE 0) /\ Msb(u, w) = IF z >= T THEN 1 ELSE 0
  <2>1. Cut(x, w) = x
    BY <1>1, <1>2, CutNear
  <2> QED BY <1>1, <1>2, <1>4, <2>1, SignOf
<1>7. y # T => overflow = ~InRange(Signed(x, w) - Signed(y, w), w)
  <2>1. Signed(x, w) = (IF x >= T THEN x - 2 * T ELSE x) /\ Signed(y, w) = (IF y >= T THEN y - 2 * T ELSE y)
    BY <1>1 DEF Signed, T
  <2> HIDE DEF u, z, T
  <2> QED BY <1>1, <1>2, <1>3, <1>5, <1>6, <2>1 DEF InRange, T
<1>8. r = Result(u, w, x < y, adjust, overflow)
  BY DEF ALUOPSub, n
<1> HIDE DEF u, adjust, overflow
<1>9. /\ r.val = z /\ r.val \in Nums(w) /\ r.f \in Flags /\ ValueFlags(r, w)
      /\ r.f.cf = Flag(x < y) /\ r.f.of = Flag(overflow)
  BY <1>4, <1>8, ResultIs
<1> HIDE DEF z, T
<1>10. x - y = r.val - 2^w * r.f.cf
  <2>1. 2^w * r.f.cf = IF x < y THEN 2 * T ELSE 0
    BY <1>1, <1>9 DEF Flag
  <2> QED BY <1>1, <1>2, <1>5, <1>9, <2>1
<1> QED BY <1>7, <1>9, <1>10 DEF T

\* ALUOPSub3: the same with a borrow in.  CF is lost when the subtrahend plus the
\* borrow wraps around in the host's type.
Difference3(r, x, y, c, w) ==
  /\ r.val \in Nums(w) /\ r.f \in Flags /\ ValueFlags(r, w)
  /\ x - y - c = r.val - (IF x < y + c THEN 2^w ELSE 0)
  /\ ~(w = Host /\ c = 1 /\ y = Ones(w)) => r.f.cf = Flag(x < y + c)
  /\ ~(c = 0 /\ y = Top(w)) => r.f.of = Flag(~InRange(Signed(x, w) - Signed(y, w) - c, w))
  /\ r.f.af = Flag(Nibble(x) < Nibble(y) + c)

\* ALUOPSub3 is a difference with a borrow in, but for the two exceptions.
LEMMA SbbExact ==
  ASSUME NEW w \in 2..Host, NEW x \in Nums(w), NEW y \in Nums(w), NEW c \in {0, 1},
         NEW r, r = ALUOPSub3(x, y, c, w)
  PROVE  Difference3(r, x, y, c, w)
<1> DEFINE T == Top(w)
           H == 2^Host
           n == Wrap(-y)
           m == IF c = 1 THEN Wrap(Ones(Host) - y) ELSE n
           u == Wrap(x + n - c)
           z == Cut(u, w)
           borrow == x < Wrap(y + c)
           adjust == Nibble(x) < Nibble(y) + c
           overflow == Msb(x, w) = Msb(m, w) /\ Msb(x, w) # Msb(u, w)
<1>1. /\ w \in 1..Host /\ w \in 1..2 * Host /\ Host \in 1..2 * Host
      /\ T \in Nat /\ T >= 2 /\ 2^w = 2 * T /\ H \in Nat /\ 2 * T <= H /\ (w < Host => 4 * T <= H)
  BY WidthIs, HostAssumption
<1>2. /\ x \in 0..(2 * T) - 1 /\ y \in 0..(2 * T) - 1 /\ c \in 0..1
      /\ x - y \in Int /\ x - c \in Int
  BY <1>1 DEF Nums
<1>3. /\ n \in Int /\ \A v \in Int : Cut(v + n, w) = Cut(v - y, w)
      /\ Msb(n, w) = IF y = 0 THEN 0 ELSE IF y <= T THEN 1 ELSE 0
  <2> HIDE DEF n
  <2>1. n = Wrap(-y)
    BY DEF n
  <2> QED BY <1>2, <2>1, NegatedIs
<1> HIDE DEF n
<1>4. u \in Int /\ z = Cut(x - y - c, w)
  <2>1. (x - c) + n \in Int /\ (x - c) + n = x + n - c /\ (x - c) - y = x - y - c
    BY <1>2, <1>3
  <2>2. u \in 0..H - 1 /\ z = Cut((x - c) + n, w)
    BY <1>1, <2>1, CutWrap
  <2>3. Cut((x - c) + n, w) = Cut((x - c) - y, w)
    BY <1>2, <1>3
  <2> QED BY <1>1, <2>1, <2>2, <2>3
<1>5. z = IF x < y + c THEN x - y - c + 2 * T ELSE x - y - c
  <2>1. x - y - c \in Int /\ -(2 * T) <= x - y - c /\ x - y - c < 2 * T
    BY <1>1, <1>2
  <2> QED BY <1>1, <1>2, <1>4, <2>1, CutNear
<1>6. /\ Msb(x, w) = (IF x >= T THEN 1 ELSE 0) /\ Msb(y, w) = (IF y >= T THEN 1 ELSE 0)
      /\ Msb(u, w) = IF z >= T THEN 1 ELSE 0
  <2>1. Cut(x, w) = x /\ Cut(y, w) = y
    BY <1>1, <1>2, CutNear
  <2> QED BY <1>1, <1>2, <1>4, <2>1, SignOf
<1>7. c = 1 => Msb(m, w) = IF y >= T THEN 0 ELSE 1
  <2> HAVE c = 1
  <2> DEFINE o == Ones(Host) - y
  <2>1. Ones(Host) = H - 1 /\ o \in Int
    BY <1>1, <1>2 DEF Ones
  <2>2. Wrap(o) \in Int /\ Cut(Wrap(o), w) = Cut(o, w)
    <3> HIDE DEF o
    <3>1. Wrap(o) \in 0..H - 1 /\ Cut(Wrap(o), w) = Cut(o, w)
      BY <1>1, <2>1, CutWrap
    <3> QED BY <1>1, <3>1
  <2> DEFINE p == Wrap(-(y + 1))
  <2>3. Cut(o, w) = 2 * T - 1 - y
    <3>1. CASE w = Host
      <4>1. o = 2 * T - 1 - y
        BY <1>1, <2>1, <3>1
      <4> QED BY <1>1, <1>2, <4>1, CutNear
    <3>2. CASE w # Host
      <4>1. Wrap(-(y + 1)) = o
        <5>1. -(y + 1) \in Int /\ -H <= -(y + 1) /\ -(y + 1) < 0 /\ o = -(y + 1) + H
          BY <1>1, <1>2, <2>1
        <5> QED BY <1>1, <5>1, CutNear DEF Wrap, Cut
      <4>2. Cut(Wrap(-(y + 1)), w) = Cut(-(y + 1), w) /\ -(y + 1) \in Int
        BY <1>1, <1>2, CutWrap
      <4>3. -(2 * T) <= -(y + 1) /\ -(y + 1) < 0
        BY <1>1, <1>2
      <4>4. Cut(-(y + 1), w) = -(y + 1) + 2 * T
        BY <1>1, <4>2, <4>3, CutNear
      <4> QED BY <1>1, <1>2, <4>1, <4>2, <4>4
    <3> QED BY <3>1, <3>2
  <2>4. Msb(Wrap(o), w) = IF 2 * T - 1 - y >= T THEN 1 ELSE 0
    <3> HIDE DEF o, T
    <3> QED BY <1>1, <2>2, <2>3, SignOf DEF T
  <2> QED BY <1>1, <1>2, <2>4
<1>8. ~(c = 0 /\ y = T) => overflow = ~InRange(Signed(x, w) - Signed(y, w) - c, w)
  <2>1. Signed(x, w) = (IF x >= T THEN x - 2 * T ELSE x) /\ Signed(y, w) = (IF y >= T THEN y - 2 * T ELSE y)
    BY <1>1 DEF Signed, T
  <2>2. c = 0 => m = n
    BY <1>2
  <2> HIDE DEF m, u, z, T
  <2>3. CASE c = 0
    BY <1>1, <1>2, <1>3, <1>5, <1>6, <2>1, <2>2, <2>3 DEF InRange, T
  <2>4. CASE c = 1
    BY <1>1, <1>2, <1>5, <1>6, <1>7, <2>1, <2>4 DEF InRange, T
  <2> QED BY <2>3, <2>4
<1>9. ~(w = Host /\ c = 1 /\ y = Ones(w)) => borrow = (x < y + c)
  <2> HAVE ~(w = Host /\ c = 1 /\ y = Ones(w))
  <2>1. Ones(w) = 2 * T - 1 /\ H \in Nat /\ y + c \in Int
    BY <1>1, <1>2 DEF Ones
  <2>2. y + c < H
    <3>1. CASE w = Host
      BY <1>1, <1>2, <2>1, <3>1
    <3>2. CASE w # Host
      BY <1>1, <1>2, <3>2, HostAssumption
    <3> QED BY <3>1, <3>2
  <2>3. Wrap(y + c) = y + c
    BY <1>1, <1>2, <2>1, <2>2, CutNear DEF Wrap, Cut
  <2> QED BY <2>3
<1>10. r = Result(u, w, borrow, adjust, overflow)
  BY DEF ALUOPSub3, n
<1> HIDE DEF u, adjust, overflow, borrow
<1>11. /\ r.val = z /\ r.val \in Nums(w) /\ r.f \in Flags /\ ValueFlags(r, w)
       /\ r.f.cf = Flag(borrow) /\ r.f.of = Flag(overflow) /\ r.f.af = Flag(adjust)
  BY <1>4, <1>10, ResultIs
<1> HIDE DEF z
<1>12. x - y - c = r.val - (IF x < y + c THEN 2^w ELSE 0)
  BY <1>1, <1>2, <1>5, <1>11
<1> QED BY <1>8, <1>9, <1>11, <1>12 DEF T, adjust, Difference3

-----------------------------------------------------------------------------
(***************************************************************************)
(* CMP and the conditions.                                                 *)
(***************************************************************************)
HoldsIn(f, c) ==
  CASE c = "o" -> f.of = 1  [] c = "b" -> f.cf = 1
    [] c = "e" -> f.zf = 1  [] c = "be" -> f.cf = 1 \/ f.zf = 1
    [] c = "s" -> f.sf = 1  [] c = "l" -> f.sf # f.of
    [] c = "le" -> f.sf # f.of \/ f.zf = 1

\* After a comparison every condition says what it says of the operands; the
\* signed ones, unless the second operand is the least number.
LEMMA ConditionsExact ==
  ASSUME width \in 2..Host, NEW x \in Nums(width), NEW y \in Nums(width),
         NEW f, f = ALUOPSub(x, y, width).f,
         NEW c \in Conditions, ~(c \in SignedConditions /\ y = Top(width))
  PROVE  HoldsIn(f, c) = Truth(c, x, y)
<1> DEFINE w == width
           r == ALUOPSub(x, y, w)
           T == Top(w)
<1>1. /\ w \in 2..Host /\ w \in 1..2 * Host
      /\ T \in Nat /\ T >= 2 /\ 2^w = 2 * T /\ 2^Host \in Nat
  BY WidthIs
<1>2. x \in 0..(2 * T) - 1 /\ y \in 0..(2 * T) - 1 /\ x - y \in Int
  BY <1>1 DEF Nums
<1>3. /\ r.val \in Nums(w) /\ f = r.f /\ ValueFlags(r, w)
      /\ f.cf = Flag(x < y) /\ x - y = r.val - 2^w * f.cf
      /\ y # T => f.of = Flag(~InRange(Signed(x, w) - Signed(y, w), w))
  <2> HIDE DEF r
  <2>1. r = ALUOPSub(x, y, w)
    BY DEF r
  <2> QED BY <1>1, <2>1, SubExact
<1>4. r.val \in 0..(2 * T) - 1 /\ r.val = IF x < y THEN x - y + 2 * T ELSE x - y
  <2>1. r.val \in 0..(2 * T) - 1
    BY <1>1, <1>3 DEF Nums
  <2>2. 2^w * f.cf = IF x < y THEN 2 * T ELSE 0
    BY <1>1, <1>3 DEF Flag
  <2> HIDE DEF r
  <2> QED BY <1>1, <1>2, <1>3, <2>1, <2>2
<1>5. f.zf = Flag(r.val = 0) /\ f.sf = Flag(r.val >= T)
  BY <1>3 DEF ValueFlags
<1> HIDE DEF r, w
<1> DEFINE z == r.val
           d == Signed(x, w) - Signed(y, w)
<1>6. Signed(x, w) = (IF x >= T THEN x - 2 * T ELSE x) /\ Signed(y, w) = (IF y >= T THEN y - 2 * T ELSE y)
  BY <1>1 DEF Signed
<1>7. InRange(d, w) = (-T <= d /\ d < T)
  BY DEF InRange
<1> HIDE DEF T
<1>8. d = x - y - (IF x >= T THEN 2 * T ELSE 0) + (IF y >= T THEN 2 * T ELSE 0) /\ d \in Int
  BY <1>1, <1>2, <1>6
<1> HIDE DEF z, d
<1>9. CASE c \in {"b", "e", "be"}
  <2>1. (f.cf = 1) = (x < y)
    BY <1>3 DEF Flag
  <2>2. (f.zf = 1) = (x = y)
    BY <1>1, <1>2, <1>4, <1>5 DEF Flag, z
  <2>3. (x <= y) = (x < y \/ x = y)
    BY <1>1, <1>2
  <2>4. c = "b" \/ c = "e" \/ c = "be"
    BY <1>9
  <2> QED BY <2>1, <2>2, <2>3, <2>4 DEF HoldsIn, Truth
<1>10. CASE c = "s"
  <2>1. Cut(x - y, w) = z
    BY <1>1, <1>2, <1>4, CutNear DEF z
  <2>2. Msb((x - y) % 2^w, w) = IF z >= T THEN 1 ELSE 0
    <3>1. Msb(z, w) = IF Cut(z, w) >= T THEN 1 ELSE 0
      BY <1>1, <1>4, SignOf DEF z, T
    <3>2. Cut(z, w) = z
      BY <1>1, <1>4, CutNear DEF z
    <3> QED BY <2>1, <3>1, <3>2 DEF Cut
  <2> QED BY <1>5, <1>10, <2>2 DEF HoldsIn, Truth, Flag, z, w
<1>11. CASE c \in SignedConditions
  <2>1. y # T /\ f.of = Flag(~(-T <= d /\ d < T))
    BY <1>3, <1>7, <1>11 DEF d, T, w
  <2>2. (f.sf # f.of) = (d < 0)
    BY <1>1, <1>2, <1>4, <1>5, <1>8, <2>1 DEF Flag
  <2>3. (d = 0) = (f.zf = 1)
    BY <1>1, <1>2, <1>4, <1>5, <1>8 DEF Flag
  <2>4. (f.of = 1) = ~InRange(d, w)
    BY <2>1 DEF Flag, InRange, T
  <2>5. (d <= 0) = (d < 0 \/ d = 0)
    BY <1>8
  <2>6. c = "o" \/ c = "l" \/ c = "le"
    BY <1>11 DEF SignedConditions
  <2> QED BY <2>2, <2>3, <2>4, <2>5, <2>6 DEF HoldsIn, Truth, d, w
<1> QED BY <1>9, <1>10, <1>11 DEF Conditions, SignedConditions

-----------------------------------------------------------------------------
(***************************************************************************)
(* Steps and initial states.                                               *)
(***************************************************************************)

\* The instruction at ip decides which handler runs.
LEMMA Dispatch ==
  ASSUME Next
  PROVE  /\ trap = "none" /\ ip <= Len(code)
         /\ \/ I.op \in {"mov"} /\ exMov
            \/ I.op \in {"add", "adc", "sub", "sbb", "and", "or", "xor"} /\ exALU2OP
            \/ I.op \in {"cmp"} /\ exCMP
            \/ I.op \in {"test"} /\ exTEST
            \/ I.op \in {"inc", "dec"} /\ exINCDEC
            \/ I.op \in {"neg", "not"} /\ exNEGNOT
            \/ I.op \in {"mul", "imul"} /\ exMUL
            \/ I.op \in {"imul2"} /\ exIMUL2Op
            \/ I.op \in {"div", "idiv"} /\ exDIV
            \/ I.op \in {"cwd"} /\ exConvSiz
            \/ I.op \in {"daa"} /\ exDAA
            \/ I.op \in {"das"} /\ exDAS
            \/ I.op \in {"aas"} /\ exAAS
            \/ I.op \in {"aam"} /\ exAAM
            \/ I.op \in {"aad"} /\ exAAD
            \/ I.op \in {"shl", "shr", "sar", "rol", "ror", "rcl", "rcr"} /\ exShift
            \/ I.op \in {"shld", "shrd"} /\ exShiftDouble
            \/ I.op \in {"j", "jn"} /\ exCondJump
            \/ I.op \in {"set", "setn"} /\ exSETcc
            \/ I.op \in {"loop", "loope", "loopne"} /\ exLOOP
            \/ I.op \in {"jcxz"} /\ exJCXZ
<1>1. /\ exMov => Running({"mov"})
      /\ exALU2OP => Running({"add", "adc", "sub", "sbb", "and", "or", "xor"})
      /\ exCMP => Running({"cmp"})
      /\ exTEST => Running({"test"})
      /\ exINCDEC => Running({"inc", "dec"})
      /\ exNEGNOT => Running({"neg", "not"})
  BY DEF exMov, exALU2OP, exCMP, exTEST, exINCDEC, exNEGNOT
<1>2. /\ exMUL => Running({"mul", "imul"})
      /\ exIMUL2Op => Running({"imul2"})
      /\ exDIV => Running({"div", "idiv"})
      /\ exConvSiz => Running({"cwd"})
  BY DEF exMUL, exIMUL2Op, exDIV, exConvSiz
<1>3. /\ exDAA => Running({"daa"})
      /\ exDAS => Running({"das"})
      /\ exAAS => Running({"aas"})
      /\ exAAM => Running({"aam"})
      /\ exAAD => Running({"aad"})
  BY DEF exDAA, exDAS, exAAS, exAAM, exAAD
<1>4. exShift => Running({"shl", "shr", "sar", "rol", "ror", "rcl", "rcr"})
  BY Zenon DEF exShift
<1>5. exShiftDouble => Running({"shld", "shrd"})
  BY Zenon DEF exShiftDouble
<1>6. /\ exCondJump => Running({"j", "jn"})
      /\ exSETcc => Running({"set", "setn"})
      /\ exLOOP => Running({"loop", "loope", "loopne"})
      /\ exJCXZ => Running({"jcxz"})
  BY DEF exCondJump, exSETcc, exLOOP, exJCXZ
<1> QED BY <1>1, <1>2, <1>3, <1>4, <1>5, <1>6 DEF Next, Running

Decimal_names == {"decimal_sum", "decimal_difference", "unpacked_difference", "radix"}
Product_names == {"multiply_divide", "divide", "signed_divide", "extend_divide", "short_product"}
Shift_names == {"shl", "shr", "sar", "rotate"}
Loop_names == {"long_division", "repeated_sum", "shift_and_add", "count_to", "leading_one"}
Branchless_names == {"absolute", "minimum", "sign"}

\* A routine starts under its name.
LEMMA Names ==
  /\ \A w : InitSums(w) => name \in {"sum", "difference", "negate", "compare"}
  /\ InitDecimals => name \in Decimal_names
  /\ \A w : InitProducts(w) => name \in Product_names
  /\ \A w : InitShifts(w) => name \in Shift_names
  /\ \A w : InitLoops(w) => name \in Loop_names
  /\ \A w : InitBranchless(w) => name \in Branchless_names
<1>1. \A n, w, c, P, Q, C, D, S : Start(n, w, c, P, Q, C, D, S) => name = n
  BY Zenon DEF Start
<1>2. \A w : InitSums(w) => name \in {"sum", "difference", "negate", "compare"}
  BY <1>1 DEF InitSums
<1>3. InitDecimals => name \in Decimal_names
  BY <1>1 DEF InitDecimals, Decimal_names
<1>4. \A w : InitProducts(w) => name \in Product_names
  BY <1>1 DEF InitProducts, Product_names
<1>5. \A w : InitShifts(w) => name \in Shift_names
  BY <1>1 DEF InitShifts, Shift_names
<1>6. \A w : InitLoops(w) => name \in Loop_names
  BY <1>1 DEF InitLoops, Loop_names
<1>7. \A w : InitBranchless(w) => name \in Branchless_names
  BY <1>1 DEF InitBranchless, Branchless_names
<1> QED BY <1>2, <1>3, <1>4, <1>5, <1>6, <1>7

\* Where a routine starts.
LEMMA Started ==
  ASSUME NEW n, NEW w, NEW c, NEW X, NEW Y, NEW C, NEW D, NEW S, Start(n, w, c, X, Y, C, D, S)
  PROVE  /\ name = n /\ width = w /\ code = c
         /\ regs = start.regs /\ DOMAIN regs = Regs
         /\ regs["ax"] \in X /\ regs["bx"] \in Y /\ regs["cx"] \in C
         /\ regs["dx"] \in D /\ regs["si"] \in S
         /\ start.cf \in {0, 1} /\ flags = [f \in FlagNames |-> IF f = "cf" THEN start.cf ELSE 0]
<1>1. name = n /\ width = w /\ code = c
  BY Zenon DEF Start
<1>2. PICK x \in X, y \in Y, k \in C, d \in D, s \in S, cf \in {0, 1} :
        /\ regs = [r \in Regs |-> CASE r = "ax" -> x [] r = "bx" -> y [] r = "cx" -> k
                                    [] r = "dx" -> d [] r = "si" -> s]
        /\ flags = [f \in FlagNames |-> IF f = "cf" THEN cf ELSE 0]
        /\ start = [regs |-> regs, cf |-> cf]
  BY Zenon DEF Start
<1>3. /\ DOMAIN regs = Regs
      /\ regs["ax"] = x /\ regs["bx"] = y /\ regs["cx"] = k /\ regs["dx"] = d /\ regs["si"] = s
  BY <1>2 DEF Regs
<1>4. start.regs = regs /\ start.cf = cf
  BY <1>2
<1> QED BY <1>1, <1>2, <1>3, <1>4

\* Every operand is a number of the width.
LEMMA OperandsFit ==
  ASSUME NEW w \in Widths
  PROVE  /\ w \in 2..Host
         /\ Edges(w) \subseteq Nums(w) /\ Values(w) \subseteq Nums(w) /\ Quads(w) \subseteq Nums(w)
  BY RoutinesAssumption DEF Edges, Values, Quads, Nums, Ones

-----------------------------------------------------------------------------
(***************************************************************************)
(* The comparison.                                                         *)
(***************************************************************************)
\* What the comparison has done before each of its instructions.
CompareBy(c) ==
  LET f == ALUOPSub(Old["ax"], Old["bx"], width).f
      yes == HoldsIn(f, c)
  IN  /\ code = Compare(width, c)
      /\ regs["ax"] = Old["ax"] /\ regs["bx"] = Old["bx"]
      /\ ip > 1 => flags = f
      /\ ip > 2 => regs["cx"] = Flag(yes)
      /\ ip > 3 => regs["si"] = Flag(~yes)
      /\ ip = 5 => ~yes
      /\ regs["dx"] = IF ip = 6 THEN Flag(~yes) ELSE 0

CompareInv ==
  name = "compare" =>
    /\ width \in 2..Host /\ Old["ax"] \in Nums(width) /\ Old["bx"] \in Nums(width)
    /\ trap = "none" /\ ip \in 1..6 /\ DOMAIN regs = Regs
    /\ \E c \in Conditions : CompareBy(c)

\* Its program, one instruction at a time.
LEMMA CompareCode ==
  ASSUME NEW w, NEW c, NEW p, p = Compare(w, c)
  PROVE  /\ Len(p) = 5
         /\ p[1].op = "cmp" /\ p[1].d = "ax" /\ p[1].s = "bx" /\ p[1].w = w
         /\ p[2].op = "set" /\ p[2].d = "cx" /\ p[2].s = c
         /\ p[3].op = "setn" /\ p[3].d = "si" /\ p[3].s = c
         /\ p[4].op = "j" /\ p[4].s = c /\ p[4].n = 6
         /\ p[5].op = "mov" /\ p[5].d = "dx" /\ p[5].s = "imm" /\ p[5].n = 1
BY DEF Compare, AX, RR, RI, To

\* The invariant of the comparison holds at the start,
LEMMA CompareInit ==
  ASSUME Init
  PROVE  CompareInv
<1> SUFFICES ASSUME name = "compare" PROVE CompareInv
  BY DEF CompareInv
<1>1. PICK w \in Widths : InitSums(w)
  BY Names DEF Init, Decimal_names, Product_names, Shift_names, Loop_names, Branchless_names
<1>2. \A n, v, c, P, Q, C, D, S : Start(n, v, c, P, Q, C, D, S) => name = n
  BY Zenon DEF Start
<1>3. PICK c \in Conditions : Start("compare", w, Compare(w, c), Values(w), Values(w), Z, Z, Z)
  BY <1>1, <1>2 DEF InitSums
<1>4. /\ width = w /\ code = Compare(w, c) /\ regs = start.regs /\ DOMAIN regs = Regs
      /\ regs["ax"] \in Values(w) /\ regs["bx"] \in Values(w) /\ regs["dx"] \in Z
  BY <1>3, Started
<1>5. w \in 2..Host /\ Values(w) \subseteq Nums(w)
  BY OperandsFit
<1>6. ip = 1 /\ trap = "none"
  BY DEF Init
<1>7. CompareBy(c)
  BY <1>4, <1>6 DEF CompareBy, Old, Z
<1> QED BY <1>4, <1>5, <1>6, <1>7 DEF CompareInv, Old

\* and every instruction keeps it.
LEMMA CompareStep ==
  ASSUME CompareInv, Next, UNCHANGED <<name, width, start>>
  PROVE  CompareInv'
<1> SUFFICES ASSUME name = "compare" PROVE CompareInv'
  BY DEF CompareInv
<1>1. /\ width \in 2..Host /\ Old["ax"] \in Nums(width) /\ Old["bx"] \in Nums(width)
      /\ trap = "none" /\ ip \in 1..6 /\ DOMAIN regs = Regs
  BY DEF CompareInv
<1>2. PICK c \in Conditions : CompareBy(c)
  BY DEF CompareInv
<1> DEFINE f == ALUOPSub(Old["ax"], Old["bx"], width).f
           yes == HoldsIn(f, c)
<1>3. /\ code = Compare(width, c)
      /\ regs["ax"] = Old["ax"] /\ regs["bx"] = Old["bx"]
      /\ ip > 1 => flags = f
      /\ ip > 2 => regs["cx"] = Flag(yes)
      /\ ip > 3 => regs["si"] = Flag(~yes)
      /\ ip = 5 => ~yes
      /\ regs["dx"] = IF ip = 6 THEN Flag(~yes) ELSE 0
  BY <1>2 DEF CompareBy
<1>4. /\ Len(code) = 5
      /\ code[1].op = "cmp" /\ code[1].d = "ax" /\ code[1].s = "bx" /\ code[1].w = width
      /\ code[2].op = "set" /\ code[2].d = "cx" /\ code[2].s = c
      /\ code[3].op = "setn" /\ code[3].d = "si" /\ code[3].s = c
      /\ code[4].op = "j" /\ code[4].s = c /\ code[4].n = 6
      /\ code[5].op = "mov" /\ code[5].d = "dx" /\ code[5].s = "imm" /\ code[5].n = 1
  BY <1>3, CompareCode
<1>5. ip \in 1..5
  BY <1>1, <1>4, Dispatch
<1>6. name' = name /\ width' = width /\ Old' = Old
  BY DEF Old
<1> HIDE DEF f, yes
<1>7. SUFFICES /\ ip' \in 1..6 /\ trap' = trap /\ code' = code /\ DOMAIN regs' = Regs
               /\ regs'["ax"] = regs["ax"] /\ regs'["bx"] = regs["bx"]
               /\ ip' > 1 => flags' = f
               /\ ip' > 2 => regs'["cx"] = Flag(yes)
               /\ ip' > 3 => regs'["si"] = Flag(~yes)
               /\ ip' = 5 => ~yes
               /\ regs'["dx"] = IF ip' = 6 THEN Flag(~yes) ELSE 0
  <2>1. CompareBy(c)'
    BY <1>3, <1>6, <1>7 DEF CompareBy, f, yes
  <2> QED BY <1>1, <1>6, <1>7, <2>1 DEF CompareInv
<1>8. ip > 1 => yes \in BOOLEAN /\ Holds(c) = yes
  BY <1>3 DEF Holds, HoldsIn, yes, Conditions
<1>9. CASE ip = 1
  <2>1. exCMP
    BY <1>4, <1>9, Dispatch DEF I
  <2> QED BY <1>1, <1>3, <1>4, <1>9, <2>1 DEF exCMP, Advance, I, Dst, Src, f
<1>10. CASE ip = 2
  <2>1. exSETcc
    BY <1>4, <1>10, Dispatch DEF I
  <2>2. (Holds(I.s) = (I.op = "set")) = yes /\ I.d = "cx"
    BY <1>4, <1>8, <1>10 DEF I
  <2>3. regs' = [regs EXCEPT !["cx"] = Flag(yes)]
    BY <2>1, <2>2 DEF exSETcc
  <2> QED BY <1>1, <1>3, <1>10, <2>1, <2>3 DEF exSETcc, Advance, Regs
<1>11. CASE ip = 3
  <2>1. exSETcc
    BY <1>4, <1>11, Dispatch DEF I
  <2>2. (Holds(I.s) = (I.op = "set")) = ~yes /\ I.d = "si"
    BY <1>4, <1>8, <1>11 DEF I
  <2>3. regs' = [regs EXCEPT !["si"] = Flag(~yes)]
    BY <2>1, <2>2 DEF exSETcc
  <2> QED BY <1>1, <1>3, <1>11, <2>1, <2>3 DEF exSETcc, Advance, Regs
<1>12. CASE ip = 4
  <2>1. exCondJump
    BY <1>4, <1>12, Dispatch DEF I
  <2>2. ip' = IF yes THEN 6 ELSE 5
    <3>1. (Holds(I.s) = (I.op = "j")) = yes /\ I.n = 6
      BY <1>4, <1>8, <1>12 DEF I
    <3>2. ip' = IF yes THEN I.n ELSE ip + 1
      BY <2>1, <3>1 DEF exCondJump, Jump
    <3> QED BY <1>12, <3>1, <3>2
  <2> QED BY <1>1, <1>3, <1>12, <2>1, <2>2 DEF exCondJump, Jump, Flag
<1>13. CASE ip = 5
  <2>1. exMov
    BY <1>4, <1>13, Dispatch DEF I
  <2> QED BY <1>1, <1>3, <1>4, <1>13, <2>1 DEF exMov, Advance, I, Src, Flag, Regs
<1> QED BY <1>5, <1>9, <1>10, <1>11, <1>12, <1>13

\* After CMP, SETcc, SETNcc and Jcc decide as the integers are ordered, whatever
\* the width and the operands (ALUOPSub, exCMP, exSETcc, exCondJump).
THEOREM Comparisons == Spec => []CompareDecides
<1>1. Init => CompareInv
  BY CompareInit
<1>2. CompareInv /\ [Next /\ UNCHANGED <<name, width, start>>]_allvars => CompareInv'
  <2>1. CompareInv /\ UNCHANGED allvars => CompareInv'
    BY DEF CompareInv, CompareBy, Old, allvars, vars
  <2> QED BY <2>1, CompareStep
<1>3. CompareInv => CompareDecides
  <2> SUFFICES ASSUME CompareInv, Ended({"compare"}),
                      ~(code[2].s \in SignedConditions /\ Old["bx"] = Top(width))
               PROVE  Decided
    BY DEF CompareDecides
  <2>1. /\ width \in 2..Host /\ Old["ax"] \in Nums(width) /\ Old["bx"] \in Nums(width)
        /\ trap = "none" /\ ip \in 1..6 /\ name = "compare"
    BY DEF CompareInv, Ended
  <2>2. PICK c \in Conditions : CompareBy(c)
    BY <2>1 DEF CompareInv
  <2> DEFINE f == ALUOPSub(Old["ax"], Old["bx"], width).f
             yes == HoldsIn(f, c)
  <2>3. code = Compare(width, c)
    BY <2>2 DEF CompareBy
  <2>4. Len(code) = 5 /\ code[2].s = c
    BY <2>3, CompareCode
  <2>5. ip = 6
    BY <2>1, <2>4 DEF Ended, Finished
  <2>6. regs["cx"] = Flag(yes) /\ regs["si"] = Flag(~yes) /\ regs["dx"] = Flag(~yes)
    BY <2>2, <2>5 DEF CompareBy
  <2> HIDE DEF f
  <2>7. yes = Truth(c, Old["ax"], Old["bx"])
    BY <2>1, <2>4, ConditionsExact DEF f
  <2> HIDE DEF yes
  <2> QED BY <2>4, <2>6, <2>7 DEF Decided, Flag
<1> QED BY <1>1, <1>2, <1>3, PTL DEF Spec

-----------------------------------------------------------------------------
(***************************************************************************)
(* Sums and differences of double width.                                   *)
(***************************************************************************)

\* Two digits are ordered by the upper one.
LEMMA UpperDecides ==
  ASSUME NEW P \in Nat \ {0}, NEW u \in Int, NEW v \in Int, NEW l \in 0..P - 1
  PROVE  /\ (u * P + l < v * P) = (u < v)
         /\ (v * P <= u * P + l) = (v <= u)
<1>1. \A a, b \in Int : a <= b => a * P <= b * P
  OBVIOUS
<1>2. u * P \in Int /\ v * P \in Int /\ (v - 1) * P \in Int /\ (v - 1) * P = v * P - P
  OBVIOUS
<1>3. CASE u < v
  <2>1. u * P <= (v - 1) * P
    BY <1>1, <1>3
  <2> QED BY <1>2, <1>3, <2>1
<1>4. CASE ~(u < v)
  <2>1. v * P <= u * P
    BY <1>1, <1>4
  <2> QED BY <1>2, <1>4, <2>1
<1> QED BY <1>3, <1>4

\* Doubling a width squares the powers.
LEMMA DoubleWidth ==
  ASSUME NEW w \in 2..Host
  PROVE  /\ 2 * w \in 1..2 * Host /\ 2^(2 * w) = 2^w * 2^w /\ Top(2 * w) = Top(w) * 2^w
<1>1. w \in 0..2 * Host /\ w + w = 2 * w /\ 2 * w \in 1..2 * Host /\ w + w <= 2 * Host
      /\ w - 1 \in 0..2 * Host /\ (w - 1) + w = 2 * w - 1
  BY HostAssumption
<1>2. 2^(w + w) = 2^w * 2^w
  BY <1>1, PowersMultiply
<1>3. 2^((w - 1) + w) = 2^(w - 1) * 2^w
  <2>1. (w - 1) + w <= 2 * Host
    BY HostAssumption
  <2> QED BY <1>1, <2>1, PowersMultiply
<1> QED BY <1>1, <1>2, <1>3 DEF Top

\* The signed value of two digits is that of the upper one, and the lower.
LEMMA SignedDouble ==
  ASSUME NEW w \in 2..Host, NEW u \in Nums(w), NEW l \in Nums(w)
  PROVE  /\ Signed(u * 2^w + l, 2 * w) = Signed(u, w) * 2^w + l
         /\ Signed(u, w) \in Int
         /\ u * 2^w + l \in 0..2^w * 2^w - 1
<1> DEFINE P == 2^w
           T == Top(w)
<1>1. P \in Nat \ {0} /\ T \in Nat /\ P = 2 * T
  BY WidthIs
<1>2. 2^(2 * w) = P * P /\ Top(2 * w) = T * P
  BY DoubleWidth
<1>3. u \in 0..P - 1 /\ l \in 0..P - 1
  BY DEF Nums
<1> HIDE DEF P, T
<1>4. (T * P <= u * P + l) = (T <= u)
  BY <1>1, <1>3, UpperDecides
<1>5. u * P + l < P * P /\ 0 <= u * P + l
  <2>1. (u * P + l < P * P) = (u < P) /\ (0 * P <= u * P + l) = (0 <= u)
    BY <1>1, <1>3, UpperDecides
  <2> QED BY <1>1, <1>3, <2>1
<1>6. (u - P) * P = u * P - P * P /\ u * P \in Int /\ P * P \in Int /\ T * P \in Int
  BY <1>1, <1>3
<1>7. Signed(u, w) = IF u >= T THEN u - P ELSE u
  BY DEF Signed, T, P
<1>8. Signed(u * P + l, 2 * w) = IF u * P + l >= T * P THEN (u * P + l) - P * P ELSE u * P + l
  BY <1>2 DEF Signed
<1>9. Signed(u * P + l, 2 * w) = Signed(u, w) * P + l
  <2>1. CASE u >= T
    <3>1. u * P + l >= T * P /\ Signed(u, w) = u - P
      BY <1>1, <1>3, <1>4, <1>6, <1>7, <2>1
    <3> QED BY <1>3, <1>6, <1>8, <3>1
  <2>2. CASE ~(u >= T)
    <3>1. ~(u * P + l >= T * P) /\ Signed(u, w) = u
      BY <1>1, <1>3, <1>4, <1>6, <1>7, <2>2
    <3> QED BY <1>8, <3>1
  <2> QED BY <2>1, <2>2
<1>10. Signed(u, w) \in Int
  BY <1>1, <1>3, <1>7
<1> QED BY <1>3, <1>5, <1>6, <1>9, <1>10 DEF P

\* Two digits overflow when the upper one does.
LEMMA OverflowDouble ==
  ASSUME NEW w \in 2..Host, NEW u \in Int, NEW l \in Nums(w)
  PROVE  InRange(u * 2^w + l, 2 * w) = InRange(u, w)
<1> DEFINE P == 2^w
           T == Top(w)
<1>1. P \in Nat \ {0} /\ T \in Nat
  BY WidthIs
<1>2. Top(2 * w) = T * P /\ l \in 0..P - 1
  BY DoubleWidth DEF Nums
<1> HIDE DEF P, T
<1>3. -(T * P) = (-T) * P
  BY <1>1
<1>4. (u * P + l < T * P) = (u < T) /\ ((-T) * P <= u * P + l) = (-T <= u)
  <2>1. -T \in Int /\ T \in Int
    BY <1>1
  <2> QED BY <1>1, <1>2, <2>1, UpperDecides
<1> QED BY <1>2, <1>3, <1>4 DEF InRange, P, T

\* Multiplication distributes.
LEMMA Distribute ==
  ASSUME NEW P \in Int, NEW u \in Int, NEW v \in Int, NEW c \in {0, 1}
  PROVE  /\ (u + v + c) * P = u * P + v * P + (IF c = 1 THEN P ELSE 0)
         /\ (u - v - c) * P = u * P - v * P - (IF c = 1 THEN P ELSE 0)
         /\ (u + (IF c = 1 THEN P ELSE 0)) * P = u * P + (IF c = 1 THEN P * P ELSE 0)
         /\ (u - (IF c = 1 THEN P ELSE 0)) * P = u * P - (IF c = 1 THEN P * P ELSE 0)
         /\ u * P \in Int /\ v * P \in Int
<1>1. CASE c = 0
  BY <1>1
<1>2. CASE c = 1
  BY <1>2
<1> QED BY <1>1, <1>2

\* (d, a) and (s, b) are added, or subtracted, digit by digit: (h, l) is the result,
\* c and k are the carries.
Adds(w, d, a, s, b, h, l, c, k) ==
  /\ {a, b, d, s, l, h} \subseteq Nums(w) /\ c \in {0, 1} /\ k \in {0, 1}
  /\ a + b = l + (IF c = 1 THEN 2^w ELSE 0)
  /\ d + s + c = h + (IF k = 1 THEN 2^w ELSE 0)

Subtracts(w, d, a, s, b, h, l, c, k) ==
  /\ {a, b, d, s, l, h} \subseteq Nums(w) /\ c \in {0, 1} /\ k \in {0, 1}
  /\ a - b = l - (IF c = 1 THEN 2^w ELSE 0)
  /\ d - s - c = h - (IF k = 1 THEN 2^w ELSE 0)

\* The two sums of the digits are the sum.
LEMMA DigitsAdd ==
  ASSUME NEW w \in 2..Host, NEW P, P = 2^w,
         NEW a, NEW b, NEW d, NEW s, NEW l, NEW h, NEW c, NEW k,
         Adds(w, d, a, s, b, h, l, c, k)
  PROVE  /\ (d * P + a) + (s * P + b) = (h * P + l) + k * 2^(2 * w)
         /\ InRange(Signed(d * P + a, 2 * w) + Signed(s * P + b, 2 * w), 2 * w)
              = InRange(Signed(d, w) + Signed(s, w) + c, w)
<1>0. /\ a \in Nums(w) /\ b \in Nums(w) /\ d \in Nums(w) /\ s \in Nums(w)
      /\ l \in Nums(w) /\ h \in Nums(w) /\ c \in {0, 1} /\ k \in {0, 1}
      /\ a + b = l + (IF c = 1 THEN P ELSE 0)
      /\ d + s + c = h + (IF k = 1 THEN P ELSE 0)
  BY DEF Adds
<1>1. /\ P \in Nat \ {0} /\ 2^(2 * w) = P * P /\ Nums(w) \subseteq Int
      /\ d \in Int /\ s \in Int /\ h \in Int
  BY <1>0, WidthIs, DoubleWidth
<1> DEFINE cP == IF c = 1 THEN P ELSE 0
           kP == IF k = 1 THEN P ELSE 0
           kPP == IF k = 1 THEN P * P ELSE 0
<1>2. (d + s + c) * P = (h + kP) * P
  BY <1>0
<1>3. /\ (d + s + c) * P = d * P + s * P + cP
      /\ (h + kP) * P = h * P + kPP
      /\ d * P \in Int /\ s * P \in Int /\ cP \in Int /\ h * P \in Int /\ kPP \in Int
      /\ kPP = k * (P * P)
  BY <1>0, <1>1, Distribute
<1> HIDE DEF cP, kP, kPP
<1>4. (d * P + a) + (s * P + b) = (h * P + l) + k * 2^(2 * w)
  BY <1>0, <1>1, <1>2, <1>3 DEF cP
<1> DEFINE x == Signed(d, w)
           y == Signed(s, w)
<1>5. /\ Signed(d * P + a, 2 * w) = x * P + a /\ Signed(s * P + b, 2 * w) = y * P + b
      /\ x \in Int /\ y \in Int
  BY <1>0, SignedDouble
<1> HIDE DEF x, y
<1>6. (x * P + a) + (y * P + b) = (x + y + c) * P + l
  <2>1. (x + y + c) * P = x * P + y * P + cP /\ x * P \in Int /\ y * P \in Int
    BY <1>0, <1>1, <1>5, Distribute DEF cP
  <2> QED BY <1>0, <1>1, <1>3, <2>1 DEF cP
<1>7. InRange((x + y + c) * P + l, 2 * w) = InRange(x + y + c, w)
  <2>1. x + y + c \in Int
    BY <1>0, <1>5
  <2> QED BY <1>0, <2>1, OverflowDouble
<1> QED BY <1>4, <1>5, <1>6, <1>7 DEF x, y

\* The two differences of the digits are the difference.
LEMMA DigitsSubtract ==
  ASSUME NEW w \in 2..Host, NEW P, P = 2^w,
         NEW a, NEW b, NEW d, NEW s, NEW l, NEW h, NEW c, NEW k,
         Subtracts(w, d, a, s, b, h, l, c, k)
  PROVE  /\ h * P + l = ((d * P + a) - (s * P + b)) % 2^(2 * w)
         /\ (d * P + a < s * P + b) = (k = 1)
         /\ InRange(Signed(d * P + a, 2 * w) - Signed(s * P + b, 2 * w), 2 * w)
              = InRange(Signed(d, w) - Signed(s, w) - c, w)
<1>0. /\ a \in Nums(w) /\ b \in Nums(w) /\ d \in Nums(w) /\ s \in Nums(w)
      /\ l \in Nums(w) /\ h \in Nums(w) /\ c \in {0, 1} /\ k \in {0, 1}
      /\ a - b = l - (IF c = 1 THEN P ELSE 0)
      /\ d - s - c = h - (IF k = 1 THEN P ELSE 0)
  BY DEF Subtracts
<1>1. /\ P \in Nat \ {0} /\ 2^(2 * w) = P * P /\ Nums(w) \subseteq Int
      /\ d \in Int /\ s \in Int /\ h \in Int
  BY <1>0, WidthIs, DoubleWidth
<1> DEFINE cP == IF c = 1 THEN P ELSE 0
           kP == IF k = 1 THEN P ELSE 0
           Q == P * P
           kQ == IF k = 1 THEN Q ELSE 0
<1>2. (d - s - c) * P = (h - kP) * P
  BY <1>0
<1>3. /\ (d - s - c) * P = d * P - s * P - cP
      /\ (h - kP) * P = h * P - kQ
      /\ d * P \in Int /\ s * P \in Int /\ cP \in Int /\ h * P \in Int /\ kQ \in Int
      /\ Q \in Nat \ {0}
  BY <1>0, <1>1, Distribute
<1> HIDE DEF cP, kP, kQ
<1> DEFINE v == (d * P + a) - (s * P + b)
           m == h * P + l
           q == -k
<1>4. v = m - kQ /\ v \in Int
  BY <1>0, <1>1, <1>2, <1>3 DEF cP
<1>5. m \in 0..Q - 1
  BY <1>0, SignedDouble
<1>6. (v < 0) = (d * P + a < s * P + b)
  BY <1>0, <1>1, <1>3
<1> HIDE DEF v, m, Q
<1>7. v = Q * q + m /\ q \in Int
  <2>1. CASE k = 0
    BY <1>0, <1>3, <1>4, <1>5, <2>1 DEF kQ
  <2>2. CASE k = 1
    BY <1>0, <1>3, <1>4, <1>5, <2>2 DEF kQ
  <2> QED BY <1>0, <2>1, <2>2
<1>8. (v < 0) = (k = 1)
  BY <1>0, <1>3, <1>4, <1>5 DEF kQ
<1> HIDE DEF q
<1>9. v % Q = m
  BY <1>0, <1>3, <1>5, <1>7, DivisionUnique
<1> DEFINE x == Signed(d, w)
           y == Signed(s, w)
<1>11. /\ Signed(d * P + a, 2 * w) = x * P + a /\ Signed(s * P + b, 2 * w) = y * P + b
       /\ x \in Int /\ y \in Int
  BY <1>0, SignedDouble
<1> HIDE DEF x, y
<1>12. (x * P + a) - (y * P + b) = (x - y - c) * P + l
  <2>1. (x - y - c) * P = x * P - y * P - cP /\ x * P \in Int /\ y * P \in Int
    BY <1>0, <1>1, <1>11, Distribute DEF cP
  <2>2. a - b = l - cP /\ a \in Int /\ b \in Int /\ l \in Int
    BY <1>0, <1>1 DEF cP
  <2> QED BY <1>3, <2>1, <2>2
<1>13. InRange((x - y - c) * P + l, 2 * w) = InRange(x - y - c, w)
  <2>1. x - y - c \in Int
    BY <1>0, <1>11
  <2> QED BY <1>0, <2>1, OverflowDouble
<1> QED BY <1>0, <1>1, <1>6, <1>8, <1>9, <1>11, <1>12, <1>13 DEF x, y, v, m, Q

\* NEG, NEG and SBB negate two digits.
LEMMA DigitsNegate ==
  ASSUME NEW w \in 2..Host, NEW P, P = 2^w, NEW b \in Nums(w), NEW s \in Nums(w),
         NEW l \in Nums(w), NEW h \in Nums(w), NEW u \in Nums(w),
         0 - s = u - (IF 0 < s THEN P ELSE 0), 0 - b = l - (IF 0 < b THEN P ELSE 0),
         NEW c, c = (IF 0 < b THEN 1 ELSE 0), u - 0 - c = h - (IF u < 0 + c THEN P ELSE 0)
  PROVE  h * P + l = (-(s * P + b)) % 2^(2 * w)
<1>1. P \in Nat \ {0} /\ 0 \in Nums(w) /\ Nums(w) \subseteq Int /\ Nums(w) = 0..P - 1
  BY WidthIs DEF Nums
<1>2. \E k \in {0, 1} : 0 - s - c = h - (IF k = 1 THEN P ELSE 0)
  BY <1>1
<1>3. PICK k \in {0, 1} : 0 - s - c = h - (IF k = 1 THEN P ELSE 0)
  BY <1>2
<1>4. c \in {0, 1} /\ 0 - b = l - (IF c = 1 THEN P ELSE 0)
  OBVIOUS
<1> DEFINE o == 0
<1>5. /\ o \in Nums(w) /\ o - s - c = h - (IF k = 1 THEN P ELSE 0)
      /\ o - b = l - (IF c = 1 THEN P ELSE 0) /\ (o * P + o) - (s * P + b) = -(s * P + b)
  <2>1. s * P \in Int
    BY <1>1
  <2> QED BY <1>1, <1>3, <1>4, <2>1
<1> HIDE DEF o
<1>6. h * P + l = ((o * P + o) - (s * P + b)) % 2^(2 * w)
  <2>1. Subtracts(w, o, o, s, b, h, l, c, k)
    BY <1>4, <1>5 DEF Subtracts
  <2> QED BY <2>1, DigitsSubtract
<1> QED BY <1>5, <1>6

\* NOT, NOT, ADD and ADC negate two digits: (h, l) is made from (s, b).
Complements(w, s, b, h, l, c, k) ==
  /\ {b, s, l, h} \subseteq Nums(w) /\ c \in {0, 1} /\ k \in {0, 1}
  /\ (2^w - 1 - b) + 1 = l + (IF c = 1 THEN 2^w ELSE 0)
  /\ (2^w - 1 - s) + c = h + (IF k = 1 THEN 2^w ELSE 0)

\* The complements of two digits, plus 1 with its carry, are the negation.
LEMMA DigitsComplement ==
  ASSUME NEW w \in 2..Host, NEW P, P = 2^w, NEW b, NEW s, NEW l, NEW h, NEW c, NEW k,
         Complements(w, s, b, h, l, c, k)
  PROVE  h * P + l = (-(s * P + b)) % 2^(2 * w)
<1>1. P \in Nat \ {0} /\ 0 \in Nums(w) /\ Nums(w) \subseteq Int /\ Nums(w) = 0..P - 1
      /\ b \in Nums(w) /\ s \in Nums(w) /\ l \in Nums(w) /\ h \in Nums(w)
      /\ c \in {0, 1} /\ k \in {0, 1}
  BY WidthIs DEF Nums, Complements
<1> DEFINE e == 1 - c
           j == 1 - k
<1>2. /\ e \in {0, 1} /\ 0 - b = l - (IF e = 1 THEN P ELSE 0)
      /\ j \in {0, 1} /\ 0 - s - e = h - (IF j = 1 THEN P ELSE 0)
  BY <1>1 DEF Complements
<1> HIDE DEF e, j
<1> DEFINE o == 0
<1>3. /\ o \in Nums(w) /\ o - s - e = h - (IF j = 1 THEN P ELSE 0)
      /\ o - b = l - (IF e = 1 THEN P ELSE 0) /\ (o * P + o) - (s * P + b) = -(s * P + b)
  <2>1. s * P \in Int
    BY <1>1
  <2> QED BY <1>1, <1>2, <2>1
<1> HIDE DEF o
<1>4. h * P + l = ((o * P + o) - (s * P + b)) % 2^(2 * w)
  <2>1. Subtracts(w, o, o, s, b, h, l, e, j)
    BY <1>1, <1>2, <1>3 DEF Subtracts
  <2> QED BY <2>1, DigitsSubtract
<1> QED BY <1>3, <1>4

\* A two-operand instruction writes its result and its flags.
LEMMA AluStep ==
  ASSUME exALU2OP, NEW x, NEW y, NEW w, x = Dst, y = Src, w = I.w
  PROVE  /\ ip' = ip + 1 /\ code' = code /\ trap' = trap
         /\ I.op = "add" => LET r == ALUOPAdd(x, y, w)
                            IN  regs' = [regs EXCEPT ![I.d] = r.val] /\ flags' = r.f
         /\ I.op = "adc" => LET r == ALUOPAdd3(x, y, flags.cf, w)
                            IN  regs' = [regs EXCEPT ![I.d] = r.val] /\ flags' = r.f
         /\ I.op = "sub" => LET r == ALUOPSub(x, y, w)
                            IN  regs' = [regs EXCEPT ![I.d] = r.val] /\ flags' = r.f
         /\ I.op = "sbb" => LET r == ALUOPSub3(x, y, flags.cf, w)
                            IN  regs' = [regs EXCEPT ![I.d] = r.val] /\ flags' = r.f
<1>1. /\ ip' = ip + 1 /\ code' = code /\ trap' = trap
      /\ regs' = [regs EXCEPT ![I.d] = ALU2OP(I.op, x, y, w).val]
      /\ flags' = ALU2OP(I.op, x, y, w).f
  BY DEF exALU2OP, Write, Advance
<1>2. I.op = "add" => ALU2OP(I.op, x, y, w) = ALUOPAdd(x, y, w)
  BY DEF ALU2OP
<1>3. I.op = "adc" => ALU2OP(I.op, x, y, w) = ALUOPAdd3(x, y, flags.cf, w)
  BY DEF ALU2OP
<1>4. I.op = "sub" => ALU2OP(I.op, x, y, w) = ALUOPSub(x, y, w)
  BY DEF ALU2OP
<1>5. I.op = "sbb" => ALU2OP(I.op, x, y, w) = ALUOPSub3(x, y, flags.cf, w)
  BY DEF ALU2OP
<1> QED BY <1>1, <1>2, <1>3, <1>4, <1>5

\* INC and DEC of a number leave a number and keep CF.
LEMMA IncDecStep ==
  ASSUME exINCDEC, I.w \in 2..Host, Dst \in Nums(I.w), flags \in Flags
  PROVE  /\ ip' = ip + 1 /\ code' = code /\ trap' = trap
         /\ \E v \in Nums(I.w) : regs' = [regs EXCEPT ![I.d] = v]
         /\ flags' \in Flags /\ flags'.cf = flags.cf
<1> DEFINE w == I.w
           r == IF I.op = "inc" THEN ALUOPAdd(Dst, 1, w) ELSE ALUOPSub(Dst, 1, w)
<1>1. 1 \in Nums(w)
  BY WidthIs DEF Nums
<1>2. r.val \in Nums(w) /\ r.f \in Flags
  <2>1. CASE I.op = "inc"
    BY <1>1, <2>1, AddExact
  <2>2. CASE I.op # "inc"
    BY <1>1, <2>2, SubExact
  <2> QED BY <2>1, <2>2
<1> DEFINE q == [r EXCEPT !.f.cf = flags.cf]
<1>3. regs' = [regs EXCEPT ![I.d] = q.val] /\ flags' = q.f /\ ip' = ip + 1 /\ code' = code /\ trap' = trap
  BY DEF exINCDEC, Write, Advance
<1>4. q.val = r.val /\ q.f = [r.f EXCEPT !.cf = flags.cf]
  <2>1. r = [val |-> r.val, f |-> r.f]
    BY DEF ALUOPAdd, ALUOPSub, Result
  <2> HIDE DEF r
  <2> QED BY <2>1
<1> HIDE DEF q, r
<1> QED BY <1>2, <1>3, <1>4 DEF Flags, FlagNames

\* NEG is a difference from 0 whose borrow is CF; NOT leaves the flags alone.
LEMMA NegNotStep ==
  ASSUME exNEGNOT, NEW x, x = Dst, NEW w \in 2..Host, w = I.w, x \in Nums(w)
  PROVE  /\ ip' = ip + 1 /\ code' = code /\ trap' = trap
         /\ I.op = "neg" =>
              \E v \in Nums(w) : /\ regs' = [regs EXCEPT ![I.d] = v]
                                 /\ 0 - x = v - (IF 0 < x THEN 2^w ELSE 0)
                                 /\ flags'.cf = Flag(0 < x)
         /\ I.op = "not" => regs' = [regs EXCEPT ![I.d] = Ones(w) - x] /\ flags' = flags
<1> DEFINE r == ALUOPSub(0, x, w)
           q == [r EXCEPT !.f.cf = Flag(x # 0)]
<1>1. 0 \in Nums(w) /\ Nums(w) \subseteq Nat
  BY WidthIs DEF Nums
<1>2. r.val \in Nums(w) /\ r.f \in Flags /\ r.f.cf = Flag(0 < x) /\ 0 - x = r.val - 2^w * r.f.cf
  BY <1>1, SubExact
<1>3. q.val = r.val /\ q.f = [r.f EXCEPT !.cf = Flag(x # 0)]
  <2>1. r = [val |-> r.val, f |-> r.f]
    BY DEF ALUOPSub, Result
  <2> HIDE DEF r
  <2> QED BY <2>1
<1>4. 2^w * r.f.cf = IF 0 < x THEN 2^w ELSE 0
  <2>1. 2^w \in Nat
    BY WidthIs
  <2> QED BY <1>2, <2>1 DEF Flag
<1>5. q.f.cf = Flag(0 < x)
  <2>1. (x # 0) = (0 < x)
    BY <1>1
  <2>2. q.f.cf = Flag(x # 0)
    BY <1>2, <1>3 DEF Flags, FlagNames
  <2> QED BY <2>1, <2>2
<1>6. I.op = "neg" => regs' = [regs EXCEPT ![I.d] = q.val] /\ flags' = q.f
  BY DEF exNEGNOT, Write
<1>7. I.op = "not" => regs' = [regs EXCEPT ![I.d] = Ones(w) - x] /\ flags' = flags
  BY DEF exNEGNOT, Write
<1>8. ip' = ip + 1 /\ code' = code /\ trap' = trap
  BY DEF exNEGNOT, Advance
<1> HIDE DEF r, q
<1> QED BY <1>2, <1>3, <1>4, <1>5, <1>6, <1>7, <1>8

\* A state of a routine on numbers of its width.
Placed(n) ==
  /\ width \in 2..Host /\ \A r \in Regs : Old[r] \in Nums(width)
  /\ trap = "none" /\ ip \in 1..n /\ DOMAIN regs = Regs

\* What the sum has done before each of its instructions.
SumBy ==
  /\ code = WideSum(width)
  /\ regs["si"] = Old["si"]
  /\ ip = 1 => regs["ax"] = Old["ax"] /\ regs["bx"] = Old["bx"]
  /\ ip <= 3 => regs["dx"] = Old["dx"]
  /\ ip <= 2 => regs["cx"] = 0
  /\ ip \in {2, 3} => /\ flags \in Flags /\ regs["ax"] \in Nums(width)
                      /\ Old["ax"] + Old["bx"]
                           = regs["ax"] + (IF flags.cf = 1 THEN 2^width ELSE 0)
  /\ ip = 4 => /\ flags \in Flags
               /\ \E c \in {0, 1} :
                    /\ Adds(width, Old["dx"], Old["ax"], Old["si"], Old["bx"],
                            regs["dx"], regs["ax"], c, flags.cf)
                    /\ flags.of = Flag(~InRange(Signed(Old["dx"], width)
                                                  + Signed(Old["si"], width) + c, width))

SumInv == name = "sum" => Placed(4) /\ SumBy

\* The program of the sum.
LEMMA SumCode ==
  ASSUME NEW w, NEW p, p = WideSum(w)
  PROVE  /\ Len(p) = 3
         /\ p[1].op = "add" /\ p[1].d = "ax" /\ p[1].s = "bx" /\ p[1].w = w
         /\ p[2].op = "inc" /\ p[2].d = "cx" /\ p[2].w = w
         /\ p[3].op = "adc" /\ p[3].d = "dx" /\ p[3].s = "si" /\ p[3].w = w
BY DEF WideSum, AX, RR, RI

\* Every instruction of the sum keeps its invariant.
LEMMA SumStep ==
  ASSUME SumInv, Next, UNCHANGED <<name, width, start>>
  PROVE  SumInv'
<1> SUFFICES ASSUME name = "sum" PROVE SumInv'
  BY DEF SumInv
<1>1. Placed(4) /\ SumBy
  BY DEF SumInv
<1>2. /\ width \in 2..Host /\ trap = "none" /\ ip \in 1..4 /\ DOMAIN regs = Regs
      /\ Old["ax"] \in Nums(width) /\ Old["bx"] \in Nums(width)
      /\ Old["dx"] \in Nums(width) /\ Old["si"] \in Nums(width)
  BY <1>1 DEF Placed, Regs
<1>3. /\ Len(code) = 3
      /\ code[1].op = "add" /\ code[1].d = "ax" /\ code[1].s = "bx" /\ code[1].w = width
      /\ code[2].op = "inc" /\ code[2].d = "cx" /\ code[2].w = width
      /\ code[3].op = "adc" /\ code[3].d = "dx" /\ code[3].s = "si" /\ code[3].w = width
  BY <1>1, SumCode DEF SumBy
<1>4. ip \in 1..3
  BY <1>2, <1>3, Dispatch
<1>5. name' = name /\ width' = width /\ Old' = Old
  BY DEF Old
<1>6. 2^width \in Nat /\ Nums(width) \subseteq Int /\ 0 \in Nums(width)
  BY <1>2, WidthIs DEF Nums
<1>7. SUFFICES ip' \in 1..4 /\ trap' = trap /\ DOMAIN regs' = Regs /\ SumBy'
  BY <1>1, <1>2, <1>5, <1>7 DEF SumInv, Placed
<1>8. CASE ip = 1
  <2>1. exALU2OP /\ Dst = Old["ax"] /\ Src = Old["bx"] /\ I.w = width /\ I.op = "add" /\ I.d = "ax"
    BY <1>1, <1>3, <1>8, Dispatch DEF I, Dst, Src, SumBy
  <2> DEFINE r == ALUOPAdd(Old["ax"], Old["bx"], width)
  <2>2. /\ ip' = ip + 1 /\ code' = code /\ trap' = trap
        /\ regs' = [regs EXCEPT !["ax"] = r.val] /\ flags' = r.f
    BY <2>1, AluStep
  <2> HIDE DEF r
  <2>3. r.val \in Nums(width) /\ r.f \in Flags /\ Old["ax"] + Old["bx"] = r.val + 2^width * r.f.cf
    BY <1>2, AddExact DEF r
  <2>4. 2^width * r.f.cf = IF r.f.cf = 1 THEN 2^width ELSE 0
    BY <1>6, <2>3 DEF Flags, FlagNames
  <2> QED BY <1>1, <1>2, <1>5, <1>8, <2>2, <2>3, <2>4 DEF SumBy, Regs
<1>9. CASE ip = 2
  <2>1. exINCDEC /\ Dst \in Nums(width) /\ I.w = width /\ I.d = "cx" /\ flags \in Flags
    BY <1>1, <1>3, <1>6, <1>9, Dispatch DEF I, Dst, SumBy
  <2>2. /\ ip' = ip + 1 /\ code' = code /\ trap' = trap
        /\ \E v \in Nums(width) : regs' = [regs EXCEPT !["cx"] = v]
        /\ flags' \in Flags /\ flags'.cf = flags.cf
    BY <1>2, <2>1, IncDecStep
  <2> QED BY <1>1, <1>2, <1>5, <1>9, <2>2 DEF SumBy, Regs
<1>10. CASE ip = 3
  <2>1. exALU2OP /\ Dst = Old["dx"] /\ Src = Old["si"] /\ I.w = width /\ I.op = "adc" /\ I.d = "dx"
    BY <1>1, <1>3, <1>10, Dispatch DEF I, Dst, Src, SumBy
  <2>2. PICK c \in {0, 1} : c = flags.cf
    BY <1>1, <1>10 DEF SumBy, Flags, FlagNames
  <2> DEFINE r == ALUOPAdd3(Old["dx"], Old["si"], c, width)
  <2>3. /\ ip' = ip + 1 /\ code' = code /\ trap' = trap
        /\ regs' = [regs EXCEPT !["dx"] = r.val] /\ flags' = r.f
    BY <2>1, <2>2, AluStep
  <2> HIDE DEF r
  <2>4. /\ r.val \in Nums(width) /\ r.f \in Flags
        /\ Old["dx"] + Old["si"] + c = r.val + 2^width * r.f.cf
        /\ r.f.of = Flag(~InRange(Signed(Old["dx"], width) + Signed(Old["si"], width) + c, width))
    BY <1>2, AdcExact DEF r
  <2>5. r.f.cf \in {0, 1} /\ 2^width * r.f.cf = IF r.f.cf = 1 THEN 2^width ELSE 0
    BY <1>6, <2>4 DEF Flags, FlagNames
  <2>6. regs'["dx"] = r.val /\ regs'["ax"] = regs["ax"] /\ regs'["si"] = regs["si"] /\ DOMAIN regs' = Regs
    BY <1>2, <2>3 DEF Regs
  <2>7. Adds(width, Old["dx"], Old["ax"], Old["si"], Old["bx"], r.val, regs["ax"], c, r.f.cf)
    BY <1>1, <1>2, <1>10, <2>2, <2>4, <2>5 DEF Adds, SumBy
  <2>8. ip' = 4
    BY <1>10, <2>3
  <2> QED BY <1>1, <1>5, <2>3, <2>4, <2>6, <2>7, <2>8 DEF SumBy
<1> QED BY <1>4, <1>8, <1>9, <1>10

\* The sum is exact when it has ended.
LEMMA SumEnds ==
  ASSUME SumInv, Ended({"sum"})
  PROVE  /\ A + B = R + flags.cf * 2^(2 * width)
         /\ (flags.of = 1) = ~InRange(Signed(A, 2 * width) + Signed(B, 2 * width), 2 * width)
<1>1. Placed(4) /\ SumBy /\ name = "sum"
  BY DEF SumInv, Ended
<1>2. ip = 4
  <2>1. Len(code) = 3
    BY <1>1, SumCode DEF SumBy
  <2> QED BY <1>1, <2>1 DEF Ended, Finished, Placed
<1>3. PICK c \in {0, 1} :
        /\ Adds(width, Old["dx"], Old["ax"], Old["si"], Old["bx"], regs["dx"], regs["ax"], c, flags.cf)
        /\ flags.of = Flag(~InRange(Signed(Old["dx"], width) + Signed(Old["si"], width) + c, width))
  BY <1>1, <1>2 DEF SumBy
<1>4. width \in 2..Host
  BY <1>1 DEF Placed
<1>5. /\ A + B = R + flags.cf * 2^(2 * width)
      /\ InRange(Signed(A, 2 * width) + Signed(B, 2 * width), 2 * width)
           = InRange(Signed(Old["dx"], width) + Signed(Old["si"], width) + c, width)
  BY <1>3, <1>4, DigitsAdd DEF A, B, R, Two
<1> QED BY <1>3, <1>5 DEF Flag

\* What the difference has done before each of its instructions.
Borrowed == Old["ax"] < Old["bx"]

DifferenceBy ==
  /\ code = WideDifference(width)
  /\ regs["si"] = Old["si"]
  /\ ip = 1 => regs["ax"] = Old["ax"] /\ regs["bx"] = Old["bx"]
  /\ ip <= 3 => regs["dx"] = Old["dx"]
  /\ ip <= 2 => regs["cx"] = 0
  /\ ip \in {2, 3} => /\ flags \in Flags /\ regs["ax"] \in Nums(width)
                      /\ flags.cf = Flag(Borrowed)
                      /\ Old["ax"] - Old["bx"] = regs["ax"] - (IF Borrowed THEN 2^width ELSE 0)
  /\ ip = 4 =>
       \E c, k \in {0, 1} :
         /\ c = Flag(Borrowed)
         /\ Subtracts(width, Old["dx"], Old["ax"], Old["si"], Old["bx"], regs["dx"], regs["ax"], c, k)
         /\ ~(width = Host /\ c = 1 /\ Old["si"] = Ones(width)) => flags.cf = k
         /\ ~(c = 0 /\ Old["si"] = Top(width)) =>
              flags.of = Flag(~InRange(Signed(Old["dx"], width)
                                         - Signed(Old["si"], width) - c, width))

DifferenceInv == name = "difference" => Placed(4) /\ DifferenceBy

\* The program of the difference.
LEMMA DifferenceCode ==
  ASSUME NEW w, NEW p, p = WideDifference(w)
  PROVE  /\ Len(p) = 3
         /\ p[1].op = "sub" /\ p[1].d = "ax" /\ p[1].s = "bx" /\ p[1].w = w
         /\ p[2].op = "dec" /\ p[2].d = "cx" /\ p[2].w = w
         /\ p[3].op = "sbb" /\ p[3].d = "dx" /\ p[3].s = "si" /\ p[3].w = w
BY DEF WideDifference, AX, RR, RI

\* Every instruction of the difference keeps its invariant.
LEMMA DifferenceStep ==
  ASSUME DifferenceInv, Next, UNCHANGED <<name, width, start>>
  PROVE  DifferenceInv'
<1> SUFFICES ASSUME name = "difference" PROVE DifferenceInv'
  BY DEF DifferenceInv
<1>1. Placed(4) /\ DifferenceBy
  BY DEF DifferenceInv
<1>2. /\ width \in 2..Host /\ trap = "none" /\ ip \in 1..4 /\ DOMAIN regs = Regs
      /\ Old["ax"] \in Nums(width) /\ Old["bx"] \in Nums(width)
      /\ Old["dx"] \in Nums(width) /\ Old["si"] \in Nums(width)
  BY <1>1 DEF Placed, Regs
<1>3. /\ Len(code) = 3
      /\ code[1].op = "sub" /\ code[1].d = "ax" /\ code[1].s = "bx" /\ code[1].w = width
      /\ code[2].op = "dec" /\ code[2].d = "cx" /\ code[2].w = width
      /\ code[3].op = "sbb" /\ code[3].d = "dx" /\ code[3].s = "si" /\ code[3].w = width
  BY <1>1, DifferenceCode DEF DifferenceBy
<1>4. ip \in 1..3
  BY <1>2, <1>3, Dispatch
<1>5. name' = name /\ width' = width /\ Old' = Old /\ Borrowed' = Borrowed
  BY DEF Old, Borrowed
<1>6. 2^width \in Nat /\ Nums(width) \subseteq Int /\ 0 \in Nums(width)
  BY <1>2, WidthIs DEF Nums
<1>7. SUFFICES ip' \in 1..4 /\ trap' = trap /\ DOMAIN regs' = Regs /\ DifferenceBy'
  BY <1>1, <1>2, <1>5, <1>7 DEF DifferenceInv, Placed
<1>8. CASE ip = 1
  <2>1. exALU2OP /\ Dst = Old["ax"] /\ Src = Old["bx"] /\ I.w = width /\ I.op = "sub" /\ I.d = "ax"
    BY <1>1, <1>3, <1>8, Dispatch DEF I, Dst, Src, DifferenceBy
  <2> DEFINE r == ALUOPSub(Old["ax"], Old["bx"], width)
  <2>2. /\ ip' = ip + 1 /\ code' = code /\ trap' = trap
        /\ regs' = [regs EXCEPT !["ax"] = r.val] /\ flags' = r.f
    BY <2>1, AluStep
  <2> HIDE DEF r
  <2>3. /\ r.val \in Nums(width) /\ r.f \in Flags /\ r.f.cf = Flag(Borrowed)
        /\ Old["ax"] - Old["bx"] = r.val - 2^width * r.f.cf
    BY <1>2, SubExact DEF r, Borrowed
  <2>4. 2^width * r.f.cf = IF Borrowed THEN 2^width ELSE 0
    BY <1>6, <2>3 DEF Flag
  <2> QED BY <1>1, <1>2, <1>5, <1>8, <2>2, <2>3, <2>4 DEF DifferenceBy, Regs
<1>9. CASE ip = 2
  <2>1. exINCDEC /\ Dst \in Nums(width) /\ I.w = width /\ I.d = "cx" /\ flags \in Flags
    BY <1>1, <1>3, <1>6, <1>9, Dispatch DEF I, Dst, DifferenceBy
  <2>2. /\ ip' = ip + 1 /\ code' = code /\ trap' = trap
        /\ \E v \in Nums(width) : regs' = [regs EXCEPT !["cx"] = v]
        /\ flags' \in Flags /\ flags'.cf = flags.cf
    BY <1>2, <2>1, IncDecStep
  <2> QED BY <1>1, <1>2, <1>5, <1>9, <2>2 DEF DifferenceBy, Regs
<1>10. CASE ip = 3
  <2>1. exALU2OP /\ Dst = Old["dx"] /\ Src = Old["si"] /\ I.w = width /\ I.op = "sbb" /\ I.d = "dx"
    BY <1>1, <1>3, <1>10, Dispatch DEF I, Dst, Src, DifferenceBy
  <2>2. PICK c \in {0, 1} : c = flags.cf
    BY <1>1, <1>10 DEF DifferenceBy, Flags, FlagNames
  <2> DEFINE r == ALUOPSub3(Old["dx"], Old["si"], c, width)
             borrow == Old["dx"] < Old["si"] + c
             k == Flag(borrow)
  <2>3. /\ ip' = ip + 1 /\ code' = code /\ trap' = trap
        /\ regs' = [regs EXCEPT !["dx"] = r.val] /\ flags' = r.f
    BY <2>1, <2>2, AluStep
  <2> HIDE DEF r
  <2>4. /\ r.val \in Nums(width)
        /\ Old["dx"] - Old["si"] - c = r.val - (IF borrow THEN 2^width ELSE 0)
        /\ ~(width = Host /\ c = 1 /\ Old["si"] = Ones(width)) => r.f.cf = k
        /\ ~(c = 0 /\ Old["si"] = Top(width)) =>
             r.f.of = Flag(~InRange(Signed(Old["dx"], width) - Signed(Old["si"], width) - c, width))
    <3>1. Difference3(r, Old["dx"], Old["si"], c, width)
      BY <1>2, SbbExact DEF r
    <3> QED BY <3>1 DEF Difference3
  <2> HIDE DEF borrow
  <2>5. k \in {0, 1} /\ (k = 1) = borrow
    BY DEF Flag, borrow
  <2>6. c = Flag(Borrowed) /\ (c = 1) = Borrowed
    BY <1>1, <1>10, <2>2 DEF DifferenceBy, Flag, Borrowed
  <2>7. regs'["dx"] = r.val /\ regs'["ax"] = regs["ax"] /\ regs'["si"] = regs["si"] /\ DOMAIN regs' = Regs
    BY <1>2, <2>3 DEF Regs
  <2> HIDE DEF k
  <2>8. Subtracts(width, Old["dx"], Old["ax"], Old["si"], Old["bx"], r.val, regs["ax"], c, k)
    <3>1. /\ regs["ax"] \in Nums(width)
          /\ Old["ax"] - Old["bx"] = regs["ax"] - (IF Borrowed THEN 2^width ELSE 0)
      BY <1>1, <1>10 DEF DifferenceBy
    <3> QED BY <1>2, <2>4, <2>5, <2>6, <3>1 DEF Subtracts
  <2>9. ip' = 4
    BY <1>10, <2>3
  <2> QED BY <1>1, <1>5, <2>3, <2>4, <2>5, <2>6, <2>7, <2>8, <2>9 DEF DifferenceBy
<1> QED BY <1>4, <1>8, <1>9, <1>10

\* The difference is exact when it has ended, but for the two cases.
LEMMA DifferenceEnds ==
  ASSUME DifferenceInv
  PROVE  WideDifferenceExact
<1> SUFFICES ASSUME Ended({"difference"}) PROVE WideDifferenceExact
  BY Zenon DEF WideDifferenceExact
<1>1. Placed(4) /\ DifferenceBy /\ name = "difference"
  BY DEF DifferenceInv, Ended
<1>2. ip = 4
  <2>1. Len(code) = 3
    BY <1>1, DifferenceCode DEF DifferenceBy
  <2> QED BY <1>1, <2>1 DEF Ended, Finished, Placed
<1>3. PICK c \in {0, 1}, k \in {0, 1} :
        /\ c = Flag(Borrowed)
        /\ Subtracts(width, Old["dx"], Old["ax"], Old["si"], Old["bx"], regs["dx"], regs["ax"], c, k)
        /\ ~(width = Host /\ c = 1 /\ Old["si"] = Ones(width)) => flags.cf = k
        /\ ~(c = 0 /\ Old["si"] = Top(width)) =>
             flags.of = Flag(~InRange(Signed(Old["dx"], width) - Signed(Old["si"], width) - c, width))
  BY <1>1, <1>2 DEF DifferenceBy
<1>4. width \in 2..Host
  BY <1>1 DEF Placed
<1>5. /\ R = (A - B) % 2^(2 * width)
      /\ (A < B) = (k = 1)
      /\ InRange(Signed(A, 2 * width) - Signed(B, 2 * width), 2 * width)
           = InRange(Signed(Old["dx"], width) - Signed(Old["si"], width) - c, width)
  BY <1>3, <1>4, DigitsSubtract DEF A, B, R, Two
<1>6. (c = 1) = Borrowed /\ (c = 0) = ~Borrowed
  BY <1>3 DEF Flag, Borrowed
<1>7. k = Flag(A < B)
  BY <1>3, <1>5 DEF Flag
<1>8. (width = Host /\ Borrowed /\ Old["si"] = Ones(width)) \/ flags.cf = Flag(A < B)
  BY <1>3, <1>6, <1>7
<1>9. ~(~Borrowed /\ Old["si"] = Top(width)) =>
        (flags.of = 1) = ~InRange(Signed(A, 2 * width) - Signed(B, 2 * width), 2 * width)
  BY <1>3, <1>5, <1>6 DEF Flag
<1> QED BY <1>5, <1>8, <1>9 DEF WideDifferenceExact, Borrowed

\* What the two negations have done before each of their instructions.
NegateBy ==
  /\ code = WideNegate(width)
  /\ ip \in 1..4
  /\ ip = 1 => regs["dx"] = Old["dx"]
  /\ ip <= 2 => regs["ax"] = Old["ax"]
  /\ ip \in {2, 3} => /\ regs["dx"] \in Nums(width)
                      /\ 0 - Old["dx"] = regs["dx"] - (IF 0 < Old["dx"] THEN 2^width ELSE 0)
  /\ ip = 3 => /\ regs["ax"] \in Nums(width)
               /\ 0 - Old["ax"] = regs["ax"] - (IF 0 < Old["ax"] THEN 2^width ELSE 0)
               /\ flags.cf = Flag(0 < Old["ax"])
  /\ ip = 4 => R = (-A) % 2^(2 * width)

ComplementBy ==
  /\ code = WideComplement(width)
  /\ regs["dx"] = IF ip = 1 THEN Old["dx"] ELSE IF ip < 5 THEN Ones(width) - Old["dx"] ELSE regs["dx"]
  /\ ip <= 2 => regs["ax"] = Old["ax"]
  /\ ip = 3 => regs["ax"] = Ones(width) - Old["ax"]
  /\ ip = 4 => /\ regs["ax"] \in Nums(width) /\ flags.cf \in {0, 1}
               /\ (Ones(width) - Old["ax"]) + 1
                    = regs["ax"] + (IF flags.cf = 1 THEN 2^width ELSE 0)
  /\ ip = 5 => R = (-A) % 2^(2 * width)

NegateInv == name = "negate" => Placed(5) /\ (NegateBy \/ ComplementBy)

\* The programs of the negations.
LEMMA NegateCode ==
  ASSUME NEW w, NEW p, p = WideNegate(w)
  PROVE  /\ Len(p) = 3
         /\ p[1].op = "neg" /\ p[1].d = "dx" /\ p[1].w = w
         /\ p[2].op = "neg" /\ p[2].d = "ax" /\ p[2].w = w
         /\ p[3].op = "sbb" /\ p[3].d = "dx" /\ p[3].s = "imm" /\ p[3].n = 0 /\ p[3].w = w
BY DEF WideNegate, AX, RR, RI

\* The program of the complement.
LEMMA ComplementCode ==
  ASSUME NEW w, NEW p, p = WideComplement(w)
  PROVE  /\ Len(p) = 4
         /\ p[1].op = "not" /\ p[1].d = "dx" /\ p[1].w = w
         /\ p[2].op = "not" /\ p[2].d = "ax" /\ p[2].w = w
         /\ p[3].op = "add" /\ p[3].d = "ax" /\ p[3].s = "imm" /\ p[3].n = 1 /\ p[3].w = w
         /\ p[4].op = "adc" /\ p[4].d = "dx" /\ p[4].s = "imm" /\ p[4].n = 0 /\ p[4].w = w
BY DEF WideComplement, AX, RR, RI

\* Every instruction of NEG, NEG, SBB keeps what it has computed so far.
LEMMA NegateStep ==
  ASSUME name = "negate", Placed(5), NegateBy, Next, UNCHANGED <<name, width, start>>
  PROVE  Placed(5)' /\ NegateBy'
<1>2. /\ width \in 2..Host /\ trap = "none" /\ ip \in 1..4 /\ DOMAIN regs = Regs
      /\ Old["ax"] \in Nums(width) /\ Old["dx"] \in Nums(width)
  BY DEF Placed, Regs, NegateBy
<1>3. /\ Len(code) = 3
      /\ code[1].op = "neg" /\ code[1].d = "dx" /\ code[1].w = width
      /\ code[2].op = "neg" /\ code[2].d = "ax" /\ code[2].w = width
      /\ code[3].op = "sbb" /\ code[3].d = "dx" /\ code[3].s = "imm" /\ code[3].n = 0 /\ code[3].w = width
  BY NegateCode DEF NegateBy
<1>4. ip \in 1..3
  BY <1>2, <1>3, Dispatch
<1>5. name' = name /\ width' = width /\ Old' = Old /\ A' = A
  BY DEF Old, A, Two
<1>6. 2^width \in Nat /\ Nums(width) \subseteq Nat /\ 0 \in Nums(width)
  BY <1>2, WidthIs DEF Nums
<1>7. SUFFICES ip' \in 1..4 /\ trap' = trap /\ DOMAIN regs' = Regs /\ NegateBy'
  BY <1>2, <1>5, <1>7 DEF Placed
<1>8. CASE ip = 1
  <2>1. exNEGNOT /\ Dst = Old["dx"] /\ I.w = width /\ I.op = "neg" /\ I.d = "dx"
    BY <1>3, <1>8, Dispatch DEF I, Dst, NegateBy
  <2>2. /\ ip' = ip + 1 /\ code' = code /\ trap' = trap
        /\ \E v \in Nums(width) : /\ regs' = [regs EXCEPT !["dx"] = v]
                                  /\ 0 - Old["dx"] = v - (IF 0 < Old["dx"] THEN 2^width ELSE 0)
    BY <1>2, <2>1, NegNotStep
  <2> QED BY <1>2, <1>5, <1>8, <2>2 DEF NegateBy, Regs
<1>9. CASE ip = 2
  <2>1. exNEGNOT /\ Dst = Old["ax"] /\ I.w = width /\ I.op = "neg" /\ I.d = "ax"
    BY <1>3, <1>9, Dispatch DEF I, Dst, NegateBy
  <2>2. /\ ip' = ip + 1 /\ code' = code /\ trap' = trap
        /\ \E v \in Nums(width) : /\ regs' = [regs EXCEPT !["ax"] = v]
                                  /\ 0 - Old["ax"] = v - (IF 0 < Old["ax"] THEN 2^width ELSE 0)
                                  /\ flags'.cf = Flag(0 < Old["ax"])
    BY <1>2, <2>1, NegNotStep
  <2> QED BY <1>2, <1>5, <1>9, <2>2 DEF NegateBy, Regs
<1>10. CASE ip = 3
  <2> DEFINE u == regs["dx"]
             l == regs["ax"]
             c == flags.cf
             r == ALUOPSub3(u, 0, c, width)
  <2>1. exALU2OP /\ Dst = u /\ Src = 0 /\ I.w = width /\ I.op = "sbb" /\ I.d = "dx"
    BY <1>3, <1>10, Dispatch DEF I, Dst, Src
  <2>2. /\ ip' = ip + 1 /\ code' = code /\ trap' = trap
        /\ regs' = [regs EXCEPT !["dx"] = r.val]
    BY <2>1, AluStep
  <2>3. /\ u \in Nums(width) /\ 0 - Old["dx"] = u - (IF 0 < Old["dx"] THEN 2^width ELSE 0)
        /\ l \in Nums(width) /\ 0 - Old["ax"] = l - (IF 0 < Old["ax"] THEN 2^width ELSE 0)
        /\ c = IF 0 < Old["ax"] THEN 1 ELSE 0
    BY <1>10 DEF NegateBy, Flag
  <2> HIDE DEF r, u, l, c
  <2>4. r.val \in Nums(width) /\ u - 0 - c = r.val - (IF u < 0 + c THEN 2^width ELSE 0)
    <3>1. c \in {0, 1}
      BY <2>3
    <3>2. Difference3(r, u, 0, c, width)
      BY <1>2, <1>6, <2>3, <3>1, SbbExact DEF r
    <3> QED BY <3>2 DEF Difference3
  <2>5. r.val * 2^width + l = (-(Old["dx"] * 2^width + Old["ax"])) % 2^(2 * width)
    BY <1>2, <2>3, <2>4, DigitsNegate
  <2>6. regs'["dx"] = r.val /\ regs'["ax"] = l /\ DOMAIN regs' = Regs
    BY <1>2, <2>2 DEF Regs, l
  <2>7. R' = (-A) % 2^(2 * width)
    BY <1>5, <2>5, <2>6 DEF R, A, Two
  <2>8. ip' = 4
    BY <1>10, <2>2
  <2>9. code' = WideNegate(width)
    BY <2>2 DEF NegateBy
  <2> QED BY <1>5, <2>2, <2>6, <2>7, <2>8, <2>9 DEF NegateBy
<1> QED BY <1>4, <1>8, <1>9, <1>10

\* Every instruction of NOT, NOT, ADD, ADC keeps what it has computed so far.
LEMMA ComplementStep ==
  ASSUME name = "negate", Placed(5), ComplementBy, Next, UNCHANGED <<name, width, start>>
  PROVE  Placed(5)' /\ ComplementBy'
<1>2. /\ width \in 2..Host /\ trap = "none" /\ ip \in 1..5 /\ DOMAIN regs = Regs
      /\ Old["ax"] \in Nums(width) /\ Old["dx"] \in Nums(width)
  BY DEF Placed, Regs
<1>3. /\ Len(code) = 4
      /\ code[1].op = "not" /\ code[1].d = "dx" /\ code[1].w = width
      /\ code[2].op = "not" /\ code[2].d = "ax" /\ code[2].w = width
      /\ code[3].op = "add" /\ code[3].d = "ax" /\ code[3].s = "imm" /\ code[3].n = 1 /\ code[3].w = width
      /\ code[4].op = "adc" /\ code[4].d = "dx" /\ code[4].s = "imm" /\ code[4].n = 0 /\ code[4].w = width
  BY ComplementCode DEF ComplementBy
<1>4. ip \in 1..4
  BY <1>2, <1>3, Dispatch
<1>5. name' = name /\ width' = width /\ Old' = Old /\ A' = A
  BY DEF Old, A, Two
<1>6. /\ 2^width \in Nat /\ Nums(width) \subseteq Nat /\ 0 \in Nums(width) /\ 1 \in Nums(width)
      /\ Ones(width) = 2^width - 1 /\ \A v \in Nums(width) : Ones(width) - v \in Nums(width)
  BY <1>2, WidthIs DEF Nums, Ones
<1>7. SUFFICES ip' \in 1..5 /\ trap' = trap /\ DOMAIN regs' = Regs /\ ComplementBy'
  BY <1>2, <1>5, <1>7 DEF Placed
<1>8. CASE ip = 1
  <2>1. exNEGNOT /\ Dst = Old["dx"] /\ I.w = width /\ I.op = "not" /\ I.d = "dx"
    BY <1>3, <1>8, Dispatch DEF I, Dst, ComplementBy
  <2>2. /\ ip' = ip + 1 /\ code' = code /\ trap' = trap
        /\ regs' = [regs EXCEPT !["dx"] = Ones(width) - Old["dx"]]
    BY <1>2, <2>1, NegNotStep
  <2> QED BY <1>2, <1>5, <1>8, <2>2 DEF ComplementBy, Regs
<1>9. CASE ip = 2
  <2>1. exNEGNOT /\ Dst = Old["ax"] /\ I.w = width /\ I.op = "not" /\ I.d = "ax"
    BY <1>3, <1>9, Dispatch DEF I, Dst, ComplementBy
  <2>2. /\ ip' = ip + 1 /\ code' = code /\ trap' = trap
        /\ regs' = [regs EXCEPT !["ax"] = Ones(width) - Old["ax"]]
    BY <1>2, <2>1, NegNotStep
  <2> QED BY <1>2, <1>5, <1>9, <2>2 DEF ComplementBy, Regs
<1>10. CASE ip = 3
  <2> DEFINE x == Ones(width) - Old["ax"]
             r == ALUOPAdd(x, 1, width)
  <2>1. exALU2OP /\ Dst = x /\ Src = 1 /\ I.w = width /\ I.op = "add" /\ I.d = "ax"
    BY <1>3, <1>10, Dispatch DEF I, Dst, Src, ComplementBy
  <2> HIDE DEF x
  <2>2. /\ ip' = ip + 1 /\ code' = code /\ trap' = trap
        /\ regs' = [regs EXCEPT !["ax"] = r.val] /\ flags' = r.f
    BY <2>1, AluStep
  <2> HIDE DEF r
  <2>3. r.val \in Nums(width) /\ r.f \in Flags /\ x + 1 = r.val + 2^width * r.f.cf
    <3>1. x \in Nums(width)
      BY <1>2, <1>6 DEF x
    <3> QED BY <1>2, <1>6, <3>1, AddExact DEF r
  <2>4. r.f.cf \in {0, 1} /\ 2^width * r.f.cf = IF r.f.cf = 1 THEN 2^width ELSE 0
    BY <1>6, <2>3 DEF Flags, FlagNames
  <2> QED BY <1>2, <1>5, <1>10, <2>2, <2>3, <2>4 DEF ComplementBy, Regs, x
<1>11. CASE ip = 4
  <2> DEFINE u == Ones(width) - Old["dx"]
             l == regs["ax"]
  <2>1. exALU2OP /\ Dst = u /\ Src = 0 /\ I.w = width /\ I.op = "adc" /\ I.d = "dx"
    BY <1>3, <1>11, Dispatch DEF I, Dst, Src, ComplementBy
  <2>2. PICK c \in {0, 1} : c = flags.cf
    BY <1>11 DEF ComplementBy
  <2> DEFINE q == ALUOPAdd3(u, 0, c, width)
             k == q.f.cf
  <2>3. u \in Nums(width) /\ u = 2^width - 1 - Old["dx"]
    BY <1>2, <1>6
  <2> HIDE DEF u
  <2>4. /\ ip' = ip + 1 /\ code' = code /\ trap' = trap
        /\ regs' = [regs EXCEPT !["dx"] = q.val]
    BY <2>1, <2>2, AluStep
  <2> HIDE DEF q
  <2>5. q.val \in Nums(width) /\ q.f \in Flags /\ u + 0 + c = q.val + 2^width * k
    <3>1. u \in Nums(width) /\ 0 \in Nums(width) /\ width \in 2..Host
      BY <1>2, <1>6, <2>3
    <3> QED BY <3>1, AdcExact DEF q
  <2>6. k \in {0, 1} /\ 2^width * k = IF k = 1 THEN 2^width ELSE 0
    BY <1>6, <2>5 DEF Flags, FlagNames
  <2>7. l \in Nums(width) /\ (2^width - 1 - Old["ax"]) + 1 = l + (IF c = 1 THEN 2^width ELSE 0)
    BY <1>6, <1>11, <2>2 DEF ComplementBy
  <2> HIDE DEF l, k
  <2>8. (2^width - 1 - Old["dx"]) + c = q.val + (IF k = 1 THEN 2^width ELSE 0)
    BY <2>3, <2>5, <2>6
  <2>9. q.val * 2^width + l = (-(Old["dx"] * 2^width + Old["ax"])) % 2^(2 * width)
    <3>1. Complements(width, Old["dx"], Old["ax"], q.val, l, c, k)
      BY <1>2, <2>5, <2>6, <2>7, <2>8 DEF Complements
    <3> QED BY <1>2, <3>1, DigitsComplement
  <2>10. regs'["dx"] = q.val /\ regs'["ax"] = l /\ DOMAIN regs' = Regs
    BY <1>2, <2>4 DEF Regs, l
  <2>11. R' = (-A) % 2^(2 * width)
    BY <1>5, <2>9, <2>10 DEF R, A, Two
  <2>12. ip' = 5
    BY <1>11, <2>4
  <2>13. code' = WideComplement(width)
    BY <2>4 DEF ComplementBy
  <2> QED BY <1>5, <2>4, <2>10, <2>11, <2>12, <2>13 DEF ComplementBy
<1> QED BY <1>4, <1>8, <1>9, <1>10, <1>11

\* A number of double width is negated when the negation has ended.
LEMMA NegateEnds ==
  ASSUME NegateInv, Ended({"negate"})
  PROVE  R = (-A) % 2^(2 * width)
<1>1. Placed(5) /\ (NegateBy \/ ComplementBy)
  BY DEF NegateInv, Ended
<1>2. CASE NegateBy
  <2>1. Len(code) = 3
    BY <1>2, NegateCode DEF NegateBy
  <2>2. ip = 4
    BY <1>2, <2>1 DEF Ended, Finished, NegateBy
  <2> QED BY <1>2, <2>2 DEF NegateBy
<1>3. CASE ComplementBy
  <2>1. Len(code) = 4
    BY <1>3, ComplementCode DEF ComplementBy
  <2>2. ip = 5
    BY <1>1, <2>1 DEF Ended, Finished, Placed
  <2> QED BY <1>3, <2>2 DEF ComplementBy
<1> QED BY <1>1, <1>2, <1>3

-----------------------------------------------------------------------------
(***************************************************************************)
(* Decimal digits.                                                         *)
(***************************************************************************)
\* Bytes, and decimal numbers among them.
LEMMA Bytes ==
  /\ 8 \in 2..Host /\ 2^8 = 256 /\ Nums(8) = 0..255
  /\ Decimals \subseteq Nums(8)
<1>1. 8 \in 2..Host
  BY RoutinesAssumption, HostAssumption
<1>2. 2^8 = 256
  OBVIOUS
<1>3. Nums(8) = 0..255
  BY <1>2 DEF Nums
<1>4. Decimals \subseteq Nums(8)
  BY <1>3 DEF Decimals
<1> QED BY <1>1, <1>2, <1>3, <1>4

\* The digits of a decimal number, its value and its lower nibble.
LEMMA DigitsOf ==
  ASSUME NEW x \in Decimals
  PROVE  \E t, u \in 0..9 : x = 16 * t + u /\ Nibble(x) = u /\ Decimal(x) = 10 * t + u
<1>1. PICK t \in 0..9, u \in 0..9 : x = 16 * t + u
  BY DEF Decimals
<1>2. x \div 16 = t /\ x % 16 = u
  BY <1>1
<1> QED BY <1>1, <1>2 DEF Nibble, Decimal

\* A decimal number by its digits.
LEMMA DecimalIs ==
  ASSUME NEW m \in 0..9, NEW n \in 0..9
  PROVE  16 * m + n \in Decimals /\ Decimal(16 * m + n) = 10 * m + n
<1>1. (16 * m + n) \div 16 = m /\ (16 * m + n) % 16 = n
  OBVIOUS
<1> QED BY <1>1 DEF Decimals, Decimal

\* The digits of two decimal numbers and a carry in, a byte and its flags, and the
\* tests of DAA and DAS for the two corrections.
Corrects(t, u, p, q, c, v, cf, af, l, h) ==
  /\ {t, u, p, q} \subseteq 0..9 /\ {c, cf, af, l, h} \subseteq {0, 1} /\ v \in 0..255
  /\ (l = 1) = (v % 16 > 9 \/ af = 1)
  /\ (h = 1) = (v > 153 \/ cf = 1)

\* A byte sum of decimal numbers with its carry and AF, and what DAA makes of it.
AfterSum(t, u, p, q, c, v, cf, af, l, h, r) ==
  /\ (16 * t + u) + (16 * p + q) + c = v + 256 * cf /\ (af = 1) = (u + q + c >= 16)
  /\ Corrects(t, u, p, q, c, v, cf, af, l, h)
  /\ r = (v + 6 * l + 96 * h) % 256

SumDigits(t, u, p, q, c, h, r) ==
  \E m, n \in 0..9 :
     /\ r = 16 * m + n
     /\ (10 * t + u) + (10 * p + q) + c = (10 * m + n) + 100 * h

\* DAA after a sum: the digits of the decimal sum.
LEMMA DAAExact ==
  ASSUME NEW t, NEW u, NEW p, NEW q, NEW c, NEW v, NEW cf, NEW af, NEW l, NEW h, NEW r,
         AfterSum(t, u, p, q, c, v, cf, af, l, h, r)
  PROVE  SumDigits(t, u, p, q, c, h, r)
<1> DEFINE low == l = 1
           high == h = 1
<1>a. /\ (16 * t + u) + (16 * p + q) + c = v + 256 * cf /\ (af = 1) = (u + q + c >= 16)
      /\ r = (v + 6 * l + 96 * h) % 256
      /\ Corrects(t, u, p, q, c, v, cf, af, l, h)
  BY DEF AfterSum
<1>b. /\ t \in 0..9 /\ u \in 0..9 /\ p \in 0..9 /\ q \in 0..9 /\ v \in 0..255
      /\ c \in {0, 1} /\ cf \in {0, 1} /\ af \in {0, 1} /\ l \in {0, 1} /\ h \in {0, 1}
      /\ low = (v % 16 > 9 \/ af = 1) /\ high = (v > 153 \/ cf = 1)
  BY <1>a DEF Corrects
<1>0. r = (v + (IF low THEN 6 ELSE 0) + (IF high THEN 96 ELSE 0)) % 256
  <2>1. 6 * l = (IF low THEN 6 ELSE 0) /\ 96 * h = (IF high THEN 96 ELSE 0)
    BY <1>b
  <2> QED BY <1>a, <2>1
<1> DEFINE d == u + q + c
           carry == IF d >= 10 THEN 1 ELSE 0
           e == t + p + carry
           n == IF d >= 10 THEN d - 10 ELSE d
           m == IF e >= 10 THEN e - 10 ELSE e
<1>1. low = (d >= 10)
  <2>1. CASE d >= 16
    BY <1>a, <1>b, <2>1
  <2>2. CASE d < 16
    <3>1. v % 16 = d
      BY <1>a, <1>b, <2>2
    <3> QED BY <1>a, <1>b, <2>2, <3>1
  <2> QED BY <1>a, <1>b, <2>1, <2>2
<1>2. high = (e >= 10)
  BY <1>a, <1>b, <1>1
<1>3. m \in 0..9 /\ n \in 0..9
  BY <1>a, <1>b
<1>4. r = 16 * m + n
  <2>1. (IF low THEN 6 ELSE 0) = 6 * carry /\ n = d - 10 * carry /\ e = t + p + carry
    <3>1. n = d - 10 * carry /\ e = t + p + carry
      BY <1>a, <1>b
    <3>2. (IF low THEN 6 ELSE 0) = 6 * carry
      <4>1. CASE low
        <5>1. carry = 1
          BY <1>a, <1>b, <1>1, <4>1
        <5> QED BY <1>a, <1>b, <4>1, <5>1
      <4>2. CASE ~low
        <5>1. carry = 0
          BY <1>a, <1>b, <1>1, <4>2
        <5> QED BY <1>a, <1>b, <4>2, <5>1
      <4> QED BY <1>a, <1>b, <4>1, <4>2
    <3> QED BY <1>a, <1>b, <3>1, <3>2
  <2>2. v + 6 * carry = 16 * e + n - 256 * cf
    <3>1. carry \in Int
      BY <1>a, <1>b
    <3> HIDE DEF low, high, carry, n, e, m
    <3> QED BY <1>a, <1>b, <2>1, <3>1
  <2>3. CASE e >= 10
    <3>1. (IF high THEN 96 ELSE 0) = 96 /\ m = e - 10
      BY <1>a, <1>b, <1>2, <2>3
    <3>2. r = (16 * m + n + 256 * (1 - cf)) % 256
      <4>1. v + 6 * carry + 96 = 16 * m + n + 256 * (1 - cf)
        BY <1>a, <1>b, <2>2, <3>1
      <4> QED BY <1>a, <1>b, <2>1, <3>1, <4>1
    <3> HIDE DEF m, n, e, d, carry
    <3> QED BY <1>b, <1>3, <3>2
  <2>4. CASE ~(e >= 10)
    <3>1. (IF high THEN 96 ELSE 0) = 0 /\ m = e
      BY <1>a, <1>b, <1>2, <2>4
    <3>2. r = (16 * m + n - 256 * cf) % 256
      BY <1>a, <1>b, <2>1, <2>2, <3>1
    <3> HIDE DEF m, n, e, d, carry
    <3> QED BY <1>b, <1>3, <3>2
  <2> QED BY <1>a, <1>b, <2>3, <2>4
<1>5. (10 * t + u) + (10 * p + q) + c = (10 * m + n) + 100 * (IF high THEN 1 ELSE 0)
  <2>1. (IF high THEN 1 ELSE 0) = IF e >= 10 THEN 1 ELSE 0
    BY <1>a, <1>b, <1>2
  <2>2. (10 * t + u) + (10 * p + q) + c = (10 * m + n) + 100 * (IF e >= 10 THEN 1 ELSE 0)
    BY <1>a, <1>b
  <2> QED BY <1>a, <1>b, <2>1, <2>2
<1>6. (IF high THEN 1 ELSE 0) = h
  BY <1>a, <1>b
<1> HIDE DEF low, high, d, carry, e, n, m
<1>7. \E x, y \in 0..9 : r = 16 * x + y /\ (10 * t + u) + (10 * p + q) + c = (10 * x + y) + 100 * h
  BY <1>3, <1>4, <1>5, <1>6
<1> QED BY <1>7 DEF SumDigits

\* A byte difference of decimal numbers, and what DAS makes of it.
AfterDifference(t, u, p, q, c, v, cf, af, l, h, r) ==
  /\ (16 * t + u) - (16 * p + q) - c = v - 256 * cf /\ (af = 1) = (u < q + c)
  /\ Corrects(t, u, p, q, c, v, cf, af, l, h)
  /\ r = (v - 6 * l - 96 * h) % 256

DifferenceDigits(t, u, p, q, c, cf, r) ==
  \E m, n \in 0..9 :
     /\ r = 16 * m + n
     /\ (10 * t + u) - (10 * p + q) - c = (10 * m + n) - 100 * cf

\* DAS after a difference: the digits of the decimal difference, and no borrow
\* from the first correction alone.
LEMMA DASExact ==
  ASSUME NEW t, NEW u, NEW p, NEW q, NEW c, NEW v, NEW cf, NEW af, NEW l, NEW h, NEW r,
         AfterDifference(t, u, p, q, c, v, cf, af, l, h, r)
  PROVE  DifferenceDigits(t, u, p, q, c, Flag(h = 1 \/ (l = 1 /\ v < 6)), r)
<1> DEFINE low == l = 1
           high == h = 1
<1>a. /\ (16 * t + u) - (16 * p + q) - c = v - 256 * cf /\ (af = 1) = (u < q + c)
      /\ r = (v - 6 * l - 96 * h) % 256
      /\ Corrects(t, u, p, q, c, v, cf, af, l, h)
  BY DEF AfterDifference
<1>b. /\ t \in 0..9 /\ u \in 0..9 /\ p \in 0..9 /\ q \in 0..9 /\ v \in 0..255
      /\ c \in {0, 1} /\ cf \in {0, 1} /\ af \in {0, 1} /\ l \in {0, 1} /\ h \in {0, 1}
      /\ low = (v % 16 > 9 \/ af = 1) /\ high = (v > 153 \/ cf = 1)
  BY <1>a DEF Corrects
<1>0. r = (v - (IF low THEN 6 ELSE 0) - (IF high THEN 96 ELSE 0)) % 256
  <2>1. 6 * l = (IF low THEN 6 ELSE 0) /\ 96 * h = (IF high THEN 96 ELSE 0)
    BY <1>b
  <2> QED BY <1>a, <2>1
<1> DEFINE d == u - q - c
           carry == IF d < 0 THEN 1 ELSE 0
           e == t - p - carry
           n == IF d < 0 THEN d + 10 ELSE d
           m == IF e < 0 THEN e + 10 ELSE e
<1>1. low = (d < 0)
  <2>1. CASE d < 0
    BY <1>a, <1>b, <2>1
  <2>2. CASE ~(d < 0)
    <3>1. v % 16 = d
      BY <1>a, <1>b, <2>2
    <3> QED BY <1>a, <1>b, <2>2, <3>1
  <2> QED BY <1>a, <1>b, <2>1, <2>2
<1>2. high = (e < 0)
  BY <1>a, <1>b, <1>1
<1>3. m \in 0..9 /\ n \in 0..9
  BY <1>a, <1>b
<1>4. r = 16 * m + n
  <2>1. (IF low THEN 6 ELSE 0) = 6 * carry /\ n = d + 10 * carry /\ e = t - p - carry
    <3>1. n = d + 10 * carry /\ e = t - p - carry
      BY <1>a, <1>b
    <3>2. (IF low THEN 6 ELSE 0) = 6 * carry
      <4>1. CASE low
        <5>1. carry = 1
          BY <1>a, <1>b, <1>1, <4>1
        <5> QED BY <1>a, <1>b, <4>1, <5>1
      <4>2. CASE ~low
        <5>1. carry = 0
          BY <1>a, <1>b, <1>1, <4>2
        <5> QED BY <1>a, <1>b, <4>2, <5>1
      <4> QED BY <1>a, <1>b, <4>1, <4>2
    <3> QED BY <1>a, <1>b, <3>1, <3>2
  <2>2. v - 6 * carry = 16 * e + n + 256 * cf
    <3>1. carry \in Int
      BY <1>a, <1>b
    <3> HIDE DEF low, high, carry, n, e, m
    <3> QED BY <1>a, <1>b, <2>1, <3>1
  <2>3. CASE e < 0
    <3>1. (IF high THEN 96 ELSE 0) = 96 /\ m = e + 10
      BY <1>a, <1>b, <1>2, <2>3
    <3>2. r = (16 * m + n + 256 * (cf - 1)) % 256
      <4>1. v - 6 * carry - 96 = 16 * m + n + 256 * (cf - 1)
        BY <1>a, <1>b, <2>2, <3>1
      <4> QED BY <1>a, <1>b, <2>1, <3>1, <4>1
    <3> HIDE DEF m, n, e, d, carry
    <3> QED BY <1>b, <1>3, <3>2
  <2>4. CASE ~(e < 0)
    <3>1. (IF high THEN 96 ELSE 0) = 0 /\ m = e
      BY <1>a, <1>b, <1>2, <2>4
    <3>2. r = (16 * m + n + 256 * cf) % 256
      BY <1>a, <1>b, <2>1, <2>2, <3>1
    <3> HIDE DEF m, n, e, d, carry
    <3> QED BY <1>b, <1>3, <3>2
  <2> QED BY <1>a, <1>b, <2>3, <2>4
<1>5. high \/ ~(low /\ v < 6)
  BY <1>a, <1>b, <1>1, <1>2
<1>6. (10 * t + u) - (10 * p + q) - c
        = (10 * m + n) - 100 * (IF high \/ (low /\ v < 6) THEN 1 ELSE 0)
  <2>1. (IF high \/ (low /\ v < 6) THEN 1 ELSE 0) = IF e < 0 THEN 1 ELSE 0
    BY <1>a, <1>b, <1>2, <1>5
  <2>2. (10 * t + u) - (10 * p + q) - c = (10 * m + n) - 100 * (IF e < 0 THEN 1 ELSE 0)
    BY <1>a, <1>b
  <2> QED BY <1>a, <1>b, <2>1, <2>2
<1> QED BY <1>3, <1>4, <1>6 DEF DifferenceDigits, Flag

\* AAS after the difference of two digits: it adjusts if the difference borrows.
LEMMA AASAdjusts ==
  ASSUME NEW x \in 0..9, NEW y \in 0..9, NEW c \in {0, 1}, NEW v \in 0..255, NEW af \in {0, 1},
         x - y - c = v - (IF x < y + c THEN 256 ELSE 0), (af = 1) = (x < y + c)
  PROVE  (v % 16 > 9 \/ af = 1) = (x < y + c)
<1>1. ~(x < y + c) => v \in 0..9 /\ v % 16 = v
  OBVIOUS
<1> QED BY <1>1

\* It borrows from the next digit.
LEMMA AASExact ==
  ASSUME NEW h \in 0..9, NEW d \in -10..9, NEW v \in 0..255,
         v = d + (IF d < 0 THEN 256 ELSE 0), NEW z, z = (h * 256 + v - 6) % 65536,
         NEW r, r = IF d < 0 THEN ((z \div 256 - 1) % 256) * 256 + (z % 16)
                    ELSE h * 256 + (v % 16)
  PROVE  /\ d = (r % 256) - 10 * (IF d < 0 THEN 1 ELSE 0)
         /\ (r \div 256) % 256 = (h - (IF d < 0 THEN 1 ELSE 0)) % 256
<1>1. CASE d < 0
  <2>1. z = h * 256 + (d + 250)
    BY <1>1
  <2>2. z \div 256 = h /\ z % 16 = d + 10
    BY <1>1, <2>1
  <2>3. r = ((h - 1) % 256) * 256 + (d + 10)
    BY <1>1, <2>2
  <2>4. (h - 1) % 256 \in 0..255
    OBVIOUS
  <2>5. r % 256 = d + 10 /\ r \div 256 = (h - 1) % 256
    BY <1>1, <2>3, <2>4
  <2> QED BY <1>1, <2>4, <2>5
<1>2. CASE ~(d < 0)
  <2>1. v = d /\ v % 16 = v
    BY <1>2
  <2>2. r = h * 256 + d
    BY <1>2, <2>1
  <2>3. r % 256 = d /\ r \div 256 = h
    BY <1>2, <2>2
  <2> QED BY <1>2, <2>3
<1> QED BY <1>1, <1>2

\* What the decimal routines have done before their second instruction and after it.
DecimalPlaced ==
  /\ width = 8 /\ start.cf \in {0, 1} /\ ip \in 1..3 /\ trap = "none" /\ DOMAIN regs = Regs
  /\ ip = 1 => regs = Old /\ flags.cf = start.cf

\* SBB has left a byte, its borrow and its AF.
BorrowLeft ==
  /\ regs["ax"] \in 0..255 /\ flags \in Flags
  /\ LET borrow == Old["ax"] < Old["bx"] + start.cf
     IN  /\ Old["ax"] - Old["bx"] - start.cf = regs["ax"] - (IF borrow THEN 256 ELSE 0)
         /\ flags.cf = Flag(borrow)
  /\ flags.af = Flag(Nibble(Old["ax"]) < Nibble(Old["bx"]) + start.cf)

DecimalSumInv ==
  name = "decimal_sum" =>
    /\ DecimalPlaced /\ code = DecimalSum /\ Old["ax"] \in Decimals /\ Old["bx"] \in Decimals
    /\ ip = 2 => /\ regs["ax"] \in 0..255 /\ flags \in Flags
                 /\ Old["ax"] + Old["bx"] + start.cf = regs["ax"] + 256 * flags.cf
                 /\ flags.af = Flag(Nibble(Old["ax"]) + Nibble(Old["bx"]) + start.cf >= 16)
    /\ ip = 3 => /\ regs["ax"] \in Decimals
                 /\ Decimal(Old["ax"]) + Decimal(Old["bx"]) + start.cf
                      = Decimal(regs["ax"]) + 100 * flags.cf

DecimalDifferenceInv ==
  name = "decimal_difference" =>
    /\ DecimalPlaced /\ code = DecimalDifference
    /\ Old["ax"] \in Decimals /\ Old["bx"] \in Decimals
    /\ ip = 2 => BorrowLeft
    /\ ip = 3 => /\ regs["ax"] \in Decimals
                 /\ Decimal(Old["ax"]) - Decimal(Old["bx"]) - start.cf
                      = Decimal(regs["ax"]) - 100 * flags.cf

UnpackedDifferenceInv ==
  name = "unpacked_difference" =>
    /\ DecimalPlaced /\ code = UnpackedDifference
    /\ Old["ax"] \in 0..9 /\ Old["bx"] \in 0..9 /\ Old["dx"] \in 0..9
    /\ ip = 2 => BorrowLeft /\ regs["dx"] = Old["dx"]
    /\ ip = 3 => /\ Old["ax"] - Old["bx"] - start.cf = regs["ax"] - 10 * flags.cf
                 /\ regs["dx"] = (Old["dx"] - flags.cf) % 256

RadixInv ==
  name = "radix" =>
    /\ DOMAIN regs = Regs /\ ip \in 1..3 /\ Old["ax"] \in 0..255
    /\ \E n \in {0, 2, 10, 16} :
         /\ code = Radix(n)
         /\ ip = 1 => regs["ax"] = Old["ax"]
         /\ ip = 2 => regs["dx"] * n + regs["ax"] = Old["ax"]
         /\ ip = 3 => regs["ax"] = Old["ax"] /\ regs["dx"] = 0

DecimalInv == DecimalSumInv /\ DecimalDifferenceInv /\ UnpackedDifferenceInv /\ RadixInv

\* The programs of the decimal routines.
LEMMA DecimalCode ==
  /\ \A p : p \in {DecimalSum, DecimalDifference, UnpackedDifference} =>
       Len(p) = 2 /\ p[1].d = "ax" /\ p[1].s = "bx" /\ p[1].w = 8
  /\ DecimalSum[1].op = "adc" /\ DecimalSum[2].op = "daa"
  /\ DecimalDifference[1].op = "sbb" /\ DecimalDifference[2].op = "das"
  /\ UnpackedDifference[1].op = "sbb" /\ UnpackedDifference[2].op = "aas"
  /\ \A n : /\ Len(Radix(n)) = 2 /\ Radix(n)[1].op = "aam" /\ Radix(n)[2].op = "aad"
            /\ Radix(n)[1].n = n /\ Radix(n)[2].n = n
BY DEF DecimalSum, DecimalDifference, UnpackedDifference, Radix, AX, RR, RI

\* DAA has computed the decimal sum.
LEMMA DecimalSumStep ==
  ASSUME DecimalSumInv, Next, UNCHANGED <<name, width, start>>
  PROVE  DecimalSumInv'
<1> SUFFICES ASSUME name = "decimal_sum" PROVE DecimalSumInv'
  BY DEF DecimalSumInv
<1>1. /\ DecimalPlaced /\ code = DecimalSum /\ Old["ax"] \in Decimals /\ Old["bx"] \in Decimals
      /\ ip = 2 => /\ regs["ax"] \in 0..255 /\ flags \in Flags
                   /\ Old["ax"] + Old["bx"] + start.cf = regs["ax"] + 256 * flags.cf
                   /\ flags.af = Flag(Nibble(Old["ax"]) + Nibble(Old["bx"]) + start.cf >= 16)
  BY DEF DecimalSumInv
<1>2. /\ Len(code) = 2 /\ code[1].d = "ax" /\ code[1].s = "bx" /\ code[1].w = 8
      /\ code[1].op = "adc" /\ code[2].op = "daa"
  BY <1>1, DecimalCode
<1>3. ip \in 1..2
  BY <1>1, <1>2, Dispatch DEF DecimalPlaced
<1>4. name' = name /\ width' = width /\ Old' = Old /\ start' = start
  BY DEF Old
<1>5. SUFFICES /\ ip' = ip + 1 /\ trap' = trap /\ code' = code /\ DOMAIN regs' = Regs
               /\ ip' = 2 => /\ regs'["ax"] \in 0..255 /\ flags' \in Flags
                             /\ Old["ax"] + Old["bx"] + start.cf = regs'["ax"] + 256 * flags'.cf
                             /\ flags'.af
                                  = Flag(Nibble(Old["ax"]) + Nibble(Old["bx"]) + start.cf >= 16)
               /\ ip' = 3 => /\ regs'["ax"] \in Decimals
                             /\ Decimal(Old["ax"]) + Decimal(Old["bx"]) + start.cf
                                  = Decimal(regs'["ax"]) + 100 * flags'.cf
  BY <1>1, <1>3, <1>4, <1>5 DEF DecimalSumInv, DecimalPlaced
<1>6. CASE ip = 1
  <2>1. /\ exALU2OP /\ Dst = Old["ax"] /\ Src = Old["bx"] /\ I.w = 8 /\ I.op = "adc" /\ I.d = "ax"
        /\ flags.cf = start.cf /\ start.cf \in {0, 1} /\ DOMAIN regs = Regs
    BY <1>1, <1>2, <1>6, Dispatch DEF I, Dst, Src, DecimalPlaced
  <2> DEFINE r == ALUOPAdd3(Old["ax"], Old["bx"], start.cf, 8)
  <2>2. /\ ip' = ip + 1 /\ code' = code /\ trap' = trap
        /\ regs' = [regs EXCEPT !["ax"] = r.val] /\ flags' = r.f
    BY <2>1, AluStep
  <2> HIDE DEF r
  <2>3. /\ r.val \in Nums(8) /\ r.f \in Flags
        /\ Old["ax"] + Old["bx"] + start.cf = r.val + 256 * r.f.cf
        /\ r.f.af = Flag(Nibble(Old["ax"]) + Nibble(Old["bx"]) + start.cf >= 16)
    <3>1. Old["ax"] \in Nums(8) /\ Old["bx"] \in Nums(8) /\ 8 \in 2..Host
      BY <1>1, Bytes
    <3>2. Sum3(r, Old["ax"], Old["bx"], start.cf, 8)
      BY <2>1, <3>1, AdcSum DEF r
    <3> QED BY <3>2, Bytes DEF Sum3
  <2>4. regs'["ax"] = r.val /\ DOMAIN regs' = Regs
    BY <2>1, <2>2 DEF Regs
  <2>5. 2^8 = 256 /\ Nums(8) = 0..255
    BY Bytes
  <2> QED BY <1>6, <2>2, <2>3, <2>4, <2>5
<1>7. CASE ip = 2
  <2> DEFINE v == regs["ax"]
             c == start.cf
             cf == flags.cf
             af == flags.af
             low == v % 16 > 9 \/ af = 1
             high == v > 153 \/ cf = 1
             l == Flag(low)
             h == Flag(high)
             out == h
             r == (v + 6 * l + 96 * h) % 256
             f == [ZeroSign(r) EXCEPT !.af = l, !.cf = out]
  <2>1. exDAA
    BY <1>2, <1>7, Dispatch DEF I
  <2>2. /\ ip' = ip + 1 /\ code' = code /\ trap' = trap
        /\ regs' = [regs EXCEPT !["ax"] = r] /\ flags' = f
    <3>1. r = (v + (IF low THEN 6 ELSE 0) + (IF high THEN 96 ELSE 0)) % 256
      <4>1. 6 * l = (IF low THEN 6 ELSE 0) /\ 96 * h = (IF high THEN 96 ELSE 0)
        BY DEF Flag
      <4> QED BY <4>1
    <3> QED BY <2>1, <3>1 DEF exDAA, Advance, AL, Nibble, Flag
  <2>3. /\ v \in 0..255 /\ flags \in Flags /\ c \in {0, 1} /\ DOMAIN regs = Regs
        /\ Old["ax"] + Old["bx"] + c = v + 256 * cf
        /\ (af = 1) = (Nibble(Old["ax"]) + Nibble(Old["bx"]) + c >= 16)
    BY <1>1, <1>7 DEF DecimalPlaced, Flag
  <2>4. f.cf = out
    BY <2>3 DEF ZeroSign, Flags, FlagNames
  <2>5. PICK t \in 0..9, u \in 0..9 : Old["ax"] = 16 * t + u /\ Nibble(Old["ax"]) = u
                                      /\ Decimal(Old["ax"]) = 10 * t + u
    BY <1>1, DigitsOf
  <2>6. PICK p \in 0..9, q \in 0..9 : Old["bx"] = 16 * p + q /\ Nibble(Old["bx"]) = q
                                      /\ Decimal(Old["bx"]) = 10 * p + q
    BY <1>1, DigitsOf
  <2>7. cf \in {0, 1} /\ af \in {0, 1} /\ l \in {0, 1} /\ h \in {0, 1}
    BY <2>3 DEF Flags, FlagNames, Flag
  <2>8. AfterSum(t, u, p, q, c, v, cf, af, l, h, r)
    BY <2>3, <2>5, <2>6, <2>7 DEF AfterSum, Corrects, Flag
  <2>9. regs'["ax"] = r /\ DOMAIN regs' = Regs /\ flags'.cf = out
    BY <2>2, <2>3, <2>4 DEF Regs
  <2>10. SumDigits(t, u, p, q, c, out, r)
    <3> HIDE DEF v, low, high, r, f, c, cf, af, l, h
    <3> QED BY <2>8, DAAExact
  <2> HIDE DEF v, low, high, r, f, cf, af, l, h, out
  <2>11. PICK m \in 0..9, n \in 0..9 :
           /\ r = 16 * m + n
           /\ (10 * t + u) + (10 * p + q) + c = (10 * m + n) + 100 * out
    BY <2>10 DEF SumDigits
  <2>12. r \in Decimals /\ Decimal(r) = 10 * m + n
    <3>1. 16 * m + n \in Decimals /\ Decimal(16 * m + n) = 10 * m + n
      BY DecimalIs
    <3> QED BY <2>11, <3>1
  <2>13. ip' = 3
    BY <1>7, <2>2
  <2> QED BY <2>2, <2>5, <2>6, <2>9, <2>11, <2>12, <2>13
<1> QED BY <1>3, <1>6, <1>7

\* The first instruction of the two differences.
LEMMA BorrowStep ==
  ASSUME DecimalPlaced, ip = 1, Next, code[1].op = "sbb", code[1].d = "ax", code[1].s = "bx",
         code[1].w = 8, Len(code) = 2, UNCHANGED <<name, width, start>>,
         Old["ax"] \in Nums(8), Old["bx"] \in 0..153
  PROVE  /\ ip' = 2 /\ code' = code /\ trap' = trap /\ DOMAIN regs' = Regs
         /\ BorrowLeft' /\ regs'["dx"] = Old["dx"]
<1>1. /\ exALU2OP /\ Dst = Old["ax"] /\ Src = Old["bx"] /\ I.w = 8 /\ I.op = "sbb" /\ I.d = "ax"
      /\ flags.cf = start.cf /\ start.cf \in {0, 1} /\ DOMAIN regs = Regs
  BY Dispatch DEF I, Dst, Src, DecimalPlaced
<1> DEFINE r == ALUOPSub3(Old["ax"], Old["bx"], start.cf, 8)
<1>2. /\ ip' = ip + 1 /\ code' = code /\ trap' = trap
      /\ regs' = [regs EXCEPT !["ax"] = r.val] /\ flags' = r.f
  BY <1>1, AluStep
<1> HIDE DEF r
<1>3. Difference3(r, Old["ax"], Old["bx"], start.cf, 8)
  <2>1. 8 \in 2..Host /\ Old["bx"] \in Nums(8)
    BY Bytes
  <2> QED BY <1>1, <2>1, SbbExact DEF r
<1>4. regs'["ax"] = r.val /\ DOMAIN regs' = Regs /\ regs'["dx"] = Old["dx"] /\ Old' = Old
  BY <1>1, <1>2 DEF Regs, Old, DecimalPlaced
<1>5. /\ r.val \in 0..255 /\ r.f \in Flags /\ r.f.af = Flag(Nibble(Old["ax"]) < Nibble(Old["bx"]) + start.cf)
      /\ Old["ax"] - Old["bx"] - start.cf
           = r.val - (IF Old["ax"] < Old["bx"] + start.cf THEN 256 ELSE 0)
      /\ ~(8 = Host /\ start.cf = 1 /\ Old["bx"] = Ones(8)) =>
           r.f.cf = Flag(Old["ax"] < Old["bx"] + start.cf)
  BY <1>3, Bytes DEF Difference3
<1>6. Old["bx"] # Ones(8)
  BY Bytes DEF Ones
<1>7. start.cf' = start.cf /\ ip' = 2 /\ regs'["ax"] = r.val /\ flags' = r.f
  BY <1>2, <1>4
<1>8. r.f.cf = Flag(Old["ax"] < Old["bx"] + start.cf)
  BY <1>5, <1>6
<1>9. BorrowLeft'
  BY <1>4, <1>5, <1>7, <1>8 DEF BorrowLeft
<1> QED BY <1>2, <1>4, <1>7, <1>9

\* DAS has computed the decimal difference.
LEMMA DecimalDifferenceStep ==
  ASSUME DecimalDifferenceInv, Next, UNCHANGED <<name, width, start>>
  PROVE  DecimalDifferenceInv'
<1> SUFFICES ASSUME name = "decimal_difference" PROVE DecimalDifferenceInv'
  BY DEF DecimalDifferenceInv
<1>1. /\ DecimalPlaced /\ code = DecimalDifference
      /\ Old["ax"] \in Decimals /\ Old["bx"] \in Decimals
      /\ ip = 2 => BorrowLeft
  BY DEF DecimalDifferenceInv
<1>2. /\ Len(code) = 2 /\ code[1].d = "ax" /\ code[1].s = "bx" /\ code[1].w = 8
      /\ code[1].op = "sbb" /\ code[2].op = "das"
  BY <1>1, DecimalCode
<1>3. ip \in 1..2
  BY <1>1, <1>2, Dispatch DEF DecimalPlaced
<1>4. name' = name /\ width' = width /\ Old' = Old /\ start' = start
  BY DEF Old
<1>5. SUFFICES /\ ip' = ip + 1 /\ trap' = trap /\ code' = code /\ DOMAIN regs' = Regs
               /\ ip' = 2 => BorrowLeft'
               /\ ip' = 3 => /\ regs'["ax"] \in Decimals
                             /\ Decimal(Old["ax"]) - Decimal(Old["bx"]) - start.cf
                                  = Decimal(regs'["ax"]) - 100 * flags'.cf
  BY <1>1, <1>3, <1>4, <1>5 DEF DecimalDifferenceInv, DecimalPlaced
<1>6. CASE ip = 1
  <2>1. Old["ax"] \in Nums(8) /\ Old["bx"] \in 0..153
    BY <1>1, Bytes DEF Decimals
  <2>2. /\ ip' = 2 /\ code' = code /\ trap' = trap /\ DOMAIN regs' = Regs /\ BorrowLeft'
    BY <1>1, <1>2, <1>6, <2>1, BorrowStep
  <2> QED BY <1>6, <2>2
<1>7. CASE ip = 2
  <2> DEFINE v == regs["ax"]
             c == start.cf
             cf == flags.cf
             af == flags.af
             low == v % 16 > 9 \/ af = 1
             high == v > 153 \/ cf = 1
             l == Flag(low)
             h == Flag(high)
             out == Flag(high \/ (low /\ v < 6))
             r == (v - 6 * l - 96 * h) % 256
             f == [ZeroSign(r) EXCEPT !.af = l, !.cf = out]
  <2>1. exDAS
    BY <1>2, <1>7, Dispatch DEF I
  <2>2. /\ ip' = ip + 1 /\ code' = code /\ trap' = trap
        /\ regs' = [regs EXCEPT !["ax"] = r] /\ flags' = f
    <3>1. r = (v - (IF low THEN 6 ELSE 0) - (IF high THEN 96 ELSE 0)) % 256
      <4>1. 6 * l = (IF low THEN 6 ELSE 0) /\ 96 * h = (IF high THEN 96 ELSE 0)
        BY DEF Flag
      <4> QED BY <4>1
    <3> QED BY <2>1, <3>1 DEF exDAS, Advance, AL, Nibble, Flag
  <2>3. /\ v \in 0..255 /\ flags \in Flags /\ c \in {0, 1} /\ DOMAIN regs = Regs
        /\ Old["ax"] - Old["bx"] - c = v - 256 * cf
        /\ (af = 1) = (Nibble(Old["ax"]) < Nibble(Old["bx"]) + c)
    BY <1>1, <1>7 DEF BorrowLeft, DecimalPlaced, Flag
  <2>4. f.cf = out
    BY <2>3 DEF ZeroSign, Flags, FlagNames
  <2>5. PICK t \in 0..9, u \in 0..9 : Old["ax"] = 16 * t + u /\ Nibble(Old["ax"]) = u
                                      /\ Decimal(Old["ax"]) = 10 * t + u
    BY <1>1, DigitsOf
  <2>6. PICK p \in 0..9, q \in 0..9 : Old["bx"] = 16 * p + q /\ Nibble(Old["bx"]) = q
                                      /\ Decimal(Old["bx"]) = 10 * p + q
    BY <1>1, DigitsOf
  <2>7. cf \in {0, 1} /\ af \in {0, 1} /\ l \in {0, 1} /\ h \in {0, 1}
    BY <2>3 DEF Flags, FlagNames, Flag
  <2>8. AfterDifference(t, u, p, q, c, v, cf, af, l, h, r)
    BY <2>3, <2>5, <2>6, <2>7 DEF AfterDifference, Corrects, Flag
  <2>9. regs'["ax"] = r /\ DOMAIN regs' = Regs /\ flags'.cf = out
    BY <2>2, <2>3, <2>4 DEF Regs
  <2>10. DifferenceDigits(t, u, p, q, c, out, r)
    <3>1. out = Flag(h = 1 \/ (l = 1 /\ v < 6))
      BY DEF Flag
    <3> HIDE DEF v, low, high, r, f, c, cf, af, l, h, out
    <3> QED BY <2>8, <3>1, DASExact
  <2> HIDE DEF v, low, high, r, f, cf, af, l, h, out
  <2>11. PICK m \in 0..9, n \in 0..9 :
           /\ r = 16 * m + n
           /\ (10 * t + u) - (10 * p + q) - c = (10 * m + n) - 100 * out
    BY <2>10 DEF DifferenceDigits
  <2>12. r \in Decimals /\ Decimal(r) = 10 * m + n
    <3>1. 16 * m + n \in Decimals /\ Decimal(16 * m + n) = 10 * m + n
      BY DecimalIs
    <3> QED BY <2>11, <3>1
  <2>13. ip' = 3
    BY <1>7, <2>2
  <2> QED BY <2>2, <2>5, <2>6, <2>9, <2>11, <2>12, <2>13
<1> QED BY <1>3, <1>6, <1>7

\* A digit difference with its borrow, the next digit h, and what AAS makes of them.
AfterDigit(x, y, c, h, v, af, b, r) ==
  LET z == (h * 256 + v - 6) % 65536
  IN  /\ {x, y, h} \subseteq 0..9 /\ {c, af, b} \subseteq {0, 1} /\ v \in 0..255
      /\ x - y - c = v - (IF x < y + c THEN 256 ELSE 0) /\ (af = 1) = (x < y + c)
      /\ (b = 1) = (v % 16 > 9 \/ af = 1)
      /\ r = IF b = 1 THEN ((z \div 256 - 1) % 256) * 256 + (z % 16) ELSE h * 256 + (v % 16)

DigitLeft(x, y, c, h, b, r) ==
  x - y - c = (r % 256) - 10 * b /\ (r \div 256) % 256 = (h - b) % 256

\* AAS after a difference: the digit, and the borrow taken from the next one.
LEMMA AASDigit ==
  ASSUME NEW x, NEW y, NEW c, NEW h, NEW v, NEW af, NEW b, NEW r,
         AfterDigit(x, y, c, h, v, af, b, r)
  PROVE  DigitLeft(x, y, c, h, b, r)
<1> DEFINE d == x - y - c
           z == (h * 256 + v - 6) % 65536
<1>1. /\ x \in 0..9 /\ y \in 0..9 /\ h \in 0..9 /\ c \in {0, 1} /\ af \in {0, 1} /\ b \in {0, 1}
      /\ v \in 0..255
      /\ d = v - (IF x < y + c THEN 256 ELSE 0) /\ (af = 1) = (x < y + c)
      /\ (b = 1) = (v % 16 > 9 \/ af = 1)
      /\ r = IF b = 1 THEN ((z \div 256 - 1) % 256) * 256 + (z % 16) ELSE h * 256 + (v % 16)
  BY DEF AfterDigit
<1>2. (b = 1) = (x < y + c)
  BY <1>1, AASAdjusts
<1>3. d \in -10..9 /\ (x < y + c) = (d < 0)
  BY <1>1
<1>4. v = d + (IF d < 0 THEN 256 ELSE 0) /\ b = (IF d < 0 THEN 1 ELSE 0)
  BY <1>1, <1>2, <1>3
<1>5. r = IF d < 0 THEN ((z \div 256 - 1) % 256) * 256 + (z % 16) ELSE h * 256 + (v % 16)
  BY <1>1, <1>2, <1>3
<1> HIDE DEF d
<1>6. /\ d = (r % 256) - 10 * (IF d < 0 THEN 1 ELSE 0)
      /\ (r \div 256) % 256 = (h - (IF d < 0 THEN 1 ELSE 0)) % 256
  BY <1>1, <1>3, <1>4, <1>5, AASExact
<1>7. d = (r % 256) - 10 * b /\ (r \div 256) % 256 = (h - b) % 256
  BY <1>4, <1>6
<1> QED BY <1>7 DEF DigitLeft, d

\* AAS has computed the difference of two digits.
LEMMA UnpackedDifferenceStep ==
  ASSUME UnpackedDifferenceInv, Next, UNCHANGED <<name, width, start>>
  PROVE  UnpackedDifferenceInv'
<1> SUFFICES ASSUME name = "unpacked_difference" PROVE UnpackedDifferenceInv'
  BY DEF UnpackedDifferenceInv
<1>1. /\ DecimalPlaced /\ code = UnpackedDifference
      /\ Old["ax"] \in 0..9 /\ Old["bx"] \in 0..9 /\ Old["dx"] \in 0..9
      /\ ip = 2 => BorrowLeft /\ regs["dx"] = Old["dx"]
  BY DEF UnpackedDifferenceInv
<1>2. /\ Len(code) = 2 /\ code[1].d = "ax" /\ code[1].s = "bx" /\ code[1].w = 8
      /\ code[1].op = "sbb" /\ code[2].op = "aas"
  BY <1>1, DecimalCode
<1>3. ip \in 1..2
  BY <1>1, <1>2, Dispatch DEF DecimalPlaced
<1>4. name' = name /\ width' = width /\ Old' = Old /\ start' = start
  BY DEF Old
<1>5. SUFFICES /\ ip' = ip + 1 /\ trap' = trap /\ code' = code /\ DOMAIN regs' = Regs
               /\ ip' = 2 => BorrowLeft' /\ regs'["dx"] = Old["dx"]
               /\ ip' = 3 => /\ Old["ax"] - Old["bx"] - start.cf = regs'["ax"] - 10 * flags'.cf
                             /\ regs'["dx"] = (Old["dx"] - flags'.cf) % 256
  BY <1>1, <1>3, <1>4, <1>5 DEF UnpackedDifferenceInv, DecimalPlaced
<1>6. CASE ip = 1
  <2>1. Old["ax"] \in Nums(8) /\ Old["bx"] \in 0..153
    BY <1>1, Bytes
  <2>2. /\ ip' = 2 /\ code' = code /\ trap' = trap /\ DOMAIN regs' = Regs /\ BorrowLeft'
        /\ regs'["dx"] = Old["dx"]
    BY <1>1, <1>2, <1>6, <2>1, BorrowStep
  <2> QED BY <1>6, <2>2
<1>7. CASE ip = 2
  <2> DEFINE v == regs["ax"]
             x == Old["ax"]
             y == Old["bx"]
             h == Old["dx"]
             c == start.cf
             af == flags.af
             adjust == v % 16 > 9 \/ af = 1
             b == Flag(adjust)
             z == (h * 256 + v - 6) % 65536
             r == IF b = 1 THEN ((z \div 256 - 1) % 256) * 256 + (z % 16) ELSE h * 256 + (v % 16)
  <2>1. exAAS
    BY <1>2, <1>7, Dispatch DEF I
  <2>2. /\ v \in 0..255 /\ flags \in Flags /\ c \in {0, 1} /\ DOMAIN regs = Regs
        /\ regs["dx"] = h /\ x - y - c = v - (IF x < y + c THEN 256 ELSE 0)
        /\ flags.af = Flag(Nibble(x) < Nibble(y) + c)
    BY <1>1, <1>7 DEF DecimalPlaced, BorrowLeft
  <2>3. Nibble(x) = x /\ Nibble(y) = y
    BY <1>1 DEF Nibble
  <2>4. (af = 1) = (x < y + c) /\ af \in {0, 1} /\ b \in {0, 1} /\ (b = 1) = adjust
    BY <2>2, <2>3 DEF Flag
  <2>5. /\ ip' = ip + 1 /\ code' = code /\ trap' = trap /\ flags'.cf = b
        /\ regs' = [regs EXCEPT !["ax"] = r % 256, !["dx"] = (r \div 256) % 256]
    <3>1. AL = v /\ AH = h
      BY <2>2 DEF AL, AH
    <3>2. ip' = ip + 1 /\ code' = code /\ trap' = trap /\ flags'.cf = b
      BY <2>1, <2>2, <3>1 DEF exAAS, Advance, Nibble, Flags, FlagNames
    <3>3. SetAX(IF adjust THEN ((z \div 256 - 1) % 256) * 256 + (z % 16) ELSE h * 256 + (v % 16))
      BY <2>1, <3>1 DEF exAAS, Nibble
    <3>4. SetAX(r)
      BY <2>4, <3>3
    <3> QED BY <3>2, <3>4 DEF SetAX
  <2>6. AfterDigit(x, y, c, h, v, af, b, r)
    BY <1>1, <2>2, <2>4 DEF AfterDigit
  <2> HIDE DEF v, x, y, h, c, af, adjust, b, z, r
  <2>7. DigitLeft(x, y, c, h, b, r)
    BY <2>6, AASDigit
  <2>8. regs'["ax"] = r % 256 /\ regs'["dx"] = (r \div 256) % 256 /\ DOMAIN regs' = Regs
    BY <2>2, <2>5 DEF Regs
  <2>9. ip' = 3
    BY <1>7, <2>5
  <2> QED BY <2>5, <2>7, <2>8, <2>9 DEF DigitLeft, x, y, c, h
<1> QED BY <1>3, <1>6, <1>7

\* AAM splits a byte into two digits and AAD puts it together again.
LEMMA RadixStep ==
  ASSUME RadixInv, Next, UNCHANGED <<name, width, start>>
  PROVE  RadixInv'
<1> SUFFICES ASSUME name = "radix" PROVE RadixInv'
  BY DEF RadixInv
<1>1. PICK n \in {0, 2, 10, 16} :
         /\ code = Radix(n)
         /\ ip = 1 => regs["ax"] = Old["ax"]
         /\ ip = 2 => regs["dx"] * n + regs["ax"] = Old["ax"]
         /\ ip = 3 => regs["ax"] = Old["ax"] /\ regs["dx"] = 0
  BY DEF RadixInv
<1>2. DOMAIN regs = Regs /\ ip \in 1..3 /\ Old["ax"] \in 0..255
  BY DEF RadixInv
<1>3. /\ Len(code) = 2 /\ code[1].op = "aam" /\ code[2].op = "aad" /\ code[1].n = n /\ code[2].n = n
  BY <1>1, DecimalCode
<1>4. ip \in 1..2
  BY <1>2, <1>3, Dispatch
<1>5. name' = name /\ Old' = Old
  BY DEF Old
<1>6. SUFFICES /\ ip' \in 1..3 /\ code' = code /\ DOMAIN regs' = Regs
               /\ ip' = 1 => regs'["ax"] = Old["ax"]
               /\ ip' = 2 => regs'["dx"] * n + regs'["ax"] = Old["ax"]
               /\ ip' = 3 => regs'["ax"] = Old["ax"] /\ regs'["dx"] = 0
  BY <1>1, <1>2, <1>5, <1>6 DEF RadixInv
<1> DEFINE o == Old["ax"]
<1> HIDE DEF o
<1>7. o \in 0..255
  BY <1>2 DEF o
<1>8. CASE ip = 1
  <2>1. exAAM /\ I.n = n /\ AL = o
    BY <1>1, <1>3, <1>8, Dispatch DEF I, AL, o
  <2>2. CASE n = 0
    <3>1. Fault("unknown")
      BY <2>1, <2>2 DEF exAAM
    <3> QED BY <1>1, <1>2, <1>8, <3>1 DEF Fault
  <2>3. CASE n # 0
    <3> DEFINE s == (o \div n) * 256 + (o % n)
    <3>1. /\ ip' = 2 /\ code' = code
          /\ regs' = [regs EXCEPT !["ax"] = s % 256, !["dx"] = (s \div 256) % 256]
      BY <1>8, <2>1, <2>3 DEF exAAM, SetAX, Advance
    <3>2. s % 256 = o % n /\ (s \div 256) % 256 = o \div n /\ (o \div n) * n + (o % n) = o
      <4>1. CASE n = 2
        BY <1>7, <4>1
      <4>2. CASE n = 10
        BY <1>7, <4>2
      <4>3. CASE n = 16
        BY <1>7, <4>3
      <4> QED BY <2>3, <4>1, <4>2, <4>3
    <3> HIDE DEF s
    <3>3. regs'["ax"] = s % 256 /\ regs'["dx"] = (s \div 256) % 256 /\ DOMAIN regs' = Regs
      BY <1>2, <3>1 DEF Regs
    <3> QED BY <3>1, <3>2, <3>3 DEF o
  <2> QED BY <2>2, <2>3
<1>9. CASE ip = 2
  <2> DEFINE s == (AH * n + AL) % 256
  <2>1. exAAD /\ I.n = n /\ AH * n + AL = o
    BY <1>1, <1>3, <1>9, Dispatch DEF I, AL, AH, o
  <2>2. s = o
    BY <1>7, <2>1
  <2>3. SetAX(s) /\ ip' = 3 /\ code' = code
    BY <1>9, <2>1 DEF exAAD, Advance
  <2>4. SetAX(o)
    BY <2>2, <2>3
  <2>5. o % 256 = o /\ (o \div 256) % 256 = 0
    BY <1>7
  <2>6. regs'["ax"] = o /\ regs'["dx"] = 0 /\ DOMAIN regs' = Regs
    BY <1>2, <2>4, <2>5 DEF SetAX, Regs
  <2> QED BY <2>3, <2>6 DEF o
<1> QED BY <1>4, <1>8, <1>9

\* What every sum starts from: the program of its name and numbers of its width.
LEMMA SumsStart ==
  ASSUME Init, name \in {"sum", "difference", "negate"}
  PROVE  /\ width \in 2..Host /\ trap = "none" /\ ip = 1
         /\ regs = Old /\ DOMAIN regs = Regs /\ \A r \in Regs : Old[r] \in Nums(width)
         /\ Old["cx"] = 0
         /\ name = "sum" => code = WideSum(width)
         /\ name = "difference" => code = WideDifference(width)
         /\ name = "negate" => code \in {WideNegate(width), WideComplement(width)}
<1>1. PICK w \in Widths : InitSums(w)
  BY Names DEF Init, Decimal_names, Product_names, Shift_names, Loop_names, Branchless_names
<1>2. \A n, v, c, P, Q, C, D, S : Start(n, v, c, P, Q, C, D, S) => name = n
  BY Zenon DEF Start
<1> DEFINE E == Quads(w)
<1>3. \/ Start("sum", w, WideSum(w), E, E, Z, E, E)
      \/ Start("difference", w, WideDifference(w), E, E, Z, E, E)
      \/ Start("negate", w, WideNegate(w), E, Z, Z, E, Z)
      \/ Start("negate", w, WideComplement(w), E, Z, Z, E, Z)
  <2>1. \A c : ~Start("compare", w, Compare(w, c), Values(w), Values(w), Z, Z, Z)
    BY <1>2
  <2> QED BY <1>1, <2>1 DEF InitSums
<1>4. ip = 1 /\ trap = "none"
  BY DEF Init
<1>5. w \in 2..Host /\ E \subseteq Nums(w) /\ Z \subseteq Nums(w)
  <2>1. w \in 2..Host /\ E \subseteq Nums(w)
    BY OperandsFit
  <2>2. 2^w \in Nat /\ 2^w > 0
    BY <2>1, WidthIs
  <2> QED BY <2>1, <2>2 DEF Z, Nums
<1> HIDE DEF E
<1>6. ASSUME NEW n, NEW c, NEW X \in SUBSET Nums(w), NEW Y \in SUBSET Nums(w),
             NEW S \in SUBSET Nums(w), Start(n, w, c, X, Y, Z, X, S)
      PROVE  /\ name = n /\ code = c /\ width = w /\ regs = Old /\ DOMAIN regs = Regs
             /\ \A r \in Regs : Old[r] \in Nums(w)
             /\ Old["cx"] = 0
  <2>1. /\ name = n /\ width = w /\ code = c
        /\ regs = start.regs /\ DOMAIN regs = Regs
        /\ regs["ax"] \in X /\ regs["bx"] \in Y /\ regs["cx"] \in Z
        /\ regs["dx"] \in X /\ regs["si"] \in S
    BY <1>6, Started
  <2>2. regs["cx"] = 0
    BY <2>1 DEF Z
  <2>3. \A r \in Regs : regs[r] \in Nums(w)
    BY <1>5, <2>1 DEF Regs
  <2> QED BY <2>1, <2>2, <2>3 DEF Old
<1>7. CASE Start("sum", w, WideSum(w), E, E, Z, E, E)
  <2>1. /\ name = "sum" /\ code = WideSum(w) /\ width = w /\ regs = Old /\ DOMAIN regs = Regs
        /\ \A r \in Regs : Old[r] \in Nums(w)
        /\ Old["cx"] = 0
    BY <1>5, <1>6, <1>7
  <2> QED BY <1>4, <1>5, <2>1
<1>8. CASE Start("difference", w, WideDifference(w), E, E, Z, E, E)
  <2>1. /\ name = "difference" /\ code = WideDifference(w) /\ width = w /\ regs = Old
        /\ DOMAIN regs = Regs /\ \A r \in Regs : Old[r] \in Nums(w)
        /\ Old["cx"] = 0
    BY <1>5, <1>6, <1>8
  <2> QED BY <1>4, <1>5, <2>1
<1>9. CASE Start("negate", w, WideNegate(w), E, Z, Z, E, Z)
  <2>1. /\ name = "negate" /\ code = WideNegate(w) /\ width = w /\ regs = Old
        /\ DOMAIN regs = Regs /\ \A r \in Regs : Old[r] \in Nums(w)
        /\ Old["cx"] = 0
    BY <1>5, <1>6, <1>9
  <2> QED BY <1>4, <1>5, <2>1
<1>10. CASE Start("negate", w, WideComplement(w), E, Z, Z, E, Z)
  <2>1. /\ name = "negate" /\ code = WideComplement(w) /\ width = w /\ regs = Old
        /\ DOMAIN regs = Regs /\ \A r \in Regs : Old[r] \in Nums(w)
        /\ Old["cx"] = 0
    BY <1>5, <1>6, <1>10
  <2> QED BY <1>4, <1>5, <2>1
<1> QED BY <1>3, <1>7, <1>8, <1>9, <1>10

\* The invariants of the binary sums hold at the start.
LEMMA SumsInit ==
  ASSUME Init
  PROVE  SumInv /\ DifferenceInv /\ NegateInv
<1>1. SumInv
  <2> SUFFICES ASSUME name = "sum" PROVE Placed(4) /\ SumBy
    BY DEF SumInv
  <2> QED BY SumsStart DEF Placed, SumBy, Regs
<1>2. DifferenceInv
  <2> SUFFICES ASSUME name = "difference" PROVE Placed(4) /\ DifferenceBy
    BY DEF DifferenceInv
  <2> QED BY SumsStart DEF Placed, DifferenceBy, Regs
<1>3. NegateInv
  <2> SUFFICES ASSUME name = "negate" PROVE Placed(5) /\ (NegateBy \/ ComplementBy)
    BY DEF NegateInv
  <2> QED BY SumsStart DEF Placed, NegateBy, ComplementBy, Regs
<1> QED BY <1>1, <1>2, <1>3

\* The invariants of the decimal routines hold at the start.
LEMMA DecimalInit ==
  ASSUME Init
  PROVE  DecimalInv
<1> SUFFICES ASSUME name \in Decimal_names PROVE DecimalInv
  BY DEF DecimalInv, DecimalSumInv, DecimalDifferenceInv, UnpackedDifferenceInv, RadixInv, Decimal_names
<1>1. InitDecimals
  BY Names DEF Init, Decimal_names, Product_names, Shift_names, Loop_names, Branchless_names
<1>2. ip = 1 /\ trap = "none"
  BY DEF Init
<1>3. ASSUME NEW n, NEW c, NEW X, NEW Y, NEW D, Start(n, 8, c, X, Y, Z, D, Z)
      PROVE  /\ name = n /\ code = c /\ width = 8 /\ regs = Old /\ DOMAIN regs = Regs
             /\ Old["ax"] \in X /\ Old["bx"] \in Y /\ Old["dx"] \in D
             /\ start.cf \in {0, 1} /\ flags.cf = start.cf
  <2>1. /\ name = n /\ width = 8 /\ code = c
        /\ regs = start.regs /\ DOMAIN regs = Regs
        /\ regs["ax"] \in X /\ regs["bx"] \in Y /\ regs["cx"] \in Z
        /\ regs["dx"] \in D /\ regs["si"] \in Z
        /\ start.cf \in {0, 1} /\ flags = [f \in FlagNames |-> IF f = "cf" THEN start.cf ELSE 0]
    BY <1>3, Started
  <2> QED BY <2>1 DEF Old, FlagNames
<1>4. CASE Start("decimal_sum", 8, DecimalSum, Decimals, Decimals, Z, Z, Z)
  <2>1. name = "decimal_sum"
    BY <1>3, <1>4
  <2>2. DecimalSumInv
    BY <1>2, <1>3, <1>4 DEF DecimalSumInv, DecimalPlaced
  <2> QED BY <2>1, <2>2 DEF DecimalInv, DecimalDifferenceInv, UnpackedDifferenceInv, RadixInv
<1>5. CASE Start("decimal_difference", 8, DecimalDifference, Decimals, Decimals, Z, Z, Z)
  <2>1. name = "decimal_difference"
    BY <1>3, <1>5
  <2>2. DecimalDifferenceInv
    BY <1>2, <1>3, <1>5 DEF DecimalDifferenceInv, DecimalPlaced
  <2> QED BY <2>1, <2>2 DEF DecimalInv, DecimalSumInv, UnpackedDifferenceInv, RadixInv
<1>6. CASE Start("unpacked_difference", 8, UnpackedDifference, 0..9, 0..9, Z, 0..9, Z)
  <2>1. name = "unpacked_difference"
    BY <1>3, <1>6
  <2>2. UnpackedDifferenceInv
    BY <1>2, <1>3, <1>6 DEF UnpackedDifferenceInv, DecimalPlaced
  <2> QED BY <2>1, <2>2 DEF DecimalInv, DecimalSumInv, DecimalDifferenceInv, RadixInv
<1>7. CASE \E n \in {0, 2, 10, 16} : Start("radix", 8, Radix(n), 0..255, Z, Z, Z, Z)
  <2>1. PICK n \in {0, 2, 10, 16} : Start("radix", 8, Radix(n), 0..255, Z, Z, Z, Z)
    BY <1>7
  <2>2. name = "radix" /\ code = Radix(n) /\ regs = Old /\ DOMAIN regs = Regs /\ Old["ax"] \in 0..255
    BY <1>3, <2>1
  <2>3. RadixInv
    BY <1>2, <2>2 DEF RadixInv
  <2> QED BY <2>2, <2>3 DEF DecimalInv, DecimalSumInv, DecimalDifferenceInv, UnpackedDifferenceInv
<1> QED BY <1>1, <1>4, <1>5, <1>6, <1>7 DEF InitDecimals

\* What the decimal routines have computed when they end.
LEMMA DecimalEnds ==
  ASSUME DecimalInv
  PROVE  DecimalExact
<1>1. ASSUME Ended({"decimal_sum"})
      PROVE  /\ regs["ax"] \in Decimals
             /\ Decimal(Old["ax"]) + Decimal(Old["bx"]) + start.cf
                  = Decimal(regs["ax"]) + 100 * flags.cf
  <2>1. DecimalSumInv /\ name = "decimal_sum" /\ ip > Len(code)
    BY <1>1 DEF DecimalInv, Ended, Finished
  <2>2. code = DecimalSum /\ ip \in 1..3
    BY <2>1 DEF DecimalSumInv, DecimalPlaced
  <2>3. ip = 3
    BY <2>1, <2>2, DecimalCode
  <2> QED BY <2>1, <2>3 DEF DecimalSumInv
<1>2. ASSUME Ended({"decimal_difference"})
      PROVE  /\ regs["ax"] \in Decimals
             /\ Decimal(Old["ax"]) - Decimal(Old["bx"]) - start.cf
                  = Decimal(regs["ax"]) - 100 * flags.cf
  <2>1. DecimalDifferenceInv /\ name = "decimal_difference" /\ ip > Len(code)
    BY <1>2 DEF DecimalInv, Ended, Finished
  <2>2. code = DecimalDifference /\ ip \in 1..3
    BY <2>1 DEF DecimalDifferenceInv, DecimalPlaced
  <2>3. ip = 3
    BY <2>1, <2>2, DecimalCode
  <2> QED BY <2>1, <2>3 DEF DecimalDifferenceInv
<1>3. ASSUME Ended({"unpacked_difference"})
      PROVE  /\ Old["ax"] - Old["bx"] - start.cf = regs["ax"] - 10 * flags.cf
             /\ regs["dx"] = (Old["dx"] - flags.cf) % 256
  <2>1. UnpackedDifferenceInv /\ name = "unpacked_difference" /\ ip > Len(code)
    BY <1>3 DEF DecimalInv, Ended, Finished
  <2>2. code = UnpackedDifference /\ ip \in 1..3
    BY <2>1 DEF UnpackedDifferenceInv, DecimalPlaced
  <2>3. ip = 3
    BY <2>1, <2>2, DecimalCode
  <2> QED BY <2>1, <2>3 DEF UnpackedDifferenceInv
<1>4. ASSUME Ended({"radix"})
      PROVE  regs["ax"] = Old["ax"] /\ regs["dx"] = 0
  <2>1. RadixInv /\ name = "radix" /\ ip > Len(code)
    BY <1>4 DEF DecimalInv, Ended, Finished
  <2>2. PICK n \in {0, 2, 10, 16} : code = Radix(n) /\ (ip = 3 => regs["ax"] = Old["ax"] /\ regs["dx"] = 0)
    BY <2>1 DEF RadixInv
  <2>3. ip = 3
    BY <2>1, <2>2, DecimalCode DEF RadixInv
  <2> QED BY <2>2, <2>3
<1>5. Ended({"decimal_sum", "decimal_difference"}) =>
        Ended({"decimal_sum"}) \/ Ended({"decimal_difference"})
  BY DEF Ended
<1> QED BY <1>1, <1>2, <1>3, <1>4, <1>5 DEF DecimalExact

\* Multi-word sums and differences, negation and the decimal arithmetic are exact,
\* whatever the width and the operands (ALUop.c, exALU2OP, exINCDEC, exNEGNOT, exDAA,
\* exDAS, exAAS, exAAM, exAAD).
THEOREM Sums == Spec => []SumsExact
<1> DEFINE IInv == SumInv /\ DifferenceInv /\ NegateInv /\ DecimalInv
<1>1. Init => IInv
  BY SumsInit, DecimalInit
<1>2. IInv /\ [Next /\ UNCHANGED <<name, width, start>>]_allvars => IInv'
  <2>1. ASSUME IInv, Next, UNCHANGED <<name, width, start>> PROVE IInv'
    <3>1. SumInv' /\ DifferenceInv'
      BY <2>1, SumStep, DifferenceStep
    <3>2. NegateInv'
      <4> SUFFICES ASSUME name = "negate" PROVE (Placed(5) /\ (NegateBy \/ ComplementBy))'
        BY <2>1 DEF NegateInv
      <4>1. Placed(5) /\ (NegateBy \/ ComplementBy)
        BY <2>1 DEF NegateInv
      <4> QED BY <2>1, <4>1, NegateStep, ComplementStep
    <3>3. DecimalInv'
      BY <2>1, DecimalSumStep, DecimalDifferenceStep, UnpackedDifferenceStep, RadixStep DEF DecimalInv
    <3> QED BY <3>1, <3>2, <3>3
  <2>2. ASSUME IInv, UNCHANGED allvars PROVE IInv'
    <3>1. /\ UNCHANGED <<code, regs, flags, ip, trap, name, width, start>>
          /\ Old' = Old /\ Borrowed' = Borrowed /\ R' = R /\ A' = A
      BY <2>2 DEF allvars, vars, Old, Borrowed, R, A, Two
    <3>2. SumInv' /\ DifferenceInv'
      BY <2>2, <3>1 DEF SumInv, DifferenceInv, Placed, SumBy, DifferenceBy
    <3>3. NegateInv'
      BY <2>2, <3>1 DEF NegateInv, Placed, NegateBy, ComplementBy
    <3>4. DecimalInv'
      BY <2>2, <3>1 DEF DecimalInv, DecimalSumInv, DecimalDifferenceInv, UnpackedDifferenceInv,
                        RadixInv, DecimalPlaced, BorrowLeft
    <3> QED BY <3>2, <3>3, <3>4
  <2> QED BY <2>1, <2>2
<1>3. IInv => SumsExact
  <2> SUFFICES ASSUME IInv PROVE SumsExact
    OBVIOUS
  <2>1. WideSumExact
    BY SumEnds, NegateEnds DEF WideSumExact
  <2>2. WideDifferenceExact
    BY DifferenceEnds
  <2>3. DecimalExact
    BY DecimalEnds
  <2> QED BY <2>1, <2>2, <2>3 DEF SumsExact
<1> QED BY <1>1, <1>2, <1>3, PTL DEF Spec

-----------------------------------------------------------------------------
(***************************************************************************)
(* Products and quotients.                                                 *)
(***************************************************************************)

\* A quotient of natural numbers is not greater than the dividend.
LEMMA QuotientBounds ==
  ASSUME NEW m \in Nat, NEW e \in Nat \ {0}, NEW k \in Int, NEW s \in 0..e - 1, m = k * e + s
  PROVE  0 <= k /\ k <= m /\ (e >= 2 => 2 * k <= m)
<1>1. (0 * e <= k * e + s) = (0 <= k)
  BY UpperDecides
<1>2. 0 <= k
  BY <1>1
<1>3. k * e \in Int /\ k * e <= m
  OBVIOUS
<1>4. \A a \in Nat, b \in Nat \ {0} : a * 1 <= a * b /\ (b >= 2 => a * 2 <= a * b)
  OBVIOUS
<1>5. k <= k * e /\ (e >= 2 => 2 * k <= k * e)
  BY <1>2, <1>4
<1> QED BY <1>2, <1>3, <1>5

\* Products and signs.
LEMMA Signs ==
  ASSUME NEW x \in Int, NEW y \in Int
  PROVE  /\ (-x) * y = -(x * y) /\ x * (-y) = -(x * y) /\ (-x) * (-y) = x * y
         /\ x * y = y * x /\ x * y \in Int
OBVIOUS

\* Division in C: what Quotient computes is a quotient, truncated.
LEMMA Truncation ==
  ASSUME NEW n \in Int, NEW d \in Int \ {0}, NEW q, q = Quotient(n, d), NEW r, r = n - d * q
  PROVE  q \in Int /\ r \in Int /\ Divides(n, d, q, r)
<1> DEFINE a == IF n < 0 THEN -n ELSE n
           b == IF d < 0 THEN -d ELSE d
           k == a \div b
           s == a % b
<1>1. a \in Nat /\ b \in Nat \ {0} /\ a \in Int
  OBVIOUS
<1>2. q = IF (n < 0) = (d < 0) THEN k ELSE -k
  BY DEF Quotient
<1>3. k \in Int /\ s \in 0..b - 1 /\ a = b * k + s
  <2> HIDE DEF a, b
  <2> QED BY <1>1, Division
<1> HIDE DEF k, s
<1>4. q \in Int
  BY <1>2, <1>3
<1>5. /\ d * q \in Int /\ d * q = q * d /\ b * k \in Int
      /\ (-d) * k = -(d * k) /\ d * (-k) = -(d * k) /\ (-d) * (-k) = d * k /\ d * k \in Int
  BY <1>1, <1>3, <1>4, Signs
<1>6. r = IF n < 0 THEN -s ELSE s
  <2>1. CASE n < 0 /\ d < 0
    BY <1>2, <1>3, <1>5, <2>1
  <2>2. CASE n < 0 /\ ~(d < 0)
    BY <1>2, <1>3, <1>5, <2>2
  <2>3. CASE ~(n < 0) /\ d < 0
    BY <1>2, <1>3, <1>5, <2>3
  <2>4. CASE ~(n < 0) /\ ~(d < 0)
    BY <1>2, <1>3, <1>5, <2>4
  <2> QED BY <2>1, <2>2, <2>3, <2>4
<1>7. n = q * d + r /\ r \in Int
  BY <1>3, <1>5, <1>6
<1>8. /\ IF d < 0 THEN r > d /\ r < -d ELSE r < d /\ r > -d
      /\ r = 0 \/ (r < 0) = (n < 0)
  BY <1>1, <1>3, <1>6
<1> QED BY <1>4, <1>7, <1>8 DEF Divides

\* A multiple is zero or no smaller than the factor.
LEMMA Multiples ==
  ASSUME NEW k \in Int, NEW d \in Int, IF d < 0 THEN k * d > d /\ k * d < -d ELSE k * d < d /\ k * d > -d
  PROVE  k = 0
<1>1. \A a, b, c \in Int : a <= b /\ 0 <= c => a * c <= b * c
  OBVIOUS
<1>2. \A a, b, c \in Int : a <= b /\ c <= 0 => b * c <= a * c
  OBVIOUS
<1>3. 1 * d = d /\ (-1) * d = -d /\ k * d \in Int
  OBVIOUS
<1>4. CASE k >= 1
  <2>1. IF d < 0 THEN k * d <= d ELSE d <= k * d
    BY <1>1, <1>2, <1>3, <1>4
  <2> QED BY <1>3, <2>1
<1>5. CASE k <= -1
  <2>1. IF d < 0 THEN -d <= k * d ELSE k * d <= -d
    BY <1>1, <1>2, <1>3, <1>5
  <2> QED BY <1>3, <2>1
<1> QED BY <1>4, <1>5

\* There is one truncated quotient.
LEMMA QuotientIs ==
  ASSUME NEW n \in Int, NEW d \in Int \ {0}, NEW q \in Int, NEW r \in Int, Divides(n, d, q, r)
  PROVE  Quotient(n, d) = q /\ n - d * q = r
<1> DEFINE p == Quotient(n, d)
           s == n - d * p
<1>1. p \in Int /\ s \in Int /\ Divides(n, d, p, s)
  BY Truncation
<1> HIDE DEF p, s
<1>2. n = q * d + r /\ n = p * d + s /\ q * d \in Int /\ p * d \in Int /\ d * q = q * d
  BY <1>1, Signs DEF Divides
<1>3. (q - p) * d = q * d - p * d
  BY <1>1
<1>4. (q - p) * d = s - r
  BY <1>1, <1>2, <1>3
<1>5. IF d < 0 THEN s - r > d /\ s - r < -d ELSE s - r < d /\ s - r > -d
  BY <1>1 DEF Divides
<1>6. q - p = 0
  <2> DEFINE k == q - p
  <2>1. k \in Int /\ k * d = s - r
    BY <1>1, <1>4
  <2> HIDE DEF k
  <2>2. IF d < 0 THEN k * d > d /\ k * d < -d ELSE k * d < d /\ k * d > -d
    BY <1>5, <2>1
  <2>3. k = 0
    BY <2>1, <2>2, Multiples
  <2> QED BY <2>3 DEF k
<1>7. q = p
  BY <1>1, <1>6
<1>8. n - d * q = r
  BY <1>2
<1> QED BY <1>7, <1>8 DEF p

\* The signed value of a number, and the number of a signed value.
LEMMA SignedIs ==
  ASSUME NEW w \in 2..Host
  PROVE  /\ \A v \in Nums(w) : Signed(v, w) \in Int /\ InRange(Signed(v, w), w) /\ Cut(Signed(v, w), w) = v
         /\ \A q \in Int : InRange(q, w) => Cut(q, w) \in Nums(w) /\ Signed(Cut(q, w), w) = q
<1> DEFINE P == 2^w
           T == Top(w)
<1>1. P \in Nat \ {0} /\ T \in Nat /\ T >= 2 /\ P = 2 * T /\ w \in 1..2 * Host
  BY WidthIs
<1>2. \A v \in Nums(w) : v \in 0..P - 1 /\ Signed(v, w) = IF v >= T THEN v - P ELSE v
  BY DEF Nums, Signed
<1> HIDE DEF P, T
<1>3. ASSUME NEW v \in Nums(w)
      PROVE  Signed(v, w) \in Int /\ InRange(Signed(v, w), w) /\ Cut(Signed(v, w), w) = v
  <2>1. Signed(v, w) \in Int /\ -T <= Signed(v, w) /\ Signed(v, w) < T
        /\ (Signed(v, w) = v \/ (Signed(v, w) = v - P /\ Signed(v, w) < 0 /\ -P <= Signed(v, w)))
    BY <1>1, <1>2
  <2>2. Cut(Signed(v, w), w) = v
    BY <1>1, <1>2, <2>1, CutNear DEF P
  <2> QED BY <2>1, <2>2 DEF InRange, T
<1>4. ASSUME NEW q \in Int, InRange(q, w)
      PROVE  Cut(q, w) \in Nums(w) /\ Signed(Cut(q, w), w) = q
  <2>1. -T <= q /\ q < T
    BY <1>4 DEF InRange, T
  <2>2. Cut(q, w) = IF q < 0 THEN q + P ELSE q
    BY <1>1, <2>1, CutNear DEF P
  <2>3. Cut(q, w) \in 0..P - 1
    BY <1>1, <2>1, <2>2
  <2>4. Cut(q, w) \in Nums(w)
    BY <2>3 DEF Nums, P
  <2> QED BY <1>1, <1>2, <2>1, <2>2, <2>4
<1> QED BY <1>3, <1>4

\* The registers after SetPair hold the number, in two digits.
LEMMA PairOf ==
  ASSUME NEW w \in 2..Host, NEW v \in 0..2^(2 * w) - 1
  PROVE  /\ Cut(v, w) \in Nums(w) /\ Cut(v \div 2^w, w) \in Nums(w)
         /\ Cut(v \div 2^w, w) * 2^w + Cut(v, w) = v
         /\ (v \div 2^w = 0) = (v < 2^w)
         /\ v \div 2^w \in Nums(w)
<1> DEFINE P == 2^w
           h == v \div P
           l == v % P
<1>1. P \in Nat \ {0} /\ 2^(2 * w) = P * P /\ w \in 1..2 * Host /\ P * P \in Int
  BY WidthIs, DoubleWidth
<1>2. v \in Int /\ 0 <= v /\ v < P * P
  BY <1>1
<1> HIDE DEF P
<1>3. h \in Int /\ l \in 0..P - 1 /\ v = P * h + l
  BY <1>1, <1>2, Division
<1> HIDE DEF h, l
<1>4. v = h * P + l
  BY <1>1, <1>3, Signs
<1>5. (v < P * P) = (h < P) /\ (0 * P <= v) = (0 <= h) /\ (v < 1 * P) = (h < 1)
  BY <1>1, <1>3, <1>4, UpperDecides
<1>6. 0 <= h /\ h < P
  BY <1>1, <1>2, <1>5
<1>7. Cut(h, w) = h /\ Cut(v, w) = l
  BY <1>1, <1>3, <1>6, CutNear DEF Cut, P, l
<1>8. (h = 0) = (v < P)
  BY <1>1, <1>3, <1>5, <1>6
<1> QED BY <1>1, <1>3, <1>4, <1>6, <1>7, <1>8 DEF Nums, P, h

\* The product of two signed numbers is far from the ends of the double width.
LEMMA ProductFits ==
  ASSUME NEW T \in Nat, NEW x \in Int, NEW y \in Int, -T <= x, x < T, -T <= y, y < T
  PROVE  x * y \in Int /\ -(T * T) <= x * y /\ x * y <= T * T
<1>1. \A a, b, c, d \in Nat : a <= c /\ b <= d => a * b <= c * d /\ a * b >= 0
  <2> TAKE a, b, c, d \in Nat
  <2> HAVE a <= c /\ b <= d
  <2>1. a * b <= c * b
    OBVIOUS
  <2>2. c * b <= c * d
    OBVIOUS
  <2>3. a * b \in Nat /\ c * b \in Int /\ c * d \in Int
    OBVIOUS
  <2> QED BY <2>1, <2>2, <2>3
<1>2. T * T \in Int /\ x * y \in Int
  OBVIOUS
<1>3. /\ (-x) * y = -(x * y) /\ x * (-y) = -(x * y) /\ (-x) * (-y) = x * y
  BY Signs
<1>4. CASE x >= 0 /\ y >= 0
  <2>1. x * y <= T * T /\ x * y >= 0
    BY <1>1, <1>4
  <2> QED BY <1>2, <2>1
<1>5. CASE x >= 0 /\ ~(y >= 0)
  <2>1. x \in Nat /\ -y \in Nat /\ -y <= T
    BY <1>5
  <2>2. x * (-y) <= T * T /\ x * (-y) >= 0
    BY <1>1, <2>1
  <2> QED BY <1>2, <1>3, <2>2
<1>6. CASE ~(x >= 0) /\ y >= 0
  <2>1. -x \in Nat /\ y \in Nat /\ -x <= T
    BY <1>6
  <2>2. (-x) * y <= T * T /\ (-x) * y >= 0
    BY <1>1, <2>1
  <2> QED BY <1>2, <1>3, <2>2
<1>7. CASE ~(x >= 0) /\ ~(y >= 0)
  <2>1. -x \in Nat /\ -y \in Nat /\ -x <= T /\ -y <= T
    BY <1>7
  <2>2. (-x) * (-y) <= T * T /\ (-x) * (-y) >= 0
    BY <1>1, <2>1
  <2> QED BY <1>2, <1>3, <2>2
<1> QED BY <1>4, <1>5, <1>6, <1>7

\* MUL: the product, and when it fits.
LEMMA MulExact ==
  ASSUME NEW w \in 2..Host, NEW x \in Nums(w), NEW y \in Nums(w), NEW p, p = x * y
  PROVE  p \in 0..2^(2 * w) - 1 /\ TooWide("mul", p, w) = (p >= 2^w)
<1> DEFINE P == 2^w
<1>1. P \in Nat \ {0} /\ 2^(2 * w) = P * P
  BY WidthIs, DoubleWidth
<1>2. x \in 0..P - 1 /\ y \in 0..P - 1
  BY DEF Nums
<1> HIDE DEF P
<1>3. x * y \in Int /\ 0 <= x * y /\ x * y <= (P - 1) * (P - 1)
  <2>1. 0 <= x * y
    BY <1>1, <1>2
  <2>2. x * y <= x * (P - 1)
    BY <1>1, <1>2
  <2>3. x * (P - 1) <= (P - 1) * (P - 1)
    BY <1>1, <1>2
  <2>4. x * y \in Int /\ x * (P - 1) \in Int /\ (P - 1) * (P - 1) \in Int
    BY <1>1, <1>2
  <2> QED BY <2>1, <2>2, <2>3, <2>4
<1>4. (P - 1) * (P - 1) = P * P - 2 * P + 1 /\ P * P \in Int
  BY <1>1
<1>5. p \in 0..2^(2 * w) - 1
  BY <1>1, <1>3, <1>4
<1>6. (p \div 2^w = 0) = (p < 2^w)
  BY <1>5, PairOf
<1> QED BY <1>1, <1>5, <1>6 DEF TooWide, P

\* A number that wraps around once at most.
LEMMA WrapsOnce ==
  ASSUME NEW n \in Nat \ {0}, NEW v \in Int, -n <= v, v < n
  PROVE  v % n = IF v < 0 THEN v + n ELSE v
OBVIOUS

\* A number p of 2T * 2T, and the signed number s it stands for: a product.
StandsFor(T, S, s, p) ==
  /\ T \in Nat \ {0} /\ T >= 2 /\ S \in Int /\ S = T * T /\ S >= 2 * T
  /\ s \in Int /\ -S <= s /\ s <= S /\ p = IF s < 0 THEN s + 4 * S ELSE s

\* The test of the bits above the lower half is whether the product fits it.
LEMMA SignedProduct ==
  ASSUME NEW T, NEW S, NEW s, NEW p, StandsFor(T, S, s, p)
  PROVE  /\ p \in 0..(4 * S) - 1 /\ (p >= 2 * S) = (s < 0)
         /\ (p \div T \in {0, 4 * T - 1}) = (-T <= s /\ s < T)
<1> USE DEF StandsFor
<1> DEFINE h == p \div T
           l == p % T
<1>1. p \in Int /\ 0 <= p /\ p < 4 * S /\ (p >= 2 * S) = (s < 0)
  OBVIOUS
<1>2. h \in Int /\ l \in 0..T - 1 /\ p = T * h + l
  BY <1>1, Division
<1>3. (4 * T) * T = 4 * S /\ (4 * T - 1) * T = 4 * S - T
  OBVIOUS
<1> HIDE DEF h, l
<1>4. p = h * T + l
  BY <1>2, Signs
<1>5. /\ (p < 1 * T) = (h < 1) /\ (0 * T <= p) = (0 <= h)
      /\ (p < (4 * T) * T) = (h < 4 * T) /\ ((4 * T - 1) * T <= p) = (4 * T - 1 <= h)
  BY <1>2, <1>4, UpperDecides
<1>6. (h = 0) = (p < T) /\ (h = 4 * T - 1) = (p >= 4 * S - T)
  BY <1>1, <1>2, <1>3, <1>5
<1>7. (p < T \/ p >= 4 * S - T) = (-T <= s /\ s < T)
  BY <1>1
<1>8. p \in 0..(4 * S) - 1
  BY <1>1
<1> QED BY <1>1, <1>6, <1>7, <1>8 DEF h

\* IMUL: the product as a signed number, and when it fits.
LEMMA ImulExact ==
  ASSUME NEW w \in 2..Host, NEW x \in Nums(w), NEW y \in Nums(w),
         NEW s, s = Signed(x, w) * Signed(y, w), NEW p, p = s % 2^(2 * w)
  PROVE  /\ s \in Int /\ p \in 0..2^(2 * w) - 1 /\ Signed(p, 2 * w) = s
         /\ -Top(2 * w) < s
         /\ TooWide("imul", p, w) = ~InRange(s, w)
<1> DEFINE T == Top(w)
           S == T * T
<1>1. /\ T \in Nat \ {0} /\ T >= 2 /\ 2^w = 2 * T
      /\ 2^(2 * w) = 2^w * 2^w /\ Top(2 * w) = T * 2^w /\ 2 * w \in 1..2 * Host
  BY WidthIs, DoubleWidth
<1>2. 2^(w + 1) = 4 * T
  <2>1. w \in 0..2 * Host - 1
    BY HostAssumption
  <2> QED BY <1>1, <2>1, PowersOfTwo
<1>3. /\ Signed(x, w) \in Int /\ -T <= Signed(x, w) /\ Signed(x, w) < T
      /\ Signed(y, w) \in Int /\ -T <= Signed(y, w) /\ Signed(y, w) < T
  BY SignedIs DEF InRange, T
<1>4. S \in Int /\ S >= 2 * T /\ (2 * T) * (2 * T) = 4 * S /\ T * (2 * T) = 2 * S
  BY <1>1
<1> HIDE DEF S
<1>5. s \in Int /\ -S <= s /\ s <= S
  BY <1>1, <1>3, ProductFits DEF S
<1> HIDE DEF T
<1>6. 2^(2 * w) = 4 * S /\ Top(2 * w) = 2 * S
  BY <1>1, <1>4
<1>7. 4 * S \in Nat \ {0} /\ s < 4 * S /\ -(4 * S) <= s /\ -(2 * S) < s
  BY <1>1, <1>4, <1>5
<1>8. p = IF s < 0 THEN s + 4 * S ELSE s
  <2>1. p = s % (4 * S)
    BY <1>6
  <2> QED BY <1>5, <1>7, <2>1, WrapsOnce
<1>9. /\ p \in 0..(4 * S) - 1 /\ (p >= 2 * S) = (s < 0)
      /\ (p \div T \in {0, 4 * T - 1}) = (-T <= s /\ s < T)
  <2>1. S = T * T
    BY DEF S
  <2>2. StandsFor(T, S, s, p)
    BY <1>1, <1>4, <1>5, <1>8, <2>1 DEF StandsFor
  <2> QED BY <2>2, SignedProduct
<1>10. Signed(p, 2 * w) = s
  <2>1. Signed(p, 2 * w) = IF s < 0 THEN p - 4 * S ELSE p
    BY <1>6, <1>9 DEF Signed
  <2>2. 4 * S \in Int
    BY <1>7
  <2> QED BY <1>5, <1>8, <2>1, <2>2
<1>11. TooWide("imul", p, w) = ~(-T <= s /\ s < T)
  BY <1>2, <1>9 DEF TooWide, T
<1> QED BY <1>5, <1>6, <1>7, <1>9, <1>10, <1>11 DEF InRange, T

\* The lower half of a product does not depend on the signs.
LEMMA ShortExact ==
  ASSUME NEW w \in 2..Host, NEW x \in Nums(w), NEW y \in Nums(w)
  PROVE  Cut(Product("imul", x, y, w), w) = (x * y) % 2^w
<1> DEFINE P == 2^w
           u == Signed(x, w)
           v == Signed(y, w)
           i == IF x >= Top(w) THEN 1 ELSE 0
           j == IF y >= Top(w) THEN 1 ELSE 0
           p == (u * v) % 2^(2 * w)
<1>1. P \in Nat \ {0} /\ 2^(2 * w) = P * P /\ P * P \in Nat \ {0}
  BY WidthIs, DoubleWidth
<1>2. /\ u = x - (IF i = 1 THEN P ELSE 0) /\ v = y - (IF j = 1 THEN P ELSE 0)
      /\ x \in Int /\ y \in Int /\ i \in {0, 1} /\ j \in {0, 1}
  BY <1>1 DEF Signed, Nums
<1> HIDE DEF u, v, i, j, P
<1>3. \E k \in Int : u * v = P * k + x * y
  <2>1. CASE i = 0 /\ j = 0
    <3>1. u * v = P * 0 + x * y
      BY <1>1, <1>2, <2>1
    <3> QED BY <3>1
  <2>2. CASE i = 1 /\ j = 0
    <3>1. (x - P) * y = P * (-y) + x * y
      BY <1>1, <1>2
    <3>2. u = x - P /\ v = y
      BY <1>1, <1>2, <2>2
    <3>3. u * v = P * (-y) + x * y
      BY <3>1, <3>2
    <3>4. -y \in Int
      BY <1>1, <1>2
    <3> QED BY <3>3, <3>4
  <2>3. CASE i = 0 /\ j = 1
    <3>1. x * (y - P) = P * (-x) + x * y
      BY <1>1, <1>2
    <3>2. u = x /\ v = y - P
      BY <1>1, <1>2, <2>3
    <3>3. u * v = P * (-x) + x * y
      BY <3>1, <3>2
    <3>4. -x \in Int
      BY <1>1, <1>2
    <3> QED BY <3>3, <3>4
  <2>4. CASE i = 1 /\ j = 1
    <3>1. (x - P) * (y - P) = P * (P - x - y) + x * y
      BY <1>1, <1>2
    <3>2. u = x - P /\ v = y - P
      BY <1>1, <1>2, <2>4
    <3>3. u * v = P * (P - x - y) + x * y
      BY <3>1, <3>2
    <3>4. P - x - y \in Int
      BY <1>1, <1>2
    <3> QED BY <3>3, <3>4
  <2> QED BY <1>2, <2>1, <2>2, <2>3, <2>4
<1>4. PICK k \in Int : u * v = P * k + x * y
  BY <1>3
<1>5. u * v \in Int /\ x * y \in Int /\ u \in Int /\ v \in Int
  BY <1>1, <1>2
<1> DEFINE h == (u * v) \div (P * P)
<1>6. h \in Int /\ p \in Int /\ u * v = (P * P) * h + p
  <2> DEFINE s == u * v
             Q == P * P
  <2>1. s \in Int /\ Q \in Nat \ {0}
    BY <1>1, <1>5
  <2> HIDE DEF s, Q
  <2>2. s \div Q \in Int /\ s % Q \in 0..Q - 1 /\ s = Q * (s \div Q) + (s % Q)
    BY <2>1, Division
  <2>3. s % Q \in Int
    BY <2>1, <2>2
  <2> QED BY <1>1, <2>2, <2>3 DEF s, Q
<1> HIDE DEF h, p
<1> DEFINE z == (x * y) % P
           g == (x * y) \div P
<1>7. z \in 0..P - 1 /\ g \in Int /\ x * y = P * g + z
  <2> DEFINE s == x * y
  <2>1. s \in Int
    BY <1>5
  <2> HIDE DEF s
  <2>2. s \div P \in Int /\ s % P \in 0..P - 1 /\ s = P * (s \div P) + (s % P)
    BY <1>1, <2>1, Division
  <2> QED BY <2>2 DEF s
<1> HIDE DEF z, g
<1>8. p = P * (k + g - P * h) + z /\ k + g - P * h \in Int
  <2>1. P * (k + g - P * h) = P * k + P * g - P * (P * h) /\ P * (P * h) = (P * P) * h
    BY <1>1, <1>4, <1>6, <1>7
  <2>2. P * k \in Int /\ P * g \in Int /\ (P * P) * h \in Int /\ P * h \in Int
    BY <1>1, <1>4, <1>6, <1>7
  <2> QED BY <1>1, <1>4, <1>5, <1>6, <1>7, <2>1, <2>2
<1>9. p % P = z
  <2> DEFINE m == k + g - P * h
  <2>1. m \in Int /\ p = P * m + z
    BY <1>8
  <2> HIDE DEF m
  <2> QED BY <1>1, <1>7, <2>1, DivisionUnique
<1>10. Product("imul", x, y, w) = p
  BY DEF Product, p, u, v
<1> QED BY <1>9, <1>10 DEF Cut, P, z

-----------------------------------------------------------------------------
(***************************************************************************)
(* The instructions that multiply and divide.                              *)
(***************************************************************************)

\* What DIV does: a quotient and a remainder, or #DE.
LEMMA DivUnsigned ==
  ASSUME exDIV, I.op = "div", NEW w \in 2..Host, I.w = w,
         NEW n \in Nat, n = Pair(w), NEW d \in Nums(w), d = Src
  PROVE  /\ code' = code /\ flags' = flags
         /\ \/ /\ d # 0 /\ ip' = ip + 1 /\ trap' = trap
               /\ \E q, r \in Nums(w) : /\ Divides(n, d, q, r)
                                        /\ regs' = [regs EXCEPT !["ax"] = q, !["dx"] = r]
            \/ /\ trap' = "#DE" /\ ip' = ip /\ regs' = regs
               /\ d = 0 \/ \E q \in Int, r \in 0..d - 1 : n = q * d + r /\ q >= 2^w
<1> DEFINE P == 2^w
           q == Quotient(n, d)
           r == n - d * q
<1>1. P \in Nat \ {0} /\ w \in 1..2 * Host
  BY WidthIs
<1>2. d \in 0..P - 1
  BY DEF Nums
<1>3. /\ code' = code /\ flags' = flags
      /\ \/ /\ d # 0 /\ q <= Ones(w) /\ ip' = ip + 1 /\ trap' = trap
            /\ regs' = [regs EXCEPT !["ax"] = Cut(q, w), !["dx"] = Cut(r, w)]
         \/ /\ trap' = "#DE" /\ ip' = ip /\ regs' = regs
            /\ d = 0 \/ ~(q <= Ones(w))
  BY DEF exDIV, Fits, Fault, Advance
<1> HIDE DEF P
<1>4. ASSUME d # 0
      PROVE  q \in Int /\ 0 <= q /\ r \in 0..d - 1 /\ n = q * d + r /\ Divides(n, d, q, r)
  <2>1. d \in Int \ {0} /\ n \in Int
    BY <1>1, <1>2, <1>4
  <2>2. q \in Int /\ r \in Int /\ Divides(n, d, q, r)
    BY <2>1, Truncation
  <2> HIDE DEF q, r
  <2>3. n = q * d + r /\ r \in 0..d - 1
    BY <1>1, <1>2, <1>4, <2>2 DEF Divides
  <2>4. d \in Nat \ {0}
    BY <1>1, <1>2, <1>4
  <2>5. (0 * d <= q * d + r) = (0 <= q)
    BY <2>2, <2>3, <2>4, UpperDecides
  <2>6. 0 * d = 0
    BY <2>4
  <2> QED BY <2>2, <2>3, <2>5, <2>6
<1> HIDE DEF q, r
<1>5. CASE d # 0 /\ q <= Ones(w) /\ ip' = ip + 1 /\ trap' = trap
           /\ regs' = [regs EXCEPT !["ax"] = Cut(q, w), !["dx"] = Cut(r, w)]
  <2>1. q \in 0..P - 1 /\ r \in 0..P - 1
    BY <1>1, <1>2, <1>4, <1>5 DEF Ones, P
  <2>2. Cut(q, w) = q /\ Cut(r, w) = r
    BY <1>1, <2>1, CutNear DEF P
  <2>3. q \in Nums(w) /\ r \in Nums(w)
    BY <2>1 DEF Nums, P
  <2> QED BY <1>3, <1>4, <1>5, <2>2, <2>3
<1>6. CASE /\ trap' = "#DE" /\ ip' = ip /\ regs' = regs
           /\ d = 0 \/ ~(q <= Ones(w))
  <2>1. CASE d = 0
    BY <1>3, <1>6, <2>1
  <2>2. CASE d # 0
    <3>1. q \in Int /\ r \in 0..d - 1 /\ n = q * d + r
      BY <1>4, <2>2
    <3>2. q >= 2^w
      BY <1>1, <1>6, <2>2, <3>1 DEF Ones, P
    <3> QED BY <1>3, <1>6, <3>1, <3>2
  <2> QED BY <2>1, <2>2
<1> QED BY <1>3, <1>5, <1>6

\* What IDIV does: the same with signs, and that it may end ex86.
LEMMA DivSigned ==
  ASSUME exDIV, I.op = "idiv", NEW w \in 2..Host, I.w = w,
         NEW n \in Int, n = Signed(Pair(w), 2 * w),
         NEW s \in Nums(w), s = Src, NEW d, d = Signed(s, w)
  PROVE  /\ code' = code /\ flags' = flags
         /\ \/ /\ d # 0 /\ ip' = ip + 1 /\ trap' = trap
               /\ \E q, r \in Int :
                    /\ Divides(n, d, q, r) /\ InRange(q, w) /\ InRange(r, w)
                    /\ regs' = [regs EXCEPT !["ax"] = Cut(q, w), !["dx"] = Cut(r, w)]
            \/ /\ trap' \in {"#DE", "host"} /\ ip' = ip /\ regs' = regs
               /\ d = 0 \/ \E q, r \in Int : Divides(n, d, q, r) /\ ~InRange(q, w)
               /\ trap' = "host" => d = -1 /\ n = -Top(2 * w)
<1> DEFINE T == Top(w)
           q == Quotient(n, d)
           r == n - d * q
<1>1. T \in Nat \ {0} /\ d \in Int /\ -T <= d /\ d < T
  BY WidthIs, SignedIs DEF InRange
<1>2. /\ code' = code /\ flags' = flags
      /\ \/ /\ d # 0 /\ -T <= q /\ q < T /\ ip' = ip + 1 /\ trap' = trap
            /\ regs' = [regs EXCEPT !["ax"] = Cut(q, w), !["dx"] = Cut(r, w)]
         \/ /\ trap' = "#DE" /\ ip' = ip /\ regs' = regs
            /\ d = 0 \/ ~(-T <= q /\ q < T)
         \/ /\ trap' \in {"#DE", "host"} /\ ip' = ip /\ regs' = regs /\ d = -1 /\ n = -Top(2 * w)
  BY DEF exDIV, Fits, Fault, Advance
<1>3. ASSUME d # 0 PROVE q \in Int /\ r \in Int /\ Divides(n, d, q, r)
  BY <1>1, <1>3, Truncation
<1> HIDE DEF q, r, T
<1>4. CASE d # 0 /\ -T <= q /\ q < T /\ ip' = ip + 1 /\ trap' = trap
           /\ regs' = [regs EXCEPT !["ax"] = Cut(q, w), !["dx"] = Cut(r, w)]
  <2>1. q \in Int /\ r \in Int /\ Divides(n, d, q, r)
    BY <1>3, <1>4
  <2>2. -T <= r /\ r < T
    BY <1>1, <2>1 DEF Divides
  <2> QED BY <1>2, <1>4, <2>1, <2>2 DEF InRange, T
<1>5. CASE /\ trap' = "#DE" /\ ip' = ip /\ regs' = regs
           /\ d = 0 \/ ~(-T <= q /\ q < T)
  <2>1. CASE d = 0
    BY <1>2, <1>5, <2>1
  <2>2. CASE d # 0
    <3>1. q \in Int /\ r \in Int /\ Divides(n, d, q, r) /\ ~InRange(q, w)
      BY <1>3, <1>5, <2>2 DEF InRange, T
    <3> QED BY <1>2, <1>5, <3>1
  <2> QED BY <2>1, <2>2
<1>6. CASE trap' \in {"#DE", "host"} /\ ip' = ip /\ regs' = regs /\ d = -1 /\ n = -Top(2 * w)
  <2>1. Top(2 * w) \in Int /\ Top(2 * w) > T
    <3>1. Top(2 * w) = T * 2^w /\ 2^w = 2 * T
      BY WidthIs, DoubleWidth DEF T
    <3>2. T * (2 * T) \in Int /\ T * (2 * T) > T
      <4>1. \A a, b \in Nat \ {0} : b >= 2 => a * b > a /\ a * b \in Int
        OBVIOUS
      <4>2. 2 * T \in Nat \ {0} /\ 2 * T >= 2
        BY <1>1
      <4> QED BY <1>1, <4>1, <4>2
    <3> QED BY <3>1, <3>2
  <2>2. Divides(n, d, Top(2 * w), 0)
    BY <1>6, <2>1 DEF Divides
  <2>3. ~InRange(Top(2 * w), w)
    BY <1>1, <2>1 DEF InRange, T
  <2>4. 0 \in Int
    OBVIOUS
  <2> QED BY <1>2, <1>6, <2>1, <2>2, <2>3, <2>4
<1> QED BY <1>2, <1>4, <1>5, <1>6


\* MUL and IMUL leave the product in the pair and say whether it fits.
LEMMA MulStep ==
  ASSUME exMUL, NEW w \in 2..Host, I.w = w, DOMAIN regs = Regs, flags \in Flags,
         NEW x \in Nums(w), x = regs["ax"], NEW y \in Nums(w), y = Src
  PROVE  /\ ip' = ip + 1 /\ code' = code /\ trap' = trap
         /\ flags' \in Flags /\ DOMAIN regs' = Regs /\ regs'["bx"] = regs["bx"]
         /\ regs'["ax"] \in Nums(w) /\ regs'["dx"] \in Nums(w)
         /\ I.op = "mul" => /\ Pair(w)' = x * y
                            /\ flags'.cf = Flag(x * y >= 2^w)
         /\ I.op = "imul" => /\ Signed(Pair(w)', 2 * w) = Signed(x, w) * Signed(y, w)
                             /\ flags'.cf = Flag(~InRange(Signed(x, w) * Signed(y, w), w))
<1> DEFINE p == Product(I.op, x, y, w)
<1>1. /\ ip' = ip + 1 /\ code' = code /\ trap' = trap
      /\ regs' = SetPair(p, w) /\ SetCarryOverflow(TooWide(I.op, p, w)) /\ I.op \in {"mul", "imul"}
  BY DEF exMUL, Advance, Running
<1> HIDE DEF p
<1>2. I.op = "mul" => p = x * y
  BY DEF Product, p
<1>3. I.op = "imul" => p = (Signed(x, w) * Signed(y, w)) % 2^(2 * w)
  BY DEF Product, p
<1>4. /\ p \in 0..2^(2 * w) - 1
      /\ I.op = "mul" => TooWide("mul", p, w) = (x * y >= 2^w)
      /\ I.op = "imul" => /\ Signed(p, 2 * w) = Signed(x, w) * Signed(y, w)
                          /\ TooWide("imul", p, w) = ~InRange(Signed(x, w) * Signed(y, w), w)
  <2>1. CASE I.op = "mul"
    BY <1>2, <2>1, MulExact
  <2>2. CASE I.op = "imul"
    BY <1>3, <2>2, ImulExact
  <2> QED BY <1>1, <2>1, <2>2
<1>5. /\ DOMAIN regs' = Regs /\ regs'["bx"] = regs["bx"]
      /\ regs'["ax"] = Cut(p, w) /\ regs'["dx"] = Cut(p \div 2^w, w)
  BY <1>1 DEF SetPair, Regs
<1>6. regs'["ax"] \in Nums(w) /\ regs'["dx"] \in Nums(w) /\ Pair(w)' = p
  <2>1. Pair(w)' = regs'["dx"] * 2^w + regs'["ax"]
    BY DEF Pair
  <2> QED BY <1>4, <1>5, <2>1, PairOf
<1>7. flags' \in Flags /\ flags'.cf = Flag(TooWide(I.op, p, w))
  BY <1>1 DEF SetCarryOverflow, Flags, FlagNames, Flag
<1>8. CASE I.op = "mul"
  BY <1>1, <1>2, <1>4, <1>5, <1>6, <1>7, <1>8
<1>9. CASE I.op = "imul"
  BY <1>1, <1>4, <1>5, <1>6, <1>7, <1>9
<1> QED BY <1>1, <1>8, <1>9

\* A product divided by a factor is the other factor.
LEMMA DivBack ==
  ASSUME exDIV, I.op = "div", NEW w \in 2..Host, I.w = w, DOMAIN regs = Regs,
         NEW x \in Nums(w), NEW y \in Nums(w), y # 0, y = Src, Pair(w) = x * y
  PROVE  /\ code' = code /\ flags' = flags /\ ip' = ip + 1 /\ trap' = trap
         /\ DOMAIN regs' = Regs /\ regs'["ax"] = x /\ regs'["dx"] = 0 /\ regs'["bx"] = regs["bx"]
<1>1. 2^w \in Nat /\ x \in Nat /\ x < 2^w /\ y \in Int \ {0} /\ y \in Nat /\ x * y \in Int
  BY WidthIs DEF Nums
<1>2. x * y \in Nat /\ y * x = x * y
  <2>1. \A a, b \in Nat : a * b \in Nat
    OBVIOUS
  <2> QED BY <1>1, <2>1, Signs
<1>3. Quotient(x * y, y) = x
  <2> DEFINE n == x * y
  <2>1. Divides(n, y, x, 0)
    BY <1>1, <1>2 DEF Divides
  <2>2. n \in Int /\ x \in Int /\ 0 \in Int
    BY <1>1
  <2> HIDE DEF n
  <2>3. Quotient(n, y) = x
    BY <1>1, <2>1, <2>2, QuotientIs
  <2> QED BY <2>3 DEF n
<1>4. \/ /\ code' = code /\ flags' = flags /\ ip' = ip + 1 /\ trap' = trap
         /\ \E q, r \in Nums(w) : /\ Divides(x * y, y, q, r)
                                  /\ regs' = [regs EXCEPT !["ax"] = q, !["dx"] = r]
      \/ \E q \in Int, r \in 0..y - 1 : x * y = q * y + r /\ q >= 2^w
  <2> DEFINE n == x * y
  <2>1. n \in Nat /\ n = Pair(w)
    BY <1>2
  <2> HIDE DEF n
  <2>2. /\ code' = code /\ flags' = flags
        /\ \/ /\ y # 0 /\ ip' = ip + 1 /\ trap' = trap
              /\ \E q, r \in Nums(w) : /\ Divides(n, y, q, r)
                                       /\ regs' = [regs EXCEPT !["ax"] = q, !["dx"] = r]
           \/ /\ trap' = "#DE" /\ ip' = ip /\ regs' = regs
              /\ y = 0 \/ \E q \in Int, r \in 0..y - 1 : n = q * y + r /\ q >= 2^w
    BY <2>1, DivUnsigned
  <2> QED BY <2>2 DEF n
<1>5. ~ \E q \in Int, r \in 0..y - 1 : x * y = q * y + r /\ q >= 2^w
  <2> SUFFICES ASSUME NEW q \in Int, NEW r \in 0..y - 1, x * y = q * y + r, q >= 2^w PROVE FALSE
    OBVIOUS
  <2>1. r \in Int /\ r < y /\ r >= 0
    BY <1>1
  <2>2. Divides(x * y, y, q, r)
    BY <1>1, <1>2, <2>1 DEF Divides
  <2>3. q = x
    BY <1>1, <1>3, <2>1, <2>2, QuotientIs
  <2> QED BY <1>1, <2>3
<1>6. PICK q \in Nums(w), r \in Nums(w) :
        Divides(x * y, y, q, r) /\ regs' = [regs EXCEPT !["ax"] = q, !["dx"] = r]
  BY <1>4, <1>5
<1>7. q = x /\ r = 0
  <2>1. q \in Int /\ r \in Int
    BY <1>1 DEF Nums
  <2>2. Quotient(x * y, y) = q /\ x * y - y * q = r
    BY <1>1, <1>6, <2>1, QuotientIs
  <2> QED BY <1>1, <1>2, <1>3, <2>2
<1> QED BY <1>4, <1>5, <1>6, <1>7 DEF Regs

\* The same with signs.
LEMMA IdivBack ==
  ASSUME exDIV, I.op = "idiv", NEW w \in 2..Host, I.w = w, DOMAIN regs = Regs,
         NEW x \in Nums(w), NEW y \in Nums(w), y # 0, y = Src,
         Signed(Pair(w), 2 * w) = Signed(x, w) * Signed(y, w)
  PROVE  /\ code' = code /\ flags' = flags /\ ip' = ip + 1 /\ trap' = trap
         /\ DOMAIN regs' = Regs /\ regs'["ax"] = x /\ regs'["dx"] = 0 /\ regs'["bx"] = regs["bx"]
<1> DEFINE u == Signed(x, w)
           d == Signed(y, w)
           n == u * d
<1>1. u \in Int /\ InRange(u, w) /\ Cut(u, w) = x /\ d \in Int /\ Cut(d, w) = y
  BY SignedIs
<1>2. Cut(0, w) = 0
  <2>1. 2^w \in Nat \ {0} /\ w \in 1..2 * Host
    BY WidthIs
  <2> QED BY <2>1, CutNear
<1>3. d # 0
  BY <1>1, <1>2
<1>4. n = Signed(Pair(w), 2 * w)
  OBVIOUS
<1>5. n \in Int /\ d * u = n
  <2>1. u * d \in Int /\ d * u = u * d
    BY <1>1, Signs
  <2> QED BY <2>1
<1>6. Divides(n, d, u, 0)
  BY <1>1, <1>3, <1>5 DEF Divides
<1> HIDE DEF n, d, u
<1>7. \A q, r \in Int : Divides(n, d, q, r) => q = u /\ r = 0
  <2> SUFFICES ASSUME NEW q \in Int, NEW r \in Int, Divides(n, d, q, r) PROVE q = u /\ r = 0
    OBVIOUS
  <2>1. d \in Int \ {0} /\ 0 \in Int
    BY <1>1, <1>3
  <2>2. Quotient(n, d) = q /\ n - d * q = r
    BY <1>5, <2>1, QuotientIs
  <2>3. Quotient(n, d) = u
    BY <1>1, <1>5, <1>6, <2>1, QuotientIs
  <2> QED BY <1>5, <2>2, <2>3
<1>8. /\ code' = code /\ flags' = flags
      /\ \/ /\ d # 0 /\ ip' = ip + 1 /\ trap' = trap
            /\ \E q, r \in Int :
                 /\ Divides(n, d, q, r) /\ InRange(q, w) /\ InRange(r, w)
                 /\ regs' = [regs EXCEPT !["ax"] = Cut(q, w), !["dx"] = Cut(r, w)]
         \/ /\ trap' \in {"#DE", "host"} /\ ip' = ip /\ regs' = regs
            /\ d = 0 \/ \E q, r \in Int : Divides(n, d, q, r) /\ ~InRange(q, w)
            /\ trap' = "host" => d = -1 /\ n = -Top(2 * w)
  <2>1. d = Signed(y, w)
    BY DEF d
  <2> QED BY <1>4, <1>5, <2>1, DivSigned
<1>9. ~ \E q, r \in Int : Divides(n, d, q, r) /\ ~InRange(q, w)
  BY <1>1, <1>7
<1>10. ip' = ip + 1 /\ trap' = trap /\ regs' = [regs EXCEPT !["ax"] = x, !["dx"] = 0]
  BY <1>1, <1>2, <1>3, <1>7, <1>8, <1>9
<1> QED BY <1>8, <1>10 DEF Regs

\* The width does not reach the end of its double.
LEMMA DoubleTop ==
  ASSUME NEW w \in 2..Host
  PROVE  Top(2 * w) \in Int /\ Top(2 * w) > Top(w)
<1> DEFINE T == Top(w)
<1>1. T \in Nat \ {0} /\ Top(2 * w) = T * 2^w /\ 2^w = 2 * T
  BY WidthIs, DoubleWidth
<1> HIDE DEF T
<1>2. \A a, b \in Nat \ {0} : b >= 2 => a * b > a /\ a * b \in Int
  OBVIOUS
<1>3. 2 * T \in Nat \ {0} /\ 2 * T >= 2
  BY <1>1
<1> QED BY <1>1, <1>2, <1>3 DEF T

\* CWD extends the sign: the pair stands for the same number.
LEMMA ExtendStep ==
  ASSUME exConvSiz, NEW w \in 2..Host, I.w = w, DOMAIN regs = Regs,
         NEW x \in Nums(w), x = regs["ax"]
  PROVE  /\ ip' = ip + 1 /\ code' = code /\ trap' = trap
         /\ DOMAIN regs' = Regs /\ regs'["bx"] = regs["bx"] /\ regs'["ax"] = x
         /\ regs'["dx"] \in Nums(w)
         /\ Signed(Pair(w)', 2 * w) = Signed(x, w)
<1> DEFINE P == 2^w
           T == Top(w)
           h == IF Msb(x, w) = 1 THEN Ones(w) ELSE 0
<1>1. P \in Nat \ {0} /\ T \in Nat \ {0} /\ P = 2 * T
  BY WidthIs
<1>2. (Msb(x, w) = 1) = (x >= T)
  <2>1. x \in Int /\ 0 <= x /\ x < 2^w /\ w \in 1..2 * Host
    BY <1>1, WidthIs DEF Nums
  <2>2. Cut(x, w) = x
    BY <2>1, CutNear
  <2> QED BY <2>1, <2>2, SignOf DEF T
<1>3. ip' = ip + 1 /\ code' = code /\ trap' = trap /\ regs' = [regs EXCEPT !["dx"] = h]
  BY DEF exConvSiz, Advance
<1>4. h \in Nums(w) /\ Signed(h, w) = IF x >= T THEN -1 ELSE 0
  <2>1. h = IF x >= T THEN P - 1 ELSE 0
    BY <1>2 DEF Ones
  <2>2. Signed(h, w) = IF h >= T THEN h - P ELSE h
    BY DEF Signed
  <2> HIDE DEF h, P, T
  <2>3. h \in 0..P - 1
    BY <1>1, <2>1
  <2> QED BY <1>1, <2>1, <2>2, <2>3 DEF Nums, P
<1> HIDE DEF h
<1>5. /\ DOMAIN regs' = Regs /\ regs'["bx"] = regs["bx"] /\ regs'["ax"] = x /\ regs'["dx"] = h
  BY <1>3 DEF Regs
<1>6. Signed(h * 2^w + x, 2 * w) = Signed(h, w) * 2^w + x
  BY <1>4, SignedDouble
<1>7. Signed(h, w) * 2^w + x = Signed(x, w)
  <2>1. x \in Int
    BY <1>1 DEF Nums
  <2>2. Signed(x, w) = IF x >= T THEN x - P ELSE x
    BY DEF Signed
  <2>3. Signed(h, w) * 2^w = IF x >= T THEN -P ELSE 0
    BY <1>1, <1>4
  <2> HIDE DEF P, T
  <2> QED BY <1>1, <2>1, <2>2, <2>3
<1>8. Pair(w)' = h * 2^w + x
  BY <1>5 DEF Pair
<1> QED BY <1>3, <1>4, <1>5, <1>6, <1>7, <1>8

\* A number of the width has a quotient of the width, but for the least one by -1.
LEMMA QuotientFits ==
  ASSUME NEW T \in Nat \ {0}, NEW n \in Int, -T <= n, n < T, NEW d \in Int \ {0},
         NEW q \in Int, NEW r \in Int, Divides(n, d, q, r), ~(-T <= q /\ q < T)
  PROVE  d = -1 /\ n = -T
<1> DEFINE m == IF n < 0 THEN -n ELSE n
           e == IF d < 0 THEN -d ELSE d
           k == IF (n < 0) = (d < 0) THEN q ELSE -q
           s == IF n < 0 THEN -r ELSE r
<1>1. m \in Nat /\ e \in Nat \ {0} /\ k \in Int /\ m <= T
  OBVIOUS
<1>2. n = q * d + r /\ q * d \in Int /\ s \in 0..e - 1
  BY DEF Divides
<1>3. /\ (-q) * d = -(q * d) /\ q * (-d) = -(q * d) /\ (-q) * (-d) = q * d
  BY Signs
<1>4. m = k * e + s
  <2>1. CASE n < 0 /\ d < 0
    BY <1>2, <1>3, <2>1
  <2>2. CASE n < 0 /\ ~(d < 0)
    BY <1>2, <1>3, <2>2
  <2>3. CASE ~(n < 0) /\ d < 0
    BY <1>2, <1>3, <2>3
  <2>4. CASE ~(n < 0) /\ ~(d < 0)
    BY <1>2, <1>3, <2>4
  <2> QED BY <2>1, <2>2, <2>3, <2>4
<1>5. 0 <= k /\ k <= m /\ (e >= 2 => 2 * k <= m)
  <2> HIDE DEF m, e, k, s
  <2> QED BY <1>1, <1>2, <1>4, QuotientBounds
<1>6. e < 2
  BY <1>1, <1>5
<1>7. q >= T
  BY <1>1, <1>5
<1> QED BY <1>1, <1>5, <1>6, <1>7

-----------------------------------------------------------------------------
(***************************************************************************)
(* The routines that multiply and divide.                                  *)
(***************************************************************************)

\* Registers and operands of these routines; none of them writes to bx.
ProductPlaced(n) ==
  /\ width \in 2..Host /\ ip \in 1..n /\ DOMAIN regs = Regs /\ flags \in Flags
  /\ Old["ax"] \in Nums(width) /\ Old["bx"] \in Nums(width) /\ Old["dx"] \in Nums(width)
  /\ regs["bx"] = Old["bx"]
  /\ ip = 1 => regs["ax"] = Old["ax"] /\ regs["dx"] = Old["dx"]

\* The products, unsigned and signed, and when they fit.
MulProduct == Old["ax"] * Old["bx"]
ImulProduct == Signed(Old["ax"], width) * Signed(Old["bx"], width)

MulBy ==
  /\ code = MultiplyDivide("mul", "div", width)
  /\ ip = 2 => Pair(width) = MulProduct
  /\ ip > 1 => flags.cf = Flag(MulProduct >= 2^width)

ImulBy ==
  /\ code = MultiplyDivide("imul", "idiv", width)
  /\ ip = 2 => Signed(Pair(width), 2 * width) = ImulProduct
  /\ ip > 1 => flags.cf = Flag(~InRange(ImulProduct, width))

MultiplyInv ==
  name = "multiply_divide" =>
    /\ ProductPlaced(3) /\ trap = "none" /\ Old["bx"] # 0
    /\ MulBy \/ ImulBy
    /\ ip = 3 => regs["ax"] = Old["ax"] /\ regs["dx"] = 0

DivideInv ==
  name = "divide" =>
    /\ ProductPlaced(2) /\ code = Divide("div", width)
    /\ ip = 2 => trap = "none" /\ Divides(A, Old["bx"], regs["ax"], regs["dx"])
    /\ trap # "none" => trap = "#DE" /\ (Old["bx"] = 0 \/ Old["dx"] >= Old["bx"])

\* No number of the width is the quotient.
NoQuotient(n, d) == d = 0 \/ \A q \in -Top(width)..Top(width) - 1 : ~Divides(n, d, q, n - q * d)

SignedDivideInv ==
  name = "signed_divide" =>
    /\ ProductPlaced(2) /\ code = Divide("idiv", width)
    /\ LET d == Signed(Old["bx"], width)
           n == Signed(A, 2 * width)
       IN  /\ ip = 2 => Divides(n, d, Signed(regs["ax"], width), Signed(regs["dx"], width))
           /\ trap # "none" => NoQuotient(n, d)
           /\ trap = "host" => Least(d)

ExtendDivideInv ==
  name = "extend_divide" =>
    /\ ProductPlaced(3) /\ code = SignedDivide(width)
    /\ ip = 2 => Signed(Pair(width), 2 * width) = Signed(Old["ax"], width)
    /\ trap # "none" => /\ trap = "#DE"
                        /\ LET d == Signed(Old["bx"], width)
                           IN  d = 0 \/ (d = -1 /\ Old["ax"] = Top(width))

ShortProductInv ==
  name = "short_product" =>
    /\ ProductPlaced(2) /\ code = ShortProduct(width)
    /\ ip = 2 => regs["ax"] = (Old["ax"] * Old["bx"]) % 2^width

ProductInv == MultiplyInv /\ DivideInv /\ SignedDivideInv /\ ExtendDivideInv /\ ShortProductInv

\* The programs of these routines.
LEMMA MultiplyCode ==
  ASSUME NEW mul, NEW div, NEW w, NEW p, p = MultiplyDivide(mul, div, w)
  PROVE  /\ Len(p) = 2 /\ p[1].op = mul /\ p[1].s = "bx" /\ p[1].w = w
         /\ p[2].op = div /\ p[2].s = "bx" /\ p[2].w = w
BY DEF MultiplyDivide, AX, RR

\* The program of one division.
LEMMA DivideCode ==
  ASSUME NEW div, NEW w, NEW p, p = Divide(div, w)
  PROVE  Len(p) = 1 /\ p[1].op = div /\ p[1].s = "bx" /\ p[1].w = w
BY DEF Divide, AX, RR

\* The program that extends the sign.
LEMMA ExtendCode ==
  ASSUME NEW w, NEW p, p = SignedDivide(w)
  PROVE  /\ Len(p) = 2 /\ p[1].op = "cwd" /\ p[1].w = w
         /\ p[2].op = "idiv" /\ p[2].s = "bx" /\ p[2].w = w
BY DEF SignedDivide, AX, RR

\* The program of the short product.
LEMMA ShortCode ==
  ASSUME NEW w, NEW p, p = ShortProduct(w)
  PROVE  Len(p) = 1 /\ p[1].op = "imul2" /\ p[1].d = "ax" /\ p[1].s = "bx" /\ p[1].w = w
BY DEF ShortProduct, AX, RR

\* The products and the quotients that undo them.
LEMMA MultiplyStep ==
  ASSUME MultiplyInv, Next, UNCHANGED <<name, width, start>>
  PROVE  MultiplyInv'
<1> SUFFICES ASSUME name = "multiply_divide" PROVE MultiplyInv'
  BY DEF MultiplyInv
<1>1. /\ ProductPlaced(3) /\ trap = "none" /\ Old["bx"] # 0
      /\ MulBy \/ ImulBy
  BY DEF MultiplyInv
<1> DEFINE a == Old["ax"]
           b == Old["bx"]
<1>2. /\ width \in 2..Host /\ ip \in 1..3 /\ DOMAIN regs = Regs /\ flags \in Flags
      /\ a \in Nums(width) /\ b \in Nums(width) /\ regs["bx"] = b /\ Old["dx"] \in Nums(width) /\ b # 0
      /\ ip = 1 => regs["ax"] = a
  BY <1>1 DEF ProductPlaced
<1>3. /\ name' = name /\ width' = width /\ Old' = Old
      /\ MulProduct' = MulProduct /\ ImulProduct' = ImulProduct
  BY DEF Old, MulProduct, ImulProduct
<1>4. \E mul \in {"mul", "imul"} :
        /\ code = MultiplyDivide(mul, IF mul = "mul" THEN "div" ELSE "idiv", width)
        /\ mul = "mul" => MulBy
        /\ mul = "imul" => ImulBy
  BY <1>1 DEF MulBy, ImulBy
<1>5. PICK mul \in {"mul", "imul"} :
        /\ code = MultiplyDivide(mul, IF mul = "mul" THEN "div" ELSE "idiv", width)
        /\ mul = "mul" => MulBy
        /\ mul = "imul" => ImulBy
  BY <1>4
<1>6. /\ Len(code) = 2 /\ code[1].op = mul /\ code[1].s = "bx" /\ code[1].w = width
      /\ code[2].op = (IF mul = "mul" THEN "div" ELSE "idiv") /\ code[2].s = "bx" /\ code[2].w = width
  <2> DEFINE div == IF mul = "mul" THEN "div" ELSE "idiv"
  <2>1. code = MultiplyDivide(mul, div, width)
    BY <1>5
  <2> HIDE DEF div
  <2>2. /\ Len(code) = 2 /\ code[1].op = mul /\ code[1].s = "bx" /\ code[1].w = width
        /\ code[2].op = div /\ code[2].s = "bx" /\ code[2].w = width
    BY <2>1, MultiplyCode
  <2> QED BY <2>2 DEF div
<1>7. ip \in 1..2
  BY <1>2, <1>6, Dispatch
<1>8. SUFFICES /\ ip' \in {2, 3} /\ trap' = "none" /\ DOMAIN regs' = Regs /\ flags' \in Flags
               /\ regs'["bx"] = b /\ (MulBy \/ ImulBy)'
               /\ ip' = 3 => regs'["ax"] = a /\ regs'["dx"] = 0
  BY <1>2, <1>3, <1>8 DEF MultiplyInv, ProductPlaced
<1>9. CASE ip = 1
  <2>1. exMUL /\ I.op = mul /\ I.w = width /\ Src = b /\ regs["ax"] = a /\ trap = "none"
    BY <1>2, <1>5, <1>6, <1>9, Dispatch DEF I, Src
  <2>2. /\ ip' = ip + 1 /\ code' = code /\ trap' = trap
        /\ flags' \in Flags /\ DOMAIN regs' = Regs /\ regs'["bx"] = regs["bx"]
        /\ I.op = "mul" => /\ Pair(width)' = a * b
                           /\ flags'.cf = Flag(a * b >= 2^width)
        /\ I.op = "imul" => /\ Signed(Pair(width)', 2 * width) = Signed(a, width) * Signed(b, width)
                            /\ flags'.cf = Flag(~InRange(Signed(a, width) * Signed(b, width), width))
    BY <1>2, <2>1, MulStep
  <2>3. ip' = 2
    BY <1>9, <2>2
  <2>4. CASE mul = "mul"
    <3>1. MulBy'
      BY <1>3, <1>5, <2>1, <2>2, <2>3, <2>4 DEF MulBy, MulProduct, Pair
    <3> QED BY <1>2, <2>1, <2>2, <2>3, <3>1
  <2>5. CASE mul = "imul"
    <3>1. ImulBy'
      BY <1>3, <1>5, <2>1, <2>2, <2>3, <2>5 DEF ImulBy, ImulProduct, Pair
    <3> QED BY <1>2, <2>1, <2>2, <2>3, <3>1
  <2> QED BY <2>4, <2>5
<1>10. CASE ip = 2
  <2>1. /\ exDIV /\ I.op = (IF mul = "mul" THEN "div" ELSE "idiv") /\ I.w = width /\ Src = b
        /\ trap = "none"
    BY <1>2, <1>5, <1>6, <1>10, Dispatch DEF I, Src
  <2>2. CASE mul = "mul"
    <3>1. Pair(width) = a * b /\ flags.cf = Flag(MulProduct >= 2^width)
      BY <1>5, <1>10, <2>2 DEF MulBy, MulProduct
    <3>2. /\ code' = code /\ flags' = flags /\ ip' = ip + 1 /\ trap' = trap
          /\ DOMAIN regs' = Regs /\ regs'["ax"] = a /\ regs'["dx"] = 0 /\ regs'["bx"] = regs["bx"]
      BY <1>2, <2>1, <2>2, <3>1, DivBack
    <3>3. MulBy' /\ ip' = 3
      BY <1>3, <1>5, <1>10, <2>2, <3>1, <3>2 DEF MulBy
    <3> QED BY <1>2, <2>1, <3>2, <3>3
  <2>3. CASE mul = "imul"
    <3>1. /\ Signed(Pair(width), 2 * width) = Signed(a, width) * Signed(b, width)
          /\ flags.cf = Flag(~InRange(ImulProduct, width))
      BY <1>5, <1>10, <2>3 DEF ImulBy, ImulProduct
    <3>2. /\ code' = code /\ flags' = flags /\ ip' = ip + 1 /\ trap' = trap
          /\ DOMAIN regs' = Regs /\ regs'["ax"] = a /\ regs'["dx"] = 0 /\ regs'["bx"] = regs["bx"]
      BY <1>2, <2>1, <2>3, <3>1, IdivBack
    <3>3. ImulBy' /\ ip' = 3
      BY <1>3, <1>5, <1>10, <2>3, <3>1, <3>2 DEF ImulBy
    <3> QED BY <1>2, <2>1, <3>2, <3>3
  <2> QED BY <2>2, <2>3
<1> QED BY <1>7, <1>9, <1>10

\* DIV: the quotient of a number of double width, or #DE.
LEMMA DivideStep ==
  ASSUME DivideInv, Next, UNCHANGED <<name, width, start>>
  PROVE  DivideInv'
<1> SUFFICES ASSUME name = "divide" PROVE DivideInv'
  BY DEF DivideInv
<1> DEFINE d == Old["bx"]
           P == 2^width
<1>1. /\ ProductPlaced(2) /\ code = Divide("div", width)
      /\ width \in 2..Host /\ ip \in 1..2 /\ DOMAIN regs = Regs /\ flags \in Flags
      /\ Old["ax"] \in Nums(width) /\ d \in Nums(width) /\ Old["dx"] \in Nums(width) /\ regs["bx"] = d
      /\ ip = 1 => regs["ax"] = Old["ax"] /\ regs["dx"] = Old["dx"]
  BY DEF DivideInv, ProductPlaced
<1>2. name' = name /\ width' = width /\ Old' = Old /\ A' = A
  BY DEF Old, A, Two
<1>3. Len(code) = 1 /\ code[1].op = "div" /\ code[1].s = "bx" /\ code[1].w = width
  BY <1>1, DivideCode
<1>4. ip = 1 /\ trap = "none"
  <2>1. ip <= Len(code) /\ trap = "none"
    BY Dispatch
  <2>2. ip \in 1..2 /\ Len(code) = 1
    BY <1>1, <1>3
  <2> QED BY <2>1, <2>2
<1>5. exDIV /\ I.op = "div" /\ I.w = width /\ Src = d
  BY <1>1, <1>3, <1>4, Dispatch DEF I, Src
<1>6. P \in Nat \ {0} /\ d \in 0..P - 1 /\ Old["ax"] \in 0..P - 1 /\ Old["dx"] \in 0..P - 1
  BY <1>1, WidthIs DEF Nums
<1>7. A = Old["dx"] * P + Old["ax"] /\ A = Pair(width) /\ A \in Nat
  <2>1. A = Old["dx"] * P + Old["ax"] /\ A = Pair(width)
    BY <1>1, <1>4 DEF A, Two, Pair
  <2>2. A \in 0..P * P - 1
    BY <1>1, <2>1, SignedDouble
  <2>3. P * P \in Int
    BY <1>6
  <2> QED BY <2>1, <2>2, <2>3
<1>8. /\ code' = code /\ flags' = flags
      /\ \/ /\ d # 0 /\ ip' = ip + 1 /\ trap' = trap
            /\ \E q, r \in Nums(width) : /\ Divides(A, d, q, r)
                                         /\ regs' = [regs EXCEPT !["ax"] = q, !["dx"] = r]
         \/ /\ trap' = "#DE" /\ ip' = ip /\ regs' = regs
            /\ d = 0 \/ \E q \in Int, r \in 0..d - 1 : A = q * d + r /\ q >= 2^width
  BY <1>1, <1>5, <1>7, DivUnsigned
<1>9. CASE /\ d # 0 /\ ip' = ip + 1 /\ trap' = trap
           /\ \E q, r \in Nums(width) : /\ Divides(A, d, q, r)
                                        /\ regs' = [regs EXCEPT !["ax"] = q, !["dx"] = r]
  <2>1. PICK q \in Nums(width), r \in Nums(width) :
          Divides(A, d, q, r) /\ regs' = [regs EXCEPT !["ax"] = q, !["dx"] = r]
    BY <1>9
  <2>2. /\ ip' = 2 /\ trap' = "none" /\ DOMAIN regs' = Regs /\ regs'["bx"] = d
        /\ regs'["ax"] = q /\ regs'["dx"] = r
    BY <1>1, <1>4, <1>9, <2>1 DEF Regs
  <2> QED BY <1>1, <1>2, <1>8, <2>1, <2>2 DEF DivideInv, ProductPlaced
<1>10. CASE /\ trap' = "#DE" /\ ip' = ip /\ regs' = regs
            /\ d = 0 \/ \E q \in Int, r \in 0..d - 1 : A = q * d + r /\ q >= 2^width
  <2>1. d = 0 \/ Old["dx"] >= d
    <3> SUFFICES ASSUME d # 0 PROVE Old["dx"] >= d
      BY <1>6
    <3>1. PICK q \in Int, r \in 0..d - 1 : A = q * d + r /\ q >= P
      BY <1>10
    <3> DEFINE u == Old["dx"]
               l == Old["ax"]
    <3> HIDE DEF d, P, u, l
    <3>2. u \in Int /\ l \in 0..P - 1 /\ d \in Int /\ d \in Nat /\ A = u * P + l
      BY <1>6, <1>7 DEF u, l
    <3>3. P * d <= q * d /\ P * d = d * P /\ P * d \in Int /\ q * d \in Int
      <4>1. \A x, y \in Int, z \in Nat : x <= y => x * z <= y * z
        OBVIOUS
      <4> QED BY <1>6, <3>1, <3>2, <4>1
    <3>4. r \in Int /\ 0 <= r
      BY <1>6
    <3>5. d * P <= u * P + l
      BY <3>1, <3>2, <3>3, <3>4
    <3>6. (d * P <= u * P + l) = (d <= u)
      BY <1>6, <3>2, UpperDecides
    <3> QED BY <3>2, <3>5, <3>6 DEF u
  <2> QED BY <1>1, <1>2, <1>4, <1>8, <1>10, <2>1 DEF DivideInv, ProductPlaced
<1> QED BY <1>8, <1>9, <1>10

\* IDIV: the truncated quotient of a number of double width, #DE, or the end of ex86.
LEMMA SignedDivideStep ==
  ASSUME SignedDivideInv, Next, UNCHANGED <<name, width, start>>
  PROVE  SignedDivideInv'
<1> SUFFICES ASSUME name = "signed_divide" PROVE SignedDivideInv'
  BY DEF SignedDivideInv
<1> DEFINE b == Old["bx"]
           d == Signed(b, width)
           n == Signed(A, 2 * width)
<1>1. /\ ProductPlaced(2) /\ code = Divide("idiv", width)
      /\ width \in 2..Host /\ ip \in 1..2 /\ DOMAIN regs = Regs /\ flags \in Flags
      /\ Old["ax"] \in Nums(width) /\ b \in Nums(width) /\ Old["dx"] \in Nums(width) /\ regs["bx"] = b
      /\ ip = 1 => regs["ax"] = Old["ax"] /\ regs["dx"] = Old["dx"]
  BY DEF SignedDivideInv, ProductPlaced
<1>2. name' = name /\ width' = width /\ Old' = Old /\ A' = A
  BY DEF Old, A, Two
<1>3. Len(code) = 1 /\ code[1].op = "idiv" /\ code[1].s = "bx" /\ code[1].w = width
  BY <1>1, DivideCode
<1>4. ip = 1 /\ trap = "none"
  <2>1. ip <= Len(code) /\ trap = "none"
    BY Dispatch
  <2>2. ip \in 1..2 /\ Len(code) = 1
    BY <1>1, <1>3
  <2> QED BY <2>1, <2>2
<1>5. exDIV /\ I.op = "idiv" /\ I.w = width /\ Src = b
  BY <1>1, <1>3, <1>4, Dispatch DEF I, Src
<1>6. A = Pair(width) /\ n \in Int
  <2>1. A = Old["dx"] * 2^width + Old["ax"] /\ A = Pair(width)
    BY <1>1, <1>4 DEF A, Two, Pair
  <2>2. n = Signed(Old["dx"], width) * 2^width + Old["ax"] /\ Signed(Old["dx"], width) \in Int
    BY <1>1, <2>1, SignedDouble
  <2>3. Old["ax"] \in Int /\ 2^width \in Int
    BY <1>1, WidthIs
  <2> QED BY <2>1, <2>2, <2>3
<1>7. d \in Int
  BY <1>1, SignedIs
<1>8. n = Signed(Pair(width), 2 * width)
  BY <1>6
<1> HIDE DEF n
<1>9. /\ code' = code /\ flags' = flags
      /\ \/ /\ d # 0 /\ ip' = ip + 1 /\ trap' = trap
            /\ \E q, r \in Int :
                 /\ Divides(n, d, q, r) /\ InRange(q, width) /\ InRange(r, width)
                 /\ regs' = [regs EXCEPT !["ax"] = Cut(q, width), !["dx"] = Cut(r, width)]
         \/ /\ trap' \in {"#DE", "host"} /\ ip' = ip /\ regs' = regs
            /\ d = 0 \/ \E q, r \in Int : Divides(n, d, q, r) /\ ~InRange(q, width)
            /\ trap' = "host" => d = -1 /\ n = -Top(2 * width)
  BY <1>1, <1>5, <1>6, <1>8, DivSigned
<1> HIDE DEF d, b
<1>10. SUFFICES /\ ip' \in 1..2 /\ DOMAIN regs' = Regs /\ regs'["bx"] = b
                /\ ip' = 1 => regs' = regs
                /\ ip' = 2 => Divides(n, d, Signed(regs'["ax"], width), Signed(regs'["dx"], width))
                /\ trap' # "none" => NoQuotient(n, d)
                /\ trap' = "host" => d = -1 /\ n = -Top(2 * width)
  <2>1. n' = n /\ d' = d /\ NoQuotient(n, d)' = NoQuotient(n, d)
    BY <1>2 DEF n, d, b, NoQuotient
  <2>2. ProductPlaced(2)'
    BY <1>1, <1>2, <1>4, <1>9, <1>10 DEF ProductPlaced, b
  <2>3. Least(d)' = (d = -1 /\ n = -Top(2 * width))
    BY <1>2 DEF Least, n, d, b
  <2>4. NoQuotient(n, d) = (NoQuotient(Signed(A, 2 * width), Signed(Old["bx"], width)))'
    BY <1>2 DEF n, d, b, NoQuotient
  <2> QED BY <1>1, <1>2, <1>9, <1>10, <2>2, <2>3, <2>4 DEF SignedDivideInv, n, d, b
<1>11. CASE /\ d # 0 /\ ip' = ip + 1 /\ trap' = trap
            /\ \E q, r \in Int :
                 /\ Divides(n, d, q, r) /\ InRange(q, width) /\ InRange(r, width)
                 /\ regs' = [regs EXCEPT !["ax"] = Cut(q, width), !["dx"] = Cut(r, width)]
  <2>1. PICK q \in Int, r \in Int :
          /\ Divides(n, d, q, r) /\ InRange(q, width) /\ InRange(r, width)
          /\ regs' = [regs EXCEPT !["ax"] = Cut(q, width), !["dx"] = Cut(r, width)]
    BY <1>11
  <2>2. /\ ip' = 2 /\ trap' = "none" /\ DOMAIN regs' = Regs /\ regs'["bx"] = b
        /\ regs'["ax"] = Cut(q, width) /\ regs'["dx"] = Cut(r, width)
    BY <1>1, <1>4, <1>11, <2>1 DEF Regs
  <2>3. Signed(Cut(q, width), width) = q /\ Signed(Cut(r, width), width) = r
    BY <1>1, <2>1, SignedIs
  <2> QED BY <2>1, <2>2, <2>3
<1>12. CASE /\ trap' \in {"#DE", "host"} /\ ip' = ip /\ regs' = regs
            /\ d = 0 \/ \E q, r \in Int : Divides(n, d, q, r) /\ ~InRange(q, width)
            /\ trap' = "host" => d = -1 /\ n = -Top(2 * width)
  <2>1. NoQuotient(n, d)
    <3> SUFFICES ASSUME d # 0, NEW q \in -Top(width)..Top(width) - 1, Divides(n, d, q, n - q * d)
                 PROVE  FALSE
      BY DEF NoQuotient
    <3>1. PICK p \in Int, r \in Int : Divides(n, d, p, r) /\ ~InRange(p, width)
      BY <1>12
    <3>2. Top(width) \in Int
      BY <1>1, WidthIs
    <3>3. q \in Int /\ InRange(q, width) /\ q * d \in Int
      BY <1>7, <3>2 DEF InRange
    <3>4. n - q * d \in Int /\ d \in Int \ {0}
      BY <1>6, <1>7, <3>3
    <3>5. Quotient(n, d) = p
      BY <1>6, <3>1, <3>4, QuotientIs
    <3>6. Quotient(n, d) = q
      <4> DEFINE s == n - q * d
      <4>1. s \in Int /\ Divides(n, d, q, s)
        BY <3>4
      <4> HIDE DEF s
      <4> QED BY <1>6, <3>3, <3>4, <4>1, QuotientIs
    <3> QED BY <3>1, <3>3, <3>5, <3>6
  <2> QED BY <1>1, <1>4, <1>12, <2>1
<1> QED BY <1>9, <1>11, <1>12

\* CWD and IDIV: the quotient of a number of single width exists, with one exception.
LEMMA ExtendDivideStep ==
  ASSUME ExtendDivideInv, Next, UNCHANGED <<name, width, start>>
  PROVE  ExtendDivideInv'
<1> SUFFICES ASSUME name = "extend_divide" PROVE ExtendDivideInv'
  BY DEF ExtendDivideInv
<1> DEFINE a == Old["ax"]
           b == Old["bx"]
           d == Signed(b, width)
           n == Signed(a, width)
           T == Top(width)
<1>1. /\ ProductPlaced(3) /\ code = SignedDivide(width)
      /\ width \in 2..Host /\ ip \in 1..3 /\ DOMAIN regs = Regs /\ flags \in Flags
      /\ a \in Nums(width) /\ b \in Nums(width) /\ Old["dx"] \in Nums(width) /\ regs["bx"] = b
      /\ ip = 1 => regs["ax"] = a
  BY DEF ExtendDivideInv, ProductPlaced
<1>2. name' = name /\ width' = width /\ Old' = Old
  BY DEF Old
<1>3. /\ Len(code) = 2 /\ code[1].op = "cwd" /\ code[1].w = width
      /\ code[2].op = "idiv" /\ code[2].s = "bx" /\ code[2].w = width
  BY <1>1, ExtendCode
<1>4. ip \in 1..2 /\ trap = "none"
  <2>1. ip <= Len(code) /\ trap = "none"
    BY Dispatch
  <2> QED BY <1>1, <1>3, <2>1
<1>5. CASE ip = 1
  <2>1. exConvSiz /\ I.w = width /\ regs["ax"] = a
    BY <1>1, <1>3, <1>5, Dispatch DEF I
  <2>2. /\ ip' = ip + 1 /\ code' = code /\ trap' = trap
        /\ DOMAIN regs' = Regs /\ regs'["bx"] = regs["bx"]
        /\ Signed(Pair(width)', 2 * width) = n
    BY <1>1, <2>1, ExtendStep
  <2>3. flags' = flags /\ ip' = 2
    BY <1>5, <2>1, <2>2 DEF exConvSiz
  <2> QED BY <1>1, <1>2, <1>4, <2>2, <2>3 DEF ExtendDivideInv, ProductPlaced, Pair
<1>6. CASE ip = 2
  <2>1. exDIV /\ I.op = "idiv" /\ I.w = width /\ Src = b
    BY <1>1, <1>3, <1>6, Dispatch DEF I, Src
  <2>2. n = Signed(Pair(width), 2 * width)
    BY <1>6 DEF ExtendDivideInv
  <2>3. n \in Int /\ -T <= n /\ n < T /\ d \in Int /\ T \in Nat \ {0}
    BY <1>1, SignedIs, WidthIs DEF InRange
  <2>4. /\ code' = code /\ flags' = flags
        /\ \/ /\ d # 0 /\ ip' = ip + 1 /\ trap' = trap
              /\ \E q, r \in Int :
                   regs' = [regs EXCEPT !["ax"] = Cut(q, width), !["dx"] = Cut(r, width)]
           \/ /\ trap' \in {"#DE", "host"} /\ ip' = ip /\ regs' = regs
              /\ d = 0 \/ \E q, r \in Int : Divides(n, d, q, r) /\ ~InRange(q, width)
              /\ trap' = "host" => d = -1 /\ n = -Top(2 * width)
    BY <1>1, <2>1, <2>2, <2>3, DivSigned
  <2>5. CASE /\ d # 0 /\ ip' = ip + 1 /\ trap' = trap
             /\ \E q, r \in Int :
                  regs' = [regs EXCEPT !["ax"] = Cut(q, width), !["dx"] = Cut(r, width)]
    <3>1. ip' = 3 /\ trap' = "none" /\ DOMAIN regs' = Regs /\ regs'["bx"] = b
      BY <1>1, <1>4, <1>6, <2>5 DEF Regs
    <3> QED BY <1>1, <1>2, <2>4, <3>1 DEF ExtendDivideInv, ProductPlaced
  <2>6. CASE /\ trap' \in {"#DE", "host"} /\ ip' = ip /\ regs' = regs
             /\ d = 0 \/ \E q, r \in Int : Divides(n, d, q, r) /\ ~InRange(q, width)
             /\ trap' = "host" => d = -1 /\ n = -Top(2 * width)
    <3>1. trap' = "#DE"
      <4>1. Top(2 * width) \in Int /\ Top(2 * width) > T
        BY <1>1, DoubleTop
      <4> HIDE DEF n, T
      <4> QED BY <2>3, <2>6, <4>1
    <3>2. d = 0 \/ (d = -1 /\ n = -T)
      <4> HIDE DEF n, d, T
      <4> SUFFICES ASSUME d # 0 PROVE d = -1 /\ n = -T
        OBVIOUS
      <4>1. PICK q \in Int, r \in Int : Divides(n, d, q, r) /\ ~InRange(q, width)
        BY <2>6
      <4>2. ~(-T <= q /\ q < T)
        BY <4>1 DEF InRange, T
      <4> QED BY <2>3, <4>1, <4>2, QuotientFits
    <3>3. n = -T => a = T
      <4>1. n = (IF a >= T THEN a - 2^width ELSE a) /\ 2^width = 2 * T /\ a \in Int /\ 0 <= a
        BY <1>1, WidthIs DEF Signed, Nums
      <4> HIDE DEF n, T, a
      <4> QED BY <2>3, <4>1
    <3>4. Pair(width)' = Pair(width)
      BY <1>2, <2>6 DEF Pair
    <3> QED BY <1>1, <1>2, <1>6, <2>2, <2>4, <2>6, <3>1, <3>2, <3>3, <3>4 DEF ExtendDivideInv, ProductPlaced
  <2> QED BY <2>4, <2>5, <2>6
<1> QED BY <1>4, <1>5, <1>6

\* IMUL with two operands leaves the lower half of the product.
LEMMA ShortProductStep ==
  ASSUME ShortProductInv, Next, UNCHANGED <<name, width, start>>
  PROVE  ShortProductInv'
<1> SUFFICES ASSUME name = "short_product" PROVE ShortProductInv'
  BY DEF ShortProductInv
<1> DEFINE a == Old["ax"]
           b == Old["bx"]
           p == Product("imul", a, b, width)
<1>1. /\ ProductPlaced(2) /\ code = ShortProduct(width)
      /\ width \in 2..Host /\ ip \in 1..2 /\ DOMAIN regs = Regs /\ flags \in Flags
      /\ a \in Nums(width) /\ b \in Nums(width) /\ Old["dx"] \in Nums(width) /\ regs["bx"] = b
      /\ ip = 1 => regs["ax"] = a
  BY DEF ShortProductInv, ProductPlaced
<1>2. name' = name /\ width' = width /\ Old' = Old
  BY DEF Old
<1>3. Len(code) = 1 /\ code[1].op = "imul2" /\ code[1].d = "ax" /\ code[1].s = "bx" /\ code[1].w = width
  BY <1>1, ShortCode
<1>4. ip = 1 /\ trap = "none"
  <2>1. ip <= Len(code) /\ trap = "none"
    BY Dispatch
  <2>2. ip \in 1..2 /\ Len(code) = 1
    BY <1>1, <1>3
  <2> QED BY <2>1, <2>2
<1>5. exIMUL2Op /\ Dst = a /\ Src = b /\ I.w = width /\ I.d = "ax"
  BY <1>1, <1>3, <1>4, Dispatch DEF I, Dst, Src
<1>6. /\ ip' = ip + 1 /\ code' = code /\ trap' = trap
      /\ regs' = [regs EXCEPT !["ax"] = Cut(p, width)]
      /\ SetCarryOverflow(TooWide("imul", p, width))
  BY <1>5 DEF exIMUL2Op, Advance
<1>7. Cut(p, width) = (a * b) % 2^width
  BY <1>1, ShortExact
<1> HIDE DEF p
<1>8. flags' \in Flags
  BY <1>1, <1>6 DEF SetCarryOverflow, Flags, FlagNames, Flag
<1>9. DOMAIN regs' = Regs /\ regs'["bx"] = b /\ regs'["ax"] = (a * b) % 2^width /\ ip' = 2
  BY <1>1, <1>4, <1>6, <1>7 DEF Regs
<1> QED BY <1>1, <1>2, <1>6, <1>8, <1>9 DEF ShortProductInv, ProductPlaced

\* What every one of these routines starts from.
LEMMA ProductStart ==
  ASSUME Init, name \in Product_names
  PROVE  /\ ProductPlaced(1) /\ trap = "none"
         /\ name = "multiply_divide" => /\ Old["bx"] # 0
                                        /\ code \in {MultiplyDivide("mul", "div", width),
                                                     MultiplyDivide("imul", "idiv", width)}
         /\ name = "divide" => code = Divide("div", width)
         /\ name = "signed_divide" => code = Divide("idiv", width)
         /\ name = "extend_divide" => code = SignedDivide(width)
         /\ name = "short_product" => code = ShortProduct(width)
<1>1. PICK w \in Widths : InitProducts(w)
  BY Names DEF Init, Decimal_names, Product_names, Shift_names, Loop_names, Branchless_names
<1> DEFINE V == Values(w)
           E == Edges(w)
           M == MultiplyDivide("mul", "div", w)
           N == MultiplyDivide("imul", "idiv", w)
<1>2. ip = 1 /\ trap = "none"
  BY DEF Init
<1>3. w \in 2..Host /\ V \subseteq Nums(w) /\ E \subseteq Nums(w) /\ Z \subseteq Nums(w)
  <2>1. w \in 2..Host /\ V \subseteq Nums(w) /\ E \subseteq Nums(w)
    BY OperandsFit
  <2>2. 2^w \in Nat /\ 2^w > 0
    BY <2>1, WidthIs
  <2> QED BY <2>1, <2>2 DEF Z, Nums
<1>4. \/ Start("multiply_divide", w, M, V, V \ Z, Z, Z, Z)
      \/ Start("multiply_divide", w, N, V, V \ Z, Z, Z, Z)
      \/ Start("divide", w, Divide("div", w), V, E, Z, V, Z)
      \/ Start("signed_divide", w, Divide("idiv", w), V, E, Z, V, Z)
      \/ Start("extend_divide", w, SignedDivide(w), V, V, Z, Z, Z)
      \/ Start("short_product", w, ShortProduct(w), V, V, Z, Z, Z)
  BY <1>1 DEF InitProducts
<1> HIDE DEF V, E, M, N
<1>5. ASSUME NEW n, NEW c, NEW X \in SUBSET Nums(w), NEW Y \in SUBSET Nums(w),
             NEW D \in SUBSET Nums(w), Start(n, w, c, X, Y, Z, D, Z)
      PROVE  name = n /\ code = c /\ width = w /\ ProductPlaced(1) /\ Old["bx"] \in Y
  <2>1. /\ name = n /\ width = w /\ code = c
        /\ regs = start.regs /\ DOMAIN regs = Regs
        /\ regs["ax"] \in X /\ regs["bx"] \in Y /\ regs["dx"] \in D
        /\ start.cf \in {0, 1} /\ flags = [f \in FlagNames |-> IF f = "cf" THEN start.cf ELSE 0]
    BY <1>5, Started
  <2>2. flags \in Flags
    BY <2>1 DEF Flags
  <2>3. Old = regs /\ regs["ax"] \in Nums(w) /\ regs["bx"] \in Nums(w) /\ regs["dx"] \in Nums(w)
    BY <2>1 DEF Old
  <2> QED BY <1>2, <1>3, <2>1, <2>2, <2>3 DEF ProductPlaced
<1>6. CASE Start("multiply_divide", w, M, V, V \ Z, Z, Z, Z)
  <2>1. /\ name = "multiply_divide" /\ code = M /\ width = w /\ ProductPlaced(1)
        /\ Old["bx"] \in V \ Z
    BY <1>3, <1>5, <1>6
  <2> QED BY <1>2, <2>1 DEF Z, M
<1>7. CASE Start("multiply_divide", w, N, V, V \ Z, Z, Z, Z)
  <2>1. /\ name = "multiply_divide" /\ code = N /\ width = w /\ ProductPlaced(1)
        /\ Old["bx"] \in V \ Z
    BY <1>3, <1>5, <1>7
  <2> QED BY <1>2, <2>1 DEF Z, N
<1>8. CASE Start("divide", w, Divide("div", w), V, E, Z, V, Z)
  <2>1. name = "divide" /\ code = Divide("div", w) /\ width = w /\ ProductPlaced(1)
    BY <1>3, <1>5, <1>8
  <2> QED BY <1>2, <2>1
<1>9. CASE Start("signed_divide", w, Divide("idiv", w), V, E, Z, V, Z)
  <2>1. name = "signed_divide" /\ code = Divide("idiv", w) /\ width = w /\ ProductPlaced(1)
    BY <1>3, <1>5, <1>9
  <2> QED BY <1>2, <2>1
<1>10. CASE Start("extend_divide", w, SignedDivide(w), V, V, Z, Z, Z)
  <2>1. name = "extend_divide" /\ code = SignedDivide(w) /\ width = w /\ ProductPlaced(1)
    BY <1>3, <1>5, <1>10
  <2> QED BY <1>2, <2>1
<1>11. CASE Start("short_product", w, ShortProduct(w), V, V, Z, Z, Z)
  <2>1. name = "short_product" /\ code = ShortProduct(w) /\ width = w /\ ProductPlaced(1)
    BY <1>3, <1>5, <1>11
  <2> QED BY <1>2, <2>1
<1> QED BY <1>4, <1>6, <1>7, <1>8, <1>9, <1>10, <1>11

\* The invariants hold at the start.
LEMMA ProductInit ==
  ASSUME Init
  PROVE  ProductInv
<1>1. ip = 1 /\ trap = "none"
  BY DEF Init
<1>2. ProductPlaced(1) => ProductPlaced(2) /\ ProductPlaced(3)
  <2>1. ip \in 1..2 /\ ip \in 1..3
    BY <1>1
  <2> QED BY <2>1 DEF ProductPlaced
<1>3. MultiplyInv
  <2> SUFFICES ASSUME name = "multiply_divide"
               PROVE  /\ ProductPlaced(3) /\ Old["bx"] # 0
                      /\ code \in {MultiplyDivide("mul", "div", width),
                                   MultiplyDivide("imul", "idiv", width)}
    BY <1>1 DEF MultiplyInv, MulBy, ImulBy
  <2> QED BY <1>2, ProductStart DEF Product_names
<1>4. DivideInv
  BY <1>1, <1>2, ProductStart DEF DivideInv, Product_names
<1>5. SignedDivideInv
  BY <1>1, <1>2, ProductStart DEF SignedDivideInv, Product_names
<1>6. ExtendDivideInv
  BY <1>1, <1>2, ProductStart DEF ExtendDivideInv, Product_names
<1>7. ShortProductInv
  BY <1>1, <1>2, ProductStart DEF ShortProductInv, Product_names
<1> QED BY <1>3, <1>4, <1>5, <1>6, <1>7 DEF ProductInv

\* What the products have computed when they end.
LEMMA ProductEnds ==
  ASSUME ProductInv
  PROVE  ProductDividesBack
<1>1. name = "multiply_divide" => trap = "none"
  BY DEF ProductInv, MultiplyInv
<1>2. ASSUME Ended({"multiply_divide"}), NEW mul, mul = (code[1].op = "mul"),
             NEW x, x = IF mul THEN Old["ax"] ELSE Signed(Old["ax"], width),
             NEW y, y = IF mul THEN Old["bx"] ELSE Signed(Old["bx"], width)
      PROVE  /\ regs["ax"] = Old["ax"] /\ regs["dx"] = 0
             /\ (flags.cf = 0) = (IF mul THEN x * y < 2^width ELSE InRange(x * y, width))
  <2>1. name = "multiply_divide" /\ ip > Len(code) /\ MultiplyInv
    BY <1>2 DEF Ended, Finished, ProductInv
  <2>2. ProductPlaced(3) /\ (MulBy \/ ImulBy) /\ (ip = 3 => regs["ax"] = Old["ax"] /\ regs["dx"] = 0)
    BY <2>1 DEF MultiplyInv
  <2>3. CASE MulBy
    <3>1. code = MultiplyDivide("mul", "div", width)
      BY <2>3 DEF MulBy
    <3>2. Len(code) = 2 /\ mul = TRUE
      <4>1. Len(code) = 2 /\ code[1].op = "mul"
        BY <3>1, MultiplyCode
      <4> QED BY <1>2, <4>1
    <3>3. ip = 3
      BY <2>1, <2>2, <3>2 DEF ProductPlaced
    <3>4. flags.cf = Flag(Old["ax"] * Old["bx"] >= 2^width)
      BY <2>3, <3>3 DEF MulBy, MulProduct
    <3>5. (Old["ax"] * Old["bx"] >= 2^width) = ~(Old["ax"] * Old["bx"] < 2^width)
      <4>1. Old["ax"] \in Int /\ Old["bx"] \in Int /\ 2^width \in Int
        BY <2>2, WidthIs DEF ProductPlaced
      <4>2. Old["ax"] * Old["bx"] \in Int
        BY <4>1
      <4> QED BY <4>1, <4>2
    <3>6. x = Old["ax"] /\ y = Old["bx"]
      BY <1>2, <3>2
    <3>7. (flags.cf = 0) = (x * y < 2^width)
      BY <3>4, <3>5, <3>6 DEF Flag
    <3> QED BY <2>2, <3>2, <3>3, <3>7
  <2>4. CASE ImulBy
    <3>1. code = MultiplyDivide("imul", "idiv", width)
      BY <2>4 DEF ImulBy
    <3>2. Len(code) = 2 /\ mul = FALSE
      <4>1. Len(code) = 2 /\ code[1].op = "imul"
        BY <3>1, MultiplyCode
      <4> QED BY <1>2, <4>1
    <3>3. ip = 3
      BY <2>1, <2>2, <3>2 DEF ProductPlaced
    <3>4. flags.cf = Flag(~InRange(Signed(Old["ax"], width) * Signed(Old["bx"], width), width))
      BY <2>4, <3>3 DEF ImulBy, ImulProduct
    <3>5. x = Signed(Old["ax"], width) /\ y = Signed(Old["bx"], width)
      BY <1>2, <3>2
    <3>6. (flags.cf = 0) = InRange(x * y, width)
      BY <3>4, <3>5 DEF Flag, InRange
    <3> QED BY <2>2, <3>2, <3>3, <3>6
  <2> QED BY <2>2, <2>3, <2>4
<1>3. ASSUME Ended({"short_product"})
      PROVE  regs["ax"] = (Old["ax"] * Old["bx"]) % 2^width
  <2>1. name = "short_product" /\ ip > Len(code) /\ ShortProductInv
    BY <1>3 DEF Ended, Finished, ProductInv
  <2>2. code = ShortProduct(width) /\ ip \in 1..2
    BY <2>1 DEF ShortProductInv, ProductPlaced
  <2>3. Len(code) = 1
    BY <2>2, ShortCode
  <2>4. ip = 2
    BY <2>1, <2>2, <2>3
  <2> QED BY <2>1, <2>4 DEF ShortProductInv
<1> QED BY <1>1, <1>2, <1>3 DEF ProductDividesBack

\* What the quotients are when they end, and why they may fault.
LEMMA QuotientEnds ==
  ASSUME ProductInv
  PROVE  DivideExactOrFaults
<1>1. ASSUME name = "divide"
      PROVE  /\ Finished => Divides(A, Old["bx"], regs["ax"], regs["dx"])
             /\ trap # "none" => trap = "#DE" /\ (Old["bx"] = 0 \/ Old["dx"] >= Old["bx"])
  <2>1. DivideInv
    BY DEF ProductInv
  <2>2. code = Divide("div", width) /\ ip \in 1..2
    BY <1>1, <2>1 DEF DivideInv, ProductPlaced
  <2>3. Len(code) = 1
    BY <2>2, DivideCode
  <2>4. Finished => ip = 2
    BY <2>2, <2>3 DEF Finished
  <2> QED BY <1>1, <2>1, <2>4 DEF DivideInv
<1>2. ASSUME name = "signed_divide", NEW d, d = Signed(Old["bx"], width),
             NEW n, n = Signed(A, 2 * width)
      PROVE  /\ Finished => Divides(n, d, Signed(regs["ax"], width), Signed(regs["dx"], width))
             /\ trap # "none" =>
                  d = 0 \/ \A q \in -Top(width)..Top(width) - 1 : ~Divides(n, d, q, n - q * d)
             /\ trap = "host" => Least(d)
  <2>1. SignedDivideInv
    BY DEF ProductInv
  <2>2. code = Divide("idiv", width) /\ ip \in 1..2
    BY <1>2, <2>1 DEF SignedDivideInv, ProductPlaced
  <2>3. Len(code) = 1
    BY <2>2, DivideCode
  <2>4. Finished => ip = 2
    BY <2>2, <2>3 DEF Finished
  <2>5. /\ ip = 2 => Divides(n, d, Signed(regs["ax"], width), Signed(regs["dx"], width))
        /\ trap # "none" => NoQuotient(n, d)
        /\ trap = "host" => Least(d)
    BY <1>2, <2>1 DEF SignedDivideInv
  <2> QED BY <2>4, <2>5 DEF NoQuotient
<1>3. ASSUME name = "extend_divide", NEW d, d = Signed(Old["bx"], width)
      PROVE  trap # "none" => trap = "#DE" /\ (d = 0 \/ (d = -1 /\ Old["ax"] = Top(width)))
  BY <1>3 DEF ProductInv, ExtendDivideInv
<1> QED BY <1>1, <1>2, <1>3 DEF DivideExactOrFaults

\* Multiplication and division are exact, and inverse, wherever they do not fault,
\* whatever the width and the operands (exMUL, exIMUL2Op, exDIV, exConvSiz).
THEOREM Products == Spec => []ProductsExact
<1>1. Init => ProductInv
  BY ProductInit
<1>2. ProductInv /\ [Next /\ UNCHANGED <<name, width, start>>]_allvars => ProductInv'
  <2>1. ASSUME ProductInv, Next, UNCHANGED <<name, width, start>> PROVE ProductInv'
    BY <2>1, MultiplyStep, DivideStep, SignedDivideStep, ExtendDivideStep, ShortProductStep
       DEF ProductInv
  <2>2. ASSUME ProductInv, UNCHANGED allvars PROVE ProductInv'
    <3>1. /\ UNCHANGED <<code, regs, flags, ip, trap, name, width, start>>
          /\ Old' = Old /\ A' = A /\ Pair(width)' = Pair(width)
          /\ MulProduct' = MulProduct /\ ImulProduct' = ImulProduct
      BY <2>2 DEF allvars, vars, Old, A, Two, Pair, MulProduct, ImulProduct
    <3>2. MultiplyInv'
      BY <2>2, <3>1 DEF ProductInv, MultiplyInv, ProductPlaced, MulBy, ImulBy
    <3>3. DivideInv' /\ ShortProductInv' /\ ExtendDivideInv'
      BY <2>2, <3>1 DEF ProductInv, DivideInv, ShortProductInv, ExtendDivideInv, ProductPlaced
    <3>4. SignedDivideInv'
      BY <2>2, <3>1 DEF ProductInv, SignedDivideInv, ProductPlaced, NoQuotient, Least
    <3> QED BY <3>2, <3>3, <3>4 DEF ProductInv
  <2> QED BY <2>1, <2>2
<1>3. ProductInv => ProductsExact
  BY ProductEnds, QuotientEnds DEF ProductsExact
<1> QED BY <1>1, <1>2, <1>3, PTL DEF Spec

-----------------------------------------------------------------------------
(***************************************************************************)
(* Shifts and rotations.                                                   *)
(***************************************************************************)

\* The values after each of n turns: what the recursion of Shifted defines.
Turns(f, op, x, w, n) ==
  f = [k \in 0..n |-> IF k = 0 THEN x ELSE ShiftOnce(op, f[k - 1], w)]

\* There is always one more turn.
LEMMA TurnsExtend ==
  ASSUME NEW op, NEW x, NEW w, NEW n \in Nat, NEW f, Turns(f, op, x, w, n)
  PROVE  \E g : Turns(g, op, x, w, n + 1)
<1> DEFINE g == [k \in 0..n + 1 |-> IF k = n + 1 THEN ShiftOnce(op, f[n], w) ELSE f[k]]
           h == [k \in 0..n + 1 |-> IF k = 0 THEN x ELSE ShiftOnce(op, g[k - 1], w)]
<1>1. \A k \in 0..n : f[k] = IF k = 0 THEN x ELSE ShiftOnce(op, f[k - 1], w)
  BY Zenon DEF Turns
<1>2. ASSUME NEW k \in 0..n + 1 PROVE g[k] = h[k]
  <2>1. CASE k = n + 1
    <3>1. g[k] = ShiftOnce(op, f[n], w)
      BY <2>1
    <3>2. g[n] = f[n] /\ k # 0 /\ k - 1 = n
      BY <2>1
    <3>3. h[k] = ShiftOnce(op, g[n], w)
      BY <2>1, <3>2
    <3> QED BY <3>1, <3>2, <3>3
  <2>2. CASE k # n + 1 /\ k # 0
    <3>1. k \in 0..n /\ k - 1 \in 0..n /\ k - 1 \in 0..n + 1 /\ k - 1 # n + 1
      BY <2>2
    <3>2. g[k] = f[k] /\ g[k - 1] = f[k - 1]
      BY <2>2, <3>1
    <3>3. h[k] = ShiftOnce(op, g[k - 1], w)
      BY <2>2
    <3>4. f[k] = ShiftOnce(op, f[k - 1], w)
      BY <1>1, <2>2, <3>1
    <3> QED BY <3>2, <3>3, <3>4
  <2>3. CASE k = 0
    <3>1. g[k] = f[k] /\ h[k] = x /\ f[0] = x
      BY <1>1, <2>3
    <3> QED BY <2>3, <3>1
  <2> QED BY <2>1, <2>2, <2>3
<1>3. g = h
  BY <1>2, Zenon
<1>4. Turns(g, op, x, w, n + 1)
  BY <1>3 DEF Turns
<1> QED BY <1>4

\* The recursion defines something.
LEMMA TurnsExist ==
  ASSUME NEW op, NEW x, NEW w, NEW n \in Nat
  PROVE  \E f : Turns(f, op, x, w, n)
<1> DEFINE X == {k \in Nat : \E f : Turns(f, op, x, w, k)}
<1>1. 0 \in X
  <2> DEFINE f == [k \in 0..0 |-> x]
             g == [k \in 0..0 |-> IF k = 0 THEN x ELSE ShiftOnce(op, f[k - 1], w)]
  <2>1. \A k \in 0..0 : f[k] = g[k]
    OBVIOUS
  <2>2. f = g
    BY <2>1, Zenon
  <2>3. Turns(f, op, x, w, 0)
    BY <2>2 DEF Turns
  <2> QED BY <2>3
<1>2. ASSUME NEW k \in Nat, k \in X PROVE k + 1 \in X
  BY <1>2, TurnsExtend
<1> HIDE DEF X
<1>3. n \in X
  BY <1>1, <1>2, SetInduction
<1> QED BY <1>3 DEF X

\* Turn by turn.
LEMMA ShiftedIs ==
  ASSUME NEW op, NEW x, NEW w, NEW f, f = Shifted(op, x, w)
  PROVE  f[0] = x /\ \A k \in 1..CountMask : f[k] = ShiftOnce(op, f[k - 1], w)
<1>1. \E g : Turns(g, op, x, w, CountMask)
  BY TurnsExist, InstructionsAssumption
<1>2. Turns(f, op, x, w, CountMask)
  BY <1>1, Zenon DEF Shifted, Turns
<1>3. \A k \in 0..CountMask : f[k] = IF k = 0 THEN x ELSE ShiftOnce(op, f[k - 1], w)
  BY <1>2, Zenon DEF Turns
<1> QED BY <1>3, InstructionsAssumption
\* A quotient of a quotient, and twice a remainder.
LEMMA TurnArithmetic ==
  ASSUME NEW P \in Nat \ {0}, NEW Q \in Nat \ {0}, NEW v \in Int
  PROVE  /\ (v \div Q) \div 2 = v \div (2 * Q)
         /\ (2 * (v % P)) % P = (2 * v) % P
<1> DEFINE a == v \div Q
           b == v % Q
           c == a \div 2
           d == a % 2
           e == v \div P
           g == v % P
           h == (2 * g) \div P
           i == (2 * g) % P
<1>1. a \in Int /\ b \in 0..Q - 1 /\ v = Q * a + b
  BY Division
<1>2. e \in Int /\ g \in 0..P - 1 /\ v = P * e + g
  BY Division
<1> HIDE DEF a, b, e, g
<1>3. c \in Int /\ d \in 0..1 /\ a = 2 * c + d
  BY <1>1
<1>4. h \in Int /\ i \in 0..P - 1 /\ 2 * g = P * h + i
  <2>1. 2 * g \in Int
    BY <1>2
  <2> DEFINE t == 2 * g
  <2>2. t \in Int
    BY <2>1
  <2> HIDE DEF t
  <2>3. t \div P \in Int /\ t % P \in 0..P - 1 /\ t = P * (t \div P) + (t % P)
    BY <2>2, Division
  <2> QED BY <2>3 DEF t
<1> HIDE DEF c, d, h, i
<1>5. v = (2 * Q) * c + (d * Q + b) /\ d * Q + b \in 0..(2 * Q) - 1
  <2>1. Q * a = (2 * Q) * c + d * Q
    <3>1. Q * (2 * c + d) = (2 * Q) * c + d * Q
      BY <1>3
    <3> QED BY <1>3, <3>1
  <2>2. d * Q = IF d = 1 THEN Q ELSE 0
    BY <1>3
  <2>3. (2 * Q) * c \in Int
    BY <1>3
  <2> QED BY <1>1, <1>3, <2>1, <2>2, <2>3
<1>6. v \div (2 * Q) = c
  <2> DEFINE K == 2 * Q
             z == d * Q + b
  <2>1. K \in Nat \ {0} /\ z \in 0..K - 1 /\ v = K * c + z
    BY <1>5
  <2> HIDE DEF K, z
  <2>2. v \div K = c
    BY <1>3, <2>1, DivisionUnique
  <2> QED BY <2>2 DEF K
<1>7. 2 * v = P * (2 * e + h) + i /\ 2 * e + h \in Int
  <2>1. P * (2 * e + h) = 2 * (P * e) + P * h /\ P * e \in Int /\ P * h \in Int
    BY <1>2, <1>4
  <2> QED BY <1>2, <1>4, <2>1
<1>8. (2 * v) % P = i
  <2> DEFINE K == 2 * v
             z == 2 * e + h
  <2>1. K = P * z + i /\ z \in Int
    BY <1>7
  <2> HIDE DEF K, z
  <2>2. K % P = i
    BY <1>4, <2>1, DivisionUnique
  <2> QED BY <2>2 DEF K
<1> QED BY <1>6, <1>8 DEF c, a, i, g

\* The low bits of a value decide those of its double.
LEMMA CutDouble ==
  ASSUME NEW w \in 2..Host, NEW v \in Int, NEW b \in {0, 1}
  PROVE  /\ Wrap(2 * v + b) \in Int
         /\ Cut(Wrap(2 * v + b), w) =
              IF Cut(v, w) >= Top(w) THEN 2 * (Cut(v, w) - Top(w)) + b ELSE 2 * Cut(v, w) + b
         /\ Cut(Wrap(2 * v), w) = (2 * v) % 2^w
         /\ Msb(v, w) = IF Cut(v, w) >= Top(w) THEN 1 ELSE 0
         /\ Cut(v, w) \in Nums(w)
<1> DEFINE P == 2^w
           T == Top(w)
           g == v % P
           e == v \div P
<1>1. P \in Nat \ {0} /\ T \in Nat \ {0} /\ P = 2 * T /\ w \in 1..Host /\ w \in 1..2 * Host
      /\ 2^Host \in Nat
  BY WidthIs
<1>2. 2 * v + b \in Int /\ 2 * v \in Int
  OBVIOUS
<1>3. /\ Wrap(2 * v + b) \in Int
      /\ Cut(Wrap(2 * v + b), w) = Cut(2 * v + b, w)
      /\ Cut(Wrap(2 * v), w) = Cut(2 * v, w)
  BY <1>1, <1>2, CutWrap
<1>4. Cut(v, w) \in 0..2^w - 1 /\ Msb(v, w) = IF Cut(v, w) >= Top(w) THEN 1 ELSE 0
  BY <1>1, SignOf
<1> HIDE DEF P, T
<1>5. e \in Int /\ g \in 0..P - 1 /\ v = P * e + g
  BY <1>1, Division
<1> HIDE DEF e, g
<1> DEFINE z == IF g >= T THEN 2 * (g - T) + b ELSE 2 * g + b
           k == IF g >= T THEN 2 * e + 1 ELSE 2 * e
           s == 2 * v + b
<1>6. s = P * k + z /\ k \in Int /\ z \in 0..P - 1
  <2>1. P * (2 * e) = 2 * (P * e) /\ P * (2 * e + 1) = 2 * (P * e) + P /\ P * e \in Int
    BY <1>1, <1>5
  <2>2. CASE g >= T
    BY <1>1, <1>5, <2>1, <2>2
  <2>3. CASE ~(g >= T)
    BY <1>1, <1>5, <2>1, <2>3
  <2> QED BY <2>2, <2>3
<1> HIDE DEF s, k, z
<1>7. s % P = z
  <2>1. s = P * k + z /\ k \in Int /\ z \in 0..P - 1 /\ P \in Nat \ {0}
    BY <1>1, <1>6
  <2>2. s \div P = k /\ s % P = z
    BY <2>1, DivisionUnique
  <2> QED BY <2>2
<1>8. Cut(2 * v + b, w) = z /\ Cut(v, w) = g
  BY <1>7 DEF Cut, P, g, s
<1> QED BY <1>3, <1>4, <1>8 DEF Nums, Cut, T, P, z

\* What a turn to the left does, seen through the width.
LEMMA TurnLeft ==
  ASSUME NEW w \in 2..Host, NEW x, x.v \in Int, x.cf \in {0, 1}
  PROVE  /\ LET y == ShiftOnce("rol", x, w)
                c == Cut(x.v, w)
            IN  /\ y.v \in Int /\ y.cf \in {0, 1}
                /\ Cut(y.v, w) = IF c >= Top(w) THEN 2 * (c - Top(w)) + 1 ELSE 2 * c
         /\ LET y == ShiftOnce("rcl", x, w)
                c == Cut(x.v, w)
            IN  /\ y.v \in Int /\ y.cf = IF c >= Top(w) THEN 1 ELSE 0
                /\ Cut(y.v, w) = (IF c >= Top(w) THEN 2 * (c - Top(w)) ELSE 2 * c) + x.cf
         /\ LET y == ShiftOnce("shl", x, w)
            IN  /\ y.v = (2 * x.v) % 2^w /\ y.cf = Msb(x.v, w) /\ y.of \in {0, 1}
<1> DEFINE v == x.v
           m == Msb(v, w)
           T == Top(w)
           c == Cut(v, w)
<1>1. m = (IF c >= T THEN 1 ELSE 0) /\ c \in Nums(w) /\ m \in {0, 1}
  BY CutDouble
<1>2. ShiftOnce("rol", x, w) = Left(v, m, w)
  BY DEF ShiftOnce
<1>3. ShiftOnce("rcl", x, w) = Left(v, x.cf, w)
  BY DEF ShiftOnce
<1>4. ShiftOnce("shl", x, w) = [Left(v, 0, w) EXCEPT !.v = Cut(@, w)]
  BY DEF ShiftOnce
<1>5. \A b \in {0, 1} : /\ Left(v, b, w).v = Wrap(2 * v + b) /\ Left(v, b, w).cf = m
                        /\ Left(v, b, w).of \in {0, 1}
                        /\ Left(v, b, w) = [v |-> Left(v, b, w).v, cf |-> Left(v, b, w).cf, of |-> Left(v, b, w).of]
  BY DEF Left, Flag
<1>6. T \in Nat /\ c \in Int
  BY WidthIs, <1>1
<1> HIDE DEF m
<1>7. \A b \in {0, 1} : Wrap(2 * v + b) \in Int
                        /\ Cut(Wrap(2 * v + b), w) = IF c >= T THEN 2 * (c - T) + b ELSE 2 * c + b
  BY CutDouble
<1>8. Wrap(2 * v + 0) = Wrap(2 * v) /\ Cut(Wrap(2 * v), w) = (2 * v) % 2^w
  <2>1. 2 * v + 0 = 2 * v
    OBVIOUS
  <2> QED BY <2>1, CutDouble
<1> HIDE DEF v, c, T
<1>9. LET y == ShiftOnce("rol", x, w)
      IN  /\ y.v \in Int /\ y.cf \in {0, 1}
          /\ Cut(y.v, w) = IF c >= T THEN 2 * (c - T) + 1 ELSE 2 * c
  BY <1>1, <1>2, <1>5, <1>6, <1>7
<1>10. LET y == ShiftOnce("rcl", x, w)
       IN  /\ y.v \in Int /\ y.cf = IF c >= T THEN 1 ELSE 0
           /\ Cut(y.v, w) = (IF c >= T THEN 2 * (c - T) ELSE 2 * c) + x.cf
  BY <1>1, <1>3, <1>5, <1>6, <1>7
<1>11. LET y == ShiftOnce("shl", x, w)
       IN  y.v = (2 * v) % 2^w /\ y.cf = m /\ y.of \in {0, 1}
  <2> DEFINE r == Left(v, 0, w)
  <2>1. r = [v |-> r.v, cf |-> r.cf, of |-> r.of] /\ r.v = Wrap(2 * v) /\ r.cf = m /\ r.of \in {0, 1}
    BY <1>5, <1>8
  <2> HIDE DEF r
  <2>2. [r EXCEPT !.v = Cut(@, w)] = [v |-> Cut(r.v, w), cf |-> r.cf, of |-> r.of]
    BY <2>1
  <2>3. ShiftOnce("shl", x, w) = [r EXCEPT !.v = Cut(@, w)]
    BY <1>4 DEF r
  <2> QED BY <1>8, <2>1, <2>2, <2>3
<1> QED BY <1>9, <1>10, <1>11 DEF v, c, T, m

\* What a turn to the right does.
LEMMA TurnRight ==
  ASSUME NEW w \in 2..Host, NEW x, NEW v \in Nums(w), v = x.v, x.cf \in {0, 1}
  PROVE  /\ LET y == ShiftOnce("shr", x, w)
            IN  y.v = v \div 2 /\ y.v \in Nums(w) /\ y.cf = v % 2
         /\ LET y == ShiftOnce("sar", x, w)
            IN  y.v \in Nums(w) /\ Signed(y.v, w) = Signed(v, w) \div 2 /\ y.cf = v % 2
         /\ LET y == ShiftOnce("ror", x, w)
            IN  /\ y.v \in Nums(w) /\ y.v = (v \div 2) + (IF v % 2 = 1 THEN Top(w) ELSE 0)
                /\ y.cf \in {0, 1}
         /\ LET y == ShiftOnce("rcr", x, w)
            IN  /\ y.v \in Nums(w) /\ y.v = (v \div 2) + (IF x.cf = 1 THEN Top(w) ELSE 0)
                /\ y.cf = v % 2
<1> DEFINE T == Top(w)
           P == 2^w
           m == Msb(v, w)
           h == v \div 2
<1>1. P \in Nat \ {0} /\ T \in Nat \ {0} /\ P = 2 * T
  BY WidthIs
<1>2. v \in 0..P - 1 /\ m = (IF v >= T THEN 1 ELSE 0) /\ v % 2 \in {0, 1}
  <2>1. v \in 0..P - 1
    BY DEF Nums
  <2>2. Cut(v, w) = v
    BY <1>1, <2>1, WidthIs, CutNear DEF P
  <2>3. m = (IF v >= T THEN 1 ELSE 0)
    BY <1>1, <2>1, <2>2, WidthIs, SignOf DEF T
  <2>4. v % 2 \in {0, 1}
    BY <1>1, <2>1
  <2> QED BY <2>1, <2>3, <2>4
<1>3. Signed(v, w) = IF v >= T THEN v - P ELSE v
  BY DEF Signed, T, P
<1>4. \A u : Signed(u, w) = IF u >= T THEN u - P ELSE u
  BY DEF Signed, T, P
<1>5. \A b \in {0, 1} : Right(v, b, w).v = h + b * T /\ Right(v, b, w).cf = v % 2
  BY DEF Right, h, T
<1>6. \A b, o : LET r == [Right(v, b, w) EXCEPT !.of = o]
                IN  r.v = Right(v, b, w).v /\ r.cf = Right(v, b, w).cf
  BY DEF Right
<1>7. /\ ShiftOnce("shr", x, w) = [Right(v, 0, w) EXCEPT !.of = m]
      /\ ShiftOnce("sar", x, w) = [Right(v, m, w) EXCEPT !.of = 0]
      /\ ShiftOnce("ror", x, w) = Right(v, v % 2, w)
      /\ ShiftOnce("rcr", x, w) = Right(v, x.cf, w)
  BY DEF ShiftOnce, m
<1> HIDE DEF T, P, m
<1>8. h \in Int /\ h + 0 * T \in 0..P - 1 /\ h + 1 * T \in 0..P - 1 /\ h + 0 * T = h /\ h + 1 * T = h + T
  BY <1>1, <1>2
<1>9. LET y == ShiftOnce("shr", x, w)
      IN  y.v = h /\ y.v \in 0..P - 1 /\ y.cf = v % 2
  <2>1. LET r == [Right(v, 0, w) EXCEPT !.of = m] IN r.v = h /\ r.cf = v % 2
    BY <1>5, <1>6, <1>8
  <2> QED BY <1>7, <1>8, <2>1
<1>10. LET y == ShiftOnce("sar", x, w)
       IN  y.v \in 0..P - 1 /\ Signed(y.v, w) = Signed(v, w) \div 2 /\ y.cf = v % 2
  <2> DEFINE r == [Right(v, m, w) EXCEPT !.of = 0]
  <2>1. r.v = h + m * T /\ r.cf = v % 2
    BY <1>2, <1>5, <1>6
  <2>2. ShiftOnce("sar", x, w) = r
    BY <1>7
  <2> HIDE DEF r
  <2>3. m * T = IF v >= T THEN T ELSE 0
    BY <1>1, <1>2
  <2>4. r.v \in 0..P - 1
    BY <1>1, <1>2, <1>8, <2>1, <2>3
  <2>5. CASE v >= T
    <3>1. r.v = h + T /\ Signed(r.v, w) = h + T - P /\ Signed(v, w) = v - P
      BY <1>1, <1>2, <1>3, <1>4, <1>8, <2>1, <2>3, <2>5
    <3>2. (v - 2 * T) \div 2 = h - T
      BY <1>1, <1>2
    <3> QED BY <1>1, <1>8, <2>1, <2>2, <2>4, <3>1, <3>2
  <2>6. CASE ~(v >= T)
    <3>1. r.v = h /\ h < T
      BY <1>1, <1>2, <1>8, <2>1, <2>3, <2>6
    <3>2. Signed(r.v, w) = h /\ Signed(v, w) = v
      BY <1>1, <1>2, <1>3, <1>4, <1>8, <2>6, <3>1
    <3> QED BY <1>1, <1>8, <2>1, <2>2, <2>4, <3>2
  <2> QED BY <2>5, <2>6
<1>11. \A b \in {0, 1} : LET y == Right(v, b, w)
                         IN  y.v \in 0..P - 1 /\ y.v = h + (IF b = 1 THEN T ELSE 0) /\ y.cf = v % 2
  BY <1>5, <1>8
<1> HIDE DEF h
<1> QED BY <1>2, <1>7, <1>9, <1>10, <1>11 DEF Nums, T, P, h

\* A turn to the right undoes one to the left.
LEMMA TurnBack ==
  ASSUME NEW w \in 2..Host, NEW c \in Nums(w), NEW b \in {0, 1},
         NEW l, l = (IF c >= Top(w) THEN 2 * (c - Top(w)) ELSE 2 * c) + b
  PROVE  l % 2 = b /\ (l \div 2) + (IF c >= Top(w) THEN Top(w) ELSE 0) = c
<1> DEFINE T == Top(w)
           t == IF c >= T THEN c - T ELSE c
<1>1. T \in Int /\ c \in Int
  BY WidthIs DEF Nums
<1>2. t \in Int /\ l = 2 * t + b
  BY <1>1
<1>3. l % 2 = b /\ l \div 2 = t
  <2> HIDE DEF t
  <2> QED BY <1>2
<1> QED BY <1>1, <1>3

\* What SHL by n leaves.
AfterLeft(v, w, n) == (v * 2^n) % 2^w

\* SHL by k multiplies by a power of two.
LEMMA ShlTurns ==
  ASSUME NEW w \in 2..Host, NEW x, NEW v \in Nums(w), v = x.v, x.cf \in {0, 1},
         NEW f, f = Shifted("shl", x, w), NEW n \in 0..CountMask
  PROVE  f[n].v = AfterLeft(v, w, n) /\ f[n].v \in Nums(w) /\ (n = 1 => f[n].cf = Msb(v, w))
<1> DEFINE P == 2^w
           X == {k \in Nat : k <= CountMask => /\ f[k].v = (v * 2^k) % P
                                               /\ f[k].cf \in {0, 1}
                                               /\ k = 1 => f[k].cf = Msb(v, w)}
<1>1. f[0] = x /\ \A k \in 1..CountMask : f[k] = ShiftOnce("shl", f[k - 1], w)
  BY ShiftedIs
<1>2. P \in Nat \ {0} /\ v \in Int /\ v \in 0..P - 1
  BY WidthIs DEF Nums
<1>3. CountMask \in Nat /\ CountMask <= Host /\ Host \in Nat
  BY InstructionsAssumption, HostAssumption
<1>4. Msb(v, w) \in {0, 1}
  BY <1>2, CutDouble
<1> HIDE DEF P
<1>5. 0 \in X
  <2>1. v * 2^0 = v /\ v % P = v
    BY <1>2
  <2> QED BY <1>1, <2>1
<1>6. ASSUME NEW k \in Nat, k \in X PROVE k + 1 \in X
  <2> SUFFICES ASSUME k + 1 <= CountMask
               PROVE  /\ f[k + 1].v = (v * 2^(k + 1)) % P /\ f[k + 1].cf \in {0, 1}
                      /\ k + 1 = 1 => f[k + 1].cf = Msb(v, w)
    OBVIOUS
  <2>1. f[k].v = (v * 2^k) % P /\ f[k].cf \in {0, 1}
    BY <1>3, <1>6
  <2>2. k + 1 \in 1..CountMask /\ (k + 1) - 1 = k /\ k \in 0..2 * Host - 1 /\ k \in 0..2 * Host
    BY <1>3
  <2>3. f[k + 1] = ShiftOnce("shl", f[k], w)
    BY <1>1, <2>2
  <2>4. 2^(k + 1) = 2 * 2^k /\ 2^k \in Int
    BY <2>2, PowersOfTwo, PowersPositive
  <2> DEFINE q == 2^k
             z == v * q
  <2>5. z \in Int /\ 2 * z = v * (2 * q)
    BY <1>2, <2>4
  <2>6. z % P \in Int
    <3> HIDE DEF z
    <3> QED BY <1>2, <2>5
  <2>7. (2 * (z % P)) % P = (2 * z) % P
    <3> HIDE DEF z
    <3> QED BY <1>2, <2>5, TurnArithmetic
  <2>8. f[k + 1].v = (2 * f[k].v) % P /\ f[k + 1].cf = Msb(f[k].v, w)
    BY <2>1, <2>3, <2>6, TurnLeft DEF P
  <2>9. Msb(f[k].v, w) \in {0, 1}
    BY <2>1, <2>6, CutDouble
  <2>10. k + 1 = 1 => f[k].v = v
    BY <1>1
  <2> QED BY <2>1, <2>4, <2>5, <2>7, <2>8, <2>9, <2>10
<1> HIDE DEF X
<1>7. n \in X
  BY <1>3, <1>5, <1>6, SetInduction
<1>8. f[n].v = (v * 2^n) % P /\ (n = 1 => f[n].cf = Msb(v, w))
  BY <1>3, <1>7 DEF X
<1>9. f[n].v \in 0..P - 1
  <2>1. n \in 0..2 * Host
    BY <1>3
  <2>2. 2^n \in Int
    BY <2>1, PowersPositive
  <2> DEFINE z == v * 2^n
  <2>3. z \in Int
    BY <1>2, <2>2
  <2> HIDE DEF z
  <2>4. z % P \in 0..P - 1
    BY <1>2, <2>3, Division
  <2> QED BY <1>8, <2>4 DEF z
<1> QED BY <1>8, <1>9 DEF P, Nums, AfterLeft

\* SHR by k divides by a power of two.
LEMMA ShrTurns ==
  ASSUME NEW w \in 2..Host, NEW x, NEW v \in Nums(w), v = x.v, x.cf \in {0, 1},
         NEW f, f = Shifted("shr", x, w), NEW n \in 0..CountMask
  PROVE  /\ f[n].v = v \div 2^n /\ f[n].v \in Nums(w)
         /\ f[n].cf \in {0, 1} /\ (n = 1 => f[n].cf = v % 2)
<1> DEFINE X == {k \in Nat : k <= CountMask => /\ f[k].v = v \div 2^k /\ f[k].v \in Nums(w)
                                               /\ f[k].cf \in {0, 1}
                                               /\ k = 1 => f[k].cf = v % 2}
<1>1. f[0] = x /\ \A k \in 1..CountMask : f[k] = ShiftOnce("shr", f[k - 1], w)
  BY ShiftedIs
<1>2. Nums(w) \subseteq Int
  BY WidthIs
<1>3. CountMask \in Nat /\ CountMask <= Host /\ Host \in Nat
  BY InstructionsAssumption, HostAssumption
<1>5. 0 \in X
  <2>1. v \div 2^0 = v
    BY <1>2
  <2> QED BY <1>1, <2>1
<1>6. ASSUME NEW k \in Nat, k \in X PROVE k + 1 \in X
  <2> SUFFICES ASSUME k + 1 <= CountMask
               PROVE  /\ f[k + 1].v = v \div 2^(k + 1) /\ f[k + 1].v \in Nums(w)
                      /\ f[k + 1].cf \in {0, 1}
                      /\ k + 1 = 1 => f[k + 1].cf = v % 2
    OBVIOUS
  <2>1. f[k].v = v \div 2^k /\ f[k].cf \in {0, 1} /\ f[k].v \in Nums(w)
    BY <1>3, <1>6
  <2>2. k + 1 \in 1..CountMask /\ (k + 1) - 1 = k /\ k \in 0..2 * Host - 1 /\ k \in 0..2 * Host
    BY <1>3
  <2>3. f[k + 1] = ShiftOnce("shr", f[k], w)
    BY <1>1, <2>2
  <2>4. 2^(k + 1) = 2 * 2^k /\ 2^k \in Nat \ {0}
    BY <2>2, PowersOfTwo, PowersPositive
  <2>5. f[k + 1].v = f[k].v \div 2 /\ f[k + 1].v \in Nums(w) /\ f[k + 1].cf = f[k].v % 2
    BY <2>1, <2>3, TurnRight
  <2>6. (v \div 2^k) \div 2 = v \div (2 * 2^k)
    BY <1>2, <2>4, TurnArithmetic
  <2>7. f[k].v % 2 \in {0, 1}
    BY <1>2, <2>1
  <2>8. k + 1 = 1 => f[k].v = v
    BY <1>1
  <2> QED BY <2>1, <2>4, <2>5, <2>6, <2>7, <2>8
<1> HIDE DEF X
<1>7. n \in X
  BY <1>3, <1>5, <1>6, SetInduction
<1> QED BY <1>3, <1>7 DEF X

\* SAR by k divides a signed number.
LEMMA SarTurns ==
  ASSUME NEW w \in 2..Host, NEW x, NEW v \in Nums(w), v = x.v, x.cf \in {0, 1},
         NEW f, f = Shifted("sar", x, w), NEW n \in 0..CountMask
  PROVE  /\ Signed(f[n].v, w) = Signed(v, w) \div 2^n /\ f[n].v \in Nums(w)
         /\ f[n].cf \in {0, 1} /\ (n = 1 => f[n].cf = v % 2)
<1> DEFINE s == Signed(v, w)
           X == {k \in Nat : k <= CountMask => /\ Signed(f[k].v, w) = s \div 2^k
                                               /\ f[k].v \in Nums(w) /\ f[k].cf \in {0, 1}
                                               /\ k = 1 => f[k].cf = v % 2}
<1>1. f[0] = x /\ \A k \in 1..CountMask : f[k] = ShiftOnce("sar", f[k - 1], w)
  BY ShiftedIs
<1>2. Nums(w) \subseteq Int /\ s \in Int
  BY WidthIs, SignedIs
<1>3. CountMask \in Nat /\ CountMask <= Host /\ Host \in Nat
  BY InstructionsAssumption, HostAssumption
<1> HIDE DEF s
<1>5. 0 \in X
  <2>1. s \div 2^0 = s
    BY <1>2
  <2> QED BY <1>1, <2>1 DEF s
<1>6. ASSUME NEW k \in Nat, k \in X PROVE k + 1 \in X
  <2> SUFFICES ASSUME k + 1 <= CountMask
               PROVE  /\ Signed(f[k + 1].v, w) = s \div 2^(k + 1) /\ f[k + 1].v \in Nums(w)
                      /\ f[k + 1].cf \in {0, 1}
                      /\ k + 1 = 1 => f[k + 1].cf = v % 2
    OBVIOUS
  <2>1. Signed(f[k].v, w) = s \div 2^k /\ f[k].cf \in {0, 1} /\ f[k].v \in Nums(w)
    BY <1>3, <1>6
  <2>2. k + 1 \in 1..CountMask /\ (k + 1) - 1 = k /\ k \in 0..2 * Host - 1 /\ k \in 0..2 * Host
    BY <1>3
  <2>3. f[k + 1] = ShiftOnce("sar", f[k], w)
    BY <1>1, <2>2
  <2>4. 2^(k + 1) = 2 * 2^k /\ 2^k \in Nat \ {0}
    BY <2>2, PowersOfTwo, PowersPositive
  <2>5. /\ Signed(f[k + 1].v, w) = Signed(f[k].v, w) \div 2
        /\ f[k + 1].v \in Nums(w) /\ f[k + 1].cf = f[k].v % 2
    BY <2>1, <2>3, TurnRight
  <2>6. (s \div 2^k) \div 2 = s \div (2 * 2^k)
    BY <1>2, <2>4, TurnArithmetic
  <2>7. f[k].v % 2 \in {0, 1}
    BY <1>2, <2>1
  <2>8. k + 1 = 1 => f[k].v = v
    BY <1>1
  <2> QED BY <2>1, <2>4, <2>5, <2>6, <2>7, <2>8
<1> HIDE DEF X
<1>7. n \in X
  BY <1>3, <1>5, <1>6, SetInduction
<1> QED BY <1>3, <1>7 DEF X, s

\* ROR undoes ROL, turn by turn from the last one.
LEMMA RolBack ==
  ASSUME NEW w \in 2..Host, NEW x, x.v \in Nums(w), x.cf \in {0, 1}, NEW n \in 0..CountMask,
         NEW f, f = Shifted("rol", x, w),
         NEW y, y.v = Cut(f[n].v, w), y.cf \in {0, 1}, NEW g, g = Shifted("ror", y, w)
  PROVE  f[n].cf \in {0, 1} /\ Cut(f[n].v, w) \in Nums(w) /\ g[n].v = x.v
<1> DEFINE X == {k \in Nat : k <= CountMask => f[k].v \in Int /\ f[k].cf \in {0, 1}}
           Y == {k \in Nat : k <= n => g[k].v = Cut(f[n - k].v, w) /\ g[k].cf \in {0, 1}}
<1>1. /\ f[0] = x /\ \A k \in 1..CountMask : f[k] = ShiftOnce("rol", f[k - 1], w)
      /\ g[0] = y /\ \A k \in 1..CountMask : g[k] = ShiftOnce("ror", g[k - 1], w)
  BY ShiftedIs
<1>2. CountMask \in Nat /\ CountMask <= Host /\ Host \in Nat /\ n \in Nat /\ n <= CountMask
  BY InstructionsAssumption, HostAssumption
<1>3. Nums(w) \subseteq Int
  BY WidthIs
<1>4. 0 \in X
  BY <1>1, <1>3
<1>5. ASSUME NEW k \in Nat, k \in X PROVE k + 1 \in X
  <2> SUFFICES ASSUME k + 1 <= CountMask PROVE f[k + 1].v \in Int /\ f[k + 1].cf \in {0, 1}
    OBVIOUS
  <2>1. f[k].v \in Int /\ f[k].cf \in {0, 1}
    BY <1>2, <1>5
  <2>2. f[k + 1] = ShiftOnce("rol", f[k], w)
    BY <1>1, <1>2
  <2> QED BY <2>1, <2>2, TurnLeft
<1> HIDE DEF X
<1>6. \A k \in 0..CountMask : f[k].v \in Int /\ f[k].cf \in {0, 1}
  <2>1. \A k \in Nat : k \in X
    BY <1>4, <1>5, SetInduction
  <2> QED BY <1>2, <2>1 DEF X
<1>7. 0 \in Y
  BY <1>1, <1>2
<1>8. ASSUME NEW k \in Nat, k \in Y PROVE k + 1 \in Y
  <2> SUFFICES ASSUME k + 1 <= n
               PROVE  g[k + 1].v = Cut(f[n - (k + 1)].v, w) /\ g[k + 1].cf \in {0, 1}
    OBVIOUS
  <2> DEFINE i == n - (k + 1)
             c == Cut(f[i].v, w)
             d == Cut(f[i + 1].v, w)
             T == Top(w)
             b == IF c >= T THEN 1 ELSE 0
  <2>1. i \in 0..CountMask /\ i + 1 \in 1..CountMask /\ (i + 1) - 1 = i /\ n - k = i + 1
        /\ k + 1 \in 1..CountMask /\ (k + 1) - 1 = k
    BY <1>2
  <2>2. f[i].v \in Int /\ f[i].cf \in {0, 1} /\ f[i + 1] = ShiftOnce("rol", f[i], w)
    BY <1>1, <1>6, <2>1
  <2>3. d = IF c >= T THEN 2 * (c - T) + 1 ELSE 2 * c
    BY <2>2, TurnLeft
  <2>4. c \in Nums(w) /\ d \in Nums(w)
    <3>1. f[i + 1].v \in Int
      BY <1>6, <2>1
    <3> QED BY <2>2, <3>1, CutDouble
  <2>5. g[k].v = d /\ g[k].cf \in {0, 1} /\ g[k + 1] = ShiftOnce("ror", g[k], w)
    BY <1>1, <1>2, <1>8, <2>1
  <2> HIDE DEF i, c, d, T
  <2>6. /\ g[k + 1].v = (d \div 2) + (IF d % 2 = 1 THEN T ELSE 0)
        /\ g[k + 1].cf \in {0, 1}
    BY <2>4, <2>5, TurnRight DEF T
  <2>7. T \in Int /\ c \in Int
    BY <1>3, <2>4, WidthIs DEF T
  <2>8. d = (IF c >= T THEN 2 * (c - T) ELSE 2 * c) + b
    BY <2>3, <2>7
  <2>9. d % 2 = b /\ (d \div 2) + (IF c >= T THEN T ELSE 0) = c
    <3>1. b \in {0, 1}
      OBVIOUS
    <3> HIDE DEF b
    <3> QED BY <2>4, <2>8, <3>1, TurnBack DEF T
  <2>10. g[k + 1].v = c
    BY <2>6, <2>9
  <2> QED BY <2>6, <2>10 DEF c, i
<1> HIDE DEF Y
<1>9. n \in Y
  BY <1>2, <1>7, <1>8, SetInduction
<1>10. g[n].v = Cut(f[0].v, w)
  <2>1. g[n].v = Cut(f[n - n].v, w) /\ n - n = 0
    BY <1>2, <1>9 DEF Y
  <2> QED BY <2>1
<1>11. Cut(x.v, w) = x.v
  BY WidthIs, CutNear DEF Nums
<1>12. Cut(f[n].v, w) \in Nums(w) /\ f[n].cf \in {0, 1}
  BY <1>6, CutDouble
<1> QED BY <1>1, <1>10, <1>11, <1>12

\* RCR undoes RCL, and restores CF.
LEMMA RclBack ==
  ASSUME NEW w \in 2..Host, NEW x, x.v \in Nums(w), x.cf \in {0, 1}, NEW n \in 0..CountMask,
         NEW f, f = Shifted("rcl", x, w),
         NEW y, y.v = Cut(f[n].v, w), y.cf = f[n].cf, NEW g, g = Shifted("rcr", y, w)
  PROVE  f[n].cf \in {0, 1} /\ Cut(f[n].v, w) \in Nums(w) /\ g[n].v = x.v /\ g[n].cf = x.cf
<1> DEFINE X == {k \in Nat : k <= CountMask => f[k].v \in Int /\ f[k].cf \in {0, 1}}
           Y == {k \in Nat : k <= n => g[k].v = Cut(f[n - k].v, w) /\ g[k].cf = f[n - k].cf}
<1>1. /\ f[0] = x /\ \A k \in 1..CountMask : f[k] = ShiftOnce("rcl", f[k - 1], w)
      /\ g[0] = y /\ \A k \in 1..CountMask : g[k] = ShiftOnce("rcr", g[k - 1], w)
  BY ShiftedIs
<1>2. CountMask \in Nat /\ CountMask <= Host /\ Host \in Nat /\ n \in Nat /\ n <= CountMask
  BY InstructionsAssumption, HostAssumption
<1>3. Nums(w) \subseteq Int
  BY WidthIs
<1>4. 0 \in X
  BY <1>1, <1>3
<1>5. ASSUME NEW k \in Nat, k \in X PROVE k + 1 \in X
  <2> SUFFICES ASSUME k + 1 <= CountMask PROVE f[k + 1].v \in Int /\ f[k + 1].cf \in {0, 1}
    OBVIOUS
  <2>1. f[k].v \in Int /\ f[k].cf \in {0, 1}
    BY <1>2, <1>5
  <2>2. f[k + 1] = ShiftOnce("rcl", f[k], w)
    BY <1>1, <1>2
  <2> QED BY <2>1, <2>2, TurnLeft
<1> HIDE DEF X
<1>6. \A k \in 0..CountMask : f[k].v \in Int /\ f[k].cf \in {0, 1}
  <2>1. \A k \in Nat : k \in X
    BY <1>4, <1>5, SetInduction
  <2> QED BY <1>2, <2>1 DEF X
<1>7. 0 \in Y
  BY <1>1, <1>2
<1>8. ASSUME NEW k \in Nat, k \in Y PROVE k + 1 \in Y
  <2> SUFFICES ASSUME k + 1 <= n
               PROVE  g[k + 1].v = Cut(f[n - (k + 1)].v, w) /\ g[k + 1].cf = f[n - (k + 1)].cf
    OBVIOUS
  <2> DEFINE i == n - (k + 1)
             c == Cut(f[i].v, w)
             d == Cut(f[i + 1].v, w)
             T == Top(w)
             b == f[i].cf
  <2>1. i \in 0..CountMask /\ i + 1 \in 1..CountMask /\ (i + 1) - 1 = i /\ n - k = i + 1
        /\ k + 1 \in 1..CountMask /\ (k + 1) - 1 = k
    BY <1>2
  <2>2. f[i].v \in Int /\ b \in {0, 1} /\ f[i + 1] = ShiftOnce("rcl", f[i], w)
    BY <1>1, <1>6, <2>1
  <2>3. /\ d = (IF c >= T THEN 2 * (c - T) ELSE 2 * c) + b
        /\ f[i + 1].cf = IF c >= T THEN 1 ELSE 0
    BY <2>2, TurnLeft
  <2>4. c \in Nums(w) /\ d \in Nums(w)
    <3>1. f[i + 1].v \in Int
      BY <1>6, <2>1
    <3> QED BY <2>2, <3>1, CutDouble
  <2>5. /\ g[k].v = d /\ g[k].cf = (IF c >= T THEN 1 ELSE 0) /\ g[k].cf \in {0, 1}
        /\ g[k + 1] = ShiftOnce("rcr", g[k], w)
    BY <1>1, <1>2, <1>8, <2>1, <2>3
  <2> HIDE DEF i, c, d, T, b
  <2>6. /\ g[k + 1].v = (d \div 2) + (IF g[k].cf = 1 THEN T ELSE 0)
        /\ g[k + 1].cf = d % 2
    BY <2>4, <2>5, TurnRight DEF T
  <2>7. d % 2 = b /\ (d \div 2) + (IF c >= T THEN T ELSE 0) = c
    BY <2>2, <2>3, <2>4, TurnBack DEF T
  <2>8. (g[k].cf = 1) = (c >= T)
    BY <2>5
  <2>9. g[k + 1].v = c /\ g[k + 1].cf = b
    BY <2>6, <2>7, <2>8
  <2> QED BY <2>9 DEF c, i, b
<1> HIDE DEF Y
<1>9. n \in Y
  BY <1>2, <1>7, <1>8, SetInduction
<1>10. g[n].v = Cut(f[0].v, w) /\ g[n].cf = f[0].cf
  <2>1. g[n].v = Cut(f[n - n].v, w) /\ g[n].cf = f[n - n].cf /\ n - n = 0
    BY <1>2, <1>9 DEF Y
  <2> QED BY <2>1
<1>11. Cut(x.v, w) = x.v
  BY WidthIs, CutNear DEF Nums
<1>12. Cut(f[n].v, w) \in Nums(w) /\ f[n].cf \in {0, 1}
  BY <1>6, CutDouble
<1> QED BY <1>1, <1>10, <1>11, <1>12

\* The powers of two in which a shift by n divides a width.
LEMMA ScalePowers ==
  ASSUME NEW w \in 2..Host, NEW n \in 0..w
  PROVE  /\ 2^w \in Nat \ {0} /\ 2^n \in Nat \ {0} /\ 2^(w - n) \in Nat \ {0}
         /\ 2^w = 2^n * 2^(w - n) /\ 2^(2 * w - n) = 2^w * 2^(w - n)
<1>1. w \in 0..2 * Host /\ n \in 0..2 * Host /\ w - n \in 0..2 * Host /\ n + (w - n) = w
      /\ w + (w - n) = 2 * w - n /\ w + (w - n) <= 2 * Host /\ n + (w - n) <= 2 * Host
  BY HostAssumption
<1>2. 2^(n + (w - n)) = 2^n * 2^(w - n)
  BY <1>1, PowersMultiply
<1>3. 2^(w + (w - n)) = 2^w * 2^(w - n)
  BY <1>1, PowersMultiply
<1>4. 2^w \in Nat \ {0} /\ 2^n \in Nat \ {0} /\ 2^(w - n) \in Nat \ {0}
  BY <1>1, PowersPositive
<1> QED BY <1>1, <1>2, <1>3, <1>4

\* P = Q * M, and the two parts of a digit of P: a with Q values, b with M.
Factors(P, Q, M) == P \in Nat \ {0} /\ Q \in Nat \ {0} /\ M \in Nat \ {0} /\ P = Q * M

PartsOf(P, Q, M, v, a, b) ==
  /\ a \in 0..Q - 1 /\ b \in 0..M - 1 /\ v = M * a + b
  /\ v * Q = P * a + b * Q /\ b * Q \in Int /\ 0 <= b * Q /\ b * Q <= P - Q
  /\ (v * Q) % P = b * Q

\* Every digit has these parts.
LEMMA Parts ==
  ASSUME NEW P, NEW Q, NEW M, Factors(P, Q, M), NEW v \in 0..P - 1
  PROVE  PartsOf(P, Q, M, v, v \div M, v % M)
<1> DEFINE a == v \div M
           b == v % M
<1>0. P \in Nat \ {0} /\ Q \in Nat \ {0} /\ M \in Nat \ {0} /\ P = Q * M
  BY DEF Factors
<1>1. a \in Int /\ b \in 0..M - 1 /\ v = M * a + b /\ v \in Int
  <2>1. v \in Int
    BY <1>0
  <2>2. a \in Int /\ b \in 0..M - 1 /\ v = M * a + b
    BY <1>0, <2>1, Division
  <2> QED BY <2>1, <2>2
<1> HIDE DEF a, b
<1>2. v = a * M + b
  BY <1>0, <1>1, Signs
<1>3. (v < Q * M) = (a < Q) /\ (0 * M <= v) = (0 <= a)
  BY <1>0, <1>1, <1>2, UpperDecides
<1>4. a \in 0..Q - 1
  BY <1>0, <1>1, <1>3
<1>5. v * Q = P * a + b * Q
  <2>1. (M * a + b) * Q = (Q * M) * a + b * Q
    BY <1>0, <1>1
  <2> QED BY <1>0, <1>1, <2>1
<1>6. b * Q \in Int /\ 0 <= b * Q /\ b * Q <= P - Q
  <2>1. \A x, y \in Int, z \in Nat : x <= y => x * z <= y * z
    OBVIOUS
  <2>2. 0 * Q <= b * Q /\ b * Q <= (M - 1) * Q
    BY <1>0, <1>1, <2>1
  <2>3. (M - 1) * Q = Q * M - Q /\ 0 * Q = 0 /\ b * Q \in Int
    BY <1>0, <1>1
  <2> QED BY <1>0, <2>2, <2>3
<1>7. (v * Q) % P = b * Q
  <2> DEFINE s == v * Q
             z == b * Q
  <2>1. s = P * a + z /\ z \in 0..P - 1
    BY <1>0, <1>5, <1>6
  <2> HIDE DEF s, z
  <2>2. P \in Nat \ {0} /\ a \in Int
    BY <1>0, <1>1
  <2>3. s % P = z
    BY <2>1, <2>2, DivisionUnique
  <2> QED BY <2>3 DEF s, z
<1> QED BY <1>0, <1>1, <1>4, <1>5, <1>6, <1>7 DEF a, b, PartsOf

\* A number of two digits times Q.
LEMMA ScaleLeft ==
  ASSUME NEW P, NEW Q, NEW M, Factors(P, Q, M),
         NEW x \in 0..P - 1, NEW y \in 0..P - 1
  PROVE  /\ ((x * Q) % P) + (y \div M) \in 0..P - 1 /\ (y * Q) % P \in 0..P - 1
         /\ (((x * Q) % P) + (y \div M)) * P + ((y * Q) % P) = ((x * P + y) % (P * M)) * Q
<1> DEFINE a == y \div M
           b == y % M
           c == x \div M
           d == x % M
<1>1. /\ a \in 0..Q - 1 /\ b \in 0..M - 1 /\ y = M * a + b
      /\ y * Q = P * a + b * Q /\ b * Q \in Int /\ 0 <= b * Q /\ b * Q <= P - Q
      /\ (y * Q) % P = b * Q
  BY Parts DEF PartsOf
<1>2. /\ c \in 0..Q - 1 /\ d \in 0..M - 1 /\ x = M * c + d
      /\ d * Q \in Int /\ 0 <= d * Q /\ d * Q <= P - Q
      /\ (x * Q) % P = d * Q
  BY Parts DEF PartsOf
<1> HIDE DEF a, b, c, d
<1>0. P \in Nat \ {0} /\ Q \in Nat \ {0} /\ M \in Nat \ {0} /\ P = Q * M
  BY DEF Factors
<1>3. d * Q + a \in 0..P - 1 /\ b * Q \in 0..P - 1
  BY <1>0, <1>1, <1>2
<1>4. P * M \in Nat \ {0} /\ P * M \in Int /\ d * P \in Int
  <2>1. \A u, v \in Nat \ {0} : u * v \in Nat \ {0}
    OBVIOUS
  <2> QED BY <1>0, <1>2, <2>1
<1>5. x * P + y = (P * M) * c + (d * P + y)
  <2>1. (M * c + d) * P = (P * M) * c + d * P
    BY <1>0, <1>2
  <2>2. (P * M) * c \in Int /\ y \in Int
    BY <1>0, <1>2, <1>4
  <2> QED BY <1>0, <1>2, <1>4, <2>1, <2>2
<1>6. d * P + y \in 0..P * M - 1
  <2>1. (d * P + y < M * P) = (d < M) /\ (0 * P <= d * P + y) = (0 <= d)
    BY <1>0, <1>2, UpperDecides
  <2>2. M * P = P * M /\ 0 * P = 0 /\ d < M /\ 0 <= d /\ d * P + y \in Int
    BY <1>0, <1>2, <1>4
  <2> QED BY <1>0, <1>4, <2>1, <2>2
<1>7. (x * P + y) % (P * M) = d * P + y
  <2> DEFINE s == x * P + y
             z == d * P + y
             K == P * M
  <2>1. s = K * c + z /\ z \in 0..K - 1 /\ K \in Nat \ {0} /\ c \in Int
    BY <1>0, <1>2, <1>4, <1>5, <1>6
  <2> HIDE DEF s, z, K
  <2>2. s % K = z
    BY <2>1, DivisionUnique
  <2> QED BY <2>2 DEF s, z, K
<1>8. (d * P + y) * Q = (d * Q + a) * P + b * Q
  <2>1. (d * P + y) * Q = (d * Q) * P + y * Q /\ (d * Q + a) * P = (d * Q) * P + P * a
    BY <1>0, <1>1, <1>2
  <2>2. (d * Q) * P \in Int /\ P * a \in Int
    BY <1>0, <1>1, <1>2
  <2> QED BY <1>0, <1>1, <2>1, <2>2
<1> QED BY <1>0, <1>1, <1>2, <1>3, <1>7, <1>8 DEF a

\* The digit x of base P stands for s, which may be negative.
DigitFor(P, x, s) == x \in 0..P - 1 /\ s \in Int /\ (x = s \/ x = s + P)

\* A number of two digits, the upper one signed, divided by Q.
LEMMA ScaleRight ==
  ASSUME NEW P, NEW Q, NEW M, Factors(P, Q, M),
         NEW x, NEW s, DigitFor(P, x, s), NEW y \in 0..P - 1
  PROVE  /\ (y \div Q) + (x % Q) * M \in 0..P - 1
         /\ s \div Q \in Int
         /\ (s * P + y) \div Q = (s \div Q) * P + ((y \div Q) + (x % Q) * M)
<1> DEFINE a == s \div Q
           b == s % Q
           c == y \div Q
           d == y % Q
<1>0. /\ P \in Nat \ {0} /\ Q \in Nat \ {0} /\ M \in Nat \ {0} /\ P = Q * M
      /\ x \in 0..P - 1 /\ s \in Int /\ (x = s \/ x = s + P)
  BY DEF Factors, DigitFor
<1>1. a \in Int /\ b \in 0..Q - 1 /\ s = Q * a + b
  BY <1>0, Division
<1>2. c \in 0..M - 1 /\ d \in 0..Q - 1 /\ y = Q * c + d
  <2>1. Factors(P, M, Q)
    BY <1>0, Signs DEF Factors
  <2> QED BY <2>1, Parts DEF PartsOf
<1> HIDE DEF a, b, c, d
<1>3. x % Q = b
  <2>1. CASE x = s
    BY <1>0, <1>1, <2>1, DivisionUnique
  <2>2. CASE x = s + P
    <3>1. x = Q * (a + M) + b
      <4>1. Q * (a + M) = Q * a + Q * M /\ Q * a \in Int /\ Q * M \in Int
        BY <1>0, <1>1
      <4> QED BY <1>0, <1>1, <2>2, <4>1
    <3> DEFINE k == a + M
    <3>2. k \in Int /\ x = Q * k + b
      BY <1>0, <1>1, <3>1
    <3> HIDE DEF k
    <3> QED BY <1>0, <1>1, <3>2, DivisionUnique
  <2> QED BY <1>0, <2>1, <2>2
<1>4. b * M \in Int /\ c + b * M \in 0..P - 1
  <2>1. \A u, v \in Int, z \in Nat : u <= v => u * z <= v * z
    OBVIOUS
  <2>2. 0 * M <= b * M /\ b * M <= (Q - 1) * M
    BY <1>0, <1>1, <2>1
  <2>3. (Q - 1) * M = Q * M - M /\ 0 * M = 0 /\ b * M \in Int
    BY <1>0, <1>1
  <2> QED BY <1>0, <1>2, <2>2, <2>3
<1>5. s * P + y = Q * (a * P + (c + b * M)) + d
  <2>1. (Q * a + b) * P = Q * (a * P) + b * P
    BY <1>0, <1>1
  <2>2. b * (Q * M) = Q * (b * M)
    BY <1>0, <1>1
  <2>3. Q * (a * P + (c + b * M)) = Q * (a * P) + Q * c + Q * (b * M)
    BY <1>0, <1>1, <1>2, <1>4
  <2>4. Q * (a * P) \in Int /\ Q * c \in Int /\ Q * (b * M) \in Int
    BY <1>0, <1>1, <1>2, <1>4
  <2> QED BY <1>0, <1>1, <1>2, <2>1, <2>2, <2>3, <2>4
<1>6. (s * P + y) \div Q = a * P + (c + b * M)
  <2> DEFINE t == s * P + y
             k == a * P + (c + b * M)
  <2>1. t = Q * k + d /\ k \in Int
    BY <1>0, <1>1, <1>2, <1>4, <1>5
  <2> HIDE DEF t, k
  <2>2. t \div Q = k
    BY <1>0, <1>2, <2>1, DivisionUnique
  <2> QED BY <2>2 DEF t, k
<1> QED BY <1>0, <1>1, <1>3, <1>4, <1>6 DEF a, c

\* A shift or a rotation by an immediate count.
LEMMA ShiftStep ==
  ASSUME exShift, I.s = "imm", NEW w, w = I.w, NEW k, k = I.n % (CountMask + 1),
         NEW op, op = I.op, NEW d, d = I.d, DOMAIN flags = FlagNames,
         NEW x, x = [v |-> Dst, cf |-> flags.cf, of |-> flags.of], NEW f, f = Shifted(op, x, w)
  PROVE  /\ ip' = ip + 1 /\ code' = code /\ trap' = trap
         /\ regs' = [regs EXCEPT ![d] = Cut(f[k].v, w)]
         /\ flags'.cf = f[k].cf /\ DOMAIN flags' = FlagNames
<1> DEFINE g == [flags EXCEPT !.cf = f[k].cf, !.of = f[k].of]
           h == [g EXCEPT !.zf = Flag(f[k].v = 0), !.sf = Msb(f[k].v, w)]
<1>1. /\ ip' = ip + 1 /\ code' = code /\ trap' = trap
      /\ Write([val |-> Cut(f[k].v, w), f |-> IF op \in {"shl", "shr", "sar"} THEN h ELSE g])
  BY DEF exShift, Advance
<1>2. /\ regs' = [regs EXCEPT ![d] = Cut(f[k].v, w)]
      /\ flags' = IF op \in {"shl", "shr", "sar"} THEN h ELSE g
  BY <1>1 DEF Write
<1>3. h.cf = f[k].cf /\ g.cf = f[k].cf /\ DOMAIN h = FlagNames /\ DOMAIN g = FlagNames
  BY DEF FlagNames
<1> HIDE DEF g, h
<1> QED BY <1>1, <1>2, <1>3

\* A bit is 0 or 1.
LEMMA BitIs ==
  ASSUME NEW v \in Int, NEW i \in 0..2 * Host
  PROVE  BitOf(v, i) \in {0, 1}
<1> DEFINE P == 2^i
           q == v \div P
<1>1. P \in Nat \ {0}
  BY PowersPositive
<1> HIDE DEF P
<1>2. q \in Int
  BY <1>1
<1> HIDE DEF q
<1>3. q % 2 \in {0, 1}
  BY <1>2
<1> QED BY <1>3 DEF BitOf, P, q

\* What SHLD and SHRD leave in the destination.
ShiftedIn(op, x, y, w, k) ==
  IF op = "shld" THEN ((x * 2^k) % 2^w) + (y \div 2^(w - k))
  ELSE (x \div 2^k) + (y % 2^k) * 2^(w - k)

\* A count of 0 leaves the destination as it is.
LEMMA ShiftedInByZero ==
  ASSUME NEW w \in 2..Host, NEW op, NEW x \in Nums(w), NEW y \in Nums(w)
  PROVE  ShiftedIn(op, x, y, w, 0) = x
<1> DEFINE P == 2^w
<1>1. P \in Nat \ {0} /\ x \in 0..P - 1 /\ y \in 0..P - 1
  BY WidthIs DEF Nums
<1>2. w - 0 = w /\ 2^0 = 1
  OBVIOUS
<1> HIDE DEF P
<1>3. (x * 1) % P = x /\ y \div P = 0 /\ x \div 1 = x /\ (y % 1) * P = 0
  <2>1. x % P = x /\ y \div P = 0
    BY <1>1
  <2>2. x * 1 = x /\ x \div 1 = x /\ y % 1 = 0 /\ 0 * P = 0
    BY <1>1
  <2> QED BY <2>1, <2>2
<1>4. x + 0 = x
  BY <1>1
<1> QED BY <1>2, <1>3, <1>4 DEF ShiftedIn, P

\* A double shift of the registers x and y.
LEMMA DoubleStep ==
  ASSUME exShiftDouble, NEW w \in 2..Host, w = I.w, NEW k \in Nat, k = I.n % (CountMask + 1),
         NEW op, op = I.op, NEW d \in Regs, d = I.d, DOMAIN flags = FlagNames, DOMAIN regs = Regs,
         flags.cf \in {0, 1}, k <= w, NEW x \in Nums(w), x = Dst, NEW y \in Nums(w), y = regs[I.s]
  PROVE  /\ ip' = ip + 1 /\ code' = code /\ trap' = trap
         /\ DOMAIN regs' = Regs /\ regs'[d] = ShiftedIn(op, x, y, w, k)
         /\ \A i \in Regs \ {d} : regs'[i] = regs[i]
         /\ flags'.cf \in {0, 1} /\ DOMAIN flags' = FlagNames
<1> DEFINE r == IF op = "shld" THEN Cut(x * 2^k, w) + y \div 2^(w - k)
                ELSE x \div 2^k + Cut(y, k) * 2^(w - k)
           c == IF op = "shld" THEN BitOf(x, w - k) ELSE BitOf(x, k - 1)
           o == IF op = "shld" THEN Flag(Msb(x, w) # BitOf(x, w - 2)) ELSE Flag(Msb(x, w) # y % 2)
           f == [flags EXCEPT !.cf = c, !.of = o, !.zf = Flag(r = 0), !.sf = Msb(r, w)]
<1>1. /\ ip' = ip + 1 /\ code' = code /\ trap' = trap
      /\ IF k = 0 \/ k > w THEN UNCHANGED <<regs, flags>> ELSE Write([val |-> r, f |-> f])
  BY DEF exShiftDouble, Advance
<1>2. r = ShiftedIn(op, x, y, w, k)
  BY DEF Cut, ShiftedIn
<1>3. f.cf = c /\ DOMAIN f = FlagNames
  BY DEF FlagNames
<1>4. k # 0 => c \in {0, 1}
  <2>1. w - k \in 0..2 * Host /\ (k # 0 => k - 1 \in 0..2 * Host) /\ x \in Int
    BY HostAssumption, WidthIs
  <2> QED BY <2>1, BitIs
<1> HIDE DEF r, c, o, f
<1>5. CASE k = 0
  <2>1. regs' = regs /\ flags' = flags
    BY <1>1, <1>5
  <2>2. ShiftedIn(op, x, y, w, k) = x /\ x = regs[d]
    BY <1>5, ShiftedInByZero DEF Dst
  <2> QED BY <1>1, <2>1, <2>2
<1>6. CASE k # 0
  <2>1. Write([val |-> r, f |-> f])
    BY <1>1, <1>6
  <2> QED BY <1>1, <1>2, <1>3, <1>4, <1>6, <2>1 DEF Write
<1> QED BY <1>5, <1>6

\* Beyond the width nothing happens.
LEMMA DoubleBeyond ==
  ASSUME exShiftDouble, I.n % (CountMask + 1) > I.w
  PROVE  ip' = ip + 1 /\ code' = code /\ trap' = trap /\ regs' = regs /\ flags' = flags
BY DEF exShiftDouble, Advance
-----------------------------------------------------------------------------
(***************************************************************************)
(* The routines that shift.                                                *)
(***************************************************************************)

\* Registers and flags of these routines.
ShiftPlaced ==
  /\ width \in 2..Host /\ ip \in 1..3 /\ trap = "none"
  /\ DOMAIN regs = Regs /\ DOMAIN flags = FlagNames
  /\ Old["ax"] \in Nums(width) /\ Old["dx"] \in Nums(width) /\ start.cf \in {0, 1}

\* The number is shifted by one bit through CF, or by Amount in double shifts.
Doubled == code[1].op \in {"shld", "shrd"}
Amount == IF Doubled THEN code[1].n % (CountMask + 1) ELSE 1

\* The upper half after n bits to the right.
UpperRight(op, x, w, n, v) ==
  /\ v \in Nums(w)
  /\ op = "shr" => v = x \div 2^n
  /\ op = "sar" => Signed(v, w) = Signed(x, w) \div 2^n

\* Left: AX first, unless SHLD has taken its upper bits already.
ShlBy ==
  LET x == Old["dx"]
      y == Old["ax"]
      n == Amount
  IN  /\ regs["ax"] = IF ip = 3 \/ (ip = 2 /\ ~Doubled) THEN AfterLeft(y, width, n) ELSE y
      /\ regs["dx"] = IF ip = 3 \/ (ip = 2 /\ Doubled) THEN ShiftedIn("shld", x, y, width, n) ELSE x
      /\ Doubled /\ ip < 3 => flags.cf \in {0, 1}
      /\ ~Doubled => flags.cf = CASE ip = 1 -> start.cf [] ip = 2 -> Msb(y, width) [] OTHER -> Msb(x, width)

ShlInv ==
  name = "shl" =>
    /\ ShiftPlaced
    /\ code = ShiftLeft(width) \/ \E n \in Nat : code = DoubleLeft(width, n)
    /\ Amount <= width => ShlBy

\* Right: DX first, unless SHRD has taken its lower bits already.
ShrBy ==
  LET x == Old["dx"]
      y == Old["ax"]
      n == Amount
  IN  /\ regs["ax"] = IF ip = 3 \/ (ip = 2 /\ Doubled) THEN ShiftedIn("shrd", y, x, width, n) ELSE y
      /\ IF ip = 3 \/ (ip = 2 /\ ~Doubled) THEN UpperRight(name, x, width, n, regs["dx"])
         ELSE regs["dx"] = x
      /\ Doubled /\ ip < 3 => flags.cf \in {0, 1}
      /\ ~Doubled => flags.cf = CASE ip = 1 -> start.cf [] ip = 2 -> x % 2 [] OTHER -> y % 2

ShrInv ==
  name \in {"shr", "sar"} =>
    /\ ShiftPlaced
    /\ code = ShiftRight(name, width) \/ \E n \in Nat : code = DoubleRight(name, width, n)
    /\ Amount <= width => ShrBy

\* A rotation: ax is what its turns left of x, then x again.
Before == [v |-> Old["ax"], cf |-> start.cf, of |-> 0]
RotateBy(l, r, n) ==
  LET f == Shifted(l, Before, width)
      k == n % (CountMask + 1)
  IN  /\ code = RotateBack(l, r, width, n)
      /\ regs["ax"] = IF ip = 2 THEN Cut(f[k].v, width) ELSE Old["ax"]
      /\ ip = 1 => flags.cf = start.cf /\ flags.of = 0
      /\ ip = 2 => flags.cf = f[k].cf
      /\ ip = 3 /\ l = "rcl" => flags.cf = start.cf

RotateInv ==
  name = "rotate" =>
    /\ ShiftPlaced
    /\ \E n \in Nat : RotateBy("rol", "ror", n) \/ RotateBy("rcl", "rcr", n)

ShiftInv == ShlInv /\ ShrInv /\ RotateInv

\* The programs of these routines.
LEMMA ShiftLeftCode ==
  ASSUME NEW w, NEW p, p = ShiftLeft(w)
  PROVE  /\ Len(p) = 2
         /\ p[1].op = "shl" /\ p[1].d = "ax" /\ p[1].s = "imm" /\ p[1].w = w /\ p[1].n = 1
         /\ p[2].op = "rcl" /\ p[2].d = "dx" /\ p[2].s = "imm" /\ p[2].w = w /\ p[2].n = 1
BY DEF ShiftLeft, RI

\* The same to the right.
LEMMA ShiftRightCode ==
  ASSUME NEW op, NEW w, NEW p, p = ShiftRight(op, w)
  PROVE  /\ Len(p) = 2
         /\ p[1].op = op /\ p[1].d = "dx" /\ p[1].s = "imm" /\ p[1].w = w /\ p[1].n = 1
         /\ p[2].op = "rcr" /\ p[2].d = "ax" /\ p[2].s = "imm" /\ p[2].w = w /\ p[2].n = 1
BY DEF ShiftRight, RI

\* The double shift to the left.
LEMMA DoubleLeftCode ==
  ASSUME NEW w, NEW n, NEW p, p = DoubleLeft(w, n)
  PROVE  /\ Len(p) = 2
         /\ p[1].op = "shld" /\ p[1].d = "dx" /\ p[1].s = "ax" /\ p[1].w = w /\ p[1].n = n
         /\ p[2].op = "shl" /\ p[2].d = "ax" /\ p[2].s = "imm" /\ p[2].w = w /\ p[2].n = n
BY DEF DoubleLeft, RI

\* The double shift to the right.
LEMMA DoubleRightCode ==
  ASSUME NEW op, NEW w, NEW n, NEW p, p = DoubleRight(op, w, n)
  PROVE  /\ Len(p) = 2
         /\ p[1].op = "shrd" /\ p[1].d = "ax" /\ p[1].s = "dx" /\ p[1].w = w /\ p[1].n = n
         /\ p[2].op = op /\ p[2].d = "dx" /\ p[2].s = "imm" /\ p[2].w = w /\ p[2].n = n
BY DEF DoubleRight, RI

\* A rotation and its inverse.
LEMMA RotateCode ==
  ASSUME NEW l, NEW r, NEW w, NEW n, NEW p, p = RotateBack(l, r, w, n)
  PROVE  /\ Len(p) = 2
         /\ p[1].op = l /\ p[1].d = "ax" /\ p[1].s = "imm" /\ p[1].w = w /\ p[1].n = n
         /\ p[2].op = r /\ p[2].d = "ax" /\ p[2].s = "imm" /\ p[2].w = w /\ p[2].n = n
BY DEF RotateBack, RI

\* Counts are taken modulo CountMask + 1; one stays one.
LEMMA Counts ==
  /\ \A n \in Nat : n % (CountMask + 1) \in 0..CountMask /\ n % (CountMask + 1) \in Nat
  /\ 1 % (CountMask + 1) = 1 /\ 1 \in 0..CountMask /\ 1 \in 1..CountMask
<1>1. CountMask + 1 \in Nat \ {0} /\ CountMask >= 1 /\ CountMask \in Nat
  BY InstructionsAssumption
<1>2. ASSUME NEW n \in Nat PROVE n % (CountMask + 1) \in 0..CountMask
  <2> DEFINE K == CountMask + 1
  <2>1. K \in Nat \ {0} /\ K - 1 = CountMask
    BY <1>1
  <2> HIDE DEF K
  <2>2. n % K \in 0..K - 1
    BY <2>1, Division
  <2> QED BY <2>1, <2>2 DEF K
<1>3. 1 % (CountMask + 1) = 1
  <2> DEFINE K == CountMask + 1
  <2>1. K \in Nat \ {0} /\ 1 = K * 0 + 1 /\ 1 \in 0..K - 1
    BY <1>1
  <2> HIDE DEF K
  <2>2. 1 % K = 1
    BY <2>1
  <2> QED BY <2>2 DEF K
<1>4. CountMask + 1 - 1 = CountMask
  BY <1>1
<1> QED BY <1>1, <1>2, <1>3

\* One turn of each of the single shifts, in the terms of the invariants.
LEMMA OneTurn ==
  ASSUME NEW w \in 2..Host, NEW v \in Nums(w), NEW c \in {0, 1}, NEW x, x.v = v, x.cf = c
  PROVE  /\ \A f : f = Shifted("rcl", x, w) =>
                 /\ Cut(f[1].v, w) = AfterLeft(v, w, 1) + c
                 /\ f[1].cf = Msb(v, w)
         /\ \A f : f = Shifted("rcr", x, w) =>
                 /\ Cut(f[1].v, w) = (v \div 2) + c * Top(w)
                 /\ f[1].cf = v % 2
<1>1. 1 \in 1..CountMask /\ 1 - 1 = 0
  BY Counts
<1>2. \A f : f = Shifted("rcl", x, w) => f[1] = ShiftOnce("rcl", x, w)
  BY <1>1, ShiftedIs
<1>3. \A f : f = Shifted("rcr", x, w) => f[1] = ShiftOnce("rcr", x, w)
  BY <1>1, ShiftedIs
<1> DEFINE T == Top(w)
           P == 2^w
           y == ShiftOnce("rcl", x, w)
           z == ShiftOnce("rcr", x, w)
<1>4. T \in Nat /\ P = 2 * T /\ P \in Nat \ {0} /\ v \in 0..P - 1 /\ v \in Int /\ w \in 1..2 * Host
  BY WidthIs DEF Nums
<1>5. Cut(v, w) = v /\ Msb(v, w) = IF v >= T THEN 1 ELSE 0
  BY <1>4, CutNear, SignOf
<1>6. /\ y.cf = IF Cut(v, w) >= T THEN 1 ELSE 0
      /\ Cut(y.v, w) = (IF Cut(v, w) >= T THEN 2 * (Cut(v, w) - T) ELSE 2 * Cut(v, w)) + c
  BY <1>4, TurnLeft
<1>7. z.v \in Nums(w) /\ z.v = (v \div 2) + (IF c = 1 THEN T ELSE 0) /\ z.cf = v % 2
  BY TurnRight
<1>8. Cut(z.v, w) = z.v
  <2>1. z.v \in 0..2^w - 1
    BY <1>7 DEF Nums
  <2> QED BY <1>4, <2>1, CutNear
<1> HIDE DEF T, P, y, z
<1>9. (v * 2) % P = IF v >= T THEN 2 * (v - T) ELSE 2 * v
  BY <1>4
<1>10. AfterLeft(v, w, 1) = IF v >= T THEN 2 * (v - T) ELSE 2 * v
  <2>1. 2^1 = 2
    BY PowersPositive
  <2> QED BY <1>9, <2>1 DEF AfterLeft, P
<1>11. c * T = IF c = 1 THEN T ELSE 0
  BY <1>4
<1> QED BY <1>2, <1>3, <1>5, <1>6, <1>7, <1>8, <1>10, <1>11 DEF y, z, T

\* The sign bit is the quotient by its weight.
LEMMA UpperBit ==
  ASSUME NEW w \in 2..Host, NEW v \in Nums(w)
  PROVE  /\ v \div 2^(w - 1) = Msb(v, w) /\ Msb(v, w) \in {0, 1} /\ Cut(v, w) = v
         /\ v % 2^1 = v % 2 /\ v \div 2^1 = v \div 2 /\ v % 2 \in {0, 1}
<1> DEFINE T == Top(w)
           P == 2^w
<1>1. T \in Nat \ {0} /\ P = 2 * T /\ v \in 0..P - 1 /\ v \in Int /\ w \in 1..2 * Host
  BY WidthIs DEF Nums
<1>2. Cut(v, w) = v /\ Msb(v, w) = IF v >= T THEN 1 ELSE 0
  BY <1>1, CutNear, SignOf
<1>3. 2^(w - 1) = T /\ 2^1 = 2
  BY PowersPositive DEF Top
<1> HIDE DEF T, P
<1>4. v \div T = IF v >= T THEN 1 ELSE 0
  <2> DEFINE q == IF v >= T THEN 1 ELSE 0
             z == IF v >= T THEN v - T ELSE v
  <2>1. v = T * q + z /\ q \in Int /\ z \in 0..T - 1
    BY <1>1
  <2> HIDE DEF q, z
  <2>2. v \div T = q
    BY <1>1, <2>1, DivisionUnique
  <2> QED BY <2>2 DEF q
<1>5. v % 2 \in {0, 1}
  BY <1>1
<1> QED BY <1>2, <1>3, <1>4, <1>5

\* A shift to the left keeps the invariant.
LEMMA ShlStep ==
  ASSUME ShlInv, Next, UNCHANGED <<name, width, start>>
  PROVE  ShlInv'
<1> SUFFICES ASSUME name = "shl" PROVE ShlInv'
  BY DEF ShlInv
<1> DEFINE x == Old["dx"]
           y == Old["ax"]
           w == width
           k == Amount
           low == AfterLeft(y, w, k)
           high == ShiftedIn("shld", x, y, w, k)
<1>1. /\ w \in 2..Host /\ ip \in 1..3 /\ trap = "none"
      /\ DOMAIN regs = Regs /\ DOMAIN flags = FlagNames
      /\ x \in Nums(w) /\ y \in Nums(w) /\ start.cf \in {0, 1}
  BY DEF ShlInv, ShiftPlaced
<1>2. /\ code = ShiftLeft(w) \/ \E n \in Nat : code = DoubleLeft(w, n)
      /\ k <= w => ShlBy
  BY DEF ShlInv
<1>3. k <= w =>
        /\ regs["ax"] = IF ip = 3 \/ (ip = 2 /\ ~Doubled) THEN low ELSE y
        /\ regs["dx"] = IF ip = 3 \/ (ip = 2 /\ Doubled) THEN high ELSE x
        /\ Doubled /\ ip < 3 => flags.cf \in {0, 1}
        /\ ~Doubled => flags.cf = CASE ip = 1 -> start.cf [] ip = 2 -> Msb(y, w) [] OTHER -> Msb(x, w)
  BY <1>2 DEF ShlBy
<1>4. name' = name /\ w' = w /\ Old' = Old /\ start' = start /\ x' = x /\ y' = y
  BY DEF Old
<1>5. Len(code) = 2
  BY <1>2, ShiftLeftCode, DoubleLeftCode
<1>6. ip \in {1, 2}
  BY <1>1, <1>5, Dispatch
<1> HIDE DEF x, y, w, k, low, high
<1>7. SUFFICES /\ ip' = ip + 1 /\ trap' = trap /\ code' = code /\ DOMAIN regs' = Regs
               /\ DOMAIN flags' = FlagNames
               /\ k <= w =>
                    /\ regs'["ax"] = IF ip' = 3 \/ (ip' = 2 /\ ~Doubled) THEN low ELSE y
                    /\ regs'["dx"] = IF ip' = 3 \/ (ip' = 2 /\ Doubled) THEN high ELSE x
                    /\ Doubled /\ ip' < 3 => flags'.cf \in {0, 1}
                    /\ ~Doubled => flags'.cf = IF ip' = 2 THEN Msb(y, w) ELSE Msb(x, w)
  <2>1. code' = code /\ k' = k /\ low' = low /\ high' = high /\ Doubled' = Doubled
    BY <1>4, <1>7 DEF k, low, high, Doubled, Amount
  <2>2. ip' \in {2, 3}
    BY <1>6, <1>7
  <2>3. k <= w => ShlBy'
    BY <1>4, <1>7, <2>1, <2>2 DEF ShlBy, x, y, w, k, low, high
  <2>4. ShiftPlaced'
    BY <1>1, <1>4, <1>7, <2>2 DEF ShiftPlaced, x, y, w
  <2> QED BY <1>2, <1>4, <2>1, <2>3, <2>4 DEF ShlInv, w, k
<1>8. CASE code = ShiftLeft(w)
  <2>1. /\ code[1].op = "shl" /\ code[1].d = "ax" /\ code[1].s = "imm" /\ code[1].w = w /\ code[1].n = 1
        /\ code[2].op = "rcl" /\ code[2].d = "dx" /\ code[2].s = "imm" /\ code[2].w = w /\ code[2].n = 1
    BY <1>8, ShiftLeftCode
  <2>2. ~Doubled /\ k = 1 /\ k <= w
    BY <1>1, <2>1 DEF Doubled, Amount, k
  <2>3. exShift /\ I.s = "imm" /\ I.w = w /\ I.n % (CountMask + 1) = 1 /\ I.d = (IF ip = 1 THEN "ax" ELSE "dx")
        /\ I.op = (IF ip = 1 THEN "shl" ELSE "rcl") /\ Dst = (IF ip = 1 THEN y ELSE x)
    BY <1>3, <1>6, <2>1, <2>2, Counts, Dispatch DEF I, Dst
  <2> DEFINE z == [v |-> Dst, cf |-> flags.cf, of |-> flags.of]
             f == Shifted(I.op, z, w)
  <2>4. /\ ip' = ip + 1 /\ code' = code /\ trap' = trap
        /\ regs' = [regs EXCEPT ![I.d] = Cut(f[1].v, w)]
        /\ flags'.cf = f[1].cf /\ DOMAIN flags' = FlagNames
    BY <1>1, <2>3, ShiftStep
  <2>5. z.v = Dst /\ z.cf = flags.cf
    OBVIOUS
  <2> HIDE DEF z
  <2>6. CASE ip = 1
    <3>1. f[1].v = AfterLeft(y, w, 1) /\ f[1].v \in Nums(w) /\ f[1].cf = Msb(y, w)
      <4>1. flags.cf = start.cf
        BY <1>3, <2>2, <2>6
      <4>2. f = Shifted("shl", z, w) /\ z.v = y /\ z.cf \in {0, 1} /\ 1 \in 0..CountMask
        BY <1>1, <2>3, <2>5, <2>6, <4>1, Counts
      <4> HIDE DEF f
      <4> QED BY <1>1, <4>2, ShlTurns
    <3> HIDE DEF f
    <3>2. Cut(f[1].v, w) = low
      <4>1. Cut(f[1].v, w) = f[1].v
        BY <1>1, <3>1, UpperBit
      <4> QED BY <2>2, <3>1, <4>1 DEF low
    <3> QED BY <1>1, <1>3, <2>2, <2>3, <2>4, <2>6, <3>1, <3>2 DEF Regs
  <2>7. CASE ip = 2
    <3>1. Msb(y, w) \in {0, 1} /\ y \div 2^(w - 1) = Msb(y, w)
      BY <1>1, UpperBit
    <3>2. Cut(f[1].v, w) = AfterLeft(x, w, 1) + Msb(y, w) /\ f[1].cf = Msb(x, w)
      <4>1. z.v = x /\ z.cf = Msb(y, w) /\ f = Shifted("rcl", z, w)
        BY <1>3, <2>2, <2>3, <2>5, <2>7
      <4> HIDE DEF f
      <4> QED BY <1>1, <3>1, <4>1, OneTurn
    <3> HIDE DEF f
    <3>3. Cut(f[1].v, w) = high
      BY <2>2, <3>1, <3>2 DEF high, ShiftedIn, AfterLeft
    <3> QED BY <1>1, <1>3, <2>2, <2>3, <2>4, <2>7, <3>2, <3>3 DEF Regs
  <2> QED BY <1>6, <2>6, <2>7
<1>9. ASSUME NEW n \in Nat, code = DoubleLeft(w, n)
      PROVE  /\ ip' = ip + 1 /\ trap' = trap /\ code' = code /\ DOMAIN regs' = Regs
             /\ DOMAIN flags' = FlagNames /\ Doubled
             /\ k <= w =>
                  /\ regs'["ax"] = IF ip' = 3 THEN low ELSE y
                  /\ regs'["dx"] = high
                  /\ ip' < 3 => flags'.cf \in {0, 1}
  <2>1. /\ code[1].op = "shld" /\ code[1].d = "dx" /\ code[1].s = "ax" /\ code[1].w = w /\ code[1].n = n
        /\ code[2].op = "shl" /\ code[2].d = "ax" /\ code[2].s = "imm" /\ code[2].w = w /\ code[2].n = n
    BY <1>9, DoubleLeftCode
  <2>2. Doubled /\ k = n % (CountMask + 1) /\ k \in 0..CountMask /\ k \in Nat
    BY <2>1, Counts DEF Doubled, Amount, k
  <2>3. I.w = w /\ I.n % (CountMask + 1) = k
    BY <1>6, <2>1, <2>2 DEF I
  <2>4. CASE ip = 1
    <3>2. exShiftDouble /\ I.op = "shld" /\ I.d = "dx" /\ I.s = "ax"
      BY <2>1, <2>4, Dispatch DEF I
    <3>3. CASE k <= w
      <4>1. Dst = x /\ regs[I.s] = y /\ flags.cf \in {0, 1} /\ "dx" \in Regs
        BY <1>3, <2>2, <2>4, <3>2, <3>3 DEF Dst, Regs
      <4>2. /\ ip' = ip + 1 /\ code' = code /\ trap' = trap
            /\ DOMAIN regs' = Regs /\ regs'["dx"] = ShiftedIn("shld", x, y, w, k)
            /\ \A i \in Regs \ {"dx"} : regs'[i] = regs[i]
            /\ flags'.cf \in {0, 1} /\ DOMAIN flags' = FlagNames
        BY <1>1, <2>2, <2>3, <3>2, <3>3, <4>1, DoubleStep
      <4>3. "ax" \in Regs \ {"dx"} /\ regs["ax"] = y
        BY <1>3, <2>2, <2>4, <3>3 DEF Regs
      <4> QED BY <2>2, <2>4, <4>2, <4>3 DEF high
    <3>4. CASE ~(k <= w)
      <4>1. I.n % (CountMask + 1) > I.w
        BY <1>1, <2>2, <2>3, <3>4
      <4>2. ip' = ip + 1 /\ code' = code /\ trap' = trap /\ regs' = regs /\ flags' = flags
        BY <3>2, <4>1, DoubleBeyond
      <4> QED BY <1>1, <2>2, <3>4, <4>2
    <3> QED BY <3>3, <3>4
  <2>5. CASE ip = 2
    <3>1. exShift /\ I.op = "shl" /\ I.d = "ax" /\ I.s = "imm"
      BY <2>1, <2>5, Dispatch DEF I
    <3> DEFINE z == [v |-> Dst, cf |-> flags.cf, of |-> flags.of]
               f == Shifted("shl", z, w)
    <3>2. /\ ip' = ip + 1 /\ code' = code /\ trap' = trap
          /\ regs' = [regs EXCEPT !["ax"] = Cut(f[k].v, w)]
          /\ DOMAIN flags' = FlagNames
      BY <1>1, <2>3, <3>1, ShiftStep
    <3>3. z.v = Dst /\ z.cf = flags.cf
      OBVIOUS
    <3> HIDE DEF z
    <3>4. CASE k <= w
      <4>1. z.v = y /\ z.cf \in {0, 1} /\ regs["dx"] = high
        BY <1>3, <2>2, <2>5, <3>1, <3>3, <3>4 DEF Dst
      <4>2. f[k].v = AfterLeft(y, w, k) /\ f[k].v \in Nums(w)
        <5> DEFINE g == f
        <5>1. g = Shifted("shl", z, w)
          OBVIOUS
        <5> HIDE DEF g, f
        <5>2. g[k].v = AfterLeft(y, w, k) /\ g[k].v \in Nums(w)
          BY <1>1, <2>2, <4>1, <5>1, ShlTurns
        <5> QED BY <5>2 DEF g
      <4> HIDE DEF f
      <4>3. Cut(f[k].v, w) = low
        <5>1. Cut(f[k].v, w) = f[k].v
          BY <1>1, <4>2, UpperBit
        <5> QED BY <4>2, <5>1 DEF low
      <4> QED BY <1>1, <2>2, <2>5, <3>2, <4>1, <4>3 DEF Regs
    <3>5. CASE ~(k <= w)
      BY <1>1, <2>2, <3>2, <3>5
    <3> QED BY <3>4, <3>5
  <2> QED BY <1>6, <2>4, <2>5
<1>10. CASE \E n \in Nat : code = DoubleLeft(w, n)
  <2>1. ip' \in {2, 3}
    BY <1>6, <1>9, <1>10
  <2> QED BY <1>9, <1>10, <2>1
<1> QED BY <1>2, <1>8, <1>10 DEF w

\* Both shifts to the right, in the terms of the invariants.
LEMMA RightTurns ==
  ASSUME NEW w \in 2..Host, NEW x, NEW v \in Nums(w), v = x.v, x.cf \in {0, 1},
         NEW op \in {"shr", "sar"}, NEW f, f = Shifted(op, x, w), NEW n \in 0..CountMask
  PROVE  UpperRight(op, v, w, n, f[n].v) /\ (n = 1 => f[n].cf = v % 2)
<1>1. CASE op = "shr"
  BY <1>1, ShrTurns DEF UpperRight
<1>2. CASE op = "sar"
  BY <1>2, SarTurns DEF UpperRight
<1> QED BY <1>1, <1>2

\* A shift to the right keeps the invariant.
LEMMA ShrStep ==
  ASSUME ShrInv, Next, UNCHANGED <<name, width, start>>
  PROVE  ShrInv'
<1> SUFFICES ASSUME name \in {"shr", "sar"} PROVE ShrInv'
  BY DEF ShrInv
<1> DEFINE x == Old["dx"]
           y == Old["ax"]
           w == width
           k == Amount
           low == ShiftedIn("shrd", y, x, w, k)
<1>1. /\ w \in 2..Host /\ ip \in 1..3 /\ trap = "none"
      /\ DOMAIN regs = Regs /\ DOMAIN flags = FlagNames
      /\ x \in Nums(w) /\ y \in Nums(w) /\ start.cf \in {0, 1}
  BY DEF ShrInv, ShiftPlaced
<1>2. /\ code = ShiftRight(name, w) \/ \E n \in Nat : code = DoubleRight(name, w, n)
      /\ k <= w => ShrBy
  BY DEF ShrInv
<1>3. k <= w =>
        /\ regs["ax"] = IF ip = 3 \/ (ip = 2 /\ Doubled) THEN low ELSE y
        /\ IF ip = 3 \/ (ip = 2 /\ ~Doubled) THEN UpperRight(name, x, w, k, regs["dx"])
           ELSE regs["dx"] = x
        /\ Doubled /\ ip < 3 => flags.cf \in {0, 1}
        /\ ~Doubled => flags.cf = CASE ip = 1 -> start.cf [] ip = 2 -> x % 2 [] OTHER -> y % 2
  BY <1>2 DEF ShrBy
<1>4. name' = name /\ w' = w /\ Old' = Old /\ start' = start /\ x' = x /\ y' = y
  BY DEF Old
<1>5. Len(code) = 2
  BY <1>2, ShiftRightCode, DoubleRightCode
<1>6. ip \in {1, 2}
  BY <1>1, <1>5, Dispatch
<1> HIDE DEF x, y, w, k, low
<1>7. SUFFICES /\ ip' = ip + 1 /\ trap' = trap /\ code' = code /\ DOMAIN regs' = Regs
               /\ DOMAIN flags' = FlagNames
               /\ k <= w =>
                    /\ regs'["ax"] = IF ip' = 3 \/ (ip' = 2 /\ Doubled) THEN low ELSE y
                    /\ IF ip' = 3 \/ (ip' = 2 /\ ~Doubled) THEN UpperRight(name, x, w, k, regs'["dx"])
                       ELSE regs'["dx"] = x
                    /\ Doubled /\ ip' < 3 => flags'.cf \in {0, 1}
                    /\ ~Doubled => flags'.cf = IF ip' = 2 THEN x % 2 ELSE y % 2
  <2>1. code' = code /\ k' = k /\ low' = low /\ Doubled' = Doubled
    BY <1>4, <1>7 DEF k, low, Doubled, Amount
  <2>2. ip' \in {2, 3}
    BY <1>6, <1>7
  <2>3. k <= w => ShrBy'
    BY <1>4, <1>7, <2>1, <2>2 DEF ShrBy, x, y, w, k, low
  <2>4. ShiftPlaced'
    BY <1>1, <1>4, <1>7, <2>2 DEF ShiftPlaced, x, y, w
  <2> QED BY <1>2, <1>4, <2>1, <2>3, <2>4 DEF ShrInv, w, k
<1>8. CASE code = ShiftRight(name, w)
  <2>1. /\ code[1].op = name /\ code[1].d = "dx" /\ code[1].s = "imm" /\ code[1].w = w /\ code[1].n = 1
        /\ code[2].op = "rcr" /\ code[2].d = "ax" /\ code[2].s = "imm" /\ code[2].w = w /\ code[2].n = 1
    BY <1>8, ShiftRightCode
  <2>2. ~Doubled /\ k = 1 /\ k <= w
    BY <1>1, <2>1 DEF Doubled, Amount, k
  <2>3. exShift /\ I.s = "imm" /\ I.w = w /\ I.n % (CountMask + 1) = 1 /\ I.d = (IF ip = 1 THEN "dx" ELSE "ax")
        /\ I.op = (IF ip = 1 THEN name ELSE "rcr") /\ Dst = (IF ip = 1 THEN x ELSE y)
    BY <1>3, <1>6, <2>1, <2>2, Counts, Dispatch DEF I, Dst
  <2> DEFINE z == [v |-> Dst, cf |-> flags.cf, of |-> flags.of]
             f == Shifted(I.op, z, w)
  <2>4. /\ ip' = ip + 1 /\ code' = code /\ trap' = trap
        /\ regs' = [regs EXCEPT ![I.d] = Cut(f[1].v, w)]
        /\ flags'.cf = f[1].cf /\ DOMAIN flags' = FlagNames
    BY <1>1, <2>3, ShiftStep
  <2>5. z.v = Dst /\ z.cf = flags.cf
    OBVIOUS
  <2> HIDE DEF z
  <2>6. CASE ip = 1
    <3>1. UpperRight(name, x, w, 1, f[1].v) /\ f[1].cf = x % 2
      <4>1. flags.cf = start.cf
        BY <1>3, <2>2, <2>6
      <4>2. f = Shifted(name, z, w) /\ z.v = x /\ z.cf \in {0, 1} /\ 1 \in 0..CountMask
        BY <1>1, <2>3, <2>5, <2>6, <4>1, Counts
      <4> HIDE DEF f
      <4> QED BY <1>1, <4>2, RightTurns
    <3> HIDE DEF f
    <3>2. Cut(f[1].v, w) = f[1].v
      <4>1. f[1].v \in Nums(w)
        BY <3>1 DEF UpperRight
      <4> QED BY <1>1, <4>1, UpperBit
    <3> QED BY <1>1, <1>3, <2>2, <2>3, <2>4, <2>6, <3>1, <3>2 DEF Regs
  <2>7. CASE ip = 2
    <3>1. x % 2 \in {0, 1} /\ y \div 2^1 = y \div 2 /\ x % 2^1 = x % 2
      BY <1>1, UpperBit
    <3>2. Cut(f[1].v, w) = (y \div 2) + (x % 2) * Top(w) /\ f[1].cf = y % 2
      <4>1. z.v = y /\ z.cf = x % 2 /\ f = Shifted("rcr", z, w)
        BY <1>3, <2>2, <2>3, <2>5, <2>7
      <4> HIDE DEF f
      <4> QED BY <1>1, <3>1, <4>1, OneTurn
    <3> HIDE DEF f
    <3>3. Cut(f[1].v, w) = low
      BY <2>2, <3>1, <3>2 DEF low, ShiftedIn, Top
    <3> QED BY <1>1, <1>3, <2>2, <2>3, <2>4, <2>7, <3>2, <3>3 DEF Regs
  <2> QED BY <1>6, <2>6, <2>7
<1>9. ASSUME NEW n \in Nat, code = DoubleRight(name, w, n)
      PROVE  /\ ip' = ip + 1 /\ trap' = trap /\ code' = code /\ DOMAIN regs' = Regs
             /\ DOMAIN flags' = FlagNames /\ Doubled
             /\ k <= w =>
                  /\ regs'["ax"] = low
                  /\ IF ip' = 3 THEN UpperRight(name, x, w, k, regs'["dx"]) ELSE regs'["dx"] = x
                  /\ ip' < 3 => flags'.cf \in {0, 1}
  <2>1. /\ code[1].op = "shrd" /\ code[1].d = "ax" /\ code[1].s = "dx" /\ code[1].w = w /\ code[1].n = n
        /\ code[2].op = name /\ code[2].d = "dx" /\ code[2].s = "imm" /\ code[2].w = w /\ code[2].n = n
    BY <1>9, DoubleRightCode
  <2>2. Doubled /\ k = n % (CountMask + 1) /\ k \in 0..CountMask /\ k \in Nat
    BY <2>1, Counts DEF Doubled, Amount, k
  <2>3. I.w = w /\ I.n % (CountMask + 1) = k
    BY <1>6, <2>1, <2>2 DEF I
  <2>4. CASE ip = 1
    <3>1. exShiftDouble /\ I.op = "shrd" /\ I.d = "ax" /\ I.s = "dx"
      BY <2>1, <2>4, Dispatch DEF I
    <3>2. CASE k <= w
      <4>1. Dst = y /\ regs[I.s] = x /\ flags.cf \in {0, 1} /\ "ax" \in Regs
        BY <1>3, <2>2, <2>4, <3>1, <3>2 DEF Dst, Regs
      <4>2. /\ ip' = ip + 1 /\ code' = code /\ trap' = trap
            /\ DOMAIN regs' = Regs /\ regs'["ax"] = ShiftedIn("shrd", y, x, w, k)
            /\ \A i \in Regs \ {"ax"} : regs'[i] = regs[i]
            /\ flags'.cf \in {0, 1} /\ DOMAIN flags' = FlagNames
        BY <1>1, <2>2, <2>3, <3>1, <3>2, <4>1, DoubleStep
      <4>3. "dx" \in Regs \ {"ax"} /\ regs["dx"] = x
        BY <1>3, <2>2, <2>4, <3>2 DEF Regs
      <4> QED BY <2>2, <2>4, <4>2, <4>3 DEF low
    <3>3. CASE ~(k <= w)
      <4>1. I.n % (CountMask + 1) > I.w
        BY <1>1, <2>2, <2>3, <3>3
      <4>2. ip' = ip + 1 /\ code' = code /\ trap' = trap /\ regs' = regs /\ flags' = flags
        BY <3>1, <4>1, DoubleBeyond
      <4> QED BY <1>1, <2>2, <3>3, <4>2
    <3> QED BY <3>2, <3>3
  <2>5. CASE ip = 2
    <3>1. exShift /\ I.op = name /\ I.d = "dx" /\ I.s = "imm"
      BY <2>1, <2>5, Dispatch DEF I
    <3> DEFINE z == [v |-> Dst, cf |-> flags.cf, of |-> flags.of]
               f == Shifted(name, z, w)
    <3>2. /\ ip' = ip + 1 /\ code' = code /\ trap' = trap
          /\ regs' = [regs EXCEPT !["dx"] = Cut(f[k].v, w)]
          /\ DOMAIN flags' = FlagNames
      BY <1>1, <2>3, <3>1, ShiftStep
    <3>3. z.v = Dst /\ z.cf = flags.cf
      OBVIOUS
    <3> HIDE DEF z
    <3>4. CASE k <= w
      <4>1. z.v = x /\ z.cf \in {0, 1} /\ regs["ax"] = low
        BY <1>3, <2>2, <2>5, <3>1, <3>3, <3>4 DEF Dst
      <4>2. UpperRight(name, x, w, k, f[k].v)
        <5> DEFINE g == f
        <5>1. g = Shifted(name, z, w)
          OBVIOUS
        <5> HIDE DEF g, f
        <5>2. UpperRight(name, x, w, k, g[k].v)
          BY <1>1, <2>2, <4>1, <5>1, RightTurns
        <5> QED BY <5>2 DEF g
      <4> HIDE DEF f
      <4>3. Cut(f[k].v, w) = f[k].v
        <5>1. f[k].v \in Nums(w)
          BY <4>2 DEF UpperRight
        <5> QED BY <1>1, <5>1, UpperBit
      <4> QED BY <1>1, <2>2, <2>5, <3>2, <4>1, <4>2, <4>3 DEF Regs
    <3>5. CASE ~(k <= w)
      BY <1>1, <2>2, <3>2, <3>5
    <3> QED BY <3>4, <3>5
  <2> QED BY <1>6, <2>4, <2>5
<1>10. CASE \E n \in Nat : code = DoubleRight(name, w, n)
  <2>1. ip' \in {2, 3}
    BY <1>6, <1>9, <1>10
  <2> QED BY <1>9, <1>10, <2>1
<1> QED BY <1>2, <1>8, <1>10 DEF w

\* The invariant of a rotation after its first step, and after its second.
LEMMA RotateStep ==
  ASSUME RotateInv, Next, UNCHANGED <<name, width, start>>
  PROVE  RotateInv'
<1> SUFFICES ASSUME name = "rotate" PROVE RotateInv'
  BY DEF RotateInv
<1> DEFINE y == Old["ax"]
           w == width
<1>1. /\ ShiftPlaced /\ w \in 2..Host /\ ip \in 1..3 /\ trap = "none"
      /\ DOMAIN regs = Regs /\ DOMAIN flags = FlagNames
      /\ y \in Nums(w) /\ start.cf \in {0, 1}
  BY DEF RotateInv, ShiftPlaced
<1>2. PICK n \in Nat : RotateBy("rol", "ror", n) \/ RotateBy("rcl", "rcr", n)
  BY DEF RotateInv
<1>3. name' = name /\ w' = w /\ Old' = Old /\ start' = start /\ y' = y /\ Before' = Before
  BY DEF Old, Before
<1> DEFINE k == n % (CountMask + 1)
<1>4. k \in 0..CountMask
  BY Counts
<1> HIDE DEF y, w, k
<1>5. ASSUME NEW l, NEW r, <<l, r>> \in {<<"rol", "ror">>, <<"rcl", "rcr">>}, RotateBy(l, r, n)
      PROVE  RotateInv'
  <2> DEFINE f == Shifted(l, Before, w)
  <2>1. /\ code = RotateBack(l, r, w, n)
        /\ regs["ax"] = IF ip = 2 THEN Cut(f[k].v, w) ELSE y
        /\ ip = 1 => flags.cf = start.cf /\ flags.of = 0
        /\ ip = 2 => flags.cf = f[k].cf
    BY <1>5 DEF RotateBy, w, y, k
  <2>2. /\ Len(code) = 2
        /\ code[1].op = l /\ code[1].d = "ax" /\ code[1].s = "imm" /\ code[1].w = w /\ code[1].n = n
        /\ code[2].op = r /\ code[2].d = "ax" /\ code[2].s = "imm" /\ code[2].w = w /\ code[2].n = n
    BY <2>1, RotateCode
  <2>3. ip \in {1, 2}
    BY <1>1, <2>2, Dispatch
  <2>4. /\ l \in {"rol", "rcl"} /\ r = IF l = "rol" THEN "ror" ELSE "rcr"
    BY <1>5
  <2>5. /\ exShift /\ I.s = "imm" /\ I.w = w /\ I.n % (CountMask + 1) = k /\ I.d = "ax"
        /\ I.op = (IF ip = 1 THEN l ELSE r) /\ Dst = regs["ax"]
    BY <2>2, <2>3, <2>4, Dispatch DEF I, Dst, k
  <2> DEFINE z == [v |-> Dst, cf |-> flags.cf, of |-> flags.of]
             g == Shifted(I.op, z, w)
  <2>6. /\ ip' = ip + 1 /\ code' = code /\ trap' = trap
        /\ regs' = [regs EXCEPT !["ax"] = Cut(g[k].v, w)]
        /\ flags'.cf = g[k].cf /\ DOMAIN flags' = FlagNames
    BY <1>1, <2>5, ShiftStep
  <2>7. ip' \in 1..3 /\ ShiftPlaced' /\ DOMAIN regs' = Regs /\ regs'["ax"] = Cut(g[k].v, w)
    <3>1. ip' \in 1..3 /\ DOMAIN regs' = Regs /\ regs'["ax"] = Cut(g[k].v, w)
      BY <1>1, <2>3, <2>6 DEF Regs
    <3> HIDE DEF f, g, z
    <3> QED BY <1>1, <1>3, <2>6, <3>1 DEF ShiftPlaced, w
  <2>8. f' = f /\ k' = k
    BY <1>3 DEF k
  <2>9. SUFFICES /\ regs'["ax"] = IF ip' = 2 THEN Cut(f[k].v, w) ELSE y
                 /\ ip' = 2 => flags'.cf = f[k].cf
                 /\ ip' = 3 /\ l = "rcl" => flags'.cf = start.cf
    <3>1. ip' # 1
      BY <2>3, <2>6
    <3>2. RotateBy(l, r, n)'
      BY <1>3, <2>1, <2>6, <2>8, <2>9, <3>1 DEF RotateBy, w, y, k
    <3> QED BY <1>5, <2>7, <3>2 DEF RotateInv
  <2>10. CASE ip = 1
    <3>1. z = Before /\ I.op = l
      BY <2>1, <2>5, <2>10 DEF Before, y
    <3>2. g = f
      BY <3>1
    <3> HIDE DEF f, g, z
    <3> QED BY <2>6, <2>7, <2>10, <3>2
  <2>11. CASE ip = 2
    <3>1. z.v = Cut(f[k].v, w) /\ z.cf = f[k].cf
      BY <2>1, <2>5, <2>11
    <3>2. Before.v = y /\ Before.cf = start.cf
      BY DEF Before, y
    <3>3. f = Shifted(l, Before, w) /\ g = Shifted(r, z, w)
      BY <2>5, <2>11
    <3> HIDE DEF f, g, z
    <3>4. f[k].cf \in {0, 1} /\ g[k].v = y /\ (l = "rcl" => g[k].cf = start.cf)
      <4>1. CASE l = "rol"
        <5>1. f = Shifted("rol", Before, w) /\ g = Shifted("ror", z, w)
          BY <2>4, <3>3, <4>1
        <5>2. ASSUME NEW a \in {0, 1}, z.cf = a PROVE g[k].v = y
          BY <1>1, <1>4, <3>1, <3>2, <5>1, <5>2, RolBack
        <5>3. f[k].cf \in {0, 1}
          <6> DEFINE u == [v |-> Cut(f[k].v, w), cf |-> 0]
                     h == Shifted("ror", u, w)
          <6>1. u.v = Cut(f[k].v, w) /\ u.cf \in {0, 1}
            OBVIOUS
          <6> HIDE DEF u, h
          <6> QED BY <1>1, <1>4, <3>2, <5>1, <6>1, RolBack
        <5> QED BY <3>1, <4>1, <5>2, <5>3
      <4>2. CASE l = "rcl"
        <5>1. f = Shifted("rcl", Before, w) /\ g = Shifted("rcr", z, w)
          BY <2>4, <3>3, <4>2
        <5> QED BY <1>1, <1>4, <3>1, <3>2, <5>1, RclBack
      <4> QED BY <2>4, <4>1, <4>2
    <3>5. Cut(g[k].v, w) = y
      BY <1>1, <3>4, UpperBit
    <3> QED BY <2>6, <2>7, <2>11, <3>4, <3>5
  <2> QED BY <2>3, <2>10, <2>11
<1> QED BY <1>2, <1>5

\* What every one of these routines starts from.
LEMMA ShiftStart ==
  ASSUME Init, name \in Shift_names
  PROVE  /\ ip = 1 /\ ShiftPlaced /\ regs = Old /\ flags.cf = start.cf /\ flags.of = 0
         /\ name = "shl" => code = ShiftLeft(width) \/ \E n \in Nat : code = DoubleLeft(width, n)
         /\ name \in {"shr", "sar"} =>
              code = ShiftRight(name, width) \/ \E n \in Nat : code = DoubleRight(name, width, n)
         /\ name = "rotate" =>
              \E n \in Nat : code = RotateBack("rol", "ror", width, n)
                             \/ code = RotateBack("rcl", "rcr", width, n)
<1>1. PICK w \in Widths : InitShifts(w)
  BY Names DEF Init, Decimal_names, Product_names, Shift_names, Loop_names, Branchless_names
<1> DEFINE V == Values(w)
           E == Edges(w)
<1>2. ip = 1 /\ trap = "none"
  BY DEF Init
<1>3. w \in 2..Host /\ V \in SUBSET Nums(w) /\ E \in SUBSET Nums(w) /\ Z \in SUBSET Nums(w)
  <2>1. w \in 2..Host /\ V \subseteq Nums(w) /\ E \subseteq Nums(w)
    BY OperandsFit
  <2>2. 2^w \in Nat /\ 2^w > 0
    BY <2>1, WidthIs
  <2> QED BY <2>1, <2>2 DEF Z, Nums
<1>4. \/ Start("shl", w, ShiftLeft(w), E, Z, Z, E, Z)
      \/ \E op \in {"sar", "shr"} : Start(op, w, ShiftRight(op, w), E, Z, Z, E, Z)
      \/ \E n \in Nat :
           \/ Start("shl", w, DoubleLeft(w, n), E, Z, Z, E, Z)
           \/ \E op \in {"sar", "shr"} : Start(op, w, DoubleRight(op, w, n), E, Z, Z, E, Z)
           \/ Start("rotate", w, RotateBack("rol", "ror", w, n), V, Z, Z, Z, Z)
           \/ Start("rotate", w, RotateBack("rcl", "rcr", w, n), V, Z, Z, Z, Z)
  <2>1. 0..CountMask + 2 \subseteq Nat
    BY InstructionsAssumption
  <2> QED BY <1>1, <2>1 DEF InitShifts
<1> HIDE DEF V, E
<1>5. ASSUME NEW m, NEW c, NEW X \in SUBSET Nums(w), NEW D \in SUBSET Nums(w),
             Start(m, w, c, X, Z, Z, D, Z)
      PROVE  /\ name = m /\ code = c /\ width = w
             /\ ShiftPlaced /\ regs = Old /\ flags.cf = start.cf /\ flags.of = 0
  <2>1. /\ name = m /\ width = w /\ code = c
        /\ regs = start.regs /\ DOMAIN regs = Regs
        /\ regs["ax"] \in X /\ regs["dx"] \in D
        /\ start.cf \in {0, 1} /\ flags = [f \in FlagNames |-> IF f = "cf" THEN start.cf ELSE 0]
    BY <1>5, Started
  <2>2. DOMAIN flags = FlagNames /\ flags.cf = start.cf /\ flags.of = 0
    BY <2>1 DEF FlagNames
  <2>3. Old = regs /\ regs["ax"] \in Nums(w) /\ regs["dx"] \in Nums(w)
    BY <2>1 DEF Old
  <2> QED BY <1>2, <1>3, <2>1, <2>2, <2>3 DEF ShiftPlaced
<1>6. CASE Start("shl", w, ShiftLeft(w), E, Z, Z, E, Z)
  <2>1. /\ name = "shl" /\ code = ShiftLeft(w) /\ width = w
        /\ ShiftPlaced /\ regs = Old /\ flags.cf = start.cf /\ flags.of = 0
    BY <1>3, <1>5, <1>6
  <2> QED BY <1>2, <2>1
<1>7. CASE \E op \in {"sar", "shr"} : Start(op, w, ShiftRight(op, w), E, Z, Z, E, Z)
  <2>1. PICK op \in {"sar", "shr"} : Start(op, w, ShiftRight(op, w), E, Z, Z, E, Z)
    BY <1>7
  <2>2. /\ name = op /\ code = ShiftRight(op, w) /\ width = w
        /\ ShiftPlaced /\ regs = Old /\ flags.cf = start.cf /\ flags.of = 0
    BY <1>3, <1>5, <2>1
  <2> QED BY <1>2, <2>2
<1>8. ASSUME NEW n \in Nat, Start("shl", w, DoubleLeft(w, n), E, Z, Z, E, Z)
      PROVE  /\ name = "shl" /\ code = DoubleLeft(width, n)
             /\ ShiftPlaced /\ regs = Old /\ flags.cf = start.cf /\ flags.of = 0
  BY <1>3, <1>5, <1>8
<1>9. ASSUME NEW n \in Nat, NEW op \in {"sar", "shr"}, Start(op, w, DoubleRight(op, w, n), E, Z, Z, E, Z)
      PROVE  /\ name = op /\ code = DoubleRight(name, width, n)
             /\ ShiftPlaced /\ regs = Old /\ flags.cf = start.cf /\ flags.of = 0
  BY <1>3, <1>5, <1>9
<1>10. ASSUME NEW n \in Nat, NEW l, NEW r, Start("rotate", w, RotateBack(l, r, w, n), V, Z, Z, Z, Z)
       PROVE  /\ name = "rotate" /\ code = RotateBack(l, r, width, n)
              /\ ShiftPlaced /\ regs = Old /\ flags.cf = start.cf /\ flags.of = 0
  BY <1>3, <1>5, <1>10
<1>11. ASSUME NEW n \in Nat,
              \/ Start("shl", w, DoubleLeft(w, n), E, Z, Z, E, Z)
              \/ \E op \in {"sar", "shr"} : Start(op, w, DoubleRight(op, w, n), E, Z, Z, E, Z)
              \/ Start("rotate", w, RotateBack("rol", "ror", w, n), V, Z, Z, Z, Z)
              \/ Start("rotate", w, RotateBack("rcl", "rcr", w, n), V, Z, Z, Z, Z)
       PROVE  /\ ShiftPlaced /\ regs = Old /\ flags.cf = start.cf /\ flags.of = 0
              /\ \/ name = "shl" /\ code = DoubleLeft(width, n)
                 \/ name \in {"shr", "sar"} /\ code = DoubleRight(name, width, n)
                 \/ name = "rotate" /\ code \in {RotateBack("rol", "ror", width, n),
                                                 RotateBack("rcl", "rcr", width, n)}
  BY <1>8, <1>9, <1>10, <1>11
<1>12. CASE \E n \in Nat :
              \/ Start("shl", w, DoubleLeft(w, n), E, Z, Z, E, Z)
              \/ \E op \in {"sar", "shr"} : Start(op, w, DoubleRight(op, w, n), E, Z, Z, E, Z)
              \/ Start("rotate", w, RotateBack("rol", "ror", w, n), V, Z, Z, Z, Z)
              \/ Start("rotate", w, RotateBack("rcl", "rcr", w, n), V, Z, Z, Z, Z)
  BY <1>2, <1>11, <1>12
<1> QED BY <1>4, <1>6, <1>7, <1>12

\* The invariants hold at the start.
LEMMA ShiftInit ==
  ASSUME Init
  PROVE  ShiftInv
<1>1. ShlInv
  <2> SUFFICES ASSUME name = "shl" PROVE ShlInv
    BY DEF ShlInv
  <2>1. /\ ip = 1 /\ ShiftPlaced /\ regs = Old /\ flags.cf = start.cf
        /\ code = ShiftLeft(width) \/ \E n \in Nat : code = DoubleLeft(width, n)
    BY ShiftStart DEF Shift_names
  <2>2. ShlBy
    BY <2>1 DEF ShlBy, ShiftPlaced
  <2> QED BY <2>1, <2>2 DEF ShlInv
<1>2. ShrInv
  <2> SUFFICES ASSUME name \in {"shr", "sar"} PROVE ShrInv
    BY DEF ShrInv
  <2>1. /\ ip = 1 /\ ShiftPlaced /\ regs = Old /\ flags.cf = start.cf
        /\ code = ShiftRight(name, width) \/ \E n \in Nat : code = DoubleRight(name, width, n)
    BY ShiftStart DEF Shift_names
  <2>2. ShrBy
    BY <2>1 DEF ShrBy, ShiftPlaced
  <2> QED BY <2>1, <2>2 DEF ShrInv
<1>3. RotateInv
  <2> SUFFICES ASSUME name = "rotate" PROVE RotateInv
    BY DEF RotateInv
  <2>1. /\ ip = 1 /\ ShiftPlaced /\ regs = Old /\ flags.cf = start.cf /\ flags.of = 0
        /\ \E n \in Nat : code = RotateBack("rol", "ror", width, n)
                          \/ code = RotateBack("rcl", "rcr", width, n)
    BY ShiftStart DEF Shift_names
  <2>2. \A n, l, r : code = RotateBack(l, r, width, n) => RotateBy(l, r, n)
    BY <2>1 DEF RotateBy
  <2> QED BY <2>1, <2>2 DEF RotateInv
<1> QED BY <1>1, <1>2, <1>3 DEF ShiftInv

\* The powers for an amount of at most the width.
LEMMA AmountFactors ==
  ASSUME NEW w \in 2..Host, NEW n \in 0..w
  PROVE  /\ Factors(2^w, 2^n, 2^(w - n)) /\ 2^(2 * w - n) = 2^w * 2^(w - n)
         /\ 2^w \in Nat \ {0} /\ 2^(2 * w) = 2^w * 2^w
BY ScalePowers, DoubleWidth DEF Factors

\* The sign and the lowest bit of a number of two digits.
LEMMA EndBits ==
  ASSUME NEW w \in 2..Host, NEW u \in Nums(w), NEW l \in Nums(w)
  PROVE  Msb(u * 2^w + l, 2 * w) = Msb(u, w) /\ (u * 2^w + l) % 2 = l % 2
<1> DEFINE P == 2^w
           T == Top(w)
           v == u * P + l
<1>1. P \in Nat \ {0} /\ T \in Nat /\ P = 2 * T /\ u \in 0..P - 1 /\ l \in 0..P - 1
      /\ w \in 1..2 * Host
  BY WidthIs DEF Nums
<1>2. 2 * w \in 1..2 * Host /\ 2^(2 * w) = P * P /\ Top(2 * w) = T * P
  BY DoubleWidth
<1>3. v \in 0..P * P - 1
  BY SignedDouble
<1>4. P * P \in Int
  BY <1>1
<1> HIDE DEF P, T
<1>5. (T * P <= v) = (T <= u)
  BY <1>1, UpperDecides
<1>6. v \in Int /\ 0 <= v /\ v < P * P /\ T * P \in Int
  BY <1>1, <1>3, <1>4
<1>7. v % 2 = l % 2
  <2>1. v = 2 * (u * T) + l
    BY <1>1
  <2> DEFINE q == u * T
  <2>2. q \in Int /\ v = 2 * q + l
    BY <1>1, <2>1
  <2> HIDE DEF q, v
  <2> QED BY <1>1, <2>2
<1> HIDE DEF v
<1>8. Cut(v, 2 * w) = v
  BY <1>2, <1>6, CutNear
<1>9. Msb(v, 2 * w) = IF v >= T * P THEN 1 ELSE 0
  BY <1>2, <1>6, <1>8, SignOf
<1>10. Msb(u, w) = IF u >= T THEN 1 ELSE 0
  <2>1. Cut(u, w) = u
    BY UpperBit
  <2> QED BY <1>1, <2>1, SignOf DEF T
<1>11. Msb(v, 2 * w) = Msb(u, w)
  BY <1>1, <1>5, <1>6, <1>9, <1>10
<1> QED BY <1>7, <1>11 DEF v, P

\* The upper digit of a signed number is what SAR leaves.
LEMMA SignedDigits ==
  ASSUME NEW w \in 2..Host, NEW u \in Nums(w), NEW l \in Nums(w)
  PROVE  (Signed(u, w) * 2^w + l) % 2^(2 * w) = u * 2^w + l
<1> DEFINE P == 2^w
           v == u * P + l
           K == 2^(2 * w)
<1>1. /\ Signed(v, 2 * w) = Signed(u, w) * P + l
      /\ v \in 0..P * P - 1
  BY SignedDouble
<1>2. 2 * w \in 1..2 * Host /\ K = P * P
  BY DoubleWidth
<1>3. K \in Nat \ {0}
  <2>1. 2 * w \in 0..2 * Host
    BY <1>2
  <2> QED BY <2>1, PowersPositive
<1>4. Signed(v, 2 * w) = IF v >= Top(2 * w) THEN v - K ELSE v
  BY DEF Signed
<1> HIDE DEF P, v, K
<1>5. v % K = v /\ (v - K) % K = v
  <2>1. v \in 0..K - 1 /\ v \in Int
    BY <1>1, <1>2, <1>3
  <2> QED BY <1>3, <2>1
<1>6. Signed(v, 2 * w) % K = v
  BY <1>4, <1>5
<1> QED BY <1>1, <1>6 DEF P, v, K

\* What a shift to the left has computed when it ends.
LEMMA ShlEnds ==
  ASSUME ShlInv, Ended({"shl"}), Amount <= width
  PROVE  /\ R = (A % 2^(2 * width - Amount)) * 2^Amount
         /\ ~Doubled => flags.cf = Msb(A, 2 * width)
<1> DEFINE x == Old["dx"]
           y == Old["ax"]
           w == width
           n == Amount
           P == 2^w
           Q == 2^n
           M == 2^(w - n)
<1>1. /\ name = "shl" /\ ip > Len(code)
      /\ ShiftPlaced /\ ShlBy
      /\ code = ShiftLeft(w) \/ \E i \in Nat : code = DoubleLeft(w, i)
  BY DEF ShlInv, Ended, Finished
<1>2. Len(code) = 2 /\ n \in Nat
  <2>1. CASE code = ShiftLeft(w)
    BY <2>1, ShiftLeftCode DEF Amount, Doubled
  <2>2. CASE \E i \in Nat : code = DoubleLeft(w, i)
    BY <2>2, DoubleLeftCode, Counts DEF Amount, Doubled
  <2> QED BY <1>1, <2>1, <2>2
<1>3. w \in 2..Host /\ ip = 3 /\ x \in Nums(w) /\ y \in Nums(w)
  BY <1>1, <1>2 DEF ShiftPlaced
<1>4. n \in 0..w
  BY <1>2, <1>3
<1>5. /\ regs["ax"] = AfterLeft(y, w, n) /\ regs["dx"] = ShiftedIn("shld", x, y, w, n)
      /\ ~Doubled => flags.cf = Msb(x, w)
  BY <1>1, <1>3 DEF ShlBy
<1>6. regs["ax"] = (y * Q) % P /\ regs["dx"] = ((x * Q) % P) + (y \div M)
  BY <1>5 DEF AfterLeft, ShiftedIn
<1>7. Factors(P, Q, M) /\ 2^(2 * w - n) = P * M
  BY <1>3, <1>4, AmountFactors
<1>8. x \in 0..P - 1 /\ y \in 0..P - 1
  BY <1>3 DEF Nums
<1>9. A = x * P + y /\ R = regs["dx"] * P + regs["ax"]
  BY DEF A, R, Two
<1>10. Msb(x * P + y, 2 * w) = Msb(x, w)
  BY <1>3, EndBits
<1> HIDE DEF x, y, w, n, P, Q, M
<1>11. (((x * Q) % P) + (y \div M)) * P + ((y * Q) % P) = ((x * P + y) % (P * M)) * Q
  BY <1>7, <1>8, ScaleLeft
<1>12. R = (A % 2^(2 * w - n)) * Q
  BY <1>6, <1>7, <1>9, <1>11
<1>13. ~Doubled => flags.cf = Msb(A, 2 * w)
  BY <1>5, <1>9, <1>10
<1> QED BY <1>12, <1>13 DEF Q, n, w

\* What a shift to the right has computed when it ends.
LEMMA ShrEnds ==
  ASSUME ShrInv, Ended({"shr", "sar"}), Amount <= width
  PROVE  /\ name = "shr" => R = A \div 2^Amount
         /\ name = "sar" => R = (Signed(A, 2 * width) \div 2^Amount) % 2^(2 * width)
         /\ ~Doubled => flags.cf = A % 2
<1> DEFINE x == Old["dx"]
           y == Old["ax"]
           w == width
           n == Amount
           P == 2^w
           Q == 2^n
           M == 2^(w - n)
           low == (y \div Q) + (x % Q) * M
           d == regs["dx"]
<1>1. /\ name \in {"shr", "sar"} /\ ip > Len(code)
      /\ ShiftPlaced /\ ShrBy
      /\ code = ShiftRight(name, w) \/ \E i \in Nat : code = DoubleRight(name, w, i)
  BY DEF ShrInv, Ended, Finished
<1>2. Len(code) = 2 /\ n \in Nat
  <2>1. CASE code = ShiftRight(name, w)
    BY <1>1, <2>1, ShiftRightCode DEF Amount, Doubled
  <2>2. CASE \E i \in Nat : code = DoubleRight(name, w, i)
    BY <2>2, DoubleRightCode, Counts DEF Amount, Doubled
  <2> QED BY <1>1, <2>1, <2>2
<1>3. w \in 2..Host /\ ip = 3 /\ x \in Nums(w) /\ y \in Nums(w)
  BY <1>1, <1>2 DEF ShiftPlaced
<1>4. n \in 0..w
  BY <1>2, <1>3
<1>5. /\ regs["ax"] = ShiftedIn("shrd", y, x, w, n) /\ UpperRight(name, x, w, n, d)
      /\ ~Doubled => flags.cf = y % 2
  BY <1>1, <1>3 DEF ShrBy
<1>6. /\ regs["ax"] = low
      /\ d \in Nums(w)
      /\ name = "shr" => d = x \div Q
      /\ name = "sar" => Signed(d, w) = Signed(x, w) \div Q
  BY <1>5 DEF UpperRight, ShiftedIn
<1>7. Factors(P, Q, M) /\ P \in Nat \ {0}
  BY <1>3, <1>4, AmountFactors
<1>8. x \in 0..P - 1 /\ y \in 0..P - 1
  BY <1>3 DEF Nums
<1>9. A = x * P + y /\ R = d * P + regs["ax"]
  BY DEF A, R, Two
<1>10. (x * P + y) % 2 = y % 2
  BY <1>3, EndBits
<1>11. Signed(x * P + y, 2 * w) = Signed(x, w) * P + y /\ Signed(x, w) \in Int
  BY <1>3, SignedDouble
<1>12. x = Signed(x, w) \/ x = Signed(x, w) + P
  BY <1>7, <1>8 DEF Signed
<1> DEFINE s == Signed(x, w)
<1> HIDE DEF x, y, w, n, P, Q, M, s, d
<1>13. ASSUME NEW t, DigitFor(P, x, t)
       PROVE  low \in 0..P - 1 /\ (t * P + y) \div Q = (t \div Q) * P + low
  BY <1>7, <1>8, <1>13, ScaleRight
<1>14. /\ low \in 0..P - 1 /\ (x * P + y) \div Q = (x \div Q) * P + low
       /\ (s * P + y) \div Q = (s \div Q) * P + low
  <2>1. DigitFor(P, x, x) /\ DigitFor(P, x, s)
    BY <1>7, <1>8, <1>11, <1>12 DEF s, DigitFor
  <2> HIDE DEF low
  <2> QED BY <1>13, <2>1
<1> HIDE DEF low
<1>15. name = "shr" => R = A \div Q
  BY <1>6, <1>9, <1>14
<1>16. name = "sar" => R = (Signed(A, 2 * w) \div Q) % 2^(2 * w)
  <2>1. low \in Nums(w)
    BY <1>14 DEF Nums, P
  <2>2. (Signed(d, w) * P + low) % 2^(2 * w) = d * P + low
    BY <1>3, <1>6, <2>1, SignedDigits DEF P
  <2> QED BY <1>6, <1>9, <1>11, <1>14, <2>2 DEF s
<1>17. ~Doubled => flags.cf = A % 2
  BY <1>5, <1>9, <1>10
<1> QED BY <1>15, <1>16, <1>17 DEF Q, n, w

\* The shifts, when they end.
LEMMA ShiftEnds ==
  ASSUME ShiftInv
  PROVE  ShiftsScale
<1>1. ASSUME Ended({"shl"}), Amount <= width
      PROVE  /\ name = "shl" /\ R = (A % 2^(2 * width - Amount)) * 2^Amount
             /\ ~Doubled => flags.cf = Msb(A, 2 * width)
  BY <1>1, ShlEnds DEF ShiftInv, Ended
<1>2. ASSUME Ended({"shr", "sar"}), Amount <= width
      PROVE  /\ name # "shl"
             /\ name = "shr" => R = A \div 2^Amount
             /\ name = "sar" => R = (Signed(A, 2 * width) \div 2^Amount) % 2^(2 * width)
             /\ ~Doubled => flags.cf = A % 2
  BY <1>2, ShrEnds DEF ShiftInv, Ended
<1>3. /\ Ended({"shr"}) = (Ended({"shr", "sar"}) /\ name = "shr")
      /\ Ended({"sar"}) = (Ended({"shr", "sar"}) /\ name = "sar")
      /\ Ended({"shl", "shr", "sar"}) => Ended({"shl"}) \/ Ended({"shr", "sar"})
  BY DEF Ended
<1>4. SUFFICES ASSUME Amount <= width
               PROVE  /\ Ended({"shl"}) => R = (A % 2^(2 * width - Amount)) * 2^Amount
                      /\ Ended({"shr"}) => R = A \div 2^Amount
                      /\ Ended({"sar"}) => R = (Signed(A, 2 * width) \div 2^Amount) % 2^(2 * width)
                      /\ Ended({"shl", "shr", "sar"}) /\ ~Doubled =>
                           flags.cf = IF name = "shl" THEN Msb(A, 2 * width) ELSE A % 2
  BY DEF ShiftsScale, Amount, Doubled
<1> QED BY <1>1, <1>2, <1>3, <1>4

\* The rotations, when they end.
LEMMA RotateEnds ==
  ASSUME ShiftInv
  PROVE  RotationsInvert
<1> SUFFICES ASSUME Ended({"rotate"})
             PROVE  regs["ax"] = Old["ax"] /\ (code[1].op = "rcl" => flags.cf = start.cf)
  BY DEF RotationsInvert
<1>1. name = "rotate" /\ ip > Len(code) /\ RotateInv
  BY DEF Ended, Finished, ShiftInv
<1>2. ShiftPlaced /\ \E n \in Nat : RotateBy("rol", "ror", n) \/ RotateBy("rcl", "rcr", n)
  BY <1>1 DEF RotateInv
<1>3. ASSUME NEW n, NEW l, NEW r, RotateBy(l, r, n)
      PROVE  regs["ax"] = Old["ax"] /\ (code[1].op = "rcl" => flags.cf = start.cf)
  <2>1. code = RotateBack(l, r, width, n)
    BY <1>3 DEF RotateBy
  <2>2. Len(code) = 2 /\ code[1].op = l
    BY <2>1, RotateCode
  <2>3. ip = 3
    BY <1>1, <1>2, <2>2 DEF ShiftPlaced
  <2> QED BY <1>3, <2>2, <2>3 DEF RotateBy
<1> QED BY <1>2, <1>3

\* Shifts and rotations move every bit to where arithmetic says, whatever the
\* width, the operands and the count (exShift, exShiftDouble).
THEOREM Shifts == Spec => []ShiftsExact
<1>1. Init => ShiftInv
  BY ShiftInit
<1>2. ShiftInv /\ [Next /\ UNCHANGED <<name, width, start>>]_allvars => ShiftInv'
  <2>1. ASSUME ShiftInv, Next, UNCHANGED <<name, width, start>> PROVE ShiftInv'
    BY <2>1, ShlStep, ShrStep, RotateStep DEF ShiftInv
  <2>2. ASSUME ShiftInv, UNCHANGED allvars PROVE ShiftInv'
    <3>1. /\ UNCHANGED <<code, regs, flags, ip, trap, name, width, start>>
          /\ Old' = Old /\ Amount' = Amount /\ Doubled' = Doubled /\ Before' = Before
      BY <2>2 DEF allvars, vars, Old, Amount, Doubled, Before
    <3>2. ShlInv'
      BY <2>2, <3>1 DEF ShiftInv, ShlInv, ShiftPlaced, ShlBy
    <3>3. ShrInv'
      BY <2>2, <3>1 DEF ShiftInv, ShrInv, ShiftPlaced, ShrBy
    <3>4. RotateInv'
      BY <2>2, <3>1 DEF ShiftInv, RotateInv, ShiftPlaced, RotateBy
    <3> QED BY <3>2, <3>3, <3>4 DEF ShiftInv
  <2> QED BY <2>1, <2>2
<1>3. ShiftInv => ShiftsExact
  BY ShiftEnds, RotateEnds DEF ShiftsExact
<1> QED BY <1>1, <1>2, <1>3, PTL DEF Spec
-----------------------------------------------------------------------------
(***************************************************************************)
(* Bitwise operations, on masks and on the lowest bit.                     *)
(***************************************************************************)

\* The sums of the lowest n bits: what the recursion of Number defines.
Lows(f, S, n) ==
  f = [k \in 0..n |-> IF k = 0 THEN 0 ELSE f[k - 1] + (IF k - 1 \in S THEN 2^(k - 1) ELSE 0)]

\* There is always one more bit.
LEMMA LowsExtend ==
  ASSUME NEW S, NEW n \in Nat, NEW f, Lows(f, S, n)
  PROVE  \E g : Lows(g, S, n + 1)
<1> DEFINE b(k) == IF k - 1 \in S THEN 2^(k - 1) ELSE 0
           g == [k \in 0..n + 1 |-> IF k = n + 1 THEN f[n] + b(n + 1) ELSE f[k]]
           h == [k \in 0..n + 1 |-> IF k = 0 THEN 0 ELSE g[k - 1] + b(k)]
<1>1. \A k \in 0..n : f[k] = IF k = 0 THEN 0 ELSE f[k - 1] + b(k)
  BY Zenon DEF Lows
<1> HIDE DEF b
<1>2. ASSUME NEW k \in 0..n + 1 PROVE g[k] = h[k]
  <2>1. CASE k = n + 1
    <3>1. g[k] = f[n] + b(k) /\ g[n] = f[n] /\ k # 0 /\ k - 1 = n
      BY <2>1
    <3>2. h[k] = g[n] + b(k)
      BY <2>1, <3>1
    <3> QED BY <3>1, <3>2
  <2>2. CASE k # n + 1 /\ k # 0
    <3>1. k \in 0..n /\ k - 1 \in 0..n /\ k - 1 \in 0..n + 1 /\ k - 1 # n + 1
      BY <2>2
    <3>2. g[k] = f[k] /\ g[k - 1] = f[k - 1]
      BY <2>2, <3>1
    <3>3. h[k] = g[k - 1] + b(k)
      BY <2>2
    <3>4. f[k] = f[k - 1] + b(k)
      BY <1>1, <2>2, <3>1
    <3> QED BY <3>2, <3>3, <3>4
  <2>3. CASE k = 0
    <3>1. g[k] = f[k] /\ h[k] = 0 /\ f[0] = 0
      BY <1>1, <2>3
    <3> QED BY <2>3, <3>1
  <2> QED BY <2>1, <2>2, <2>3
<1>3. g = h
  BY <1>2, Zenon
<1>4. Lows(g, S, n + 1)
  BY <1>3 DEF Lows, b
<1> QED BY <1>4

\* The recursion defines something.
LEMMA LowsExist ==
  ASSUME NEW S, NEW n \in Nat
  PROVE  \E f : Lows(f, S, n)
<1> DEFINE X == {k \in Nat : \E f : Lows(f, S, k)}
<1>1. 0 \in X
  <2> DEFINE f == [k \in 0..0 |-> 0]
             g == [k \in 0..0 |-> IF k = 0 THEN 0
                                  ELSE f[k - 1] + (IF k - 1 \in S THEN 2^(k - 1) ELSE 0)]
  <2>1. \A k \in 0..0 : f[k] = g[k]
    OBVIOUS
  <2>2. f = g
    BY <2>1, Zenon
  <2>3. Lows(f, S, 0)
    BY <2>2 DEF Lows
  <2> QED BY <2>3
<1>2. ASSUME NEW k \in Nat, k \in X PROVE k + 1 \in X
  BY <1>2, LowsExtend
<1> HIDE DEF X
<1>3. n \in X
  BY <1>1, <1>2, SetInduction
<1> QED BY <1>3 DEF X

\* Any function that takes up the bits one by one ends with the number.
LEMMA NumberBy ==
  ASSUME NEW S, NEW w \in 1..Host, NEW h, h[0] = 0,
         \A k \in 1..w : h[k] = h[k - 1] + (IF k - 1 \in S THEN 2^(k - 1) ELSE 0)
  PROVE  Number(S, w) = h[w]
<1>1. \E g : Lows(g, S, w)
  BY LowsExist
<1> DEFINE f == CHOOSE g : Lows(g, S, w)
<1>2. Lows(f, S, w)
  BY <1>1
<1>3. Number(S, w) = f[w]
  BY DEF Number, Lows
<1> HIDE DEF f
<1>4. \A k \in 0..w : f[k] = IF k = 0 THEN 0 ELSE f[k - 1] + (IF k - 1 \in S THEN 2^(k - 1) ELSE 0)
  BY <1>2, Zenon DEF Lows
<1> DEFINE X == {k \in Nat : k <= w => f[k] = h[k]}
<1>5. 0 \in X
  BY <1>4
<1>6. ASSUME NEW k \in Nat, k \in X PROVE k + 1 \in X
  <2> SUFFICES ASSUME k + 1 <= w PROVE f[k + 1] = h[k + 1]
    OBVIOUS
  <2>1. f[k] = h[k] /\ k + 1 \in 1..w /\ k + 1 \in 0..w /\ k + 1 # 0 /\ (k + 1) - 1 = k
    BY <1>6
  <2> DEFINE b == IF k \in S THEN 2^k ELSE 0
  <2>2. h[k + 1] = h[k] + b
    BY <2>1
  <2>3. f[k + 1] = f[k] + b
    BY <1>4, <2>1
  <2> QED BY <2>1, <2>2, <2>3
<1> HIDE DEF X
<1>7. w \in X
  BY <1>5, <1>6, SetInduction
<1> QED BY <1>3, <1>7 DEF X

\* One more bit of a value.
LEMMA OneMoreBit ==
  ASSUME NEW v \in Int, NEW k \in 0..Host
  PROVE  /\ v % 2^(k + 1) = (v % 2^k) + (IF BitOf(v, k) = 1 THEN 2^k ELSE 0)
         /\ v % 2^k \in 0..2^k - 1 /\ 2^(k + 1) = 2 * 2^k /\ 2^k \in Nat \ {0}
<1> DEFINE P == 2^k
           q == v \div P
           r == v % P
           d == q \div 2
           b == q % 2
<1>1. P \in Nat \ {0} /\ 2^(k + 1) = 2 * P
  <2>1. k \in 0..2 * Host - 1 /\ k \in 0..2 * Host
    BY HostAssumption
  <2> QED BY <2>1, PowersOfTwo, PowersPositive
<1> HIDE DEF P
<1>2. q \in Int /\ r \in 0..P - 1 /\ v = P * q + r
  BY <1>1, Division
<1> HIDE DEF q, r
<1>3. d \in Int /\ b \in 0..1 /\ q = 2 * d + b
  BY <1>2
<1> HIDE DEF d, b
<1> DEFINE K == 2 * P
           z == r + (IF b = 1 THEN P ELSE 0)
<1>4. v = K * d + z /\ z \in 0..K - 1 /\ K \in Nat \ {0}
  <2>1. P * (2 * d + b) = (2 * P) * d + P * b /\ (2 * P) * d \in Int
    BY <1>1, <1>3
  <2>2. P * b = IF b = 1 THEN P ELSE 0
    BY <1>1, <1>3
  <2> QED BY <1>1, <1>2, <1>3, <2>1, <2>2
<1> HIDE DEF K, z
<1>5. v % K = z
  BY <1>3, <1>4, DivisionUnique
<1> QED BY <1>1, <1>2, <1>3, <1>5 DEF K, z, r, b, q, P, BitOf

\* The bits of a number, none, all, and those it has not.
LEMMA NumberOf ==
  ASSUME NEW w \in 2..Host, NEW x \in Nums(w)
  PROVE  /\ Number(Bits(x, w), w) = x
         /\ Number({}, w) = 0
         /\ Number(0..w - 1, w) = Ones(w)
         /\ Number((0..w - 1) \ Bits(x, w), w) = Ones(w) - x
         /\ Number(Bits(x, w) \cap {0}, w) = x % 2
<1>1. w \in 1..Host /\ x \in 0..2^w - 1 /\ 2^w \in Nat \ {0} /\ x \in Int /\ w \in Nat /\ Host \in Nat
  BY WidthIs, HostAssumption DEF Nums
<1>2. \A k \in 1..w : (k - 1 \in Bits(x, w)) = (BitOf(x, k - 1) = 1)
  <2>1. \A k \in 1..w : k - 1 \in 0..w - 1
    BY <1>1
  <2> QED BY <2>1 DEF Bits
<1>3. \A k \in 1..w : /\ x % 2^k = (x % 2^(k - 1)) + (IF BitOf(x, k - 1) = 1 THEN 2^(k - 1) ELSE 0)
                      /\ x % 2^(k - 1) \in 0..2^(k - 1) - 1 /\ 2^k = 2 * 2^(k - 1)
                      /\ 2^(k - 1) \in Nat \ {0}
  <2> SUFFICES ASSUME NEW k \in 1..w
               PROVE  /\ x % 2^k = (x % 2^(k - 1)) + (IF BitOf(x, k - 1) = 1 THEN 2^(k - 1) ELSE 0)
                      /\ x % 2^(k - 1) \in 0..2^(k - 1) - 1 /\ 2^k = 2 * 2^(k - 1)
                      /\ 2^(k - 1) \in Nat \ {0}
    OBVIOUS
  <2>1. k - 1 \in 0..Host /\ (k - 1) + 1 = k
    BY <1>1
  <2> DEFINE j == k - 1
  <2> HIDE DEF j
  <2>2. /\ x % 2^(j + 1) = (x % 2^j) + (IF BitOf(x, j) = 1 THEN 2^j ELSE 0)
        /\ x % 2^j \in 0..2^j - 1 /\ 2^(j + 1) = 2 * 2^j /\ 2^j \in Nat \ {0}
    BY <1>1, <2>1, OneMoreBit DEF j
  <2> QED BY <2>1, <2>2 DEF j
<1>4. x % 2^w = x /\ x % 2^0 = 0 /\ 2^0 = 1
  <2>1. \A P \in Nat \ {0} : x < P => x % P = x
    BY <1>1
  <2>2. 2^0 = 1 /\ x % 1 = 0
    BY <1>1
  <2> QED BY <1>1, <2>1, <2>2
<1>5. Number(Bits(x, w), w) = x
  <2> DEFINE h == [k \in 0..w |-> x % 2^k]
  <2>1. h[0] = 0 /\ h[w] = x
    BY <1>1, <1>4
  <2>2. \A k \in 1..w : h[k] = h[k - 1] + (IF k - 1 \in Bits(x, w) THEN 2^(k - 1) ELSE 0)
    <3> SUFFICES ASSUME NEW k \in 1..w
                 PROVE  h[k] = h[k - 1] + (IF k - 1 \in Bits(x, w) THEN 2^(k - 1) ELSE 0)
      OBVIOUS
    <3>1. h[k] = x % 2^k /\ h[k - 1] = x % 2^(k - 1)
      BY <1>1
    <3> HIDE DEF h
    <3> QED BY <1>2, <1>3, <3>1
  <2> HIDE DEF h
  <2> QED BY <1>1, <2>1, <2>2, NumberBy
<1>6. Number({}, w) = 0
  <2> DEFINE h == [k \in 0..w |-> 0]
  <2>1. h[0] = 0 /\ h[w] = 0 /\ \A k \in 1..w : h[k] = h[k - 1] + 0
    BY <1>1
  <2>2. \A k \in 1..w : h[k] = h[k - 1] + (IF k - 1 \in {} THEN 2^(k - 1) ELSE 0)
    BY <2>1
  <2> HIDE DEF h
  <2> QED BY <1>1, <2>1, <2>2, NumberBy
<1>7. Number(0..w - 1, w) = Ones(w)
  <2> DEFINE h == [k \in 0..w |-> 2^k - 1]
  <2>1. h[0] = 0 /\ h[w] = 2^w - 1
    BY <1>1, <1>4
  <2>2. \A k \in 1..w : h[k] = h[k - 1] + (IF k - 1 \in 0..w - 1 THEN 2^(k - 1) ELSE 0)
    <3> SUFFICES ASSUME NEW k \in 1..w
                 PROVE  h[k] = h[k - 1] + (IF k - 1 \in 0..w - 1 THEN 2^(k - 1) ELSE 0)
      OBVIOUS
    <3>1. h[k] = 2^k - 1 /\ h[k - 1] = 2^(k - 1) - 1 /\ k - 1 \in 0..w - 1
      BY <1>1
    <3> HIDE DEF h
    <3> QED BY <1>3, <3>1
  <2> HIDE DEF h
  <2> QED BY <1>1, <2>1, <2>2, NumberBy DEF Ones
<1>8. Number((0..w - 1) \ Bits(x, w), w) = Ones(w) - x
  <2> DEFINE h == [k \in 0..w |-> 2^k - 1 - (x % 2^k)]
             S == (0..w - 1) \ Bits(x, w)
  <2>1. h[0] = 0 /\ h[w] = 2^w - 1 - x
    BY <1>1, <1>4
  <2>2. \A k \in 1..w : h[k] = h[k - 1] + (IF k - 1 \in S THEN 2^(k - 1) ELSE 0)
    <3> SUFFICES ASSUME NEW k \in 1..w
                 PROVE  h[k] = h[k - 1] + (IF k - 1 \in S THEN 2^(k - 1) ELSE 0)
      OBVIOUS
    <3>1. h[k] = 2^k - 1 - (x % 2^k) /\ h[k - 1] = 2^(k - 1) - 1 - (x % 2^(k - 1))
      BY <1>1
    <3>2. (k - 1 \in S) = (BitOf(x, k - 1) # 1)
      <4>1. k - 1 \in 0..w - 1
        BY <1>1
      <4> QED BY <1>2, <4>1
    <3> HIDE DEF h
    <3> DEFINE P == 2^(k - 1)
               a == x % 2^(k - 1)
               b == x % 2^k
               Q == 2^k
    <3>3. /\ b = a + (IF BitOf(x, k - 1) = 1 THEN P ELSE 0) /\ Q = 2 * P
          /\ a \in Int /\ P \in Int
      BY <1>3
    <3>6. h[k] = Q - 1 - b /\ h[k - 1] = P - 1 - a
      <4>1. 2^k \in Nat \ {0} /\ 2^(k - 1) \in Nat \ {0} /\ x \in Int
        BY <1>1, <1>3
      <4> QED BY <3>1, <4>1
    <3> HIDE DEF S, P, Q, a, b
    <3>4. CASE BitOf(x, k - 1) = 1
      <4>1. b = a + P /\ k - 1 \notin S
        BY <3>2, <3>3, <3>4
      <4>2. h[k] = h[k - 1]
        BY <3>3, <3>6, <4>1
      <4>3. h[k - 1] \in Int
        BY <3>3, <3>6
      <4> QED BY <4>1, <4>2, <4>3
    <3>5. CASE BitOf(x, k - 1) # 1
      <4>1. b = a /\ k - 1 \in S
        BY <3>2, <3>3, <3>5
      <4>2. h[k] = h[k - 1] + P
        BY <3>3, <3>6, <4>1
      <4> QED BY <4>1, <4>2 DEF P
    <3> QED BY <3>4, <3>5
  <2> HIDE DEF h
  <2>3. Number(S, w) = h[w]
    <3> HIDE DEF S
    <3> QED BY <1>1, <2>1, <2>2, NumberBy
  <2> QED BY <2>1, <2>3 DEF Ones
<1>9. Number(Bits(x, w) \cap {0}, w) = x % 2
  <2> DEFINE h == [k \in 0..w |-> IF k = 0 THEN 0 ELSE x % 2]
             S == Bits(x, w) \cap {0}
  <2>1. h[0] = 0 /\ h[w] = x % 2 /\ w # 0
    BY <1>1
  <2>2. BitOf(x, 0) = x % 2 /\ x % 2 \in {0, 1}
    <3>1. x \div 1 = x /\ x % 2 \in {0, 1}
      BY <1>1
    <3> QED BY <1>4, <3>1 DEF BitOf
  <2>3. \A k \in 1..w : h[k] = h[k - 1] + (IF k - 1 \in S THEN 2^(k - 1) ELSE 0)
    <3> SUFFICES ASSUME NEW k \in 1..w
                 PROVE  h[k] = h[k - 1] + (IF k - 1 \in S THEN 2^(k - 1) ELSE 0)
      OBVIOUS
    <3>1. h[k] = x % 2 /\ h[k - 1] = IF k = 1 THEN 0 ELSE x % 2
      BY <1>1
    <3>2. CASE k = 1
      <4>1. k - 1 = 0 /\ (0 \in S) = (BitOf(x, 0) = 1)
        BY <1>1, <1>2, <3>2
      <4>2. h[k] = x % 2 /\ h[k - 1] = 0
        BY <3>1, <3>2
      <4> HIDE DEF h, S
      <4> QED BY <1>4, <2>2, <4>1, <4>2
    <3>3. CASE k # 1
      <4>1. k - 1 \notin S /\ h[k] = x % 2 /\ h[k - 1] = x % 2
        BY <3>1, <3>3
      <4> HIDE DEF h, S
      <4> QED BY <2>2, <4>1
    <3> QED BY <3>2, <3>3
  <2> HIDE DEF h
  <2>4. Number(S, w) = h[w]
    <3> HIDE DEF S
    <3> QED BY <1>1, <2>1, <2>3, NumberBy
  <2> QED BY <2>1, <2>4
<1> QED BY <1>5, <1>6, <1>7, <1>8, <1>9

\* The bits of nothing, of all ones, and of one.
LEMMA BitsOf ==
  ASSUME NEW w \in 2..Host
  PROVE  Bits(0, w) = {} /\ Bits(Ones(w), w) = 0..w - 1 /\ Bits(1, w) = {0}
<1>1. w \in Nat /\ Host \in Nat /\ 0..w - 1 \subseteq 0..Host
  BY HostAssumption
<1>2. ASSUME NEW i \in 0..w - 1 PROVE BitOf(0, i) = 0
  <2> DEFINE P == 2^i
  <2>1. P \in Nat \ {0}
    BY <1>1, OneMoreBit
  <2> HIDE DEF P
  <2>2. 0 \div P = 0
    <3>1. 0 = P * 0 + 0
      BY <2>1
    <3> QED BY <2>1, <3>1, DivisionUnique
  <2>3. BitOf(0, i) = (0 \div P) % 2
    BY DEF BitOf, P
  <2>4. 0 % 2 = 0
    OBVIOUS
  <2> QED BY <2>2, <2>3, <2>4
<1>3. ASSUME NEW i \in 0..w - 1 PROVE BitOf(1, i) = IF i = 0 THEN 1 ELSE 0
  <2>1. CASE i = 0
    <3>1. 2^i = 1
      BY <2>1
    <3>2. 1 \div 1 = 1 /\ 1 % 2 = 1
      OBVIOUS
    <3>3. BitOf(1, i) = (1 \div 2^i) % 2
      BY DEF BitOf
    <3> QED BY <2>1, <3>1, <3>2, <3>3
  <2>2. CASE i # 0
    <3> DEFINE P == 2^i
               j == i - 1
    <3>1. j \in 0..Host /\ j + 1 = i
      BY <1>1, <2>2
    <3> HIDE DEF j
    <3>2. 2^(j + 1) = 2 * 2^j /\ 2^j \in Nat \ {0}
      BY <3>1, OneMoreBit
    <3>3. P \in Nat /\ P >= 2
      BY <3>1, <3>2
    <3> HIDE DEF P
    <3>4. 1 \div P = 0
      <4>1. 1 = P * 0 + 1 /\ 1 \in 0..P - 1 /\ P \in Nat \ {0}
        BY <3>3
      <4> QED BY <4>1, DivisionUnique
    <3>5. BitOf(1, i) = (1 \div P) % 2
      BY DEF BitOf, P
    <3>6. 0 % 2 = 0
      OBVIOUS
    <3> QED BY <2>2, <3>4, <3>5, <3>6
  <2> QED BY <2>1, <2>2
<1>4. ASSUME NEW n \in 0..w PROVE Ones(w) % 2^n = 2^n - 1
  <2> DEFINE P == 2^w
             Q == 2^n
             M == 2^(w - n)
  <2>1. P \in Nat \ {0} /\ Q \in Nat \ {0} /\ M \in Nat \ {0} /\ P = Q * M
    BY ScalePowers
  <2> HIDE DEF P, Q, M
  <2>2. P - 1 = Q * (M - 1) + (Q - 1)
    <3>1. Q * (M - 1) = Q * M - Q
      BY <2>1
    <3> QED BY <2>1, <3>1
  <2>3. M - 1 \in Int /\ Q - 1 \in 0..Q - 1
    BY <2>1
  <2> DEFINE v == P - 1
             q == M - 1
             z == Q - 1
  <2>4. v = Q * q + z /\ q \in Int /\ z \in 0..Q - 1
    BY <2>2, <2>3
  <2> HIDE DEF v, q, z
  <2>5. v % Q = z
    BY <2>1, <2>4, DivisionUnique
  <2> QED BY <2>5 DEF v, z, P, Q, Ones
<1>5. ASSUME NEW i \in 0..w - 1 PROVE BitOf(Ones(w), i) = 1
  <2> DEFINE v == Ones(w)
             Q == 2^i
             K == 2^(i + 1)
  <2>1. v \in Int
    BY WidthIs DEF Ones
  <2>2. i \in 0..w /\ i + 1 \in 0..w /\ i \in 0..Host
    BY <1>1
  <2>3. v % Q = Q - 1 /\ v % K = K - 1
    BY <1>4, <2>2
  <2> HIDE DEF v
  <2>4. v % K = (v % Q) + (IF BitOf(v, i) = 1 THEN Q ELSE 0) /\ K = 2 * Q /\ Q \in Nat \ {0}
    BY <2>1, <2>2, OneMoreBit
  <2> HIDE DEF Q, K
  <2>5. (IF BitOf(v, i) = 1 THEN Q ELSE 0) = Q /\ Q # 0
    BY <2>3, <2>4
  <2>6. BitOf(v, i) = 1
    BY <2>5
  <2> QED BY <2>6 DEF v
<1> QED BY <1>1, <1>2, <1>3, <1>5 DEF Bits

\* A mask of no bits or of all bits clears, keeps, sets or complements.
LEMMA Masks ==
  ASSUME NEW w \in 2..Host, NEW m \in {0, Ones(w)}, NEW x \in Nums(w)
  PROVE  LET X == Bits(x, w)
             M == Bits(m, w)
         IN  /\ Number(M \cap X, w) = IF m = 0 THEN 0 ELSE x
             /\ Number(M \cup X, w) = IF m = 0 THEN x ELSE m
             /\ Number((X \ M) \cup (M \ X), w) = IF m = 0 THEN x ELSE Ones(w) - x
             /\ Number(X \cap Bits(1, w), w) = x % 2
<1> DEFINE X == Bits(x, w)
           M == Bits(m, w)
           D == 0..w - 1
<1>1. X \subseteq D /\ Bits(1, w) = {0}
  BY BitsOf DEF Bits
<1>2. /\ Number(X, w) = x /\ Number({}, w) = 0 /\ Number(D, w) = Ones(w)
      /\ Number(D \ X, w) = Ones(w) - x /\ Number(X \cap {0}, w) = x % 2
  BY NumberOf
<1>3. (m = 0 /\ M = {}) \/ (m = Ones(w) /\ M = D)
  BY BitsOf
<1>4. Ones(w) # 0
  <2>1. Top(w) \in Nat /\ Top(w) >= 2 /\ 2^w = 2 * Top(w)
    BY WidthIs
  <2> QED BY <2>1 DEF Ones
<1> HIDE DEF X, M, D
<1>5. CASE m = 0 /\ M = {}
  <2>1. M \cap X = {} /\ M \cup X = X /\ (X \ M) \cup (M \ X) = X
    BY <1>5
  <2> QED BY <1>1, <1>2, <1>5, <2>1 DEF X, M
<1>6. CASE m = Ones(w) /\ M = D
  <2>1. M \cap X = X /\ M \cup X = D /\ (X \ M) \cup (M \ X) = D \ X
    BY <1>1, <1>6
  <2> QED BY <1>1, <1>2, <1>4, <1>6, <2>1 DEF X, M
<1> QED BY <1>3, <1>5, <1>6

-----------------------------------------------------------------------------
(***************************************************************************)
(* What an instruction does to a routine on all the registers.             *)
(***************************************************************************)

\* An instruction that gives register d the value v.
Sets(d, v) ==
  /\ ip' = ip + 1 /\ code' = code /\ trap' = trap /\ DOMAIN regs' = Regs /\ DOMAIN flags' = FlagNames
  /\ regs'[d] = v /\ (\A r \in Regs \ {d} : regs'[r] = regs[r]) /\ flags'.cf \in {0, 1}

\* The instruction op on register d, which holds x, with a source that holds y.
Does(op, d, x, y, w) ==
  /\ trap = "none" /\ ip <= Len(code) /\ DOMAIN regs = Regs /\ DOMAIN flags = FlagNames
  /\ I.op = op /\ I.d = d /\ d \in Regs /\ I.w = w /\ w \in 2..Host
  /\ Dst = x /\ Src = y /\ x \in Nums(w) /\ y \in Nums(w) /\ flags.cf \in {0, 1}

\* An assignment to one register sets it.
LEMMA AssignSets ==
  ASSUME NEW d \in Regs, NEW v, DOMAIN regs = Regs, regs' = [regs EXCEPT ![d] = v],
         ip' = ip + 1, code' = code, trap' = trap, DOMAIN flags' = FlagNames,
         flags'.cf \in {0, 1}
  PROVE  Sets(d, v)
<1>1. DOMAIN regs' = Regs /\ regs'[d] = v /\ \A r \in Regs \ {d} : regs'[r] = regs[r]
  OBVIOUS
<1> QED BY <1>1 DEF Sets

\* A number with its carry.
LEMMA WithCarry ==
  ASSUME NEW w \in 2..Host, NEW c \in {0, 1}
  PROVE  2^w * c = IF c = 1 THEN 2^w ELSE 0
<1>1. 2^w \in Nat
  BY WidthIs
<1> QED BY <1>1

\* ADD, ADC, SUB and SBB set a register and the carry.
LEMMA AddSets ==
  ASSUME Next, NEW op \in {"add", "adc", "sub", "sbb"}, NEW d, NEW x, NEW y, NEW w, Does(op, d, x, y, w),
         NEW c, c = flags.cf
  PROVE  \E v \in Nums(w), k \in {0, 1} :
           /\ Sets(d, v) /\ (op # "sbb" => flags'.cf = k)
           /\ op = "add" => x + y = v + (IF k = 1 THEN 2^w ELSE 0)
           /\ op = "adc" => x + y + c = v + (IF k = 1 THEN 2^w ELSE 0)
           /\ op = "sub" => x - y = v - (IF x < y THEN 2^w ELSE 0) /\ k = Flag(x < y)
           /\ op = "sbb" => x - y - c = v - (IF x < y + c THEN 2^w ELSE 0)
<1>1. /\ DOMAIN regs = Regs /\ I.op = op /\ I.d = d /\ d \in Regs /\ I.w = w /\ w \in 2..Host
      /\ Dst = x /\ Src = y /\ x \in Nums(w) /\ y \in Nums(w) /\ flags.cf \in {0, 1}
  BY DEF Does
<1>2. exALU2OP
  BY <1>1, Dispatch
<1> DEFINE r == ALU2OP(op, x, y, w)
<1>3. /\ ip' = ip + 1 /\ code' = code /\ trap' = trap
      /\ regs' = [regs EXCEPT ![d] = r.val] /\ flags' = r.f
  BY <1>1, <1>2 DEF exALU2OP, Write, Advance
<1>4. /\ op = "add" => r = ALUOPAdd(x, y, w)
      /\ op = "adc" => r = ALUOPAdd3(x, y, c, w)
      /\ op = "sub" => r = ALUOPSub(x, y, w)
      /\ op = "sbb" => r = ALUOPSub3(x, y, c, w)
  BY DEF ALU2OP
<1> HIDE DEF r
<1>5. r.f \in Flags => r.f.cf \in {0, 1} /\ DOMAIN r.f = FlagNames
  BY DEF Flags, FlagNames
<1>6. ASSUME r.val \in Nums(w), r.f \in Flags PROVE Sets(d, r.val) /\ flags'.cf = r.f.cf /\ r.f.cf \in {0, 1}
  BY <1>1, <1>3, <1>5, <1>6, AssignSets
<1>7. CASE op = "add"
  <2>1. r.val \in Nums(w) /\ r.f \in Flags /\ x + y = r.val + 2^w * r.f.cf
    BY <1>1, <1>4, <1>7, AddExact
  <2>2. 2^w * r.f.cf = IF r.f.cf = 1 THEN 2^w ELSE 0
    BY <1>1, <1>5, <2>1, WithCarry
  <2> QED BY <1>6, <1>7, <2>1, <2>2
<1>8. CASE op = "adc"
  <2>1. r.val \in Nums(w) /\ r.f \in Flags /\ x + y + c = r.val + 2^w * r.f.cf
    BY <1>1, <1>4, <1>8, AdcSum DEF Sum3
  <2>2. 2^w * r.f.cf = IF r.f.cf = 1 THEN 2^w ELSE 0
    BY <1>1, <1>5, <2>1, WithCarry
  <2> QED BY <1>6, <1>8, <2>1, <2>2
<1>9. CASE op = "sub"
  <2>1. r.val \in Nums(w) /\ r.f \in Flags /\ x - y = r.val - 2^w * r.f.cf /\ r.f.cf = Flag(x < y)
    BY <1>1, <1>4, <1>9, SubExact
  <2>2. 2^w * r.f.cf = IF r.f.cf = 1 THEN 2^w ELSE 0
    BY <1>1, <1>5, <2>1, WithCarry
  <2>3. (r.f.cf = 1) = (x < y)
    BY <2>1 DEF Flag
  <2> QED BY <1>6, <1>9, <2>1, <2>2, <2>3
<1>10. CASE op = "sbb"
  <2>1. r.val \in Nums(w) /\ r.f \in Flags /\ x - y - c = r.val - (IF x < y + c THEN 2^w ELSE 0)
    <3>1. Difference3(r, x, y, c, w)
      BY <1>1, <1>4, <1>10, SbbExact
    <3> QED BY <3>1 DEF Difference3
  <2> QED BY <1>6, <1>10, <2>1
<1> QED BY <1>7, <1>8, <1>9, <1>10

\* INC sets a register.
LEMMA IncSets ==
  ASSUME Next, NEW d, NEW x, NEW w, Does("inc", d, x, 1, w), NEW c, c = flags.cf, x + 1 < 2^w
  PROVE  Sets(d, x + 1) /\ flags'.cf = c
<1>1. /\ DOMAIN regs = Regs /\ DOMAIN flags = FlagNames
      /\ I.op = "inc" /\ I.d = d /\ d \in Regs /\ I.w = w /\ w \in 2..Host
      /\ Dst = x /\ x \in Nums(w) /\ 1 \in Nums(w) /\ c \in {0, 1}
  BY DEF Does
<1>2. exINCDEC
  BY <1>1, Dispatch
<1> DEFINE r == ALUOPAdd(x, 1, w)
           q == [r EXCEPT !.f.cf = c]
<1>3. regs' = [regs EXCEPT ![d] = q.val] /\ flags' = q.f /\ ip' = ip + 1 /\ code' = code /\ trap' = trap
  BY <1>1, <1>2 DEF exINCDEC, Write, Advance
<1>4. q.val = r.val /\ q.f = [r.f EXCEPT !.cf = c]
  <2>1. r = [val |-> r.val, f |-> r.f]
    BY DEF ALUOPAdd, Result
  <2> HIDE DEF r
  <2> QED BY <2>1
<1>5. r.val \in Nums(w) /\ r.f \in Flags /\ x + 1 = r.val + 2^w * r.f.cf
  BY <1>1, AddExact
<1> HIDE DEF q, r
<1>6. r.f.cf \in {0, 1} /\ DOMAIN q.f = FlagNames /\ q.f.cf = c
  BY <1>4, <1>5 DEF Flags, FlagNames
<1>7. r.val = x + 1
  <2>1. 2^w * r.f.cf = IF r.f.cf = 1 THEN 2^w ELSE 0
    BY <1>1, <1>6, WithCarry
  <2>2. 2^w \in Nat
    BY <1>1, WidthIs
  <2> QED BY <1>1, <1>5, <1>6, <2>1, <2>2 DEF Nums
<1> QED BY <1>1, <1>3, <1>4, <1>6, <1>7, AssignSets

\* NEG sets a register.
LEMMA NegSets ==
  ASSUME Next, NEW d, NEW x, NEW w, Does("neg", d, x, 0, w)
  PROVE  Sets(d, IF x = 0 THEN 0 ELSE 2^w - x)
<1>1. /\ DOMAIN regs = Regs /\ DOMAIN flags = FlagNames
      /\ I.op = "neg" /\ I.d = d /\ d \in Regs /\ I.w = w /\ w \in 2..Host
      /\ Dst = x /\ x \in Nums(w) /\ 0 \in Nums(w)
  BY DEF Does
<1>2. exNEGNOT
  BY <1>1, Dispatch
<1> DEFINE r == ALUOPSub(0, x, w)
           q == [r EXCEPT !.f.cf = Flag(x # 0)]
<1>3. regs' = [regs EXCEPT ![d] = q.val] /\ flags' = q.f /\ ip' = ip + 1 /\ code' = code /\ trap' = trap
  BY <1>1, <1>2 DEF exNEGNOT, Write, Advance
<1>4. q.val = r.val /\ q.f = [r.f EXCEPT !.cf = Flag(x # 0)]
  <2>1. r = [val |-> r.val, f |-> r.f]
    BY DEF ALUOPSub, Result
  <2> HIDE DEF r
  <2> QED BY <2>1
<1>5. r.val \in Nums(w) /\ r.f \in Flags /\ 0 - x = r.val - 2^w * r.f.cf /\ r.f.cf = Flag(0 < x)
  BY <1>1, SubExact
<1> HIDE DEF q, r
<1>6. r.f.cf \in {0, 1} /\ DOMAIN q.f = FlagNames /\ q.f.cf \in {0, 1}
  BY <1>4, <1>5 DEF Flags, FlagNames, Flag
<1>7. r.val = IF x = 0 THEN 0 ELSE 2^w - x
  <2>1. 2^w * r.f.cf = IF 0 < x THEN 2^w ELSE 0
    BY <1>1, <1>5, <1>6, WithCarry DEF Flag
  <2>2. 2^w \in Nat
    BY <1>1, WidthIs
  <2> QED BY <1>1, <1>5, <2>1, <2>2 DEF Nums
<1> QED BY <1>1, <1>3, <1>4, <1>6, <1>7, AssignSets

\* AND, OR and XOR with a mask.
LEMMA MaskSets ==
  ASSUME Next, NEW op \in {"and", "or", "xor"}, NEW d, NEW x, NEW y, NEW w, Does(op, d, x, y, w)
  PROVE  /\ op = "and" /\ x \in {0, Ones(w)} => Sets(d, IF x = 0 THEN 0 ELSE y)
         /\ op = "or" /\ x \in {0, Ones(w)} => Sets(d, IF x = 0 THEN y ELSE x)
         /\ op = "xor" /\ y \in {0, Ones(w)} => Sets(d, IF y = 0 THEN x ELSE Ones(w) - x)
<1>1. /\ DOMAIN regs = Regs /\ DOMAIN flags = FlagNames
      /\ I.op = op /\ I.d = d /\ d \in Regs /\ I.w = w /\ w \in 2..Host
      /\ Dst = x /\ Src = y /\ x \in Nums(w) /\ y \in Nums(w) /\ flags.cf \in {0, 1}
  BY DEF Does
<1>2. exALU2OP
  BY <1>1, Dispatch
<1> DEFINE X == Bits(x, w)
           Y == Bits(y, w)
           S == CASE op = "and" -> X \cap Y [] op = "or" -> X \cup Y
                  [] op = "xor" -> (X \ Y) \cup (Y \ X)
           r == ALU2OP(op, x, y, w)
<1>3. /\ ip' = ip + 1 /\ code' = code /\ trap' = trap
      /\ regs' = [regs EXCEPT ![d] = r.val] /\ flags' = r.f
  BY <1>1, <1>2 DEF exALU2OP, Write, Advance
<1>4. r = Logic(S, w, flags)
  BY DEF ALU2OP, ALUOPand, ALUOPor, ALUOPxor
<1> HIDE DEF r, S
<1>5. r.val = Number(S, w) /\ DOMAIN r.f = FlagNames /\ r.f.cf = 0
  BY <1>1, <1>4 DEF Logic, FlagNames
<1>6. Sets(d, Number(S, w))
  BY <1>1, <1>3, <1>5, AssignSets
<1>7. ASSUME op = "and", x \in {0, Ones(w)} PROVE Number(S, w) = IF x = 0 THEN 0 ELSE y
  <2>1. S = X \cap Y
    BY <1>7 DEF S
  <2> QED BY <1>1, <1>7, <2>1, Masks
<1>8. ASSUME op = "or", x \in {0, Ones(w)} PROVE Number(S, w) = IF x = 0 THEN y ELSE x
  <2>1. S = X \cup Y
    BY <1>8 DEF S
  <2> QED BY <1>1, <1>8, <2>1, Masks
<1>9. ASSUME op = "xor", y \in {0, Ones(w)} PROVE Number(S, w) = IF y = 0 THEN x ELSE Ones(w) - x
  <2>1. S = (X \ Y) \cup (Y \ X)
    BY <1>9 DEF S
  <2> QED BY <1>1, <1>9, <2>1, Masks
<1> QED BY <1>6, <1>7, <1>8, <1>9

\* An instruction that leaves the registers alone.
Reads ==
  /\ ip' = ip + 1 /\ code' = code /\ trap' = trap /\ regs' = regs
  /\ DOMAIN flags' = FlagNames /\ flags'.cf \in {0, 1}

\* CMP orders two numbers, TEST looks at the lowest bit of one.
LEMMA CmpReads ==
  ASSUME Next, NEW d, NEW x, NEW y, NEW w, Does("cmp", d, x, y, w)
  PROVE  Reads /\ flags'.cf = Flag(x < y) /\ flags'.zf = Flag(x = y)
<1>1. /\ I.op = "cmp" /\ I.w = w /\ w \in 2..Host
      /\ Dst = x /\ Src = y /\ x \in Nums(w) /\ y \in Nums(w)
  BY DEF Does
<1>2. exCMP
  BY <1>1, Dispatch
<1> DEFINE r == ALUOPSub(x, y, w)
<1>3. flags' = r.f /\ ip' = ip + 1 /\ code' = code /\ trap' = trap /\ regs' = regs
  BY <1>1, <1>2 DEF exCMP, Advance
<1>4. /\ r.val \in Nums(w) /\ r.f \in Flags /\ x - y = r.val - 2^w * r.f.cf
      /\ r.f.cf = Flag(x < y) /\ r.f.zf = Flag(r.val = 0)
  BY <1>1, SubExact DEF ValueFlags
<1> HIDE DEF r
<1>5. r.f.cf \in {0, 1} /\ DOMAIN r.f = FlagNames
  BY <1>4 DEF Flags, FlagNames
<1>6. (r.val = 0) = (x = y)
  <2>1. 2^w * r.f.cf = IF x < y THEN 2^w ELSE 0
    BY <1>1, <1>4, <1>5, WithCarry DEF Flag
  <2>2. 2^w \in Nat
    BY <1>1, WidthIs
  <2> QED BY <1>1, <1>4, <2>1, <2>2 DEF Nums
<1> QED BY <1>3, <1>4, <1>5, <1>6 DEF Reads

\* TEST looks at the lowest bit.
LEMMA TestReads ==
  ASSUME Next, NEW d, NEW x, NEW w, Does("test", d, x, 1, w)
  PROVE  Reads /\ flags'.zf = Flag(x % 2 = 0)
<1>1. /\ DOMAIN flags = FlagNames /\ I.op = "test" /\ I.w = w /\ w \in 2..Host
      /\ Dst = x /\ Src = 1 /\ x \in Nums(w)
  BY DEF Does
<1>2. exTEST
  BY <1>1, Dispatch
<1> DEFINE S == Bits(x, w) \cap Bits(1, w)
<1>3. flags' = Logic(S, w, flags).f /\ ip' = ip + 1 /\ code' = code /\ trap' = trap /\ regs' = regs
  BY <1>1, <1>2 DEF exTEST, Advance, ALUOPand
<1>4. Number(S, w) = x % 2
  BY <1>1, Masks
<1> HIDE DEF S
<1>5. flags'.zf = Flag(Number(S, w) = 0) /\ DOMAIN flags' = FlagNames /\ flags'.cf = 0
  BY <1>1, <1>3 DEF Logic, FlagNames
<1> QED BY <1>3, <1>4, <1>5 DEF Reads

\* MOV copies a register, CWD copies the sign.
LEMMA MovSets ==
  ASSUME Next, NEW d, NEW x, NEW y, NEW w, Does("mov", d, x, y, w)
  PROVE  Sets(d, y)
<1>1. /\ DOMAIN regs = Regs /\ DOMAIN flags = FlagNames
      /\ I.op = "mov" /\ I.d = d /\ d \in Regs /\ Src = y /\ flags.cf \in {0, 1}
  BY DEF Does
<1>2. exMov
  BY <1>1, Dispatch
<1>3. /\ ip' = ip + 1 /\ code' = code /\ trap' = trap
      /\ regs' = [regs EXCEPT ![d] = y] /\ flags' = flags
  BY <1>1, <1>2 DEF exMov, Advance
<1> QED BY <1>1, <1>3, AssignSets

\* CWD spreads the sign over another register.
LEMMA CwdSets ==
  ASSUME Next, NEW x, NEW y, NEW w, Does("cwd", "ax", x, y, w)
  PROVE  Sets("dx", IF x >= Top(w) THEN Ones(w) ELSE 0)
<1>1. /\ DOMAIN regs = Regs /\ DOMAIN flags = FlagNames
      /\ I.op = "cwd" /\ I.d = "ax" /\ I.w = w /\ w \in 2..Host /\ Dst = x /\ x \in Nums(w)
      /\ "dx" \in Regs /\ flags.cf \in {0, 1}
  BY DEF Does, Regs
<1>2. exConvSiz
  BY <1>1, Dispatch
<1>3. regs["ax"] = x
  BY <1>1 DEF Dst
<1>4. /\ ip' = ip + 1 /\ code' = code /\ trap' = trap /\ flags' = flags
      /\ regs' = [regs EXCEPT !["dx"] = IF Msb(x, w) = 1 THEN Ones(w) ELSE 0]
  BY <1>1, <1>2, <1>3 DEF exConvSiz, Advance
<1>5. (Msb(x, w) = 1) = (x >= Top(w))
  <2>1. x \in Int /\ Cut(x, w) = x /\ w \in 1..2 * Host
    BY <1>1, WidthIs, UpperBit
  <2>2. Msb(x, w) = IF Cut(x, w) >= Top(w) THEN 1 ELSE 0
    BY <2>1, SignOf
  <2> QED BY <2>1, <2>2
<1> QED BY <1>1, <1>4, <1>5, AssignSets

\* Jumps leave everything but ip alone.
LEMMA CondJumps ==
  ASSUME Next, NEW op \in {"j", "jn"}, I.op = op, NEW c \in {"b", "e"}, I.s = c, NEW n, n = I.n
  PROVE  /\ code' = code /\ trap' = trap /\ regs' = regs /\ flags' = flags
         /\ c = "b" => ip' = IF (flags.cf = 1) = (op = "j") THEN n ELSE ip + 1
         /\ c = "e" => ip' = IF (flags.zf = 1) = (op = "j") THEN n ELSE ip + 1
<1>1. exCondJump
  BY Dispatch
<1>2. /\ c = "b" => Holds(c) = (flags.cf = 1)
      /\ c = "e" => Holds(c) = (flags.zf = 1)
  BY DEF Holds
<1> QED BY <1>1, <1>2 DEF exCondJump, Jump

\* JCXZ jumps when the count is zero.
LEMMA CountJumps ==
  ASSUME Next, I.op = "jcxz", NEW n, n = I.n
  PROVE  /\ code' = code /\ trap' = trap /\ regs' = regs /\ flags' = flags
         /\ ip' = IF regs["cx"] = 0 THEN n ELSE ip + 1
<1>1. exJCXZ
  BY Dispatch
<1> QED BY <1>1 DEF exJCXZ, Jump

\* LOOP counts down and jumps.
LEMMA LoopJumps ==
  ASSUME Next, NEW op \in {"loop", "loope", "loopne"}, I.op = op, NEW w \in 2..Host, I.w = w,
         NEW k, k = regs["cx"], k \in Nums(w), k # 0, DOMAIN regs = Regs, NEW n, n = I.n,
         flags.zf \in {0, 1} \/ op = "loop"
  PROVE  /\ code' = code /\ trap' = trap /\ flags' = flags /\ DOMAIN regs' = Regs
         /\ regs'["cx"] = k - 1 /\ \A r \in Regs \ {"cx"} : regs'[r] = regs[r]
         /\ ip' = IF k # 1 /\ (op = "loope" => flags.zf = 1) /\ (op = "loopne" => flags.zf # 1)
                  THEN n ELSE ip + 1
<1>1. exLOOP
  BY Dispatch
<1>2. k - 1 \in Int /\ 0 <= k - 1 /\ k - 1 < 2^w /\ w \in 1..2 * Host
  <2>1. 2^w \in Nat
    BY WidthIs
  <2>2. w \in 1..2 * Host
    BY WidthIs
  <2> QED BY <2>1, <2>2 DEF Nums
<1>3. Cut(k - 1, w) = k - 1
  BY <1>2, CutNear
<1>4. regs' = [regs EXCEPT !["cx"] = k - 1]
  BY <1>1, <1>3 DEF exLOOP
<1>5. DOMAIN regs' = Regs /\ regs'["cx"] = k - 1 /\ \A r \in Regs \ {"cx"} : regs'[r] = regs[r]
  BY <1>4 DEF Regs
<1>6. /\ ip' = IF regs'["cx"] # 0 /\ (op = "loope" => flags.zf = 1) /\ (op = "loopne" => flags.zf = 0)
               THEN n ELSE ip + 1
      /\ code' = code /\ flags' = flags /\ trap' = trap
  BY <1>1 DEF exLOOP, Jump
<1>7. (regs'["cx"] # 0) = (k # 1)
  BY <1>2, <1>5
<1>8. op # "loop" => (flags.zf = 0) = (flags.zf # 1)
  OBVIOUS
<1> QED BY <1>5, <1>6, <1>7, <1>8

\* Shifts and rotations by a constant.
LEMMA ShiftSets ==
  ASSUME Next, NEW op \in {"shl", "shr", "sar", "rol", "rcl"}, NEW d, NEW x, NEW n \in 0..CountMask,
         NEW w, Does(op, d, x, n, w), I.s = "imm",
         NEW z, z = [v |-> x, cf |-> flags.cf, of |-> flags.of], NEW f, f = Shifted(op, z, w),
         f[n].cf \in {0, 1}
  PROVE  /\ Sets(d, Cut(f[n].v, w)) /\ flags'.cf = f[n].cf
         /\ op \in {"shl", "shr", "sar"} => flags'.zf = Flag(f[n].v = 0)
<1>1. /\ DOMAIN regs = Regs /\ DOMAIN flags = FlagNames
      /\ I.op = op /\ I.d = d /\ d \in Regs /\ I.w = w /\ Dst = x /\ I.n = n
  BY DEF Does, Src
<1>2. exShift
  BY <1>1, Dispatch
<1>3. n % (CountMask + 1) = n
  <2>1. CountMask \in Nat
    BY InstructionsAssumption
  <2> QED BY <2>1
<1> DEFINE g == [flags EXCEPT !.cf = f[n].cf, !.of = f[n].of]
           h == [g EXCEPT !.zf = Flag(f[n].v = 0), !.sf = Msb(f[n].v, w)]
<1>4. /\ ip' = ip + 1 /\ code' = code /\ trap' = trap
      /\ Write([val |-> Cut(f[n].v, w), f |-> IF op \in {"shl", "shr", "sar"} THEN h ELSE g])
  BY <1>1, <1>2, <1>3 DEF exShift, Advance
<1>5. /\ regs' = [regs EXCEPT ![d] = Cut(f[n].v, w)]
      /\ flags' = IF op \in {"shl", "shr", "sar"} THEN h ELSE g
  BY <1>1, <1>4 DEF Write
<1>6. /\ h.cf = f[n].cf /\ g.cf = f[n].cf /\ DOMAIN h = FlagNames /\ DOMAIN g = FlagNames
      /\ h.zf = Flag(f[n].v = 0)
  BY <1>1 DEF FlagNames
<1> HIDE DEF g, h
<1> QED BY <1>1, <1>4, <1>5, <1>6, AssignSets

\* One turn: SHL and RCL on the way up, SHR on the way down, ROL around.
LEMMA OneTurnSets ==
  ASSUME Next, NEW op \in {"shl", "shr", "rol", "rcl"}, NEW d, NEW x, NEW w, Does(op, d, x, 1, w),
         I.s = "imm", NEW c, c = flags.cf,
         NEW l, l = IF x >= Top(w) THEN 2 * (x - Top(w)) ELSE 2 * x
  PROVE  /\ op = "shl" => Sets(d, l) /\ flags'.cf = Flag(x >= Top(w))
         /\ op = "rcl" => Sets(d, l + c) /\ flags'.cf = Flag(x >= Top(w))
         /\ op = "rol" => Sets(d, IF x >= Top(w) THEN l + 1 ELSE l)
         /\ op = "shr" => Sets(d, x \div 2) /\ flags'.zf = Flag(x \div 2 = 0)
<1>1. w \in 2..Host /\ x \in Nums(w) /\ c \in {0, 1} /\ 1 \in 0..CountMask /\ 1 \in 1..CountMask
  BY Counts DEF Does
<1> DEFINE z == [v |-> x, cf |-> c, of |-> flags.of]
           f == Shifted(op, z, w)
           y == ShiftOnce(op, z, w)
<1>2. z.v = x /\ z.cf = c
  OBVIOUS
<1>3. f[1] = y
  <2>1. f[0] = z /\ \A k \in 1..CountMask : f[k] = ShiftOnce(op, f[k - 1], w)
    BY ShiftedIs
  <2>2. f[1] = ShiftOnce(op, f[1 - 1], w)
    BY <1>1, <2>1
  <2> QED BY <2>1, <2>2
<1>4. ASSUME y.cf \in {0, 1}
      PROVE  /\ Sets(d, Cut(y.v, w)) /\ flags'.cf = y.cf
             /\ op \in {"shl", "shr", "sar"} => flags'.zf = Flag(y.v = 0)
  <2> HIDE DEF f, y
  <2> QED BY <1>1, <1>3, <1>4, ShiftSets DEF f
<1>5. x \in Int /\ Cut(x, w) = x /\ (Msb(x, w) = IF x >= Top(w) THEN 1 ELSE 0)
  <2>1. x \in Int /\ Cut(x, w) = x /\ w \in 1..2 * Host
    BY <1>1, WidthIs, UpperBit
  <2>2. Msb(x, w) = IF Cut(x, w) >= Top(w) THEN 1 ELSE 0
    BY <2>1, SignOf
  <2> QED BY <2>1, <2>2
<1>6. /\ op = "rol" => y.cf \in {0, 1} /\ Cut(y.v, w) = IF x >= Top(w) THEN 2 * (x - Top(w)) + 1 ELSE 2 * x
      /\ op = "rcl" => y.cf = Flag(x >= Top(w)) /\ Cut(y.v, w) = l + c
      /\ op = "shl" => y.cf = Flag(x >= Top(w)) /\ y.v = (2 * x) % 2^w
  <2> HIDE DEF z
  <2>1. CASE op = "rol"
    <3>1. y = ShiftOnce("rol", z, w)
      BY <2>1
    <3> HIDE DEF y
    <3> QED BY <1>1, <1>2, <1>5, <2>1, <3>1, TurnLeft
  <2>2. CASE op = "rcl"
    <3>1. y = ShiftOnce("rcl", z, w)
      BY <2>2
    <3> HIDE DEF y
    <3> QED BY <1>1, <1>2, <1>5, <2>2, <3>1, TurnLeft DEF Flag
  <2>3. CASE op = "shl"
    <3>1. y = ShiftOnce("shl", z, w)
      BY <2>3
    <3> HIDE DEF y
    <3> QED BY <1>1, <1>2, <1>5, <2>3, <3>1, TurnLeft DEF Flag
  <2> QED BY <2>1, <2>2, <2>3
<1>7. op = "shr" => y.v = x \div 2 /\ y.v \in Nums(w) /\ y.cf = x % 2
  <2> SUFFICES ASSUME op = "shr" PROVE y.v = x \div 2 /\ y.v \in Nums(w) /\ y.cf = x % 2
    OBVIOUS
  <2>1. y = ShiftOnce("shr", z, w)
    OBVIOUS
  <2> HIDE DEF y, z
  <2> QED BY <1>1, <1>2, <2>1, TurnRight
<1>8. \A b : Flag(b) \in {0, 1}
  BY DEF Flag
<1> HIDE DEF y, f, z
<1>9. CASE op = "rol"
  <2>1. Cut(y.v, w) = IF x >= Top(w) THEN l + 1 ELSE l
    BY <1>6, <1>9
  <2> QED BY <1>4, <1>6, <1>9, <2>1
<1>10. CASE op = "rcl"
  BY <1>4, <1>6, <1>8, <1>10
<1>11. CASE op = "shl"
  <2>1. (2 * x) % 2^w = l /\ Cut(l, w) = l
    <3>1. w \in 1..2 * Host /\ 2 * x \in Int /\ x \in 0..2^w - 1 /\ Top(w) \in Nat /\ 2^w = 2 * Top(w)
      BY <1>1, <1>5, WidthIs DEF Nums
    <3>2. Cut(2 * x, w) = l
      <4> DEFINE v == 2 * x
      <4>1. v \in Int
        BY <3>1
      <4>2. /\ 0 <= v /\ v < 2^w => Cut(v, w) = v
            /\ 2^w <= v /\ v < 2 * 2^w => Cut(v, w) = v - 2^w
        BY <3>1, <4>1, CutNear
      <4> QED BY <3>1, <4>2
    <3>3. l \in Int /\ 0 <= l /\ l < 2^w
      BY <3>1
    <3>4. Cut(l, w) = l
      BY <3>1, <3>3, CutNear
    <3> QED BY <3>2, <3>4 DEF Cut
  <2> QED BY <1>4, <1>6, <1>8, <1>11, <2>1
<1>12. CASE op = "shr"
  <2>1. Cut(y.v, w) = y.v
    BY <1>1, <1>7, <1>12, UpperBit
  <2>2. x % 2 \in {0, 1}
    BY <1>5
  <2> QED BY <1>4, <1>7, <1>12, <2>1, <2>2
<1> QED BY <1>9, <1>10, <1>11, <1>12

\* A number is less than the power of two that has its size.
LEMMA WidthFits ==
  ASSUME NEW w \in 2..Host
  PROVE  w \in Nums(w) /\ w - 1 \in Nums(w) /\ w - 1 \in 0..CountMask /\ 1 \in Nums(w) /\ 0 \in Nums(w)
<1> DEFINE X == {n \in Nat : n <= Host => n < 2^n}
<1>1. 0 \in X
  OBVIOUS
<1>2. ASSUME NEW n \in Nat, n \in X PROVE n + 1 \in X
  <2> SUFFICES ASSUME n + 1 <= Host PROVE n + 1 < 2^(n + 1)
    OBVIOUS
  <2>1. n \in 0..Host /\ n < 2^n
    BY <1>2, HostAssumption
  <2>2. 2^(n + 1) = 2 * 2^n /\ 2^n \in Nat
    BY <2>1, OneMoreBit
  <2> QED BY <2>1, <2>2
<1> HIDE DEF X
<1>3. w \in X
  BY <1>1, <1>2, SetInduction, HostAssumption
<1>4. w < 2^w
  BY <1>3, HostAssumption DEF X
<1> QED BY <1>4, WidthIs, HostAssumption, InstructionsAssumption DEF Nums

\* Shifts by all bits but one leave the sign.
LEMMA SignSets ==
  ASSUME Next, NEW op \in {"shr", "sar"}, NEW d, NEW x, NEW w, Does(op, d, x, w - 1, w), I.s = "imm"
  PROVE  /\ op = "shr" => Sets(d, IF x >= Top(w) THEN 1 ELSE 0)
         /\ op = "sar" => Sets(d, IF x >= Top(w) THEN Ones(w) ELSE 0)
<1>1. w \in 2..Host /\ x \in Nums(w) /\ flags.cf \in {0, 1}
  BY DEF Does
<1>2. w - 1 \in 0..CountMask /\ w - 1 \in Nat
  BY <1>1, WidthFits
<1> DEFINE z == [v |-> x, cf |-> flags.cf, of |-> flags.of]
           f == Shifted(op, z, w)
           n == w - 1
<1>3. z.v = x /\ z.cf = flags.cf
  OBVIOUS
<1> HIDE DEF n
<1>4. ASSUME f[n].cf \in {0, 1} PROVE Sets(d, Cut(f[n].v, w))
  BY <1>1, <1>2, <1>4, ShiftSets DEF n
<1> DEFINE P == Top(w)
<1>5. P \in Nat /\ P >= 2 /\ 2^w = 2 * P /\ x \in 0..2^w - 1 /\ P = 2^n /\ n \in 0..CountMask
  BY <1>1, <1>2, WidthIs DEF Nums, Top, n
<1> HIDE DEF z, f
<1>6. CASE op = "shr"
  <2> DEFINE v == f[n].v
  <2>1. f = Shifted("shr", z, w)
    BY <1>6 DEF f
  <2>2. v = x \div P /\ v \in Nums(w) /\ f[n].cf \in {0, 1}
    BY <1>1, <1>3, <1>5, <2>1, ShrTurns
  <2> HIDE DEF P
  <2>3. x \div P = IF x >= P THEN 1 ELSE 0
    <3>1. CASE x >= P
      <4> DEFINE r == x - P
                 q == 1
      <4>1. x = P * q + r /\ r \in 0..P - 1 /\ P \in Nat \ {0} /\ q \in Int
        BY <1>5, <3>1
      <4> HIDE DEF r, q
      <4>2. x \div P = q
        BY <4>1, DivisionUnique
      <4> QED BY <3>1, <4>2 DEF q
    <3>2. CASE ~(x >= P)
      <4> DEFINE q == 0
      <4>1. x = P * q + x /\ x \in 0..P - 1 /\ P \in Nat \ {0} /\ q \in Int
        BY <1>5, <3>2
      <4> HIDE DEF q
      <4>2. x \div P = q
        BY <4>1, DivisionUnique
      <4> QED BY <3>2, <4>2 DEF q
    <3> QED BY <3>1, <3>2
  <2>4. Cut(v, w) = v
    BY <1>1, <2>2, UpperBit
  <2> QED BY <1>4, <1>6, <2>2, <2>3, <2>4 DEF P
<1>7. CASE op = "sar"
  <2> DEFINE v == f[n].v
             s == Signed(x, w)
  <2>1. f = Shifted("sar", z, w)
    BY <1>7 DEF f
  <2>2. Signed(v, w) = s \div P /\ v \in Nums(w) /\ f[n].cf \in {0, 1}
    BY <1>1, <1>3, <1>5, <2>1, SarTurns
  <2>3. s = (IF x >= P THEN x - 2 * P ELSE x) /\ (Signed(v, w) = IF v >= P THEN v - 2 * P ELSE v)
    BY <1>5 DEF Signed
  <2> HIDE DEF P, s
  <2>4. s \div P = IF x >= P THEN -1 ELSE 0
    <3>1. CASE x >= P
      <4> DEFINE r == x - P
                 q == -1
      <4>1. s = P * q + r /\ r \in 0..P - 1 /\ P \in Nat \ {0} /\ q \in Int
        BY <1>5, <2>3, <3>1
      <4> HIDE DEF r, q
      <4>2. s \div P = q
        BY <4>1, DivisionUnique
      <4> QED BY <3>1, <4>2 DEF q
    <3>2. CASE ~(x >= P)
      <4> DEFINE q == 0
      <4>1. s = P * q + x /\ x \in 0..P - 1 /\ P \in Nat \ {0} /\ q \in Int
        BY <1>5, <2>3, <3>2
      <4> HIDE DEF q
      <4>2. s \div P = q
        BY <4>1, DivisionUnique
      <4> QED BY <3>2, <4>2 DEF q
    <3> QED BY <3>1, <3>2
  <2>5. v = IF x >= P THEN Ones(w) ELSE 0
    <3>1. v \in 0..2 * P - 1 /\ Ones(w) = 2 * P - 1
      BY <1>5, <2>2 DEF Nums, Ones
    <3>2. (IF v >= P THEN v - 2 * P ELSE v) = IF x >= P THEN -1 ELSE 0
      BY <2>2, <2>3, <2>4
    <3> HIDE DEF v
    <3> QED BY <1>5, <3>1, <3>2
  <2>6. Cut(v, w) = v
    BY <1>1, <2>2, UpperBit
  <2> QED BY <1>4, <1>7, <2>2, <2>5, <2>6 DEF P
<1> QED BY <1>6, <1>7

\* The same, one by one.
LEMMA PlusSets ==
  ASSUME Next, NEW d, NEW x, NEW y, NEW w, Does("add", d, x, y, w)
  PROVE  \E v \in Nums(w), k \in {0, 1} :
           Sets(d, v) /\ flags'.cf = k /\ x + y = v + (IF k = 1 THEN 2^w ELSE 0)
<1> DEFINE op == "add"
<1>1. op \in {"add", "adc", "sub", "sbb"} /\ Does(op, d, x, y, w) /\ op = "add" /\ op # "sbb"
  OBVIOUS
<1> HIDE DEF op
<1> QED BY <1>1, AddSets

\* The sum with the carry.
LEMMA PlusCarrySets ==
  ASSUME Next, NEW d, NEW x, NEW y, NEW w, Does("adc", d, x, y, w), NEW c, c = flags.cf
  PROVE  \E v \in Nums(w), k \in {0, 1} :
           Sets(d, v) /\ flags'.cf = k /\ x + y + c = v + (IF k = 1 THEN 2^w ELSE 0)
<1> DEFINE op == "adc"
<1>1. op \in {"add", "adc", "sub", "sbb"} /\ Does(op, d, x, y, w) /\ op = "adc" /\ op # "sbb"
  OBVIOUS
<1> HIDE DEF op
<1> QED BY <1>1, AddSets

\* The difference.
LEMMA MinusSets ==
  ASSUME Next, NEW d, NEW x, NEW y, NEW w, Does("sub", d, x, y, w)
  PROVE  \E v \in Nums(w) :
           Sets(d, v) /\ flags'.cf = Flag(x < y) /\ x - y = v - (IF x < y THEN 2^w ELSE 0)
<1> DEFINE op == "sub"
<1>1. op \in {"add", "adc", "sub", "sbb"} /\ Does(op, d, x, y, w) /\ op = "sub" /\ op # "sbb"
  OBVIOUS
<1> HIDE DEF op
<1>2. PICK v \in Nums(w), k \in {0, 1} :
        /\ Sets(d, v) /\ (op # "sbb" => flags'.cf = k)
        /\ op = "sub" => x - y = v - (IF x < y THEN 2^w ELSE 0) /\ k = Flag(x < y)
        /\ op = "sbb" => x - y - flags.cf = v - (IF x < y + flags.cf THEN 2^w ELSE 0)
  BY <1>1, AddSets
<1> QED BY <1>1, <1>2

\* The difference with the borrow.
LEMMA MinusBorrowSets ==
  ASSUME Next, NEW d, NEW x, NEW y, NEW w, Does("sbb", d, x, y, w), NEW c, c = flags.cf
  PROVE  \E v \in Nums(w) :
           Sets(d, v) /\ x - y - c = v - (IF x < y + c THEN 2^w ELSE 0)
<1> DEFINE op == "sbb"
<1>1. op \in {"add", "adc", "sub", "sbb"} /\ Does(op, d, x, y, w) /\ op = "sbb"
  OBVIOUS
<1> HIDE DEF op
<1>2. PICK v \in Nums(w), k \in {0, 1} :
        /\ Sets(d, v) /\ (op # "sbb" => flags'.cf = k)
        /\ op = "sub" => x - y = v - (IF x < y THEN 2^w ELSE 0) /\ k = Flag(x < y)
        /\ op = "sbb" => x - y - c = v - (IF x < y + c THEN 2^w ELSE 0)
  BY <1>1, AddSets
<1> QED BY <1>1, <1>2

-----------------------------------------------------------------------------
(***************************************************************************)
(* Programs without a branch.                                              *)
(***************************************************************************)

\* A state of a routine whose registers and flags are all in place.
Going(n) ==
  /\ width \in 2..Host /\ (\A r \in Regs : Old[r] \in Nums(width))
  /\ trap = "none" /\ ip \in 1..n
  /\ DOMAIN regs = Regs /\ DOMAIN flags = FlagNames /\ flags.cf \in {0, 1}

\* A register that holds a mask of the sign of x.
SignMask(x, w) == IF x >= Top(w) THEN Ones(w) ELSE 0

AbsoluteBy ==
  LET x == Old["ax"]
      w == width
  IN  /\ code = Absolute(w)
      /\ ip > 1 => regs["dx"] = SignMask(x, w)
      /\ regs["ax"] = CASE ip <= 2 -> x
                        [] ip = 3 -> IF x >= Top(w) THEN Ones(w) - x ELSE x
                        [] ip = 4 -> IF x >= Top(w) THEN 2^w - x ELSE x

AbsoluteInv == name = "absolute" => Going(4) /\ AbsoluteBy

\* The instructions of the routine.
LEMMA AbsoluteCode ==
  ASSUME NEW w, NEW p, p = Absolute(w)
  PROVE  /\ Len(p) = 3
         /\ p[1].op = "cwd" /\ p[1].d = "ax" /\ p[1].s = "ax" /\ p[1].w = w
         /\ p[2].op = "xor" /\ p[2].d = "ax" /\ p[2].s = "dx" /\ p[2].w = w
         /\ p[3].op = "sub" /\ p[3].d = "ax" /\ p[3].s = "dx" /\ p[3].w = w
BY DEF Absolute, AX, RR

\* A mask is a number.
LEMMA MaskIs ==
  ASSUME NEW w \in 2..Host, NEW x \in Nums(w)
  PROVE  /\ SignMask(x, w) \in Nums(w) /\ SignMask(x, w) \in {0, Ones(w)}
         /\ Ones(w) # 0 /\ Ones(w) = 2^w - 1 /\ 2^w = 2 * Top(w) /\ Top(w) \in Nat /\ Top(w) >= 2
         /\ x \in 0..2^w - 1 /\ 2^w \in Nat
<1>1. Top(w) \in Nat /\ Top(w) >= 2 /\ 2^w = 2 * Top(w)
  BY WidthIs
<1>2. Ones(w) = 2^w - 1 /\ Nums(w) = 0..2^w - 1
  BY DEF Ones, Nums
<1> QED BY <1>1, <1>2 DEF SignMask

\* The absolute value, step by step.
LEMMA AbsoluteStep ==
  ASSUME AbsoluteInv, Next, UNCHANGED <<name, width, start>>
  PROVE  AbsoluteInv'
<1> SUFFICES ASSUME name = "absolute" PROVE AbsoluteInv'
  BY DEF AbsoluteInv
<1> DEFINE x == Old["ax"]
           w == width
           m == SignMask(x, w)
           n == IF x >= Top(w) THEN Ones(w) - x ELSE x
<1>1. /\ w \in 2..Host /\ x \in Nums(w) /\ trap = "none" /\ ip \in 1..4
      /\ DOMAIN regs = Regs /\ DOMAIN flags = FlagNames /\ flags.cf \in {0, 1}
      /\ \A r \in Regs : Old[r] \in Nums(w)
  BY DEF AbsoluteInv, Going, Regs
<1>2. /\ code = Absolute(w) /\ (ip > 1 => regs["dx"] = m)
      /\ regs["ax"] = CASE ip <= 2 -> x [] ip = 3 -> n
                        [] ip = 4 -> IF x >= Top(w) THEN 2^w - x ELSE x
  BY DEF AbsoluteInv, AbsoluteBy
<1>3. /\ Len(code) = 3
      /\ code[1].op = "cwd" /\ code[1].d = "ax" /\ code[1].s = "ax" /\ code[1].w = w
      /\ code[2].op = "xor" /\ code[2].d = "ax" /\ code[2].s = "dx" /\ code[2].w = w
      /\ code[3].op = "sub" /\ code[3].d = "ax" /\ code[3].s = "dx" /\ code[3].w = w
  BY <1>2, AbsoluteCode
<1>4. ip \in 1..3 /\ ip <= Len(code)
  BY <1>1, <1>3, Dispatch
<1>5. name' = name /\ w' = w /\ Old' = Old /\ x' = x
  BY DEF Old
<1>6. /\ m \in Nums(w) /\ m \in {0, Ones(w)} /\ m = (IF x >= Top(w) THEN Ones(w) ELSE 0)
      /\ Ones(w) # 0 /\ Ones(w) = 2^w - 1 /\ 2^w = 2 * Top(w) /\ Top(w) \in Nat /\ Top(w) >= 2
      /\ x \in 0..2^w - 1 /\ 2^w \in Nat /\ n \in Nums(w)
  <2>1. /\ m \in Nums(w) /\ m \in {0, Ones(w)}
        /\ Ones(w) # 0 /\ Ones(w) = 2^w - 1 /\ 2^w = 2 * Top(w) /\ Top(w) \in Nat /\ Top(w) >= 2
        /\ x \in 0..2^w - 1 /\ 2^w \in Nat
    BY <1>1, MaskIs
  <2>2. n \in Nums(w)
    BY <2>1 DEF Nums
  <2> QED BY <2>1, <2>2 DEF SignMask
<1> HIDE DEF x, w, m, n
<1>7. SUFFICES /\ ip' = ip + 1 /\ trap' = trap /\ code' = code /\ DOMAIN regs' = Regs
               /\ DOMAIN flags' = FlagNames /\ flags'.cf \in {0, 1}
               /\ regs'["dx"] = m
               /\ regs'["ax"] = CASE ip = 1 -> x [] ip = 2 -> n
                                  [] ip = 3 -> IF x >= Top(w) THEN 2^w - x ELSE x
  <2>1. Going(4)'
    BY <1>1, <1>4, <1>5, <1>7 DEF Going, w
  <2>2. AbsoluteBy'
    BY <1>2, <1>4, <1>5, <1>7 DEF AbsoluteBy, w, x, m, n
  <2> QED BY <2>1, <2>2 DEF AbsoluteInv
<1>8. CASE ip = 1
  <2>1. Does("cwd", "ax", x, x, w)
    BY <1>1, <1>2, <1>3, <1>4, <1>8 DEF Does, I, Dst, Src, Regs
  <2>2. Sets("dx", m)
    BY <1>6, <2>1, CwdSets
  <2> QED BY <1>2, <1>8, <2>2 DEF Sets, Regs
<1>9. CASE ip = 2
  <2>1. Does("xor", "ax", x, m, w)
    BY <1>1, <1>2, <1>3, <1>4, <1>6, <1>9 DEF Does, I, Dst, Src, Regs
  <2>2. Sets("ax", IF m = 0 THEN x ELSE Ones(w) - x)
    BY <1>6, <2>1, MaskSets
  <2>3. (IF m = 0 THEN x ELSE Ones(w) - x) = n
    BY <1>6 DEF n
  <2> QED BY <1>2, <1>9, <2>2, <2>3 DEF Sets, Regs
<1>10. CASE ip = 3
  <2>1. Does("sub", "ax", n, m, w)
    BY <1>1, <1>2, <1>3, <1>4, <1>6, <1>10 DEF Does, I, Dst, Src, Regs
  <2>2. PICK v \in Nums(w) : Sets("ax", v) /\ n - m = v - (IF n < m THEN 2^w ELSE 0)
    BY <2>1, MinusSets
  <2>3. v = IF x >= Top(w) THEN 2^w - x ELSE x
    <3>1. v \in 0..2^w - 1
      BY <2>2 DEF Nums
    <3> QED BY <1>6, <2>2, <3>1 DEF n
  <2> QED BY <1>2, <1>10, <2>2, <2>3 DEF Sets, Regs
<1> QED BY <1>4, <1>8, <1>9, <1>10

\* The absolute value, in the end.
LEMMA AbsoluteEnds ==
  ASSUME AbsoluteInv, Ended({"absolute"}), NEW a, a = Signed(Old["ax"], width)
  PROVE  regs["ax"] = IF a < 0 THEN -a ELSE a
<1> DEFINE x == Old["ax"]
           w == width
<1>1. name = "absolute" /\ ip > Len(code) /\ Going(4) /\ AbsoluteBy
  BY DEF Ended, Finished, AbsoluteInv
<1>2. w \in 2..Host /\ x \in Nums(w) /\ ip = 4
  <2>1. Len(code) = 3
    BY <1>1, AbsoluteCode DEF AbsoluteBy
  <2> QED BY <1>1, <2>1 DEF Going, Regs
<1>3. regs["ax"] = IF x >= Top(w) THEN 2^w - x ELSE x
  BY <1>1, <1>2 DEF AbsoluteBy
<1>4. 2^w = 2 * Top(w) /\ Top(w) \in Nat /\ Top(w) >= 2 /\ x \in 0..2^w - 1
  BY <1>2, MaskIs
<1>5. a = IF x >= Top(w) THEN x - 2^w ELSE x
  BY DEF Signed
<1> HIDE DEF x, w
<1> QED BY <1>3, <1>4, <1>5

\* The difference that a borrow completes.
Completed(x, y, w) == x - y + (IF x < y THEN 2^w ELSE 0)

MinimumBy ==
  LET x == Old["ax"]
      y == Old["bx"]
      w == width
  IN  /\ code = Minimum(w)
      /\ regs["ax"] = IF ip = 1 THEN x ELSE Completed(x, y, w)
      /\ regs["bx"] = IF ip < 5 \/ ~(x < y) THEN y ELSE x
      /\ ip = 2 => flags.cf = Flag(x < y)
      /\ ip < 5 => regs["cx"] = IF ip <= 2 \/ ~(x < y) THEN 0
                                ELSE IF ip = 3 THEN Ones(w) ELSE Completed(x, y, w)

MinimumInv == name = "minimum" => Going(5) /\ MinimumBy

\* The instructions of the routine.
LEMMA MinimumCode ==
  ASSUME NEW w, NEW p, p = Minimum(w)
  PROVE  /\ Len(p) = 4
         /\ p[1].op = "sub" /\ p[1].d = "ax" /\ p[1].s = "bx" /\ p[1].w = w
         /\ p[2].op = "sbb" /\ p[2].d = "cx" /\ p[2].s = "cx" /\ p[2].w = w
         /\ p[3].op = "and" /\ p[3].d = "cx" /\ p[3].s = "ax" /\ p[3].w = w
         /\ p[4].op = "add" /\ p[4].d = "bx" /\ p[4].s = "cx" /\ p[4].w = w
BY DEF Minimum, AX, RR

\* The minimum, step by step.
LEMMA MinimumStep ==
  ASSUME MinimumInv, Next, UNCHANGED <<name, width, start>>
  PROVE  MinimumInv'
<1> SUFFICES ASSUME name = "minimum" PROVE MinimumInv'
  BY DEF MinimumInv
<1> DEFINE x == Old["ax"]
           y == Old["bx"]
           w == width
           c == Completed(x, y, w)
           m == IF x < y THEN Ones(w) ELSE 0
           l == IF x < y THEN c ELSE 0
<1>1. /\ w \in 2..Host /\ x \in Nums(w) /\ y \in Nums(w) /\ trap = "none" /\ ip \in 1..5
      /\ DOMAIN regs = Regs /\ DOMAIN flags = FlagNames /\ flags.cf \in {0, 1}
      /\ \A r \in Regs : Old[r] \in Nums(w)
  BY DEF MinimumInv, Going, Regs
<1>2. /\ code = Minimum(w) /\ (ip = 2 => flags.cf = Flag(x < y))
      /\ regs["ax"] = (IF ip = 1 THEN x ELSE c)
      /\ regs["bx"] = (IF ip < 5 \/ ~(x < y) THEN y ELSE x)
      /\ ip <= 2 => regs["cx"] = 0
      /\ ip = 3 => regs["cx"] = m
      /\ ip = 4 => regs["cx"] = l
  BY <1>1 DEF MinimumInv, MinimumBy
<1>3. /\ Len(code) = 4
      /\ code[1].op = "sub" /\ code[1].d = "ax" /\ code[1].s = "bx" /\ code[1].w = w
      /\ code[2].op = "sbb" /\ code[2].d = "cx" /\ code[2].s = "cx" /\ code[2].w = w
      /\ code[3].op = "and" /\ code[3].d = "cx" /\ code[3].s = "ax" /\ code[3].w = w
      /\ code[4].op = "add" /\ code[4].d = "bx" /\ code[4].s = "cx" /\ code[4].w = w
  BY <1>2, MinimumCode
<1>4. ip \in 1..4 /\ ip <= Len(code)
  BY <1>1, <1>3, Dispatch
<1>5. name' = name /\ w' = w /\ Old' = Old /\ x' = x /\ y' = y
  BY DEF Old
<1>6. /\ x \in 0..2^w - 1 /\ y \in 0..2^w - 1 /\ 2^w \in Nat /\ Ones(w) = 2^w - 1 /\ Ones(w) # 0
      /\ c = x - y + (IF x < y THEN 2^w ELSE 0) /\ c \in Nums(w) /\ 0 \in Nums(w) /\ l \in Nums(w)
      /\ m \in Nums(w)
  <2>1. /\ x \in 0..2^w - 1 /\ y \in 0..2^w - 1 /\ 2^w \in Nat /\ Ones(w) = 2^w - 1 /\ Ones(w) # 0
        /\ 0 \in Nums(w)
    BY <1>1, MaskIs, WidthFits
  <2>2. c = x - y + (IF x < y THEN 2^w ELSE 0)
    BY DEF Completed
  <2>3. c \in Nums(w)
    BY <2>1, <2>2 DEF Nums
  <2> QED BY <2>1, <2>2, <2>3 DEF Nums
<1> HIDE DEF x, y, w, c
<1>7. SUFFICES /\ ip' = ip + 1 /\ trap' = trap /\ code' = code /\ DOMAIN regs' = Regs
               /\ DOMAIN flags' = FlagNames /\ flags'.cf \in {0, 1}
               /\ ip = 1 => flags'.cf = Flag(x < y)
               /\ regs'["ax"] = c
               /\ regs'["bx"] = IF ip < 4 \/ ~(x < y) THEN y ELSE x
               /\ ip = 1 => regs'["cx"] = 0
               /\ ip = 2 => regs'["cx"] = m
               /\ ip = 3 => regs'["cx"] = l
  <2>1. Going(5)'
    BY <1>1, <1>4, <1>5, <1>7 DEF Going, w
  <2>2. c' = c
    BY <1>5 DEF c, Completed, x, y, w
  <2>3. MinimumBy'
    BY <1>2, <1>4, <1>5, <1>7, <2>2 DEF MinimumBy, w, x, y, c
  <2> QED BY <2>1, <2>3 DEF MinimumInv
<1>8. CASE ip = 1
  <2>1. Does("sub", "ax", x, y, w)
    BY <1>1, <1>2, <1>3, <1>4, <1>8 DEF Does, I, Dst, Src, Regs
  <2>2. PICK v \in Nums(w) :
          Sets("ax", v) /\ flags'.cf = Flag(x < y) /\ x - y = v - (IF x < y THEN 2^w ELSE 0)
    BY <2>1, MinusSets
  <2>3. v = c
    <3>1. v \in 0..2^w - 1
      BY <2>2 DEF Nums
    <3> QED BY <1>6, <2>2, <3>1
  <2> QED BY <1>2, <1>8, <2>2, <2>3 DEF Sets, Regs
<1>9. CASE ip = 2
  <2>1. Does("sbb", "cx", 0, 0, w)
    BY <1>1, <1>2, <1>3, <1>4, <1>6, <1>9 DEF Does, I, Dst, Src, Regs
  <2> DEFINE k == flags.cf
  <2>2. PICK v \in Nums(w) : Sets("cx", v) /\ 0 - 0 - k = v - (IF 0 < 0 + k THEN 2^w ELSE 0)
    BY <2>1, MinusBorrowSets
  <2>3. k = IF x < y THEN 1 ELSE 0
    BY <1>2, <1>9 DEF Flag
  <2> HIDE DEF k
  <2>4. v = m
    <3>1. v \in 0..2^w - 1
      BY <2>2 DEF Nums
    <3> QED BY <1>6, <2>2, <2>3, <3>1
  <2> QED BY <1>2, <1>9, <2>2, <2>4 DEF Sets, Regs
<1>10. CASE ip = 3
  <2>1. Does("and", "cx", m, c, w)
    BY <1>1, <1>2, <1>3, <1>4, <1>6, <1>10 DEF Does, I, Dst, Src, Regs
  <2>2. Sets("cx", IF m = 0 THEN 0 ELSE c)
    <3>1. m \in {0, Ones(w)}
      OBVIOUS
    <3> HIDE DEF m
    <3> QED BY <2>1, <3>1, MaskSets
  <2>3. (IF m = 0 THEN 0 ELSE c) = l
    BY <1>6
  <2> QED BY <1>2, <1>10, <2>2, <2>3 DEF Sets, Regs
<1>11. CASE ip = 4
  <2>1. Does("add", "bx", y, l, w)
    BY <1>1, <1>2, <1>3, <1>4, <1>6, <1>11 DEF Does, I, Dst, Src, Regs
  <2>2. PICK v \in Nums(w), k \in {0, 1} :
          Sets("bx", v) /\ flags'.cf = k /\ y + l = v + (IF k = 1 THEN 2^w ELSE 0)
    BY <2>1, PlusSets
  <2>3. v = IF ~(x < y) THEN y ELSE x
    <3>1. v \in 0..2^w - 1
      BY <2>2 DEF Nums
    <3> QED BY <1>6, <2>2, <3>1
  <2> QED BY <1>2, <1>11, <2>2, <2>3 DEF Sets, Regs
<1> QED BY <1>4, <1>8, <1>9, <1>10, <1>11

\* The minimum, in the end.
LEMMA MinimumEnds ==
  ASSUME MinimumInv, Ended({"minimum"})
  PROVE  regs["bx"] = IF Old["ax"] < Old["bx"] THEN Old["ax"] ELSE Old["bx"]
<1>1. name = "minimum" /\ ip > Len(code) /\ Going(5) /\ MinimumBy
  BY DEF Ended, Finished, MinimumInv
<1>2. ip = 5
  <2>1. Len(code) = 4
    BY <1>1, MinimumCode DEF MinimumBy
  <2> QED BY <1>1, <2>1 DEF Going
<1> QED BY <1>1, <1>2 DEF MinimumBy

SignBy ==
  LET x == Old["ax"]
      w == width
      n == IF x = 0 THEN 0 ELSE 2^w - x
  IN  /\ code = Sign(w)
      /\ regs["ax"] = CASE ip <= 2 -> x [] ip \in 3..5 -> SignMask(x, w)
                        [] ip = 6 -> IF x >= Top(w) THEN Ones(w) ELSE IF x = 0 THEN 0 ELSE 1
      /\ ip = 1 => regs["bx"] \in Nums(w)
      /\ ip \in {2, 3} => regs["bx"] = x
      /\ ip = 4 => regs["bx"] = n
      /\ ip = 5 => regs["bx"] = IF n >= Top(w) THEN 1 ELSE 0

SignInv == name = "sign" => Going(6) /\ SignBy

\* The instructions of the routine.
LEMMA SignCode ==
  ASSUME NEW w, NEW p, p = Sign(w)
  PROVE  /\ Len(p) = 5
         /\ p[1].op = "mov" /\ p[1].d = "bx" /\ p[1].s = "ax" /\ p[1].w = w
         /\ p[2].op = "sar" /\ p[2].d = "ax" /\ p[2].s = "imm" /\ p[2].w = w /\ p[2].n = w - 1
         /\ p[3].op = "neg" /\ p[3].d = "bx" /\ p[3].s = "imm" /\ p[3].w = w /\ p[3].n = 0
         /\ p[4].op = "shr" /\ p[4].d = "bx" /\ p[4].s = "imm" /\ p[4].w = w /\ p[4].n = w - 1
         /\ p[5].op = "or" /\ p[5].d = "ax" /\ p[5].s = "bx" /\ p[5].w = w
BY DEF Sign, AX, RR, RI

\* The sign, step by step.
LEMMA SignStep ==
  ASSUME SignInv, Next, UNCHANGED <<name, width, start>>
  PROVE  SignInv'
<1> SUFFICES ASSUME name = "sign" PROVE SignInv'
  BY DEF SignInv
<1> DEFINE x == Old["ax"]
           w == width
           n == IF x = 0 THEN 0 ELSE 2^w - x
           m == SignMask(x, w)
           b == IF n >= Top(w) THEN 1 ELSE 0
           z == IF x >= Top(w) THEN Ones(w) ELSE IF x = 0 THEN 0 ELSE 1
<1>1. /\ w \in 2..Host /\ x \in Nums(w) /\ trap = "none" /\ ip \in 1..6
      /\ DOMAIN regs = Regs /\ DOMAIN flags = FlagNames /\ flags.cf \in {0, 1}
      /\ \A r \in Regs : Old[r] \in Nums(w)
  BY DEF SignInv, Going, Regs
<1>2. /\ code = Sign(w)
      /\ ip <= 2 => regs["ax"] = x
      /\ ip \in 3..5 => regs["ax"] = m
      /\ ip = 1 => regs["bx"] \in Nums(w)
      /\ ip \in {2, 3} => regs["bx"] = x
      /\ ip = 4 => regs["bx"] = n
      /\ ip = 5 => regs["bx"] = b
  BY <1>1 DEF SignInv, SignBy
<1>3. /\ Len(code) = 5
      /\ code[1].op = "mov" /\ code[1].d = "bx" /\ code[1].s = "ax" /\ code[1].w = w
      /\ code[2].op = "sar" /\ code[2].d = "ax" /\ code[2].s = "imm" /\ code[2].w = w /\ code[2].n = w - 1
      /\ code[3].op = "neg" /\ code[3].d = "bx" /\ code[3].s = "imm" /\ code[3].w = w /\ code[3].n = 0
      /\ code[4].op = "shr" /\ code[4].d = "bx" /\ code[4].s = "imm" /\ code[4].w = w /\ code[4].n = w - 1
      /\ code[5].op = "or" /\ code[5].d = "ax" /\ code[5].s = "bx" /\ code[5].w = w
  BY <1>2, SignCode
<1>4. ip \in 1..5 /\ ip <= Len(code)
  BY <1>1, <1>3, Dispatch
<1>5. name' = name /\ w' = w /\ Old' = Old /\ x' = x
  BY DEF Old
<1>6. /\ x \in 0..2^w - 1 /\ 2^w \in Nat /\ Ones(w) = 2^w - 1 /\ Ones(w) # 0
      /\ 2^w = 2 * Top(w) /\ Top(w) \in Nat /\ Top(w) >= 2
      /\ m = (IF x >= Top(w) THEN Ones(w) ELSE 0) /\ m \in {0, Ones(w)}
      /\ n \in Nums(w) /\ 0 \in Nums(w) /\ 1 \in Nums(w) /\ w - 1 \in Nums(w) /\ m \in Nums(w) /\ b \in Nums(w)
  <2>1. /\ x \in 0..2^w - 1 /\ 2^w \in Nat /\ Ones(w) = 2^w - 1 /\ Ones(w) # 0
        /\ 2^w = 2 * Top(w) /\ Top(w) \in Nat /\ Top(w) >= 2 /\ m \in {0, Ones(w)}
        /\ 0 \in Nums(w) /\ 1 \in Nums(w) /\ w - 1 \in Nums(w) /\ m \in Nums(w)
    BY <1>1, MaskIs, WidthFits
  <2>2. m = (IF x >= Top(w) THEN Ones(w) ELSE 0)
    BY DEF SignMask
  <2>3. n \in Nums(w)
    BY <2>1 DEF Nums
  <2> QED BY <2>1, <2>2, <2>3
<1> HIDE DEF x, w, n, m
<1>7. SUFFICES /\ ip' = ip + 1 /\ trap' = trap /\ code' = code /\ DOMAIN regs' = Regs
               /\ DOMAIN flags' = FlagNames /\ flags'.cf \in {0, 1}
               /\ regs'["ax"] = IF ip = 1 THEN x ELSE IF ip = 5 THEN z ELSE m
               /\ ip \in {1, 2} => regs'["bx"] = x
               /\ ip = 3 => regs'["bx"] = n
               /\ ip = 4 => regs'["bx"] = b
  <2>1. Going(6)'
    BY <1>1, <1>4, <1>5, <1>7 DEF Going, w
  <2>2. n' = n /\ m' = m
    BY <1>5 DEF n, m, x, w
  <2>3. SignBy'
    BY <1>2, <1>4, <1>5, <1>7, <2>2 DEF SignBy, w, x, n, m
  <2> QED BY <2>1, <2>3 DEF SignInv
<1> HIDE DEF b, z
<1>8. CASE ip = 1
  <2>1. Does("mov", "bx", regs["bx"], x, w)
    BY <1>1, <1>2, <1>3, <1>4, <1>8 DEF Does, I, Dst, Src, Regs
  <2>2. Sets("bx", x)
    BY <2>1, MovSets
  <2> QED BY <1>2, <1>8, <2>2 DEF Sets, Regs
<1>9. CASE ip = 2
  <2>1. Does("sar", "ax", x, w - 1, w) /\ I.s = "imm"
    BY <1>1, <1>2, <1>3, <1>4, <1>6, <1>9 DEF Does, I, Dst, Src, Regs
  <2>2. Sets("ax", m)
    BY <1>6, <2>1, SignSets
  <2> QED BY <1>2, <1>9, <2>2 DEF Sets, Regs
<1>10. CASE ip = 3
  <2>1. Does("neg", "bx", x, 0, w)
    BY <1>1, <1>2, <1>3, <1>4, <1>6, <1>10 DEF Does, I, Dst, Src, Regs
  <2>2. Sets("bx", n)
    BY <2>1, NegSets DEF n
  <2> QED BY <1>2, <1>10, <2>2 DEF Sets, Regs
<1>11. CASE ip = 4
  <2>1. Does("shr", "bx", n, w - 1, w) /\ I.s = "imm"
    BY <1>1, <1>2, <1>3, <1>4, <1>6, <1>11 DEF Does, I, Dst, Src, Regs
  <2>2. Sets("bx", b)
    BY <2>1, SignSets DEF b
  <2> QED BY <1>2, <1>11, <2>2 DEF Sets, Regs
<1>12. CASE ip = 5
  <2>1. Does("or", "ax", m, b, w)
    BY <1>1, <1>2, <1>3, <1>4, <1>6, <1>12 DEF Does, I, Dst, Src, Regs
  <2>2. Sets("ax", IF m = 0 THEN b ELSE m)
    BY <1>6, <2>1, MaskSets
  <2>3. (IF m = 0 THEN b ELSE m) = z
    BY <1>6 DEF b, z, n
  <2> QED BY <1>2, <1>12, <2>2, <2>3 DEF Sets, Regs
<1> QED BY <1>4, <1>8, <1>9, <1>10, <1>11, <1>12

\* The sign, in the end.
LEMMA SignEnds ==
  ASSUME SignInv, Ended({"sign"}), NEW a, a = Signed(Old["ax"], width)
  PROVE  Signed(regs["ax"], width) = IF a < 0 THEN -1 ELSE IF a = 0 THEN 0 ELSE 1
<1> DEFINE x == Old["ax"]
           w == width
           v == regs["ax"]
<1>1. name = "sign" /\ ip > Len(code) /\ Going(6) /\ SignBy
  BY DEF Ended, Finished, SignInv
<1>2. w \in 2..Host /\ x \in Nums(w) /\ ip = 6
  <2>1. Len(code) = 5
    BY <1>1, SignCode DEF SignBy
  <2> QED BY <1>1, <2>1 DEF Going, Regs
<1>3. v = IF x >= Top(w) THEN Ones(w) ELSE IF x = 0 THEN 0 ELSE 1
  BY <1>1, <1>2 DEF SignBy
<1>4. 2^w = 2 * Top(w) /\ Top(w) \in Nat /\ Top(w) >= 2 /\ x \in 0..2^w - 1 /\ Ones(w) = 2^w - 1
  BY <1>2, MaskIs
<1>5. /\ a = (IF x >= Top(w) THEN x - 2^w ELSE x)
      /\ Signed(v, w) = (IF v >= Top(w) THEN v - 2^w ELSE v)
  BY DEF Signed
<1> HIDE DEF x, w, v
<1> QED BY <1>3, <1>4, <1>5 DEF w, v

-----------------------------------------------------------------------------
(***************************************************************************)
(* Loops.                                                                  *)
(***************************************************************************)

\* The jumps of a loop count in the width of its numbers.
Looping(n) == Going(n) /\ width = Word

CountToBy ==
  LET b == Old["bx"]
      c == Old["cx"]
      k == regs["dx"]
      n == regs["cx"]
      w == width
  IN  /\ code = CountTo(w) /\ regs["bx"] = b
      /\ k \in Nums(w) /\ n \in Nums(w) /\ k <= b /\ k <= c
      /\ k + n = IF ip \in {2, 3} THEN c + 1 ELSE c
      /\ ip = 1 => k < b /\ k < c
      /\ ip = 3 => flags.zf = Flag(k = b)
      /\ ip = 4 => k = b \/ k = c

CountToInv == name = "count_to" => Looping(4) /\ CountToBy

\* The instructions of the routine.
LEMMA CountToCode ==
  ASSUME NEW w, NEW p, p = CountTo(w)
  PROVE  /\ Len(p) = 3
         /\ p[1].op = "inc" /\ p[1].d = "dx" /\ p[1].s = "imm" /\ p[1].w = w /\ p[1].n = 1
         /\ p[2].op = "cmp" /\ p[2].d = "dx" /\ p[2].s = "bx" /\ p[2].w = w
         /\ p[3].op = "loopne" /\ p[3].w = Word /\ p[3].n = 1
BY DEF CountTo, RI, RR, To

\* Counting, step by step: what is counted up is counted down.
LEMMA CountToStep ==
  ASSUME CountToInv, Next, UNCHANGED <<name, width, start>>
  PROVE  CountToInv'
<1> SUFFICES ASSUME name = "count_to" PROVE CountToInv'
  BY DEF CountToInv
<1> DEFINE b == Old["bx"]
           c == Old["cx"]
           k == regs["dx"]
           n == regs["cx"]
           w == width
<1>1. /\ w \in 2..Host /\ b \in Nums(w) /\ c \in Nums(w) /\ trap = "none" /\ ip \in 1..4 /\ w = Word
      /\ DOMAIN regs = Regs /\ DOMAIN flags = FlagNames /\ flags.cf \in {0, 1}
      /\ \A r \in Regs : Old[r] \in Nums(w)
  BY DEF CountToInv, Looping, Going, Regs
<1>2. /\ code = CountTo(w) /\ regs["bx"] = b
      /\ k \in Nums(w) /\ n \in Nums(w) /\ k <= b /\ k <= c
      /\ k + n = (IF ip \in {2, 3} THEN c + 1 ELSE c)
      /\ ip = 1 => k < b /\ k < c
      /\ ip = 3 => flags.zf = Flag(k = b)
  BY DEF CountToInv, CountToBy
<1>3. /\ Len(code) = 3
      /\ code[1].op = "inc" /\ code[1].d = "dx" /\ code[1].s = "imm" /\ code[1].w = w /\ code[1].n = 1
      /\ code[2].op = "cmp" /\ code[2].d = "dx" /\ code[2].s = "bx" /\ code[2].w = w
      /\ code[3].op = "loopne" /\ code[3].w = Word /\ code[3].n = 1
  BY <1>2, CountToCode
<1>4. ip \in 1..3 /\ ip <= Len(code)
  BY <1>1, <1>3, Dispatch
<1>5. name' = name /\ w' = w /\ Old' = Old /\ b' = b /\ c' = c
  BY DEF Old
<1>6. /\ b \in 0..2^w - 1 /\ c \in 0..2^w - 1 /\ 2^w \in Nat /\ 1 \in Nums(w)
      /\ k \in 0..2^w - 1 /\ n \in 0..2^w - 1
  BY <1>1, <1>2, WidthFits, WidthIs DEF Nums
<1> DEFINE kk == regs'["dx"]
           nn == regs'["cx"]
<1> HIDE DEF b, c, w
<1>7. SUFFICES /\ ip' \in 1..4 /\ trap' = trap /\ code' = code /\ DOMAIN regs' = Regs
               /\ DOMAIN flags' = FlagNames /\ flags'.cf \in {0, 1}
               /\ regs'["bx"] = b
               /\ kk \in Nums(w) /\ nn \in Nums(w) /\ kk <= b /\ kk <= c
               /\ kk + nn = (IF ip' \in {2, 3} THEN c + 1 ELSE c)
               /\ ip' = 1 => kk < b /\ kk < c
               /\ ip' = 3 => flags'.zf = Flag(kk = b)
               /\ ip' = 4 => kk = b \/ kk = c
  <2>1. Looping(4)'
    BY <1>1, <1>5, <1>7 DEF Looping, Going, w
  <2>2. CountToBy'
    BY <1>2, <1>5, <1>7 DEF CountToBy, w, b, c
  <2> QED BY <2>1, <2>2 DEF CountToInv
<1>8. CASE ip = 1
  <2>1. Does("inc", "dx", k, 1, w)
    BY <1>1, <1>2, <1>3, <1>4, <1>6, <1>8 DEF Does, I, Dst, Src, Regs
  <2>2. k + 1 < 2^w
    BY <1>2, <1>6, <1>8
  <2> HIDE DEF k, n
  <2>3. Sets("dx", k + 1)
    BY <2>1, <2>2, IncSets
  <2>4. kk = k + 1 /\ nn = n /\ regs'["bx"] = b /\ ip' = 2
    BY <1>2, <1>8, <2>3 DEF Sets, Regs, n
  <2>5. kk \in Nums(w) /\ kk <= b /\ kk <= c /\ kk + nn = c + 1
    BY <1>2, <1>6, <1>8, <2>2, <2>4 DEF Nums
  <2> QED BY <1>2, <1>8, <2>3, <2>4, <2>5 DEF Sets
<1>9. CASE ip = 2
  <2>1. Does("cmp", "dx", k, b, w)
    BY <1>1, <1>2, <1>3, <1>4, <1>9 DEF Does, I, Dst, Src, Regs
  <2>2. Reads /\ flags'.zf = Flag(k = b)
    BY <2>1, CmpReads
  <2>3. kk = k /\ nn = n /\ ip' = 3
    BY <1>9, <2>2 DEF Reads
  <2> QED BY <1>1, <1>2, <1>9, <2>2, <2>3 DEF Reads
<1>10. CASE ip = 3
  <2>1. I.op = "loopne" /\ I.w = w /\ I.n = 1
    BY <1>1, <1>3, <1>10 DEF I
  <2>2. n # 0 /\ flags.zf \in {0, 1} /\ (flags.zf = 1) = (k = b)
    BY <1>2, <1>6, <1>10 DEF Flag
  <2>3. /\ code' = code /\ trap' = trap /\ flags' = flags /\ DOMAIN regs' = Regs
        /\ regs'["cx"] = n - 1 /\ \A r \in Regs \ {"cx"} : regs'[r] = regs[r]
        /\ ip' = IF n # 1 /\ flags.zf # 1 THEN 1 ELSE ip + 1
    BY <1>1, <1>2, <2>1, <2>2, LoopJumps
  <2>4. kk = k /\ nn = n - 1 /\ regs'["bx"] = b
    BY <1>2, <2>3 DEF Regs
  <2>5. nn \in Nums(w)
    BY <1>6, <2>2, <2>4 DEF Nums
  <2>6. ip' = IF n # 1 /\ k # b THEN 1 ELSE 4
    BY <1>10, <2>2, <2>3
  <2> HIDE DEF k, n, kk, nn
  <2>7. k + n = c + 1
    BY <1>2, <1>10
  <2> QED BY <1>1, <1>2, <1>6, <2>3, <2>4, <2>5, <2>6, <2>7
<1> QED BY <1>4, <1>8, <1>9, <1>10

\* Counting, in the end.
LEMMA CountToEnds ==
  ASSUME CountToInv, Ended({"count_to"})
  PROVE  regs["dx"] = IF Old["bx"] < Old["cx"] THEN Old["bx"] ELSE Old["cx"]
<1>1. name = "count_to" /\ ip > Len(code) /\ Looping(4) /\ CountToBy
  BY DEF Ended, Finished, CountToInv
<1>2. ip = 4 /\ width \in 2..Host /\ Old["bx"] \in Nums(width) /\ Old["cx"] \in Nums(width)
  <2>1. Len(code) = 3
    BY <1>1, CountToCode DEF CountToBy
  <2> QED BY <1>1, <2>1 DEF Looping, Going, Regs
<1>3. Nums(width) \subseteq Int
  BY <1>2, WidthIs
<1> QED BY <1>1, <1>2, <1>3 DEF CountToBy

\* The number with the digits s and d is m times a.
SumIs(P, s, d, a, m) == s * P + d = a * m

\* Nothing has been added yet.
LEMMA SumOfNone ==
  ASSUME NEW P \in Nat, NEW a \in Nat
  PROVE  SumIs(P, 0, 0, a, 0)
BY DEF SumIs

\* One more addition, whose carry goes to the upper digit, which has room for it.
LEMMA SumOfOneMore ==
  ASSUME NEW P \in Nat \ {0}, NEW s \in 0..P - 1, NEW d \in 0..P - 1, NEW a \in 0..P - 1,
         NEW m \in Nat, m + 1 < P, SumIs(P, s, d, a, m),
         NEW v \in 0..P - 1, NEW c \in {0, 1}, d + a = v + (IF c = 1 THEN P ELSE 0)
  PROVE  s + c < P /\ SumIs(P, s + c, v, a, m + 1)
<1>1. s * P + d = a * m
  BY DEF SumIs
<1>2. a * (m + 1) = a * m + a /\ a * m \in Int /\ s * P \in Int /\ P * P \in Int
  OBVIOUS
<1>3. (s + c) * P = s * P + (IF c = 1 THEN P ELSE 0)
  BY Distribute
<1>4. (s + c) * P + v = a * (m + 1)
  BY <1>1, <1>2, <1>3
<1>5. s + c < P
  <2> DEFINE e == s + c
             g == m + 1
  <2>1. e \in Nat /\ e <= P /\ g \in Nat /\ g < P
    OBVIOUS
  <2>2. e * P + v = a * g
    BY <1>4
  <2> HIDE DEF e, g
  <2>3. SUFFICES ASSUME e = P PROVE FALSE
    BY <2>1 DEF e
  <2>4. a * g <= (P - 1) * g
    BY <2>1
  <2>5. (P - 1) * g <= (P - 1) * P
    BY <2>1
  <2>6. (P - 1) * P = P * P - P
    OBVIOUS
  <2>7. e * P = P * P
    BY <2>3
  <2>8. a * g \in Int /\ (P - 1) * g \in Int /\ P * P \in Int
    BY <2>1
  <2> QED BY <2>2, <2>4, <2>5, <2>6, <2>7, <2>8
<1> QED BY <1>4, <1>5 DEF SumIs

RepeatedSumBy ==
  LET a == Old["ax"]
      n == Old["cx"]
      k == regs["cx"]
      d == regs["dx"]
      s == regs["si"]
      w == width
  IN  /\ code = RepeatedSum(w) /\ regs["ax"] = a
      /\ {k, d, s} \subseteq Nums(w) /\ k <= n
      /\ ip = 1 => k = n /\ d = 0 /\ s = 0
      /\ ip \in 2..4 => k # 0
      /\ ip = 2 => SumIs(2^w, s, d, a, n - k)
      /\ ip = 3 => s + flags.cf < 2^w /\ SumIs(2^w, s + flags.cf, d, a, n - k + 1)
      /\ ip = 4 => SumIs(2^w, s, d, a, n - k + 1)
      /\ ip = 5 => SumIs(2^w, s, d, a, n)

RepeatedSumInv == name = "repeated_sum" => Looping(5) /\ RepeatedSumBy

\* The instructions of the routine.
LEMMA RepeatedSumCode ==
  ASSUME NEW w, NEW p, p = RepeatedSum(w)
  PROVE  /\ Len(p) = 4
         /\ p[1].op = "jcxz" /\ p[1].n = 5
         /\ p[2].op = "add" /\ p[2].d = "dx" /\ p[2].s = "ax" /\ p[2].w = w
         /\ p[3].op = "adc" /\ p[3].d = "si" /\ p[3].s = "imm" /\ p[3].w = w /\ p[3].n = 0
         /\ p[4].op = "loop" /\ p[4].w = Word /\ p[4].n = 2
BY DEF RepeatedSum, RI, RR, To

\* Repeated addition, step by step.
LEMMA RepeatedSumStep ==
  ASSUME RepeatedSumInv, Next, UNCHANGED <<name, width, start>>
  PROVE  RepeatedSumInv'
<1> SUFFICES ASSUME name = "repeated_sum" PROVE RepeatedSumInv'
  BY DEF RepeatedSumInv
<1> DEFINE a == Old["ax"]
           n == Old["cx"]
           k == regs["cx"]
           d == regs["dx"]
           s == regs["si"]
           w == width
           P == 2^w
           f == flags.cf
<1>1. /\ w \in 2..Host /\ a \in Nums(w) /\ n \in Nums(w) /\ trap = "none" /\ ip \in 1..5 /\ w = Word
      /\ DOMAIN regs = Regs /\ DOMAIN flags = FlagNames /\ f \in {0, 1}
      /\ \A r \in Regs : Old[r] \in Nums(w)
  BY DEF RepeatedSumInv, Looping, Going, Regs
<1>2. /\ code = RepeatedSum(w) /\ regs["ax"] = a
      /\ k \in Nums(w) /\ d \in Nums(w) /\ s \in Nums(w) /\ k <= n
      /\ ip = 1 => k = n /\ d = 0 /\ s = 0
      /\ ip \in 2..4 => k # 0
      /\ ip = 2 => SumIs(P, s, d, a, n - k)
      /\ ip = 3 => s + f < P /\ SumIs(P, s + f, d, a, n - k + 1)
      /\ ip = 4 => SumIs(P, s, d, a, n - k + 1)
  BY DEF RepeatedSumInv, RepeatedSumBy
<1>3. /\ Len(code) = 4
      /\ code[1].op = "jcxz" /\ code[1].n = 5
      /\ code[2].op = "add" /\ code[2].d = "dx" /\ code[2].s = "ax" /\ code[2].w = w
      /\ code[3].op = "adc" /\ code[3].d = "si" /\ code[3].s = "imm" /\ code[3].w = w /\ code[3].n = 0
      /\ code[4].op = "loop" /\ code[4].w = Word /\ code[4].n = 2
  BY <1>2, RepeatedSumCode
<1>4. ip \in 1..4 /\ ip <= Len(code)
  BY <1>1, <1>3, Dispatch
<1>5. name' = name /\ w' = w /\ Old' = Old /\ a' = a /\ n' = n /\ P' = P
  BY DEF Old
<1>6. /\ P \in Nat \ {0} /\ 0 \in Nums(w) /\ Nums(w) = 0..P - 1
      /\ a \in 0..P - 1 /\ n \in 0..P - 1 /\ k \in 0..P - 1 /\ d \in 0..P - 1 /\ s \in 0..P - 1
  BY <1>1, <1>2, WidthFits, WidthIs DEF Nums
<1> DEFINE kk == regs'["cx"]
           dd == regs'["dx"]
           ss == regs'["si"]
           ff == flags'.cf
<1> HIDE DEF a, n, w, P, f
<1>7. SUFFICES /\ ip' \in 1..5 /\ trap' = trap /\ code' = code /\ DOMAIN regs' = Regs
               /\ DOMAIN flags' = FlagNames /\ ff \in {0, 1}
               /\ regs'["ax"] = a
               /\ kk \in Nums(w) /\ dd \in Nums(w) /\ ss \in Nums(w) /\ kk <= n
               /\ ip' # 1
               /\ ip' \in 2..4 => kk # 0
               /\ ip' = 2 => SumIs(P, ss, dd, a, n - kk)
               /\ ip' = 3 => ss + ff < P /\ SumIs(P, ss + ff, dd, a, n - kk + 1)
               /\ ip' = 4 => SumIs(P, ss, dd, a, n - kk + 1)
               /\ ip' = 5 => SumIs(P, ss, dd, a, n)
  <2>1. Looping(5)'
    BY <1>1, <1>5, <1>7 DEF Looping, Going, w
  <2>2. RepeatedSumBy'
    BY <1>2, <1>5, <1>7 DEF RepeatedSumBy, w, a, n, P
  <2> QED BY <2>1, <2>2 DEF RepeatedSumInv
<1>8. CASE ip = 1
  <2>1. I.op = "jcxz" /\ I.n = 5
    BY <1>3, <1>8 DEF I
  <2>2. /\ code' = code /\ trap' = trap /\ regs' = regs /\ flags' = flags
        /\ ip' = IF k = 0 THEN 5 ELSE 2
    BY <1>8, <2>1, CountJumps
  <2>3. kk = k /\ dd = 0 /\ ss = 0 /\ ff = f /\ n - kk = 0 /\ k = n
    BY <1>2, <1>6, <1>8, <2>2 DEF f
  <2>4. SumIs(P, ss, dd, a, n - kk) /\ (k = 0 => SumIs(P, ss, dd, a, n))
    <3>1. SumIs(P, 0, 0, a, 0)
      BY <1>6, SumOfNone
    <3> HIDE DEF k, kk, ss, dd
    <3> QED BY <2>3, <3>1
  <2> QED BY <1>1, <1>2, <1>8, <2>2, <2>3, <2>4
<1>9. CASE ip = 2
  <2>1. Does("add", "dx", d, a, w)
    BY <1>1, <1>2, <1>3, <1>4, <1>9 DEF Does, I, Dst, Src, Regs, f
  <2>2. PICK v \in Nums(w), c \in {0, 1} :
          Sets("dx", v) /\ flags'.cf = c /\ d + a = v + (IF c = 1 THEN 2^w ELSE 0)
    BY <2>1, PlusSets
  <2>3. kk = k /\ dd = v /\ ss = s /\ ff = c /\ ip' = 3 /\ regs'["ax"] = a
    BY <1>2, <1>9, <2>2 DEF Sets, Regs
  <2>4. ss + ff < P /\ SumIs(P, ss + ff, dd, a, n - kk + 1)
    <3> HIDE DEF k, d, s, kk, dd, ss, ff
    <3> DEFINE m == n - k
    <3>1. m \in Nat /\ m + 1 < P /\ SumIs(P, s, d, a, m) /\ v \in 0..P - 1
      BY <1>2, <1>6, <1>9, <2>2
    <3>2. d + a = v + (IF c = 1 THEN P ELSE 0)
      BY <2>2 DEF P
    <3> HIDE DEF m
    <3>3. s + c < P /\ SumIs(P, s + c, v, a, m + 1)
      BY <1>6, <2>2, <3>1, <3>2, SumOfOneMore
    <3> QED BY <2>3, <3>3 DEF m
  <2> QED BY <1>2, <1>9, <2>2, <2>3, <2>4 DEF Sets
<1>10. CASE ip = 3
  <2>1. Does("adc", "si", s, 0, w)
    BY <1>1, <1>2, <1>3, <1>4, <1>6, <1>10 DEF Does, I, Dst, Src, Regs, f
  <2>2. PICK v \in Nums(w), c \in {0, 1} :
          Sets("si", v) /\ flags'.cf = c /\ s + 0 + f = v + (IF c = 1 THEN 2^w ELSE 0)
    BY <2>1, PlusCarrySets DEF f
  <2>3. kk = k /\ dd = d /\ ss = v /\ ip' = 4 /\ regs'["ax"] = a
    BY <1>2, <1>10, <2>2 DEF Sets, Regs
  <2>4. v = s + f
    BY <1>1, <1>2, <1>6, <1>10, <2>2 DEF P
  <2> QED BY <1>2, <1>10, <2>2, <2>3, <2>4 DEF Sets
<1>11. CASE ip = 4
  <2>1. I.op = "loop" /\ I.w = w /\ I.n = 2
    BY <1>1, <1>3, <1>11 DEF I
  <2>2. k # 0
    BY <1>2, <1>11
  <2>3. /\ code' = code /\ trap' = trap /\ flags' = flags /\ DOMAIN regs' = Regs
        /\ regs'["cx"] = k - 1 /\ \A r \in Regs \ {"cx"} : regs'[r] = regs[r]
        /\ ip' = IF k # 1 THEN 2 ELSE ip + 1
    BY <1>1, <1>2, <2>1, <2>2, LoopJumps
  <2>4. kk = k - 1 /\ dd = d /\ ss = s /\ ff = f /\ regs'["ax"] = a /\ ip' = IF k # 1 THEN 2 ELSE 5
    BY <1>2, <1>11, <2>3 DEF Regs, f
  <2> HIDE DEF k, d, s, kk, dd, ss, ff
  <2>5. kk \in Nums(w) /\ kk <= n /\ n - kk = n - k + 1 /\ (k = 1 => n - k + 1 = n) /\ (k # 1 => kk # 0)
    BY <1>2, <1>6, <2>2, <2>4
  <2>6. SumIs(P, ss, dd, a, n - kk) /\ (k = 1 => SumIs(P, ss, dd, a, n))
    BY <1>2, <1>11, <2>4, <2>5
  <2> QED BY <1>1, <1>2, <2>3, <2>4, <2>5, <2>6
<1> QED BY <1>4, <1>8, <1>9, <1>10, <1>11

\* Repeated addition, in the end.
LEMMA RepeatedSumEnds ==
  ASSUME RepeatedSumInv, Ended({"repeated_sum"})
  PROVE  Two(regs["si"], regs["dx"]) = Old["ax"] * Old["cx"]
<1>1. name = "repeated_sum" /\ ip > Len(code) /\ Looping(5) /\ RepeatedSumBy
  BY DEF Ended, Finished, RepeatedSumInv
<1>2. ip = 5
  <2>1. Len(code) = 4
    BY <1>1, RepeatedSumCode DEF RepeatedSumBy
  <2> QED BY <1>1, <2>1 DEF Looping, Going
<1> QED BY <1>1, <1>2 DEF RepeatedSumBy, SumIs, Two

\* What is left to be added, x for every unit of y, makes d the product g, up to
\* the bits that are lost.
Owed(P, d, x, y, g) == \E m \in Int : d + x * y + m * P = g

\* The product itself is owed at first; what is left of it at the end is d.
LEMMA OwedAtFirst ==
  ASSUME NEW P \in Nat, NEW x \in Int, NEW y \in Int
  PROVE  Owed(P, 0, x, y, x * y)
<1>1. 0 + x * y + 0 * P = x * y
  OBVIOUS
<1> QED BY <1>1 DEF Owed

\* With nothing left to add.
LEMMA OwedAtLast ==
  ASSUME NEW P \in Nat \ {0}, NEW d \in 0..P - 1, NEW x \in Int, NEW g, Owed(P, d, x, 0, g)
  PROVE  d = g % P
<1>1. PICK m \in Int : d + x * 0 + m * P = g
  BY DEF Owed
<1>2. g = P * m + d
  <2>1. x * 0 = 0 /\ m * P = P * m /\ P * m \in Int
    OBVIOUS
  <2> QED BY <1>1, <2>1
<1>3. g \div P = m /\ g % P = d
  BY <1>2, DivisionUnique
<1> QED BY <1>3

\* An addition for the lowest bit of y.
LEMMA OwedOnce ==
  ASSUME NEW P \in Nat, NEW d \in Int, NEW x \in Int, NEW y \in Int, NEW g, Owed(P, d, x, y, g),
         NEW v \in Int, NEW c \in {0, 1}, d + x = v + (IF c = 1 THEN P ELSE 0)
  PROVE  Owed(P, v, x, y - 1, g)
<1>1. PICK m \in Int : d + x * y + m * P = g
  BY DEF Owed
<1> DEFINE i == m + c
<1>2. i * P = m * P + (IF c = 1 THEN P ELSE 0)
  BY Distribute
<1>3. x * (y - 1) = x * y - x /\ x * y \in Int /\ m * P \in Int /\ i \in Int
  OBVIOUS
<1> HIDE DEF i
<1>4. v + x * (y - 1) + i * P = g
  BY <1>1, <1>2, <1>3
<1> QED BY <1>3, <1>4 DEF Owed

\* Doubling x for half of y.
LEMMA OwedDouble ==
  ASSUME NEW P \in Nat, NEW d \in Int, NEW x \in Int, NEW h \in Int, NEW g, Owed(P, d, x, 2 * h, g),
         NEW v \in Int, v = 2 * x \/ v = 2 * x - P
  PROVE  Owed(P, d, v, h, g)
<1>1. PICK m \in Int : d + x * (2 * h) + m * P = g
  BY DEF Owed
<1>2. CASE v = 2 * x
  <2>1. v * h = x * (2 * h)
    BY <1>2
  <2>2. d + v * h + m * P = g
    BY <1>1, <2>1
  <2> QED BY <2>2 DEF Owed
<1>3. CASE v = 2 * x - P
  <2> DEFINE i == m + h
  <2>1. v * h = x * (2 * h) - P * h
    BY <1>3
  <2>2. i * P = m * P + P * h
    OBVIOUS
  <2>3. x * (2 * h) \in Int /\ P * h \in Int /\ m * P \in Int /\ i \in Int
    OBVIOUS
  <2> HIDE DEF i
  <2>4. d + v * h + i * P = g
    BY <1>1, <2>1, <2>2, <2>3
  <2> QED BY <2>3, <2>4 DEF Owed
<1> QED BY <1>2, <1>3

ShiftAndAddBy ==
  LET x == regs["ax"]
      y == regs["bx"]
      d == regs["dx"]
      g == Old["ax"] * Old["bx"]
      w == width
      P == 2^w
  IN  /\ code = ShiftAndAdd(w) /\ {x, y, d} \subseteq Nums(w)
      /\ ip \in {1, 2, 3, 6, 7} => Owed(P, d, x, y, g)
      /\ ip = 4 => Owed(P, d, x, 2 * (y \div 2), g)
      /\ ip = 5 => Owed(P, d, x, y \div 2, g)
      /\ ip = 2 => flags.zf = Flag(y % 2 = 0)
      /\ ip = 3 => y % 2 = 1
      /\ ip = 6 => flags.zf = Flag(y = 0)
      /\ ip = 7 => y = 0

ShiftAndAddInv == name = "shift_and_add" => Looping(7) /\ ShiftAndAddBy

\* The instructions of the routine.
LEMMA ShiftAndAddCode ==
  ASSUME NEW w, NEW p, p = ShiftAndAdd(w)
  PROVE  /\ Len(p) = 6
         /\ p[1].op = "test" /\ p[1].d = "bx" /\ p[1].s = "imm" /\ p[1].w = w /\ p[1].n = 1
         /\ p[2].op = "j" /\ p[2].s = "e" /\ p[2].n = 4
         /\ p[3].op = "add" /\ p[3].d = "dx" /\ p[3].s = "ax" /\ p[3].w = w
         /\ p[4].op = "shl" /\ p[4].d = "ax" /\ p[4].s = "imm" /\ p[4].w = w /\ p[4].n = 1
         /\ p[5].op = "shr" /\ p[5].d = "bx" /\ p[5].s = "imm" /\ p[5].w = w /\ p[5].n = 1
         /\ p[6].op = "jn" /\ p[6].s = "e" /\ p[6].n = 1
BY DEF ShiftAndAdd, RI, RR, To

\* Shifting and adding, step by step.
LEMMA ShiftAndAddStep ==
  ASSUME ShiftAndAddInv, Next, UNCHANGED <<name, width, start>>
  PROVE  ShiftAndAddInv'
<1> SUFFICES ASSUME name = "shift_and_add" PROVE ShiftAndAddInv'
  BY DEF ShiftAndAddInv
<1> DEFINE x == regs["ax"]
           y == regs["bx"]
           d == regs["dx"]
           g == Old["ax"] * Old["bx"]
           w == width
           P == 2^w
           h == y \div 2
<1>1. /\ w \in 2..Host /\ trap = "none" /\ ip \in 1..7 /\ w = Word
      /\ DOMAIN regs = Regs /\ DOMAIN flags = FlagNames /\ flags.cf \in {0, 1}
      /\ \A r \in Regs : Old[r] \in Nums(w)
  BY DEF ShiftAndAddInv, Looping, Going, Regs
<1>2. /\ code = ShiftAndAdd(w) /\ x \in Nums(w) /\ y \in Nums(w) /\ d \in Nums(w)
      /\ ip \in {1, 2, 3, 6, 7} => Owed(P, d, x, y, g)
      /\ ip = 4 => Owed(P, d, x, 2 * h, g)
      /\ ip = 5 => Owed(P, d, x, h, g)
      /\ ip = 2 => flags.zf = Flag(y % 2 = 0)
      /\ ip = 3 => y % 2 = 1
      /\ ip = 6 => flags.zf = Flag(y = 0)
  BY DEF ShiftAndAddInv, ShiftAndAddBy
<1>3. /\ Len(code) = 6
      /\ code[1].op = "test" /\ code[1].d = "bx" /\ code[1].s = "imm" /\ code[1].w = w /\ code[1].n = 1
      /\ code[2].op = "j" /\ code[2].s = "e" /\ code[2].n = 4
      /\ code[3].op = "add" /\ code[3].d = "dx" /\ code[3].s = "ax" /\ code[3].w = w
      /\ code[4].op = "shl" /\ code[4].d = "ax" /\ code[4].s = "imm" /\ code[4].w = w /\ code[4].n = 1
      /\ code[5].op = "shr" /\ code[5].d = "bx" /\ code[5].s = "imm" /\ code[5].w = w /\ code[5].n = 1
      /\ code[6].op = "jn" /\ code[6].s = "e" /\ code[6].n = 1
  BY <1>2, ShiftAndAddCode
<1>4. ip \in 1..6 /\ ip <= Len(code)
  BY <1>1, <1>3, Dispatch
<1>5. name' = name /\ w' = w /\ Old' = Old /\ g' = g /\ P' = P
  BY DEF Old
<1>6. /\ P \in Nat \ {0} /\ 1 \in Nums(w) /\ Nums(w) = 0..P - 1 /\ P = 2 * Top(w) /\ Top(w) \in Nat
      /\ x \in 0..P - 1 /\ y \in 0..P - 1 /\ d \in 0..P - 1
      /\ h \in Int /\ y = 2 * h + (y % 2) /\ y % 2 \in {0, 1} /\ h \in Nums(w)
  <2>1. /\ P \in Nat \ {0} /\ 1 \in Nums(w) /\ Nums(w) = 0..P - 1 /\ P = 2 * Top(w) /\ Top(w) \in Nat
    BY <1>1, WidthFits, WidthIs DEF Nums
  <2>2. x \in 0..P - 1 /\ y \in 0..P - 1 /\ d \in 0..P - 1
    BY <1>2, <2>1
  <2> HIDE DEF y, P
  <2>3. h \in Int /\ y = 2 * h + (y % 2) /\ y % 2 \in {0, 1} /\ h \in 0..P - 1
    BY <2>1, <2>2
  <2> QED BY <2>1, <2>2, <2>3
<1> DEFINE xx == regs'["ax"]
           yy == regs'["bx"]
           dd == regs'["dx"]
<1> HIDE DEF g, w, P, h
<1>7. SUFFICES /\ ip' \in 1..7 /\ trap' = trap /\ code' = code /\ DOMAIN regs' = Regs
               /\ DOMAIN flags' = FlagNames /\ flags'.cf \in {0, 1}
               /\ xx \in Nums(w) /\ yy \in Nums(w) /\ dd \in Nums(w)
               /\ ip' \in {1, 2, 3, 6, 7} => Owed(P, dd, xx, yy, g)
               /\ ip' = 4 => Owed(P, dd, xx, 2 * (yy \div 2), g)
               /\ ip' = 5 => Owed(P, dd, xx, yy \div 2, g)
               /\ ip' = 2 => flags'.zf = Flag(yy % 2 = 0)
               /\ ip' = 3 => yy % 2 = 1
               /\ ip' = 6 => flags'.zf = Flag(yy = 0)
               /\ ip' = 7 => yy = 0
  <2>1. Looping(7)'
    BY <1>1, <1>5, <1>7 DEF Looping, Going, w
  <2>2. ShiftAndAddBy'
    BY <1>2, <1>5, <1>7 DEF ShiftAndAddBy, w, g, P
  <2> QED BY <2>1, <2>2 DEF ShiftAndAddInv
<1>8. CASE ip = 1
  <2>1. Does("test", "bx", y, 1, w)
    BY <1>1, <1>2, <1>3, <1>4, <1>6, <1>8 DEF Does, I, Dst, Src, Regs
  <2>2. Reads /\ flags'.zf = Flag(y % 2 = 0)
    BY <2>1, TestReads
  <2>3. xx = x /\ yy = y /\ dd = d /\ ip' = 2
    BY <1>8, <2>2 DEF Reads
  <2> QED BY <1>1, <1>2, <1>8, <2>2, <2>3 DEF Reads
<1>9. CASE ip = 2
  <2>1. I.op = "j" /\ I.s = "e" /\ I.n = 4
    BY <1>3, <1>9 DEF I
  <2>2. /\ code' = code /\ trap' = trap /\ regs' = regs /\ flags' = flags
        /\ ip' = IF flags.zf = 1 THEN 4 ELSE 3
    BY <1>9, <2>1, CondJumps
  <2>3. xx = x /\ yy = y /\ dd = d /\ ip' = (IF y % 2 = 0 THEN 4 ELSE 3)
    BY <1>2, <1>9, <2>2 DEF Flag
  <2> HIDE DEF x, y, d
  <2>4. y % 2 = 0 => Owed(P, dd, xx, 2 * h, g)
    <3>1. y % 2 = 0 => y = 2 * h
      BY <1>6
    <3> QED BY <1>2, <1>9, <2>3, <3>1
  <2> QED BY <1>1, <1>2, <1>6, <1>9, <2>2, <2>3, <2>4 DEF h
<1>10. CASE ip = 3
  <2>1. Does("add", "dx", d, x, w)
    BY <1>1, <1>2, <1>3, <1>4, <1>10 DEF Does, I, Dst, Src, Regs
  <2>2. PICK v \in Nums(w), c \in {0, 1} :
          Sets("dx", v) /\ flags'.cf = c /\ d + x = v + (IF c = 1 THEN 2^w ELSE 0)
    BY <2>1, PlusSets
  <2>3. xx = x /\ yy = y /\ dd = v /\ ip' = 4
    BY <1>10, <2>2 DEF Sets, Regs
  <2> HIDE DEF x, y, d
  <2>4. Owed(P, v, x, y - 1, g)
    <3>1. d + x = v + (IF c = 1 THEN P ELSE 0)
      BY <2>2 DEF P
    <3>2. P \in Nat /\ d \in Int /\ x \in Int /\ y \in Int /\ v \in Int /\ Owed(P, d, x, y, g)
      BY <1>2, <1>6, <1>10, <2>2
    <3> QED BY <3>1, <3>2, OwedOnce
  <2>5. y - 1 = 2 * h
    BY <1>2, <1>6, <1>10
  <2>6. Owed(P, dd, xx, 2 * (yy \div 2), g)
    BY <2>3, <2>4, <2>5 DEF h
  <2> QED BY <1>2, <2>2, <2>3, <2>6 DEF Sets
<1>11. CASE ip = 4
  <2>1. Does("shl", "ax", x, 1, w) /\ I.s = "imm"
    BY <1>1, <1>2, <1>3, <1>4, <1>6, <1>11 DEF Does, I, Dst, Src, Regs
  <2> DEFINE l == IF x >= Top(w) THEN 2 * (x - Top(w)) ELSE 2 * x
  <2>2. Sets("ax", l)
    BY <2>1, OneTurnSets
  <2>3. xx = l /\ yy = y /\ dd = d /\ ip' = 5
    BY <1>11, <2>2 DEF Sets, Regs
  <2> HIDE DEF x, y, d
  <2>4. l \in Nums(w) /\ (l = 2 * x \/ l = 2 * x - P)
    <3> DEFINE T == Top(w)
    <3> HIDE DEF T
    <3>1. x \in 0..P - 1 /\ P = 2 * T /\ T \in Nat /\ l = (IF x >= T THEN 2 * (x - T) ELSE 2 * x)
      BY <1>6 DEF T
    <3> HIDE DEF l
    <3> QED BY <1>6, <3>1
  <2> HIDE DEF l
  <2>5. Owed(P, d, l, h, g)
    BY <1>2, <1>6, <1>11, <2>4, OwedDouble
  <2> QED BY <1>2, <2>2, <2>3, <2>4, <2>5 DEF Sets, h
<1>12. CASE ip = 5
  <2>1. Does("shr", "bx", y, 1, w) /\ I.s = "imm"
    BY <1>1, <1>2, <1>3, <1>4, <1>6, <1>12 DEF Does, I, Dst, Src, Regs
  <2>2. Sets("bx", h) /\ flags'.zf = Flag(h = 0)
    BY <2>1, OneTurnSets DEF h
  <2>3. xx = x /\ yy = h /\ dd = d /\ ip' = 6
    BY <1>12, <2>2 DEF Sets, Regs
  <2> QED BY <1>2, <1>6, <1>12, <2>2, <2>3 DEF Sets
<1>13. CASE ip = 6
  <2>1. I.op = "jn" /\ I.s = "e" /\ I.n = 1
    BY <1>3, <1>13 DEF I
  <2>2. /\ code' = code /\ trap' = trap /\ regs' = regs /\ flags' = flags
        /\ ip' = IF flags.zf = 1 THEN 7 ELSE 1
    BY <1>13, <2>1, CondJumps
  <2>3. xx = x /\ yy = y /\ dd = d /\ ip' = (IF y = 0 THEN 7 ELSE 1)
    BY <1>2, <1>13, <2>2 DEF Flag
  <2> QED BY <1>1, <1>2, <1>13, <2>2, <2>3
<1> QED BY <1>4, <1>8, <1>9, <1>10, <1>11, <1>12, <1>13

\* Shifting and adding, in the end.
LEMMA ShiftAndAddEnds ==
  ASSUME ShiftAndAddInv, Ended({"shift_and_add"})
  PROVE  regs["dx"] = (Old["ax"] * Old["bx"]) % 2^width
<1> DEFINE x == regs["ax"]
           d == regs["dx"]
           g == Old["ax"] * Old["bx"]
           P == 2^width
<1>1. name = "shift_and_add" /\ ip > Len(code) /\ Looping(7) /\ ShiftAndAddBy
  BY DEF Ended, Finished, ShiftAndAddInv
<1>2. ip = 7 /\ width \in 2..Host
  <2>1. Len(code) = 6
    BY <1>1, ShiftAndAddCode DEF ShiftAndAddBy
  <2> QED BY <1>1, <2>1 DEF Looping, Going
<1>3. P \in Nat \ {0} /\ Nums(width) = 0..P - 1
  BY <1>2, WidthIs DEF Nums
<1>4. Owed(P, d, x, 0, g) /\ d \in 0..P - 1 /\ x \in 0..P - 1
  BY <1>1, <1>2, <1>3 DEF ShiftAndAddBy
<1> HIDE DEF x, d, g, P
<1>5. d = g % P
  BY <1>3, <1>4, OwedAtLast
<1> QED BY <1>5 DEF d, g, P

\* x is a after k turns that met no one; a has its highest one at the k-th turn.
Unmet(w, a, x, k) == k \in 0..w /\ x = a * 2^k /\ a < 2^(w - k) /\ x % 2 = 0
Met(w, a, x, k) == k \in 1..w /\ a \in 2^(w - k)..2^(w - k + 1) - 1 /\ x % 2 = 1
Turned(w, a, x, k) == Unmet(w, a, x, k) \/ Met(w, a, x, k)

\* One more turn.
LEMMA TurnOnce ==
  ASSUME NEW w \in 2..Host, NEW a \in Nums(w), NEW x \in Nums(w), NEW k \in 0..w - 1,
         x = a * 2^k, a < 2^(w - k),
         NEW v, v = IF x >= Top(w) THEN 2 * (x - Top(w)) + 1 ELSE 2 * x
  PROVE  Turned(w, a, v, k + 1) /\ v \in Nums(w)
<1> DEFINE Q == 2^k
           H == 2^(w - (k + 1))
           T == Top(w)
           P == 2^w
<1>1. k + 1 \in 1..w /\ k \in 0..Host /\ w - (k + 1) \in 0..Host /\ w - k = w - (k + 1) + 1 /\ k + 1 \in 0..w
  BY HostAssumption
<1>2. /\ Q \in Nat \ {0} /\ H \in Nat \ {0} /\ 2^(k + 1) = 2 * Q /\ 2^(w - (k + 1) + 1) = 2 * H
  <2> DEFINE i == w - (k + 1)
  <2>1. i \in 0..Host
    BY <1>1
  <2> HIDE DEF i
  <2>2. 2^(i + 1) = 2 * 2^i /\ 2^i \in Nat \ {0}
    BY <2>1, OneMoreBit
  <2>3. 2^(k + 1) = 2 * 2^k /\ 2^k \in Nat \ {0}
    BY <1>1, OneMoreBit
  <2> QED BY <2>2, <2>3 DEF i
<1>3. P = (2 * Q) * H /\ P = 2 * T /\ T \in Nat /\ a \in Nat /\ x \in 0..P - 1
  <2>1. 2^w = 2^(k + 1) * 2^(w - (k + 1))
    BY <1>1, ScalePowers
  <2> QED BY <1>2, <2>1, WidthIs DEF Nums
<1>4. x = a * Q /\ a < 2 * H
  BY <1>1, <1>2
<1>5. v = (IF x >= T THEN 2 * (x - T) + 1 ELSE 2 * x)
  OBVIOUS
<1>6. Turned(w, a, v, k + 1) = \/ v = a * (2 * Q) /\ a < H /\ v % 2 = 0
                               \/ a \in H..(2 * H) - 1 /\ v % 2 = 1
  BY <1>1, <1>2 DEF Turned, Unmet, Met
<1> HIDE DEF Q, H, T, P
<1>7. T = H * Q
  <2> DEFINE G == H * Q
  <2>1. (2 * Q) * H = 2 * (Q * H)
    BY <1>2
  <2>2. Q * H = G /\ G \in Nat
    BY <1>2
  <2> HIDE DEF G
  <2>3. 2 * T = 2 * G
    BY <1>3, <2>1, <2>2
  <2>4. T = G
    BY <1>3, <2>2, <2>3
  <2> QED BY <2>4 DEF G
<1>8. CASE a < H
  <2>1. a + 1 <= H
    BY <1>2, <1>3, <1>8
  <2>2. (a + 1) * Q <= H * Q
    BY <1>2, <1>3, <2>1
  <2>3. (a + 1) * Q = a * Q + Q
    BY <1>2, <1>3
  <2>4. x < T
    BY <1>2, <1>3, <1>4, <1>7, <2>2, <2>3
  <2>5. v = 2 * x /\ v \in 0..P - 1
    BY <1>3, <1>5, <2>4
  <2>6. a * (2 * Q) = 2 * (a * Q)
    BY <1>2, <1>3
  <2>7. v % 2 = 0
    BY <1>3, <2>5
  <2> QED BY <1>4, <1>6, <1>8, <2>5, <2>6, <2>7 DEF Nums, P
<1>9. CASE ~(a < H)
  <2>1. a * Q >= H * Q
    BY <1>2, <1>3, <1>9
  <2>2. x >= T
    BY <1>4, <1>7, <2>1
  <2>3. v = 2 * (x - T) + 1 /\ v \in 0..P - 1 /\ v % 2 = 1
    BY <1>3, <1>5, <2>2
  <2>4. a \in H..(2 * H) - 1
    BY <1>2, <1>3, <1>4, <1>9
  <2> QED BY <1>6, <2>3, <2>4 DEF Nums, P
<1> QED BY <1>8, <1>9

LeadingOneBy ==
  LET a == Old["ax"]
      x == regs["ax"]
      k == regs["dx"]
      n == regs["cx"]
      w == width
  IN  /\ code = LeadingOne(w) /\ {x, k, n} \subseteq Nums(w)
      /\ k + n = IF ip \in {3, 4} THEN w + 1 ELSE w
      /\ ip = 1 => k < w /\ x = a * 2^k /\ a < 2^(w - k)
      /\ ip = 2 => k < w /\ Turned(w, a, x, k + 1)
      /\ ip \in 3..5 => Turned(w, a, x, k) /\ k <= w
      /\ ip = 4 => flags.zf = Flag(x % 2 = 0)
      /\ ip = 5 => k = w \/ x % 2 = 1

LeadingOneInv == name = "leading_one" => Looping(5) /\ LeadingOneBy

\* The instructions of the routine.
LEMMA LeadingOneCode ==
  ASSUME NEW w, NEW p, p = LeadingOne(w)
  PROVE  /\ Len(p) = 4
         /\ p[1].op = "rol" /\ p[1].d = "ax" /\ p[1].s = "imm" /\ p[1].w = w /\ p[1].n = 1
         /\ p[2].op = "inc" /\ p[2].d = "dx" /\ p[2].s = "imm" /\ p[2].w = w /\ p[2].n = 1
         /\ p[3].op = "test" /\ p[3].d = "ax" /\ p[3].s = "imm" /\ p[3].w = w /\ p[3].n = 1
         /\ p[4].op = "loope" /\ p[4].w = Word /\ p[4].n = 1
BY DEF LeadingOne, RI, To

\* The search for the highest one, step by step.
LEMMA LeadingOneStep ==
  ASSUME LeadingOneInv, Next, UNCHANGED <<name, width, start>>
  PROVE  LeadingOneInv'
<1> SUFFICES ASSUME name = "leading_one" PROVE LeadingOneInv'
  BY DEF LeadingOneInv
<1> DEFINE a == Old["ax"]
           x == regs["ax"]
           k == regs["dx"]
           n == regs["cx"]
           w == width
<1>1. /\ w \in 2..Host /\ a \in Nums(w) /\ trap = "none" /\ ip \in 1..5 /\ w = Word
      /\ DOMAIN regs = Regs /\ DOMAIN flags = FlagNames /\ flags.cf \in {0, 1}
      /\ \A r \in Regs : Old[r] \in Nums(w)
  BY DEF LeadingOneInv, Looping, Going, Regs
<1>2. /\ code = LeadingOne(w) /\ x \in Nums(w) /\ k \in Nums(w) /\ n \in Nums(w)
      /\ k + n = (IF ip \in {3, 4} THEN w + 1 ELSE w)
      /\ ip = 1 => k < w /\ x = a * 2^k /\ a < 2^(w - k)
      /\ ip = 2 => k < w /\ Turned(w, a, x, k + 1)
      /\ ip \in 3..5 => Turned(w, a, x, k) /\ k <= w
      /\ ip = 4 => flags.zf = Flag(x % 2 = 0)
  BY DEF LeadingOneInv, LeadingOneBy
<1>3. /\ Len(code) = 4
      /\ code[1].op = "rol" /\ code[1].d = "ax" /\ code[1].s = "imm" /\ code[1].w = w /\ code[1].n = 1
      /\ code[2].op = "inc" /\ code[2].d = "dx" /\ code[2].s = "imm" /\ code[2].w = w /\ code[2].n = 1
      /\ code[3].op = "test" /\ code[3].d = "ax" /\ code[3].s = "imm" /\ code[3].w = w /\ code[3].n = 1
      /\ code[4].op = "loope" /\ code[4].w = Word /\ code[4].n = 1
  BY <1>2, LeadingOneCode
<1>4. ip \in 1..4 /\ ip <= Len(code)
  BY <1>1, <1>3, Dispatch
<1>5. name' = name /\ w' = w /\ Old' = Old /\ a' = a
  BY DEF Old
<1>6. /\ 2^w \in Nat \ {0} /\ 1 \in Nums(w) /\ Nums(w) = 0..2^w - 1 /\ w < 2^w
      /\ x \in 0..2^w - 1 /\ k \in 0..2^w - 1 /\ n \in 0..2^w - 1 /\ w \in Nat
  BY <1>1, <1>2, WidthFits, WidthIs, HostAssumption DEF Nums
<1> DEFINE xx == regs'["ax"]
           kk == regs'["dx"]
           nn == regs'["cx"]
<1> HIDE DEF a, w
<1>7. SUFFICES /\ ip' \in 1..5 /\ trap' = trap /\ code' = code /\ DOMAIN regs' = Regs
               /\ DOMAIN flags' = FlagNames /\ flags'.cf \in {0, 1}
               /\ xx \in Nums(w) /\ kk \in Nums(w) /\ nn \in Nums(w)
               /\ kk + nn = (IF ip' \in {3, 4} THEN w + 1 ELSE w)
               /\ ip' = 1 => kk < w /\ xx = a * 2^kk /\ a < 2^(w - kk)
               /\ ip' = 2 => kk < w /\ Turned(w, a, xx, kk + 1)
               /\ ip' \in 3..5 => Turned(w, a, xx, kk) /\ kk <= w
               /\ ip' = 4 => flags'.zf = Flag(xx % 2 = 0)
               /\ ip' = 5 => kk = w \/ xx % 2 = 1
  <2>1. Looping(5)'
    BY <1>1, <1>5, <1>7 DEF Looping, Going, w
  <2>2. LeadingOneBy'
    BY <1>2, <1>5, <1>7 DEF LeadingOneBy, w, a
  <2> QED BY <2>1, <2>2 DEF LeadingOneInv
<1>8. CASE ip = 1
  <2>1. Does("rol", "ax", x, 1, w) /\ I.s = "imm"
    BY <1>1, <1>2, <1>3, <1>4, <1>6, <1>8 DEF Does, I, Dst, Src, Regs
  <2> DEFINE l == IF x >= Top(w) THEN 2 * (x - Top(w)) ELSE 2 * x
             v == IF x >= Top(w) THEN 2 * (x - Top(w)) + 1 ELSE 2 * x
  <2>2. Sets("ax", v)
    <3>1. Sets("ax", IF x >= Top(w) THEN l + 1 ELSE l)
      BY <2>1, OneTurnSets
    <3>2. (IF x >= Top(w) THEN l + 1 ELSE l) = v
      OBVIOUS
    <3> QED BY <3>1, <3>2
  <2>3. xx = v /\ kk = k /\ nn = n /\ ip' = 2
    BY <1>8, <2>2 DEF Sets, Regs
  <2>4. Turned(w, a, v, k + 1) /\ v \in Nums(w)
    <3>1. k \in 0..w - 1
      BY <1>2, <1>6, <1>8
    <3> HIDE DEF x, k
    <3> QED BY <1>1, <1>2, <1>8, <3>1, TurnOnce
  <2> HIDE DEF v
  <2> QED BY <1>2, <1>8, <2>2, <2>3, <2>4 DEF Sets
<1>9. CASE ip = 2
  <2>1. Does("inc", "dx", k, 1, w)
    BY <1>1, <1>2, <1>3, <1>4, <1>6, <1>9 DEF Does, I, Dst, Src, Regs
  <2>2. k + 1 < 2^w
    BY <1>2, <1>6, <1>9
  <2> HIDE DEF x, k, n
  <2>3. Sets("dx", k + 1)
    BY <2>1, <2>2, IncSets
  <2>4. kk = k + 1 /\ nn = n /\ xx = x /\ ip' = 3
    BY <1>9, <2>3 DEF Sets, Regs, x, n
  <2>5. kk \in Nums(w) /\ kk <= w /\ kk + nn = w + 1
    BY <1>2, <1>6, <1>9, <2>2, <2>4
  <2> QED BY <1>2, <1>9, <2>3, <2>4, <2>5 DEF Sets
<1>10. CASE ip = 3
  <2>1. Does("test", "ax", x, 1, w)
    BY <1>1, <1>2, <1>3, <1>4, <1>6, <1>10 DEF Does, I, Dst, Src, Regs
  <2>2. Reads /\ flags'.zf = Flag(x % 2 = 0)
    BY <2>1, TestReads
  <2>3. kk = k /\ nn = n /\ xx = x /\ ip' = 4
    BY <1>10, <2>2 DEF Reads
  <2> QED BY <1>1, <1>2, <1>10, <2>2, <2>3 DEF Reads
<1>11. CASE ip = 4
  <2>1. I.op = "loope" /\ I.w = w /\ I.n = 1
    BY <1>1, <1>3, <1>11 DEF I
  <2>2. n # 0 /\ flags.zf \in {0, 1} /\ (flags.zf = 1) = (x % 2 = 0) /\ k + n = w + 1 /\ k <= w
    BY <1>2, <1>6, <1>11 DEF Flag
  <2>3. /\ code' = code /\ trap' = trap /\ flags' = flags /\ DOMAIN regs' = Regs
        /\ regs'["cx"] = n - 1 /\ \A r \in Regs \ {"cx"} : regs'[r] = regs[r]
        /\ ip' = IF n # 1 /\ flags.zf = 1 THEN 1 ELSE ip + 1
    BY <1>1, <1>2, <2>1, <2>2, LoopJumps
  <2>4. kk = k /\ nn = n - 1 /\ xx = x /\ ip' = IF n # 1 /\ x % 2 = 0 THEN 1 ELSE 5
    BY <1>11, <2>2, <2>3 DEF Regs
  <2>5. Turned(w, a, x, k)
    BY <1>2, <1>11
  <2> HIDE DEF k, n, x, kk, nn, xx
  <2>6. nn \in Nums(w) /\ kk + nn = w
    BY <1>6, <2>2, <2>4
  <2>7. ip' = 1 => kk < w /\ xx = a * 2^kk /\ a < 2^(w - kk)
    <3> SUFFICES ASSUME ip' = 1 PROVE kk < w /\ xx = a * 2^kk /\ a < 2^(w - kk)
      OBVIOUS
    <3>1. n # 1 /\ x % 2 = 0
      BY <2>4
    <3>2. k < w
      BY <1>6, <2>2, <3>1
    <3>3. Unmet(w, a, x, k)
      BY <2>5, <3>1 DEF Turned, Met
    <3> QED BY <2>4, <3>2, <3>3 DEF Unmet
  <2>8. ip' = 5 => kk = w \/ xx % 2 = 1
    <3>1. x % 2 \in {0, 1}
      BY <1>6
    <3> QED BY <1>6, <2>2, <2>4, <3>1
  <2> QED BY <1>1, <1>2, <2>2, <2>3, <2>4, <2>5, <2>6, <2>7, <2>8
<1> QED BY <1>4, <1>8, <1>9, <1>10, <1>11

\* The search for the highest one, in the end.
LEMMA LeadingOneEnds ==
  ASSUME LeadingOneInv, Ended({"leading_one"}), NEW k, k = regs["dx"]
  PROVE  \/ Old["ax"] = 0 /\ k = width
         \/ Old["ax"] \in 2^(width - k)..2^(width - k + 1) - 1
<1> DEFINE a == Old["ax"]
           x == regs["ax"]
           w == width
<1>1. name = "leading_one" /\ ip > Len(code) /\ Looping(5) /\ LeadingOneBy
  BY DEF Ended, Finished, LeadingOneInv
<1>2. ip = 5 /\ w \in 2..Host /\ a \in Nums(w)
  <2>1. Len(code) = 4
    BY <1>1, LeadingOneCode DEF LeadingOneBy
  <2> QED BY <1>1, <2>1 DEF Looping, Going, Regs
<1>3. Turned(w, a, x, k) /\ (k = w \/ x % 2 = 1)
  BY <1>1, <1>2 DEF LeadingOneBy
<1>4. a \in Nat /\ w \in Int
  BY <1>2, WidthIs DEF Nums
<1> HIDE DEF a, x, w
<1>5. CASE Met(w, a, x, k)
  BY <1>5 DEF Met, a, w
<1>6. CASE Unmet(w, a, x, k)
  <2>1. k = w /\ a < 2^(w - k)
    BY <1>3, <1>6 DEF Unmet
  <2>2. w - k = 0 /\ 2^0 = 1
    BY <1>4, <2>1
  <2>3. a < 1
    BY <2>1, <2>2
  <2> QED BY <1>4, <2>1, <2>3 DEF a, w
<1> QED BY <1>3, <1>5, <1>6 DEF Turned

\* The division of a by b with c bits to go: a without these bits is q times b and
\* r; x holds them, and q below them.
Part(w, a, b, c, q, x, r) ==
  /\ c \in 0..w /\ q \in Nat /\ q < 2^(w - c)
  /\ a \div 2^c = q * b + r
  /\ x = (a % 2^c) * 2^(w - c) + q
Parted(w, a, b, c, x, r) == \E q \in Nat : Part(w, a, b, c, q, x, r)
EvenParted(w, a, b, c, x, r) == \E q \in Nat : Part(w, a, b, c, 2 * q, x, r)

\* Before the first bit.
LEMMA PartStart ==
  ASSUME NEW w \in 2..Host, NEW a \in Nums(w), NEW b \in Nat
  PROVE  Parted(w, a, b, w, a, 0)
<1> DEFINE P == 2^w
<1>1. P \in Nat \ {0} /\ a \in 0..P - 1 /\ w \in Nat
  BY WidthIs DEF Nums
<1>2. 2^(w - w) = 1
  <2>1. w - w = 0 /\ 2^0 = 1
    BY <1>1
  <2> QED BY <2>1
<1> HIDE DEF P
<1>3. a \div P = 0 /\ a % P = a
  <2> DEFINE q == 0
             z == a
  <2>1. a = P * q + z /\ q \in Int /\ z \in 0..P - 1 /\ a \in Int
    BY <1>1
  <2> HIDE DEF q, z
  <2>2. a \div P = q /\ a % P = z
    BY <1>1, <2>1, DivisionUnique
  <2> QED BY <2>2 DEF q, z
<1>4. 0 = 0 * b + 0 /\ a = a * 1 + 0 /\ w \in 0..w /\ 0 < 1
  BY <1>1
<1>5. Part(w, a, b, w, 0, a, 0)
  BY <1>2, <1>3, <1>4 DEF Part, P
<1> QED BY <1>5 DEF Parted

\* After the last bit.
LEMMA PartEnd ==
  ASSUME NEW w \in 2..Host, NEW a \in Nums(w), NEW b \in Nat, NEW x \in Nums(w), NEW r \in Nat,
         Parted(w, a, b, 0, x, r)
  PROVE  x * b + r = a
<1>1. PICK q \in Nat : Part(w, a, b, 0, q, x, r)
  BY DEF Parted
<1>2. a \div 2^0 = q * b + r /\ x = (a % 2^0) * 2^(w - 0) + q
  BY <1>1 DEF Part
<1>3. 2^0 = 1 /\ a \div 1 = a /\ a % 1 = 0
  BY WidthIs DEF Nums
<1>4. 2^(w - 0) \in Nat
  <2>1. w - 0 = w
    OBVIOUS
  <2> QED BY <2>1, WidthIs
<1>5. x = q
  BY <1>2, <1>3, <1>4
<1> QED BY <1>2, <1>3, <1>5

\* The next bit goes from x to the remainder.
LEMMA PartShift ==
  ASSUME NEW w \in 2..Host, NEW a \in Nums(w), NEW b \in Nat, NEW c \in 1..w,
         NEW x \in Nums(w), NEW r \in Nat, Parted(w, a, b, c, x, r),
         NEW l, l = (IF x >= Top(w) THEN 2 * (x - Top(w)) ELSE 2 * x)
  PROVE  EvenParted(w, a, b, c - 1, l, 2 * r + Flag(x >= Top(w)))
<1>1. PICK q \in Nat : Part(w, a, b, c, q, x, r)
  BY DEF Parted
<1> DEFINE j == c - 1
           Q == 2^j
           H == 2^(w - c)
           T == Top(w)
           K == 2^c
           z == a % Q
           t == IF BitOf(a, j) = 1 THEN 1 ELSE 0
           d == a \div K
           G == H * Q
<1>2. /\ j \in 0..Host /\ j + 1 = c /\ w - j = (w - c) + 1 /\ w - c \in 0..Host /\ c \in 0..w /\ j \in 0..w
      /\ a \in Int
  BY HostAssumption, WidthIs
<1>3. q < H /\ d = q * b + r /\ x = (a % K) * H + q
  BY <1>1 DEF Part
<1> HIDE DEF j
<1>4. /\ a % K = z + (IF t = 1 THEN Q ELSE 0) /\ z \in 0..Q - 1 /\ K = 2 * Q /\ Q \in Nat \ {0}
      /\ t \in {0, 1}
  BY <1>2, OneMoreBit
<1>5. H \in Nat \ {0} /\ 2^((w - c) + 1) = 2 * H
  <2> DEFINE i == w - c
  <2>1. i \in 0..Host
    BY <1>2
  <2> HIDE DEF i
  <2> QED BY <2>1, OneMoreBit DEF i
<1>6. 2 * T = K * H /\ T \in Nat
  <2>1. 2^w = 2^c * 2^(w - c)
    BY <1>2, ScalePowers
  <2> QED BY <2>1, WidthIs
<1>7. a = K * d + (a % K) /\ d \in Int
  <2>1. K \in Nat \ {0}
    BY <1>4
  <2> HIDE DEF K
  <2> QED BY <1>2, <2>1, Division
<1>8. Part(w, a, b, j, 2 * q, l, 2 * r + t) = /\ 2 * q < 2 * H
                                              /\ a \div Q = (2 * q) * b + (2 * r + t)
                                              /\ l = z * (2 * H) + 2 * q
  BY <1>2, <1>5 DEF Part
<1>9. x \in Int
  BY WidthIs
<1>10. l = (IF x >= T THEN 2 * (x - T) ELSE 2 * x) /\ Flag(x >= Top(w)) = (IF x >= T THEN 1 ELSE 0)
  BY DEF Flag
<1> HIDE DEF Q, H, T, K, z, t, d
<1>11. T = G /\ G \in Nat
  <2>1. (2 * Q) * H = 2 * (Q * H) /\ Q * H = G /\ G \in Nat
    BY <1>4, <1>5
  <2> HIDE DEF G
  <2>2. 2 * T = 2 * G
    BY <1>4, <1>6, <2>1
  <2> QED BY <1>6, <2>1, <2>2
<1> DEFINE y == z * H
<1>12. y \in Nat /\ y + H <= G
  <2>1. y \in Nat /\ z + 1 <= Q /\ z + 1 \in Nat
    BY <1>4, <1>5
  <2>2. H * (z + 1) <= H * Q
    BY <1>4, <1>5, <2>1
  <2>3. H * (z + 1) = z * H + H
    BY <1>4, <1>5
  <2> QED BY <2>1, <2>2, <2>3
<1>13. x = y + (IF t = 1 THEN G ELSE 0) + q
  <2>1. CASE t = 1
    <3>1. (z + Q) * H = z * H + H * Q
      BY <1>4, <1>5
    <3> QED BY <1>3, <1>4, <2>1, <3>1
  <2>2. CASE t # 1
    <3>1. a % K = z
      BY <1>4, <2>2
    <3> QED BY <1>3, <1>12, <2>2, <3>1
  <2> QED BY <2>1, <2>2
<1>14. a \div Q = 2 * d + t
  <2> DEFINE e == 2 * d + t
  <2>1. a = Q * e + z /\ e \in Int
    <3>1. K * d = Q * (2 * d)
      BY <1>4, <1>7
    <3>2. Q * (2 * d + t) = Q * (2 * d) + (IF t = 1 THEN Q ELSE 0)
      BY <1>4, <1>7
    <3>3. Q * (2 * d) \in Int
      BY <1>4, <1>7
    <3> DEFINE u == Q * (2 * d)
               v == K * d
    <3>4. Q * e = u + (IF t = 1 THEN Q ELSE 0)
      BY <3>2
    <3>5. u = v /\ a = v + (a % K) /\ u \in Int
      BY <1>7, <3>1, <3>3
    <3>6. e \in Int
      BY <1>4, <1>7
    <3> HIDE DEF u, v, e
    <3> QED BY <1>4, <3>4, <3>5, <3>6
  <2> HIDE DEF e
  <2>2. a \div Q = e
    BY <1>4, <2>1, DivisionUnique
  <2> QED BY <2>2 DEF e
<1>15. 2 * d + t = (2 * q) * b + (2 * r + t)
  <2>1. (2 * q) * b = 2 * (q * b) /\ q * b \in Int
    OBVIOUS
  <2> QED BY <1>3, <1>4, <2>1
<1>16. z * (2 * H) = 2 * y
  BY <1>4, <1>5
<1> HIDE DEF y, G
<1>17. (x >= T) = (t = 1)
  BY <1>3, <1>4, <1>5, <1>11, <1>12, <1>13
<1>18. l = 2 * y + 2 * q
  BY <1>3, <1>4, <1>5, <1>10, <1>11, <1>12, <1>13, <1>17
<1>19. Flag(x >= Top(w)) = t
  BY <1>4, <1>10, <1>17
<1>20. 2 * q < 2 * H
  BY <1>3, <1>5
<1>21. Part(w, a, b, j, 2 * q, l, 2 * r + t)
  BY <1>8, <1>14, <1>15, <1>16, <1>18, <1>20
<1> QED BY <1>19, <1>21 DEF EvenParted, j

\* A divisor that fits counts in the quotient, for which there is room.
LEMMA PartOne ==
  ASSUME NEW w \in 2..Host, NEW a \in Nums(w), NEW b \in Nat, NEW c \in 0..w - 1,
         NEW x \in Nums(w), NEW r \in Nat, EvenParted(w, a, b, c, x, r + b)
  PROVE  x + 1 < 2^w /\ Parted(w, a, b, c, x + 1, r)
<1>1. PICK q \in Nat : Part(w, a, b, c, 2 * q, x, r + b)
  BY DEF EvenParted
<1> DEFINE Q == 2^c
           i == w - c - 1
           M == 2^(w - c)
           H == 2^i
           z == a % Q
           P == 2^w
<1>2. i \in 0..Host /\ w - c = i + 1 /\ c \in 0..w /\ c \in 0..Host /\ a \in Int
  BY HostAssumption, WidthIs
<1>3. 2 * q < M /\ a \div Q = (2 * q) * b + (r + b) /\ x = z * M + 2 * q
  BY <1>1 DEF Part
<1> HIDE DEF i
<1>4. M = 2 * H /\ H \in Nat \ {0}
  BY <1>2, OneMoreBit
<1>5. P = Q * M /\ Q \in Nat \ {0}
  BY <1>2, ScalePowers
<1>6. Part(w, a, b, c, 2 * q + 1, x + 1, r) = /\ 2 * q + 1 < M
                                              /\ a \div Q = (2 * q + 1) * b + r
                                              /\ x + 1 = z * M + (2 * q + 1)
  BY <1>2 DEF Part
<1>7. z \in 0..Q - 1
  <2> HIDE DEF Q
  <2> QED BY <1>2, <1>5, Division
<1> HIDE DEF Q, M, H, z, P
<1>8. 2 * q + 1 < M
  BY <1>3, <1>4
<1>9. (2 * q + 1) * b + r = (2 * q) * b + (r + b)
  <2>1. (2 * q + 1) * b = (2 * q) * b + b /\ (2 * q) * b \in Int
    OBVIOUS
  <2> QED BY <2>1
<1> DEFINE y == z * M
<1>10. y \in Nat /\ y + M <= P
  <2>1. z \in Nat /\ z + 1 <= Q /\ z + 1 \in Nat /\ M \in Nat
    BY <1>4, <1>5, <1>7
  <2>4. y \in Nat
    BY <2>1
  <2>2. M * (z + 1) <= M * Q
    BY <1>5, <2>1
  <2>3. M * (z + 1) = z * M + M /\ M * Q = Q * M
    BY <1>5, <1>7, <2>1
  <2> HIDE DEF P
  <2> DEFINE Y == M * Q
             Z1 == M * (z + 1)
  <2>5. Z1 <= Y /\ Z1 = y + M /\ P = Y /\ Y \in Int
    BY <1>5, <2>1, <2>2, <2>3
  <2> HIDE DEF y, Y, Z1
  <2> QED BY <2>1, <2>4, <2>5
<1> HIDE DEF y
<1>11. x = y + 2 * q
  BY <1>3 DEF y
<1>12. x + 1 < P
  BY <1>4, <1>5, <1>8, <1>10, <1>11
<1>13. x + 1 = y + (2 * q + 1)
  BY <1>10, <1>11
<1>14. Part(w, a, b, c, 2 * q + 1, x + 1, r)
  BY <1>3, <1>6, <1>8, <1>9, <1>13 DEF y
<1>15. 2 * q + 1 \in Nat
  OBVIOUS
<1> QED BY <1>12, <1>14, <1>15 DEF Parted, P

LongDivisionBy ==
  LET a == Old["ax"]
      b == Old["bx"]
      x == regs["ax"]
      r == regs["dx"]
      n == regs["cx"]
      w == width
  IN  /\ code = LongDivision(w) /\ {x, r, n} \subseteq Nums(w)
      /\ regs["bx"] = b /\ b \in 1..Top(w) /\ n <= w /\ (ip <= 7 => n >= 1)
      /\ r < (IF ip \in 3..5 THEN 2 * b ELSE b)
      /\ ip \in {1, 8} => Parted(w, a, b, n, x, r)
      /\ ip = 2 => EvenParted(w, a, b, n - 1, x, 2 * r + flags.cf)
      /\ ip \in 3..5 => EvenParted(w, a, b, n - 1, x, r)
      /\ ip = 4 => flags.cf = Flag(r < b)
      /\ ip = 5 => r >= b
      /\ ip = 6 => EvenParted(w, a, b, n - 1, x, r + b)
      /\ ip = 7 => Parted(w, a, b, n - 1, x, r)
      /\ ip = 8 => n = 0

LongDivisionInv == name = "long_division" => Looping(8) /\ LongDivisionBy

\* The instructions of the routine.
LEMMA LongDivisionCode ==
  ASSUME NEW w, NEW p, p = LongDivision(w)
  PROVE  /\ Len(p) = 7
         /\ p[1].op = "shl" /\ p[1].d = "ax" /\ p[1].s = "imm" /\ p[1].w = w /\ p[1].n = 1
         /\ p[2].op = "rcl" /\ p[2].d = "dx" /\ p[2].s = "imm" /\ p[2].w = w /\ p[2].n = 1
         /\ p[3].op = "cmp" /\ p[3].d = "dx" /\ p[3].s = "bx" /\ p[3].w = w
         /\ p[4].op = "j" /\ p[4].s = "b" /\ p[4].n = 7
         /\ p[5].op = "sub" /\ p[5].d = "dx" /\ p[5].s = "bx" /\ p[5].w = w
         /\ p[6].op = "inc" /\ p[6].d = "ax" /\ p[6].s = "imm" /\ p[6].w = w /\ p[6].n = 1
         /\ p[7].op = "loop" /\ p[7].w = Word /\ p[7].n = 1
BY DEF LongDivision, RI, RR, To

\* The long division, step by step.
LEMMA LongDivisionStep ==
  ASSUME LongDivisionInv, Next, UNCHANGED <<name, width, start>>
  PROVE  LongDivisionInv'
<1> SUFFICES ASSUME name = "long_division" PROVE LongDivisionInv'
  BY DEF LongDivisionInv
<1> DEFINE a == Old["ax"]
           b == Old["bx"]
           x == regs["ax"]
           r == regs["dx"]
           n == regs["cx"]
           w == width
           P == 2^w
           c == flags.cf
<1>1. /\ w \in 2..Host /\ a \in Nums(w) /\ trap = "none" /\ ip \in 1..8 /\ w = Word
      /\ DOMAIN regs = Regs /\ DOMAIN flags = FlagNames /\ c \in {0, 1}
      /\ \A s \in Regs : Old[s] \in Nums(w)
  BY DEF LongDivisionInv, Looping, Going, Regs
<1>2. /\ code = LongDivision(w) /\ x \in Nums(w) /\ r \in Nums(w) /\ n \in Nums(w)
      /\ regs["bx"] = b /\ b \in 1..Top(w) /\ n <= w /\ (ip <= 7 => n >= 1)
      /\ r < (IF ip \in 3..5 THEN 2 * b ELSE b)
      /\ ip = 1 => Parted(w, a, b, n, x, r)
      /\ ip = 2 => EvenParted(w, a, b, n - 1, x, 2 * r + c)
      /\ ip \in 3..5 => EvenParted(w, a, b, n - 1, x, r)
      /\ ip = 4 => c = Flag(r < b)
      /\ ip = 5 => r >= b
      /\ ip = 6 => EvenParted(w, a, b, n - 1, x, r + b)
      /\ ip = 7 => Parted(w, a, b, n - 1, x, r)
  BY DEF LongDivisionInv, LongDivisionBy
<1>3. /\ Len(code) = 7
      /\ code[1].op = "shl" /\ code[1].d = "ax" /\ code[1].s = "imm" /\ code[1].w = w /\ code[1].n = 1
      /\ code[2].op = "rcl" /\ code[2].d = "dx" /\ code[2].s = "imm" /\ code[2].w = w /\ code[2].n = 1
      /\ code[3].op = "cmp" /\ code[3].d = "dx" /\ code[3].s = "bx" /\ code[3].w = w
      /\ code[4].op = "j" /\ code[4].s = "b" /\ code[4].n = 7
      /\ code[5].op = "sub" /\ code[5].d = "dx" /\ code[5].s = "bx" /\ code[5].w = w
      /\ code[6].op = "inc" /\ code[6].d = "ax" /\ code[6].s = "imm" /\ code[6].w = w /\ code[6].n = 1
      /\ code[7].op = "loop" /\ code[7].w = Word /\ code[7].n = 1
  BY <1>2, LongDivisionCode
<1>4. ip \in 1..7 /\ ip <= Len(code)
  BY <1>1, <1>3, Dispatch
<1>5. name' = name /\ w' = w /\ Old' = Old /\ a' = a /\ b' = b
  BY DEF Old
<1>6. /\ P \in Nat \ {0} /\ 1 \in Nums(w) /\ Nums(w) = 0..P - 1 /\ P = 2 * Top(w) /\ Top(w) \in Nat
      /\ x \in 0..P - 1 /\ r \in 0..P - 1 /\ n \in 1..w /\ n - 1 \in 0..w - 1 /\ b \in 0..P - 1 /\ b \in Nat
      /\ w \in Nat /\ r \in Nat
  <2>1. /\ P \in Nat \ {0} /\ 1 \in Nums(w) /\ Nums(w) = 0..P - 1 /\ P = 2 * Top(w) /\ Top(w) \in Nat
    BY <1>1, WidthFits, WidthIs DEF Nums
  <2>2. w \in Nat
    BY <1>1, HostAssumption
  <2> HIDE DEF w, P, b, n, x, r
  <2>3. x \in 0..P - 1 /\ r \in 0..P - 1 /\ n \in 0..P - 1
    BY <1>2, <2>1
  <2> QED BY <1>2, <1>4, <2>1, <2>2, <2>3
<1> DEFINE xx == regs'["ax"]
           rr == regs'["dx"]
           nn == regs'["cx"]
           cc == flags'.cf
<1> HIDE DEF a, b, w, P, c
<1>7. SUFFICES /\ ip' \in 1..8 /\ trap' = trap /\ code' = code /\ DOMAIN regs' = Regs
               /\ DOMAIN flags' = FlagNames /\ cc \in {0, 1}
               /\ xx \in Nums(w) /\ rr \in Nums(w) /\ nn \in Nums(w) /\ regs'["bx"] = regs["bx"]
               /\ nn <= w /\ (ip' <= 7 => nn >= 1)
               /\ rr < (IF ip' \in 3..5 THEN 2 * b ELSE b)
               /\ ip' \in {1, 8} => Parted(w, a, b, nn, xx, rr)
               /\ ip' = 2 => EvenParted(w, a, b, nn - 1, xx, 2 * rr + cc)
               /\ ip' \in 3..5 => EvenParted(w, a, b, nn - 1, xx, rr)
               /\ ip' = 4 => cc = Flag(rr < b)
               /\ ip' = 5 => rr >= b
               /\ ip' = 6 => EvenParted(w, a, b, nn - 1, xx, rr + b)
               /\ ip' = 7 => Parted(w, a, b, nn - 1, xx, rr)
               /\ ip' = 8 => nn = 0
  <2>1. Looping(8)'
    BY <1>1, <1>5, <1>7 DEF Looping, Going, w, c
  <2>2. LongDivisionBy'
    BY <1>2, <1>5, <1>7 DEF LongDivisionBy, w, a, b, c
  <2> QED BY <2>1, <2>2 DEF LongDivisionInv
<1>8. CASE ip = 1
  <2>1. Does("shl", "ax", x, 1, w) /\ I.s = "imm"
    BY <1>1, <1>2, <1>3, <1>4, <1>6, <1>8 DEF Does, I, Dst, Src, Regs, c
  <2> DEFINE l == IF x >= Top(w) THEN 2 * (x - Top(w)) ELSE 2 * x
  <2>2. Sets("ax", l) /\ cc = Flag(x >= Top(w))
    BY <2>1, OneTurnSets
  <2>3. xx = l /\ rr = r /\ nn = n /\ regs'["bx"] = regs["bx"] /\ ip' = 2
    BY <1>8, <2>2 DEF Sets, Regs
  <2> HIDE DEF x, r, n
  <2>4. EvenParted(w, a, b, n - 1, l, 2 * r + Flag(x >= Top(w)))
    BY <1>1, <1>2, <1>6, <1>8, PartShift
  <2>5. l \in Nums(w)
    <3> DEFINE T == Top(w)
    <3> HIDE DEF T
    <3>1. x \in 0..P - 1 /\ P = 2 * T /\ T \in Nat /\ l = (IF x >= T THEN 2 * (x - T) ELSE 2 * x)
      BY <1>6 DEF T
    <3> HIDE DEF l
    <3> QED BY <1>6, <3>1
  <2> HIDE DEF l, xx, rr, nn, cc
  <2>6. cc \in {0, 1}
    BY <2>2 DEF Flag
  <2>7. EvenParted(w, a, b, nn - 1, xx, 2 * rr + cc)
    BY <2>2, <2>3, <2>4
  <2>8. rr < b /\ nn >= 1 /\ nn <= w
    BY <1>2, <1>8, <2>3
  <2> QED BY <1>2, <2>2, <2>3, <2>5, <2>6, <2>7, <2>8 DEF Sets
<1>9. CASE ip = 2
  <2>1. Does("rcl", "dx", r, 1, w) /\ I.s = "imm"
    BY <1>1, <1>2, <1>3, <1>4, <1>6, <1>9 DEF Does, I, Dst, Src, Regs, c
  <2> DEFINE l == IF r >= Top(w) THEN 2 * (r - Top(w)) ELSE 2 * r
  <2>2. Sets("dx", l + c)
    BY <2>1, OneTurnSets DEF c
  <2>3. xx = x /\ rr = l + c /\ nn = n /\ regs'["bx"] = regs["bx"] /\ ip' = 3
    BY <1>9, <2>2 DEF Sets, Regs
  <2> HIDE DEF x, r, n
  <2>4. l + c = 2 * r + c /\ 2 * r + c < 2 * b /\ 2 * r + c \in 0..P - 1
    <3> DEFINE T == Top(w)
    <3> HIDE DEF T
    <3>1. r < b /\ b \in 1..T /\ P = 2 * T /\ T \in Nat /\ l = (IF r >= T THEN 2 * (r - T) ELSE 2 * r)
      BY <1>2, <1>6, <1>9 DEF T
    <3> HIDE DEF l
    <3>2. r < T
      BY <1>6, <3>1
    <3>3. l = 2 * r
      BY <3>1, <3>2, <1>6
    <3> QED BY <1>1, <1>6, <3>1, <3>3
  <2> HIDE DEF l, xx, rr, nn
  <2>5. rr = 2 * r + c
    BY <2>3, <2>4
  <2> QED BY <1>2, <1>6, <1>9, <2>2, <2>3, <2>4, <2>5 DEF Sets
<1>10. CASE ip = 3
  <2>1. Does("cmp", "dx", r, b, w)
    BY <1>1, <1>2, <1>3, <1>4, <1>6, <1>10 DEF Does, I, Dst, Src, Regs, c
  <2>2. Reads /\ cc = Flag(r < b)
    BY <2>1, CmpReads
  <2>3. xx = x /\ rr = r /\ nn = n /\ regs'["bx"] = regs["bx"] /\ ip' = 4
    BY <1>10, <2>2 DEF Reads
  <2> QED BY <1>1, <1>2, <1>10, <2>2, <2>3 DEF Reads
<1>11. CASE ip = 4
  <2>1. I.op = "j" /\ I.s = "b" /\ I.n = 7
    BY <1>3, <1>11 DEF I
  <2>2. /\ code' = code /\ trap' = trap /\ regs' = regs /\ flags' = flags
        /\ ip' = IF c = 1 THEN 7 ELSE 5
    BY <1>11, <2>1, CondJumps DEF c
  <2>3. xx = x /\ rr = r /\ nn = n /\ regs'["bx"] = regs["bx"] /\ ip' = (IF r < b THEN 7 ELSE 5)
    BY <1>2, <1>11, <2>2 DEF Flag
  <2>4. EvenParted(w, a, b, n - 1, x, r)
    BY <1>2, <1>11
  <2>5. Parted(w, a, b, n - 1, x, r)
    BY <2>4 DEF Parted, EvenParted
  <2>6. cc \in {0, 1} /\ DOMAIN flags' = FlagNames /\ DOMAIN regs' = Regs
    BY <1>1, <2>2 DEF c
  <2> HIDE DEF x, r, n, xx, rr, nn, cc
  <2>7. rr < (IF ip' \in 3..5 THEN 2 * b ELSE b)
    BY <1>2, <1>6, <1>11, <2>3
  <2>8. ip' = 5 => rr >= b
    BY <1>6, <2>3
  <2> QED BY <1>2, <1>11, <2>2, <2>3, <2>4, <2>5, <2>6, <2>7, <2>8
<1>12. CASE ip = 5
  <2>1. Does("sub", "dx", r, b, w)
    BY <1>1, <1>2, <1>3, <1>4, <1>6, <1>12 DEF Does, I, Dst, Src, Regs, c
  <2>2. PICK v \in Nums(w) : Sets("dx", v) /\ r - b = v - (IF r < b THEN 2^w ELSE 0)
    BY <2>1, MinusSets
  <2>3. xx = x /\ rr = v /\ nn = n /\ regs'["bx"] = regs["bx"] /\ ip' = 6
    BY <1>12, <2>2 DEF Sets, Regs
  <2> HIDE DEF x, r, n
  <2>4. v < b /\ v + b = r
    BY <1>2, <1>6, <1>12, <2>2
  <2> QED BY <1>2, <1>12, <2>2, <2>3, <2>4 DEF Sets
<1>13. CASE ip = 6
  <2>1. Does("inc", "ax", x, 1, w)
    BY <1>1, <1>2, <1>3, <1>4, <1>6, <1>13 DEF Does, I, Dst, Src, Regs, c
  <2> HIDE DEF x, r, n
  <2>2. x + 1 < 2^w /\ Parted(w, a, b, n - 1, x + 1, r)
    BY <1>1, <1>2, <1>6, <1>13, PartOne
  <2>3. Sets("ax", x + 1)
    BY <2>1, <2>2, IncSets
  <2>4. xx = x + 1 /\ rr = r /\ nn = n /\ regs'["bx"] = regs["bx"] /\ ip' = 7
    BY <1>13, <2>3 DEF Sets, Regs, r, n
  <2>5. x + 1 \in Nums(w)
    BY <1>6, <2>2 DEF P
  <2> QED BY <1>2, <1>13, <2>2, <2>3, <2>4, <2>5 DEF Sets
<1>14. CASE ip = 7
  <2>1. I.op = "loop" /\ I.w = w /\ I.n = 1
    BY <1>1, <1>3, <1>14 DEF I
  <2>2. n # 0 /\ n - 1 \in Nums(w) /\ n - 1 <= w
    <3>1. n \in Nums(w)
      BY <1>2
    <3> HIDE DEF n
    <3>2. n \in 0..P - 1
      BY <1>6, <3>1
    <3> QED BY <1>6, <3>2
  <2>3. /\ code' = code /\ trap' = trap /\ flags' = flags /\ DOMAIN regs' = Regs
        /\ regs'["cx"] = n - 1 /\ \A s \in Regs \ {"cx"} : regs'[s] = regs[s]
        /\ ip' = IF n # 1 THEN 1 ELSE ip + 1
    BY <1>1, <1>2, <2>1, <2>2, LoopJumps
  <2>4. /\ xx = x /\ rr = r /\ nn = n - 1 /\ regs'["bx"] = regs["bx"] /\ cc = c
        /\ ip' = IF n # 1 THEN 1 ELSE 8
    BY <1>14, <2>3 DEF Regs, c
  <2>5. Parted(w, a, b, n - 1, x, r) /\ r < b
    BY <1>2, <1>14
  <2> HIDE DEF x, r, n, xx, rr, nn, cc
  <2>6. (ip' <= 7 => nn >= 1) /\ (ip' = 8 => nn = 0)
    BY <1>6, <2>4
  <2> QED BY <1>1, <1>2, <2>2, <2>3, <2>4, <2>5, <2>6
<1> QED BY <1>4, <1>8, <1>9, <1>10, <1>11, <1>12, <1>13, <1>14

\* The long division, in the end.
LEMMA LongDivisionEnds ==
  ASSUME LongDivisionInv, Ended({"long_division"})
  PROVE  regs["ax"] * Old["bx"] + regs["dx"] = Old["ax"] /\ regs["dx"] < Old["bx"]
<1> DEFINE a == Old["ax"]
           b == Old["bx"]
           x == regs["ax"]
           r == regs["dx"]
           w == width
<1>1. name = "long_division" /\ ip > Len(code) /\ Looping(8) /\ LongDivisionBy
  BY DEF Ended, Finished, LongDivisionInv
<1>2. ip = 8 /\ w \in 2..Host /\ a \in Nums(w)
  <2>1. Len(code) = 7
    BY <1>1, LongDivisionCode DEF LongDivisionBy
  <2> QED BY <1>1, <2>1 DEF Looping, Going, Regs
<1>3. Parted(w, a, b, 0, x, r) /\ x \in Nums(w) /\ r \in Nums(w) /\ b \in 1..Top(w) /\ r < b
  BY <1>1, <1>2 DEF LongDivisionBy
<1>4. r \in Nat /\ b \in Nat
  BY <1>2, <1>3, WidthIs DEF Nums
<1> HIDE DEF a, b, x, r, w
<1>5. x * b + r = a
  BY <1>2, <1>3, <1>4, PartEnd
<1> QED BY <1>3, <1>5 DEF a, b, x, r

-----------------------------------------------------------------------------
(***************************************************************************)
(* All the programs.                                                       *)
(***************************************************************************)
\* A program starts with all in place.
LEMMA ProgramStart ==
  ASSUME Init, NEW w \in 2..Host, NEW m, NEW c,
         NEW X \in SUBSET Nums(w), NEW Y \in SUBSET Nums(w), NEW K \in SUBSET Nums(w),
         Start(m, w, c, X, Y, K, Z, Z)
  PROVE  /\ name = m /\ width = w /\ code = c /\ ip = 1 /\ Going(1) /\ regs = Old
         /\ regs["ax"] \in X /\ regs["bx"] \in Y /\ regs["cx"] \in K /\ regs["dx"] = 0 /\ regs["si"] = 0
<1>1. /\ name = m /\ width = w /\ code = c
      /\ regs = start.regs /\ DOMAIN regs = Regs
      /\ regs["ax"] \in X /\ regs["bx"] \in Y /\ regs["cx"] \in K /\ regs["dx"] \in Z /\ regs["si"] \in Z
      /\ start.cf \in {0, 1} /\ flags = [f \in FlagNames |-> IF f = "cf" THEN start.cf ELSE 0]
  BY Started
<1>2. ip = 1 /\ trap = "none"
  BY DEF Init
<1>3. DOMAIN flags = FlagNames /\ flags.cf \in {0, 1}
  BY <1>1 DEF FlagNames
<1>4. regs["dx"] = 0 /\ regs["si"] = 0 /\ 0 \in Nums(w)
  BY <1>1, WidthFits DEF Z
<1>5. Old = regs
  BY <1>1 DEF Old
<1>6. \A r \in Regs : Old[r] \in Nums(w)
  BY <1>1, <1>4, <1>5 DEF Regs
<1>7. Going(1)
  BY <1>1, <1>2, <1>3, <1>6 DEF Going
<1> QED BY <1>1, <1>2, <1>4, <1>5, <1>7

\* The programs without a branch, at the start.
LEMMA BranchlessInit ==
  ASSUME Init
  PROVE  AbsoluteInv /\ MinimumInv /\ SignInv
<1> SUFFICES ASSUME name \in Branchless_names PROVE AbsoluteInv /\ MinimumInv /\ SignInv
  BY DEF AbsoluteInv, MinimumInv, SignInv, Branchless_names
<1>1. PICK w \in Widths : InitBranchless(w)
  BY Names DEF Init, Decimal_names, Product_names, Shift_names, Loop_names, Branchless_names
<1> DEFINE V == Values(w)
<1>2. w \in 2..Host /\ V \in SUBSET Nums(w)
  BY OperandsFit
<1>3. Z \in SUBSET Nums(w)
  BY <1>2, WidthFits DEF Z
<1>4. \/ Start("absolute", w, Absolute(w), V, Z, Z, Z, Z)
      \/ Start("minimum", w, Minimum(w), V, V, Z, Z, Z)
      \/ Start("sign", w, Sign(w), V, Z, Z, Z, Z)
  BY <1>1 DEF InitBranchless
<1> HIDE DEF V
<1>5. CASE Start("absolute", w, Absolute(w), V, Z, Z, Z, Z)
  <2>1. name = "absolute" /\ code = Absolute(width) /\ ip = 1 /\ Going(1) /\ regs = Old
    BY <1>2, <1>3, <1>5, ProgramStart
  <2>2. AbsoluteBy
    BY <2>1 DEF AbsoluteBy
  <2> QED BY <2>1, <2>2 DEF AbsoluteInv, MinimumInv, SignInv, Going
<1>6. CASE Start("minimum", w, Minimum(w), V, V, Z, Z, Z)
  <2>1. /\ name = "minimum" /\ code = Minimum(width) /\ ip = 1 /\ Going(1) /\ regs = Old
        /\ regs["cx"] \in Z
    BY <1>2, <1>3, <1>6, ProgramStart
  <2>2. MinimumBy
    BY <2>1 DEF MinimumBy, Z
  <2> QED BY <2>1, <2>2 DEF AbsoluteInv, MinimumInv, SignInv, Going
<1>7. CASE Start("sign", w, Sign(w), V, Z, Z, Z, Z)
  <2>1. /\ name = "sign" /\ code = Sign(width) /\ ip = 1 /\ Going(1) /\ regs = Old /\ width = w
        /\ regs["bx"] \in Nums(w)
    BY <1>2, <1>3, <1>7, ProgramStart
  <2>2. SignBy
    BY <2>1 DEF SignBy
  <2> QED BY <2>1, <2>2 DEF AbsoluteInv, MinimumInv, SignInv, Going
<1> QED BY <1>4, <1>5, <1>6, <1>7

\* The loops, at the start.
LEMMA LoopsInit ==
  ASSUME Init
  PROVE  LongDivisionInv /\ RepeatedSumInv /\ ShiftAndAddInv /\ CountToInv /\ LeadingOneInv
<1> SUFFICES ASSUME name \in Loop_names
             PROVE  LongDivisionInv /\ RepeatedSumInv /\ ShiftAndAddInv /\ CountToInv /\ LeadingOneInv
  BY DEF LongDivisionInv, RepeatedSumInv, ShiftAndAddInv, CountToInv, LeadingOneInv, Loop_names
<1> DEFINE w == Word
           V == Values(w)
           N == {w}
           T == 1..Top(w)
           U == V \ Z
           P == 2^w
<1>1. InitLoops(w)
  BY Names DEF Init, Decimal_names, Product_names, Shift_names, Loop_names, Branchless_names
<1>2. w \in 2..Host /\ w \in Nat
  BY RoutinesAssumption, HostAssumption
<1>3. /\ w \in Nums(w) /\ 0 \in Nums(w) /\ P \in Nat \ {0} /\ P = 2 * Top(w) /\ Top(w) \in Nat
      /\ Top(w) >= 2 /\ Nums(w) = 0..P - 1
  BY <1>2, WidthFits, WidthIs DEF Nums
<1>4. /\ V \in SUBSET Nums(w) /\ Z \in SUBSET Nums(w) /\ N \in SUBSET Nums(w) /\ T \in SUBSET Nums(w)
      /\ U \in SUBSET Nums(w) /\ \A v \in U : v # 0
  <2>1. V = 0..P - 1
    BY <1>2, <1>3 DEF Values, Ones
  <2>2. \A v \in U : v # 0
    BY DEF Z
  <2> HIDE DEF P, w
  <2> QED BY <1>3, <2>1, <2>2 DEF Z
<1>5. \/ Start("long_division", w, LongDivision(w), V, T, N, Z, Z)
      \/ Start("repeated_sum", w, RepeatedSum(w), V, Z, V, Z, Z)
      \/ Start("shift_and_add", w, ShiftAndAdd(w), V, V, Z, Z, Z)
      \/ Start("count_to", w, CountTo(w), Z, U, U, Z, Z)
      \/ Start("leading_one", w, LeadingOne(w), V, Z, N, Z, Z)
  BY <1>1 DEF InitLoops
<1>6. (\A v \in Nums(w) : v \in Nat) /\ (\A v \in N : v = w) /\ (\A v \in T : v \in 1..Top(w))
  BY <1>3
<1> HIDE DEF V, N, T, U
<1> DEFINE All == LongDivisionInv /\ RepeatedSumInv /\ ShiftAndAddInv /\ CountToInv /\ LeadingOneInv
<1>7. CASE Start("long_division", w, LongDivision(w), V, T, N, Z, Z)
  <2>1. /\ name = "long_division" /\ code = LongDivision(w) /\ ip = 1 /\ Going(1) /\ regs = Old /\ width = w
        /\ regs["ax"] \in V /\ regs["bx"] \in T /\ regs["cx"] \in N /\ regs["dx"] = 0
    BY <1>2, <1>4, <1>7, ProgramStart
  <2>2. regs["ax"] \in Nums(w) /\ regs["bx"] \in 1..Top(w) /\ regs["bx"] \in Nat /\ regs["cx"] = w
    BY <1>3, <1>4, <1>6, <2>1
  <2>3. Parted(w, regs["ax"], regs["bx"], w, regs["ax"], 0)
    BY <1>2, <2>2, PartStart
  <2> HIDE DEF w
  <2>4. LongDivisionBy
    <3>1. {regs["ax"], regs["dx"], regs["cx"]} \subseteq Nums(w) /\ 0 < regs["bx"] /\ w <= w /\ 1 <= w
      BY <1>2, <1>3, <2>1, <2>2
    <3> QED BY <2>1, <2>2, <2>3, <3>1 DEF LongDivisionBy
  <2> QED BY <2>1, <2>4
       DEF w, Looping, Going, LongDivisionInv, RepeatedSumInv, ShiftAndAddInv, CountToInv, LeadingOneInv
<1>8. CASE Start("repeated_sum", w, RepeatedSum(w), V, Z, V, Z, Z)
  <2>1. /\ name = "repeated_sum" /\ code = RepeatedSum(w) /\ ip = 1 /\ Going(1) /\ regs = Old /\ width = w
        /\ regs["cx"] \in V /\ regs["dx"] = 0 /\ regs["si"] = 0
    BY <1>2, <1>4, <1>8, ProgramStart
  <2>2. regs["cx"] \in Nums(w) /\ regs["cx"] <= regs["cx"]
    BY <1>4, <1>6, <2>1
  <2> HIDE DEF w
  <2>3. RepeatedSumBy
    BY <1>3, <2>1, <2>2 DEF RepeatedSumBy
  <2> QED BY <2>1, <2>3
       DEF w, Looping, Going, LongDivisionInv, RepeatedSumInv, ShiftAndAddInv, CountToInv, LeadingOneInv
<1>9. CASE Start("shift_and_add", w, ShiftAndAdd(w), V, V, Z, Z, Z)
  <2>1. /\ name = "shift_and_add" /\ code = ShiftAndAdd(w) /\ ip = 1 /\ Going(1) /\ regs = Old /\ width = w
        /\ regs["ax"] \in V /\ regs["bx"] \in V /\ regs["dx"] = 0
    BY <1>2, <1>4, <1>9, ProgramStart
  <2>2. regs["ax"] \in Nums(w) /\ regs["bx"] \in Nums(w) /\ regs["ax"] \in Int /\ regs["bx"] \in Int
    BY <1>4, <1>6, <2>1
  <2>3. Owed(P, 0, regs["ax"], regs["bx"], regs["ax"] * regs["bx"])
    BY <1>3, <2>2, OwedAtFirst
  <2>4. ShiftAndAddBy
    BY <1>3, <2>1, <2>2, <2>3 DEF ShiftAndAddBy
  <2> QED BY <2>1, <2>4
       DEF Looping, Going, LongDivisionInv, RepeatedSumInv, ShiftAndAddInv, CountToInv, LeadingOneInv
<1>10. CASE Start("count_to", w, CountTo(w), Z, U, U, Z, Z)
  <2>1. /\ name = "count_to" /\ code = CountTo(w) /\ ip = 1 /\ Going(1) /\ regs = Old /\ width = w
        /\ regs["bx"] \in U /\ regs["cx"] \in U /\ regs["dx"] = 0
    BY <1>2, <1>4, <1>10, ProgramStart
  <2>2. /\ regs["bx"] \in Nat /\ regs["cx"] \in Nat /\ regs["bx"] # 0 /\ regs["cx"] # 0
        /\ regs["cx"] \in Nums(w)
    BY <1>4, <1>6, <2>1
  <2> HIDE DEF w
  <2>3. CountToBy
    BY <1>3, <2>1, <2>2 DEF CountToBy
  <2> QED BY <2>1, <2>3
       DEF w, Looping, Going, LongDivisionInv, RepeatedSumInv, ShiftAndAddInv, CountToInv, LeadingOneInv
<1>11. CASE Start("leading_one", w, LeadingOne(w), V, Z, N, Z, Z)
  <2>1. /\ name = "leading_one" /\ code = LeadingOne(w) /\ ip = 1 /\ Going(1) /\ regs = Old /\ width = w
        /\ regs["ax"] \in V /\ regs["cx"] \in N /\ regs["dx"] = 0
    BY <1>2, <1>4, <1>11, ProgramStart
  <2>2. regs["ax"] \in Nums(w) /\ regs["ax"] \in Nat /\ regs["cx"] = w
    BY <1>4, <1>6, <2>1
  <2>3. regs["ax"] = regs["ax"] * 2^0 /\ regs["ax"] < 2^(w - 0) /\ 0 < w /\ 0 + w = w
    <3>1. 2^0 = 1 /\ w - 0 = w /\ 0 < w /\ 0 + w = w
      BY <1>2
    <3>2. regs["ax"] < P
      BY <1>3, <2>2
    <3> HIDE DEF w
    <3> QED BY <2>2, <3>1, <3>2
  <2> HIDE DEF w
  <2>4. LeadingOneBy
    BY <1>3, <2>1, <2>2, <2>3 DEF LeadingOneBy
  <2> QED BY <2>1, <2>4
       DEF w, Looping, Going, LongDivisionInv, RepeatedSumInv, ShiftAndAddInv, CountToInv, LeadingOneInv
<1> QED BY <1>5, <1>7, <1>8, <1>9, <1>10, <1>11

ProgramInv ==
  /\ AbsoluteInv /\ MinimumInv /\ SignInv
  /\ LongDivisionInv /\ RepeatedSumInv /\ ShiftAndAddInv /\ CountToInv /\ LeadingOneInv

\* At every width, for all operands: the long division by shifts and subtractions, the
\* product by repeated addition and by shifts and additions, the two counts, and the
\* absolute value, the minimum and the sign made of masks are what integer arithmetic
\* says (exShift, exAND, exORXOR, exCWDCDQ, exLOOP and the jumps of ExInst86.c).
THEOREM Programs == Spec => []ProgramsExact
<1>1. Init => ProgramInv
  BY BranchlessInit, LoopsInit DEF ProgramInv
<1>2. ProgramInv /\ [Next /\ UNCHANGED <<name, width, start>>]_allvars => ProgramInv'
  <2>1. ASSUME ProgramInv, Next, UNCHANGED <<name, width, start>> PROVE ProgramInv'
    BY <2>1, AbsoluteStep, MinimumStep, SignStep, LongDivisionStep, RepeatedSumStep, ShiftAndAddStep,
       CountToStep, LeadingOneStep DEF ProgramInv
  <2>2. ASSUME ProgramInv, UNCHANGED allvars PROVE ProgramInv'
    <3>1. UNCHANGED <<code, regs, flags, ip, trap, name, width, start>> /\ Old' = Old
      BY <2>2 DEF allvars, vars, Old
    <3>2. \A n : Going(n)' = Going(n) /\ Looping(n)' = Looping(n)
      BY <3>1 DEF Going, Looping
    <3>3. AbsoluteInv' /\ MinimumInv' /\ SignInv'
      BY <2>2, <3>1, <3>2
         DEF ProgramInv, AbsoluteInv, MinimumInv, SignInv, AbsoluteBy, MinimumBy, SignBy
    <3>4. LongDivisionInv' /\ RepeatedSumInv' /\ ShiftAndAddInv'
      BY <2>2, <3>1, <3>2
         DEF ProgramInv, LongDivisionInv, RepeatedSumInv, ShiftAndAddInv,
             LongDivisionBy, RepeatedSumBy, ShiftAndAddBy
    <3>5. CountToInv' /\ LeadingOneInv'
      BY <2>2, <3>1, <3>2 DEF ProgramInv, CountToInv, LeadingOneInv, CountToBy, LeadingOneBy
    <3> QED BY <3>3, <3>4, <3>5 DEF ProgramInv
  <2> QED BY <2>1, <2>2
<1>3. ProgramInv => ProgramsExact
  <2> SUFFICES ASSUME ProgramInv PROVE LoopsCompute /\ BranchlessExact
    BY DEF ProgramsExact
  <2>1. LoopsCompute
    BY LongDivisionEnds, RepeatedSumEnds, ShiftAndAddEnds, CountToEnds, LeadingOneEnds
       DEF ProgramInv, LoopsCompute
  <2>2. BranchlessExact
    BY AbsoluteEnds, MinimumEnds, SignEnds DEF ProgramInv, BranchlessExact
  <2> QED BY <2>1, <2>2
<1> QED BY <1>1, <1>2, <1>3, PTL DEF Spec
=============================================================================
