-------------------------------- MODULE ALU --------------------------------
(***************************************************************************)
(* Sums, differences and bitwise operations with their flags (src/src/     *)
(* ALUop.c).  The C code computes every operation in a uint32_t and cuts   *)
(* the result to the operand's width; at the full width the carry is       *)
(* recovered from what wrapped around.  Host is the width of that type, so *)
(* that w < Host is a byte or a word and w = Host is a doubleword.         *)
(*                                                                         *)
(* A result is [val, f], f the flags as 0 or 1.  PF is left out.           *)
(***************************************************************************)
EXTENDS Integers

CONSTANT Host

ASSUME HostAssumption == Host \in Nat /\ Host > 4

\* Arithmetic, for the proofs: the provers have no rule for powers.
ASSUME PowersOfTwo == \A n \in 0..2 * Host - 1 : 2^(n + 1) = 2 * 2^n

FlagNames == {"cf", "af", "zf", "sf", "of"}

\* Arithmetic of uint32_t, and the low w bits of a value.
Wrap(n) == n % 2^Host
Cut(v, w) == v % 2^w
BitOf(v, i) == (v \div 2^i) % 2
Msb(v, w) == BitOf(v, w - 1)
Top(w) == 2^(w - 1)            \* the sign bit
Ones(w) == 2^w - 1
Flag(b) == IF b THEN 1 ELSE 0

\* updateFlags_OSZAPC
Result(v, w, carry, adjust, overflow) ==
  [val |-> Cut(v, w),
   f |-> [cf |-> Flag(carry), af |-> Flag(adjust), zf |-> Flag(Cut(v, w) = 0),
          sf |-> Msb(v, w), of |-> Flag(overflow)]]

Nibble(v) == v % 16

ALUOPAdd(x, y, w) ==
  LET r == Wrap(x + y)
      carry == IF w = Host THEN r < x \/ r < y ELSE BitOf(r, w) = 1
  IN  Result(r, w, carry, Nibble(x) + Nibble(y) >= 16,
             Msb(x, w) = Msb(y, w) /\ Msb(x, w) # Msb(r, w))

\* MUTANT of ALUOPSub: equal operands borrow.
ALUOPSub_EqualBorrows(x, y, w) ==
  LET r == Wrap(x - y)
  IN  Result(r, w, x <= y, Nibble(x) < Nibble(y), Msb(x, w) # Msb(y, w) /\ Msb(x, w) # Msb(r, w))

\* The difference is a sum with -y; AF compares with the low nibble of -y.
ALUOPSub(x, y, w) ==
  LET n == Wrap(-y)
      r == Wrap(x + n)
  IN  Result(r, w, x < y, Nibble(x) < Nibble(n),
             Msb(x, w) = Msb(n, w) /\ y # Top(w) /\ Msb(x, w) # Msb(r, w))

\* With a carry in; all ones + all ones + 1 wraps around to all ones.
ALUOPAdd3(x, y, c, w) ==
  LET r == Wrap(x + y + c)
      low == Cut(x, w - 1) + Cut(y, w - 1) + Cut(c, w - 1)
      carry == IF w = Host
               THEN r < x \/ r < y \/ r < c \/ (x = Ones(w) /\ y = Ones(w) /\ c = 1)
               ELSE BitOf(r, w) = 1
  IN  Result(r, w, carry, Nibble(x) + Nibble(y) + c >= 16,
             carry # (Msb(low, w) = 1))

\* MUTANT of ALUOPSub3: the borrow that comes in is forgotten in the one that
\* goes out.
ALUOPSub3_BorrowLost(x, y, c, w) ==
  LET r == Wrap(x - y - c)
  IN  Result(r, w, x < y, Nibble(x) < Nibble(y) + c, Msb(x, w) # Msb(y, w) /\ Msb(x, w) # Msb(r, w))

\* With a borrow in.  y + c is computed in a uint32_t.
ALUOPSub3(x, y, c, w) ==
  LET n == Wrap(-y)
      m == IF c = 1 THEN Wrap(Ones(Host) - y) ELSE n
      r == Wrap(x + n - c)
  IN  Result(r, w, x < Wrap(y + c), Nibble(x) < Nibble(y) + c,
             Msb(x, w) = Msb(m, w) /\ Msb(x, w) # Msb(r, w))

\* The number whose bits are S, from the lowest bit up.
Number(S, w) ==
  LET low[n \in 0..w] == IF n = 0 THEN 0
                         ELSE low[n - 1] + (IF n - 1 \in S THEN 2^(n - 1) ELSE 0)
  IN  low[w]

\* updateFlags_OSZPC: CF and OF are cleared, AF stays.
Logic(S, w, f) ==
  LET v == Number(S, w)
  IN  [val |-> v, f |-> [f EXCEPT !.cf = 0, !.of = 0, !.zf = Flag(v = 0), !.sf = Msb(v, w)]]

Bits(v, w) == {i \in 0..w - 1 : BitOf(v, i) = 1}

ALUOPand(x, y, w, f) == Logic(Bits(x, w) \cap Bits(y, w), w, f)
ALUOPor(x, y, w, f)  == Logic(Bits(x, w) \cup Bits(y, w), w, f)
ALUOPxor(x, y, w, f) ==
  Logic((Bits(x, w) \ Bits(y, w)) \cup (Bits(y, w) \ Bits(x, w)), w, f)
=============================================================================
