---------------------------- MODULE Instructions ----------------------------
(***************************************************************************)
(* The arithmetic instructions of the emulated CPU (src/src/ExInst86.c,    *)
(* ExInst386.c, ExInst186.c), executed one after another by a small guest  *)
(* routine.  An action is the handler of an instruction, from the read of  *)
(* its operands to the write of its result.                                *)
(*                                                                         *)
(* An instruction is [op, w, d, s, n]: its width in bits, destination and  *)
(* source registers ("imm" for the number n); n is also a shift count or   *)
(* the target of a jump.  The registers ax and dx are the halves of the    *)
(* accumulator pair: DX:AX, EDX:EAX, and for bytes AH:AL.                  *)
(*                                                                         *)
(* The CPU is an 80386 or later.  As an 8086 or 80186 ex86 takes a shift   *)
(* count as it is, up to 255 (ExInst86.c:1612); that is not modelled.      *)
(***************************************************************************)
EXTENDS ALU, Sequences

CONSTANTS CountMask,    \* 0x1f: a shift count is taken modulo CountMask + 1
          Byte          \* the width of a byte

\* A count reaches every bit of the widest operand (31 and 32).
ASSUME InstructionsAssumption ==
  /\ CountMask \in Nat \ {0} /\ CountMask <= Host /\ Host <= CountMask + 1
  /\ Byte \in Nat /\ Byte > 4 /\ Byte < Host

Regs == {"ax", "bx", "cx", "dx", "si"}

VARIABLES code,   \* the routine
          regs, flags,
          ip,     \* the instruction to be executed, counted from 1
          trap    \* none; #DE; unknown: the handler gave up; host: ex86 itself died

vars == <<code, regs, flags, ip, trap>>

I == code[ip]
Running(op) == trap = "none" /\ ip <= Len(code) /\ I.op \in op
Dst == regs[I.d]
Src == IF I.s = "imm" THEN I.n ELSE regs[I.s]
Signed(v, w) == IF v >= Top(w) THEN v - 2^w ELSE v
Pair(w) == regs["dx"] * 2^w + regs["ax"]
SetPair(v, w) == [regs EXCEPT !["ax"] = Cut(v, w), !["dx"] = Cut(v \div 2^w, w)]
Advance == ip' = ip + 1 /\ UNCHANGED <<code, trap>>
Fault(t) == trap' = t /\ UNCHANGED <<code, regs, flags, ip>>
Write(r) == regs' = [regs EXCEPT ![I.d] = r.val] /\ flags' = r.f

exMov ==
  /\ Running({"mov"})
  /\ regs' = [regs EXCEPT ![I.d] = Src]
  /\ Advance /\ UNCHANGED flags

ALU2OP(op, x, y, w) ==
  CASE op = "add" -> ALUOPAdd(x, y, w)
    [] op = "adc" -> ALUOPAdd3(x, y, flags.cf, w)
    [] op = "sub" -> ALUOPSub(x, y, w)
    [] op = "sbb" -> ALUOPSub3(x, y, flags.cf, w)
    [] op = "and" -> ALUOPand(x, y, w, flags)
    [] op = "or"  -> ALUOPor(x, y, w, flags)
    [] op = "xor" -> ALUOPxor(x, y, w, flags)

exALU2OP ==
  /\ Running({"add", "adc", "sub", "sbb", "and", "or", "xor"})
  /\ Write(ALU2OP(I.op, Dst, Src, I.w))
  /\ Advance

\* CMP and TEST set the flags only.
exCMP ==
  /\ Running({"cmp"})
  /\ flags' = ALUOPSub(Dst, Src, I.w).f
  /\ Advance /\ UNCHANGED regs

exTEST ==
  /\ Running({"test"})
  /\ flags' = ALUOPand(Dst, Src, I.w, flags).f
  /\ Advance /\ UNCHANGED regs

\* CF is put back.
exINCDEC ==
  /\ Running({"inc", "dec"})
  /\ LET r == IF I.op = "inc" THEN ALUOPAdd(Dst, 1, I.w) ELSE ALUOPSub(Dst, 1, I.w)
     IN  Write([r EXCEPT !.f.cf = flags.cf])
  /\ Advance

exNEGNOT ==
  /\ Running({"neg", "not"})
  /\ Write(IF I.op = "neg" THEN [ALUOPSub(0, Dst, I.w) EXCEPT !.f.cf = Flag(Dst # 0)]
           ELSE [val |-> Ones(I.w) - Dst, f |-> flags])
  /\ Advance

\* MUTANT of TooWide: a product that fills the lower half counts as negative.
TooWide_UpperHalf(op, p, w) ==
  IF op = "mul" THEN p \div 2^w # 0 ELSE p \div 2^w \notin {0, 2^w - 1}

\* The flags of a product p in a type of 2w bits: IMUL looks at the upper w + 1
\* bits, which are all equal if the lower half holds the product.
TooWide(op, p, w) ==
  IF op = "mul" THEN p \div 2^w # 0
  ELSE p \div Top(w) \notin {0, 2^(w + 1) - 1}

SetCarryOverflow(b) == flags' = [flags EXCEPT !.cf = Flag(b), !.of = Flag(b)]
Product(op, x, y, w) ==
  IF op = "mul" THEN x * y ELSE (Signed(x, w) * Signed(y, w)) % 2^(2 * w)

exMUL ==
  /\ Running({"mul", "imul"})
  /\ LET p == Product(I.op, regs["ax"], Src, I.w)
     IN  regs' = SetPair(p, I.w) /\ SetCarryOverflow(TooWide(I.op, p, I.w))
  /\ Advance

exIMUL2Op ==
  /\ Running({"imul2"})
  /\ LET p == Product("imul", Dst, Src, I.w)
     IN  regs' = [regs EXCEPT ![I.d] = Cut(p, I.w)] /\ SetCarryOverflow(TooWide("imul", p, I.w))
  /\ Advance

\* Division in C: towards zero, the remainder has the sign of the dividend.
Quotient(n, d) == IF (n < 0) = (d < 0) THEN (IF n < 0 THEN -n ELSE n) \div (IF d < 0 THEN -d ELSE d)
                  ELSE -((IF n < 0 THEN -n ELSE n) \div (IF d < 0 THEN -d ELSE d))

Fits(q, w, signed) ==
  IF signed THEN -Top(w) <= q /\ q < Top(w) ELSE q <= Ones(w)

\* DIV and IDIV.  A divisor of 0 gives a quotient that does not fit.  The byte
\* form divides in a wider type; the others divide 2w bits by -1 in 2w bits,
\* which for the least dividend is undefined in C: an x86 host kills ex86, others
\* wrap around to a quotient that does not fit.
exDIV ==
  /\ Running({"div", "idiv"})
  /\ LET signed == I.op = "idiv"
         n == IF signed THEN Signed(Pair(I.w), 2 * I.w) ELSE Pair(I.w)
         d == IF signed THEN Signed(Src, I.w) ELSE Src
         undefined == signed /\ d = -1 /\ n = -Top(2 * I.w) /\ I.w # Byte
     IN  IF undefined THEN Fault("host") \/ Fault("#DE")
         ELSE IF d = 0 \/ ~Fits(Quotient(n, d), I.w, signed) THEN Fault("#DE")
         ELSE /\ regs' = [regs EXCEPT !["ax"] = Cut(Quotient(n, d), I.w),
                                      !["dx"] = Cut(n - d * Quotient(n, d), I.w)]
              /\ Advance /\ UNCHANGED flags

\* CBW, CWD, CDQ
exConvSiz ==
  /\ Running({"cwd"})
  /\ regs' = [regs EXCEPT !["dx"] = IF Msb(regs["ax"], I.w) = 1 THEN Ones(I.w) ELSE 0]
  /\ Advance /\ UNCHANGED flags
-----------------------------------------------------------------------------
(***************************************************************************)
(* Decimal adjustment.                                                     *)
(***************************************************************************)
AL == regs["ax"]
AH == regs["dx"]
SetAX(v) == regs' = [regs EXCEPT !["ax"] = v % 256, !["dx"] = (v \div 256) % 256]
ZeroSign(v) == [flags EXCEPT !.zf = Flag(v = 0), !.sf = Msb(v, 8)]

exDAA ==
  /\ Running({"daa"})
  /\ LET low == Nibble(AL) > 9 \/ flags.af = 1
         high == AL > 153 \/ flags.cf = 1
         r == (AL + (IF low THEN 6 ELSE 0) + (IF high THEN 96 ELSE 0)) % 256
     IN  /\ regs' = [regs EXCEPT !["ax"] = r]
         /\ flags' = [ZeroSign(r) EXCEPT !.af = Flag(low), !.cf = Flag(high)]
  /\ Advance

\* A borrow of the first correction counts as well.
exDAS ==
  /\ Running({"das"})
  /\ LET low == Nibble(AL) > 9 \/ flags.af = 1
         high == AL > 153 \/ flags.cf = 1
         r == (AL - (IF low THEN 6 ELSE 0) - (IF high THEN 96 ELSE 0)) % 256
     IN  /\ regs' = [regs EXCEPT !["ax"] = r]
         /\ flags' = [ZeroSign(r) EXCEPT !.af = Flag(low),
                                         !.cf = Flag(high \/ (low /\ AL < 6))]
  /\ Advance

exAAS ==
  /\ Running({"aas"})
  /\ LET adjust == Nibble(AL) > 9 \/ flags.af = 1
         v == (AH * 256 + AL - 6) % 65536
     IN  /\ SetAX(IF adjust THEN ((v \div 256 - 1) % 256) * 256 + Nibble(v)
                  ELSE AH * 256 + Nibble(AL))
         /\ flags' = [flags EXCEPT !.cf = Flag(adjust), !.af = Flag(adjust)]
  /\ Advance

exAAM ==
  /\ Running({"aam"})
  /\ IF I.n = 0 THEN Fault("unknown")
     ELSE /\ SetAX((AL \div I.n) * 256 + (AL % I.n))
          /\ flags' = ZeroSign(AL % I.n)
          /\ Advance

exAAD ==
  /\ Running({"aad"})
  /\ LET v == (AH * I.n + AL) % 256 IN SetAX(v) /\ flags' = ZeroSign(v)
  /\ Advance
-----------------------------------------------------------------------------
(***************************************************************************)
(* Shifts and rotations: one bit at a time, on [v, cf, of].                *)
(***************************************************************************)
\* A value may grow past the operand.
Left(v, in, w) ==
  LET u == Wrap(2 * v + in)
  IN  [v |-> u, cf |-> Msb(v, w), of |-> Flag(Msb(u, w) # Msb(v, w))]

\* MUTANT of Right: the high bit stays empty.
Right_Empty(v, in, w) ==
  LET u == v \div 2 IN [v |-> u, cf |-> v % 2, of |-> Flag(Msb(u, w) # BitOf(u, w - 2))]

Right(v, in, w) ==
  LET u == v \div 2 + in * Top(w)
  IN  [v |-> u, cf |-> v % 2, of |-> Flag(Msb(u, w) # BitOf(u, w - 2))]

ShiftOnce(op, x, w) ==
  CASE op = "shl" -> [Left(x.v, 0, w) EXCEPT !.v = Cut(@, w)]
    [] op = "rol" -> Left(x.v, Msb(x.v, w), w)
    [] op = "rcl" -> Left(x.v, x.cf, w)
    [] op = "shr" -> [Right(x.v, 0, w) EXCEPT !.of = Msb(x.v, w)]
    [] op = "sar" -> [Right(x.v, Msb(x.v, w), w) EXCEPT !.of = 0]
    [] op = "ror" -> Right(x.v, x.v % 2, w)
    [] op = "rcr" -> Right(x.v, x.cf, w)

Shifted(op, x, w) ==
  LET after[k \in 0..CountMask] == IF k = 0 THEN x ELSE ShiftOnce(op, after[k - 1], w)
  IN  after

\* SF and ZF follow the value of a shift even if the count is 0; a rotation
\* leaves them alone.
exShift ==
  /\ Running({"shl", "shr", "sar", "rol", "ror", "rcl", "rcr"})
  /\ LET count == (IF I.s = "imm" THEN I.n ELSE regs["cx"]) % (CountMask + 1)
         x == Shifted(I.op, [v |-> Dst, cf |-> flags.cf, of |-> flags.of], I.w)[count]
         f == [flags EXCEPT !.cf = x.cf, !.of = x.of]
     IN  Write([val |-> Cut(x.v, I.w),
                f |-> IF I.op \in {"shl", "shr", "sar"}
                      THEN [f EXCEPT !.zf = Flag(x.v = 0), !.sf = Msb(x.v, I.w)]
                      ELSE f])
  /\ Advance

\* SHLD and SHRD; a count of 0 or beyond the width does nothing at all.
exShiftDouble ==
  /\ Running({"shld", "shrd"})
  /\ LET k == I.n % (CountMask + 1)
         x == Dst
         y == regs[I.s]
         r == IF I.op = "shld" THEN Cut(x * 2^k, I.w) + y \div 2^(I.w - k)
              ELSE x \div 2^k + Cut(y, k) * 2^(I.w - k)
     IN  IF k = 0 \/ k > I.w THEN UNCHANGED <<regs, flags>>
         ELSE Write([val |-> r,
                     f |-> [flags EXCEPT
                       !.cf = IF I.op = "shld" THEN BitOf(x, I.w - k) ELSE BitOf(x, k - 1),
                       !.of = IF I.op = "shld" THEN Flag(Msb(x, I.w) # BitOf(x, I.w - 2))
                              ELSE Flag(Msb(x, I.w) # y % 2),
                       !.zf = Flag(r = 0), !.sf = Msb(r, I.w)]])
  /\ Advance
-----------------------------------------------------------------------------
(***************************************************************************)
(* Conditions and jumps.                                                   *)
(***************************************************************************)
Conditions == {"o", "b", "e", "be", "s", "l", "le"}

Holds(c) ==
  CASE c = "o" -> flags.of = 1  [] c = "b" -> flags.cf = 1
    [] c = "e" -> flags.zf = 1  [] c = "be" -> flags.cf = 1 \/ flags.zf = 1
    [] c = "s" -> flags.sf = 1  [] c = "l" -> flags.sf # flags.of
    [] c = "le" -> flags.sf # flags.of \/ flags.zf = 1

Jump(taken) ==
  /\ ip' = IF taken THEN I.n ELSE ip + 1
  /\ UNCHANGED <<code, flags, trap>>

\* Jcc and JNcc
exCondJump == Running({"j", "jn"}) /\ Jump(Holds(I.s) = (I.op = "j")) /\ UNCHANGED regs

exSETcc ==
  /\ Running({"set", "setn"})
  /\ regs' = [regs EXCEPT ![I.d] = Flag(Holds(I.s) = (I.op = "set"))]
  /\ Advance /\ UNCHANGED flags

\* MUTANT of exLOOP: the counter is tested before it is decremented.
exLOOP_TestFirst ==
  /\ Running({"loop", "loope", "loopne"})
  /\ Jump(regs["cx"] # 0)
  /\ regs' = [regs EXCEPT !["cx"] = Cut(@ - 1, I.w)]

\* The counter wraps around: a count of 0 is 2^w iterations.  No flag changes.
exLOOP ==
  /\ Running({"loop", "loope", "loopne"})
  /\ regs' = [regs EXCEPT !["cx"] = Cut(@ - 1, I.w)]
  /\ Jump(regs'["cx"] # 0 /\ (I.op = "loope" => flags.zf = 1)
                          /\ (I.op = "loopne" => flags.zf = 0))

exJCXZ == Running({"jcxz"}) /\ Jump(regs["cx"] = 0) /\ UNCHANGED regs

Next ==
  \/ exMov \/ exALU2OP \/ exCMP \/ exTEST \/ exINCDEC \/ exNEGNOT
  \/ exMUL \/ exIMUL2Op \/ exDIV \/ exConvSiz
  \/ exDAA \/ exDAS \/ exAAS \/ exAAM \/ exAAD
  \/ exShift \/ exShiftDouble
  \/ exCondJump \/ exSETcc \/ exLOOP \/ exJCXZ

Finished == trap = "none" /\ ip > Len(code)
=============================================================================
