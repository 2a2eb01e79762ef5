------------------------------ MODULE Routines ------------------------------
(***************************************************************************)
(* What guest programs rely on the arithmetic instructions for: the usual  *)
(* idioms, whose parts hand values and flags to one another, run by the    *)
(* handlers of Instructions.                                               *)
(***************************************************************************)
EXTENDS Instructions

CONSTANTS Widths,  \* operand widths
          Word,    \* the width of the loops, and that up to which small routines run on every operand
          Double,  \* the same for routines on four registers
          Chosen   \* the routines of this instance

\* Narrower operands have no room for a carry below the sign.
ASSUME RoutinesAssumption ==
  /\ Widths \subseteq 2..Host
  /\ Word \in 2..Host /\ Double \in Nat
  /\ 8 <= Host

VARIABLES name,    \* the routine
          width,
          start    \* [regs, cf] at its start

allvars == <<vars, name, width, start>>

RR(op, w, d, s) == [op |-> op, w |-> w, d |-> d, s |-> s, n |-> 0]
RI(op, w, d, n) == [op |-> op, w |-> w, d |-> d, s |-> "imm", n |-> n]
AX(op, w, s) == RR(op, w, "ax", s)
To(op, cond, n) == [op |-> op, w |-> Word, d |-> "cx", s |-> cond, n |-> n]

WideSum(w) == <<AX("add", w, "bx"), RI("inc", w, "cx", 1), RR("adc", w, "dx", "si")>>
WideDifference(w) == <<AX("sub", w, "bx"), RI("dec", w, "cx", 1), RR("sbb", w, "dx", "si")>>
WideNegate(w) == <<RI("neg", w, "dx", 0), RI("neg", w, "ax", 0), RI("sbb", w, "dx", 0)>>
WideComplement(w) ==
  <<RI("not", w, "dx", 0), RI("not", w, "ax", 0), RI("add", w, "ax", 1), RI("adc", w, "dx", 0)>>

\* cx, si and dx become: the condition, its negation, whether the jump is not taken.
Compare(w, c) ==
  <<AX("cmp", w, "bx"), RR("set", w, "cx", c), RR("setn", w, "si", c),
    To("j", c, 6), RI("mov", w, "dx", 1)>>

DecimalSum == <<AX("adc", 8, "bx"), RI("daa", 8, "ax", 0)>>
DecimalDifference == <<AX("sbb", 8, "bx"), RI("das", 8, "ax", 0)>>
UnpackedDifference == <<AX("sbb", 8, "bx"), RI("aas", 8, "ax", 0)>>
Radix(n) == <<RI("aam", 8, "ax", n), RI("aad", 8, "ax", n)>>

MultiplyDivide(mul, div, w) == <<AX(mul, w, "bx"), AX(div, w, "bx")>>
Divide(div, w) == <<AX(div, w, "bx")>>
SignedDivide(w) == <<AX("cwd", w, "ax"), AX("idiv", w, "bx")>>

ShiftLeft(w) == <<RI("shl", w, "ax", 1), RI("rcl", w, "dx", 1)>>
ShiftRight(op, w) == <<RI(op, w, "dx", 1), RI("rcr", w, "ax", 1)>>
DoubleLeft(w, n) == <<[RI("shld", w, "dx", n) EXCEPT !.s = "ax"], RI("shl", w, "ax", n)>>
DoubleRight(op, w, n) == <<[RI("shrd", w, "ax", n) EXCEPT !.s = "dx"], RI(op, w, "dx", n)>>
RotateBack(l, r, w, n) == <<RI(l, w, "ax", n), RI(r, w, "ax", n)>>

\* A quotient bit per iteration: ax becomes the quotient, dx the remainder.
LongDivision(w) ==
  <<RI("shl", w, "ax", 1), RI("rcl", w, "dx", 1), RR("cmp", w, "dx", "bx"), To("j", "b", 7),
    RR("sub", w, "dx", "bx"), RI("inc", w, "ax", 1), To("loop", "", 1)>>
\* Shift and add; repeated addition with a double-width sum in si:dx.
ShiftAndAdd(w) ==
  <<RI("test", w, "bx", 1), To("j", "e", 4), RR("add", w, "dx", "ax"),
    RI("shl", w, "ax", 1), RI("shr", w, "bx", 1), To("jn", "e", 1)>>
RepeatedSum(w) ==
  <<To("jcxz", "", 5), RR("add", w, "dx", "ax"), RI("adc", w, "si", 0), To("loop", "", 2)>>
ShortProduct(w) == <<AX("imul2", w, "bx")>>
\* Count up to bx, and up to the highest one bit of ax, but at most cx times.
CountTo(w) == <<RI("inc", w, "dx", 1), RR("cmp", w, "dx", "bx"), To("loopne", "", 1)>>
LeadingOne(w) ==
  <<RI("rol", w, "ax", 1), RI("inc", w, "dx", 1), RI("test", w, "ax", 1), To("loope", "", 1)>>

\* Without a branch: the absolute value, the minimum (in bx), the sign.
Absolute(w) == <<AX("cwd", w, "ax"), AX("xor", w, "dx"), AX("sub", w, "dx")>>
Minimum(w) ==
  <<AX("sub", w, "bx"), RR("sbb", w, "cx", "cx"), RR("and", w, "cx", "ax"),
    RR("add", w, "bx", "cx")>>
Sign(w) ==
  <<RR("mov", w, "bx", "ax"), RI("sar", w, "ax", w - 1), RI("neg", w, "bx", 0),
    RI("shr", w, "bx", w - 1), AX("or", w, "bx")>>
-----------------------------------------------------------------------------
\* Values at which something wraps around, and every value of a small width.
Edges(w) == {0, 1, 15, 16, Top(w) - 1, Top(w), Top(w) + 1, Ones(w) - 1, Ones(w)} \cap 0..Ones(w)
Values(w) == IF w <= Word THEN 0..Ones(w) ELSE Edges(w)
Quads(w) == IF w <= Double THEN 0..Ones(w) ELSE Edges(w)
Decimals == {16 * t + u : t \in 0..9, u \in 0..9}

\* Start the routine n with the program c, the registers' values taken from sets.
Start(n, w, c, A, B, C, D, S) ==
  /\ n \in Chosen
  /\ name = n /\ width = w /\ code = c
  /\ \E a \in A, b \in B, k \in C, d \in D, s \in S, cf \in {0, 1} :
       /\ regs = [r \in Regs |-> CASE r = "ax" -> a [] r = "bx" -> b [] r = "cx" -> k
                                   [] r = "dx" -> d [] r = "si" -> s]
       /\ flags = [f \in FlagNames |-> IF f = "cf" THEN cf ELSE 0]
       /\ start = [regs |-> regs, cf |-> cf]

Z == {0}
InitSums(w) ==
  LET E == Quads(w)
  IN  \/ Start("sum", w, WideSum(w), E, E, Z, E, E)
      \/ Start("difference", w, WideDifference(w), E, E, Z, E, E)
      \/ Start("negate", w, WideNegate(w), E, Z, Z, E, Z)
      \/ Start("negate", w, WideComplement(w), E, Z, Z, E, Z)
      \/ \E c \in Conditions : Start("compare", w, Compare(w, c), Values(w), Values(w), Z, Z, Z)

InitDecimals ==
  \/ Start("decimal_sum", 8, DecimalSum, Decimals, Decimals, Z, Z, Z)
  \/ Start("decimal_difference", 8, DecimalDifference, Decimals, Decimals, Z, Z, Z)
  \/ Start("unpacked_difference", 8, UnpackedDifference, 0..9, 0..9, Z, 0..9, Z)
  \/ \E n \in {0, 2, 10, 16} : Start("radix", 8, Radix(n), 0..255, Z, Z, Z, Z)

InitProducts(w) ==
  LET V == Values(w)
  IN  \/ Start("multiply_divide", w, MultiplyDivide("mul", "div", w), V, V \ Z, Z, Z, Z)
      \/ Start("multiply_divide", w, MultiplyDivide("imul", "idiv", w), V, V \ Z, Z, Z, Z)
      \/ Start("divide", w, Divide("div", w), V, Edges(w), Z, V, Z)
      \/ Start("signed_divide", w, Divide("idiv", w), V, Edges(w), Z, V, Z)
      \/ Start("extend_divide", w, SignedDivide(w), V, V, Z, Z, Z)
      \/ Start("short_product", w, ShortProduct(w), V, V, Z, Z, Z)

InitShifts(w) ==
  LET E == Edges(w)
  IN  \/ Start("shl", w, ShiftLeft(w), E, Z, Z, E, Z)
      \/ \E op \in {"sar", "shr"} : Start(op, w, ShiftRight(op, w), E, Z, Z, E, Z)
      \/ \E n \in 0..CountMask + 2 :
           \/ Start("shl", w, DoubleLeft(w, n), E, Z, Z, E, Z)
           \/ \E op \in {"sar", "shr"} : Start(op, w, DoubleRight(op, w, n), E, Z, Z, E, Z)
           \/ Start("rotate", w, RotateBack("rol", "ror", w, n), Values(w), Z, Z, Z, Z)
           \/ Start("rotate", w, RotateBack("rcl", "rcr", w, n), Values(w), Z, Z, Z, Z)

InitLoops(w) ==
  LET V == Values(w)
  IN  \/ Start("long_division", w, LongDivision(w), V, 1..Top(w), {w}, Z, Z)
      \/ Start("repeated_sum", w, RepeatedSum(w), V, Z, V, Z, Z)
      \/ Start("shift_and_add", w, ShiftAndAdd(w), V, V, Z, Z, Z)
      \/ Start("count_to", w, CountTo(w), Z, V \ Z, V \ Z, Z, Z)
      \/ Start("leading_one", w, LeadingOne(w), V, Z, {w}, Z, Z)

InitBranchless(w) ==
  LET V == Values(w)
  IN  \/ Start("absolute", w, Absolute(w), V, Z, Z, Z, Z)
      \/ Start("minimum", w, Minimum(w), V, V, Z, Z, Z)
      \/ Start("sign", w, Sign(w), V, Z, Z, Z, Z)

Init ==
  /\ ip = 1 /\ trap = "none"
  /\ \/ \E w \in Widths : InitSums(w) \/ InitShifts(w) \/ InitBranchless(w)
     \/ \E w \in Widths \ {Host} : InitProducts(w)
     \/ InitDecimals \/ InitLoops(Word)

Spec == Init /\ [][Next /\ UNCHANGED <<name, width, start>>]_allvars
-----------------------------------------------------------------------------
(***************************************************************************)
(* Properties: what a routine leaves behind, against integer arithmetic.   *)
(***************************************************************************)
Ended(N) == name \in N /\ Finished
Two(hi, lo) == hi * 2^width + lo
Old == start.regs
A == Two(Old["dx"], Old["ax"])
B == Two(Old["si"], Old["bx"])
R == Two(regs["dx"], regs["ax"])
InRange(n, w) == -Top(w) <= n /\ n < Top(w)

\* ADD and ADC, with an INC between them, are one addition of double width, at
\* every width: the value, the carry and the signed overflow.  NEG, NEG, SBB and
\* NOT, NOT, ADD, ADC negate (ALUOPAdd, ALUOPAdd3, exINCDEC, exNEGNOT).
WideSumExact ==
  /\ Ended({"sum"}) =>
       /\ A + B = R + flags.cf * 2^(2 * width)
       /\ (flags.of = 1) = ~InRange(Signed(A, 2 * width) + Signed(B, 2 * width), 2 * width)
  /\ Ended({"negate"}) => R = (-A) % 2^(2 * width)

\* SUB and SBB, with a DEC between them, are one subtraction of double width.
\* Two cases are excepted, in which ALUOPSub3 is wrong: the borrow of a doubleword
\* when the subtrahend plus the borrow wraps around, and the signed overflow when
\* the subtrahend is the least number.
WideDifferenceExact ==
  Ended({"difference"}) =>
    LET borrowed == Old["ax"] < Old["bx"]
        signedDiff == Signed(A, 2 * width) - Signed(B, 2 * width)
    IN  /\ R = (A - B) % 2^(2 * width)
        /\ (width = Host /\ borrowed /\ Old["si"] = Ones(width)) \/ flags.cf = Flag(A < B)
        /\ \/ ~borrowed /\ Old["si"] = Top(width)
           \/ (flags.of = 1) = ~InRange(signedDiff, 2 * width)

\* What the condition c says of x and y after CMP x, y.
Truth(c, x, y) ==
  LET diff == Signed(x, width) - Signed(y, width)
  IN  CASE c = "b" -> x < y    [] c = "be" -> x <= y
        [] c = "l" -> diff < 0 [] c = "le" -> diff <= 0
        [] c = "e" -> x = y    [] c = "o" -> ~InRange(diff, width)
        [] c = "s" -> Msb((x - y) % 2^width, width) = 1

Decided == LET t == Flag(Truth(code[2].s, Old["ax"], Old["bx"]))
           IN  regs["cx"] = t /\ regs["si"] = 1 - t /\ regs["dx"] = 1 - t

SignedConditions == {"l", "le", "o"}

\* After CMP, SETcc, SETNcc and Jcc agree with one another and with the order of
\* the integers; the signed conditions except for the least number, in which
\* ALUOPSub is wrong.
CompareDecides ==
  Ended({"compare"}) =>
    (code[2].s \in SignedConditions /\ Old["bx"] = Top(width)) \/ Decided

\* The same without exception (ALUOPSub: "signed overflow").
SignedCompareDecides == Ended({"compare"}) /\ code[2].s \in SignedConditions => Decided

Decimal(v) == 10 * (v \div 16) + (v % 16)

\* ADC and DAA, SBB and DAS compute with two decimal digits, carries in and out
\* included; SBB and AAS with one, borrowing from AH; AAM and AAD are inverse.
DecimalExact ==
  /\ Ended({"decimal_sum", "decimal_difference"}) => regs["ax"] \in Decimals
  /\ Ended({"decimal_sum"}) =>
       Decimal(Old["ax"]) + Decimal(Old["bx"]) + start.cf = Decimal(regs["ax"]) + 100 * flags.cf
  /\ Ended({"decimal_difference"}) =>
       Decimal(Old["ax"]) - Decimal(Old["bx"]) - start.cf = Decimal(regs["ax"]) - 100 * flags.cf
  /\ Ended({"unpacked_difference"}) =>
       /\ Old["ax"] - Old["bx"] - start.cf = regs["ax"] - 10 * flags.cf
       /\ regs["dx"] = (Old["dx"] - flags.cf) % 256
  /\ Ended({"radix"}) => regs["ax"] = Old["ax"] /\ regs["dx"] = 0

\* Carries and borrows, binary and decimal, go from one instruction to the next as
\* if the operands were one number.
SumsExact == WideSumExact /\ WideDifferenceExact /\ DecimalExact

\* A product divided by one factor is the other; CF tells whether it fitted.
ProductDividesBack ==
  /\ name = "multiply_divide" => trap = "none"
  /\ Ended({"multiply_divide"}) =>
       LET mul == code[1].op = "mul"
           Of(v) == IF mul THEN v ELSE Signed(v, width)
           p == Of(Old["ax"]) * Of(Old["bx"])
       IN  /\ regs["ax"] = Old["ax"] /\ regs["dx"] = 0
           /\ (flags.cf = 0) = (IF mul THEN p < 2^width ELSE InRange(p, width))
  /\ Ended({"short_product"}) => regs["ax"] = (Old["ax"] * Old["bx"]) % 2^width

\* DIV and IDIV give the quotient and the remainder, or #DE if the quotient does
\* not fit; ex86 itself dies only dividing the least number by -1.
Least(d) == d = -1 /\ Signed(A, 2 * width) = -Top(2 * width)
Divides(n, d, q, r) == n = q * d + r /\ (IF d < 0 THEN r > d /\ r < -d ELSE r < d /\ r > -d)
                                     /\ (r = 0 \/ (r < 0) = (n < 0))
DivideExactOrFaults ==
  /\ name = "divide" =>
       LET d == Old["bx"]
       IN  /\ Finished => Divides(A, d, regs["ax"], regs["dx"])
           /\ trap # "none" => trap = "#DE" /\ (d = 0 \/ Old["dx"] >= d)
  /\ name = "signed_divide" =>
       LET d == Signed(Old["bx"], width)
           n == Signed(A, 2 * width)
       IN  /\ Finished =>
                Divides(n, d, Signed(regs["ax"], width), Signed(regs["dx"], width))
           /\ trap # "none" =>
                d = 0 \/ \A q \in -Top(width)..Top(width) - 1 : ~Divides(n, d, q, n - q * d)
           /\ trap = "host" => Least(d)
  /\ name = "extend_divide" =>
       LET d == Signed(Old["bx"], width)
       IN  trap # "none" =>
             trap = "#DE" /\ (d = 0 \/ (d = -1 /\ Old["ax"] = Top(width)))

\* Multiplication and division are exact, and inverse, wherever they do not fault.
ProductsExact == ProductDividesBack /\ DivideExactOrFaults

\* Shifts through CF, and the double shifts, multiply and divide a number of
\* double width by a power of two, rounding down; CF is the bit that fell out.
ShiftsScale ==
  LET double == code[1].op \in {"shld", "shrd"}
      n == IF double THEN code[1].n % (CountMask + 1) ELSE 1
      w == 2 * width
  IN  n <= width =>
        /\ Ended({"shl"}) => R = (A % 2^(w - n)) * 2^n
        /\ Ended({"shr"}) => R = A \div 2^n
        /\ Ended({"sar"}) => R = (Signed(A, w) \div 2^n) % 2^w
        /\ Ended({"shl", "shr", "sar"}) /\ ~double =>
             flags.cf = IF name = "shl" THEN Msb(A, w) ELSE A % 2

\* A rotation and its inverse restore the operand, and CF if it takes part.
RotationsInvert ==
  Ended({"rotate"}) =>
    regs["ax"] = Old["ax"] /\ (code[1].op = "rcl" => flags.cf = start.cf)

\* Shifts and rotations move every bit to where arithmetic says.
ShiftsExact == ShiftsScale /\ RotationsInvert

\* Loops built on CF, ZF and the counter compute what the instructions do at once.
LoopsCompute ==
  LET Lower(x, y) == IF x < y THEN x ELSE y
  IN  /\ Ended({"long_division"}) =>
           regs["ax"] * Old["bx"] + regs["dx"] = Old["ax"] /\ regs["dx"] < Old["bx"]
      /\ Ended({"repeated_sum"}) => Two(regs["si"], regs["dx"]) = Old["ax"] * Old["cx"]
      /\ Ended({"shift_and_add"}) => regs["dx"] = (Old["ax"] * Old["bx"]) % 2^width
      /\ Ended({"count_to"}) => regs["dx"] = Lower(Old["bx"], Old["cx"])
      /\ Ended({"leading_one"}) =>
           LET k == regs["dx"]
           IN  \/ Old["ax"] = 0 /\ k = width
               \/ Old["ax"] \in 2^(width - k)..2^(width - k + 1) - 1

\* Masks made from a sign or a borrow select the right value.
BranchlessExact ==
  LET a == Signed(Old["ax"], width)
  IN  /\ Ended({"absolute"}) => regs["ax"] = IF a < 0 THEN -a ELSE a
      /\ Ended({"minimum"}) =>
           regs["bx"] = IF Old["ax"] < Old["bx"] THEN Old["ax"] ELSE Old["bx"]
      /\ Ended({"sign"}) =>
           Signed(regs["ax"], width) = IF a < 0 THEN -1 ELSE IF a = 0 THEN 0 ELSE 1

\* Programs made of jumps, and programs made of masks, compute the same functions.
ProgramsExact == LoopsCompute /\ BranchlessExact
=============================================================================
