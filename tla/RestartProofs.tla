---------------------------- MODULE RestartProofs ----------------------------
(***************************************************************************)
(* Proofs about Restart: for every operand, every pattern of absent and    *)
(* read-only pages and any number of faults, an instruction whose steps    *)
(* keep a simple discipline is not disturbed by the faults, and the        *)
(* instructions of the emulator listed under Sound keep it.                *)
(*                                                                         *)
(* The discipline is that the steps before an access can be repeated: what *)
(* they changed they change again before they read it.  Then the machine a *)
(* fault leaves behind, run again from the first step, comes to the access *)
(* as it did before.                                                       *)
(***************************************************************************)
EXTENDS Restart, NaturalsInduction, WellFoundedInduction, TLAPS

\* Every page present and writable.
Granted == [p \in Pages |-> "write"]

Places == All \cup {"ea", "ea+1"}
Faults == [page : Pages, need : {"none", "read", "write"}]
Machines == [reg : [All -> Val], mem : [Val -> Val], in : Val, out : Seq(Val),
             stop : BOOLEAN, fault : Faults]

Accesses == {"load", "store"}
Ops == Accesses \cup {"move", "inc", "add", "sum", "adc", "cmp", "in", "out",
                      "while", "whileequal", "untilequal"}

\* A step names what it needs.
IsStep(x) ==
    /\ x.op \in Ops
    /\ x.op \in {"load", "move", "inc", "add", "sum", "adc", "cmp", "in"} => x.to \in All
    /\ x.op \in {"store", "move", "out"} => x.from \in All
    /\ x.op \in Accesses => x.at \in Places
    /\ x.op \in {"sum", "adc", "cmp"} => x.with \in All
    /\ x.op = "inc" => x.by \in {-1, 1}
    /\ x.op = "add" => x.by = 1
-----------------------------------------------------------------------------
(***************************************************************************)
(* One step.                                                               *)
(***************************************************************************)

\* Values and addresses.
LEMMA Values ==
  /\ 0 \in Val /\ 1 \in Val
  /\ \A n \in Int : n % Size \in Val
  /\ \A a \in Val : PageOf(a) \in Pages
  /\ EA \in Val /\ (EA + 1) % Size \in Val
<1>1. Size \in Nat /\ Size > 1 /\ EA \in 0 .. Size - 1
  BY RestartAssumption, OperandAssumption DEF Val
<1>2. \A n \in Int : n % Size \in 0 .. Size - 1
  BY <1>1
<1> QED
  BY <1>1, <1>2 DEF Val, Pages

\* A value is its own remainder.
LEMMA SmallValue == ASSUME NEW n \in Val PROVE n % Size = n
<1>1. Size \in Nat /\ Size > 1 /\ n \in Int /\ 0 <= n /\ n < Size
  BY RestartAssumption DEF Val
<1>2. ASSUME NEW q \in Int, NEW r \in 0 .. Size - 1, n = q * Size + r PROVE r = n
  <2>1. PICK p \in Int : p = q * Size
    BY <1>1
  <2>2. CASE q >= 1
    <3>1. p >= Size
      BY <1>1, <2>1, <2>2
    <3> QED BY <1>1, <1>2, <2>1, <3>1
  <2>3. CASE q <= -1
    <3>1. p <= -Size
      BY <1>1, <2>1, <2>3
    <3> QED BY <1>1, <1>2, <2>1, <3>1
  <2>4. CASE q = 0
    BY <1>1, <1>2, <2>4
  <2> QED BY <2>2, <2>3, <2>4
<1>3. \E q \in Int, r \in 0 .. Size - 1 : n = q * Size + r /\ r = n % Size
  <2>1. PICK q \in Int, r \in Int : q = n \div Size /\ r = n % Size
    BY <1>1
  <2>2. n = q * Size + r /\ 0 <= r /\ r < Size
    BY <1>1, <2>1
  <2>3. r \in 0 .. Size - 1 /\ r = n % Size
    BY <1>1, <2>1, <2>2
  <2> HIDE <2>1
  <2> QED BY <2>2, <2>3
<1> QED BY <1>2, <1>3

\* A carry is a value.
LEMMA Carries ==
  /\ \A v, w, c \in Val : Carry(v + w + c) \in Val
  /\ \A v, w \in Val : Carry(v + w) \in Val
  /\ \A v \in Val : Carry(v + 1) \in Val
<1>1. Size \in Nat /\ Size > 1
  BY RestartAssumption
<1>2. ASSUME NEW n \in Nat, n <= 3 * (Size - 1) PROVE n \div Size \in 0 .. Size - 1
  <2>1. PICK q \in Int : q = n \div Size
    BY <1>1
  <2>2. q * Size <= n /\ n < q * Size + Size
    BY <1>1, <2>1
  <2>3. 0 <= q
    BY <1>1, <2>2
  <2>4. CASE q >= 3
    <3>1. q * Size >= 3 * Size
      BY <1>1, <2>4
    <3> QED BY <1>1, <1>2, <2>2, <3>1
  <2>5. CASE q < 3 /\ Size > 2
    BY <1>1, <2>1, <2>3, <2>5
  <2>6. CASE q < 3 /\ Size = 2
    BY <1>1, <1>2, <2>2, <2>1, <2>3, <2>6
  <2> QED BY <1>1, <2>4, <2>5, <2>6, <2>1
<1> QED
  BY <1>1, <1>2 DEF Val, Carry

\* An address is one.
LEMMA Addresses ==
  ASSUME NEW s \in Machines, NEW x, x \in Places
  PROVE  At(x, s.reg) \in Val
BY Values DEF At, Machines, Places, All, Regs, Temps

\* An access that is allowed does its work, another one faults.
LEMMA AccessSteps ==
  ASSUME NEW s \in Machines, NEW x, IsStep(x), NEW R,
         s.fault = NoFault, ~s.stop
  PROVE  /\ x.op = "load" =>
              IF Allows(PageOf(At(x.at, s.reg)), "read", R)
              THEN Do(s, x, R) = [s EXCEPT !.reg[x.to] = s.mem[At(x.at, s.reg)]]
              ELSE Do(s, x, R) = [s EXCEPT !.fault = [page |-> PageOf(At(x.at, s.reg)), need |-> "read"]]
         /\ x.op = "store" =>
              IF Allows(PageOf(At(x.at, s.reg)), "write", R)
              THEN Do(s, x, R) = [s EXCEPT !.mem[At(x.at, s.reg)] = s.reg[x.from]]
              ELSE Do(s, x, R) = [s EXCEPT !.fault = [page |-> PageOf(At(x.at, s.reg)), need |-> "write"]]
BY DEF Do

\* The machine is in the middle of an instruction.
Running(s) == s.fault = NoFault /\ ~s.stop

\* What a step that does its work makes of the registers, the memory and the end.
RegAfter(s, x) ==
  LET g == s.reg
      Added(n) == [g EXCEPT ![x.to] = n % Size, !["cf"] = Carry(n)]
  IN  CASE x.op = "load" -> [g EXCEPT ![x.to] = s.mem[At(x.at, g)]]
        [] x.op = "move" -> [g EXCEPT ![x.to] = g[x.from]]
        [] x.op = "inc" -> [g EXCEPT ![x.to] = (g[x.to] + x.by) % Size]
        [] x.op = "add" -> Added(g[x.to] + x.by)
        [] x.op = "sum" -> Added(g[x.to] + g[x.with])
        [] x.op = "adc" -> Added(g[x.to] + g[x.with] + g["cf"])
        [] x.op = "cmp" -> [g EXCEPT !["zf"] = IF g[x.to] = g[x.with] THEN 1 ELSE 0]
        [] x.op = "in" -> [g EXCEPT ![x.to] = s.in]
        [] OTHER -> g
MemAfter(s, x) ==
  IF x.op = "store" THEN [s.mem EXCEPT ![At(x.at, s.reg)] = s.reg[x.from]] ELSE s.mem
StopAfter(s, x) ==
    \/ x.op = "while" /\ s.reg["cx"] = 0
    \/ x.op = "whileequal" /\ s.reg["zf"] = 0
    \/ x.op = "untilequal" /\ s.reg["zf"] # 0

Worked(n, s, x) ==
    /\ n \in Machines /\ n.fault = NoFault
    /\ n.reg = RegAfter(s, x) /\ n.mem = MemAfter(s, x) /\ n.stop = StopAfter(s, x)
    /\ x.op \notin {"in", "out"} => n.in = s.in /\ n.out = s.out

\* The registers keep their type.
LEMMA RegType ==
  ASSUME NEW s \in Machines, NEW x, IsStep(x)
  PROVE  RegAfter(s, x) \in [All -> Val]
<1>1. /\ s.reg \in [All -> Val] /\ s.mem \in [Val -> Val] /\ s.in \in Val
      /\ \A a \in Val : a \in Nat /\ a \in Int
      /\ {"cx", "zf", "cf"} \subseteq All
  BY RestartAssumption DEF Machines, Val, All, Regs
<1>2. CASE x.op = "load"
  <2>1. x.to \in All /\ s.mem[At(x.at, s.reg)] \in Val
    BY <1>1, <1>2, Addresses DEF IsStep, Accesses
  <2> QED BY <1>1, <1>2, <2>1 DEF RegAfter
<1>3. CASE x.op \in {"move", "cmp", "in"}
  BY <1>1, <1>3, Values DEF RegAfter, IsStep
<1>4. CASE x.op = "inc"
  <2>1. x.to \in All /\ s.reg[x.to] + x.by \in Int
    BY <1>1, <1>4 DEF IsStep
  <2> QED BY <1>1, <1>4, <2>1, Values DEF RegAfter
<1>5. CASE x.op = "add"
  <2>1. /\ x.to \in All /\ s.reg[x.to] + x.by \in Int /\ Carry(s.reg[x.to] + x.by) \in Val
    BY <1>1, <1>5, Carries DEF IsStep
  <2> QED BY <1>1, <1>5, <2>1, Values DEF RegAfter
<1>6. CASE x.op = "sum"
  <2>1. /\ x.to \in All /\ s.reg[x.to] + s.reg[x.with] \in Int
        /\ Carry(s.reg[x.to] + s.reg[x.with]) \in Val
    BY <1>1, <1>6, Carries DEF IsStep
  <2> QED BY <1>1, <1>6, <2>1, Values DEF RegAfter
<1>7. CASE x.op = "adc"
  <2>1. /\ x.to \in All /\ s.reg[x.to] + s.reg[x.with] + s.reg["cf"] \in Int
        /\ Carry(s.reg[x.to] + s.reg[x.with] + s.reg["cf"]) \in Val
    BY <1>1, <1>7, Carries DEF IsStep
  <2> QED BY <1>1, <1>7, <2>1, Values DEF RegAfter
<1>8. CASE x.op \in {"store", "out", "while", "whileequal", "untilequal"}
  BY <1>1, <1>8 DEF RegAfter
<1> QED
  BY <1>2, <1>3, <1>4, <1>5, <1>6, <1>7, <1>8 DEF IsStep, Ops, Accesses

\* An access faults or does its work; the other steps do theirs.
Faulted(n, s, x) ==
    /\ x.op \in Accesses
    /\ \E q \in Faults : q # NoFault /\ n = [s EXCEPT !.fault = q]

LEMMA StepEffect ==
  ASSUME NEW s \in Machines, NEW x, IsStep(x), NEW R, Running(s)
  PROVE  \/ Worked(Do(s, x, R), s, x) /\ Do(s, x, R) = Do(s, x, Granted)
         \/ Faulted(Do(s, x, R), s, x)
<1>1. /\ s.reg \in [All -> Val] /\ s.mem \in [Val -> Val] /\ s.in \in Val /\ s.out \in Seq(Val)
      /\ s.fault = NoFault /\ NoFault \in Faults /\ ~s.stop /\ s.stop \in BOOLEAN
  <2>1. 0 \in Pages
    <3>1. PageOf(0) = 0
      BY DEF PageOf
    <3> QED BY <3>1, Values
  <2> QED BY <2>1 DEF Machines, Running, NoFault, Faults
<1>2. RegAfter(s, x) \in [All -> Val]
  BY RegType
<1>3. CASE x.op \in Accesses
  <2> DEFINE a == At(x.at, s.reg)
             need == IF x.op = "load" THEN "read" ELSE "write"
  <2>1. a \in Val /\ PageOf(a) \in Pages /\ [page |-> PageOf(a), need |-> need] \in Faults
        /\ [page |-> PageOf(a), need |-> need] # NoFault
    BY <1>3, Addresses, Values DEF IsStep, Faults, NoFault
  <2>2. Allows(PageOf(a), need, Granted)
    BY <2>1 DEF Allows, Granted
  <2>3. CASE Allows(PageOf(a), need, R)
    <3>1. CASE x.op = "load"
      <4>1. Do(s, x, R) = [s EXCEPT !.reg = RegAfter(s, x)]
        BY <1>1, <2>3, <3>1, AccessSteps DEF RegAfter
      <4>2. Do(s, x, Granted) = Do(s, x, R)
        BY <1>1, <2>2, <2>3, <3>1, AccessSteps
      <4> QED BY <1>1, <1>2, <3>1, <4>1, <4>2 DEF Worked, MemAfter, StopAfter, Machines
    <3>2. CASE x.op = "store"
      <4>1. Do(s, x, R) = [s EXCEPT !.mem = MemAfter(s, x)]
        BY <1>1, <2>3, <3>2, AccessSteps DEF MemAfter
      <4>2. Do(s, x, Granted) = Do(s, x, R)
        BY <1>1, <2>2, <2>3, <3>2, AccessSteps
      <4>3. MemAfter(s, x) \in [Val -> Val]
        BY <1>1, <3>2, <2>1 DEF MemAfter, IsStep
      <4> QED BY <1>1, <1>2, <3>2, <4>1, <4>2, <4>3 DEF Worked, RegAfter, StopAfter, Machines
    <3> QED BY <1>3, <3>1, <3>2 DEF Accesses
  <2>4. CASE ~Allows(PageOf(a), need, R)
    <3>1. Do(s, x, R) = [s EXCEPT !.fault = [page |-> PageOf(a), need |-> need]]
      BY <1>1, <1>3, <2>4, AccessSteps DEF Accesses
    <3> QED BY <1>3, <2>1, <3>1 DEF Faulted
  <2> QED BY <2>3, <2>4
<1>4. CASE x.op \in {"move", "inc", "add", "sum", "adc", "cmp"}
  <2>1. ASSUME NEW Q PROVE Do(s, x, Q) = [s EXCEPT !.reg = RegAfter(s, x)]
    BY <1>1, <1>4 DEF Do, RegAfter
  <2>2. Do(s, x, R) = [s EXCEPT !.reg = RegAfter(s, x)] /\ Do(s, x, Granted) = Do(s, x, R)
    BY <2>1
  <2> QED BY <1>1, <1>2, <1>4, <2>2 DEF Worked, MemAfter, StopAfter, Machines
<1>5. CASE x.op = "in"
  <2>1. ASSUME NEW Q PROVE Do(s, x, Q) = [s EXCEPT !.reg[x.to] = s.in, !.in = (s.in + 1) % Size]
    BY <1>1, <1>5 DEF Do
  <2>2. (s.in + 1) % Size \in Val
    <3>1. s.in + 1 \in Int
      BY <1>1 DEF Val
    <3> QED BY <3>1, Values
  <2>3. PICK i : i = (s.in + 1) % Size
    OBVIOUS
  <2>4. Do(s, x, R) = [[s EXCEPT !.reg = RegAfter(s, x)] EXCEPT !.in = i]
    BY <1>1, <1>5, <2>1, <2>3 DEF RegAfter
  <2> QED BY <1>1, <1>2, <1>5, <2>1, <2>2, <2>3, <2>4 DEF Worked, MemAfter, StopAfter, Machines
<1>6. CASE x.op = "out"
  <2>1. ASSUME NEW Q PROVE Do(s, x, Q) = [s EXCEPT !.out = Append(s.out, s.reg[x.from])]
    BY <1>1, <1>6 DEF Do
  <2>2. Append(s.out, s.reg[x.from]) \in Seq(Val)
    BY <1>1, <1>6 DEF IsStep
  <2>3. RegAfter(s, x) = s.reg
    BY <1>6 DEF RegAfter
  <2> QED BY <1>1, <1>2, <1>6, <2>1, <2>2, <2>3 DEF Worked, MemAfter, StopAfter, Machines
<1>7. CASE x.op \in {"while", "whileequal", "untilequal"}
  <2>1. ASSUME NEW Q PROVE Do(s, x, Q) = [s EXCEPT !.stop = StopAfter(s, x)]
    BY <1>1, <1>7 DEF Do, StopAfter
  <2>2. RegAfter(s, x) = s.reg /\ StopAfter(s, x) \in BOOLEAN
    BY <1>7 DEF RegAfter, StopAfter
  <2> QED BY <1>1, <1>2, <1>7, <2>1, <2>2 DEF Worked, MemAfter, Machines
<1> QED
  BY <1>3, <1>4, <1>5, <1>6, <1>7 DEF IsStep, Ops, Accesses

\* With every page granted a step does its work.
LEMMA GrantedEffect ==
  ASSUME NEW s \in Machines, NEW x, IsStep(x), Running(s)
  PROVE  Worked(Do(s, x, Granted), s, x)
<1>1. CASE x.op \in Accesses
  <2> DEFINE a == At(x.at, s.reg)
  <2>1. PageOf(a) \in Pages
    BY <1>1, Addresses, Values DEF IsStep
  <2>2. \A need : Allows(PageOf(a), need, Granted)
    BY <2>1 DEF Allows, Granted
  <2>3. Do(s, x, Granted).fault = NoFault
    BY <1>1, <2>2, AccessSteps DEF Accesses, Running, Machines
  <2> QED BY <2>3, StepEffect DEF Faulted, Machines
<1> QED
  BY <1>1, StepEffect DEF Faulted

\* Behind a fault or the end nothing is done.
LEMMA StepEnded ==
  ASSUME NEW s, NEW x, NEW R, ~Running(s)
  PROVE  Do(s, x, R) = s
BY DEF Do, Running
-----------------------------------------------------------------------------
(***************************************************************************)
(* The steps of an instruction one after another.                          *)
(***************************************************************************)

\* Induction over the natural numbers, for a set.
LEMMA SetInduction ==
  ASSUME NEW T, 0 \in T, \A n \in Nat : n \in T => n + 1 \in T
  PROVE  Nat \subseteq T
<1> DEFINE R == OpToRel(<, Nat)
           M == Nat \ T
<1>1. ASSUME M # {} PROVE FALSE
  <2>1. IsWellFoundedOn(R, Nat) /\ M \subseteq Nat
    BY NatLessThanWellFounded
  <2>2. \A x, y \in Nat : x < y => <<x, y>> \in R
    BY DEF OpToRel
  <2> HIDE DEF R, M
  <2>3. PICK x \in M : \A y \in M : ~(<<y, x>> \in R)
    BY <1>1, <2>1, WFMin
  <2>4. x \in Nat /\ x # 0 /\ x \notin T
    BY <2>3 DEF M
  <2>5. x - 1 \in Nat /\ x - 1 < x /\ x = (x - 1) + 1
    BY <2>4
  <2>6. x - 1 \notin M
    BY <2>2, <2>3, <2>4, <2>5
  <2>7. x - 1 \in T
    BY <2>5, <2>6 DEF M
  <2> QED BY <2>4, <2>5, <2>7
<1> QED
  BY <1>1

\* Induction up to a number.
LEMMA UpTo ==
  ASSUME NEW n \in Nat, NEW T, 0 \in T, \A k \in 0 .. n - 1 : k \in T => k + 1 \in T
  PROVE  \A k \in 0 .. n : k \in T
<1> DEFINE U == {k \in Nat : k <= n => k \in T}
<1>1. 0 \in U
  OBVIOUS
<1>2. ASSUME NEW k \in Nat, k \in U PROVE k + 1 \in U
  BY <1>2
<1> HIDE DEF U
<1>3. Nat \subseteq U
  BY <1>1, <1>2, SetInduction
<1> QED
  BY <1>3 DEF U

\* What is computed in n steps from b, the step G given as a function.
Computed(f, S, b, n, G) ==
    f \in [0 .. n -> S] /\ f[0] = b /\ \A d \in 1 .. n : f[d] = G[<<f[d - 1], d>>]

\* There is such a function for every number of steps.
LEMMA Recursion ==
  ASSUME NEW S, NEW b \in S, NEW n \in Nat, NEW G \in [S \X (1 .. n) -> S]
  PROVE  \E f : Computed(f, S, b, n, G)
<1> DEFINE T == {k \in Nat : \E f : Computed(f, S, b, k, G)}
<1>1. 0 \in T
  <2>1. Computed([d \in 0 .. 0 |-> b], S, b, 0, G)
    BY DEF Computed
  <2> QED
    BY <2>1
<1>2. ASSUME NEW k \in 0 .. n - 1, k \in T PROVE k + 1 \in T
  <2>1. PICK f : Computed(f, S, b, k, G)
    BY <1>2
  <2> DEFINE next == G[<<f[k], k + 1>>]
             g == [d \in 0 .. k + 1 |-> IF d = k + 1 THEN next ELSE f[d]]
  <2>2. f[k] \in S /\ k + 1 \in 1 .. n
    BY <2>1 DEF Computed
  <2>3. next \in S
    BY <2>2
  <2> HIDE DEF next
  <2>4. g \in [0 .. k + 1 -> S]
    BY <2>1, <2>3 DEF Computed
  <2>5. (\A d \in 0 .. k : g[d] = f[d]) /\ g[k + 1] = next
    OBVIOUS
  <2> HIDE DEF g
  <2>6. ASSUME NEW d \in 1 .. k + 1 PROVE g[d] = G[<<g[d - 1], d>>]
    <3>1. d - 1 \in 0 .. k /\ g[d - 1] = f[d - 1]
      BY <2>5
    <3>2. CASE d = k + 1
      BY <2>5, <3>1, <3>2 DEF next
    <3>3. CASE d \in 1 .. k
      BY <2>1, <2>5, <3>1, <3>3 DEF Computed
    <3> QED
      BY <3>2, <3>3
  <2>7. Computed(g, S, b, k + 1, G)
    BY <2>1, <2>4, <2>5, <2>6 DEF Computed
  <2> QED
    BY <2>7
<1> HIDE DEF T
<1>3. n \in T
  BY <1>1, <1>2, UpTo
<1> QED
  BY <1>3 DEF T

\* The steps of the instruction i are steps.
Program(i) == Len(Steps(i)) \in Nat /\ \A k \in 1 .. Len(Steps(i)) : IsStep(Steps(i)[k])

\* The machines between the steps of i.
Trace(f, i, s, R) ==
    /\ f \in [0 .. Len(Steps(i)) -> Machines] /\ f[0] = s
    /\ \A k \in 1 .. Len(Steps(i)) : f[k] = Do(f[k - 1], Steps(i)[k], R)

\* Steps keep the type of the machine.
LEMMA StepType ==
  ASSUME NEW s \in Machines, NEW x, IsStep(x), NEW R
  PROVE  Do(s, x, R) \in Machines
<1>1. CASE Running(s)
  BY <1>1, StepEffect DEF Worked, Faulted, Machines
<1>2. CASE ~Running(s)
  BY <1>2, StepEnded
<1> QED
  BY <1>1, <1>2

\* Once is the last machine of a trace.
LEMMA OnceIs ==
  ASSUME NEW i, Program(i), NEW s \in Machines, NEW R
  PROVE  \E f : Trace(f, i, s, R) /\ Once(i, s, R) = f[Len(Steps(i))]
<1> DEFINE p == Steps(i)
           n == Len(p)
           G == [x \in Machines \X (1 .. n) |-> Do(x[1], p[x[2]], R)]
           IsAfter(h) == h = [k \in 0 .. n |-> IF k = 0 THEN s
                                ELSE CHOOSE d \in {Do(b, p[k], R) : b \in {h[k - 1]}} : TRUE]
           c == CHOOSE h : IsAfter(h)
<1>1. n \in Nat /\ \A k \in 1 .. n : IsStep(p[k])
  BY DEF Program
<1>2. Once(i, s, R) = c[n]
  BY DEF Once
<1>3. ASSUME NEW b, NEW x PROVE (CHOOSE d \in {Do(e, x, R) : e \in {b}} : TRUE) = Do(b, x, R)
  <2>1. {Do(e, x, R) : e \in {b}} = {Do(b, x, R)}
    OBVIOUS
  <2> QED BY <2>1
<1>4. n = Len(Steps(i)) /\ p = Steps(i)
  OBVIOUS
<1> HIDE DEF n, p
<1>5. G \in [Machines \X (1 .. n) -> Machines]
  BY <1>1, StepType
<1> HIDE DEF G
<1>6. PICK f : Computed(f, Machines, s, n, G)
  BY <1>1, <1>5, Recursion
<1>7. f \in [0 .. n -> Machines] /\ f[0] = s
  BY <1>6 DEF Computed
<1>8. ASSUME NEW k \in 1 .. n PROVE f[k] = Do(f[k - 1], p[k], R)
  <2>1. f[k - 1] \in Machines /\ f[k] = G[<<f[k - 1], k>>]
    BY <1>1, <1>6 DEF Computed
  <2> QED BY <2>1 DEF G
<1>9. IsAfter(f)
  BY <1>1, <1>3, <1>7, <1>8
<1>10. IsAfter(c)
  BY <1>9
<1> HIDE DEF c
<1>11. c[0] = s /\ \A k \in 1 .. n : c[k] = Do(c[k - 1], p[k], R)
  <2>1. \A k \in 0 .. n : c[k] = IF k = 0 THEN s ELSE Do(c[k - 1], p[k], R)
    BY <1>3, <1>10, Zenon
  <2> QED BY <1>1, <2>1
<1>12. \A k \in 0 .. n : c[k] = f[k]
  <2> DEFINE T == {k \in 0 .. n : c[k] = f[k]}
  <2>1. 0 \in T
    BY <1>1, <1>7, <1>11
  <2>2. ASSUME NEW k \in 0 .. n - 1, k \in T PROVE k + 1 \in T
    <3>1. k + 1 \in 1 .. n /\ (k + 1) - 1 = k /\ c[k] = f[k]
      BY <1>1, <2>2
    <3>2. c[k + 1] = Do(c[(k + 1) - 1], p[k + 1], R) /\ f[k + 1] = Do(f[(k + 1) - 1], p[k + 1], R)
      BY <1>8, <1>11, <3>1
    <3> QED BY <1>1, <3>1, <3>2
  <2> HIDE DEF T
  <2>3. \A k \in 0 .. n : k \in T
    BY <1>1, <2>1, <2>2, UpTo
  <2> QED BY <2>3 DEF T
<1>13. Trace(f, i, s, R)
  BY <1>4, <1>7, <1>8 DEF Trace
<1> QED
  BY <1>1, <1>2, <1>4, <1>12, <1>13

\* What a step does to a machine that is not running, and to one that is, with
\* every page granted.
LEMMA TraceStep ==
  ASSUME NEW i, Program(i), NEW s \in Machines, NEW R, NEW f, Trace(f, i, s, R),
         NEW k \in 1 .. Len(Steps(i))
  PROVE  /\ f[k - 1] \in Machines /\ f[k] \in Machines /\ IsStep(Steps(i)[k])
         /\ f[k] = Do(f[k - 1], Steps(i)[k], R)
         /\ ~Running(f[k - 1]) => f[k] = f[k - 1]
BY StepEnded DEF Trace, Program

\* The end and a fault stay.
LEMMA TraceEnded ==
  ASSUME NEW i, Program(i), NEW s \in Machines, NEW R, NEW f, Trace(f, i, s, R),
         NEW a \in 0 .. Len(Steps(i)), ~Running(f[a])
  PROVE  \A k \in a .. Len(Steps(i)) : f[k] = f[a]
<1> DEFINE n == Len(Steps(i)) - a
           T == {k \in 0 .. n : f[a + k] = f[a]}
<1>1. n \in Nat /\ 0 \in T
  BY DEF Program
<1>2. ASSUME NEW k \in 0 .. n - 1, k \in T PROVE k + 1 \in T
  <2>1. a + k + 1 \in 1 .. Len(Steps(i)) /\ (a + k + 1) - 1 = a + k /\ f[a + k] = f[a]
    BY <1>2 DEF Program
  <2>2. f[a + k + 1] = f[a + k]
    BY <2>1, TraceStep
  <2> QED BY <1>1, <2>1, <2>2
<1>3. \A k \in 0 .. n : k \in T
  <2> HIDE DEF T, n
  <2> QED BY <1>1, <1>2, UpTo
<1>4. ASSUME NEW k \in a .. Len(Steps(i)) PROVE f[k] = f[a]
  <2>1. k - a \in 0 .. n /\ a + (k - a) = k
    BY DEF Program
  <2> QED BY <1>3, <2>1
<1> QED BY <1>4

\* With every page granted nothing faults.
LEMMA TraceGranted ==
  ASSUME NEW i, Program(i), NEW s \in Machines, s.fault = NoFault,
         NEW h, Trace(h, i, s, Granted)
  PROVE  \A k \in 0 .. Len(Steps(i)) : h[k] \in Machines /\ h[k].fault = NoFault
<1> DEFINE n == Len(Steps(i))
           T == {k \in 0 .. n : h[k].fault = NoFault}
<1>1. n \in Nat /\ 0 \in T
  BY DEF Program, Trace
<1>2. ASSUME NEW k \in 0 .. n - 1, k \in T PROVE k + 1 \in T
  <2>1. k + 1 \in 1 .. n /\ (k + 1) - 1 = k /\ h[k].fault = NoFault /\ k + 1 \in 0 .. n
    BY <1>2
  <2>2. CASE Running(h[k])
    <3>1. h[k + 1].fault = NoFault
      BY <2>1, <2>2, TraceStep, GrantedEffect DEF Worked
    <3> QED BY <2>1, <3>1
  <2>3. CASE ~Running(h[k])
    <3>1. h[k + 1] = h[k]
      BY <2>1, <2>3, TraceStep
    <3> QED BY <2>1, <3>1
  <2> QED BY <2>2, <2>3
<1> HIDE DEF T
<1>3. \A k \in 0 .. n : k \in T
  BY <1>1, <1>2, UpTo
<1> QED BY <1>3 DEF T, Trace

\* A fault at step k: till then all went as with every page granted.
FaultAt(n, h, i, k) ==
    /\ Running(h[k - 1]) /\ Steps(i)[k].op \in Accesses
    /\ \E q \in Faults : q # NoFault /\ n = [h[k - 1] EXCEPT !.fault = q]

\* A run without a fault is that with every page granted; one with a fault is that
\* up to an access.
LEMMA TraceFault ==
  ASSUME NEW i, Program(i), NEW s \in Machines, s.fault = NoFault, NEW R,
         NEW f, Trace(f, i, s, R), NEW h, Trace(h, i, s, Granted)
  PROVE  \A k \in 0 .. Len(Steps(i)) :
           \/ f[k] = h[k]
           \/ \E j \in 1 .. Len(Steps(i)) : FaultAt(f[k], h, i, j)
<1> DEFINE n == Len(Steps(i))
           T == {k \in 0 .. n : f[k] = h[k] \/ \E j \in 1 .. n : FaultAt(f[k], h, i, j)}
<1>1. n \in Nat /\ 0 \in T
  BY DEF Program, Trace
<1>2. ASSUME NEW k \in 0 .. n - 1, k \in T PROVE k + 1 \in T
  <2>1. /\ k + 1 \in 1 .. n /\ (k + 1) - 1 = k /\ k + 1 \in 0 .. n /\ k \in 0 .. n
        /\ f[k] = h[k] \/ \E j \in 1 .. n : FaultAt(f[k], h, i, j)
    BY <1>2
  <2>2. /\ f[k] \in Machines /\ IsStep(Steps(i)[k + 1])
        /\ f[k + 1] = Do(f[k], Steps(i)[k + 1], R)
        /\ h[k] \in Machines /\ h[k].fault = NoFault
        /\ h[k + 1] = Do(h[k], Steps(i)[k + 1], Granted)
        /\ ~Running(f[k]) => f[k + 1] = f[k]
        /\ ~Running(h[k]) => h[k + 1] = h[k]
    BY <2>1, TraceStep, TraceGranted
  <2>3. CASE \E j \in 1 .. n : FaultAt(f[k], h, i, j)
    <3>1. PICK j \in 1 .. n : FaultAt(f[k], h, i, j)
      BY <2>3
    <3>2. f[k].fault # NoFault
      <4>1. h[j - 1] \in Machines
        BY <1>1, TraceGranted
      <4> QED BY <3>1, <4>1 DEF FaultAt, Machines
    <3>3. f[k + 1] = f[k]
      BY <2>2, <3>2 DEF Running
    <3> QED BY <2>1, <3>1, <3>3
  <2>4. CASE f[k] = h[k] /\ ~Running(h[k])
    BY <2>1, <2>2, <2>4
  <2>5. CASE f[k] = h[k] /\ Running(h[k])
    <3>1. \/ f[k + 1] = h[k + 1]
          \/ Faulted(f[k + 1], h[k], Steps(i)[k + 1])
      BY <2>2, <2>5, StepEffect
    <3>2. ASSUME Faulted(f[k + 1], h[k], Steps(i)[k + 1]) PROVE FaultAt(f[k + 1], h, i, k + 1)
      BY <2>1, <2>5, <3>2 DEF Faulted, FaultAt
    <3> QED BY <2>1, <3>1, <3>2
  <2> QED BY <2>1, <2>3, <2>4, <2>5
<1> HIDE DEF T
<1>3. \A k \in 0 .. n : k \in T
  BY <1>1, <1>2, UpTo
<1> QED BY <1>3 DEF T
-----------------------------------------------------------------------------
(***************************************************************************)
(* The iterations of an instruction.                                       *)
(***************************************************************************)

\* The machine an instruction starts with.
Fresh(s) == [s EXCEPT !.stop = FALSE, !.fault = NoFault]

\* The machines between the iterations of i.
Loop(g, i, s, R) ==
    /\ g \in [0 .. Times(i) -> Machines] /\ g[0] = Fresh(s)
    /\ \A n \in 1 .. Times(i) : g[n] = Once(i, g[n - 1], R)

\* Once keeps the type, and does nothing behind a fault or the end.
LEMMA OnceType ==
  ASSUME NEW i, Program(i), NEW s \in Machines, NEW R
  PROVE  Once(i, s, R) \in Machines /\ (~Running(s) => Once(i, s, R) = s)
<1>1. PICK f : Trace(f, i, s, R) /\ Once(i, s, R) = f[Len(Steps(i))]
  BY OnceIs
<1>2. Len(Steps(i)) \in 0 .. Len(Steps(i)) /\ 0 \in 0 .. Len(Steps(i)) /\ f[0] = s
  BY <1>1 DEF Program, Trace
<1>3. Once(i, s, R) \in Machines
  BY <1>1, <1>2 DEF Trace
<1>4. ASSUME ~Running(s) PROVE Once(i, s, R) = s
  BY <1>1, <1>2, <1>4, TraceEnded
<1> QED BY <1>3, <1>4

\* With every page granted it does not fault.
LEMMA OnceGranted ==
  ASSUME NEW i, Program(i), NEW s \in Machines, s.fault = NoFault
  PROVE  Once(i, s, Granted).fault = NoFault
<1>1. PICK f : Trace(f, i, s, Granted) /\ Once(i, s, Granted) = f[Len(Steps(i))]
  BY OnceIs
<1>2. Len(Steps(i)) \in 0 .. Len(Steps(i))
  BY DEF Program
<1> QED BY <1>1, <1>2, TraceGranted

\* An iteration from s, with every page granted, is the trace h; n is what is left
\* by a fault in it.
Broken(n, h, i, s, k) ==
    /\ Trace(h, i, s, Granted) /\ Once(i, s, Granted) = h[Len(Steps(i))]
    /\ k \in 1 .. Len(Steps(i)) /\ FaultAt(n, h, i, k)

\* An iteration without a fault is that with every page granted.
LEMMA OnceFault ==
  ASSUME NEW i, Program(i), NEW s \in Machines, s.fault = NoFault, NEW R
  PROVE  \/ Once(i, s, R) = Once(i, s, Granted)
         \/ \E h, k : Broken(Once(i, s, R), h, i, s, k)
<1>1. PICK f : Trace(f, i, s, R) /\ Once(i, s, R) = f[Len(Steps(i))]
  BY OnceIs
<1>2. PICK h : Trace(h, i, s, Granted) /\ Once(i, s, Granted) = h[Len(Steps(i))]
  BY OnceIs
<1>3. Len(Steps(i)) \in 0 .. Len(Steps(i))
  BY DEF Program
<1>4. CASE f[Len(Steps(i))] = h[Len(Steps(i))]
  BY <1>1, <1>2, <1>4
<1>5. CASE \E j \in 1 .. Len(Steps(i)) : FaultAt(f[Len(Steps(i))], h, i, j)
  BY <1>1, <1>2, <1>5 DEF Broken
<1> QED BY <1>1, <1>2, <1>3, <1>4, <1>5, TraceFault

\* There are one iteration or Size of them.
LEMMA TimesType == \A i : Times(i) \in Nat \ {0} /\ (i \notin Repeated => Times(i) = 1)
BY RestartAssumption DEF Times

\* Run is the last machine of a loop.
LEMMA RunIs ==
  ASSUME NEW i, Program(i), NEW s \in Machines, NEW R
  PROVE  \E g : Loop(g, i, s, R) /\ Run(i, s, R) = g[Times(i)]
<1> DEFINE n == Times(i)
           G == [x \in Machines \X (1 .. n) |-> Once(i, x[1], R)]
           IsLoop(h) == h = [k \in 0 .. n |-> IF k = 0 THEN Fresh(s)
                               ELSE CHOOSE d \in {Once(i, b, R) : b \in {h[k - 1]}} : TRUE]
           c == CHOOSE h : IsLoop(h)
<1>1. n \in Nat
  BY TimesType
<1>2. Run(i, s, R) = c[n]
  BY DEF Run, Fresh
<1>3. ASSUME NEW b PROVE (CHOOSE d \in {Once(i, e, R) : e \in {b}} : TRUE) = Once(i, b, R)
  <2>1. {Once(i, e, R) : e \in {b}} = {Once(i, b, R)}
    OBVIOUS
  <2> QED BY <2>1
<1>4. n = Times(i)
  OBVIOUS
<1> HIDE DEF n
<1>5. G \in [Machines \X (1 .. n) -> Machines] /\ Fresh(s) \in Machines
  <2>1. NoFault \in Faults
    <3>1. PageOf(0) = 0
      BY DEF PageOf
    <3> QED BY <3>1, Values DEF Faults, NoFault
  <2>2. Fresh(s) \in Machines
    BY <2>1 DEF Fresh, Machines
  <2> QED BY <1>1, <2>2, OnceType
<1> HIDE DEF G
<1>6. PICK g : Computed(g, Machines, Fresh(s), n, G)
  BY <1>1, <1>5, Recursion
<1>7. g \in [0 .. n -> Machines] /\ g[0] = Fresh(s)
  BY <1>6 DEF Computed
<1>8. ASSUME NEW k \in 1 .. n PROVE g[k] = Once(i, g[k - 1], R)
  <2>1. g[k - 1] \in Machines /\ g[k] = G[<<g[k - 1], k>>]
    BY <1>1, <1>6 DEF Computed
  <2> QED BY <2>1 DEF G
<1>9. IsLoop(g)
  BY <1>1, <1>3, <1>7, <1>8
<1>10. IsLoop(c)
  BY <1>9
<1> HIDE DEF c
<1>11. c[0] = Fresh(s) /\ \A k \in 1 .. n : c[k] = Once(i, c[k - 1], R)
  <2>1. \A k \in 0 .. n : c[k] = IF k = 0 THEN Fresh(s) ELSE Once(i, c[k - 1], R)
    BY <1>3, <1>10, Zenon
  <2> QED BY <1>1, <2>1
<1>12. \A k \in 0 .. n : c[k] = g[k]
  <2> DEFINE T == {k \in 0 .. n : c[k] = g[k]}
  <2>1. 0 \in T
    BY <1>1, <1>7, <1>11
  <2>2. ASSUME NEW k \in 0 .. n - 1, k \in T PROVE k + 1 \in T
    <3>1. k + 1 \in 1 .. n /\ (k + 1) - 1 = k /\ c[k] = g[k]
      BY <1>1, <2>2
    <3>2. c[k + 1] = Once(i, c[(k + 1) - 1], R) /\ g[k + 1] = Once(i, g[(k + 1) - 1], R)
      BY <1>8, <1>11, <3>1
    <3> QED BY <1>1, <3>1, <3>2
  <2> HIDE DEF T
  <2>3. \A k \in 0 .. n : k \in T
    BY <1>1, <2>1, <2>2, UpTo
  <2> QED BY <2>3 DEF T
<1>13. Loop(g, i, s, R)
  BY <1>4, <1>7, <1>8 DEF Loop
<1> QED
  BY <1>1, <1>2, <1>4, <1>12, <1>13

\* What an iteration of a loop is.
LEMMA LoopStep ==
  ASSUME NEW i, Program(i), NEW s \in Machines, NEW R, NEW g, Loop(g, i, s, R),
         NEW n \in 1 .. Times(i)
  PROVE  /\ g[n - 1] \in Machines /\ g[n] \in Machines
         /\ g[n] = Once(i, g[n - 1], R)
         /\ ~Running(g[n - 1]) => g[n] = g[n - 1]
BY OnceType, TimesType DEF Loop

\* The end and a fault stay.
LEMMA LoopEnded ==
  ASSUME NEW i, Program(i), NEW s \in Machines, NEW R, NEW g, Loop(g, i, s, R),
         NEW a \in 0 .. Times(i), ~Running(g[a])
  PROVE  \A n \in a .. Times(i) : g[n] = g[a]
<1> DEFINE N == Times(i) - a
           T == {k \in 0 .. N : g[a + k] = g[a]}
<1>1. N \in Nat /\ 0 \in T /\ Times(i) \in Nat
  BY TimesType
<1>2. ASSUME NEW k \in 0 .. N - 1, k \in T PROVE k + 1 \in T
  <2>1. a + k + 1 \in 1 .. Times(i) /\ (a + k + 1) - 1 = a + k /\ g[a + k] = g[a]
    BY <1>1, <1>2
  <2>2. g[a + k + 1] = g[a + k]
    BY <2>1, LoopStep
  <2> QED BY <1>1, <2>1, <2>2
<1>3. \A k \in 0 .. N : k \in T
  <2> HIDE DEF T, N
  <2> QED BY <1>1, <1>2, UpTo
<1>4. ASSUME NEW n \in a .. Times(i) PROVE g[n] = g[a]
  <2>1. n - a \in 0 .. N /\ a + (n - a) = n
    BY <1>1
  <2> QED BY <1>3, <2>1
<1> QED BY <1>4

\* With every page granted nothing faults.
LEMMA LoopGranted ==
  ASSUME NEW i, Program(i), NEW s \in Machines, NEW G, Loop(G, i, s, Granted)
  PROVE  \A n \in 0 .. Times(i) : G[n] \in Machines /\ G[n].fault = NoFault
<1> DEFINE N == Times(i)
           T == {k \in 0 .. N : G[k].fault = NoFault}
<1>1. N \in Nat /\ 0 \in T
  <2>1. G[0].fault = NoFault
    BY DEF Loop, Fresh, Machines
  <2> QED BY <2>1, TimesType
<1>2. ASSUME NEW k \in 0 .. N - 1, k \in T PROVE k + 1 \in T
  <2>1. k + 1 \in 1 .. N /\ (k + 1) - 1 = k /\ G[k].fault = NoFault
    BY <1>1, <1>2
  <2>2. G[k + 1].fault = NoFault
    BY <2>1, LoopStep, OnceGranted
  <2> QED BY <1>1, <2>1, <2>2
<1> HIDE DEF T
<1>3. \A k \in 0 .. N : k \in T
  BY <1>1, <1>2, UpTo
<1> QED BY <1>3 DEF T, Loop

\* A fault breaks one of the iterations; till then all went as with every page granted.
LEMMA LoopFault ==
  ASSUME NEW i, Program(i), NEW s \in Machines, NEW R,
         NEW g, Loop(g, i, s, R), NEW G, Loop(G, i, s, Granted)
  PROVE  \A n \in 0 .. Times(i) :
           \/ g[n] = G[n]
           \/ \E j \in 1 .. Times(i) : \E h, k : Broken(g[n], h, i, G[j - 1], k)
<1> DEFINE N == Times(i)
           T == {n \in 0 .. N : \/ g[n] = G[n]
                                \/ \E j \in 1 .. N : \E h, k : Broken(g[n], h, i, G[j - 1], k)}
<1>1. N \in Nat /\ 0 \in T
  BY TimesType DEF Loop
<1>2. ASSUME NEW n \in 0 .. N - 1, n \in T PROVE n + 1 \in T
  <2>1. /\ n + 1 \in 1 .. N /\ (n + 1) - 1 = n /\ n + 1 \in 0 .. N /\ n \in 0 .. N
        /\ g[n] = G[n] \/ \E j \in 1 .. N : \E h, k : Broken(g[n], h, i, G[j - 1], k)
    BY <1>1, <1>2
  <2>2. /\ g[n] \in Machines /\ g[n + 1] = Once(i, g[n], R)
        /\ G[n] \in Machines /\ G[n].fault = NoFault /\ G[n + 1] = Once(i, G[n], Granted)
        /\ ~Running(g[n]) => g[n + 1] = g[n]
    BY <2>1, LoopStep, LoopGranted
  <2>3. CASE \E j \in 1 .. N : \E h, k : Broken(g[n], h, i, G[j - 1], k)
    <3>6. PICK j \in 1 .. N : \E h, k : Broken(g[n], h, i, G[j - 1], k)
      BY <2>3
    <3>1. PICK h, k : Broken(g[n], h, i, G[j - 1], k)
      BY <3>6
    <3>2. G[j - 1] \in Machines /\ G[j - 1].fault = NoFault
      BY <1>1, LoopGranted
    <3>3. h[k - 1] \in Machines
      BY <3>1, <3>2, TraceStep DEF Broken
    <3>4. g[n].fault # NoFault
      BY <3>1, <3>3 DEF Broken, FaultAt, Machines
    <3>5. g[n + 1] = g[n]
      BY <2>2, <3>4 DEF Running
    <3> QED BY <2>1, <3>1, <3>5
  <2>4. CASE g[n] = G[n]
    <3>1. \/ g[n + 1] = G[n + 1]
          \/ \E h, k : Broken(g[n + 1], h, i, G[n], k)
      BY <2>2, <2>4, OnceFault
    <3> QED BY <2>1, <3>1
  <2> QED BY <2>1, <2>3, <2>4
<1> HIDE DEF T
<1>3. \A n \in 0 .. N : n \in T
  BY <1>1, <1>2, UpTo
<1> QED BY <1>3 DEF T
-----------------------------------------------------------------------------
(***************************************************************************)
(* The discipline, and what it is good for.                                *)
(***************************************************************************)

\* The registers a step reads, and those it writes.
Uses(x) ==
  CASE x.op = "load" -> {x.at}          [] x.op = "store" -> {x.from, x.at}
    [] x.op = "move" -> {x.from}        [] x.op \in {"inc", "add"} -> {x.to}
    [] x.op = "adc" -> {x.to, x.with, "cf"}
    [] x.op \in {"sum", "cmp"} -> {x.to, x.with}
    [] x.op = "out" -> {x.from}         [] x.op = "while" -> {"cx"}
    [] x.op \in {"whileequal", "untilequal"} -> {"zf"}
    [] OTHER -> {}
Sets(x) ==
  CASE x.op \in {"load", "move", "inc", "in"} -> {x.to}
    [] x.op \in {"add", "sum", "adc"} -> {x.to, "cf"}
    [] x.op = "cmp" -> {"zf"}
    [] OTHER -> {}

\* What the steps before the step k of i write.
Before(i, k) == {r \in All : \E j \in 1 .. k - 1 : r \in Sets(Steps(i)[j])}

\* What is as it was at the start of the instruction when it is restarted: the loop
\* puts ESP back, INC puts CF back.
Kept(i) == IF i = "INC" THEN {"sp", "cf"} ELSE {"sp"}

\* The steps before an access can be repeated: what they write they do not read
\* before they have written it, they neither end the instruction nor speak to a
\* device, and they do not both read and write the memory.
Repeatable(i) ==
  \A k \in 1 .. Len(Steps(i)) : Steps(i)[k].op \in Accesses =>
    /\ \A j \in 1 .. k - 1 : \A r \in Uses(Steps(i)[j]) :
         r \in Before(i, k) \ Kept(i) => r \in Before(i, j)
    /\ \A j \in 1 .. k - 1 : Steps(i)[j].op \notin {"in", "out", "whileequal", "untilequal"}
    /\ \/ \A j \in 1 .. k - 1 : Steps(i)[j].op # "store"
       \/ \A j \in 1 .. k - 1 : Steps(i)[j].op # "load"

\* A step leaves alone what it does not write.
LEMMA Frame ==
  ASSUME NEW s \in Machines, NEW x, IsStep(x), NEW n, Worked(n, s, x)
  PROVE  /\ \A r \in All : r \notin Sets(x) => n.reg[r] = s.reg[r]
         /\ x.op # "store" => n.mem = s.mem
<1>1. s.reg \in [All -> Val] /\ n.reg = RegAfter(s, x) /\ n.mem = MemAfter(s, x)
  BY DEF Machines, Worked
<1>2. ASSUME NEW r \in All, r \notin Sets(x) PROVE RegAfter(s, x)[r] = s.reg[r]
  <2>1. CASE x.op \in {"load", "move", "inc", "in"}
    BY <1>1, <1>2, <2>1 DEF Sets, RegAfter, IsStep
  <2>2. CASE x.op \in {"add", "sum", "adc"}
    BY <1>1, <1>2, <2>2 DEF Sets, RegAfter, IsStep
  <2>3. CASE x.op = "cmp"
    BY <1>1, <1>2, <2>3 DEF Sets, RegAfter, IsStep
  <2>4. CASE x.op \in {"store", "out", "while", "whileequal", "untilequal"}
    BY <1>1, <1>2, <2>4 DEF RegAfter
  <2> QED BY <2>1, <2>2, <2>3, <2>4 DEF IsStep, Ops, Accesses
<1> QED BY <1>1, <1>2 DEF MemAfter

\* Two machines that agree in what a step reads agree in what it writes.
LEMMA Alike ==
  ASSUME NEW a \in Machines, NEW b \in Machines, NEW x, IsStep(x), x.op # "in",
         \A r \in All : r \in Uses(x) => a.reg[r] = b.reg[r],
         x.op = "load" => a.mem = b.mem
  PROVE  /\ \A r \in Sets(x) : RegAfter(a, x)[r] = RegAfter(b, x)[r]
         /\ \A c \in Val : \/ MemAfter(a, x)[c] = MemAfter(b, x)[c]
                           \/ MemAfter(a, x)[c] = a.mem[c] /\ MemAfter(b, x)[c] = b.mem[c]
         /\ StopAfter(a, x) = StopAfter(b, x)
<1>1. /\ a.reg \in [All -> Val] /\ a.mem \in [Val -> Val]
      /\ b.reg \in [All -> Val] /\ b.mem \in [Val -> Val]
      /\ {"cx", "zf", "cf"} \subseteq All
  BY DEF Machines, All, Regs
<1>2. CASE x.op \in Accesses
  <2>1. At(x.at, a.reg) = At(x.at, b.reg) /\ At(x.at, a.reg) \in Val
    <3>1. x.at \in Places /\ x.at \in Uses(x)
      BY <1>2 DEF IsStep, Uses, Accesses
    <3>2. At(x.at, a.reg) \in Val
      BY <3>1, Addresses
    <3>3. At(x.at, a.reg) = At(x.at, b.reg)
      BY <3>1 DEF At, Places
    <3> QED BY <3>2, <3>3
  <2>2. CASE x.op = "load"
    <3>1. a.mem = b.mem /\ x.to \in All /\ Sets(x) = {x.to}
      BY <2>2 DEF Sets, IsStep
    <3> QED BY <1>1, <2>1, <2>2, <3>1 DEF RegAfter, MemAfter, StopAfter
  <2>3. CASE x.op = "store"
    <3>1. x.from \in All /\ x.from \in Uses(x) /\ Sets(x) = {}
      BY <2>3 DEF Sets, Uses, IsStep
    <3>2. a.reg[x.from] = b.reg[x.from]
      BY <3>1
    <3> QED BY <1>1, <2>1, <2>3, <3>1, <3>2 DEF MemAfter, StopAfter
  <2> QED BY <1>2, <2>2, <2>3 DEF Accesses
<1>3. CASE x.op \in {"move", "inc", "cmp"}
  BY <1>1, <1>3 DEF Uses, Sets, RegAfter, MemAfter, StopAfter, IsStep
<1>4. CASE x.op = "add"
  BY <1>1, <1>4 DEF Uses, Sets, RegAfter, MemAfter, StopAfter, IsStep
<1>5. CASE x.op = "sum"
  BY <1>1, <1>5 DEF Uses, Sets, RegAfter, MemAfter, StopAfter, IsStep
<1>6. CASE x.op = "adc"
  BY <1>1, <1>6 DEF Uses, Sets, RegAfter, MemAfter, StopAfter, IsStep
<1>7. CASE x.op \in {"out", "while", "whileequal", "untilequal"}
  BY <1>1, <1>7 DEF Uses, Sets, RegAfter, MemAfter, StopAfter, IsStep
<1> QED
  BY <1>2, <1>3, <1>4, <1>5, <1>6, <1>7 DEF IsStep, Ops, Accesses

\* Until a fault the instruction runs, and has changed only what its steps write.
LEMMA BeforeFault ==
  ASSUME NEW i, Program(i), Repeatable(i), NEW x \in Machines, Running(x),
         NEW h, Trace(h, i, x, Granted), NEW k \in 1 .. Len(Steps(i)), NEW n, FaultAt(n, h, i, k)
  PROVE  \A j \in 0 .. k - 1 :
           /\ h[j] \in Machines /\ Running(h[j])
           /\ h[j].in = x.in /\ h[j].out = x.out
           /\ \A r \in All : r \notin Before(i, j + 1) => h[j].reg[r] = x.reg[r]
           /\ (\A l \in 1 .. k - 1 : Steps(i)[l].op # "store") => h[j].mem = x.mem
<1> DEFINE L == Len(Steps(i))
           Good(j) ==
             /\ h[j] \in Machines /\ Running(h[j])
             /\ h[j].in = x.in /\ h[j].out = x.out
             /\ \A r \in All : r \notin Before(i, j + 1) => h[j].reg[r] = x.reg[r]
             /\ (\A l \in 1 .. k - 1 : Steps(i)[l].op # "store") => h[j].mem = x.mem
           T == {j \in 0 .. k - 1 : Good(j)}
<1>1. L \in Nat /\ h[0] = x /\ Steps(i)[k].op \in Accesses /\ Running(h[k - 1])
  BY DEF Program, Trace, FaultAt
<1>2. \A j \in 0 .. k - 1 : Running(h[j])
  <2>1. ASSUME NEW j \in 0 .. k - 1, ~Running(h[j]) PROVE FALSE
    <3>1. j \in 0 .. L /\ k - 1 \in j .. L
      BY <1>1
    <3>2. h[k - 1] = h[j]
      BY <2>1, <3>1, TraceEnded
    <3> QED BY <1>1, <2>1, <3>2
  <2> QED BY <2>1
<1>3. 0 \in T
  BY <1>1
<1>4. ASSUME NEW j \in 0 .. (k - 1) - 1, j \in T PROVE j + 1 \in T
  <2> DEFINE s == Steps(i)[j + 1]
  <2>1. /\ j + 1 \in 1 .. L /\ (j + 1) - 1 = j /\ j + 1 \in 0 .. k - 1 /\ j + 1 \in 1 .. k - 1
        /\ Good(j)
    BY <1>1, <1>4
  <2>2. h[j + 1] \in Machines /\ IsStep(s) /\ h[j + 1] = Do(h[j], s, Granted) /\ Running(h[j + 1])
    BY <1>2, <2>1, TraceStep
  <2>3. s.op \notin {"in", "out"}
    BY <1>1, <2>1 DEF Repeatable
  <2> HIDE DEF s
  <2>4. Worked(h[j + 1], h[j], s)
    BY <2>1, <2>2, GrantedEffect
  <2>5. h[j + 1].in = x.in /\ h[j + 1].out = x.out
    BY <2>1, <2>3, <2>4 DEF Worked
  <2>6. ASSUME NEW r \in All, r \notin Before(i, (j + 1) + 1) PROVE h[j + 1].reg[r] = x.reg[r]
    <3>1. r \notin Sets(s) /\ r \notin Before(i, j + 1)
      <4>1. j + 1 \in 1 .. ((j + 1) + 1) - 1
        BY <2>1
      <4>2. \A l \in 1 .. (j + 1) - 1 : l \in 1 .. ((j + 1) + 1) - 1
        BY <2>1
      <4> QED BY <2>6, <4>1, <4>2 DEF Before, s
    <3> QED BY <2>1, <2>2, <2>4, <3>1, Frame
  <2>7. ASSUME \A l \in 1 .. k - 1 : Steps(i)[l].op # "store" PROVE h[j + 1].mem = x.mem
    <3>1. s.op # "store"
      BY <2>1, <2>7 DEF s
    <3> QED BY <2>1, <2>2, <2>4, <2>7, <3>1, Frame
  <2> QED BY <2>1, <2>2, <2>5, <2>6, <2>7
<1>5. \A j \in 0 .. k - 1 : j \in T
  <2>1. k - 1 \in Nat
    BY <1>1
  <2> HIDE DEF T
  <2> QED BY <1>3, <1>4, <2>1, UpTo
<1> QED BY <1>5

\* The machine a fault at the step k of a run from x leaves behind, for the second
\* execution.
Restarted(s, x, y, i) ==
    /\ s \in Machines /\ Running(s)
    /\ s.mem = y.mem /\ s.in = y.in /\ s.out = y.out
    /\ \A r \in All \ Kept(i) : s.reg[r] = y.reg[r]
    /\ \A r \in Kept(i) : s.reg[r] = x.reg[r] /\ (r # "sp" => y.reg[r] = x.reg[r])

\* Half-way through the second execution: what differs from the first is yet to be
\* written, and was left there by the first.
Redone(a, b, y, i, k, j) ==
    /\ a \in Machines /\ Running(a) /\ a.in = y.in /\ a.out = y.out
    /\ \A r \in All : a.reg[r] = b.reg[r] \/ (r \in Before(i, k) \ Kept(i) /\ r \notin Before(i, j + 1))
    /\ \A c \in Val : a.mem[c] = b.mem[c] \/ a.mem[c] = y.mem[c]

\* One step of it.
LEMMA RedoneStep ==
  ASSUME NEW i, Program(i), Repeatable(i), NEW x \in Machines, Running(x),
         NEW h, Trace(h, i, x, Granted), NEW k \in 1 .. Len(Steps(i)), NEW n, FaultAt(n, h, i, k),
         NEW s \in Machines, NEW e, Trace(e, i, s, Granted),
         NEW j \in 0 .. k - 2, Redone(e[j], h[j], h[k - 1], i, k, j)
  PROVE  Redone(e[j + 1], h[j + 1], h[k - 1], i, k, j + 1)
<1> DEFINE L == Len(Steps(i))
           y == h[k - 1]
           t == Steps(i)[j + 1]
<1>1. /\ L \in Nat /\ j + 1 \in 1 .. L /\ j + 1 \in 1 .. k - 1 /\ j \in 0 .. k - 1 /\ j + 1 \in 0 .. k - 1
      /\ (j + 1) - 1 = j /\ k - 1 \in 0 .. k - 1 /\ Steps(i)[k].op \in Accesses
  BY DEF Program, FaultAt
<1>2. /\ h[j] \in Machines /\ h[j + 1] \in Machines /\ y \in Machines
      /\ Running(h[j]) /\ Running(h[j + 1])
      /\ (\A l \in 1 .. k - 1 : Steps(i)[l].op # "store") => h[j].mem = x.mem /\ y.mem = x.mem
  <2>1. \A q \in 0 .. k - 1 :
          /\ h[q] \in Machines /\ Running(h[q])
          /\ (\A l \in 1 .. k - 1 : Steps(i)[l].op # "store") => h[q].mem = x.mem
    BY BeforeFault
  <2> QED BY <1>1, <2>1
<1>3. /\ e[j] \in Machines /\ Running(e[j]) /\ e[j].in = y.in /\ e[j].out = y.out
      /\ \A r \in All : \/ e[j].reg[r] = h[j].reg[r]
                        \/ r \in Before(i, k) \ Kept(i) /\ r \notin Before(i, j + 1)
      /\ \A c \in Val : e[j].mem[c] = h[j].mem[c] \/ e[j].mem[c] = y.mem[c]
  BY DEF Redone
<1>4. IsStep(t) /\ h[j + 1] = Do(h[j], t, Granted) /\ e[j + 1] = Do(e[j], t, Granted)
  BY <1>1, TraceStep
<1>5. /\ t.op \notin {"in", "out", "whileequal", "untilequal"}
      /\ \A r \in Uses(t) : r \in Before(i, k) \ Kept(i) => r \in Before(i, j + 1)
      /\ t.op = "load" => \A l \in 1 .. k - 1 : Steps(i)[l].op # "store"
  BY <1>1 DEF Repeatable
<1>6. \A r \in All : r \notin Before(i, (j + 1) + 1) <=> r \notin Sets(t) /\ r \notin Before(i, j + 1)
  <2>1. \A l : l \in 1 .. ((j + 1) + 1) - 1 <=> l \in 1 .. (j + 1) - 1 \/ l = j + 1
    BY <1>1
  <2> QED BY <2>1 DEF Before
<1> HIDE DEF t, y
<1>7. Worked(h[j + 1], h[j], t) /\ Worked(e[j + 1], e[j], t)
  BY <1>2, <1>3, <1>4, GrantedEffect
<1>8. \A r \in All : r \in Uses(t) => e[j].reg[r] = h[j].reg[r]
  BY <1>3, <1>5
<1>9. t.op = "load" => e[j].mem = h[j].mem
  <2>1. ASSUME t.op = "load" PROVE e[j].mem = h[j].mem
    <3>1. h[j].mem = y.mem
      BY <1>2, <1>5, <2>1
    <3>2. \A c \in Val : e[j].mem[c] = h[j].mem[c]
      BY <1>3, <3>1
    <3> QED BY <1>2, <1>3, <3>2 DEF Machines
  <2> QED BY <2>1
<1>10. /\ \A r \in Sets(t) : RegAfter(e[j], t)[r] = RegAfter(h[j], t)[r]
       /\ \A c \in Val : \/ MemAfter(e[j], t)[c] = MemAfter(h[j], t)[c]
                         \/ MemAfter(e[j], t)[c] = e[j].mem[c] /\ MemAfter(h[j], t)[c] = h[j].mem[c]
       /\ StopAfter(e[j], t) = StopAfter(h[j], t)
  BY <1>2, <1>3, <1>4, <1>5, <1>8, <1>9, Alike
<1>11. /\ e[j + 1] \in Machines /\ e[j + 1].fault = NoFault
       /\ e[j + 1].reg = RegAfter(e[j], t) /\ e[j + 1].mem = MemAfter(e[j], t)
       /\ e[j + 1].stop = StopAfter(e[j], t) /\ e[j + 1].in = y.in /\ e[j + 1].out = y.out
       /\ h[j + 1].reg = RegAfter(h[j], t) /\ h[j + 1].mem = MemAfter(h[j], t)
       /\ h[j + 1].stop = StopAfter(h[j], t)
  BY <1>3, <1>5, <1>7 DEF Worked
<1>12. Running(e[j + 1])
  BY <1>2, <1>10, <1>11 DEF Running
<1>13. ASSUME NEW r \in All
       PROVE  \/ e[j + 1].reg[r] = h[j + 1].reg[r]
              \/ r \in Before(i, k) \ Kept(i) /\ r \notin Before(i, (j + 1) + 1)
  <2>1. CASE r \in Sets(t)
    BY <1>10, <1>11, <2>1
  <2>2. CASE r \notin Sets(t)
    <3>1. e[j + 1].reg[r] = e[j].reg[r] /\ h[j + 1].reg[r] = h[j].reg[r]
      BY <1>2, <1>3, <1>4, <1>7, <2>2, Frame
    <3> QED BY <1>3, <1>6, <2>2, <3>1
  <2> QED BY <2>1, <2>2
<1>14. \A c \in Val : e[j + 1].mem[c] = h[j + 1].mem[c] \/ e[j + 1].mem[c] = y.mem[c]
  BY <1>3, <1>10, <1>11
<1> QED BY <1>11, <1>12, <1>13, <1>14 DEF Redone, y

\* The second execution comes to the access as the first did, ...
LEMMA PrefixRepeats ==
  ASSUME NEW i, Program(i), Repeatable(i), NEW x \in Machines, Running(x),
         NEW h, Trace(h, i, x, Granted), NEW k \in 1 .. Len(Steps(i)), NEW n, FaultAt(n, h, i, k),
         NEW s, Restarted(s, x, h[k - 1], i), NEW e, Trace(e, i, s, Granted)
  PROVE  e[k - 1] = h[k - 1]
<1> DEFINE y == h[k - 1]
           T == {j \in 0 .. k - 1 : Redone(e[j], h[j], y, i, k, j)}
<1>1. /\ s \in Machines /\ k - 1 \in Nat /\ k - 1 \in 0 .. k - 1 /\ (k - 1) + 1 = k
      /\ e[0] = s /\ h[0] = x /\ Kept(i) \subseteq All
  BY DEF Restarted, Program, Trace, Kept, All, Regs
<1>2. y \in Machines /\ Running(y) /\ \A r \in All : r \notin Before(i, k) => y.reg[r] = x.reg[r]
  BY <1>1, BeforeFault
<1>3. 0 \in T
  <2>1. Redone(s, x, y, i, k, 0)
    <3>1. ASSUME NEW r \in All
          PROVE  s.reg[r] = x.reg[r] \/ (r \in Before(i, k) \ Kept(i) /\ r \notin Before(i, 0 + 1))
      <4>1. r \notin Before(i, 0 + 1)
        BY DEF Before
      <4> QED BY <1>2, <4>1 DEF Restarted
    <3> QED BY <3>1 DEF Restarted, Redone
  <2> QED BY <1>1, <2>1
<1>4. ASSUME NEW j \in 0 .. (k - 1) - 1, j \in T PROVE j + 1 \in T
  <2>1. j \in 0 .. k - 2 /\ j + 1 \in 0 .. k - 1 /\ Redone(e[j], h[j], y, i, k, j)
    BY <1>4
  <2>2. Redone(e[j + 1], h[j + 1], y, i, k, j + 1)
    BY <1>1, <2>1, RedoneStep
  <2> QED BY <2>1, <2>2
<1>5. Redone(e[k - 1], y, y, i, k, k - 1)
  <2>1. \A j \in 0 .. k - 1 : j \in T
    <3> HIDE DEF T
    <3> QED BY <1>1, <1>3, <1>4, UpTo
  <2>2. k - 1 \in T
    BY <1>1, <2>1
  <2> QED BY <2>2
<1> DEFINE a == e[k - 1]
<1>6. a = e[k - 1]
  OBVIOUS
<1> HIDE DEF a, y
<1>7. \A r \in All : a.reg[r] = y.reg[r]
  BY <1>1, <1>5, <1>6 DEF Redone
<1>8. a \in Machines /\ Running(a) /\ a.in = y.in /\ a.out = y.out /\ \A c \in Val : a.mem[c] = y.mem[c]
  BY <1>5, <1>6 DEF Redone
<1>9. a.reg = y.reg /\ a.mem = y.mem /\ a.stop = y.stop /\ a.fault = y.fault
  BY <1>2, <1>7, <1>8 DEF Machines, Running
<1>10. a = y
  BY <1>2, <1>8, <1>9 DEF Machines
<1> QED BY <1>6, <1>10 DEF y

\* ... and from there on goes as it would have gone.
LEMMA Repeats ==
  ASSUME NEW i, Program(i), Repeatable(i), NEW x \in Machines, Running(x),
         NEW n, NEW h, NEW k, Broken(n, h, i, x, k), NEW s, Restarted(s, x, h[k - 1], i)
  PROVE  Once(i, s, Granted) = Once(i, x, Granted)
<1> DEFINE L == Len(Steps(i))
           N == L - (k - 1)
<1>1. /\ Trace(h, i, x, Granted) /\ Once(i, x, Granted) = h[L]
      /\ k \in 1 .. L /\ FaultAt(n, h, i, k) /\ s \in Machines /\ L \in Nat
  BY DEF Broken, Restarted, Program
<1>2. PICK e : Trace(e, i, s, Granted) /\ Once(i, s, Granted) = e[L]
  BY <1>1, OnceIs
<1>3. e[k - 1] = h[k - 1]
  BY <1>1, <1>2, PrefixRepeats
<1> DEFINE T == {j \in 0 .. N : e[(k - 1) + j] = h[(k - 1) + j]}
<1>4. N \in Nat /\ 0 \in T
  BY <1>1, <1>3
<1>5. ASSUME NEW j \in 0 .. N - 1, j \in T PROVE j + 1 \in T
  <2>1. /\ (k - 1) + (j + 1) \in 1 .. L /\ ((k - 1) + (j + 1)) - 1 = (k - 1) + j
        /\ e[(k - 1) + j] = h[(k - 1) + j] /\ j + 1 \in 0 .. N
    BY <1>1, <1>5
  <2>2. /\ e[(k - 1) + (j + 1)] = Do(e[(k - 1) + j], Steps(i)[(k - 1) + (j + 1)], Granted)
        /\ h[(k - 1) + (j + 1)] = Do(h[(k - 1) + j], Steps(i)[(k - 1) + (j + 1)], Granted)
    BY <1>1, <1>2, <2>1, TraceStep
  <2> QED BY <2>1, <2>2
<1>6. \A j \in 0 .. N : j \in T
  <2> HIDE DEF T, N
  <2> QED BY <1>4, <1>5, UpTo
<1>7. N \in 0 .. N /\ (k - 1) + N = L
  BY <1>1, <1>4
<1> QED BY <1>1, <1>2, <1>6, <1>7
-----------------------------------------------------------------------------
(***************************************************************************)
(* Repeated instructions: an iteration that was broken off is the first of *)
(* the second execution, and with a count that goes down there are as many *)
(* iterations as are needed.                                               *)
(***************************************************************************)

\* An iteration looks at CX first, leaves SP alone and decrements CX once.
CountsDown(i) ==
  /\ Len(Steps(i)) > 0 /\ Steps(i)[1] = While
  /\ \A j \in 1 .. Len(Steps(i)) : "sp" \notin Sets(Steps(i)[j])
  /\ \E l \in 1 .. Len(Steps(i)) :
       /\ Steps(i)[l] = Inc("cx", -1)
       /\ \A j \in 1 .. Len(Steps(i)) : j # l => "cx" \notin Sets(Steps(i)[j])

\* What is kept, but SP, is at an access what it was at the start.
Keeps(i) ==
  \A x \in Machines : \A h : \A k \in 1 .. Len(Steps(i)) :
    Trace(h, i, x, Granted) /\ Running(h[k - 1]) /\ Steps(i)[k].op \in Accesses
      => \A r \in Kept(i) : r # "sp" => h[k - 1].reg[r] = x.reg[r]

Disciplined(i) ==
    Program(i) /\ Repeatable(i) /\ Keeps(i) /\ (i \in Repeated => CountsDown(i))

\* An iteration leaves SP alone.
LEMMA OnceKeepsSP ==
  ASSUME NEW i, Program(i), CountsDown(i), NEW x \in Machines, x.fault = NoFault
  PROVE  Once(i, x, Granted).reg["sp"] = x.reg["sp"]
<1> DEFINE L == Len(Steps(i))
<1>1. PICK h : Trace(h, i, x, Granted) /\ Once(i, x, Granted) = h[L]
  BY OnceIs
<1> DEFINE T == {j \in 0 .. L : h[j].reg["sp"] = x.reg["sp"]}
<1>2. L \in Nat /\ L \in 0 .. L /\ 0 \in T /\ "sp" \in All
  BY <1>1 DEF Program, Trace, All, Regs
<1>3. ASSUME NEW j \in 0 .. L - 1, j \in T PROVE j + 1 \in T
  <2>1. /\ j + 1 \in 1 .. L /\ (j + 1) - 1 = j /\ j \in 0 .. L /\ j + 1 \in 0 .. L
        /\ h[j].reg["sp"] = x.reg["sp"] /\ "sp" \notin Sets(Steps(i)[j + 1])
    BY <1>2, <1>3 DEF CountsDown
  <2>2. /\ h[j] \in Machines /\ IsStep(Steps(i)[j + 1])
        /\ h[j + 1] = Do(h[j], Steps(i)[j + 1], Granted)
        /\ ~Running(h[j]) => h[j + 1] = h[j]
    BY <1>1, <2>1, TraceStep
  <2>3. ASSUME Running(h[j]) PROVE h[j + 1].reg["sp"] = x.reg["sp"]
    <3>1. Worked(h[j + 1], h[j], Steps(i)[j + 1])
      BY <2>2, <2>3, GrantedEffect
    <3> QED BY <1>2, <2>1, <2>2, <3>1, Frame
  <2> QED BY <2>1, <2>2, <2>3
<1>4. \A j \in 0 .. L : j \in T
  <2> HIDE DEF T, L
  <2> QED BY <1>2, <1>3, UpTo
<1> QED BY <1>1, <1>2, <1>4

\* An iteration ends the instruction or decrements CX.
LEMMA OnceCounts ==
  ASSUME NEW i, Program(i), CountsDown(i), NEW x \in Machines, Running(x)
  PROVE  \/ Once(i, x, Granted).stop
         \/ x.reg["cx"] # 0 /\ Once(i, x, Granted).reg["cx"] = x.reg["cx"] - 1
<1> DEFINE L == Len(Steps(i))
           c == x.reg["cx"]
<1>1. PICK h : Trace(h, i, x, Granted) /\ Once(i, x, Granted) = h[L]
  BY OnceIs
<1>2. PICK l \in 1 .. L : /\ Steps(i)[l] = Inc("cx", -1)
                          /\ \A j \in 1 .. L : j # l => "cx" \notin Sets(Steps(i)[j])
  BY DEF CountsDown
<1> DEFINE Good(j) == h[j].stop \/ (c # 0 /\ h[j].reg["cx"] = IF j < l THEN c ELSE c - 1)
           T == {j \in 0 .. L : j > 0 => Good(j)}
<1>3. /\ L \in Nat /\ L > 0 /\ L \in 0 .. L /\ h[0] = x /\ Steps(i)[1] = While
      /\ "cx" \in All /\ c \in Val /\ c \in 0 .. Size - 1 /\ Size \in Nat /\ Size > 1
  <2>1. x.reg \in [All -> Val] /\ "cx" \in All
    BY DEF Machines, All, Regs
  <2>2. c \in Val
    BY <2>1
  <2>3. L \in Nat /\ L > 0 /\ h[0] = x /\ Steps(i)[1] = While
    BY <1>1 DEF Program, CountsDown, Trace
  <2>4. c \in 0 .. Size - 1 /\ Size \in Nat /\ Size > 1
    BY <2>2, RestartAssumption DEF Val
  <2>5. L \in 0 .. L
    BY <2>3
  <2> QED BY <2>1, <2>2, <2>3, <2>4, <2>5
<1>4. 0 \in T
  BY <1>3
<1>5. ASSUME NEW j \in 0 .. L - 1, j \in T PROVE j + 1 \in T
  <2>1. /\ j + 1 \in 1 .. L /\ (j + 1) - 1 = j /\ j \in 0 .. L /\ j + 1 \in 0 .. L
    BY <1>3
  <2>2. /\ h[j] \in Machines /\ IsStep(Steps(i)[j + 1])
        /\ h[j + 1] = Do(h[j], Steps(i)[j + 1], Granted)
        /\ ~Running(h[j]) => h[j + 1] = h[j]
        /\ h[j].fault = NoFault
    BY <1>1, <2>1, TraceStep, TraceGranted DEF Running
  <2>3. CASE ~Running(h[j])
    BY <2>1, <2>2, <2>3 DEF Running, Machines
  <2>4. CASE Running(h[j])
    <3>1. Worked(h[j + 1], h[j], Steps(i)[j + 1]) /\ ~h[j].stop
      BY <2>2, <2>4, GrantedEffect DEF Running
    <3>2. CASE j = 0
      <4>1. Steps(i)[j + 1].op = "while" /\ l # 1 /\ h[j] = x
        BY <1>2, <1>3, <3>2 DEF While, Inc
      <4>2. h[j + 1].stop = (c = 0)
        BY <3>1, <4>1 DEF Worked, StopAfter
      <4>3. h[j + 1].reg["cx"] = c
        BY <3>1, <4>1 DEF Worked, RegAfter
      <4>4. 1 < l
        BY <4>1
      <4>5. CASE c = 0
        <5>1. h[j + 1].stop
          BY <4>2, <4>5
        <5> QED BY <2>1, <5>1
      <4>6. CASE c # 0
        BY <2>1, <3>2, <4>3, <4>4, <4>6
      <4> QED BY <4>5, <4>6
    <3>3. CASE j > 0
      <4>1. c # 0 /\ h[j].reg["cx"] = IF j < l THEN c ELSE c - 1
        BY <1>5, <3>1, <3>3
      <4>2. CASE j + 1 = l
        <5> DEFINE q == Steps(i)[j + 1]
        <5>4. q.op = "inc" /\ q.to = "cx" /\ q.by = -1
          BY <1>2, <4>2 DEF Inc
        <5>5. h[j].reg["cx"] = c /\ c + (-1) = c - 1
          BY <1>3, <2>1, <4>1, <4>2
        <5> HIDE DEF q
        <5>6. Worked(h[j + 1], h[j], q)
          BY <3>1 DEF q
        <5>1. h[j + 1].reg = [h[j].reg EXCEPT !["cx"] = (c - 1) % Size]
          BY <5>4, <5>5, <5>6 DEF Worked, RegAfter
        <5>7. c - 1 \in 0 .. Size - 1
          BY <1>3, <4>1
        <5>2. (c - 1) % Size = c - 1 /\ h[j].reg \in [All -> Val]
          BY <2>2, <5>7, SmallValue DEF Machines, Val
        <5>3. h[j + 1].reg["cx"] = c - 1
          BY <1>3, <5>1, <5>2
        <5>8. ~(j + 1 < l)
          BY <2>1, <4>2
        <5> QED BY <2>1, <4>1, <5>3, <5>8
      <4>3. CASE j + 1 # l
        <5>1. "cx" \notin Sets(Steps(i)[j + 1])
          BY <1>2, <2>1, <4>3
        <5>2. h[j + 1].reg["cx"] = h[j].reg["cx"]
          BY <1>3, <2>2, <3>1, <5>1, Frame
        <5>3. j < l <=> j + 1 < l
          BY <2>1, <4>3
        <5> QED BY <2>1, <4>1, <5>2, <5>3
      <4> QED BY <4>2, <4>3
    <3> QED BY <2>1, <3>2, <3>3
  <2> QED BY <2>3, <2>4
<1>6. \A j \in 0 .. L : j \in T
  <2> HIDE DEF T, L
  <2> QED BY <1>3, <1>4, <1>5, UpTo
<1>7. L \in T /\ ~(L < l)
  BY <1>3, <1>6
<1> QED BY <1>1, <1>3, <1>7

\* So Size iterations come to the end.
LEMMA LoopStops ==
  ASSUME NEW i, Program(i), i \in Repeated, CountsDown(i), NEW s \in Machines,
         NEW G, Loop(G, i, s, Granted)
  PROVE  G[Times(i)].stop /\ \A n \in 0 .. Times(i) : G[n].reg["sp"] = s.reg["sp"]
<1> DEFINE N == Times(i)
           c == s.reg["cx"]
           T == {n \in 0 .. N : /\ G[n].stop \/ (c >= n /\ G[n].reg["cx"] = c - n)
                                /\ G[n].reg["sp"] = s.reg["sp"]}
<1>1. N = Size /\ N \in Nat /\ c \in Val /\ c \in Nat /\ c < N
  BY RestartAssumption DEF Times, Machines, All, Regs, Val
<1>2. 0 \in T
  <2>1. G[0].reg = s.reg
    BY DEF Loop, Fresh, Machines
  <2> QED BY <1>1, <2>1
<1>3. ASSUME NEW n \in 0 .. N - 1, n \in T PROVE n + 1 \in T
  <2>1. /\ n + 1 \in 1 .. N /\ (n + 1) - 1 = n /\ n \in 0 .. N /\ n + 1 \in 0 .. N
        /\ G[n].stop \/ (c >= n /\ G[n].reg["cx"] = c - n)
        /\ G[n].reg["sp"] = s.reg["sp"]
    BY <1>1, <1>3
  <2>2. /\ G[n] \in Machines /\ G[n + 1] = Once(i, G[n], Granted)
        /\ ~Running(G[n]) => G[n + 1] = G[n]
        /\ G[n].fault = NoFault
    BY <2>1, LoopStep, LoopGranted
  <2>3. G[n + 1].reg["sp"] = s.reg["sp"]
    BY <2>1, <2>2, OnceKeepsSP
  <2>4. CASE ~Running(G[n])
    BY <2>1, <2>2, <2>3, <2>4 DEF Running, Machines
  <2>5. CASE Running(G[n])
    <3>1. \/ G[n + 1].stop
          \/ G[n].reg["cx"] # 0 /\ G[n + 1].reg["cx"] = G[n].reg["cx"] - 1
      BY <2>2, <2>5, OnceCounts
    <3>2. c >= n /\ G[n].reg["cx"] = c - n
      BY <2>1, <2>5 DEF Running
    <3>3. c - n # 0 => c >= n + 1 /\ (c - n) - 1 = c - (n + 1)
      BY <1>1, <2>1, <3>2
    <3> QED BY <2>1, <2>3, <3>1, <3>2, <3>3
  <2> QED BY <2>4, <2>5
<1>4. \A n \in 0 .. N : n \in T
  <2> HIDE DEF T, N
  <2> QED BY <1>1, <1>2, <1>3, UpTo
<1>5. N \in 0 .. N /\ ~(c >= N)
  BY <1>1
<1> QED BY <1>1, <1>4, <1>5

\* An instruction that was broken off and starts again, with ESP as it was, ends as
\* it would have ended.
LEMMA Resume ==
  ASSUME NEW i, Disciplined(i), NEW s \in Machines, NEW G, Loop(G, i, s, Granted),
         NEW j \in 1 .. Times(i), NEW n, NEW h, NEW k, Broken(n, h, i, G[j - 1], k),
         NEW z, z = [n EXCEPT !.reg["sp"] = s.reg["sp"]]
  PROVE  z \in Machines /\ Run(i, z, Granted) = G[Times(i)]
<1> DEFINE x == G[j - 1]
           y == h[k - 1]
           N == Times(i)
<1>1. /\ Program(i) /\ Repeatable(i) /\ N \in Nat \ {0} /\ "sp" \in All /\ Kept(i) \subseteq All
      /\ j - 1 \in 0 .. N /\ Len(Steps(i)) \in Nat
  BY TimesType DEF Disciplined, Program, All, Regs, Kept
<1>2. /\ x \in Machines /\ x.fault = NoFault /\ Trace(h, i, x, Granted)
      /\ Once(i, x, Granted) = h[Len(Steps(i))]
      /\ k \in 1 .. Len(Steps(i)) /\ FaultAt(n, h, i, k)
  BY <1>1, LoopGranted DEF Broken
<1>3. /\ y \in Machines /\ Running(y) /\ Steps(i)[k].op \in Accesses
      /\ \E q \in Faults : n = [y EXCEPT !.fault = q]
  BY <1>1, <1>2, TraceStep DEF FaultAt
<1>4. Running(x)
  <2>1. /\ 0 \in 0 .. Len(Steps(i)) /\ k - 1 \in 0 .. Len(Steps(i)) /\ h[0] = x
    BY <1>1, <1>2 DEF Trace
  <2> HIDE DEF x
  <2>2. ~Running(x) => h[k - 1] = x
    BY <1>1, <1>2, <2>1, TraceEnded
  <2> QED BY <1>3, <2>2
<1>5. x.reg["sp"] = s.reg["sp"]
  <2>1. CASE i \in Repeated
    BY <1>1, <2>1, LoopStops DEF Disciplined
  <2>2. CASE i \notin Repeated
    <3>1. j - 1 = 0
      BY <2>2, TimesType
    <3>2. x = Fresh(s)
      BY <3>1 DEF Loop
    <3> QED BY <3>2 DEF Fresh, Machines
  <2> QED BY <2>1, <2>2
<1> HIDE DEF x, y, N
<1>6. /\ z \in Machines /\ Running(Fresh(z)) /\ Fresh(z) \in Machines
      /\ Fresh(z).mem = y.mem /\ Fresh(z).in = y.in /\ Fresh(z).out = y.out
      /\ \A r \in All : r # "sp" => Fresh(z).reg[r] = y.reg[r]
      /\ Fresh(z).reg["sp"] = s.reg["sp"]
  <2>1. PICK q \in Faults : n = [y EXCEPT !.fault = q]
    BY <1>3
  <2>2. PICK v : v = s.reg["sp"] /\ v \in Val
    BY <1>1 DEF Machines
  <2>3. PICK g : g = [y.reg EXCEPT !["sp"] = v]
    OBVIOUS
  <2>6. /\ g \in [All -> Val] /\ g["sp"] = v
        /\ \A r \in All : r # "sp" => g[r] = y.reg[r]
    BY <1>1, <1>3, <2>2, <2>3 DEF Machines
  <2>4. z = [[y EXCEPT !.fault = q] EXCEPT !.reg = g]
    BY <1>3, <2>1, <2>2, <2>3 DEF Machines
  <2>5. NoFault \in Faults
    BY <1>2 DEF Machines
  <2>7. /\ z.reg = g /\ z.mem = y.mem /\ z.in = y.in /\ z.out = y.out /\ z \in Machines
    BY <1>3, <2>4, <2>6 DEF Machines
  <2>8. /\ Fresh(z) \in Machines /\ Fresh(z).reg = z.reg /\ Fresh(z).mem = z.mem
        /\ Fresh(z).in = z.in /\ Fresh(z).out = z.out /\ Running(Fresh(z))
    BY <2>5, <2>7 DEF Machines, Fresh, Running
  <2> QED BY <2>2, <2>6, <2>7, <2>8
<1>7. Restarted(Fresh(z), x, y, i)
  <2>1. \A r \in All \ Kept(i) : r # "sp"
    BY DEF Kept
  <2>2. \A r \in Kept(i) : r # "sp" => y.reg[r] = x.reg[r]
    BY <1>2, <1>3 DEF Disciplined, Keeps, y
  <2> QED BY <1>1, <1>5, <1>6, <2>1, <2>2 DEF Restarted
<1>8. Once(i, Fresh(z), Granted) = Once(i, x, Granted)
  BY <1>1, <1>2, <1>4, <1>7, Repeats DEF Broken, x, y
<1>9. PICK H : Loop(H, i, z, Granted) /\ Run(i, z, Granted) = H[N]
  BY <1>1, <1>6, RunIs DEF N
<1> DEFINE M == N - j
           T == {q \in 0 .. M : H[q + 1] = G[j + q]}
<1>10. M \in Nat /\ 0 \in T
  <2>1. 1 \in 1 .. N /\ H[1] = Once(i, H[0], Granted) /\ H[0] = Fresh(z)
    BY <1>1, <1>9 DEF Loop, N
  <2>2. G[j] = Once(i, x, Granted)
    BY DEF Loop, x
  <2>3. H[1] = G[j] /\ M \in Nat
    BY <1>1, <1>8, <2>1, <2>2 DEF N
  <2> QED BY <2>3
<1>11. ASSUME NEW q \in 0 .. M - 1, q \in T PROVE q + 1 \in T
  <2>1. /\ q + 1 \in 0 .. M /\ (q + 1) + 1 \in 1 .. N /\ j + (q + 1) \in 1 .. N
        /\ ((q + 1) + 1) - 1 = q + 1 /\ (j + (q + 1)) - 1 = j + q /\ H[q + 1] = G[j + q]
    BY <1>1, <1>10, <1>11 DEF N
  <2>2. H[(q + 1) + 1] = Once(i, H[q + 1], Granted) /\ G[j + (q + 1)] = Once(i, G[j + q], Granted)
    BY <1>9, <2>1 DEF Loop, N
  <2> QED BY <2>1, <2>2
<1>12. \A q \in 0 .. M : q \in T
  <2> HIDE DEF T, M
  <2> QED BY <1>10, <1>11, UpTo
<1>13. M + 1 \in 0 .. N /\ N \in (M + 1) .. N /\ H[M + 1] = G[N]
  <2>1. M \in 0 .. M /\ j + M = N /\ M + 1 \in 0 .. N /\ N \in (M + 1) .. N
    BY <1>1, <1>10 DEF N
  <2> QED BY <1>12, <2>1
<1>14. CASE i \in Repeated
  <2>1. G[N].stop
    BY <1>1, <1>14, LoopStops DEF Disciplined, N
  <2>2. ~Running(H[M + 1])
    BY <1>13, <2>1 DEF Running
  <2>3. H[N] = H[M + 1]
    <3> HIDE DEF M
    <3> QED BY <1>1, <1>6, <1>9, <1>13, <2>2, LoopEnded DEF N
  <2> QED BY <1>6, <1>9, <1>13, <2>3 DEF N
<1>15. CASE i \notin Repeated
  <2>1. N = 1 /\ M + 1 = 1
    BY <1>15, TimesType DEF N
  <2> QED BY <1>6, <1>9, <1>13, <2>1 DEF N
<1> QED BY <1>14, <1>15

\* What a run is, with faults or without: the end, or a machine from which the end is
\* reached again.
LEMMA RunFaults ==
  ASSUME NEW i, Disciplined(i), NEW s \in Machines, NEW R, NEW v \in Val, v = s.reg["sp"]
  PROVE  LET f == Run(i, s, R)
             z == [f EXCEPT !.reg["sp"] = v]
         IN  /\ f \in Machines
             /\ f.fault = NoFault => f = Run(i, s, Granted)
             /\ f.fault # NoFault => z \in Machines /\ Run(i, z, Granted) = Run(i, s, Granted)
<1>1. Program(i) /\ Times(i) \in Nat \ {0}
  BY TimesType DEF Disciplined
<1>2. PICK g : Loop(g, i, s, R) /\ Run(i, s, R) = g[Times(i)]
  BY <1>1, RunIs
<1>3. PICK G : Loop(G, i, s, Granted) /\ Run(i, s, Granted) = G[Times(i)]
  BY <1>1, RunIs
<1>4. Times(i) \in 0 .. Times(i) /\ g[Times(i)] \in Machines /\ G[Times(i)].fault = NoFault
  <2>1. Times(i) \in 0 .. Times(i)
    BY <1>1
  <2>2. G[Times(i)].fault = NoFault
    BY <1>1, <1>3, <2>1, LoopGranted
  <2> QED BY <1>2, <2>1, <2>2 DEF Loop
<1>5. CASE g[Times(i)] = G[Times(i)]
  BY <1>2, <1>3, <1>4, <1>5
<1>6. CASE \E j \in 1 .. Times(i) : \E h, k : Broken(g[Times(i)], h, i, G[j - 1], k)
  <2>7. PICK j \in 1 .. Times(i) : \E h, k : Broken(g[Times(i)], h, i, G[j - 1], k)
    BY <1>6
  <2>1. PICK h, k : Broken(g[Times(i)], h, i, G[j - 1], k)
    BY <2>7
  <2>2. j - 1 \in 0 .. Times(i) /\ G[j - 1] \in Machines
    BY <1>1, <1>3 DEF Loop
  <2>3. h[k - 1] \in Machines
    BY <1>1, <2>1, <2>2, TraceStep DEF Broken
  <2>4. g[Times(i)].fault # NoFault
    BY <2>1, <2>3 DEF Broken, FaultAt, Machines
  <2> DEFINE z == [g[Times(i)] EXCEPT !.reg["sp"] = v]
  <2>5. z = [g[Times(i)] EXCEPT !.reg["sp"] = s.reg["sp"]]
    OBVIOUS
  <2> HIDE DEF z
  <2>6. z \in Machines /\ Run(i, z, Granted) = G[Times(i)]
    BY <1>3, <2>1, <2>5, Resume
  <2> QED BY <1>2, <1>3, <1>4, <2>4, <2>6 DEF z
<1> QED BY <1>1, <1>2, <1>3, <1>4, <1>5, <1>6, LoopFault
-----------------------------------------------------------------------------
(***************************************************************************)
(* The loop and the guest's handler.                                       *)
(***************************************************************************)

\* ESP as it was at the start of the instruction.
WithESP(s) == [s EXCEPT !.reg["sp"] = start.reg["sp"]]

\* The inductive invariant: whatever was done, the instruction comes to the same end.
Resumable ==
  /\ instr \in Instrs /\ start \in Machines /\ m \in Machines
  /\ status \in {"ready", "faulted", "done"}
  /\ status = "ready" =>
       /\ m.reg["sp"] = start.reg["sp"]
       /\ Run(instr, m, Granted) = Run(instr, start, Granted)
  /\ status = "faulted" =>
       /\ WithESP(m) \in Machines
       /\ Run(instr, WithESP(m), Granted) = Run(instr, start, Granted)
  /\ status = "done" => m = Run(instr, start, Granted)

\* It holds at first.
LEMMA ResumableInit == Init => Resumable
<1> SUFFICES ASSUME Init PROVE Resumable
  OBVIOUS
<1>1. PICK g \in InitRegs, c \in InitMems :
        start = [reg |-> g, mem |-> c, in |-> 3 % Size, out |-> <<>>,
                 stop |-> FALSE, fault |-> NoFault]
  BY DEF Init
<1>2. PICK d : d = 3 % Size
  OBVIOUS
<1>3. NoFault \in Faults /\ d \in Val /\ g \in [All -> Val] /\ c \in [Val -> Val]
  <2>1. PageOf(0) = 0
    BY DEF PageOf
  <2> QED BY <1>2, <2>1, Values, InitAssumption DEF Faults, NoFault
<1>4. start \in Machines
  BY <1>1, <1>2, <1>3 DEF Machines
<1> QED BY <1>4 DEF Init, Resumable

\* Execute keeps it.
LEMMA ResumableExecute ==
  ASSUME \A i \in Instrs : Disciplined(i), Resumable, Execute
  PROVE  Resumable'
<1>1. /\ instr' = instr /\ start' = start /\ m' = Run(instr, m, rights)
      /\ status' = IF m'.fault = NoFault THEN "done" ELSE "faulted"
      /\ instr \in Instrs /\ start \in Machines /\ m \in Machines /\ Disciplined(instr)
      /\ m.reg["sp"] = start.reg["sp"] /\ Run(instr, m, Granted) = Run(instr, start, Granted)
  BY DEF Execute, Resumable
<1>2. PICK v \in Val : v = start.reg["sp"]
  BY <1>1 DEF Machines, All, Regs
<1>3. /\ m' \in Machines
      /\ m'.fault = NoFault => m' = Run(instr, m, Granted)
      /\ m'.fault # NoFault =>
           /\ [m' EXCEPT !.reg["sp"] = v] \in Machines
           /\ Run(instr, [m' EXCEPT !.reg["sp"] = v], Granted) = Run(instr, m, Granted)
  BY <1>1, <1>2, RunFaults
<1>4. WithESP(m)' = [m' EXCEPT !.reg["sp"] = v]
  BY <1>1, <1>2 DEF WithESP
<1> QED BY <1>1, <1>3, <1>4 DEF Resumable

\* Handle keeps it.
LEMMA ResumableHandle == ASSUME Resumable, Handle PROVE Resumable'
<1>1. /\ instr' = instr /\ start' = start /\ m' = WithESP(m) /\ status' = "ready"
      /\ instr \in Instrs /\ start \in Machines /\ m \in Machines /\ WithESP(m) \in Machines
      /\ Run(instr, WithESP(m), Granted) = Run(instr, start, Granted)
  BY DEF Handle, Resumable, WithESP
<1>2. m'.reg["sp"] = start.reg["sp"]
  <2>1. "sp" \in All /\ m.reg \in [All -> Val]
    BY <1>1 DEF Machines, All, Regs
  <2> QED BY <1>1, <2>1 DEF WithESP, Machines
<1> QED BY <1>1, <1>2 DEF Resumable

\* Page faults inside disciplined instructions are invisible, however many there are
\* and whatever the guest does with the pages meanwhile: mainloop32.c may restart the
\* instruction from its first step.
THEOREM DisciplineSuffices ==
  ASSUME \A i \in Instrs : Disciplined(i)
  PROVE  Spec => []Transparent
<1>1. Init => Resumable
  BY ResumableInit
<1>2. Resumable /\ [Next]_vars => Resumable'
  <2> SUFFICES ASSUME Resumable, [Next]_vars PROVE Resumable'
    OBVIOUS
  <2>1. CASE Execute
    BY <2>1, ResumableExecute
  <2>2. CASE Handle
    BY <2>2, ResumableHandle
  <2>3. CASE UNCHANGED vars
    BY <2>3 DEF vars, Resumable, WithESP
  <2> QED BY <2>1, <2>2, <2>3 DEF Next
<1>3. Resumable => Transparent
  BY DEF Resumable, Transparent, Granted
<1> QED BY <1>1, <1>2, <1>3, PTL DEF Spec
-----------------------------------------------------------------------------
(***************************************************************************)
(* The instructions that keep the discipline.                              *)
(***************************************************************************)

\* What the steps are.
Step == UNION {
  {Load(r, a) : r \in All, a \in Places}, {Store(r, a) : r \in All, a \in Places},
  {Move(r, s) : r \in All, s \in All}, {Inc(r, n) : r \in All, n \in {-1, 1}},
  {Add(r, 1) : r \in All}, {Sum(r, s) : r \in All, s \in All},
  {Adc(r, s) : r \in All, s \in All}, {Cmp(r, s) : r \in All, s \in All},
  {In(r) : r \in All}, {Out(r) : r \in All}, {While, WhileEqual, UntilEqual}}

\* The constructors make steps.
LEMMA StepKinds == Step \subseteq {x \in Step : IsStep(x)}
BY DEF Step, IsStep, Ops, Accesses, Load, Store, Move, Inc, Add, Sum, Adc, Cmp, In, Out,
       While, WhileEqual, UntilEqual

\* A sequence of steps is a program.
LEMMA ProgramIf == ASSUME NEW i, Steps(i) \in Seq(Step) PROVE Program(i)
BY StepKinds DEF Program

\* What the constructors' steps read and write.
LEMMA Effects ==
  /\ \A r, a : Load(r, a).op = "load" /\ Uses(Load(r, a)) = {a} /\ Sets(Load(r, a)) = {r}
  /\ \A r, a : Store(r, a).op = "store" /\ Uses(Store(r, a)) = {r, a} /\ Sets(Store(r, a)) = {}
  /\ \A r, s : Move(r, s).op = "move" /\ Uses(Move(r, s)) = {s} /\ Sets(Move(r, s)) = {r}
  /\ \A r, n : Inc(r, n).op = "inc" /\ Uses(Inc(r, n)) = {r} /\ Sets(Inc(r, n)) = {r}
  /\ \A r, n : Add(r, n).op = "add" /\ Uses(Add(r, n)) = {r} /\ Sets(Add(r, n)) = {r, "cf"}
  /\ \A r, s : Sum(r, s).op = "sum" /\ Uses(Sum(r, s)) = {r, s} /\ Sets(Sum(r, s)) = {r, "cf"}
  /\ \A r, s : Adc(r, s).op = "adc" /\ Uses(Adc(r, s)) = {r, s, "cf"} /\ Sets(Adc(r, s)) = {r, "cf"}
  /\ \A r, s : Cmp(r, s).op = "cmp" /\ Uses(Cmp(r, s)) = {r, s} /\ Sets(Cmp(r, s)) = {"zf"}
  /\ \A r : Out(r).op = "out" /\ Uses(Out(r)) = {r} /\ Sets(Out(r)) = {}
  /\ While.op = "while" /\ Uses(While) = {"cx"} /\ Sets(While) = {}
  /\ WhileEqual.op = "whileequal" /\ Uses(WhileEqual) = {"zf"} /\ Sets(WhileEqual) = {}
  /\ UntilEqual.op = "untilequal" /\ Uses(UntilEqual) = {"zf"} /\ Sets(UntilEqual) = {}
BY DEF Uses, Sets, Load, Store, Move, Inc, Add, Sum, Adc, Cmp, Out, While, WhileEqual, UntilEqual

\* The last access is the step K, and the steps before it write only W.
Scratch(i, K, W) ==
  LET p == Steps(i)
  IN  /\ K \in 1 .. Len(p)
      /\ \A j \in 1 .. Len(p) : p[j].op \in Accesses => j <= K
      /\ \A j \in 1 .. K - 1 :
           /\ p[j].op \notin {"in", "out", "whileequal", "untilequal"}
           /\ Sets(p[j]) \subseteq W
           /\ \A r \in Uses(p[j]) :
                r \in W => r \in Kept(i) \/ \E l \in 1 .. j - 1 : r \in Sets(p[l])
      /\ \/ \A j \in 1 .. K - 1 : p[j].op # "store"
         \/ \A j \in 1 .. K - 1 : p[j].op # "load"

\* Then they can be repeated.
LEMMA RepeatableIf ==
  ASSUME NEW i, Program(i), NEW K, NEW W, Scratch(i, K, W)
  PROVE  Repeatable(i)
<1> DEFINE p == Steps(i)
<1>1. Len(p) \in Nat /\ K \in 1 .. Len(p)
  BY DEF Program, Scratch
<1> SUFFICES ASSUME NEW k \in 1 .. Len(p), p[k].op \in Accesses
             PROVE  /\ \A j \in 1 .. k - 1 : \A r \in Uses(p[j]) :
                         r \in Before(i, k) \ Kept(i) => r \in Before(i, j)
                    /\ \A j \in 1 .. k - 1 : p[j].op \notin {"in", "out", "whileequal", "untilequal"}
                    /\ \/ \A j \in 1 .. k - 1 : p[j].op # "store"
                       \/ \A j \in 1 .. k - 1 : p[j].op # "load"
  BY DEF Repeatable
<1>2. \A j \in 1 .. k - 1 : j \in 1 .. K - 1
  BY <1>1 DEF Scratch
<1>3. \A r \in Before(i, k) : r \in All /\ r \in W
  BY <1>1, <1>2 DEF Before, Scratch
<1>4. ASSUME NEW j \in 1 .. k - 1, NEW r \in Uses(p[j]), r \in Before(i, k) \ Kept(i)
      PROVE  r \in Before(i, j)
  <2>1. \E l \in 1 .. j - 1 : r \in Sets(p[l])
    BY <1>2, <1>3, <1>4 DEF Scratch
  <2> QED BY <1>3, <1>4, <2>1 DEF Before
<1> QED BY <1>2, <1>4 DEF Scratch

\* Only INC keeps more than ESP.
LEMMA KeepsESP == ASSUME NEW i, i # "INC" PROVE Keeps(i)
BY DEF Keeps, Kept

\* The steps are in Step.
LEMMA StepNames ==
  /\ \A r \in All, a \in Places : Load(r, a) \in Step /\ Store(r, a) \in Step
  /\ \A r, s \in All : Move(r, s) \in Step /\ Sum(r, s) \in Step /\ Adc(r, s) \in Step
                       /\ Cmp(r, s) \in Step
  /\ \A r \in All : Inc(r, 1) \in Step /\ Inc(r, -1) \in Step /\ Add(r, 1) \in Step
                    /\ In(r) \in Step /\ Out(r) \in Step
  /\ While \in Step /\ WhileEqual \in Step /\ UntilEqual \in Step
  /\ All \subseteq Places /\ "ea" \in Places /\ "ea+1" \in Places
  /\ {"ax", "cx", "bp", "sp", "si", "di", "cf", "zf", "t", "u", "v"} \subseteq All
BY DEF Step, Places, All, Regs, Temps

\* XCHG: the register is written last.
LEMMA XCHGIsDisciplined == Disciplined("XCHG")
<1>1. PICK p : p = Steps("XCHG")
  OBVIOUS
<1>2. p = <<Load("t", "ea"), Store("ax", "ea"), Move("ax", "t")>>
  BY <1>1 DEF Steps, XCHG
<1>3. /\ p \in Seq(Step) /\ Len(p) = 3
      /\ p[1] = Load("t", "ea") /\ p[2] = Store("ax", "ea") /\ p[3] = Move("ax", "t")
  <2>1. /\ Load("t", "ea") \in Step /\ Store("ax", "ea") \in Step /\ Move("ax", "t") \in Step
    BY StepNames
  <2> QED BY <1>2, <2>1
<1>4. /\ p[1].op = "load" /\ p[2].op = "store" /\ p[3].op = "move"
      /\ Uses(p[1]) = {"ea"} /\ Sets(p[1]) = {"t"}
  BY <1>3, Effects
<1>5. Scratch("XCHG", 2, {"t"})
  BY <1>1, <1>3, <1>4 DEF Scratch, Kept, Accesses
<1> QED BY <1>1, <1>3, <1>5, ProgramIf, RepeatableIf, KeepsESP DEF Disciplined, Repeated

\* PUSH: the copy of SP is made anew.
LEMMA PUSHIsDisciplined == Disciplined("PUSH")
<1>1. PICK p : p = Steps("PUSH")
  OBVIOUS
<1>2. p = <<Move("v", "sp"), Inc("v", -1), Load("t", "ea"), Store("t", "v"), Inc("sp", -1)>>
  BY <1>1 DEF Steps, PUSH
<1>3. /\ p \in Seq(Step) /\ Len(p) = 5
      /\ p[1] = Move("v", "sp") /\ p[2] = Inc("v", -1) /\ p[3] = Load("t", "ea")
      /\ p[4] = Store("t", "v") /\ p[5] = Inc("sp", -1)
  <2>1. /\ Move("v", "sp") \in Step /\ Inc("v", -1) \in Step /\ Load("t", "ea") \in Step
        /\ Store("t", "v") \in Step /\ Inc("sp", -1) \in Step
    BY StepNames
  <2> QED BY <1>2, <2>1
<1>4. /\ p[1].op = "move" /\ p[2].op = "inc" /\ p[3].op = "load" /\ p[4].op = "store" /\ p[5].op = "inc"
      /\ Uses(p[1]) = {"sp"} /\ Sets(p[1]) = {"v"} /\ Uses(p[2]) = {"v"} /\ Sets(p[2]) = {"v"}
      /\ Uses(p[3]) = {"ea"} /\ Sets(p[3]) = {"t"}
  BY <1>3, Effects
<1>5. Scratch("PUSH", 4, {"t", "v"})
  BY <1>1, <1>3, <1>4 DEF Scratch, Kept, Accesses
<1> QED BY <1>1, <1>3, <1>5, ProgramIf, RepeatableIf, KeepsESP DEF Disciplined, Repeated

\* ADD to the memory: CF is not read again.
LEMMA ADDMemIsDisciplined == Disciplined("ADD_mem")
<1>1. PICK p : p = Steps("ADD_mem")
  OBVIOUS
<1>2. p = <<Load("t", "ea"), Sum("t", "ax")>> \o <<Store("t", "ea")>>
  BY <1>1 DEF Steps, ALU2OP
<1>3. /\ p \in Seq(Step) /\ Len(p) = 3
      /\ p[1] = Load("t", "ea") /\ p[2] = Sum("t", "ax") /\ p[3] = Store("t", "ea")
  <2>1. /\ Load("t", "ea") \in Step /\ Sum("t", "ax") \in Step /\ Store("t", "ea") \in Step
    BY StepNames
  <2> QED BY <1>2, <2>1
<1>4. /\ p[1].op = "load" /\ p[2].op = "sum" /\ p[3].op = "store"
      /\ Uses(p[1]) = {"ea"} /\ Sets(p[1]) = {"t"} /\ Uses(p[2]) = {"t", "ax"}
      /\ Sets(p[2]) = {"t", "cf"}
  BY <1>3, Effects
<1>5. Scratch("ADD_mem", 3, {"cf", "t"})
  BY <1>1, <1>3, <1>4 DEF Scratch, Kept, Accesses
<1> QED BY <1>1, <1>3, <1>5, ProgramIf, RepeatableIf, KeepsESP DEF Disciplined, Repeated

\* ADC to a register: the access is the first step.
LEMMA ADCRegIsDisciplined == Disciplined("ADC_reg")
<1>1. PICK p : p = Steps("ADC_reg")
  OBVIOUS
<1>2. p = <<Load("t", "ea"), Adc("t", "ax")>> \o <<Move("ax", "t")>>
  BY <1>1 DEF Steps, ALU2OP
<1>3. /\ p \in Seq(Step) /\ Len(p) = 3
      /\ p[1] = Load("t", "ea") /\ p[2] = Adc("t", "ax") /\ p[3] = Move("ax", "t")
  <2>1. /\ Load("t", "ea") \in Step /\ Adc("t", "ax") \in Step /\ Move("ax", "t") \in Step
    BY StepNames
  <2> QED BY <1>2, <2>1
<1>4. /\ p[1].op = "load" /\ p[2].op = "adc" /\ p[3].op = "move"
  BY <1>3, Effects
<1>5. Scratch("ADC_reg", 1, {})
  BY <1>1, <1>3, <1>4 DEF Scratch, Kept, Accesses
<1> QED BY <1>1, <1>3, <1>5, ProgramIf, RepeatableIf, KeepsESP DEF Disciplined, Repeated

\* LES: both words are read before a register is written.
LEMMA LESIsDisciplined == Disciplined("LES")
<1>1. PICK p : p = Steps("LES")
  OBVIOUS
<1>2. p = <<Load("t", "ea"), Load("u", "ea+1")>> \o <<Move("si", "u"), Move("ax", "t")>>
  BY <1>1 DEF Steps, LES, LoadWord
<1>3. /\ p \in Seq(Step) /\ Len(p) = 4
      /\ p[1] = Load("t", "ea") /\ p[2] = Load("u", "ea+1") /\ p[3] = Move("si", "u")
      /\ p[4] = Move("ax", "t")
  <2>1. /\ Load("t", "ea") \in Step /\ Load("u", "ea+1") \in Step /\ Move("si", "u") \in Step
        /\ Move("ax", "t") \in Step
    BY StepNames
  <2> QED BY <1>2, <2>1
<1>4. /\ p[1].op = "load" /\ p[2].op = "load" /\ p[3].op = "move" /\ p[4].op = "move"
      /\ Uses(p[1]) = {"ea"} /\ Sets(p[1]) = {"t"}
  BY <1>3, Effects
<1>5. Scratch("LES", 2, {"t"})
  BY <1>1, <1>3, <1>4 DEF Scratch, Kept, Accesses
<1> QED BY <1>1, <1>3, <1>5, ProgramIf, RepeatableIf, KeepsESP DEF Disciplined, Repeated

\* MOV to the memory: the part that is written already is written again.
LEMMA MOVWordIsDisciplined == Disciplined("MOV_word")
<1>1. PICK p : p = Steps("MOV_word")
  OBVIOUS
<1>2. p = <<Move("t", "ax"), Move("u", "cx")>> \o <<Store("u", "ea+1"), Store("t", "ea")>>
  BY <1>1 DEF Steps, MOVWord, StoreWord
<1>3. /\ p \in Seq(Step) /\ Len(p) = 4
      /\ p[1] = Move("t", "ax") /\ p[2] = Move("u", "cx") /\ p[3] = Store("u", "ea+1")
      /\ p[4] = Store("t", "ea")
  <2>1. /\ Move("t", "ax") \in Step /\ Move("u", "cx") \in Step /\ Store("u", "ea+1") \in Step
        /\ Store("t", "ea") \in Step
    BY StepNames
  <2> QED BY <1>2, <2>1
<1>4. /\ p[1].op = "move" /\ p[2].op = "move" /\ p[3].op = "store" /\ p[4].op = "store"
      /\ Uses(p[1]) = {"ax"} /\ Sets(p[1]) = {"t"} /\ Uses(p[2]) = {"cx"} /\ Sets(p[2]) = {"u"}
      /\ Uses(p[3]) = {"u", "ea+1"} /\ Sets(p[3]) = {}
  BY <1>3, Effects
<1>5. Scratch("MOV_word", 4, {"t", "u"})
  BY <1>1, <1>3, <1>4 DEF Scratch, Kept, Accesses
<1> QED BY <1>1, <1>3, <1>5, ProgramIf, RepeatableIf, KeepsESP DEF Disciplined, Repeated

\* LEAVE: ESP, from EBP, is set again.
LEMMA LEAVEIsDisciplined == Disciplined("LEAVE")
<1>1. PICK p : p = Steps("LEAVE")
  OBVIOUS
<1>2. p = <<Move("sp", "bp")>> \o <<Load("bp", "sp"), Inc("sp", 1)>>
  BY <1>1 DEF Steps, LEAVE, Pop
<1>3. /\ p \in Seq(Step) /\ Len(p) = 3
      /\ p[1] = Move("sp", "bp") /\ p[2] = Load("bp", "sp") /\ p[3] = Inc("sp", 1)
  <2>1. /\ Move("sp", "bp") \in Step /\ Load("bp", "sp") \in Step /\ Inc("sp", 1) \in Step
    BY StepNames
  <2> QED BY <1>2, <2>1
<1>4. /\ p[1].op = "move" /\ p[2].op = "load" /\ p[3].op = "inc"
      /\ Uses(p[1]) = {"bp"} /\ Sets(p[1]) = {"sp"}
  BY <1>3, Effects
<1>5. Scratch("LEAVE", 2, {"sp"})
  BY <1>1, <1>3, <1>4 DEF Scratch, Kept, Accesses
<1> QED BY <1>1, <1>3, <1>5, ProgramIf, RepeatableIf, KeepsESP DEF Disciplined, Repeated

\* ENTER without a display: EBP is written behind the push.
LEMMA ENTERIsDisciplined == Disciplined("ENTER")
<1>1. PICK p : p = Steps("ENTER")
  OBVIOUS
<1>2. p = <<Move("v", "sp"), Inc("v", -1), Store("bp", "v"), Inc("sp", -1)>>
          \o <<Move("bp", "sp"), Inc("sp", -1)>>
  BY <1>1 DEF Steps, ENTER, Push
<1>3. /\ p \in Seq(Step) /\ Len(p) = 6
      /\ p[1] = Move("v", "sp") /\ p[2] = Inc("v", -1) /\ p[3] = Store("bp", "v")
      /\ p[4] = Inc("sp", -1) /\ p[5] = Move("bp", "sp") /\ p[6] = Inc("sp", -1)
  <2>1. /\ Move("v", "sp") \in Step /\ Inc("v", -1) \in Step /\ Store("bp", "v") \in Step
        /\ Inc("sp", -1) \in Step /\ Move("bp", "sp") \in Step
    BY StepNames
  <2> QED BY <1>2, <2>1
<1>4. /\ p[1].op = "move" /\ p[2].op = "inc" /\ p[3].op = "store" /\ p[4].op = "inc" /\ p[5].op = "move"
      /\ p[6].op = "inc"
      /\ Uses(p[1]) = {"sp"} /\ Sets(p[1]) = {"v"} /\ Uses(p[2]) = {"v"} /\ Sets(p[2]) = {"v"}
  BY <1>3, Effects
<1>5. Scratch("ENTER", 3, {"v"})
  <2>1. Kept("ENTER") = {"sp"}
    BY DEF Kept
  <2>2. 3 \in 1 .. Len(p) /\ \A j \in 1 .. Len(p) : p[j].op \in Accesses => j <= 3
    BY <1>3, <1>4 DEF Accesses
  <2>3. \A j \in 1 .. 2 : p[j].op \notin {"in", "out", "whileequal", "untilequal", "load"}
    BY <1>3, <1>4
  <2>4. \A j \in 1 .. 2 : Sets(p[j]) \subseteq {"v"}
    BY <1>4
  <2>5. ASSUME NEW j \in 1 .. 2, NEW r \in Uses(p[j]), r \in {"v"}
        PROVE  r = "sp" \/ \E l \in 1 .. j - 1 : r \in Sets(p[l])
    BY <2>5, <1>4
  <2>6. 3 - 1 = 2
    OBVIOUS
  <2> QED BY <1>1, <2>1, <2>2, <2>3, <2>4, <2>5, <2>6 DEF Scratch
<1> QED BY <1>1, <1>3, <1>5, ProgramIf, RepeatableIf, KeepsESP DEF Disciplined, Repeated

\* POP: ESP, which moves before the last access, is put back.
LEMMA POPIsDisciplined == Disciplined("POP")
<1>1. PICK p : p = Steps("POP")
  OBVIOUS
<1>2. p = <<Inc("sp", 1), Load("u", "di"), Inc("sp", -1)>> \o <<Load("t", "sp"), Inc("sp", 1)>>
          \o <<Store("t", "ea")>>
  BY <1>1 DEF Steps, POP, Pop
<1>3. /\ p \in Seq(Step) /\ Len(p) = 6
      /\ p[1] = Inc("sp", 1) /\ p[2] = Load("u", "di") /\ p[3] = Inc("sp", -1) /\ p[4] = Load("t", "sp")
      /\ p[5] = Inc("sp", 1) /\ p[6] = Store("t", "ea")
  <2>1. /\ Inc("sp", 1) \in Step /\ Load("u", "di") \in Step /\ Inc("sp", -1) \in Step
        /\ Load("t", "sp") \in Step /\ Store("t", "ea") \in Step
    BY StepNames
  <2>2. PICK q : q = <<Inc("sp", 1), Load("u", "di"), Inc("sp", -1)>>
                   \o <<Load("t", "sp"), Inc("sp", 1)>>
    OBVIOUS
  <2>3. /\ q \in Seq(Step) /\ Len(q) = 5 /\ q[1] = Inc("sp", 1) /\ q[2] = Load("u", "di")
        /\ q[3] = Inc("sp", -1) /\ q[4] = Load("t", "sp") /\ q[5] = Inc("sp", 1)
    BY <2>1, <2>2
  <2>4. q = <<Inc("sp", 1), Load("u", "di"), Inc("sp", -1), Load("t", "sp"), Inc("sp", 1)>>
    BY <2>3
  <2>5. p = q \o <<Store("t", "ea")>>
    BY <1>2, <2>2
  <2> QED BY <2>1, <2>4, <2>5
<1>4. /\ p[1].op = "inc" /\ p[2].op = "load" /\ p[3].op = "inc" /\ p[4].op = "load" /\ p[5].op = "inc"
      /\ p[6].op = "store"
      /\ Uses(p[1]) = {"sp"} /\ Sets(p[1]) = {"sp"} /\ Uses(p[2]) = {"di"} /\ Sets(p[2]) = {"u"}
      /\ Uses(p[3]) = {"sp"} /\ Sets(p[3]) = {"sp"} /\ Uses(p[4]) = {"sp"} /\ Sets(p[4]) = {"t"}
      /\ Uses(p[5]) = {"sp"} /\ Sets(p[5]) = {"sp"}
  BY <1>3, Effects
<1>5. Scratch("POP", 6, {"sp", "t", "u"})
  BY <1>1, <1>3, <1>4 DEF Scratch, Kept, Accesses
<1> QED BY <1>1, <1>3, <1>5, ProgramIf, RepeatableIf, KeepsESP DEF Disciplined, Repeated

\* POPA: the registers that were read already are read again.
LEMMA POPAIsDisciplined == Disciplined("POPA")
<1>1. PICK p : p = Steps("POPA")
  OBVIOUS
<1>2. p = <<Load("si", "sp"), Inc("sp", 1)>> \o <<Load("bp", "sp"), Inc("sp", 1)>>
          \o <<Load("cx", "sp"), Inc("sp", 1)>> \o <<Load("ax", "sp"), Inc("sp", 1)>>
  BY <1>1 DEF Steps, POPA, Pop
<1>3. /\ p \in Seq(Step) /\ Len(p) = 8
      /\ p[1] = Load("si", "sp") /\ p[2] = Inc("sp", 1) /\ p[3] = Load("bp", "sp")
      /\ p[4] = Inc("sp", 1) /\ p[5] = Load("cx", "sp") /\ p[6] = Inc("sp", 1)
      /\ p[7] = Load("ax", "sp") /\ p[8] = Inc("sp", 1)
  <2>1. /\ Load("si", "sp") \in Step /\ Inc("sp", 1) \in Step /\ Load("bp", "sp") \in Step
        /\ Load("cx", "sp") \in Step /\ Load("ax", "sp") \in Step
    BY StepNames
  <2>2. PICK q1 : q1 = <<Load("si", "sp"), Inc("sp", 1)>> \o <<Load("bp", "sp"), Inc("sp", 1)>>
    OBVIOUS
  <2>3. /\ q1 \in Seq(Step) /\ Len(q1) = 4 /\ q1[1] = Load("si", "sp") /\ q1[2] = Inc("sp", 1)
        /\ q1[3] = Load("bp", "sp") /\ q1[4] = Inc("sp", 1)
    BY <2>1, <2>2
  <2>4. q1 = <<Load("si", "sp"), Inc("sp", 1), Load("bp", "sp"), Inc("sp", 1)>>
    BY <2>3
  <2>5. PICK q2 : q2 = q1 \o <<Load("cx", "sp"), Inc("sp", 1)>>
    OBVIOUS
  <2>6. /\ q2 \in Seq(Step) /\ Len(q2) = 6 /\ q2[1] = Load("si", "sp") /\ q2[2] = Inc("sp", 1)
        /\ q2[3] = Load("bp", "sp") /\ q2[4] = Inc("sp", 1) /\ q2[5] = Load("cx", "sp")
        /\ q2[6] = Inc("sp", 1)
    BY <2>1, <2>5, <2>4
  <2>7. q2 = <<Load("si", "sp"), Inc("sp", 1), Load("bp", "sp"), Inc("sp", 1), Load("cx", "sp"),
             Inc("sp", 1)>>
    BY <2>6
  <2>8. p = q2 \o <<Load("ax", "sp"), Inc("sp", 1)>>
    BY <1>2, <2>2, <2>5
  <2> QED BY <2>1, <2>7, <2>8
<1>4. /\ p[1].op = "load" /\ p[2].op = "inc" /\ p[3].op = "load" /\ p[4].op = "inc" /\ p[5].op = "load"
      /\ p[6].op = "inc" /\ p[7].op = "load" /\ p[8].op = "inc"
      /\ Uses(p[1]) = {"sp"} /\ Sets(p[1]) = {"si"} /\ Uses(p[2]) = {"sp"} /\ Sets(p[2]) = {"sp"}
      /\ Uses(p[3]) = {"sp"} /\ Sets(p[3]) = {"bp"} /\ Uses(p[4]) = {"sp"} /\ Sets(p[4]) = {"sp"}
      /\ Uses(p[5]) = {"sp"} /\ Sets(p[5]) = {"cx"} /\ Uses(p[6]) = {"sp"} /\ Sets(p[6]) = {"sp"}
  BY <1>3, Effects
<1>5. Scratch("POPA", 7, {"bp", "cx", "si", "sp"})
  BY <1>1, <1>3, <1>4 DEF Scratch, Kept, Accesses
<1> QED BY <1>1, <1>3, <1>5, ProgramIf, RepeatableIf, KeepsESP DEF Disciplined, Repeated

\* PUSHA: the registers are only read.
LEMMA PUSHAIsDisciplined == Disciplined("PUSHA")
<1>1. PICK p : p = Steps("PUSHA")
  OBVIOUS
<1>2. p = <<Move("v", "sp"), Inc("v", -1), Store("ax", "v"), Inc("sp", -1)>>
          \o <<Move("v", "sp"), Inc("v", -1), Store("cx", "v"), Inc("sp", -1)>>
          \o <<Move("v", "sp"), Inc("v", -1), Store("bp", "v"), Inc("sp", -1)>>
          \o <<Move("v", "sp"), Inc("v", -1), Store("si", "v"), Inc("sp", -1)>>
  BY <1>1 DEF Steps, PUSHA, Push
<1>3. /\ p \in Seq(Step) /\ Len(p) = 16
      /\ p[1] = Move("v", "sp") /\ p[2] = Inc("v", -1) /\ p[3] = Store("ax", "v")
      /\ p[4] = Inc("sp", -1) /\ p[5] = Move("v", "sp") /\ p[6] = Inc("v", -1)
      /\ p[7] = Store("cx", "v") /\ p[8] = Inc("sp", -1) /\ p[9] = Move("v", "sp")
      /\ p[10] = Inc("v", -1) /\ p[11] = Store("bp", "v") /\ p[12] = Inc("sp", -1)
      /\ p[13] = Move("v", "sp") /\ p[14] = Inc("v", -1) /\ p[15] = Store("si", "v")
      /\ p[16] = Inc("sp", -1)
  <2>1. /\ Move("v", "sp") \in Step /\ Inc("v", -1) \in Step /\ Store("ax", "v") \in Step
        /\ Inc("sp", -1) \in Step /\ Store("cx", "v") \in Step /\ Store("bp", "v") \in Step
        /\ Store("si", "v") \in Step
    BY StepNames
  <2>2. PICK q1 : q1 = <<Move("v", "sp"), Inc("v", -1), Store("ax", "v"), Inc("sp", -1)>>
                     \o <<Move("v", "sp"), Inc("v", -1), Store("cx", "v"), Inc("sp", -1)>>
    OBVIOUS
  <2>3. /\ q1 \in Seq(Step) /\ Len(q1) = 8 /\ q1[1] = Move("v", "sp") /\ q1[2] = Inc("v", -1)
        /\ q1[3] = Store("ax", "v") /\ q1[4] = Inc("sp", -1) /\ q1[5] = Move("v", "sp")
        /\ q1[6] = Inc("v", -1) /\ q1[7] = Store("cx", "v") /\ q1[8] = Inc("sp", -1)
    BY <2>1, <2>2
  <2>4. q1 = <<Move("v", "sp"), Inc("v", -1), Store("ax", "v"), Inc("sp", -1), Move("v", "sp"),
             Inc("v", -1), Store("cx", "v"), Inc("sp", -1)>>
    BY <2>3
  <2>5. PICK q2 : q2 = q1 \o <<Move("v", "sp"), Inc("v", -1), Store("bp", "v"), Inc("sp", -1)>>
    OBVIOUS
  <2>6. /\ q2 \in Seq(Step) /\ Len(q2) = 12 /\ q2[1] = Move("v", "sp") /\ q2[2] = Inc("v", -1)
        /\ q2[3] = Store("ax", "v") /\ q2[4] = Inc("sp", -1) /\ q2[5] = Move("v", "sp")
        /\ q2[6] = Inc("v", -1) /\ q2[7] = Store("cx", "v") /\ q2[8] = Inc("sp", -1)
        /\ q2[9] = Move("v", "sp") /\ q2[10] = Inc("v", -1) /\ q2[11] = Store("bp", "v")
        /\ q2[12] = Inc("sp", -1)
    BY <2>1, <2>5, <2>4
  <2>7. q2 = <<Move("v", "sp"), Inc("v", -1), Store("ax", "v"), Inc("sp", -1), Move("v", "sp"),
             Inc("v", -1), Store("cx", "v"), Inc("sp", -1), Move("v", "sp"), Inc("v", -1),
             Store("bp", "v"), Inc("sp", -1)>>
    BY <2>6
  <2>8. p = q2 \o <<Move("v", "sp"), Inc("v", -1), Store("si", "v"), Inc("sp", -1)>>
    BY <1>2, <2>2, <2>5
  <2> QED BY <2>1, <2>7, <2>8
<1>4. /\ p[1].op = "move" /\ p[2].op = "inc" /\ p[3].op = "store" /\ p[4].op = "inc" /\ p[5].op = "move"
      /\ p[6].op = "inc" /\ p[7].op = "store" /\ p[8].op = "inc" /\ p[9].op = "move" /\ p[10].op = "inc"
      /\ p[11].op = "store" /\ p[12].op = "inc" /\ p[13].op = "move" /\ p[14].op = "inc"
      /\ p[15].op = "store" /\ p[16].op = "inc"
      /\ Uses(p[1]) = {"sp"} /\ Sets(p[1]) = {"v"} /\ Uses(p[2]) = {"v"} /\ Sets(p[2]) = {"v"}
      /\ Uses(p[3]) = {"ax", "v"} /\ Sets(p[3]) = {} /\ Uses(p[4]) = {"sp"} /\ Sets(p[4]) = {"sp"}
      /\ Uses(p[5]) = {"sp"} /\ Sets(p[5]) = {"v"} /\ Uses(p[6]) = {"v"} /\ Sets(p[6]) = {"v"}
      /\ Uses(p[7]) = {"cx", "v"} /\ Sets(p[7]) = {} /\ Uses(p[8]) = {"sp"} /\ Sets(p[8]) = {"sp"}
      /\ Uses(p[9]) = {"sp"} /\ Sets(p[9]) = {"v"} /\ Uses(p[10]) = {"v"} /\ Sets(p[10]) = {"v"}
      /\ Uses(p[11]) = {"bp", "v"} /\ Sets(p[11]) = {} /\ Uses(p[12]) = {"sp"} /\ Sets(p[12]) = {"sp"}
      /\ Uses(p[13]) = {"sp"} /\ Sets(p[13]) = {"v"} /\ Uses(p[14]) = {"v"} /\ Sets(p[14]) = {"v"}
  BY <1>3, Effects
<1>5. Scratch("PUSHA", 15, {"sp", "v"})
  <2>1. Kept("PUSHA") = {"sp"}
    BY DEF Kept
  <2>2. 15 \in 1 .. Len(p) /\ \A j \in 1 .. Len(p) : p[j].op \in Accesses => j <= 15
    BY <1>3, <1>4 DEF Accesses
  <2>3. \A j \in 1 .. 14 : p[j].op \notin {"in", "out", "whileequal", "untilequal", "load"}
    BY <1>3, <1>4
  <2>4. \A j \in 1 .. 14 : Sets(p[j]) \subseteq {"sp", "v"}
    BY <1>4
  <2>5. ASSUME NEW j \in 1 .. 14, NEW r \in Uses(p[j]), r \in {"sp", "v"}
        PROVE  r = "sp" \/ \E l \in 1 .. j - 1 : r \in Sets(p[l])
    BY <2>5, <1>4
  <2>6. 15 - 1 = 14
    OBVIOUS
  <2> QED BY <1>1, <2>1, <2>2, <2>3, <2>4, <2>5, <2>6 DEF Scratch
<1> QED BY <1>1, <1>3, <1>5, ProgramIf, RepeatableIf, KeepsESP DEF Disciplined, Repeated

\* REP MOVS: the indices move behind the accesses.
LEMMA REPMOVSIsDisciplined == Disciplined("REP_MOVS")
<1>1. PICK p : p = Steps("REP_MOVS")
  OBVIOUS
<1>2. p = <<While>> \o <<Load("t", "si"), Store("t", "di"), Inc("si", 1), Inc("di", 1)>>
          \o <<Inc("cx", -1)>>
  BY <1>1 DEF Steps, REP, MOVS
<1>3. /\ p \in Seq(Step) /\ Len(p) = 6
      /\ p[1] = While /\ p[2] = Load("t", "si") /\ p[3] = Store("t", "di") /\ p[4] = Inc("si", 1)
      /\ p[5] = Inc("di", 1) /\ p[6] = Inc("cx", -1)
  <2>1. /\ While \in Step /\ Load("t", "si") \in Step /\ Store("t", "di") \in Step
        /\ Inc("si", 1) \in Step /\ Inc("di", 1) \in Step /\ Inc("cx", -1) \in Step
    BY StepNames
  <2>2. PICK q : q = <<While>> \o <<Load("t", "si"), Store("t", "di"), Inc("si", 1), Inc("di", 1)>>
    OBVIOUS
  <2>3. /\ q \in Seq(Step) /\ Len(q) = 5 /\ q[1] = While /\ q[2] = Load("t", "si")
        /\ q[3] = Store("t", "di") /\ q[4] = Inc("si", 1) /\ q[5] = Inc("di", 1)
    BY <2>1, <2>2
  <2>4. q = <<While, Load("t", "si"), Store("t", "di"), Inc("si", 1), Inc("di", 1)>>
    BY <2>3
  <2>5. p = q \o <<Inc("cx", -1)>>
    BY <1>2, <2>2
  <2> QED BY <2>1, <2>4, <2>5
<1>4. /\ p[1].op = "while" /\ p[2].op = "load" /\ p[3].op = "store" /\ p[4].op = "inc"
      /\ p[5].op = "inc" /\ p[6].op = "inc"
      /\ Uses(p[1]) = {"cx"} /\ Sets(p[1]) = {} /\ Uses(p[2]) = {"si"} /\ Sets(p[2]) = {"t"}
      /\ Sets(p[3]) = {} /\ Sets(p[4]) = {"si"} /\ Sets(p[5]) = {"di"} /\ Sets(p[6]) = {"cx"}
  BY <1>3, Effects
<1>5. Scratch("REP_MOVS", 3, {"t"})
  BY <1>1, <1>3, <1>4 DEF Scratch, Kept, Accesses
<1>6. CountsDown("REP_MOVS")
  <2>1. 6 \in 1 .. Len(p) /\ \A j \in 1 .. Len(p) : j # 6 => "cx" \notin Sets(p[j])
    BY <1>3, <1>4
  <2>2. \A j \in 1 .. Len(p) : "sp" \notin Sets(p[j])
    BY <1>3, <1>4
  <2> QED BY <1>1, <1>3, <2>1, <2>2 DEF CountsDown
<1> QED BY <1>1, <1>3, <1>5, <1>6, ProgramIf, RepeatableIf, KeepsESP DEF Disciplined

\* REP STOS: the same.
LEMMA REPSTOSIsDisciplined == Disciplined("REP_STOS")
<1>1. PICK p : p = Steps("REP_STOS")
  OBVIOUS
<1>2. p = <<While>> \o <<Store("ax", "di"), Inc("di", 1)>> \o <<Inc("cx", -1)>>
  BY <1>1 DEF Steps, REP, STOS
<1>3. /\ p \in Seq(Step) /\ Len(p) = 4
      /\ p[1] = While /\ p[2] = Store("ax", "di") /\ p[3] = Inc("di", 1) /\ p[4] = Inc("cx", -1)
  <2>1. /\ While \in Step /\ Store("ax", "di") \in Step /\ Inc("di", 1) \in Step
        /\ Inc("cx", -1) \in Step
    BY StepNames
  <2>2. PICK q : q = <<While>> \o <<Store("ax", "di"), Inc("di", 1)>>
    OBVIOUS
  <2>3. /\ q \in Seq(Step) /\ Len(q) = 3 /\ q[1] = While /\ q[2] = Store("ax", "di")
        /\ q[3] = Inc("di", 1)
    BY <2>1, <2>2
  <2>4. q = <<While, Store("ax", "di"), Inc("di", 1)>>
    BY <2>3
  <2>5. p = q \o <<Inc("cx", -1)>>
    BY <1>2, <2>2
  <2> QED BY <2>1, <2>4, <2>5
<1>4. /\ p[1].op = "while" /\ p[2].op = "store" /\ p[3].op = "inc" /\ p[4].op = "inc"
      /\ Uses(p[1]) = {"cx"} /\ Sets(p[1]) = {} /\ Sets(p[2]) = {} /\ Sets(p[3]) = {"di"}
      /\ Sets(p[4]) = {"cx"}
  BY <1>3, Effects
<1>5. Scratch("REP_STOS", 2, {})
  BY <1>1, <1>3, <1>4 DEF Scratch, Kept, Accesses
<1>6. CountsDown("REP_STOS")
  <2>1. 4 \in 1 .. Len(p) /\ \A j \in 1 .. Len(p) : j # 4 => "cx" \notin Sets(p[j])
    BY <1>3, <1>4
  <2>2. \A j \in 1 .. Len(p) : "sp" \notin Sets(p[j])
    BY <1>3, <1>4
  <2> QED BY <1>1, <1>3, <2>1, <2>2 DEF CountsDown
<1> QED BY <1>1, <1>3, <1>5, <1>6, ProgramIf, RepeatableIf, KeepsESP DEF Disciplined

\* REP LODS: the same.
LEMMA REPLODSIsDisciplined == Disciplined("REP_LODS")
<1>1. PICK p : p = Steps("REP_LODS")
  OBVIOUS
<1>2. p = <<While>> \o <<Load("ax", "si"), Inc("si", 1)>> \o <<Inc("cx", -1)>>
  BY <1>1 DEF Steps, REP, LODS
<1>3. /\ p \in Seq(Step) /\ Len(p) = 4
      /\ p[1] = While /\ p[2] = Load("ax", "si") /\ p[3] = Inc("si", 1) /\ p[4] = Inc("cx", -1)
  <2>1. /\ While \in Step /\ Load("ax", "si") \in Step /\ Inc("si", 1) \in Step
        /\ Inc("cx", -1) \in Step
    BY StepNames
  <2>2. PICK q : q = <<While>> \o <<Load("ax", "si"), Inc("si", 1)>>
    OBVIOUS
  <2>3. /\ q \in Seq(Step) /\ Len(q) = 3 /\ q[1] = While /\ q[2] = Load("ax", "si")
        /\ q[3] = Inc("si", 1)
    BY <2>1, <2>2
  <2>4. q = <<While, Load("ax", "si"), Inc("si", 1)>>
    BY <2>3
  <2>5. p = q \o <<Inc("cx", -1)>>
    BY <1>2, <2>2
  <2> QED BY <2>1, <2>4, <2>5
<1>4. /\ p[1].op = "while" /\ p[2].op = "load" /\ p[3].op = "inc" /\ p[4].op = "inc"
      /\ Uses(p[1]) = {"cx"} /\ Sets(p[1]) = {} /\ Sets(p[2]) = {"ax"} /\ Sets(p[3]) = {"si"}
      /\ Sets(p[4]) = {"cx"}
  BY <1>3, Effects
<1>5. Scratch("REP_LODS", 2, {})
  BY <1>1, <1>3, <1>4 DEF Scratch, Kept, Accesses
<1>6. CountsDown("REP_LODS")
  <2>1. 4 \in 1 .. Len(p) /\ \A j \in 1 .. Len(p) : j # 4 => "cx" \notin Sets(p[j])
    BY <1>3, <1>4
  <2>2. \A j \in 1 .. Len(p) : "sp" \notin Sets(p[j])
    BY <1>3, <1>4
  <2> QED BY <1>1, <1>3, <2>1, <2>2 DEF CountsDown
<1> QED BY <1>1, <1>3, <1>5, <1>6, ProgramIf, RepeatableIf, KeepsESP DEF Disciplined

\* REP OUTS: the byte is read before it is sent.
LEMMA REPOUTSIsDisciplined == Disciplined("REP_OUTS")
<1>1. PICK p : p = Steps("REP_OUTS")
  OBVIOUS
<1>2. p = <<While>> \o <<Load("t", "si"), Out("t"), Inc("si", 1)>> \o <<Inc("cx", -1)>>
  BY <1>1 DEF Steps, REP, OUTS
<1>3. /\ p \in Seq(Step) /\ Len(p) = 5
      /\ p[1] = While /\ p[2] = Load("t", "si") /\ p[3] = Out("t") /\ p[4] = Inc("si", 1)
      /\ p[5] = Inc("cx", -1)
  <2>1. /\ While \in Step /\ Load("t", "si") \in Step /\ Out("t") \in Step /\ Inc("si", 1) \in Step
        /\ Inc("cx", -1) \in Step
    BY StepNames
  <2>2. PICK q : q = <<While>> \o <<Load("t", "si"), Out("t"), Inc("si", 1)>>
    OBVIOUS
  <2>3. /\ q \in Seq(Step) /\ Len(q) = 4 /\ q[1] = While /\ q[2] = Load("t", "si") /\ q[3] = Out("t")
        /\ q[4] = Inc("si", 1)
    BY <2>1, <2>2
  <2>4. q = <<While, Load("t", "si"), Out("t"), Inc("si", 1)>>
    BY <2>3
  <2>5. p = q \o <<Inc("cx", -1)>>
    BY <1>2, <2>2
  <2> QED BY <2>1, <2>4, <2>5
<1>4. /\ p[1].op = "while" /\ p[2].op = "load" /\ p[3].op = "out" /\ p[4].op = "inc" /\ p[5].op = "inc"
      /\ Uses(p[1]) = {"cx"} /\ Sets(p[1]) = {} /\ Sets(p[2]) = {"t"} /\ Sets(p[3]) = {}
      /\ Sets(p[4]) = {"si"} /\ Sets(p[5]) = {"cx"}
  BY <1>3, Effects
<1>5. Scratch("REP_OUTS", 2, {})
  BY <1>1, <1>3, <1>4 DEF Scratch, Kept, Accesses
<1>6. CountsDown("REP_OUTS")
  <2>1. 5 \in 1 .. Len(p) /\ \A j \in 1 .. Len(p) : j # 5 => "cx" \notin Sets(p[j])
    BY <1>3, <1>4
  <2>2. \A j \in 1 .. Len(p) : "sp" \notin Sets(p[j])
    BY <1>3, <1>4
  <2> QED BY <1>1, <1>3, <2>1, <2>2 DEF CountsDown
<1> QED BY <1>1, <1>3, <1>5, <1>6, ProgramIf, RepeatableIf, KeepsESP DEF Disciplined

\* REPE CMPS: ZF is written behind the accesses.
LEMMA REPECMPSIsDisciplined == Disciplined("REPE_CMPS")
<1>1. PICK p : p = Steps("REPE_CMPS")
  OBVIOUS
<1>2. p = <<While>>
          \o <<Load("t", "si"), Load("u", "di"), Cmp("t", "u"), Inc("si", 1), Inc("di", 1)>>
          \o <<Inc("cx", -1)>> \o <<WhileEqual>>
  BY <1>1 DEF Steps, REPE, REP, CMPS
<1>3. /\ p \in Seq(Step) /\ Len(p) = 8
      /\ p[1] = While /\ p[2] = Load("t", "si") /\ p[3] = Load("u", "di") /\ p[4] = Cmp("t", "u")
      /\ p[5] = Inc("si", 1) /\ p[6] = Inc("di", 1) /\ p[7] = Inc("cx", -1) /\ p[8] = WhileEqual
  <2>1. /\ While \in Step /\ Load("t", "si") \in Step /\ Load("u", "di") \in Step
        /\ Cmp("t", "u") \in Step /\ Inc("si", 1) \in Step /\ Inc("di", 1) \in Step
        /\ Inc("cx", -1) \in Step /\ WhileEqual \in Step
    BY StepNames
  <2>2. PICK q1 : q1 = <<While>>
                     \o <<Load("t", "si"), Load("u", "di"), Cmp("t", "u"), Inc("si", 1), Inc("di", 1)>>
    OBVIOUS
  <2>3. /\ q1 \in Seq(Step) /\ Len(q1) = 6 /\ q1[1] = While /\ q1[2] = Load("t", "si")
        /\ q1[3] = Load("u", "di") /\ q1[4] = Cmp("t", "u") /\ q1[5] = Inc("si", 1)
        /\ q1[6] = Inc("di", 1)
    BY <2>1, <2>2
  <2>4. q1 = <<While, Load("t", "si"), Load("u", "di"), Cmp("t", "u"), Inc("si", 1), Inc("di", 1)>>
    BY <2>3
  <2>5. PICK q2 : q2 = q1 \o <<Inc("cx", -1)>>
    OBVIOUS
  <2>6. /\ q2 \in Seq(Step) /\ Len(q2) = 7 /\ q2[1] = While /\ q2[2] = Load("t", "si")
        /\ q2[3] = Load("u", "di") /\ q2[4] = Cmp("t", "u") /\ q2[5] = Inc("si", 1)
        /\ q2[6] = Inc("di", 1) /\ q2[7] = Inc("cx", -1)
    BY <2>1, <2>5, <2>4
  <2>7. q2 = <<While, Load("t", "si"), Load("u", "di"), Cmp("t", "u"), Inc("si", 1), Inc("di", 1),
             Inc("cx", -1)>>
    BY <2>6
  <2>8. p = q2 \o <<WhileEqual>>
    BY <1>2, <2>2, <2>5
  <2> QED BY <2>1, <2>7, <2>8
<1>4. /\ p[1].op = "while" /\ p[2].op = "load" /\ p[3].op = "load" /\ p[4].op = "cmp" /\ p[5].op = "inc"
      /\ p[6].op = "inc" /\ p[7].op = "inc" /\ p[8].op = "whileequal"
      /\ Uses(p[1]) = {"cx"} /\ Sets(p[1]) = {} /\ Uses(p[2]) = {"si"} /\ Sets(p[2]) = {"t"}
      /\ Sets(p[3]) = {"u"} /\ Sets(p[4]) = {"zf"} /\ Sets(p[5]) = {"si"} /\ Sets(p[6]) = {"di"}
      /\ Sets(p[7]) = {"cx"} /\ Sets(p[8]) = {}
  BY <1>3, Effects
<1>5. Scratch("REPE_CMPS", 3, {"t"})
  <2>1. Kept("REPE_CMPS") = {"sp"}
    BY DEF Kept
  <2>2. 3 \in 1 .. Len(p) /\ \A j \in 1 .. Len(p) : p[j].op \in Accesses => j <= 3
    BY <1>3, <1>4 DEF Accesses
  <2>3. \A j \in 1 .. 2 : p[j].op \notin {"in", "out", "whileequal", "untilequal", "store"}
    BY <1>3, <1>4
  <2>4. \A j \in 1 .. 2 : Sets(p[j]) \subseteq {"t"}
    BY <1>4
  <2>5. ASSUME NEW j \in 1 .. 2, NEW r \in Uses(p[j]), r \in {"t"}
        PROVE  r = "sp" \/ \E l \in 1 .. j - 1 : r \in Sets(p[l])
    BY <2>5, <1>4
  <2>6. 3 - 1 = 2
    OBVIOUS
  <2> QED BY <1>1, <2>1, <2>2, <2>3, <2>4, <2>5, <2>6 DEF Scratch
<1>6. CountsDown("REPE_CMPS")
  <2>1. 7 \in 1 .. Len(p) /\ \A j \in 1 .. Len(p) : j # 7 => "cx" \notin Sets(p[j])
    BY <1>3, <1>4
  <2>2. \A j \in 1 .. Len(p) : "sp" \notin Sets(p[j])
    BY <1>3, <1>4
  <2> QED BY <1>1, <1>3, <2>1, <2>2 DEF CountsDown
<1> QED BY <1>1, <1>3, <1>5, <1>6, ProgramIf, RepeatableIf, KeepsESP DEF Disciplined

\* REPNE SCAS: the same.
LEMMA REPNESCASIsDisciplined == Disciplined("REPNE_SCAS")
<1>1. PICK p : p = Steps("REPNE_SCAS")
  OBVIOUS
<1>2. p = <<While>> \o <<Load("u", "di"), Cmp("ax", "u"), Inc("di", 1)>> \o <<Inc("cx", -1)>>
          \o <<UntilEqual>>
  BY <1>1 DEF Steps, REPNE, REP, SCAS
<1>3. /\ p \in Seq(Step) /\ Len(p) = 6
      /\ p[1] = While /\ p[2] = Load("u", "di") /\ p[3] = Cmp("ax", "u") /\ p[4] = Inc("di", 1)
      /\ p[5] = Inc("cx", -1) /\ p[6] = UntilEqual
  <2>1. /\ While \in Step /\ Load("u", "di") \in Step /\ Cmp("ax", "u") \in Step
        /\ Inc("di", 1) \in Step /\ Inc("cx", -1) \in Step /\ UntilEqual \in Step
    BY StepNames
  <2>2. PICK q1 : q1 = <<While>> \o <<Load("u", "di"), Cmp("ax", "u"), Inc("di", 1)>>
    OBVIOUS
  <2>3. /\ q1 \in Seq(Step) /\ Len(q1) = 4 /\ q1[1] = While /\ q1[2] = Load("u", "di")
        /\ q1[3] = Cmp("ax", "u") /\ q1[4] = Inc("di", 1)
    BY <2>1, <2>2
  <2>4. q1 = <<While, Load("u", "di"), Cmp("ax", "u"), Inc("di", 1)>>
    BY <2>3
  <2>5. PICK q2 : q2 = q1 \o <<Inc("cx", -1)>>
    OBVIOUS
  <2>6. /\ q2 \in Seq(Step) /\ Len(q2) = 5 /\ q2[1] = While /\ q2[2] = Load("u", "di")
        /\ q2[3] = Cmp("ax", "u") /\ q2[4] = Inc("di", 1) /\ q2[5] = Inc("cx", -1)
    BY <2>1, <2>5, <2>4
  <2>7. q2 = <<While, Load("u", "di"), Cmp("ax", "u"), Inc("di", 1), Inc("cx", -1)>>
    BY <2>6
  <2>8. p = q2 \o <<UntilEqual>>
    BY <1>2, <2>2, <2>5
  <2> QED BY <2>1, <2>7, <2>8
<1>4. /\ p[1].op = "while" /\ p[2].op = "load" /\ p[3].op = "cmp" /\ p[4].op = "inc" /\ p[5].op = "inc"
      /\ p[6].op = "untilequal"
      /\ Uses(p[1]) = {"cx"} /\ Sets(p[1]) = {} /\ Sets(p[2]) = {"u"} /\ Sets(p[3]) = {"zf"}
      /\ Sets(p[4]) = {"di"} /\ Sets(p[5]) = {"cx"} /\ Sets(p[6]) = {}
  BY <1>3, Effects
<1>5. Scratch("REPNE_SCAS", 2, {})
  BY <1>1, <1>3, <1>4 DEF Scratch, Kept, Accesses
<1>6. CountsDown("REPNE_SCAS")
  <2>1. 5 \in 1 .. Len(p) /\ \A j \in 1 .. Len(p) : j # 5 => "cx" \notin Sets(p[j])
    BY <1>3, <1>4
  <2>2. \A j \in 1 .. Len(p) : "sp" \notin Sets(p[j])
    BY <1>3, <1>4
  <2> QED BY <1>1, <1>3, <2>1, <2>2 DEF CountsDown
<1> QED BY <1>1, <1>3, <1>5, <1>6, ProgramIf, RepeatableIf, KeepsESP DEF Disciplined

\* INC: at both accesses CF is what it was.
LEMMA INCIsDisciplined == Disciplined("INC")
<1>1. PICK p : p = Steps("INC")
  OBVIOUS
<1>2. p = <<Move("v", "cf"), Load("t", "ea"), Add("t", 1), Move("cf", "v"), Store("t", "ea")>>
  BY <1>1 DEF Steps, INC
<1>3. /\ p \in Seq(Step) /\ Len(p) = 5
      /\ p[1] = Move("v", "cf") /\ p[2] = Load("t", "ea") /\ p[3] = Add("t", 1)
      /\ p[4] = Move("cf", "v") /\ p[5] = Store("t", "ea")
  <2>1. /\ Move("v", "cf") \in Step /\ Load("t", "ea") \in Step /\ Add("t", 1) \in Step
        /\ Move("cf", "v") \in Step /\ Store("t", "ea") \in Step
    BY StepNames
  <2> QED BY <1>2, <2>1
<1>4. /\ p[1].op = "move" /\ p[2].op = "load" /\ p[3].op = "add" /\ p[4].op = "move"
      /\ p[5].op = "store"
      /\ Uses(p[1]) = {"cf"} /\ Sets(p[1]) = {"v"} /\ Uses(p[2]) = {"ea"} /\ Sets(p[2]) = {"t"}
      /\ Uses(p[3]) = {"t"} /\ Sets(p[3]) = {"t", "cf"} /\ Uses(p[4]) = {"v"} /\ Sets(p[4]) = {"cf"}
  BY <1>3, Effects
<1>5. Scratch("INC", 5, {"cf", "t", "v"})
  BY <1>1, <1>3, <1>4 DEF Scratch, Kept, Accesses
<1>6. ASSUME NEW x \in Machines, NEW h, NEW k \in 1 .. Len(p), Trace(h, "INC", x, Granted),
             Running(h[k - 1]), p[k].op \in Accesses
      PROVE  h[k - 1].reg["cf"] = x.reg["cf"]
  <2>1. k = 2 \/ k = 5
    BY <1>3, <1>4, <1>6 DEF Accesses
  <2>2. {"cf", "v", "t"} \subseteq All /\ h[0] = x
    BY <1>6 DEF All, Regs, Temps, Trace
  <2>3. ASSUME NEW j \in 1 .. 5
        PROVE  /\ h[j - 1] \in Machines /\ IsStep(p[j])
               /\ Running(h[j]) => Running(h[j - 1])
               /\ Running(h[j - 1]) => Worked(h[j], h[j - 1], p[j])
    <3>1. /\ h[j - 1] \in Machines /\ IsStep(p[j]) /\ h[j] = Do(h[j - 1], p[j], Granted)
          /\ ~Running(h[j - 1]) => h[j] = h[j - 1]
      BY <1>1, <1>3, <1>6, ProgramIf, TraceStep
    <3> QED BY <3>1, GrantedEffect
  <2>4. ASSUME Running(h[1])
        PROVE  h[1].reg["cf"] = x.reg["cf"] /\ h[1].reg["v"] = x.reg["cf"]
    <3>1. 1 \in 1 .. 5 /\ 1 - 1 = 0
      OBVIOUS
    <3>2. h[0] \in Machines /\ Worked(h[1], h[0], p[1])
      BY <2>3, <2>4, <3>1
    <3>3. h[0].reg \in [All -> Val] /\ h[1].reg = [h[0].reg EXCEPT !["v"] = h[0].reg["cf"]]
      BY <1>3, <3>2 DEF Machines, Worked, RegAfter, Move
    <3> QED BY <2>2, <3>3
  <2>5. ASSUME Running(h[4]) PROVE h[4].reg["cf"] = x.reg["cf"] /\ Running(h[1])
    <3>1. 2 \in 1 .. 5 /\ 2 - 1 = 1 /\ 3 \in 1 .. 5 /\ 3 - 1 = 2 /\ 4 \in 1 .. 5 /\ 4 - 1 = 3
      OBVIOUS
    <3>2. Running(h[1]) /\ Running(h[2]) /\ Running(h[3])
      BY <2>3, <2>5, <3>1
    <3>3. /\ h[1] \in Machines /\ h[2] \in Machines /\ h[3] \in Machines
          /\ IsStep(p[2]) /\ IsStep(p[3])
          /\ Worked(h[2], h[1], p[2]) /\ Worked(h[3], h[2], p[3]) /\ Worked(h[4], h[3], p[4])
      BY <2>3, <3>1, <3>2
    <3>4. h[2].reg["v"] = h[1].reg["v"]
      BY <1>4, <2>2, <3>3, Frame
    <3>5. h[3].reg["v"] = h[2].reg["v"]
      BY <1>4, <2>2, <3>3, Frame
    <3>7. p[4].op = "move" /\ p[4].to = "cf" /\ p[4].from = "v"
      BY <1>3 DEF Move
    <3>6. h[3].reg \in [All -> Val] /\ h[4].reg = [h[3].reg EXCEPT !["cf"] = h[3].reg["v"]]
      BY <3>3, <3>7 DEF Machines, Worked, RegAfter
    <3> QED BY <2>2, <2>4, <3>2, <3>4, <3>5, <3>6
  <2>6. 2 - 1 = 1 /\ 5 - 1 = 4
    OBVIOUS
  <2> QED BY <1>6, <2>1, <2>4, <2>5, <2>6
<1>7. Keeps("INC")
  <2>1. \A r \in Kept("INC") : r # "sp" => r = "cf"
    BY DEF Kept
  <2> QED BY <1>1, <1>6, <2>1 DEF Keeps
<1> QED BY <1>1, <1>3, <1>5, <1>7, ProgramIf, RepeatableIf DEF Disciplined, Repeated

\* The instructions of Restart but "ADC_mem", "ADD_word", "ENTER_nested" and "REP_INS".
Sound == {"ADD_mem", "ADC_reg", "INC", "XCHG", "PUSH", "POP", "PUSHA", "POPA", "ENTER",
          "LEAVE", "LES", "MOV_word", "REP_MOVS", "REP_STOS", "REP_LODS", "REPE_CMPS",
          "REPNE_SCAS", "REP_OUTS"}

\* Page faults inside these instructions are invisible: exALU2OP, exINCDEC, exPOP, exENTER,
\* exStringInst and the others change nothing before an access that the second
\* execution does not put right.
THEOREM SoundTransparent == ASSUME Instrs \subseteq Sound PROVE Spec => []Transparent
<1>1. \A i \in Sound : Disciplined(i)
  BY ADDMemIsDisciplined, ADCRegIsDisciplined, INCIsDisciplined, XCHGIsDisciplined,
     PUSHIsDisciplined, POPIsDisciplined, PUSHAIsDisciplined, POPAIsDisciplined,
     ENTERIsDisciplined, LEAVEIsDisciplined, LESIsDisciplined, MOVWordIsDisciplined,
     REPMOVSIsDisciplined, REPSTOSIsDisciplined, REPLODSIsDisciplined,
     REPECMPSIsDisciplined, REPNESCASIsDisciplined, REPOUTSIsDisciplined DEF Sound
<1>2. \A i \in Instrs : Disciplined(i)
  BY <1>1
<1> QED BY <1>2, DisciplineSuffices
=============================================================================
