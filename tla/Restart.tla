------------------------------ MODULE Restart ------------------------------
(***************************************************************************)
(* Page faults inside an instruction (src/src/ExInst86.c, ExInst186.c).    *)
(* An instruction works on the registers and the memory in place.  When one*)
(* of its memory accesses faults, getPhysFromLinear long-jumps out of it,  *)
(* enterINTwithECODE puts ESP back, the guest's handler repairs the page,  *)
(* and IRET executes the instruction again from its first step.            *)
(*                                                                         *)
(* An instruction is the sequence of its steps in the order of the C code; *)
(* values and addresses are numbers modulo Size, a page holds two cells,   *)
(* and of the flags only those that some instruction reads are kept.       *)
(***************************************************************************)
EXTENDS Integers, Sequences

CONSTANTS Instrs,    \* the instructions of this instance
          Size,      \* values, addresses
          MaxFaults  \* bound: faults of one instruction, so that it ends

ASSUME RestartAssumption ==
  /\ Size \in Nat \ {0, 1}   \* a flag is a value
  /\ MaxFaults \in Nat

Val == 0..Size - 1
Regs == {"ax", "cx", "bp", "sp", "si", "di", "cf", "zf"}  \* architectural
Temps == {"t", "u", "v"}                                  \* C locals
All == Regs \cup Temps
Levels == {"absent", "read", "write"}
PageOf(a) == a \div 2
Pages == {PageOf(a) : a \in Val}

VARIABLES instr,   \* the instruction
          start,   \* the machine when it was first fetched
          m,       \* the machine: [reg, mem, in, out, stop, fault]
          rights,  \* what each page allows: a page may be there and read-only
          status,  \* ready, faulted, done
          faults   \* faults so far

vars == <<instr, start, m, rights, status, faults>>

NoFault == [page |-> 0, need |-> "none"]

(***************************************************************************)
(* Steps of an instruction.  The operand is at the address EA.             *)
(***************************************************************************)
CONSTANT EA

ASSUME OperandAssumption == EA \in Val

Load(r, a)  == [op |-> "load", to |-> r, at |-> a]      \* r := memory at a
Store(r, a) == [op |-> "store", from |-> r, at |-> a]   \* memory at a := r
Move(r, s)  == [op |-> "move", to |-> r, from |-> s]
Inc(r, n)   == [op |-> "inc", to |-> r, by |-> n]
Add(r, n)   == [op |-> "add", to |-> r, by |-> n]       \* r := r + n, sets CF
Sum(r, s)   == [op |-> "sum", to |-> r, with |-> s]     \* r := r + s, sets CF
Adc(r, s)   == [op |-> "adc", to |-> r, with |-> s]     \* r := r + s + CF, sets CF
Cmp(r, s)   == [op |-> "cmp", to |-> r, with |-> s]     \* sets ZF
In(r)       == [op |-> "in", to |-> r]                  \* the device's next byte
Out(r)      == [op |-> "out", from |-> r]
While       == [op |-> "while"]                         \* REP: ends when CX = 0
WhileEqual  == [op |-> "whileequal"]                    \* REPE: ends when ZF = 0
UntilEqual  == [op |-> "untilequal"]                    \* REPNE: ends when ZF # 0

\* An address: the operand's cells, or what a register holds.
At(x, g) == CASE x = "ea" -> EA [] x = "ea+1" -> (EA + 1) % Size [] OTHER -> g[x]

Allows(p, need, R) == R[p] = "write" \/ (need = "read" /\ R[p] = "read")

\* The carry out of a sum (ALUop.c).
Carry(n) == n \div Size

\* One step, with the pages' rights R; after a fault or the end none counts.
Do(s, x, R) ==
  LET g == s.reg
      Access(need, done) ==
        LET p == PageOf(At(x.at, g))
        IN  IF Allows(p, need, R) THEN done
            ELSE [s EXCEPT !.fault = [page |-> p, need |-> need]]
      Added(n) == [s EXCEPT !.reg = [g EXCEPT ![x.to] = n % Size,
                                              !["cf"] = Carry(n)]]
  IN  IF s.fault # NoFault \/ s.stop THEN s
      ELSE CASE x.op = "load"  -> Access("read", [s EXCEPT !.reg[x.to] = s.mem[At(x.at, g)]])
             [] x.op = "store" -> Access("write", [s EXCEPT !.mem[At(x.at, g)] = g[x.from]])
             [] x.op = "move"  -> [s EXCEPT !.reg[x.to] = g[x.from]]
             [] x.op = "inc"   -> [s EXCEPT !.reg[x.to] = (g[x.to] + x.by) % Size]
             [] x.op = "add"   -> Added(g[x.to] + x.by)
             [] x.op = "sum"   -> Added(g[x.to] + g[x.with])
             [] x.op = "adc"   -> Added(g[x.to] + g[x.with] + g["cf"])
             [] x.op = "cmp"   -> [s EXCEPT !.reg["zf"] = IF g[x.to] = g[x.with] THEN 1 ELSE 0]
             [] x.op = "in"    -> [s EXCEPT !.reg[x.to] = s.in, !.in = (s.in + 1) % Size]
             [] x.op = "out"   -> [s EXCEPT !.out = Append(s.out, g[x.from])]
             [] x.op = "while" -> [s EXCEPT !.stop = (g["cx"] = 0)]
             [] x.op = "whileequal" -> [s EXCEPT !.stop = (g["zf"] = 0)]
             [] x.op = "untilequal" -> [s EXCEPT !.stop = (g["zf"] # 0)]

\* PUSH_TO_STACK writes below ESP and then moves it; POP_FROM_STACK reads and
\* then moves it.
Push(r) == <<Move("v", "sp"), Inc("v", -1), Store(r, "v"), Inc("sp", -1)>>
Pop(r) == <<Load(r, "sp"), Inc("sp", 1)>>

\* A word that straddles two pages is read low part first and written high part
\* first (mem.c:499-503).
LoadWord == <<Load("t", "ea"), Load("u", "ea+1")>>
StoreWord == <<Store("u", "ea+1"), Store("t", "ea")>>

(***************************************************************************)
(* Instructions.                                                           *)
(***************************************************************************)
\* exALU2OP
ALU2OP(f, dest) ==
  LET compute == IF f = "adc" THEN Adc("t", "ax") ELSE Sum("t", "ax")
  IN  <<Load("t", "ea"), compute>>
      \o (IF dest = "mem" THEN <<Store("t", "ea")>> ELSE <<Move("ax", "t")>>)
ALU2OPWord == LoadWord \o <<Sum("t", "ax"), Adc("u", "ax")>> \o StoreWord
\* exINCDEC puts CF back.
INC == <<Move("v", "cf"), Load("t", "ea"), Add("t", 1), Move("cf", "v"), Store("t", "ea")>>
XCHG == <<Load("t", "ea"), Store("ax", "ea"), Move("ax", "t")>>
PUSH == <<Move("v", "sp"), Inc("v", -1), Load("t", "ea"), Store("t", "v"), Inc("sp", -1)>>
\* exPOP moves ESP for the decoding of its operand, which may fault (the fetch of
\* a displacement, here at the cell DI), moves it back, and pops.
POP == <<Inc("sp", 1), Load("u", "di"), Inc("sp", -1)>> \o Pop("t") \o <<Store("t", "ea")>>
PUSHA == Push("ax") \o Push("cx") \o Push("bp") \o Push("si")
POPA == Pop("si") \o Pop("bp") \o Pop("cx") \o Pop("ax")
\* exENTER, without and with a display of one outer frame.
ENTER == Push("bp") \o <<Move("bp", "sp"), Inc("sp", -1)>>
ENTERNested ==
  Push("bp") \o <<Move("u", "sp"), Inc("bp", -1), Load("t", "bp")>> \o Push("t")
  \o Push("u") \o <<Move("bp", "u"), Inc("sp", -1)>>
LEAVE == <<Move("sp", "bp")>> \o Pop("bp")
\* exLDSLES and MOV of a word, both across pages.
LES == LoadWord \o <<Move("si", "u"), Move("ax", "t")>>
MOVWord == <<Move("t", "ax"), Move("u", "cx")>> \o StoreWord

\* exStringInst: an element is done before CX and the indices say so.
MOVS == <<Load("t", "si"), Store("t", "di"), Inc("si", 1), Inc("di", 1)>>
STOS == <<Store("ax", "di"), Inc("di", 1)>>
LODS == <<Load("ax", "si"), Inc("si", 1)>>
CMPS == <<Load("t", "si"), Load("u", "di"), Cmp("t", "u"), Inc("si", 1), Inc("di", 1)>>
SCAS == <<Load("u", "di"), Cmp("ax", "u"), Inc("di", 1)>>
\* exINSOUTS
INS == <<In("t"), Store("t", "di"), Inc("di", 1)>>
OUTS == <<Load("t", "si"), Out("t"), Inc("si", 1)>>
\* The steps of one iteration; a break leaves the loop.
REP(body) == <<While>> \o body \o <<Inc("cx", -1)>>
REPE(body) == REP(body) \o <<WhileEqual>>
REPNE(body) == REP(body) \o <<UntilEqual>>

Steps(i) ==
  CASE i = "ADD_mem" -> ALU2OP("add", "mem")  [] i = "ADC_reg" -> ALU2OP("adc", "reg")
    [] i = "ADC_mem" -> ALU2OP("adc", "mem")  [] i = "ADD_word" -> ALU2OPWord
    [] i = "INC" -> INC           [] i = "XCHG" -> XCHG
    [] i = "PUSH" -> PUSH         [] i = "POP" -> POP
    [] i = "PUSHA" -> PUSHA       [] i = "POPA" -> POPA
    [] i = "ENTER" -> ENTER       [] i = "ENTER_nested" -> ENTERNested
    [] i = "LEAVE" -> LEAVE       [] i = "LES" -> LES
    [] i = "MOV_word" -> MOVWord  [] i = "REP_MOVS" -> REP(MOVS)
    [] i = "REP_STOS" -> REP(STOS)    [] i = "REP_LODS" -> REP(LODS)
    [] i = "REPE_CMPS" -> REPE(CMPS)  [] i = "REP_INS" -> REP(INS)
    [] i = "REP_OUTS" -> REP(OUTS)    [] i = "REPNE_SCAS" -> REPNE(SCAS)

Repeated ==
  {"REP_MOVS", "REP_STOS", "REP_LODS", "REPE_CMPS", "REPNE_SCAS", "REP_INS", "REP_OUTS"}

\* How often the steps are gone through: CX, below Size, is 0 by then.
Times(i) == IF i \in Repeated THEN Size ELSE 1

\* The steps of the instruction once, from the machine s.  (The singletons make
\* TLC evaluate each step once.)
Once(i, s, R) ==
  LET p == Steps(i)
      after[k \in 0..Len(p)] ==
        IF k = 0 THEN s
        ELSE CHOOSE d \in {Do(b, p[k], R) : b \in {after[k - 1]}} : TRUE
  IN  after[Len(p)]

\* The instruction from the machine s, up to its end or its first fault.
Run(i, s, R) ==
  LET loop[n \in 0..Times(i)] ==
        IF n = 0 THEN [s EXCEPT !.stop = FALSE, !.fault = NoFault]
        ELSE CHOOSE d \in {Once(i, b, R) : b \in {loop[n - 1]}} : TRUE
  IN  loop[Times(i)]

(***************************************************************************)
(* The loop, and the guest's page fault handler.                           *)
(***************************************************************************)
Execute ==
  /\ status = "ready"
  /\ m' = Run(instr, m, rights)
  /\ status' = IF m'.fault = NoFault THEN "done" ELSE "faulted"
  /\ UNCHANGED <<instr, start, rights, faults>>

\* MUTANT of Handle: enterINTwithECODE leaves ESP where the fault found it.
Handle_KeepsESP ==
  /\ status = "faulted"
  /\ m' = m
  /\ faults' = faults + 1
  /\ rights' = [p \in Pages |-> "write"]
  /\ status' = "ready"
  /\ UNCHANGED <<instr, start>>

\* enterINTwithECODE restores ESP; the handler grants the missing right, and
\* while it runs any other page may come or go, until MaxFaults.
Handle ==
  /\ status = "faulted"
  /\ m' = [m EXCEPT !.reg["sp"] = start.reg["sp"]]
  /\ faults' = faults + 1
  /\ \E R \in [Pages -> Levels] :
       /\ Allows(m.fault.page, m.fault.need, R)
       /\ faults' >= MaxFaults => \A p \in Pages : R[p] = "write"
       /\ rights' = R
  /\ status' = "ready"
  /\ UNCHANGED <<instr, start>>

CONSTANTS InitRegs,  \* register files to start from
          InitMems   \* memories to start from

ASSUME InitAssumption == InitRegs \subseteq [All -> Val] /\ InitMems \subseteq [Val -> Val]

Init ==
  /\ instr \in Instrs
  /\ \E g \in InitRegs, c \in InitMems :
       start = [reg |-> g, mem |-> c, in |-> 3 % Size, out |-> <<>>,
                stop |-> FALSE, fault |-> NoFault]
  /\ m = start
  /\ rights \in [Pages -> Levels]
  /\ status = "ready" /\ faults = 0

Next == Execute \/ Handle
Spec == Init /\ [][Next]_vars
-----------------------------------------------------------------------------
(***************************************************************************)
(* Properties.                                                             *)
(***************************************************************************)
Architectural(s) ==
  [reg |-> [r \in Regs |-> s.reg[r]], mem |-> s.mem, in |-> s.in, out |-> s.out]

\* Faults are invisible: an instruction that was interrupted by page faults, as
\* often as it takes, ends as if every page had been there from the start.
Transparent ==
  status = "done" =>
    Architectural(m) = Architectural(Run(instr, start, [p \in Pages |-> "write"]))
=============================================================================
