------------------------------- MODULE Fetch -------------------------------
(***************************************************************************)
(* Instruction fetch and decoding of the 386 loop: fetchCodeData... of     *)
(* mem.c, the head of mainloop32_inner with prefixCheck, and the forms of  *)
(* operands of decode.c.  The fetch cache is the first word of the         *)
(* instruction (after its prefixes); a fetch of a byte looks there first,  *)
(* and a word or a doubleword that crosses a page is fetched byte by byte. *)
(*                                                                         *)
(* Addresses are linear and scaled down: a page has Page bytes, a 16-bit   *)
(* offset wraps at Half.  A byte is a byte of the instruction set; of the  *)
(* instructions there is one of each shape, and what an instruction does   *)
(* to data is left out, except a store into the code.                      *)
(***************************************************************************)
EXTENDS Integers, Sequences

CONSTANTS N,          \* linear addresses, the end of EIP's range
          Half,       \* the range of a 16-bit offset
          Page,       \* bytes of a page
          Handler,    \* where the page fault handler starts
          KernelPages,
          Programs,   \* [code, at, edi, d32]: memory and the first values
          Patches     \* the bytes that a program stores into its code

ASSUME FetchAssumption ==
  /\ {N, Half, Page} \subseteq Nat \ {0} /\ Half % Page = 0 /\ N % Half = 0
  /\ Handler \in 0 .. N - 1 /\ Handler \div Page \in KernelPages

Addresses == 0 .. N - 1
PageOf(a) == (a % N) \div Page
UserPages == {PageOf(a) : a \in Addresses} \ KernelPages
Invalid == -1     \* FETCH_CACHE_BASE_INVALID
None == -1        \* PREF_SEG_UNSPECIFIED, PREF_REP_UNSPECIFIED, no register

VARIABLES code,     \* the bytes in memory
          present,  \* the pages that are there
          eip,
          saved,    \* the EIP to return to from the handler, None outside it
          cache,    \* the fetch cache: [base, bytes]
          edi,      \* the byte that the program's STOSB stores over
          d32,      \* the D bit of the program's segment
          prior,    \* history: memory when the instruction before this began
          insn,     \* what the last step has decoded, or why it has not
          stopped

vars == <<code, present, eip, saved, cache, edi, d32, prior, insn, stopped>>

\* The D bit of the segment that runs: the handler's segment is a 32-bit one.
DBit == saved # None \/ d32

Wrapped(a, wide) == IF wide THEN a % N ELSE a % Half
\* A step of EIP, or of IP alone.
Advanced(ip, n, wide) ==
  IF wide THEN (ip + n) % N ELSE ip - (ip % Half) + ((ip + n) % Half)

(***************************************************************************)
(* Fetches, as the sequence of their bytes: value, address, and whether    *)
(* the byte could be had.                                                  *)
(***************************************************************************)
Direct(a, n) ==
  [i \in 1 .. n |-> LET b == (a + i - 1) % N
                    IN [v |-> code[b], at |-> b, ok |-> PageOf(b) \in present]]

fetchCodeDataByte(c, a) ==
  IF c.base # Invalid /\ a \in {c.base, c.base + 1}
  THEN <<[v |-> c.bytes[a - c.base + 1], at |-> a, ok |-> TRUE]>>
  ELSE Direct(a, 1)

fetchCodeDataWord(c, a) ==
  IF (a % Page) + 1 >= Page
  THEN fetchCodeDataByte(c, a) \o fetchCodeDataByte(c, a + 1)
  ELSE Direct(a, 2)

fetchCodeDataDoubleWord(c, a) ==
  IF (a % Page) + 3 >= Page
  THEN fetchCodeDataWord(c, a) \o fetchCodeDataWord(c, a + 2)
  ELSE Direct(a, 4)

Values(got) == [i \in DOMAIN got |-> got[i].v]
Faulty(got) == \E i \in DOMAIN got : ~got[i].ok

(***************************************************************************)
(* Prefixes.                                                               *)
(***************************************************************************)
SegmentOf(b) == CASE b \in {\h26, \h2e, \h36, \h3e} -> (b \div 8) % 4
                  [] b = \h64 -> 4 [] b = \h65 -> 5
IsPrefix(b) == b \in {\h26, \h2e, \h36, \h3e, \h64, \h65, \h66, \h67, \hf0, \hf2, \hf3}

\* What a prefix says, taken into the fields of p.
Noted(p, b) ==
  CASE b \in {\hf2, \hf3} -> [p EXCEPT !.rep = b % 2]
    [] b = \h67 -> [p EXCEPT !.ad32 = ~@]
    [] b = \h66 -> [p EXCEPT !.op32 = ~@]
    [] b = \hf0 -> p
    [] OTHER -> [p EXCEPT !.seg = SegmentOf(b)]

\* Mutant: the base stays where it is when the cache moves on.
prefixCheck_KeepsBase(p) ==
  LET q == Noted(p, p.cache.bytes[1])
      half == [q.cache EXCEPT !.bytes[1] = q.cache.bytes[2]]
      next == fetchCodeDataByte(half, q.pointer + 2)
  IN  [q EXCEPT !.pointer = @ + 1, !.eip = Advanced(@, 1, q.op32),
                !.fault = Faulty(next),
                !.cache = IF Faulty(next) THEN half
                          ELSE [half EXCEPT !.bytes[2] = next[1].v]]

\* One prefix.  IP moves by the width of the operand size the prefix leaves; a
\* fault on the byte behind leaves the cache half moved.
prefixCheck(p) ==
  LET q == Noted(p, p.cache.bytes[1])
      half == [q.cache EXCEPT !.bytes[1] = q.cache.bytes[2]]
      next == fetchCodeDataByte(half, q.pointer + 2)
  IN  [q EXCEPT !.pointer = @ + 1, !.eip = Advanced(@, 1, q.op32),
                !.fault = Faulty(next),
                !.cache = IF Faulty(next) THEN half
                          ELSE [base |-> half.base + 1,
                                bytes |-> <<half.bytes[1], next[1].v>>]]

RECURSIVE Unprefixed(_)
Unprefixed(p) ==
  IF p.fault \/ ~IsPrefix(p.cache.bytes[1]) THEN p ELSE Unprefixed(prefixCheck(p))

(***************************************************************************)
(* Operands: [got, size, form], where form names the registers and the     *)
(* bytes of the displacement.                                              *)
(***************************************************************************)
Register(r) == [reg |-> r]
Memory(seg, base, index, scale, disp) ==
  [seg |-> seg, base |-> base, index |-> index, scale |-> scale, disp |-> disp]

SS == 2
DS == 3
Overridden(p, seg) == IF p.seg = None THEN seg ELSE p.seg

\* With 32-bit addresses: an SIB byte follows rm = 4.
decode_sib(p, a, mod, first) ==
  LET sib == fetchCodeDataByte(p.cache, a + 1)
      base == sib[1].v % 8
      idx == (sib[1].v \div 8) % 8
      disp == CASE (mod = 0 /\ base = 5) \/ mod = 2 -> fetchCodeDataDoubleWord(p.cache, a + 2)
                [] mod = 1 -> fetchCodeDataByte(p.cache, a + 2)
                [] OTHER -> << >>
      nobase == mod = 0 /\ base = 5
  IN  [got |-> first \o sib \o disp, size |-> 2 + Len(disp),
       form |-> Memory(Overridden(p, IF base = 4 \/ (base = 5 /\ ~nobase) THEN SS ELSE DS),
                       IF nobase THEN None ELSE base,
                       IF idx = 4 THEN None ELSE idx,
                       IF idx = 4 THEN 0 ELSE sib[1].v \div 64, Values(disp))]

decode_mod_rm32(p, a, first) ==
  LET mod == first[1].v \div 64
      rm == first[1].v % 8
      disp == CASE (mod = 0 /\ rm = 5) \/ mod = 2 -> fetchCodeDataDoubleWord(p.cache, a + 1)
                [] mod = 1 -> fetchCodeDataByte(p.cache, a + 1)
                [] OTHER -> << >>
      nobase == mod = 0 /\ rm = 5
  IN  CASE mod = 3 -> [got |-> first, size |-> 1, form |-> Register(rm)]
        [] mod # 3 /\ rm = 4 -> decode_sib(p, a, mod, first)
        [] OTHER -> [got |-> first \o disp, size |-> 1 + Len(disp),
                     form |-> Memory(Overridden(p, IF rm = 5 /\ ~nobase THEN SS ELSE DS),
                                     IF nobase THEN None ELSE rm, None, 0, Values(disp))]

\* With 16-bit addresses the word behind is fetched whether it is used or not.
\* (3 is BX, 5 BP, 6 SI, 7 DI.)
Pairs == << <<3, 6>>, <<3, 7>>, <<5, 6>>, <<5, 7>>,
            <<None, 6>>, <<None, 7>>, <<5, None>>, <<3, None>> >>
decode_mod_rm16(p, a, first) ==
  LET mod == first[1].v \div 64
      rm == first[1].v % 8
      word == fetchCodeDataWord(p.cache, a + 1)
      direct == mod = 0 /\ rm = 6
      disp == IF direct \/ mod = 2 THEN word ELSE IF mod = 1 THEN <<word[1]>> ELSE << >>
      pair == IF direct THEN <<None, None>> ELSE Pairs[rm + 1]
  IN  IF mod = 3 THEN [got |-> first, size |-> 1, form |-> Register(rm)]
      ELSE [got |-> first \o word, size |-> 1 + Len(disp),
            form |-> Memory(Overridden(p, IF rm \in {2, 3} \/ (rm = 6 /\ ~direct) THEN SS ELSE DS),
                            pair[1], pair[2], 0, Values(disp))]

decode_mod_rm(p, a) ==
  LET first == fetchCodeDataByte(p.cache, a)
  IN IF p.ad32 THEN decode_mod_rm32(p, a, first) ELSE decode_mod_rm16(p, a, first)

decode_imm(p, a) ==
  IF p.op32 THEN fetchCodeDataDoubleWord(p.cache, a) ELSE fetchCodeDataWord(p.cache, a)

decode_immAddr(p, a) ==
  LET low == fetchCodeDataWord(p.cache, a)
  IN IF p.ad32 THEN low \o fetchCodeDataWord(p.cache, a + 2) ELSE low

(***************************************************************************)
(* An instruction.                                                         *)
(***************************************************************************)
\* The head of the loop: the first word, the test for three zeros, prefixes.
Front ==
  LET w == fetchCodeDataWord(cache, eip)
      c == [base |-> eip, bytes |-> Values(w)]
      third == fetchCodeDataByte(c, eip + 2)
      p == [pointer |-> eip, eip |-> eip, cache |-> c, op32 |-> DBit, ad32 |-> DBit,
            seg |-> None, rep |-> None, fault |-> FALSE, zeros |-> FALSE]
  IN  CASE Faulty(w) -> [p EXCEPT !.fault = TRUE, !.cache = cache]
        [] ~Faulty(w) /\ c.bytes # <<0, 0>> -> Unprefixed(p)
        [] ~Faulty(w) /\ c.bytes = <<0, 0>> ->
             IF Faulty(third) THEN [p EXCEPT !.fault = TRUE]
             ELSE [Unprefixed(p) EXCEPT !.zeros = third[1].v = 0]

MOD_RM == {\h00, \h8b}    \* ADD and MOV with an operand in memory or a register
MOD_RM_IMM8 == \h83       \* ADD of a byte
IMM == \hb8               \* MOV EAX, a constant
ADDRESS == \ha1           \* MOV EAX, a variable
JMP == \heb
STOSB == \haa
NOP == \h90
IRET == \hcf
Opcodes == MOD_RM \cup {MOD_RM_IMM8, IMM, ADDRESS, JMP, STOSB, NOP, IRET}

\* What the instruction's function fetches beyond the cache, and what it makes
\* of it.
Shape(p) ==
  LET a == p.pointer
      b == p.cache.bytes[1]
      rm == decode_mod_rm(p, a + 1)
      imm8 == fetchCodeDataByte(p.cache, a + 1 + rm.size)
      Immediate(got) == [got |-> got, size |-> 1 + Len(got), form |-> None, imm |-> Values(got)]
  IN  CASE b \in MOD_RM -> [got |-> rm.got, size |-> 1 + rm.size, form |-> rm.form, imm |-> << >>]
        [] b = MOD_RM_IMM8 -> [got |-> rm.got \o imm8, size |-> 2 + rm.size,
                               form |-> rm.form, imm |-> Values(imm8)]
        [] b = IMM -> Immediate(decode_imm(p, a + 1))
        [] b = ADDRESS -> Immediate(decode_immAddr(p, a + 1))
        [] b = JMP -> Immediate(fetchCodeDataByte(p.cache, a + 1))
        [] b \in {STOSB, NOP, IRET} -> Immediate(<< >>)

Insn(p, s) ==
  [op |-> p.cache.bytes[1], rep |-> p.rep, seg |-> p.seg, op32 |-> p.op32,
   ad32 |-> p.ad32, form |-> s.form, imm |-> s.imm]
Event(name) == [event |-> name]

Init ==
  \E q \in Programs, P \in SUBSET UserPages :
    /\ code = q.code /\ eip = q.at /\ edi = q.edi /\ d32 = q.d32
    /\ present = P \cup KernelPages
    /\ saved = None
    /\ cache = [base |-> Invalid, bytes |-> <<0, 0>>]
    /\ prior = code
    /\ insn = Event("start")
    /\ stopped = FALSE

EnterHandler(name, c) ==
  /\ saved' = eip /\ eip' = Handler
  /\ cache' = c
  /\ insn' = Event(name)
  /\ UNCHANGED <<code, present, edi, d32, stopped>>

\* A fetch faults: at the head, after a prefix, or while operands are decoded.
FetchFault ==
  /\ ~stopped
  /\ LET p == Front
     IN  /\ p.fault \/ (~p.zeros /\ p.cache.bytes[1] \in Opcodes /\ Faulty(Shape(p).got))
         /\ EnterHandler("fetch fault", p.cache)
  /\ prior' = code

\* "Here may not be code region", and "Unknown instruction".
Stops ==
  /\ ~stopped
  /\ LET p == Front
     IN  /\ ~p.fault
         /\ p.zeros \/ p.cache.bytes[1] \notin Opcodes
         /\ cache' = p.cache
  /\ stopped' = TRUE
  /\ insn' = Event("stop")
  /\ prior' = code
  /\ UNCHANGED <<code, present, eip, saved, edi, d32>>

\* An instruction of ops with all its bytes there.
Executes(ops) ==
  /\ ~stopped
  /\ LET p == Front
     IN  /\ ~p.fault /\ ~p.zeros /\ p.cache.bytes[1] \in ops
         /\ ~Faulty(Shape(p).got)
         /\ cache' = p.cache
         /\ insn' = Insn(p, Shape(p))
  /\ prior' = code
  /\ UNCHANGED <<edi, d32, stopped>>

\* UPDATE_IP: by the D bit of the segment.
NextEIP(offset) == LET p == Front IN Advanced(p.eip, Shape(p).size + offset, DBit)

Ordinary ==
  /\ Executes(MOD_RM \cup {MOD_RM_IMM8, IMM, ADDRESS, NOP})
  /\ eip' = NextEIP(0)
  /\ UNCHANGED <<code, present, saved>>

\* The operand's own page is absent; EIP goes back to the first prefix.
DataFault ==
  /\ ~stopped /\ saved = None
  /\ LET p == Front
     IN  /\ ~p.fault /\ ~p.zeros /\ p.cache.bytes[1] \in Opcodes
         /\ ~Faulty(Shape(p).got)
         /\ \/ p.cache.bytes[1] = ADDRESS
            \/ p.cache.bytes[1] \in MOD_RM \cup {MOD_RM_IMM8} /\ "disp" \in DOMAIN Shape(p).form
         /\ EnterHandler("data fault", p.cache)
  /\ prior' = code

\* The displacement is extended to the operand size and added to EIP or IP.
Jump ==
  /\ Executes({JMP})
  /\ LET p == Front
         b == Shape(p).imm[1]
     IN eip' = NextEIP(Wrapped(IF b < 128 THEN b ELSE b - 256, p.op32))
  /\ UNCHANGED <<code, present, saved>>

Store ==
  /\ Executes({STOSB})
  /\ \E b \in Patches : code' = [code EXCEPT ![edi] = b]
  /\ eip' = NextEIP(0)
  /\ UNCHANGED <<present, saved>>

\* The handler's only instruction; it may have brought and taken any page.
Return ==
  /\ saved # None
  /\ Executes({IRET})
  /\ eip' = saved /\ saved' = None
  /\ \E P \in SUBSET UserPages : present' = P \cup KernelPages
  /\ UNCHANGED code

\* A device interrupts between two instructions.
Interrupt ==
  /\ ~stopped /\ saved = None
  /\ EnterHandler("interrupt", cache)
  /\ UNCHANGED prior

Next == \/ FetchFault \/ DataFault \/ Stops
        \/ Ordinary \/ Jump \/ Store \/ Return \/ Interrupt
Spec == Init /\ [][Next]_vars
-----------------------------------------------------------------------------
(***************************************************************************)
(* What the bytes at an address mean (Intel's reference manual), from a    *)
(* view of memory, with no cache and no pages.                             *)
(***************************************************************************)
At(view, a) == view[a % N]
Bytes(view, a, n) == [i \in 1 .. n |-> At(view, a + i - 1)]

PrefixCount(view, a) ==
  CHOOSE k \in 0 .. N : /\ ~IsPrefix(At(view, a + k))
                        /\ \A j \in 0 .. k - 1 : IsPrefix(At(view, a + j))
Prefixes(view, a) == {At(view, a + j) : j \in 0 .. PrefixCount(view, a) - 1}

\* The last of the prefixes in S, None if there is none.
LastOf(view, a, S) ==
  LET at == {j \in 0 .. PrefixCount(view, a) - 1 : At(view, a + j) \in S}
  IN  IF at = {} THEN None
      ELSE At(view, a + (CHOOSE j \in at : \A k \in at : k <= j))

Segments == {\h26, \h2e, \h36, \h3e, \h64, \h65}
SegmentAt(view, a) ==
  LET b == LastOf(view, a, Segments) IN IF b = None THEN None ELSE SegmentOf(b)

\* An operand whose mod r/m byte is at a.
Wide(view, a, seg) ==
  LET mod == At(view, a) \div 64
      sib == At(view, a) % 8 = 4
      base == IF sib THEN At(view, a + 1) % 8 ELSE At(view, a) % 8
      index == IF sib THEN (At(view, a + 1) \div 8) % 8 ELSE 4
      absolute == mod = 0 /\ base = 5
      from == IF sib THEN 2 ELSE 1
      n == IF absolute \/ mod = 2 THEN 4 ELSE mod
  IN [size |-> from + n,
      form |-> Memory(IF seg # None THEN seg ELSE IF base \in {4, 5} /\ ~absolute THEN SS ELSE DS,
                      IF absolute THEN None ELSE base,
                      IF index = 4 THEN None ELSE index,
                      IF index = 4 THEN 0 ELSE At(view, a + 1) \div 64, Bytes(view, a + from, n))]
Narrow(view, a, seg) ==
  LET mod == At(view, a) \div 64
      rm == At(view, a) % 8
      absolute == mod = 0 /\ rm = 6
      base == CASE absolute \/ rm \in {4, 5} -> None [] rm \in {0, 1, 7} -> 3 [] OTHER -> 5
      n == IF absolute THEN 2 ELSE mod
  IN [size |-> 1 + n,
      form |-> Memory(IF seg # None THEN seg ELSE IF base = 5 THEN SS ELSE DS, base,
                      IF rm > 5 THEN None ELSE IF rm % 2 = 0 THEN 6 ELSE 7,
                      0, Bytes(view, a + 1, n))]
Operand(view, a, seg, ad32) ==
  CASE At(view, a) \div 64 = 3 -> [size |-> 1, form |-> Register(At(view, a) % 8)]
    [] At(view, a) \div 64 # 3 /\ ad32 -> Wide(view, a, seg)
    [] OTHER -> Narrow(view, a, seg)

\* The instruction at a, and its length.
Meaning(view, a, wide) ==
  LET o == a + PrefixCount(view, a)
      op32 == wide # (\h66 \in Prefixes(view, a))
      ad32 == wide # (\h67 \in Prefixes(view, a))
      b == At(view, o)
      seg == SegmentAt(view, a)
      rep == LastOf(view, a, {\hf2, \hf3})
      rm == b \in MOD_RM \cup {MOD_RM_IMM8}
      operand == IF rm THEN Operand(view, o + 1, seg, ad32) ELSE [size |-> 0, form |-> None]
      n == CASE b = IMM -> (IF op32 THEN 4 ELSE 2) [] b = ADDRESS -> (IF ad32 THEN 4 ELSE 2)
             [] b \in {JMP, MOD_RM_IMM8} -> 1 [] OTHER -> 0
  IN [length |-> (o - a) + 1 + operand.size + n,
      insn |-> [op |-> b, rep |-> IF rep = None THEN None ELSE rep % 2, seg |-> seg,
                op32 |-> op32, ad32 |-> ad32, form |-> operand.form,
                imm |-> Bytes(view, o + 1 + operand.size, n)]]

(***************************************************************************)
(* The property.                                                           *)
(***************************************************************************)
\* Memory as it is, or with the first byte as it was an instruction before.
Views == {code, [code EXCEPT ![eip] = prior[eip]]}

\* A size prefix twice, which the emulator takes for none.
Doubled(view) ==
  \E j, k \in 0 .. PrefixCount(view, eip) - 1 :
    j # k /\ At(view, eip + j) = At(view, eip + k) /\ At(view, eip + j) \in {\h66, \h67}

\* The prefixes of an instruction with an operand size prefix go over the end of
\* 64K; or it is a jump with that prefix in a 32-bit segment.
Misled(view, i) ==
  /\ i.op32 # DBit
  /\ \/ eip \div Half # (eip + PrefixCount(view, eip)) \div Half
     \/ i.op = JMP /\ DBit

Target(view) ==
  LET m == Meaning(view, eip, DBit)
      b == IF m.insn.op = JMP THEN m.insn.imm[1] ELSE 0
  IN  Advanced(eip, m.length + (IF b < 128 THEN b ELSE b - 256), DBit)

\* An instruction is decoded to what the bytes at EIP mean, wherever the pages
\* and the cache end in it, after any number of faults: the bytes that memory
\* holds when it begins, but for the first, which may be one instruction old;
\* EIP goes on behind it, or to the jump's target.  A fetch faults only if a
\* page is absent that holds a byte of it, or one of the two bytes behind it.
FetchExact ==
  [][/\ "op" \in DOMAIN insn' =>
          \E view \in Views :
            ~Doubled(view) =>
              /\ insn' = Meaning(view, eip, DBit).insn
              /\ insn'.op # IRET /\ ~Misled(view, insn') => eip' = Target(view)
     /\ insn' = Event("fetch fault") =>
          \E view \in Views : \E j \in 0 .. Meaning(view, eip, DBit).length + 1 :
            PageOf(eip + j) \notin present]_vars
=============================================================================
