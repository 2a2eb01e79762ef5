------------------------------ MODULE MCFetch ------------------------------
(***************************************************************************)
(* Programs for Fetch: loops of a few instructions, placed so that each of *)
(* their bytes comes to lie at the end of a page and at the end of 64K.    *)
(***************************************************************************)
EXTENDS Fetch

\* The bytes b at address at, and a jump back to them; the rest is NOPs.
Placed(b, at, wide, spot) ==
  LET body == b \o <<JMP, 254 - Len(b)>>
  IN [code |-> [a \in 0 .. 47 |->
                  CASE a \in at .. at + Len(body) - 1 -> body[a - at + 1]
                    [] a = 39 -> IRET
                    [] OTHER -> NOP],
      at |-> at, edi |-> at + spot, d32 |-> wide]

Displacement == <<\h91, \h12, \h00, \h82>>

\* Every mod r/m byte, and with rm = 4 some SIB bytes: each base, no index, ESP
\* as the base, and a scale.
Operands ==
  {<<m>> \o Displacement : m \in 0 .. 255}
    \cup {<<m, s>> \o Displacement : m \in {\h04, \h44, \h84},
                                     s \in (0 .. 7) \cup {\h24, \h65, \hcd, \hd8}}
MCPrefixes == {<<\h66>>, <<\h67>>, <<\h26>>, <<\h64>>, <<\hf3>>, <<\hf0>>,
               <<\h66, \h67>>, <<\h67, \h2e>>, <<\hf2, \h66, \h65>>, <<\h66, \h66>>}

Decoded ==
  {Placed(p \o <<o>> \o x, 5, w, 0) :
     p \in {<< >>, <<\h67>>}, o \in {\h8b, \h83}, x \in Operands, w \in BOOLEAN}
Straddling ==
  {Placed(p \o i, at, w, 0) :
     p \in MCPrefixes \cup {<< >>}, at \in 2 .. 15, w \in BOOLEAN,
     i \in {<<\h8b, \h84, \h65>> \o Displacement, <<\h83, \h46, \h12, \h07>>,
            <<IMM>> \o Displacement, <<ADDRESS>> \o Displacement, <<NOP>>,
            <<\hf3, JMP, \hfd>>, <<\h00, \h00, NOP>>, <<\h00, \h00, \h00>>}}
Patched ==
  {Placed(<<STOSB, NOP, IMM>> \o Displacement, at, w, spot) :
     at \in 2 .. 8, w \in BOOLEAN, spot \in 1 .. 3}

MCPrograms == Decoded \cup Straddling \cup Patched
MCKernelPages == {0, 3, 4, 5}
MCPatches == {NOP, \h66, \hf3, STOSB}
=============================================================================
