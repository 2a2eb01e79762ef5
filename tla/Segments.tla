------------------------------ MODULE Segments ------------------------------
(***************************************************************************)
(* Segment registers with their descriptor caches (src/src/descriptor.c,   *)
(* updateSegReg of src/src/decode.c).  Of a descriptor the model keeps     *)
(* which segment it describes and its DPL; limits and the code and data    *)
(* types are left out.  FS and GS are treated as ES is.                    *)
(*                                                                         *)
(* The guest's selectors: the kernel's code and data segment and the TSSs  *)
(* are in the GDT, with DPL 0; code, data and an extra data segment of     *)
(* each task are in its LDT, with DPL and RPL 3.  In virtual 8086 mode a   *)
(* selector is a paragraph.                                                *)
(***************************************************************************)
EXTENDS Naturals

CONSTANTS Tasks, None

SegRegs == {"cs", "ss", "ds", "es"}
GdtSelectors == {"KCS", "KDS"} \cup Tasks
LdtSelectors == {"UCS", "UDS", "UXS"}
Paragraphs == {"v1", "v2"}
Selectors == {"null"} \cup GdtSelectors \cup LdtSelectors \cup Paragraphs

RPL(s) == IF s \in LdtSelectors THEN 3 ELSE 0

\* loadRawSegmentDesc: the table that bit 2 of the selector names.  The null
\* selector gives a descriptor of zeroes.
RawDesc(s, ldt) ==
    CASE s = "null"           -> [of |-> <<None, "null">>, dpl |-> 0]
      [] s \in LdtSelectors   -> [of |-> <<ldt, s>>, dpl |-> 3]
      [] OTHER                -> [of |-> <<None, s>>, dpl |-> 0]

\* LOAD_DATA_DESCRIPTOR_IN_REAL and LOAD_CODE_DESCRIPTOR_IN_REAL.
RealDesc(s) == [of |-> <<"real", s>>, dpl |-> 0]

\* What a load of s puts into the descriptor cache: it depends on the mode and
\* on the LDT of that moment.
DescOf(r, s) == IF r.vm THEN RealDesc(s) ELSE RawDesc(s, r.dldt)

\* updateSegReg of a segment that is present.  loadCodeSegmentDesc sets the CPL.
updateSegReg(r, seg, s) ==
    [r EXCEPT !.sel[seg] = s, !.desc[seg] = DescOf(r, s),
              !.cpl = IF seg = "cs" /\ ~r.vm THEN RPL(s) ELSE @]

\* Of one that is not: the selector is stored, and then the load faults.
updateSegRegNP(r, seg, s) == [r EXCEPT !.sel[seg] = s]

\* A data segment register that may not be used at the new, outer level.
Nulled(r, seg) ==
    IF r.cpl > r.desc[seg].dpl THEN updateSegReg(r, seg, "null") ELSE r
=============================================================================
