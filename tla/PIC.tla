-------------------------------- MODULE PIC --------------------------------
(***************************************************************************)
(* The interrupt controller's registers (src/src/dev_PIC.c): a dialogue of *)
(* two to four initialisation words, after which the data port is the mask *)
(* again.  The words that nothing reads, ICW3, ICW4, OCW2 and OCW3, are    *)
(* left out; of ICW1 the model keeps whether an ICW4 follows.              *)
(***************************************************************************)
EXTENDS Naturals

CONSTANT Bytes   \* what is written to a data port, as a vector base or a mask

Commands == {"icw1", "icw1+4", "ocw2", "ocw3"}
PICs == [acc_idx : {0, 2, 3, 4}, icw1 : {"icw1", "icw1+4"}, icw2 : Bytes, ocw1 : Bytes]

ResetPIC == [acc_idx |-> 0, icw1 |-> "icw1", icw2 |-> 0, ocw1 |-> 0]

\* writePICReg, of the even and of the odd port.
writePICCommand(p, data) ==
    IF data \in {"icw1", "icw1+4"} THEN [p EXCEPT !.acc_idx = 2, !.icw1 = data]
    ELSE [p EXCEPT !.acc_idx = 0]

\* Mutant: an ICW4 is awaited whatever ICW1 said.
writePICData_AlwaysICW4(p, data) ==
    CASE p.acc_idx = 0 -> [p EXCEPT !.ocw1 = data]
      [] p.acc_idx = 2 -> [p EXCEPT !.acc_idx = 3, !.icw2 = data]
      [] p.acc_idx = 3 -> [p EXCEPT !.acc_idx = 4]
      [] p.acc_idx = 4 -> [p EXCEPT !.acc_idx = 0]

writePICData(p, data) ==
    CASE p.acc_idx = 0 -> [p EXCEPT !.ocw1 = data]
      [] p.acc_idx = 2 -> [p EXCEPT !.acc_idx = 3, !.icw2 = data]
      [] p.acc_idx = 3 -> [p EXCEPT !.acc_idx = IF p.icw1 = "icw1+4" THEN 4 ELSE 0]
      [] p.acc_idx = 4 -> [p EXCEPT !.acc_idx = 0]
=============================================================================
