----------------------------- MODULE MCRestart -----------------------------
(***************************************************************************)
(* Small instances of Restart: eight cells on four pages.  The operand at  *)
(* cell 3 straddles pages 1 and 2 when it is a word.                       *)
(***************************************************************************)
EXTENDS Restart

File(ax, cx, cf, sp, bp) ==
  [r \in All |->
     CASE r = "ax" -> ax [] r = "cx" -> cx [] r = "cf" -> cf
       [] r = "sp" -> sp [] r = "bp" -> bp [] r = "si" -> 1 [] r = "di" -> 5
       [] OTHER -> 0]

MCRegs == {File(ax, cx, cf, sp, 6) : ax \in {1, 6}, cx \in {0, 2, 3}, cf \in {0, 1},
                                     sp \in {3, 6}}
MCMems == {[a \in Val |-> (3 * a + 2) % Size], [a \in Val |-> 7]}
=============================================================================
