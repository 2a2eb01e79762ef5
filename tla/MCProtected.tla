----------------------------- MODULE MCProtected -----------------------------
(***************************************************************************)
(* A small instance of Protected: one task runs in user mode and one in    *)
(* virtual 8086 mode.                                                      *)
(***************************************************************************)
EXTENDS Protected

CONSTANTS tA, tB

MCTasks == {tA, tB}
MCVmTasks == {tB}
MCGuests ==
    {{"load"}, {"nest"}, {"call", "repair"}, {"refused", "call"}, {"load", "absent"}, {"coprocessor"}}
=============================================================================
