----------------------------- MODULE MCMachine -----------------------------
(***************************************************************************)
(* A small instance of Machine.  A byte has one bit.                       *)
(***************************************************************************)
EXTENDS Machine, Bitwise

MCBytes == 0 .. 1
MCByteOr == [b \in MCBytes \X MCBytes |-> b[1] | b[2]]
MCGuests16 ==
    {{}, {"pic", "count"}, {"count", "byte", "latch"}, {"count", "stack", "trap"},
     {"count", "stop"}}
=============================================================================
