------------------------------ MODULE Machine ------------------------------
(***************************************************************************)
(* ex86 runs one of two main loops: main (src/src/i8086.c) chooses it by   *)
(* the type of the CPU and returns when it ends.                           *)
(***************************************************************************)
EXTENDS IntDelivery, Loop16

VARIABLE loop    \* the one main has chosen

machine == <<vars, vars16, loop>>

MachineInit ==
    /\ Init /\ Init16
    /\ loop \in {"mainloop16", "mainloop32"}
    /\ loop = "mainloop32" => does16 = {} /\ ~recent

Run32(action) == loop = "mainloop32" /\ action /\ UNCHANGED <<vars16, loop>>
Run16(action) == loop = "mainloop16" /\ action /\ UNCHANGED <<vars, loop>>

MachineNext == Run32(Next) \/ Run16(Next16)

\* Whichever runs keeps running.
MachineSpec ==
    /\ MachineInit /\ [][MachineNext]_machine
    /\ WF_machine(Run32(Loop)) /\ WF_machine(Run16(mainloop16))
=============================================================================
