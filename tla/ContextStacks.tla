---------------------------- MODULE ContextStacks ----------------------------
(***************************************************************************)
(* What a guest's kernel may rely on when it lets the processor interrupt  *)
(* and switch its tasks.  A task is a stack of contexts: what it does in   *)
(* user mode (or in virtual 8086 mode), and upon it the handlers that      *)
(* interrupted one another.  Only the last context of the current task     *)
(* runs; the others wait, and nothing happens to them.                     *)
(*                                                                         *)
(* The data segments are not part of an interrupted context: a handler     *)
(* finds them and leaves them, and those of the kernel are taken away on   *)
(* the way out.  Virtual 8086 mode has its own, which are put away.        *)
(***************************************************************************)
EXTENDS Naturals, SequencesExt

CONSTANTS
    Tasks,
    Segments,      \* what a data segment register may give access to
    Privileged,    \* those of them that are the kernel's
    NullSegment,   \* no access
    Pending,       \* what the register gives until the load that failed is repeated
    Elsewhere      \* the data segments of a context that has been interrupted

VARIABLES
    current,       \* the task that runs
    stack,         \* of each task, its contexts
    gpr,           \* of each task, its general registers
    ts             \* the next use of the coprocessor traps

vars == <<current, stack, gpr, ts>>

Levels == {"user", "vm", "kernel"}
Contexts ==
    [level : Levels, ip : Nat, sp : Nat, if : BOOLEAN, nt : BOOLEAN,
     ds : Segments \cup {Elsewhere}, es : Segments \cup {Elsewhere}]

Top == Last(stack[current])
Now == Last(stack[current]')

Replace(s, c) == Append(Front(s), c)

Init ==
    /\ current \in Tasks
    /\ DOMAIN stack = Tasks
    /\ \A t \in Tasks : stack[t] \in Seq(Contexts) /\ stack[t] # << >>
    /\ DOMAIN gpr = Tasks
    /\ ts \in BOOLEAN

\* The running context computes.  Only the kernel disables interrupts.
Compute ==
    /\ stack' = [stack EXCEPT ![current] = Replace(@,
          [Top EXCEPT !.ip = Now.ip, !.sp = Now.sp, !.if = Now.if])]
    /\ Top.level # "kernel" => Now.if = Top.if
    /\ gpr' = [gpr EXCEPT ![current] = gpr'[current]]
    /\ UNCHANGED <<current, ts>>

\* It loads a data segment register.
LoadSegment ==
    /\ stack' = [stack EXCEPT ![current] = Replace(@,
          [Top EXCEPT !.ip = Now.ip, !.ds = Now.ds, !.es = Now.es])]
    /\ Now.ds = Top.ds \/ Now.es = Top.es
    /\ UNCHANGED <<current, gpr, ts>>

UseCoprocessor == ts' = FALSE /\ UNCHANGED <<current, stack, gpr>>

\* A handler starts, in the kernel.  If it handles a load that failed, the
\* register is pending.
Handler(c, mayInterrupt) ==
    [level |-> "kernel", ip |-> 0, sp |-> 0, if |-> mayInterrupt, nt |-> FALSE,
     ds |-> IF c.level = "vm" THEN NullSegment ELSE c.ds,
     es |-> IF c.level = "vm" THEN NullSegment ELSE c.es]

Interrupted(c) ==
    IF c.level = "vm" THEN c ELSE [c EXCEPT !.ds = Elsewhere, !.es = Elsewhere]

Interrupt ==
    /\ \E es \in {Top.es, Pending} :
         stack' = [stack EXCEPT ![current] =
             Append(Replace(@, Interrupted(Top)), Handler([Top EXCEPT !.es = es], Now.if))]
    /\ Now.if => Top.if
    /\ UNCHANGED <<current, gpr, ts>>

\* It ends, and what it interrupted goes on where it was.  A register that is
\* pending may be taken away too: its load is to be repeated.
Kept(level, s) == IF level = "user" /\ s \in Privileged THEN NullSegment ELSE s

Resumed(c, ds, es) ==
    IF c.level = "vm" THEN c
    ELSE [c EXCEPT !.ds = Kept(c.level, ds), !.es = Kept(c.level, es)]

Return ==
    /\ Len(stack[current]) > 1
    /\ \E es \in {Top.es} \cup (IF Top.es = Pending THEN {NullSegment} ELSE {}) :
         stack' = [stack EXCEPT ![current] =
             Replace(Front(@), Resumed(Last(Front(@)), Top.ds, es))]
    /\ UNCHANGED <<current, gpr, ts>>

(***************************************************************************)
(* Another task runs.  The instruction that switched is complete: the task *)
(* that leaves goes on behind it.  The flag NT of the new one says whether *)
(* it is to return to the other (CALL); JMP clears it, and a return clears *)
(* the flag of the task that leaves.                                       *)
(***************************************************************************)
Switch(how) ==
    /\ Top.level = "kernel"
    /\ current' # current
    /\ how = "return" => Top.nt
    /\ LET nt(c) == CASE how = "jump" -> FALSE
                      [] how = "call" -> TRUE
                      [] how = "return" -> c.nt
           left == [Top EXCEPT !.ip = Last(stack'[current]).ip,
                               !.nt = @ /\ how # "return"]
           come == Last(stack[current'])
       IN stack' = [stack EXCEPT ![current]  = Replace(@, left),
                                 ![current'] = Replace(@, [come EXCEPT !.nt = nt(come)])]
    /\ ts' = TRUE
    /\ UNCHANGED gpr

Next ==
    \/ Compute \/ LoadSegment \/ UseCoprocessor
    \/ Interrupt \/ Return
    \/ \E how \in {"jump", "call", "return"} : Switch(how)

Spec == Init /\ [][Next]_vars
=============================================================================
