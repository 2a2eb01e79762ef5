---------------------------- MODULE IntDelivery ----------------------------
(***************************************************************************)
(* The 386 main loop (src/src/mainloop32.c): one guest instruction after   *)
(* another, and between them the signals of the host, the requests of the  *)
(* timer, the floppy controller and the UART, and the faults.              *)
(*                                                                         *)
(* A fault is raised by setting a bit of reg.fault and long-jumping to the *)
(* head of the loop, which enters the handler; entering it (enterINT32)    *)
(* may itself raise a fault.  SIGINT and SIGALRM arrive between any two    *)
(* steps.  SIGALRM between the test of timerflag and its reset is the same *)
(* as SIGALRM just before the test, so test, reset and entry are one step. *)
(*                                                                         *)
(* Of the CPU the model keeps IF and TF, the privilege level (0 or 3), the *)
(* selector in SS (of the stack of that level, or 1: of another segment),  *)
(* the stack ESP points into, and whether ESP has moved since the          *)
(* instruction began.  What instructions compute is the guest's choice,    *)
(* and so is every table the entry of a handler reads, but that the code   *)
(* segment of a handler is readable.  In real mode entering a handler      *)
(* never faults, clears IF and keeps the stack.                            *)
(***************************************************************************)
EXTENDS Naturals

CONSTANTS Fail,      \* stages of enterINT32 at which an entry by the loop may
                     \* fault: a subset of Stages, empty when the guest keeps its
                     \* IDT, GDT, TSS and inner stack in order and resident
          Raised,    \* the faults an instruction or an entry raises
          Sources,   \* the devices that request interrupts in this instance
          Guest,     \* what the guest does, of GuestOps
          ChkLimit,  \* chkCntForInt at which the UART is polled (200)
          TxPeriod   \* instructions between two tx interrupts (16)

Stages == {"gate", "code", "tss", "stack", "push"}
Handled == {"PF", "SS", "GP", "NP", "TS", "UD"}
Faults == Handled \cup {"UNKNOWN"}
Devices == {"timer", "fdc", "uart"}
GuestOps == {"io", "flags", "user", "stack", "far", "trap", "unknown", "stop"}

\* Instructions by what they may have changed when they fault: a "load" loads SS
\* (MOV, POP, LSS), a "return" is IRET or a far RET, "far" goes through a call
\* gate or to another task.
Kinds == {"plain", "load", "return", "far"}

ASSUME IntAssumption ==
  /\ Fail \subseteq Stages
  /\ Raised \subseteq Handled
  /\ Sources \subseteq Devices
  /\ Guest \subseteq GuestOps
  /\ ChkLimit \in Nat
  /\ TxPeriod \in Nat \ {0}

VARIABLES
  pc,         \* top: after a (long) jump; head: the while condition; exec; irq; exit
  intflag,    \* SIGINT has arrived
  timerflag,  \* SIGALRM has arrived since the flag was last reset
  armed,      \* ioTimer.counter[0] # 0
  mask,       \* devices masked in ioPICmain.ocw1
  irq,        \* ioFDC.irq
  uart,       \* ioUART1: [tx, rx: enabled, buf: buffered, host: a key waits, cnt]
  insts,      \* nExecInsts, modulo TxPeriod
  cpu,        \* [if, tf, cpl, ss, sp, moved]
  shadow,     \* the instruction was a MOV SS or POP SS that changed SS
  fault,      \* bits of reg.fault
  debug,      \* DEBUG: a breakpoint was hit
  ran,        \* history: the instruction at current_cs:current_eip has completed
  started,    \* cpu when that instruction began: current_esp, TF in prev_eflags,
              \* and for the properties the rest
  kind,       \* history: the kind of that instruction, once it has faulted
  failed,     \* history: since it began, the entry of a handler has faulted
  entered     \* history: the handler this step entered, and how

dev == <<armed, mask, irq, uart>>
vars == <<pc, intflag, timerflag, dev, insts, cpu, shadow, fault,
          debug, ran, started, kind, failed, entered>>

CPU == [if: BOOLEAN, tf: BOOLEAN, cpl: {0, 3}, ss: {0, 1, 3}, sp: {0, 3},
        moved: BOOLEAN]

UartType == [tx: BOOLEAN, rx: BOOLEAN, buf: BOOLEAN, host: BOOLEAN, cnt: 0..ChkLimit]

Vectors == Handled \cup Devices \cup {"soft", "step", "breakpoint"}
Entries == [vec: Vectors, from: CPU, again: BOOLEAN]
NoEntry == [vec |-> "none"]

(***************************************************************************)
(* enterINT32.  It succeeds or faults at a stage, having changed by then   *)
(* gate: nothing; code: IF and TF; tss: also the CPL; stack: also SS;      *)
(* push, which the load of CS ends: also ESP.  The stages tss and stack    *)
(* exist only when the CPL changes.                                        *)
(***************************************************************************)
Gated(c, trap) == [c EXCEPT !.if = c.if /\ trap, !.tf = FALSE]

\* The pushes: on the current stack, or on the inner one if the CPL changes.
Pushed(c, trap) ==
  IF c.cpl = 0 THEN [Gated(c, trap) EXCEPT !.moved = TRUE]
  ELSE [Gated(c, trap) EXCEPT !.cpl = 0, !.ss = 0, !.sp = 0, !.moved = TRUE]

Partial(c, stage, trap) ==
  CASE stage = "gate" -> c
    [] stage = "code" -> Gated(c, trap)
    [] stage = "tss"  -> [Gated(c, trap) EXCEPT !.cpl = 0]
    [] stage = "stack" -> [Gated(c, trap) EXCEPT !.cpl = 0, !.ss = 0]
    [] stage = "push" -> Pushed(c, trap)

Trap == IF "trap" \in Guest THEN BOOLEAN ELSE {FALSE}

\* The handler of vec is entered from the CPU state c; "again" says that its
\* frame names an instruction that has already completed.
Enter(vec, c, again) ==
  \E trap \in Trap :
    /\ cpu' = Pushed(c, trap)
    /\ entered' = [vec |-> vec, from |-> c, again |-> again]

\* Mutant: the long jump is missing and the loop's end finds the fault.
EntryFaults_NoJump(c, stages, pending) ==
  /\ \E stage \in stages : stage \in {"tss", "stack"} => c.cpl # 0
  /\ \E f \in Raised : fault' = pending \cup {f}
  /\ UNCHANGED cpu
  /\ failed' = TRUE
  /\ entered' = NoEntry
  /\ pc' = "exit"

\* The entry faults and long-jumps.
EntryFaults(c, stages, pending) ==
  /\ \E stage \in stages, trap \in Trap :
       /\ stage \in {"tss", "stack"} => c.cpl # 0
       /\ cpu' = Partial(c, stage, trap)
  /\ \E f \in Raised : fault' = pending \cup {f}
  /\ failed' = TRUE
  /\ entered' = NoEntry
  /\ pc' = "top"

(***************************************************************************)
(* The head of the loop.                                                   *)
(***************************************************************************)
\* Mutant: the dispatch forgets the general protection fault.
Dispatched_NoGP(F) == IF "PF" \in F THEN "PF" ELSE IF "SS" \in F THEN "SS" ELSE "UD"

\* The first fault of mainloop32.c:181-204; no handler is entered for UNKNOWN.
Dispatched(F) ==
  CASE "PF" \in F -> "PF"
    [] "PF" \notin F /\ "SS" \in F -> "SS"
    [] {"PF", "SS"} \cap F = {} /\ "GP" \in F -> "GP"
    [] {"PF", "SS", "GP"} \cap F = {} /\ "NP" \in F -> "NP"
    [] {"PF", "SS", "GP", "NP"} \cap F = {} /\ "TS" \in F -> "TS"
    [] OTHER -> "UD"

\* Mutant: ESP stays where the faulting instruction left it.
Recovered_Nothing(c) == c

\* enterINTwithECODE puts ESP, and nothing else, back to where it was.
Recovered(c) == [c EXCEPT !.sp = started.sp, !.moved = FALSE]

\* Mutant: SIGINT is looked at in the while condition only.
Top_NoIntFlag ==
  /\ pc = "top"
  /\ IF fault \cap Handled = {}
     THEN pc' = "head" /\ entered' = NoEntry /\ UNCHANGED <<cpu, fault, failed>>
     ELSE \/ /\ Enter(Dispatched(fault), Recovered(cpu), ran)
             /\ fault' = {}
             /\ pc' = "head"
             /\ UNCHANGED failed
          \/ EntryFaults(Recovered(cpu), Fail, {})
  /\ UNCHANGED <<intflag, timerflag, dev, insts, shadow, debug, ran,
                 started, kind>>

Top ==
  /\ pc = "top"
  /\ IF intflag \/ fault \cap Handled = {}
     THEN /\ pc' = IF intflag THEN "exit" ELSE "head"
          /\ entered' = NoEntry
          /\ UNCHANGED <<cpu, fault, failed>>
     ELSE \/ /\ Enter(Dispatched(fault), Recovered(cpu), ran)
             /\ fault' = {}
             /\ pc' = "head"
             /\ UNCHANGED failed
          \/ EntryFaults(Recovered(cpu), Fail, {})
  /\ UNCHANGED <<intflag, timerflag, dev, insts, shadow, debug, ran,
                 started, kind>>

\* Mutant: the snapshot is not taken for each instruction.
LoopHead_NoSnapshot ==
  /\ pc = "head"
  /\ \/ /\ ~intflag
        /\ pc' = "exec"
        /\ fault' = {}
        /\ cpu' = [cpu EXCEPT !.moved = FALSE]
        /\ kind' = "plain" /\ failed' = FALSE
        /\ debug' \in (IF "stop" \in Guest THEN {debug, TRUE} ELSE {debug})
     \/ /\ intflag \/ "stop" \in Guest
        /\ pc' = "exit"
        /\ UNCHANGED <<fault, cpu, kind, failed, debug>>
  /\ entered' = NoEntry
  /\ UNCHANGED <<intflag, timerflag, dev, insts, shadow, ran, started>>

\* The while condition, the snapshot and the breakpoint test; a reached stop
\* count, an endless loop or zeros for code end the run.
LoopHead ==
  /\ pc = "head"
  /\ \/ /\ ~intflag
        /\ pc' = "exec"
        /\ fault' = {}
        /\ ran' = FALSE
        /\ cpu' = [cpu EXCEPT !.moved = FALSE]
        /\ started' = cpu'
        /\ kind' = "plain" /\ failed' = FALSE
        /\ debug' \in (IF "stop" \in Guest THEN {debug, TRUE} ELSE {debug})
     \/ /\ intflag \/ "stop" \in Guest
        /\ pc' = "exit"
        /\ UNCHANGED <<fault, ran, cpu, started, kind, failed, debug>>
  /\ entered' = NoEntry
  /\ UNCHANGED <<intflag, timerflag, dev, insts, shadow>>

(***************************************************************************)
(* The guest instruction.                                                  *)
(***************************************************************************)
\* What an instruction that completes may do to the CPU: CLI, STI, POPF, PUSH and
\* POP; loads of SS and ESP; far jumps, calls and returns, which take the CPL from
\* the selector, and of them IRET to the user also SS:ESP; gates and tasks.  From
\* then on ESP counts as moved, whether it was or not.
Outcomes ==
  {c \in CPU :
     /\ c.moved
     /\ Guest \cap {"flags", "far"} # {} \/ (c.if = cpu.if /\ c.tf = cpu.tf)
     /\ \/ c.cpl = cpu.cpl /\ c.ss = cpu.ss /\ c.sp = cpu.sp
        \/ "stack" \in Guest /\ c.cpl = cpu.cpl /\ {c.ss, c.sp} \subseteq {cpu.ss, cpu.sp, cpu.cpl}
        \/ "user" \in Guest /\ c.ss = cpu.ss /\ c.sp = cpu.sp
        \/ "user" \in Guest /\ c.cpl = 3 /\ c.ss = 3 /\ c.sp = 3
        \/ "far" \in Guest /\ c.ss = c.cpl /\ c.sp = c.cpl}

Completes ==
  /\ pc' = "irq"
  /\ ran' = TRUE

Plain ==
  /\ cpu' \in Outcomes
  /\ shadow' \in (IF "stack" \in Guest THEN BOOLEAN ELSE {FALSE})
  /\ fault' \in (IF "unknown" \in Guest THEN {{}, {"UNKNOWN"}} ELSE {{}})
  /\ entered' = NoEntry
  /\ Completes
  /\ UNCHANGED <<dev, kind, failed>>

\* Port I/O of a driver: the PIC mask, the timer, a floppy command that ends in
\* an interrupt, the UART.  Reading the line status polls the host.
Poll(u) == IF ~u.buf /\ u.host THEN [u EXCEPT !.buf = TRUE, !.host = FALSE]
           ELSE u

InOut ==
  /\ "io" \in Guest
  /\ \/ \E m \in SUBSET Sources : mask' = m /\ UNCHANGED <<armed, irq, uart>>
     \/ /\ "timer" \in Sources
        /\ armed' \in BOOLEAN
        /\ UNCHANGED <<mask, irq, uart>>
     \/ /\ "fdc" \in Sources
        /\ irq' = TRUE
        /\ UNCHANGED <<armed, mask, uart>>
     \/ /\ "uart" \in Sources
        /\ \/ \E tx, rx \in BOOLEAN : uart' = [uart EXCEPT !.tx = tx, !.rx = rx]
           \/ uart' = [uart EXCEPT !.buf = FALSE]
           \/ uart' = Poll(uart)
        /\ UNCHANGED <<armed, mask, irq>>
  /\ shadow' = FALSE
  /\ fault' = {}
  /\ entered' = NoEntry
  /\ Completes
  /\ UNCHANGED <<cpu, kind, failed>>

\* INT n, INTO and the like: the entry is part of the instruction.
SoftInt ==
  /\ \/ /\ Enter("soft", cpu, FALSE) /\ Completes
        /\ fault' = {} /\ shadow' = FALSE
        /\ UNCHANGED failed
     \/ EntryFaults(cpu, Fail \cup {"gate"}, {}) /\ UNCHANGED <<ran, shadow>>
  /\ UNCHANGED <<dev, kind>>

KindsOf ==
  {k \in Kinds :
     /\ k = "load" => "stack" \in Guest
     /\ k = "return" => Guest \cap {"flags", "user"} # {}
     /\ k = "far" => "far" \in Guest}

\* The states in which an instruction may fault.  A load of SS has stored the
\* selector; a return has popped its frame, and then changed the flags and, if
\* it goes out to the user, the CPL and SS; a gate has changed CPL and SS:ESP,
\* and a task switch any register.  The arithmetic flags, which ADC and its like
\* set before their store can fault, are Restart's.
Torn(k) ==
  {c \in CPU :
     \/ k = "plain" /\ c = [cpu EXCEPT !.moved = c.moved]
     \/ k = "load" /\ c = [cpu EXCEPT !.moved = c.moved, !.ss = c.ss, !.sp = c.sp]
     \/ /\ k = "return" /\ c.sp = cpu.sp /\ c.moved
        /\ "flags" \in Guest \/ (c.if = cpu.if /\ c.tf = cpu.tf)
        /\ \/ c.cpl = cpu.cpl /\ c.ss = cpu.ss
           \/ c.cpl = 3 /\ "user" \in Guest
     \/ k = "far" /\ c.moved}

\* The instruction faults, part of it done.
Faulting ==
  /\ kind' \in KindsOf
  /\ cpu' \in Torn(kind')
  /\ \E f \in Raised : fault' = {f}
  /\ entered' = NoEntry
  /\ pc' = "top"
  /\ UNCHANGED <<dev, ran, shadow, failed>>

\* An unknown instruction, or one that returns an error.
ExecError ==
  /\ "stop" \in Guest
  /\ pc' = "exit"
  /\ entered' = NoEntry
  /\ UNCHANGED <<dev, cpu, fault, ran, shadow, kind, failed>>

Exec ==
  /\ pc = "exec"
  /\ Plain \/ InOut \/ SoftInt \/ Faulting \/ ExecError
  /\ UNCHANGED <<intflag, timerflag, insts, debug, started>>

(***************************************************************************)
(* After the instruction: traps, then the requests of the devices.         *)
(***************************************************************************)
Open(d) == d \notin mask
TimerWanted == armed /\ Open("timer") /\ timerflag
FdcWanted == irq /\ Open("fdc")
UartOpen == (uart.tx \/ uart.rx) /\ Open("uart")
TxWanted == UartOpen /\ uart.tx /\ insts = 0

\* The end of the loop's body.
NextInst ==
  /\ pc' = IF fault # {} THEN "exit" ELSE "head"
  /\ insts' = IF fault # {} THEN insts ELSE (insts + 1) % TxPeriod
  /\ UNCHANGED fault

Nothing == NextInst /\ entered' = NoEntry /\ UNCHANGED <<cpu, failed>>

Interrupt(vec) ==
  \/ Enter(vec, cpu, FALSE) /\ NextInst /\ UNCHANGED failed
  \/ EntryFaults(cpu, Fail, fault) /\ UNCHANGED insts

TimerInt ==
  /\ timerflag' = FALSE
  /\ IF debug THEN Nothing ELSE Interrupt("timer")
  /\ UNCHANGED dev

\* Mutant: the request is cleared before its handler is entered.
FdcInt_ClearFirst ==
  /\ irq' = FALSE
  /\ Interrupt("fdc")
  /\ UNCHANGED <<timerflag, armed, mask, uart>>

FdcInt ==
  /\ Interrupt("fdc")
  /\ irq' = (pc' = "top")
  /\ UNCHANGED <<timerflag, armed, mask, uart>>

RxPoll ==
  /\ uart' = IF uart.cnt + 1 > ChkLimit THEN [Poll(uart) EXCEPT !.cnt = 0]
             ELSE [uart EXCEPT !.cnt = @ + 1]
  /\ IF uart'.buf THEN Interrupt("uart") ELSE Nothing
  /\ UNCHANGED <<timerflag, armed, mask, irq>>

UartInt ==
  IF TxWanted THEN Interrupt("uart") /\ UNCHANGED <<timerflag, dev>>
  ELSE IF uart.rx THEN RxPoll
  ELSE Nothing /\ UNCHANGED <<timerflag, dev>>

\* Mutant: a tick is consumed though the timer is masked or disarmed.
External_ResetFirst ==
  IF timerflag /\ ~TimerWanted
  THEN timerflag' = FALSE /\ Nothing /\ UNCHANGED dev
  ELSE IF TimerWanted THEN TimerInt
  ELSE IF FdcWanted THEN FdcInt
  ELSE IF UartOpen THEN UartInt
  ELSE Nothing /\ UNCHANGED <<timerflag, dev>>

\* Mutant: the UART is asked first, and its tx interrupt is not throttled.
External_UartFirst ==
  IF UartOpen /\ uart.tx THEN Interrupt("uart") /\ UNCHANGED <<timerflag, dev>>
  ELSE IF TimerWanted THEN TimerInt
  ELSE IF FdcWanted THEN FdcInt
  ELSE IF UartOpen THEN UartInt
  ELSE Nothing /\ UNCHANGED <<timerflag, dev>>

External ==
  IF TimerWanted THEN TimerInt
  ELSE IF FdcWanted THEN FdcInt
  ELSE IF UartOpen THEN UartInt
  ELSE Nothing /\ UNCHANGED <<timerflag, dev>>

\* Mutant: a changed SS does not hold traps and interrupts back.
Irq_NoShadow ==
  /\ pc = "irq"
  /\ IF started.tf /\ cpu.tf THEN Interrupt("step") /\ UNCHANGED <<timerflag, dev>>
     ELSE IF cpu.if THEN External ELSE Nothing /\ UNCHANGED <<timerflag, dev>>
  /\ shadow' = FALSE
  /\ UNCHANGED <<intflag, debug, ran, started, kind>>

\* shadow ends with the iteration, like saved_ss.  The single step trap wants TF
\* before and after; a debug register match is the guest's doing.
Irq ==
  /\ pc = "irq"
  /\ IF shadow THEN Nothing /\ UNCHANGED <<timerflag, dev>>
     ELSE IF started.tf /\ cpu.tf
     THEN Interrupt("step") /\ UNCHANGED <<timerflag, dev>>
     ELSE \/ /\ "trap" \in Guest
             /\ Interrupt("breakpoint")
             /\ UNCHANGED <<timerflag, dev>>
          \/ IF cpu.if THEN External ELSE Nothing /\ UNCHANGED <<timerflag, dev>>
  /\ shadow' = FALSE
  /\ UNCHANGED <<intflag, debug, ran, started, kind>>

(***************************************************************************)
(* The host.                                                               *)
(***************************************************************************)
others == <<pc, dev, insts, cpu, shadow, fault, debug, ran, started,
            kind, failed>>

Sigint ==
  /\ intflag' = TRUE
  /\ entered' = NoEntry
  /\ UNCHANGED <<others, timerflag>>

Sigalrm ==
  /\ "timer" \in Sources
  /\ timerflag' = TRUE
  /\ entered' = NoEntry
  /\ UNCHANGED <<others, intflag>>

Key ==
  /\ "uart" \in Sources
  /\ uart' = [uart EXCEPT !.host = TRUE]
  /\ entered' = NoEntry
  /\ UNCHANGED <<pc, intflag, timerflag, armed, mask, irq, insts, cpu,
                 shadow, fault, debug, ran, started, kind, failed>>

Reset == [if |-> FALSE, tf |-> FALSE, cpl |-> 0, ss |-> 0, sp |-> 0,
          moved |-> FALSE]

Init ==
  /\ pc = "top" /\ fault = {} /\ entered = NoEntry
  /\ intflag = FALSE /\ timerflag = FALSE
  /\ armed = FALSE /\ mask = {} /\ irq = FALSE
  /\ uart = [tx |-> FALSE, rx |-> FALSE, buf |-> FALSE, host |-> FALSE, cnt |-> 0]
  /\ insts = 0 /\ cpu = Reset /\ shadow = FALSE
  /\ debug = FALSE /\ ran = FALSE /\ started = Reset
  /\ kind = "plain" /\ failed = FALSE

Loop == Top \/ LoopHead \/ Exec \/ Irq
Host == pc # "exit" /\ (Sigint \/ Sigalrm \/ Key)
Next == Loop \/ Host

Spec == Init /\ [][Next]_vars

\* The loop keeps running; nothing is owed by the host.
FairSpec == Spec /\ WF_vars(Loop)
-----------------------------------------------------------------------------
(***************************************************************************)
(* Properties.                                                             *)
(***************************************************************************)
TypeOK ==
  /\ pc \in {"top", "head", "exec", "irq", "exit"}
  /\ intflag \in BOOLEAN /\ timerflag \in BOOLEAN /\ armed \in BOOLEAN
  /\ mask \subseteq Sources /\ irq \in BOOLEAN
  /\ uart \in UartType
  /\ insts \in 0..TxPeriod - 1
  /\ cpu \in CPU /\ started \in CPU
  /\ shadow \in BOOLEAN
  /\ fault \subseteq Faults
  /\ debug \in BOOLEAN /\ ran \in BOOLEAN
  /\ kind \in Kinds /\ failed \in BOOLEAN
  /\ entered \in {NoEntry} \cup Entries

\* At most one fault with a handler is pending, so the order in which the
\* dispatch of mainloop32.c:181-204 tests the bits decides nothing: entering a
\* handler that faults must not add to the fault it was entered for.
OneFault == \A f, g \in fault \cap Handled : f = g

\* A pending fault is dropped only by entering its handler, by another fault
\* raised on the way in, or by the end of the run.
NoSilentFault ==
  [][\A f \in fault \cap Handled :
       f \notin fault' => entered'.vec = f \/ fault' # {}]_vars

\* No storm of faults, interrupts and failing entries ends the run by itself:
\* the check "Unhandled fault" of mainloop32.c:342 never meets a fault that
\* has a handler (for guests that make it exit in no other way).
StopsOnlyOnRequest == pc = "exit" => intflag

\* ioFDC.irq goes away only as the FDC's handler is entered; an entry that
\* faults keeps the request for the next try.
FdcIrqKept == [][irq /\ ~irq' => entered'.vec = "fdc"]_vars

\* A timer tick is consumed only by entering the timer's handler, except that
\* it is lost while debugging and when the entry faults.
TickAccounted ==
  [][timerflag /\ ~timerflag' =>
       entered'.vec = "timer" \/ debug \/ fault' # {}]_vars

\* Between an instruction that changed SS and the end of the next one, which
\* sets ESP, no handler is entered but for a fault of that next instruction.
StackNotTorn ==
  [][pc = "irq" /\ shadow => entered'.vec = "none"]_vars

\* How far entries that fault take the CPU from where the instruction began: IF
\* and TF at most cleared, the CPL lowered, SS replaced by that of the inner stack.
Lowered(c) ==
  /\ c.if => started.if
  /\ c.tf => started.tf
  /\ c.cpl \in {0, started.cpl}
  /\ kind = "plain" => c.ss \in {0, started.ss}

\* What a handler of the fault can rely on, entered from the CPU state c.  ESP is
\* always that of the instruction's beginning.  If no entry has faulted on the
\* way then so are IF, TF, CPL and SS, but SS after a load of SS; a return has
\* changed the CPL and SS at most to go out to the user.  If one has, after an
\* instruction that did not complete, the CPU is at most Lowered.
Precise(c) ==
  /\ c.sp = started.sp /\ ~c.moved
  /\ ~failed /\ kind = "plain" => c = started
  /\ ~failed /\ kind = "load" => c = [started EXCEPT !.ss = c.ss]
  /\ ~failed /\ kind = "return" /\ c.cpl # 3 => c.cpl = started.cpl /\ c.ss = started.ss
  /\ failed /\ ~ran /\ kind \in {"plain", "load"} => Lowered(c)

\* A handler of a fault never sees more of the faulting instruction, or of entries
\* that faulted after it, than enterINTwithECODE leaves standing when it puts
\* back ESP alone.
FaultIsPrecise == [][entered'.vec \in Handled => Precise(entered'.from)]_vars

\* The frame of a fault names an instruction that has completed, which the
\* handler's IRET then executes a second time, only where the entry of a trap or
\* an interrupt after that instruction has faulted.
RestartSafe ==
  [][entered'.vec \in Handled /\ entered'.again => failed]_vars

\* SIGINT ends the run, whatever the guest does, a storm of faults included.
SigintStops == intflag ~> pc = "exit"

\* A guest that keeps the timer armed and unmasked and comes back to an
\* instruction end with interrupts enabled is not denied its ticks by the
\* requests of the other devices.
TimerReady ==
  pc = "irq" /\ cpu.if /\ ~(started.tf /\ cpu.tf) /\ ~shadow /\ armed /\ Open("timer")
TimerServed ==
  []<>TimerReady => (timerflag ~> entered.vec = "timer" \/ debug)
=============================================================================
