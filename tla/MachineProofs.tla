--------------------------- MODULE MachineProofs ---------------------------
(***************************************************************************)
(* Proofs about the two main loops, for every choice of what the guest     *)
(* does, of the faults it meets, of the stages at which entering a handler *)
(* may fault, and of the size of a byte.  First that of the 386: its       *)
(* inductive invariant IInv says where in the loop a fault may be pending. *)
(* Then that of the 8086 and 80186: Inv16 says how far the guest has come  *)
(* in programming the interrupt controller and the timer.                  *)
(***************************************************************************)
EXTENDS Machine, TLAPS

-----------------------------------------------------------------------------
(***************************************************************************)
(* What entering a handler does.                                           *)
(***************************************************************************)
\* A handler that is entered leaves a CPU state and a record of the entry.
LEMMA EnterEffect ==
  ASSUME NEW vec \in Vectors, NEW c \in CPU, NEW again \in BOOLEAN, Enter(vec, c, again)
  PROVE  /\ cpu' \in CPU
         /\ entered' \in Entries
         /\ entered'.vec = vec /\ entered'.from = c /\ entered'.again = again
<1>1. PICK trap \in Trap : cpu' = Pushed(c, trap)
                           /\ entered' = [vec |-> vec, from |-> c, again |-> again]
  BY DEF Enter
<1>2. trap \in BOOLEAN
  BY DEF Trap
<1>3. Gated(c, trap) \in CPU
  BY <1>2 DEF Gated, CPU
<1>4. Pushed(c, trap) \in CPU
  BY <1>3 DEF Pushed, CPU
<1> QED
  BY <1>1, <1>4 DEF Entries

\* An entry that faults leaves a CPU state, adds one fault, and long-jumps.
LEMMA EntryFaultsEffect ==
  ASSUME NEW c \in CPU, NEW stages \in SUBSET Stages, NEW pending \in SUBSET Faults,
         EntryFaults(c, stages, pending)
  PROVE  /\ cpu' \in CPU
         /\ \E f \in Raised : fault' = pending \cup {f}
         /\ fault' \in SUBSET Faults
         /\ entered' = NoEntry
         /\ pc' = "top" /\ failed' = TRUE
<1>1. PICK stage \in stages, trap \in Trap : cpu' = Partial(c, stage, trap)
  BY DEF EntryFaults
<1>2. trap \in BOOLEAN
  BY DEF Trap
<1>3. Gated(c, trap) \in CPU
  BY <1>2 DEF Gated, CPU
<1>4. Pushed(c, trap) \in CPU
  BY <1>3 DEF Pushed, CPU
<1>5. /\ [Gated(c, trap) EXCEPT !.cpl = 0] \in CPU
      /\ [Gated(c, trap) EXCEPT !.cpl = 0, !.ss = 0] \in CPU
  BY <1>3 DEF CPU
<1>6. stage \in {"gate", "code", "tss", "stack", "push"}
  BY DEF Stages
<1>7. cpu' \in CPU
  BY <1>1, <1>3, <1>4, <1>5, <1>6 DEF Partial
<1>8. \E f \in Raised : fault' = pending \cup {f}
  BY DEF EntryFaults
<1>9. fault' \in SUBSET Faults
  BY <1>8, IntAssumption DEF Faults
<1> QED
  BY <1>7, <1>8, <1>9 DEF EntryFaults

\* An interrupt or a trap is entered and the loop goes on, or its entry faults.
LEMMA InterruptEffect ==
  ASSUME NEW vec \in Vectors, cpu \in CPU, fault \in SUBSET Faults, Interrupt(vec)
  PROVE  /\ cpu' \in CPU
         /\ \/ /\ entered' \in Entries /\ entered'.vec = vec
               /\ NextInst /\ UNCHANGED failed
            \/ /\ entered' = NoEntry /\ pc' = "top" /\ UNCHANGED insts
               /\ failed' = TRUE
               /\ \E f \in Raised : fault' = fault \cup {f}
               /\ fault' \in SUBSET Faults
<1>1. CASE Enter(vec, cpu, FALSE) /\ NextInst /\ UNCHANGED failed
  <2> HIDE DEF NextInst, CPU, Entries, Vectors
  <2> QED BY <1>1, EnterEffect
<1>2. CASE EntryFaults(cpu, Fail, fault) /\ UNCHANGED insts
  <2>1. Fail \in SUBSET Stages
    BY IntAssumption
  <2> HIDE DEF CPU, Faults
  <2> QED BY <1>2, <2>1, EntryFaultsEffect
<1> QED
  BY <1>1, <1>2 DEF Interrupt
-----------------------------------------------------------------------------
(***************************************************************************)
(* Types.                                                                  *)
(***************************************************************************)
\* Without an entry the loop goes on or ends, and the count stays in its range.
LEMMA NextInstType ==
  ASSUME insts \in 0..TxPeriod - 1, fault \in SUBSET Faults, NextInst
  PROVE  /\ pc' \in {"head", "exit"}
         /\ insts' \in 0..TxPeriod - 1
         /\ fault' \in SUBSET Faults
<1>1. TxPeriod \in Nat \ {0} /\ insts \in Nat
  BY IntAssumption
<1>2. (insts + 1) % TxPeriod \in 0..TxPeriod - 1
  BY <1>1
<1> QED
  BY <1>2 DEF NextInst

\* Looking at the host for a character keeps the UART's count.
LEMMA PollType ==
  ASSUME NEW u \in UartType
  PROVE  Poll(u) \in UartType /\ Poll(u).cnt = u.cnt
BY DEF Poll, UartType

\* The part of the type invariant that the steps after an instruction change.
IrqType ==
  /\ pc \in {"top", "head", "exit"}
  /\ timerflag \in BOOLEAN
  /\ armed \in BOOLEAN /\ mask \in SUBSET Sources /\ irq \in BOOLEAN
  /\ uart \in UartType
  /\ insts \in 0..TxPeriod - 1
  /\ cpu \in CPU
  /\ fault \in SUBSET Faults
  /\ entered \in {NoEntry} \cup Entries
  /\ failed \in BOOLEAN

\* What an interrupt or a trap leaves of it, the devices apart.
LEMMA InterruptType ==
  ASSUME TypeOK, NEW vec \in Vectors, Interrupt(vec)
  PROVE  /\ pc' \in {"top", "head", "exit"}
         /\ insts' \in 0..TxPeriod - 1
         /\ cpu' \in CPU
         /\ fault' \in SUBSET Faults
         /\ entered' \in {NoEntry} \cup Entries
         /\ failed' \in BOOLEAN
<1>1. /\ cpu \in CPU /\ fault \in SUBSET Faults /\ insts \in 0..TxPeriod - 1
      /\ failed \in BOOLEAN
  BY DEF TypeOK
<1> HIDE DEF CPU, Faults, Entries, Vectors
<1>2. CASE NextInst /\ entered' \in Entries /\ UNCHANGED failed
  BY <1>1, <1>2, NextInstType, InterruptEffect
<1>3. CASE /\ entered' = NoEntry /\ pc' = "top" /\ UNCHANGED insts /\ fault' \in SUBSET Faults
           /\ failed' = TRUE
  BY <1>1, <1>3, InterruptEffect
<1> QED
  BY <1>1, <1>2, <1>3, InterruptEffect

\* And what is left when nothing is entered.
LEMMA NothingType ==
  ASSUME TypeOK, Nothing
  PROVE  /\ pc' \in {"top", "head", "exit"}
         /\ insts' \in 0..TxPeriod - 1
         /\ cpu' \in CPU
         /\ fault' \in SUBSET Faults
         /\ entered' \in {NoEntry} \cup Entries
         /\ failed' \in BOOLEAN
BY NextInstType DEF Nothing, TypeOK

\* The requests of the devices.
LEMMA ExternalType ==
  ASSUME TypeOK, External
  PROVE  IrqType'
<1>1. /\ timerflag \in BOOLEAN /\ armed \in BOOLEAN /\ mask \in SUBSET Sources
      /\ irq \in BOOLEAN /\ uart \in UartType
  BY DEF TypeOK
<1>2. {"timer", "fdc", "uart"} \subseteq Vectors
  BY DEF Vectors, Devices
<1> HIDE DEF CPU, Faults, Entries, Vectors
<1>3. CASE TimerInt
  <2>1. Nothing \/ Interrupt("timer")
    BY <1>3 DEF TimerInt
  <2>2. /\ pc' \in {"top", "head", "exit"} /\ insts' \in 0..TxPeriod - 1
        /\ cpu' \in CPU /\ fault' \in SUBSET Faults
        /\ entered' \in {NoEntry} \cup Entries
        /\ failed' \in BOOLEAN
    BY <1>2, <2>1, NothingType, InterruptType
  <2> QED
    BY <1>1, <1>3, <2>2 DEF TimerInt, dev, IrqType
<1>4. CASE FdcInt
  <2>1. /\ pc' \in {"top", "head", "exit"} /\ insts' \in 0..TxPeriod - 1
        /\ cpu' \in CPU /\ fault' \in SUBSET Faults
        /\ entered' \in {NoEntry} \cup Entries
        /\ failed' \in BOOLEAN
    BY <1>2, <1>4, InterruptType DEF FdcInt
  <2> QED
    BY <1>1, <1>4, <2>1 DEF FdcInt, IrqType
<1>5. CASE RxPoll
  <2>1. Nothing \/ Interrupt("uart")
    BY <1>5 DEF RxPoll
  <2>2. /\ pc' \in {"top", "head", "exit"} /\ insts' \in 0..TxPeriod - 1
        /\ cpu' \in CPU /\ fault' \in SUBSET Faults
        /\ entered' \in {NoEntry} \cup Entries
        /\ failed' \in BOOLEAN
    BY <1>2, <2>1, NothingType, InterruptType
  <2>3. uart' \in UartType
    <3>1. Poll(uart) \in UartType
      BY <1>1, PollType
    <3>2. CASE uart.cnt + 1 > ChkLimit
      <4>1. uart' = [Poll(uart) EXCEPT !.cnt = 0]
        BY <1>5, <3>2 DEF RxPoll
      <4> QED
        BY <3>1, <4>1, IntAssumption DEF UartType
    <3>3. CASE ~(uart.cnt + 1 > ChkLimit)
      <4>1. uart' = [uart EXCEPT !.cnt = @ + 1]
        BY <1>5, <3>3 DEF RxPoll
      <4>2. uart.cnt + 1 \in 0..ChkLimit
        BY <1>1, <3>3, IntAssumption DEF UartType
      <4> QED
        BY <1>1, <4>1, <4>2 DEF UartType
    <3> QED
      BY <3>2, <3>3
  <2> QED
    BY <1>1, <1>5, <2>2, <2>3 DEF RxPoll, IrqType
<1>6. CASE Interrupt("uart") /\ UNCHANGED <<timerflag, dev>>
  <2>1. /\ pc' \in {"top", "head", "exit"} /\ insts' \in 0..TxPeriod - 1
        /\ cpu' \in CPU /\ fault' \in SUBSET Faults
        /\ entered' \in {NoEntry} \cup Entries
        /\ failed' \in BOOLEAN
    BY <1>2, <1>6, InterruptType
  <2> QED
    BY <1>1, <1>6, <2>1 DEF dev, IrqType
<1>7. CASE Nothing /\ UNCHANGED <<timerflag, dev>>
  <2>1. /\ pc' \in {"top", "head", "exit"} /\ insts' \in 0..TxPeriod - 1
        /\ cpu' \in CPU /\ fault' \in SUBSET Faults
        /\ entered' \in {NoEntry} \cup Entries
        /\ failed' \in BOOLEAN
    BY <1>7, NothingType
  <2> QED
    BY <1>1, <1>7, <2>1 DEF dev, IrqType
<1> QED
  BY <1>3, <1>4, <1>5, <1>6, <1>7 DEF External, UartInt

\* The first fault in the order of the dispatch is one that has a handler.
LEMMA DispatchedHandled == \A F : Dispatched(F) \in Handled
BY DEF Dispatched, Handled

\* Every step keeps the types.
LEMMA TypeStep == TypeOK /\ [Next]_vars => TypeOK'
<1> SUFFICES ASSUME TypeOK, [Next]_vars PROVE TypeOK'
  OBVIOUS
<1>1. CASE Top
  <2>1. Recovered(cpu) \in CPU /\ ran \in BOOLEAN
    BY DEF Recovered, TypeOK, CPU
  <2>2. Dispatched(fault) \in Vectors
    BY DispatchedHandled DEF Vectors
  <2>3. Fail \in SUBSET Stages /\ {} \in SUBSET Faults
    BY IntAssumption
  <2>4. /\ cpu' \in CPU /\ fault' \in SUBSET Faults
        /\ entered' \in {NoEntry} \cup Entries
        /\ pc' \in {"top", "head", "exit"} /\ failed' \in BOOLEAN
    <3>1. CASE intflag \/ fault \cap Handled = {}
      BY <1>1, <3>1 DEF Top, TypeOK
    <3>2. CASE /\ Enter(Dispatched(fault), Recovered(cpu), ran) /\ fault' = {} /\ pc' = "head"
               /\ UNCHANGED failed
      <4>1. failed' \in BOOLEAN
        BY <3>2 DEF TypeOK
      <4> HIDE DEF CPU, Entries, Vectors
      <4> QED BY <2>1, <2>2, <3>2, <4>1, EnterEffect
    <3>3. CASE EntryFaults(Recovered(cpu), Fail, {})
      <4> HIDE DEF CPU, Entries, Faults, Stages
      <4> QED BY <2>1, <2>3, <3>3, EntryFaultsEffect
    <3> QED BY <1>1, <3>1, <3>2, <3>3 DEF Top
  <2> QED
    BY <1>1, <2>4 DEF Top, dev, TypeOK
<1>2. CASE LoopHead
  <2>1. [cpu EXCEPT !.moved = FALSE] \in CPU
    BY DEF TypeOK, CPU
  <2>2. cpu' \in CPU /\ started' \in CPU
    BY <1>2, <2>1 DEF LoopHead, TypeOK
  <2>3. kind' \in Kinds /\ failed' \in BOOLEAN
    BY <1>2 DEF LoopHead, TypeOK, Kinds
  <2> QED
    BY <1>2, <2>2, <2>3 DEF LoopHead, dev, TypeOK
<1>3. CASE Exec
  <2>0. UNCHANGED <<intflag, timerflag, insts, debug, started>>
    BY <1>3 DEF Exec
  <2>1. CASE Plain
    <3>1. cpu' \in CPU
      BY <2>1 DEF Plain, Outcomes
    <3>2. shadow' \in BOOLEAN /\ fault' \in SUBSET Faults
      BY <2>1 DEF Plain, Faults
    <3> QED
      BY <2>0, <2>1, <3>1, <3>2 DEF Plain, Completes, dev, TypeOK, CPU
  <2>2. CASE InOut
    <3>1. uart' \in UartType
      <4>1. uart \in UartType
        BY DEF TypeOK
      <4>2. Poll(uart) \in UartType
        BY <4>1, PollType
      <4>3. \A tx, rx \in BOOLEAN : [uart EXCEPT !.tx = tx, !.rx = rx] \in UartType
        BY <4>1 DEF UartType
      <4>4. [uart EXCEPT !.buf = FALSE] \in UartType
        BY <4>1 DEF UartType
      <4> HIDE DEF UartType
      <4> QED BY <2>2, <4>1, <4>2, <4>3, <4>4 DEF InOut
    <3>2. armed' \in BOOLEAN /\ mask' \subseteq Sources /\ irq' \in BOOLEAN
      BY <2>2 DEF InOut, TypeOK
    <3> QED
      BY <2>0, <2>2, <3>1, <3>2 DEF InOut, Completes, TypeOK
  <2>3. CASE SoftInt
    <3>1. CASE /\ Enter("soft", cpu, FALSE) /\ fault' = {} /\ shadow' = FALSE /\ Completes
              /\ UNCHANGED failed
      <4>1. "soft" \in Vectors /\ cpu \in CPU
        BY DEF Vectors, TypeOK
      <4>2. cpu' \in CPU /\ entered' \in Entries
        <5> HIDE DEF CPU, Entries, Vectors
        <5> QED BY <3>1, <4>1, EnterEffect
      <4>4. UNCHANGED <<dev, kind>>
        BY <2>3 DEF SoftInt
      <4> QED
        BY <2>0, <3>1, <4>2, <4>4 DEF Completes, dev, TypeOK
    <3>2. CASE EntryFaults(cpu, Fail \cup {"gate"}, {}) /\ UNCHANGED <<ran, shadow>>
      <4>1. Fail \cup {"gate"} \in SUBSET Stages /\ {} \in SUBSET Faults /\ cpu \in CPU
        BY IntAssumption DEF Stages, TypeOK
      <4>2. /\ cpu' \in CPU /\ fault' \in SUBSET Faults /\ entered' = NoEntry /\ pc' = "top"
            /\ failed' = TRUE
        <5> HIDE DEF CPU, Faults, Stages
        <5> QED BY <3>2, <4>1, EntryFaultsEffect
      <4> QED
        BY <2>0, <2>3, <3>2, <4>2 DEF SoftInt, dev, TypeOK
    <3> QED
      BY <2>3, <3>1, <3>2 DEF SoftInt
  <2>4. CASE Faulting
    <3>1. cpu' \in CPU /\ kind' \in Kinds
      BY <2>4 DEF Faulting, Torn, KindsOf
    <3>2. cpu' \in CPU /\ fault' \in SUBSET Faults
      BY <2>4, <3>1, IntAssumption DEF Faulting, Faults
    <3> QED
      BY <2>0, <2>4, <3>1, <3>2 DEF Faulting, dev, TypeOK
  <2>5. CASE ExecError
    BY <2>0, <2>5 DEF ExecError, dev, TypeOK
  <2> QED
    BY <1>3, <2>1, <2>2, <2>3, <2>4, <2>5 DEF Exec
<1>4. CASE Irq
  <2>0. UNCHANGED <<intflag, debug, ran, started, kind>> /\ shadow' = FALSE
    BY <1>4 DEF Irq
  <2>1. \/ Nothing /\ UNCHANGED <<timerflag, dev>>
        \/ (\E vec \in {"step", "breakpoint"} : Interrupt(vec)) /\ UNCHANGED <<timerflag, dev>>
        \/ External
    BY <1>4 DEF Irq
  <2>2. IrqType'
    <3>1. CASE Nothing /\ UNCHANGED <<timerflag, dev>>
      <4>1. /\ pc' \in {"top", "head", "exit"} /\ insts' \in 0..TxPeriod - 1
            /\ cpu' \in CPU /\ fault' \in SUBSET Faults
            /\ entered' \in {NoEntry} \cup Entries
            /\ failed' \in BOOLEAN
        BY <3>1, NothingType
      <4> QED
        BY <3>1, <4>1 DEF dev, IrqType, TypeOK
    <3>2. CASE (\E vec \in {"step", "breakpoint"} : Interrupt(vec)) /\ UNCHANGED <<timerflag, dev>>
      <4>0. {"step", "breakpoint"} \subseteq Vectors
        BY DEF Vectors
      <4>1. /\ pc' \in {"top", "head", "exit"} /\ insts' \in 0..TxPeriod - 1
            /\ cpu' \in CPU /\ fault' \in SUBSET Faults
            /\ entered' \in {NoEntry} \cup Entries
            /\ failed' \in BOOLEAN
        <5> HIDE DEF Vectors, Entries, CPU, Faults
        <5> QED BY <3>2, <4>0, InterruptType
      <4> QED
        BY <3>2, <4>1 DEF dev, IrqType, TypeOK
    <3>3. CASE External
      BY <3>3, ExternalType
    <3> QED
      BY <2>1, <3>1, <3>2, <3>3
  <2> QED
    BY <2>0, <2>2 DEF IrqType, TypeOK
<1>5. CASE Sigint
  BY <1>5 DEF Sigint, others, dev, TypeOK
<1>6. CASE Sigalrm
  BY <1>6 DEF Sigalrm, others, dev, TypeOK
<1>7. CASE Key
  <2>1. uart' \in UartType
    BY <1>7 DEF Key, TypeOK, UartType
  <2> QED
    BY <1>7, <2>1 DEF Key, TypeOK
<1>8. CASE UNCHANGED vars
  BY <1>8 DEF vars, dev, TypeOK
<1> QED
  BY <1>1, <1>2, <1>3, <1>4, <1>5, <1>6, <1>7, <1>8 DEF Next, Loop, Host
-----------------------------------------------------------------------------
(***************************************************************************)
(* Where a fault may be pending.                                           *)
(***************************************************************************)
\* Past the head of the loop no fault that has a handler is pending.
NonePending == pc \in {"head", "exec", "irq"} => fault \cap Handled = {}

IInv == TypeOK /\ OneFault /\ NonePending

\* What happens after an instruction: the loop goes on, perhaps with a handler
\* entered, or the entry of one has faulted.
LEMMA IrqOutcome ==
  ASSUME TypeOK, Irq
  PROVE  \/ /\ NextInst
            /\ entered' = NoEntry \/ entered'.vec \in Devices \cup {"step", "breakpoint"}
         \/ /\ entered' = NoEntry /\ pc' = "top" /\ failed' = TRUE
            /\ \E f \in Raised : fault' = fault \cup {f}
<1>1. cpu \in CPU /\ fault \in SUBSET Faults
  BY DEF TypeOK
<1>2. Nothing \/ \E vec \in Devices \cup {"step", "breakpoint"} : Interrupt(vec)
  BY DEF Irq, External, TimerInt, FdcInt, UartInt, RxPoll, Devices
<1>3. CASE Nothing
  BY <1>3 DEF Nothing
<1>4. CASE \E vec \in Devices \cup {"step", "breakpoint"} : Interrupt(vec)
  <2>1. PICK vec \in Devices \cup {"step", "breakpoint"} : Interrupt(vec)
    BY <1>4
  <2>2. vec \in Vectors
    BY DEF Vectors
  <2> HIDE DEF CPU, Faults, Vectors, Entries, NextInst
  <2> QED BY <1>1, <2>1, <2>2, InterruptEffect
<1> QED
  BY <1>2, <1>3, <1>4

\* What happens at the head of the loop with a pending fault: its handler is
\* entered, or the entry of the handler has faulted in its place.
LEMMA TopOutcome ==
  ASSUME TypeOK, Top
  PROVE  \/ /\ intflag \/ fault \cap Handled = {}
            /\ pc' = (IF intflag THEN "exit" ELSE "head")
            /\ UNCHANGED fault /\ entered' = NoEntry
         \/ /\ fault \cap Handled # {}
            /\ entered'.vec = Dispatched(fault) /\ entered'.from = Recovered(cpu)
            /\ entered'.again = ran
            /\ fault' = {} /\ pc' = "head"
         \/ /\ pc' = "top" /\ entered' = NoEntry
            /\ \E f \in Raised : fault' = {f}
<1>1. Recovered(cpu) \in CPU /\ ran \in BOOLEAN
  BY DEF Recovered, TypeOK, CPU
<1>2. Dispatched(fault) \in Vectors
  BY DispatchedHandled DEF Vectors
<1>3. Fail \in SUBSET Stages /\ {} \in SUBSET Faults
  BY IntAssumption
<1>4. CASE intflag \/ fault \cap Handled = {}
  BY <1>4 DEF Top
<1>5. CASE /\ Enter(Dispatched(fault), Recovered(cpu), ran) /\ fault' = {} /\ pc' = "head"
           /\ fault \cap Handled # {}
  <2> HIDE DEF CPU, Vectors, Entries, Handled
  <2> QED BY <1>1, <1>2, <1>5, EnterEffect
<1>6. CASE EntryFaults(Recovered(cpu), Fail, {})
  <2> HIDE DEF CPU, Faults, Stages
  <2>2. /\ pc' = "top" /\ entered' = NoEntry
        /\ \E f \in Raised : fault' = {} \cup {f}
    <3> HIDE DEF TypeOK, Top, Recovered, NoEntry
    <3> QED BY <1>1, <1>3, <1>6, EntryFaultsEffect
  <2>3. \E f \in Raised : fault' = {f}
    BY <2>2
  <2> QED BY <2>2, <2>3
<1> QED
  BY <1>4, <1>5, <1>6 DEF Top

\* What INT n does: its handler is entered, or the entry has faulted.
LEMMA SoftIntOutcome ==
  ASSUME TypeOK, SoftInt
  PROVE  \/ entered'.vec = "soft" /\ fault' = {} /\ Completes
         \/ /\ pc' = "top" /\ entered' = NoEntry
            /\ \E f \in Raised : fault' = {f}
<1>1. cpu \in CPU /\ "soft" \in Vectors /\ Fail \cup {"gate"} \in SUBSET Stages
      /\ {} \in SUBSET Faults
  BY IntAssumption DEF TypeOK, Vectors, Stages
<1>2. CASE Enter("soft", cpu, FALSE) /\ fault' = {} /\ Completes
  <2> HIDE DEF CPU, Vectors, Entries
  <2> QED BY <1>1, <1>2, EnterEffect
<1>3. CASE EntryFaults(cpu, Fail \cup {"gate"}, {})
  <2> HIDE DEF CPU, Faults, Stages
  <2>1. /\ pc' = "top" /\ entered' = NoEntry
        /\ \E f \in Raised : fault' = {} \cup {f}
    <3> HIDE DEF TypeOK, SoftInt, NoEntry
    <3> QED BY <1>1, <1>3, EntryFaultsEffect
  <2> QED BY <2>1
<1> QED
  BY <1>2, <1>3 DEF SoftInt

\* Every step keeps the invariant.
LEMMA IInvStep == IInv /\ [Next]_vars => IInv'
<1> SUFFICES ASSUME IInv, [Next]_vars PROVE IInv'
  OBVIOUS
<1>0. TypeOK /\ OneFault /\ NonePending /\ TypeOK'
  BY TypeStep DEF IInv
<1>1. Raised \subseteq Handled
  BY IntAssumption
<1> SUFFICES OneFault' /\ NonePending'
  BY <1>0 DEF IInv
<1>2. CASE Top
  BY <1>0, <1>1, <1>2, TopOutcome DEF OneFault, NonePending
<1>3. CASE LoopHead
  BY <1>0, <1>3 DEF LoopHead, OneFault, NonePending
<1>4. CASE Exec
  <2>1. CASE Plain
    <3>1. fault' \cap Handled = {}
      BY <2>1 DEF Plain, Handled
    <3> QED BY <3>1 DEF OneFault, NonePending
  <2>2. CASE InOut
    BY <2>2 DEF InOut, OneFault, NonePending
  <2>3. CASE SoftInt
    BY <1>0, <1>1, <2>3, SoftIntOutcome DEF OneFault, NonePending
  <2>4. CASE Faulting
    BY <1>1, <2>4 DEF Faulting, OneFault, NonePending
  <2>5. CASE ExecError
    BY <1>0, <2>5 DEF ExecError, OneFault, NonePending
  <2> QED BY <1>4, <2>1, <2>2, <2>3, <2>4, <2>5 DEF Exec
<1>5. CASE Irq
  <2>1. fault \cap Handled = {}
    BY <1>0, <1>5 DEF Irq, NonePending
  <2> QED BY <1>0, <1>1, <1>5, <2>1, IrqOutcome DEF NextInst, OneFault, NonePending
<1>6. CASE Sigint \/ Sigalrm \/ Key
  BY <1>0, <1>6 DEF Sigint, Sigalrm, Key, others, OneFault, NonePending
<1>7. CASE UNCHANGED vars
  BY <1>0, <1>7 DEF vars, OneFault, NonePending
<1> QED
  BY <1>2, <1>3, <1>4, <1>5, <1>6, <1>7 DEF Next, Loop, Host

\* The CPU is reset into the invariant.
LEMMA IInvInit == Init => IInv
<1> SUFFICES ASSUME Init PROVE IInv
  OBVIOUS
<1>1. Reset \in CPU
  BY DEF Reset, CPU
<1>2. uart \in UartType
  BY IntAssumption DEF Init, UartType
<1>3. 0 \in 0..TxPeriod - 1 /\ {} \subseteq Sources /\ {} \subseteq Faults
  BY IntAssumption
<1>4. TypeOK
  <2> HIDE DEF CPU, UartType, Entries, Faults
  <2> QED BY <1>1, <1>2, <1>3 DEF Init, TypeOK, Kinds
<1> QED
  BY <1>4 DEF Init, IInv, OneFault, NonePending

\* The invariant holds throughout.
THEOREM IInvInvariant == Spec => []IInv
BY IInvInit, IInvStep, PTL DEF Spec

\* Every variable of the loop keeps its type.
THEOREM TypeCorrect == Spec => []TypeOK
<1>1. IInv => TypeOK
  BY DEF IInv
<1> QED
  BY <1>1, IInvInvariant, PTL

\* Entering a handler never adds a second fault to the one it was entered for, so
\* the order of the dispatch decides nothing (mainloop32.c:181-204).
THEOREM OneFaultHolds == Spec => []OneFault
<1>1. IInv => OneFault
  BY DEF IInv
<1> QED
  BY <1>1, IInvInvariant, PTL

\* A fault that has a handler is dropped only by entering that handler, by another
\* fault raised on the way in, or not at all.
THEOREM NoSilentFaultHolds == Spec => NoSilentFault
<1>1. ASSUME IInv, [Next]_vars
      PROVE  [\A f \in fault \cap Handled :
                f \notin fault' => entered'.vec = f \/ fault' # {}]_vars
  <2>1. TypeOK /\ OneFault /\ NonePending
    BY <1>1 DEF IInv
  <2> SUFFICES ASSUME ~UNCHANGED vars, NEW f \in fault \cap Handled, f \notin fault'
               PROVE  entered'.vec = f \/ fault' # {}
    OBVIOUS
  <2>2. pc \in {"top", "exit"}
    BY <2>1 DEF TypeOK, NonePending
  <2>3. Top \/ Sigint \/ Sigalrm \/ Key
    BY <1>1, <2>2 DEF Next, Loop, Host, LoopHead, Exec, Irq
  <2>4. CASE Top
    <3>1. Dispatched(fault) = f
      BY <2>1 DEF OneFault, Dispatched, Handled
    <3> QED BY <2>1, <2>4, <3>1, TopOutcome
  <2>5. CASE Sigint \/ Sigalrm \/ Key
    BY <2>5 DEF Sigint, Sigalrm, Key, others
  <2> QED BY <2>3, <2>4, <2>5
<1> QED
  BY <1>1, IInvInvariant, PTL DEF Spec, NoSilentFault

\* The floppy controller's request outlives an entry that faults.
THEOREM FdcIrqKeptHolds == Spec => FdcIrqKept
<1>1. ASSUME IInv, [Next]_vars
      PROVE  [irq /\ ~irq' => entered'.vec = "fdc"]_vars
  <2>1. TypeOK /\ cpu \in CPU /\ fault \in SUBSET Faults
    BY <1>1 DEF IInv, TypeOK
  <2> SUFFICES ASSUME irq, ~irq' PROVE entered'.vec = "fdc"
    OBVIOUS
  <2>2. Irq
    BY <1>1 DEF Next, Loop, Host, Top, LoopHead, Exec, Plain, InOut, SoftInt, Faulting,
                ExecError, Sigint, Sigalrm, Key, others, dev, vars
  <2>3. FdcInt
    BY <2>2 DEF Irq, External, TimerInt, UartInt, RxPoll, dev
  <2>4. "fdc" \in Vectors /\ pc' # "top"
    BY <2>3 DEF FdcInt, Vectors, Devices
  <2> HIDE DEF CPU, Faults, Vectors, Entries, NextInst
  <2> QED BY <2>1, <2>3, <2>4, InterruptEffect DEF FdcInt
<1> QED
  BY <1>1, IInvInvariant, PTL DEF Spec, FdcIrqKept

\* A timer tick is not lost but to a debugger or to an entry that faults.
THEOREM TickAccountedHolds == Spec => TickAccounted
<1>1. ASSUME IInv, [Next]_vars
      PROVE  [timerflag /\ ~timerflag' =>
                entered'.vec = "timer" \/ debug \/ fault' # {}]_vars
  <2>1. TypeOK /\ cpu \in CPU /\ fault \in SUBSET Faults
    BY <1>1 DEF IInv, TypeOK
  <2> SUFFICES ASSUME timerflag, ~timerflag', ~debug
               PROVE  entered'.vec = "timer" \/ fault' # {}
    OBVIOUS
  <2>2. Irq
    BY <1>1 DEF Next, Loop, Host, Top, LoopHead, Exec, Sigint, Sigalrm, Key, others, vars
  <2>3. Interrupt("timer")
    BY <2>2 DEF Irq, External, TimerInt, FdcInt, UartInt, RxPoll
  <2>4. "timer" \in Vectors
    BY DEF Vectors, Devices
  <2> HIDE DEF CPU, Faults, Vectors, Entries, NextInst
  <2> QED BY <2>1, <2>3, <2>4, InterruptEffect
<1> QED
  BY <1>1, IInvInvariant, PTL DEF Spec, TickAccounted
-----------------------------------------------------------------------------
(***************************************************************************)
(* What the handler of a fault finds, and what it was that ended a run.    *)
(***************************************************************************)
\* The snapshot as a fault finds it.  An instruction begins with it; only one that
\* has completed is followed by the tests for interrupts; and what has changed by
\* the time a fault is dispatched is what Precise allows.
Snapshot ==
  /\ started.moved = FALSE
  /\ pc = "exec" => cpu = started /\ kind = "plain" /\ ~failed /\ ~ran
  /\ pc = "irq" => ran
  /\ pc = "top" /\ fault \cap Handled # {} => Precise(Recovered(cpu)) /\ (ran => failed)

\* At whatever stage an entry faults, it has cleared flags, lowered the CPL and
\* taken the inner stack, and no more.
LEMMA EntryLowers ==
  ASSUME TypeOK, NEW c \in CPU, Lowered(c),
         NEW stages \in SUBSET Stages, NEW pending, EntryFaults(c, stages, pending)
  PROVE  /\ cpu'.if => started.if
         /\ cpu'.tf => started.tf
         /\ cpu'.cpl \in {0, started.cpl}
         /\ kind = "plain" => cpu'.ss \in {0, started.ss}
<1>1. PICK stage \in stages, trap \in Trap : cpu' = Partial(c, stage, trap)
  BY DEF EntryFaults
<1>2. trap \in BOOLEAN /\ stage \in {"gate", "code", "tss", "stack", "push"}
  BY DEF Trap, Stages
<1>3. Gated(c, trap) = [c EXCEPT !.if = c.if /\ trap, !.tf = FALSE]
  BY DEF Gated
<1> DEFINE g == Gated(c, trap)
<1>4. /\ g \in CPU /\ (g.if => c.if) /\ ~g.tf
      /\ g.cpl = c.cpl /\ g.ss = c.ss
  BY <1>2, <1>3 DEF CPU
<1>5. cpu' \in {c, g, [g EXCEPT !.cpl = 0], [g EXCEPT !.cpl = 0, !.ss = 0],
                [g EXCEPT !.moved = TRUE],
                [g EXCEPT !.cpl = 0, !.ss = 0, !.sp = 0, !.moved = TRUE]}
  BY <1>1, <1>2 DEF Partial, Pushed
<1> HIDE DEF g
<1>6. /\ (cpu'.if => c.if) /\ (cpu'.tf => c.tf)
      /\ cpu'.cpl \in {0, c.cpl} /\ cpu'.ss \in {0, c.ss}
  BY <1>4, <1>5 DEF CPU
<1> QED
  BY <1>6 DEF Lowered

\* After an entry that faulted, ESP is put back, and the rest is as the entry left it.
LEMMA PreciseAfterEntry ==
  ASSUME TypeOK', UNCHANGED <<started, kind, ran>>, failed',
         \/ ran
         \/ kind \notin {"plain", "load"}
         \/ /\ cpu'.if => started.if
            /\ cpu'.tf => started.tf
            /\ cpu'.cpl \in {0, started.cpl}
            /\ kind = "plain" => cpu'.ss \in {0, started.ss}
  PROVE  Precise(Recovered(cpu))' /\ (ran' => failed')
<1>1. cpu' \in CPU
  BY DEF TypeOK
<1>2. Recovered(cpu)' = [cpu' EXCEPT !.sp = started.sp, !.moved = FALSE]
  BY DEF Recovered
<1> DEFINE c == Recovered(cpu)'
<1>3. /\ c.sp = started.sp /\ c.moved = FALSE
      /\ c.if = cpu'.if /\ c.tf = cpu'.tf /\ c.cpl = cpu'.cpl /\ c.ss = cpu'.ss
  BY <1>1, <1>2 DEF CPU
<1> HIDE DEF c
<1>4. ~ran' /\ kind' \in {"plain", "load"} => Lowered(Recovered(cpu))'
  BY <1>3 DEF Lowered, c
<1> QED
  BY <1>3, <1>4 DEF Precise, c

\* An instruction that faults has changed what its kind can have.
LEMMA PreciseAfterFault ==
  ASSUME TypeOK, Faulting, cpu = started, started.moved = FALSE, started' = started,
         ~failed
  PROVE  Precise(Recovered(cpu))'
<1>1. /\ cpu \in CPU /\ cpu' \in Torn(kind') /\ kind' \in KindsOf /\ failed' = failed
  BY DEF TypeOK, Faulting
<1>2. cpu' \in CPU /\ kind' \in {"plain", "load", "return", "far"}
  BY <1>1 DEF Torn, KindsOf, Kinds
<1>3. Recovered(cpu)' = [cpu' EXCEPT !.sp = started.sp, !.moved = FALSE]
  BY DEF Recovered
<1> DEFINE c == Recovered(cpu)'
<1>4. /\ c.sp = started.sp /\ c.moved = FALSE /\ c \in CPU
      /\ c.if = cpu'.if /\ c.tf = cpu'.tf /\ c.cpl = cpu'.cpl /\ c.ss = cpu'.ss
  BY <1>1, <1>2, <1>3 DEF CPU
<1>5. ASSUME kind' = "plain" PROVE c = started
  <2>1. cpu' = [started EXCEPT !.moved = cpu'.moved]
    BY <1>1, <1>5 DEF Torn
  <2> QED BY <1>1, <1>3, <2>1 DEF CPU
<1>6. ASSUME kind' = "load" PROVE c = [started EXCEPT !.ss = c.ss]
  <2>1. cpu' = [started EXCEPT !.moved = cpu'.moved, !.ss = cpu'.ss, !.sp = cpu'.sp]
    BY <1>1, <1>6 DEF Torn
  <2> QED BY <1>1, <1>3, <1>4, <2>1 DEF CPU
<1>7. ASSUME kind' = "return", c.cpl # 3 PROVE c.cpl = started.cpl /\ c.ss = started.ss
  BY <1>1, <1>4, <1>7 DEF Torn
<1> HIDE DEF c
<1> QED
  BY <1>1, <1>4, <1>5, <1>6, <1>7 DEF Precise, c

\* Every step keeps the snapshot.
LEMMA SnapshotStep ==
  ASSUME IInv, Snapshot, [Next]_vars
  PROVE  Snapshot'
<1>0. /\ TypeOK /\ TypeOK' /\ Fail \in SUBSET Stages
      /\ cpu \in CPU /\ started \in CPU /\ fault \in SUBSET Faults
  BY TypeStep, IntAssumption DEF IInv, TypeOK
<1>1. CASE Top
  <2>1. UNCHANGED <<started, kind, ran>>
    BY <1>1 DEF Top
  <2>2. CASE pc' # "top"
    <3>1. pc' \notin {"exec", "irq"}
      BY <1>0, <1>1, TopOutcome
    <3> QED BY <2>1, <2>2, <3>1 DEF Snapshot
  <2>3. CASE pc' = "top"
    <3>1. EntryFaults(Recovered(cpu), Fail, {}) /\ fault \cap Handled # {}
      BY <1>1, <2>3 DEF Top
    <3>2. failed' = TRUE
      BY <3>1 DEF EntryFaults
    <3>3. pc = "top"
      BY <1>1 DEF Top
    <3>4. Precise(Recovered(cpu)) /\ Recovered(cpu) \in CPU
      BY <1>0, <3>1, <3>3 DEF Snapshot, Recovered, CPU
    <3>5. ~ran /\ kind \in {"plain", "load"} => Lowered(Recovered(cpu))
      <4>1. CASE failed
        BY <3>4, <4>1 DEF Precise
      <4>2. CASE ~failed
        BY <1>0, <3>4, <4>2 DEF Precise, Lowered, CPU
      <4> QED BY <4>1, <4>2
    <3>6. ~ran /\ kind \in {"plain", "load"} =>
            /\ cpu'.if => started.if
            /\ cpu'.tf => started.tf
            /\ cpu'.cpl \in {0, started.cpl}
            /\ kind = "plain" => cpu'.ss \in {0, started.ss}
      <4> HIDE DEF Lowered, Recovered, CPU, Stages, TypeOK
      <4> QED BY <1>0, <3>1, <3>4, <3>5, EntryLowers
    <3>7. Precise(Recovered(cpu))' /\ (ran' => failed')
      BY <1>0, <2>1, <3>2, <3>6, PreciseAfterEntry
    <3> QED BY <2>1, <2>3, <3>7 DEF Snapshot
  <2> QED BY <2>2, <2>3
<1>2. CASE LoopHead
  <2>1. CASE pc' = "exec"
    <3>1. /\ cpu' = [cpu EXCEPT !.moved = FALSE] /\ started' = cpu'
          /\ kind' = "plain" /\ ~failed' /\ ~ran'
      BY <1>2, <2>1 DEF LoopHead
    <3>2. cpu'.moved = FALSE
      BY <1>0, <3>1 DEF CPU
    <3> QED BY <2>1, <3>1, <3>2 DEF Snapshot
  <2>2. CASE pc' = "exit" /\ UNCHANGED started
    BY <2>2 DEF Snapshot
  <2> QED BY <1>2, <2>1, <2>2 DEF LoopHead
<1>3. CASE Exec
  <2>0. /\ started' = started /\ cpu = started /\ started.moved = FALSE
        /\ kind = "plain" /\ ~failed /\ ~ran
    BY <1>3 DEF Exec, Snapshot
  <2>1. CASE pc' = "irq"
    <3>1. ran'
      BY <1>3, <2>1 DEF Exec, Plain, InOut, SoftInt, Faulting, ExecError, Completes, EntryFaults
    <3> QED BY <2>0, <2>1, <3>1 DEF Snapshot
  <2>2. CASE pc' = "exit"
    BY <2>0, <2>2 DEF Snapshot
  <2>3. CASE Faulting
    <3>1. Precise(Recovered(cpu))'
      BY <1>0, <2>0, <2>3, PreciseAfterFault
    <3>2. ~ran' /\ pc' = "top"
      BY <2>0, <2>3 DEF Faulting
    <3> QED BY <2>0, <3>1, <3>2 DEF Snapshot
  <2>4. CASE SoftInt /\ pc' = "top"
    <3>1. /\ EntryFaults(cpu, Fail \cup {"gate"}, {})
          /\ UNCHANGED <<started, kind, ran>> /\ failed' = TRUE
      BY <2>0, <2>4 DEF SoftInt, Completes, EntryFaults
    <3>2. Lowered(cpu) /\ Fail \cup {"gate"} \in SUBSET Stages
      BY <1>0, <2>0 DEF Lowered, CPU, Stages
    <3>3. /\ cpu'.if => started.if
          /\ cpu'.tf => started.tf
          /\ cpu'.cpl \in {0, started.cpl}
          /\ kind = "plain" => cpu'.ss \in {0, started.ss}
      <4> HIDE DEF Lowered, CPU, Stages, TypeOK
      <4> QED BY <1>0, <3>1, <3>2, EntryLowers
    <3>4. Precise(Recovered(cpu))' /\ (ran' => failed')
      BY <1>0, <3>1, <3>3, PreciseAfterEntry
    <3> QED BY <2>0, <2>4, <3>4 DEF Snapshot
  <2>5. \/ pc' \in {"irq", "exit"} \/ Faulting
        \/ SoftInt /\ pc' = "top"
    BY <1>3 DEF Exec, Plain, InOut, SoftInt, Faulting, ExecError, Completes, EntryFaults
  <2> QED BY <2>1, <2>2, <2>3, <2>4, <2>5
<1>4. CASE Irq
  <2>1. UNCHANGED <<started, kind, ran>> /\ ran
    BY <1>4 DEF Irq, Snapshot
  <2>2. CASE pc' = "top"
    <3>1. failed' = TRUE
      BY <1>0, <1>4, <2>2, IrqOutcome DEF NextInst
    <3>2. Precise(Recovered(cpu))' /\ (ran' => failed')
      BY <1>0, <2>1, <3>1, PreciseAfterEntry
    <3> QED BY <2>1, <2>2, <3>2 DEF Snapshot
  <2>3. CASE pc' # "top"
    <3>1. pc' \in {"head", "exit"}
      BY <1>0, <1>4, <2>3, IrqOutcome DEF NextInst
    <3> QED BY <2>1, <3>1 DEF Snapshot
  <2> QED BY <2>2, <2>3
<1>5. CASE Sigint \/ Sigalrm \/ Key
  <2>1. UNCHANGED <<pc, cpu, started, kind, failed, ran, fault>>
    BY <1>5 DEF Sigint, Sigalrm, Key, others
  <2> QED BY <2>1 DEF Snapshot, Precise, Lowered, Recovered
<1>6. CASE UNCHANGED vars
  BY <1>6 DEF vars, Snapshot, Precise, Lowered, Recovered
<1> QED
  BY <1>1, <1>2, <1>3, <1>4, <1>5, <1>6 DEF Next, Loop, Host

\* The snapshot is right from the reset on.
LEMMA SnapshotInvariant == Spec => [](IInv /\ Snapshot)
<1>1. Init => Snapshot
  BY DEF Init, Reset, Snapshot
<1>2. Snapshot /\ IInv /\ [Next]_vars => Snapshot'
  BY SnapshotStep
<1> QED
  BY <1>1, <1>2, IInvInvariant, PTL DEF Spec

\* The handler of a fault is entered by the head of the loop.
LEMMA HandlerEntered ==
  ASSUME IInv, Snapshot, [Next]_vars, ~UNCHANGED vars, entered'.vec \in Handled
  PROVE  /\ entered'.from = Recovered(cpu) /\ entered'.again = ran
         /\ Precise(Recovered(cpu)) /\ (ran => failed)
<1>1. TypeOK
  BY DEF IInv
<1>2. entered' # NoEntry /\ entered'.vec \notin Devices \cup {"soft", "step", "breakpoint"}
  BY DEF NoEntry, Handled, Devices
<1>3. CASE Top
  <2>1. /\ fault \cap Handled # {} /\ pc = "top"
        /\ entered'.from = Recovered(cpu) /\ entered'.again = ran
    BY <1>1, <1>2, <1>3, TopOutcome DEF Top
  <2> QED BY <2>1 DEF Snapshot
<1>4. CASE SoftInt
  BY <1>1, <1>2, <1>4, SoftIntOutcome
<1>5. CASE Irq
  BY <1>1, <1>2, <1>5, IrqOutcome
<1> QED
  BY <1>2, <1>3, <1>4, <1>5
  DEF Next, Loop, Host, LoopHead, Exec, Plain, InOut, Faulting, ExecError, Sigint, Sigalrm, Key

\* Whatever instruction faults and whichever entries fault after it, the handler of
\* the fault finds ESP where the instruction began, and of the rest changed only
\* what loads, returns and entries change before they fault (ExInst86.c:172-186).
THEOREM FaultIsPreciseHolds == Spec => FaultIsPrecise
<1>1. ASSUME IInv /\ Snapshot, [Next]_vars
      PROVE  [entered'.vec \in Handled => Precise(entered'.from)]_vars
  <2> SUFFICES ASSUME ~UNCHANGED vars, entered'.vec \in Handled
               PROVE  Precise(entered'.from)
    OBVIOUS
  <2> QED BY <1>1, HandlerEntered
<1> QED
  BY <1>1, SnapshotInvariant, PTL DEF Spec, FaultIsPrecise

\* The frame of a fault never names an instruction that has completed, unless the
\* entry of a trap or an interrupt after it has faulted (mainloop32.c:181-204 take
\* CS:EIP from the snapshot of the instruction, not from where it has got to).
THEOREM RestartSafeHolds == Spec => RestartSafe
<1>1. ASSUME IInv /\ Snapshot, [Next]_vars
      PROVE  [entered'.vec \in Handled /\ entered'.again => failed]_vars
  <2> SUFFICES ASSUME ~UNCHANGED vars, entered'.vec \in Handled, entered'.again
               PROVE  failed
    OBVIOUS
  <2> QED BY <1>1, HandlerEntered
<1> QED
  BY <1>1, SnapshotInvariant, PTL DEF Spec, RestartSafe

\* Between an instruction that changed SS and the end of the next one no handler
\* is entered but for a fault of that next one, whatever requests are pending
\* (mainloop32.c:290-296); SIGINT, SIGALRM and a key enter none.
THEOREM StackNotTornHolds == Spec => StackNotTorn
<1>1. ASSUME [Next]_vars
      PROVE  [pc = "irq" /\ shadow => entered'.vec = "none"]_vars
  <2> SUFFICES ASSUME ~UNCHANGED vars, pc = "irq", shadow
               PROVE  entered' = NoEntry
    BY DEF NoEntry
  <2>1. CASE Irq
    BY <2>1 DEF Irq, Nothing
  <2>2. CASE Sigint \/ Sigalrm \/ Key
    BY <2>2 DEF Sigint, Sigalrm, Key
  <2> QED
    BY <1>1, <2>1, <2>2 DEF Next, Loop, Host, Top, LoopHead, Exec
<1> QED
  BY <1>1, PTL DEF Spec, StackNotTorn

\* Only SIGINT has ended the loop, and no fault is left for its last check.
Requested ==
  /\ pc = "exit" => intflag
  /\ pc = "irq" => fault = {}

\* If the guest neither stops the run nor executes what raises a fault without a
\* handler, then no storm of faults and interrupts ends it.
THEOREM StopsOnlyOnRequestHolds ==
  ASSUME Guest \cap {"stop", "unknown"} = {}
  PROVE  Spec => []StopsOnlyOnRequest
<1>1. Init => Requested
  BY DEF Init, Requested
<1>2. ASSUME IInv, Requested, [Next]_vars
      PROVE  Requested'
  <2>1. TypeOK
    BY <1>2 DEF IInv
  <2>2. CASE Top
    BY <2>1, <2>2, TopOutcome DEF Top, Requested
  <2>3. CASE LoopHead
    BY <1>2, <2>3 DEF LoopHead, Requested
  <2>4. CASE Exec
    <3>1. CASE SoftInt
      <4>1. pc' = "top" \/ (pc' = "irq" /\ fault' = {})
        BY <2>1, <3>1, SoftIntOutcome DEF Completes
      <4> QED BY <4>1 DEF Requested
    <3>2. CASE Plain \/ InOut \/ Faulting
      BY <3>2 DEF Plain, InOut, Faulting, Completes, Requested
    <3> QED BY <2>4, <3>1, <3>2 DEF Exec, ExecError
  <2>5. CASE Irq
    <3>1. fault = {}
      BY <1>2, <2>5 DEF Irq, Requested
    <3>2. pc' \in {"top", "head"}
      BY <2>1, <2>5, <3>1, IrqOutcome DEF NextInst
    <3> QED BY <3>2 DEF Requested
  <2>6. CASE Sigint \/ Sigalrm \/ Key
    BY <1>2, <2>6 DEF Sigint, Sigalrm, Key, others, Requested
  <2>7. CASE UNCHANGED vars
    BY <1>2, <2>7 DEF vars, Requested
  <2> QED
    BY <1>2, <2>2, <2>3, <2>4, <2>5, <2>6, <2>7 DEF Next, Loop, Host
<1>3. Requested => StopsOnlyOnRequest
  BY DEF Requested, StopsOnlyOnRequest
<1> QED
  BY <1>1, <1>2, <1>3, IInvInvariant, PTL DEF Spec

-----------------------------------------------------------------------------
(***************************************************************************)
(* Bytes and words.                                                        *)
(***************************************************************************)
\* A word is its two halves.
LEMMA Halves ==
  ASSUME NEW n \in Nat
  PROVE  n % Base \in Nat /\ n \div Base \in Nat /\ (n % Base) + (Base * (n \div Base)) = n
<1>1. Base \in Nat \ {0}
  BY TimerAssumption
<1>2. \A k \in Nat \ {0} : /\ n % k \in Nat /\ n \div k \in Nat
                           /\ (n % k) + (k * (n \div k)) = n
  OBVIOUS
<1> QED
  BY <1>1, <1>2

\* A byte is the lower half of a word that has no upper one.
LEMMA LowHalf ==
  ASSUME NEW b \in Bytes
  PROVE  b \in Nat /\ b % Base = b /\ b \div Base = 0
<1>1. Base \in Nat \ {0} /\ b \in 0 .. Base - 1
  BY TimerAssumption, Loop16Assumption
<1>2. \A k \in Nat \ {0} : \A x \in 0 .. k - 1 : x % k = x /\ x \div k = 0
  OBVIOUS
<1> QED
  BY <1>1, <1>2

\* The second half of a count that is being written.
LEMMA OrNothing ==
  ASSUME NEW b \in Bytes
  PROVE  ByteOr[0, b] = b
BY TimerAssumption, Loop16Assumption

\* Bytes and words start with 0.
LEMMA WordsAre ==
  /\ Base * Base \in Nat
  /\ 0 \in Bytes /\ 0 \in Words /\ \A w \in Words : w \in Nat
<1>1. Base \in Nat /\ Base > 1
  <2>1. Base \in Nat \ {0, 1}
    BY TimerAssumption
  <2> QED BY <2>1
<1> DEFINE sq == Base * Base
<1>2. sq \in Nat /\ sq > 0
  BY <1>1
<1>3. Bytes = 0 .. Base - 1 /\ Words = 0 .. sq - 1
  BY Loop16Assumption DEF Words
<1> HIDE DEF sq
<1>4. 0 \in 0 .. Base - 1 /\ 0 \in 0 .. sq - 1 /\ \A w \in 0 .. sq - 1 : w \in Nat
  BY <1>1, <1>2
<1> QED
  BY <1>2, <1>3, <1>4 DEF sq

\* A word has two bytes.
LEMMA WordOfBytes ==
  ASSUME NEW lo \in Bytes, NEW hi \in Bytes
  PROVE  lo \in Words /\ hi * Base \in Words /\ lo + (hi * Base) \in Words
<1>1. /\ Base \in Nat /\ Base > 1
      /\ lo \in Nat /\ lo <= Base - 1 /\ hi \in Nat /\ hi <= Base - 1
  <2>1. Base \in Nat \ {0, 1}
    BY TimerAssumption
  <2>2. lo \in 0 .. Base - 1 /\ hi \in 0 .. Base - 1
    BY Loop16Assumption
  <2> QED BY <2>1, <2>2
<1>2. hi * Base \in Nat /\ hi * Base <= (Base - 1) * Base
  BY <1>1
<1>3. (Base - 1) * Base = (Base * Base) - Base /\ Base * Base \in Nat
  BY <1>1
<1> DEFINE sq == Base * Base
           up == hi * Base
<1>4. sq \in Nat /\ up \in Nat /\ up <= sq - Base
  BY <1>2, <1>3
<1>5. Words = 0 .. sq - 1
  BY DEF Words
<1> HIDE DEF sq, up
<1>6. lo \in 0 .. sq - 1 /\ up \in 0 .. sq - 1 /\ lo + up \in 0 .. sq - 1
  BY <1>1, <1>4
<1> QED
  BY <1>5, <1>6 DEF up

\* What the counter that does not count gives next.
LEMMA DummyWord ==
  ASSUME NEW t \in Timers
  PROVE  t.dummy_counter \in Words /\ Dummy(t) \in Words
<1>1. Base * Base \in Nat
  BY WordsAre
<1>2. \A n \in Nat : \A x \in 0 .. n - 1 : x # 0 => x - 1 \in 0 .. n - 1
  OBVIOUS
<1>3. \A x \in Words : x # 0 => x - 1 \in Words
  BY <1>1, <1>2 DEF Words
<1>4. t.dummy_counter \in Words /\ t.counter \in Words
  BY DEF Timers
<1>5. t.dummy_counter = 0 /\ t.counter = 0 => Dummy(t) = t.dummy_counter
  BY DEF Dummy
<1> QED
  BY <1>3, <1>4, <1>5 DEF Dummy

-----------------------------------------------------------------------------
(***************************************************************************)
(* What a write does to a channel.                                         *)
(***************************************************************************)
\* What a channel's registers hold.
Holds(u, rw, rwCount, counter, counter_shadow) ==
    /\ u \in Timers
    /\ u.rw = rw /\ u.rwCount = rwCount
    /\ u.counter = counter /\ u.counter_shadow = counter_shadow

LEMMA ModeWritten ==
  ASSUME NEW t \in Timers, NEW rw \in {1, 2, 3}, NEW u, u = writeControl(t, rw)
  PROVE  Holds(u, rw, 0, t.counter, t.counter_shadow)
<1> DEFINE v == [t EXCEPT !.rw = rw]
<1>1. Holds(v, rw, t.rwCount, t.counter, t.counter_shadow)
  BY DEF Holds, Timers
<1>2. u = [v EXCEPT !.rwCount = 0]
  BY DEF writeControl
<1> HIDE DEF v
<1> QED
  BY <1>1, <1>2 DEF Holds, Timers

LEMMA CountLatched ==
  ASSUME NEW t \in Timers, NEW u, u = writeControl(t, 0)
  PROVE  Holds(u, 0, 0, t.counter, t.dummy_counter)
<1> DEFINE v == [t EXCEPT !.rw = 0]
           w == [v EXCEPT !.rwCount = 0]
           x == [w EXCEPT !.counter_shadow = t.dummy_counter]
<1>1. t.dummy_counter \in Words /\ Dummy(t) \in Words
  BY DummyWord
<1>2. Holds(v, 0, t.rwCount, t.counter, t.counter_shadow)
  BY DEF Holds, Timers
<1>3. u = [x EXCEPT !.dummy_counter = Dummy(t)]
  BY DEF writeControl
<1> HIDE DEF v
<1>4. Holds(w, 0, 0, t.counter, t.counter_shadow)
  BY <1>2 DEF Holds, Timers
<1> HIDE DEF w
<1>5. Holds(x, 0, 0, t.counter, t.dummy_counter)
  BY <1>1, <1>4 DEF Holds, Timers
<1> HIDE DEF x
<1> QED
  BY <1>1, <1>3, <1>5 DEF Holds, Timers

LEMMA FirstHalfWritten ==
  ASSUME NEW t \in Timers, t.rw = 3, t.rwCount = 0, NEW b \in Bytes, NEW u,
         u = writeCounter(t, b)
  PROVE  Holds(u, 3, 1, t.counter, b)
<1> DEFINE v == [t EXCEPT !.counter_shadow = b]
<1>1. Holds(v, 3, 0, t.counter, b)
  BY WordOfBytes DEF Holds, Timers
<1>2. u = [v EXCEPT !.rwCount = 1]
  BY DEF writeCounter
<1> HIDE DEF v
<1> QED
  BY <1>1, <1>2 DEF Holds, Timers

LEMMA SecondHalfWritten ==
  ASSUME NEW t \in Timers, t.rw = 3, t.rwCount = 1, NEW lo \in Bytes, NEW hi \in Bytes,
         t.counter_shadow = lo, NEW u, u = writeCounter(t, hi)
  PROVE  Holds(u, 3, 0, lo + (hi * Base), lo + (hi * Base))
<1> DEFINE w == (t.counter_shadow % Base) + (ByteOr[t.counter_shadow \div Base, hi] * Base)
           v == [t EXCEPT !.counter_shadow = w]
           x == [v EXCEPT !.counter = w]
<1>1. w = lo + (hi * Base)
  BY LowHalf, OrNothing
<1>2. lo + (hi * Base) \in Words
  BY WordOfBytes
<1>3. u = [x EXCEPT !.rwCount = 0]
  BY DEF writeCounter
<1> HIDE DEF w
<1>4. w \in Words
  BY <1>1, <1>2
<1>5. Holds(v, 3, 1, t.counter, w)
  BY <1>4 DEF Holds, Timers
<1> HIDE DEF v
<1>6. Holds(x, 3, 1, w, w)
  BY <1>4, <1>5 DEF Holds, Timers
<1> HIDE DEF x
<1>7. Holds(u, 3, 0, w, w)
  BY <1>3, <1>6 DEF Holds, Timers
<1> QED
  BY <1>1, <1>7

LEMMA ByteWritten ==
  ASSUME NEW t \in Timers, NEW rw \in {1, 2}, t.rw = rw, NEW b \in Bytes, NEW u,
         u = writeCounter(t, b)
  PROVE  /\ u \in Timers
         /\ u.counter = IF rw = 1 THEN b ELSE b * Base
<1> DEFINE w == IF rw = 1 THEN b ELSE b * Base
           v == [t EXCEPT !.counter = w]
<1>1. w \in Words
  BY WordOfBytes
<1>2. u = [v EXCEPT !.counter_shadow = w]
  <2>1. CASE rw = 1
    BY <2>1 DEF writeCounter
  <2>2. CASE rw = 2
    BY <2>2 DEF writeCounter
  <2> QED BY <2>1, <2>2
<1>3. w = IF rw = 1 THEN b ELSE b * Base
  OBVIOUS
<1> HIDE DEF w
<1>4. Holds(v, rw, t.rwCount, w, t.counter_shadow)
  BY <1>1 DEF Holds, Timers
<1> HIDE DEF v
<1>5. Holds(u, rw, t.rwCount, w, w)
  BY <1>1, <1>2, <1>4 DEF Holds, Timers
<1> QED
  BY <1>3, <1>5 DEF Holds

-----------------------------------------------------------------------------
(***************************************************************************)
(* The inductive invariant: how far the dialogue has come.                 *)
(***************************************************************************)
Controls == {"icw1", "icw1+4"}
Flags16 == [if : BOOLEAN, tf : BOOLEAN]

Types16 ==
    /\ pic \in PICs
    /\ timer \in Timers
    /\ wants \in [mask : Bytes, base : Bytes, count : Words]
    /\ flags \in Flags16
    /\ frames \in Seq(Flags16)
    /\ latched \in Words

\* Nobody interrupts a dialogue: neither the guest nor a handler that it
\* returns from has interrupts enabled.
Undisturbed ==
    dialogue # << >> => ~flags.if /\ \A i \in 1 .. Len(frames) : ~frames[i].if

PicSettled == pic.acc_idx = 0 /\ pic.ocw1 = wants.mask /\ pic.icw2 = wants.base
TimerSettled == timer.counter = wants.count

Idle ==
    /\ dialogue = << >>
    /\ PicSettled /\ TimerSettled
    /\ bytes # << >> => bytes[1] + (Base * bytes[2]) = latched

\* The initialisation words of the controller that are still to be written.
BaseWords(k, x) ==
    \/ /\ dialogue = IF k = "icw1+4"
                     THEN <<Access("command", k), OutPIC(wants.base), OutPIC(x), OutPIC(x)>>
                     ELSE <<Access("command", k), OutPIC(wants.base), OutPIC(x)>>
    \/ /\ pic.acc_idx = 2 /\ pic.icw1 = k
       /\ dialogue = IF k = "icw1+4" THEN <<OutPIC(wants.base), OutPIC(x), OutPIC(x)>>
                     ELSE <<OutPIC(wants.base), OutPIC(x)>>
    \/ /\ pic.acc_idx = 3 /\ pic.icw1 = k /\ pic.icw2 = wants.base
       /\ dialogue = IF k = "icw1+4" THEN <<OutPIC(x), OutPIC(x)>> ELSE <<OutPIC(x)>>
    \/ /\ pic.acc_idx = 4 /\ pic.icw2 = wants.base
       /\ dialogue = <<OutPIC(x)>>

InBase ==
    /\ TimerSettled /\ bytes = << >> /\ pic.ocw1 = wants.mask
    /\ \E k \in Controls, x \in Bytes : BaseWords(k, x)

InMask ==
    /\ TimerSettled /\ bytes = << >>
    /\ pic.acc_idx = 0 /\ pic.icw2 = wants.base
    /\ dialogue = <<OutPIC(wants.mask)>>

CountBytes(lo, hi) ==
    /\ wants.count = lo + (hi * Base)
    /\ \/ dialogue = <<Access("control", 3), OutTimer(lo), OutTimer(hi)>>
       \/ timer.rw = 3 /\ timer.rwCount = 0 /\ dialogue = <<OutTimer(lo), OutTimer(hi)>>
       \/ /\ timer.rw = 3 /\ timer.rwCount = 1 /\ timer.counter_shadow = lo
          /\ dialogue = <<OutTimer(hi)>>

InCount == PicSettled /\ bytes = << >> /\ \E lo, hi \in Bytes : CountBytes(lo, hi)

OneByte(rw, b) ==
    /\ wants.count = IF rw = 1 THEN b ELSE b * Base
    /\ \/ dialogue = <<Access("control", rw), OutTimer(b)>>
       \/ timer.rw = rw /\ dialogue = <<OutTimer(b)>>

InByte == PicSettled /\ bytes = << >> /\ \E rw \in {1, 2}, b \in Bytes : OneByte(rw, b)

\* A count that has been latched and is read.
InLatch ==
    /\ PicSettled /\ TimerSettled
    /\ \/ bytes = << >> /\ dialogue = <<Access("control", 0), Read, Read>>
       \/ /\ timer.rw = 0 /\ timer.rwCount = 0 /\ timer.counter_shadow = latched
          /\ bytes = << >> /\ dialogue = <<Read, Read>>
       \/ /\ timer.rw = 0 /\ timer.rwCount = 1 /\ timer.counter_shadow = latched
          /\ bytes = <<latched % Base>> /\ dialogue = <<Read>>

Stage == Idle \/ InBase \/ InMask \/ InCount \/ InByte \/ InLatch

\* The timer's handler is entered only where the guest lets it.
Ticks == handler.of = "timer" => wants.mask % 2 = 0 /\ wants.count # 0 /\ handler.base = wants.base

Inv16 == Types16 /\ Undisturbed /\ Stage /\ Ticks

LEMMA Inv16Init == Init16 => Inv16
<1> SUFFICES ASSUME Init16 PROVE Inv16
  OBVIOUS
<1>1. 0 \in Bytes /\ 0 \in Words
  BY WordsAre
<1>2. Types16
  BY <1>1 DEF Init16, Types16, PICs, ResetPIC, ResetTimer, Timers, Flags16
<1>3. Idle
  BY DEF Init16, Idle, PicSettled, TimerSettled, ResetPIC, ResetTimer
<1> QED
  BY <1>2, <1>3 DEF Init16, Inv16, Undisturbed, Stage, Ticks, None16

\* Every other stage still has an access to make.
LEMMA Inv16Idle == Inv16 /\ dialogue = << >> => Idle
BY DEF Inv16, Stage, InBase, BaseWords, InMask, InCount, CountBytes, InByte, OneByte, InLatch

LEMMA Inv16Programmed == Inv16 => Programmed
BY Inv16Idle DEF Inv16, Ticks, Programmed, Idle, PicSettled, TimerSettled

-----------------------------------------------------------------------------
(***************************************************************************)
(* Steps that leave the dialogue where it is.                              *)
(***************************************************************************)
progress == <<pic, timer, wants, dialogue, bytes, latched>>

LEMMA StageKept == Stage /\ UNCHANGED progress => Stage'
BY DEF Stage, progress, Idle, PicSettled, TimerSettled, InBase, BaseWords, InMask, InCount,
       CountBytes, InByte, OneByte, InLatch

\* What is left of Inv16 to show when only flags, frames and handler may change.
LEMMA ProgressKept ==
  ASSUME Inv16, UNCHANGED progress, flags' \in Flags16, frames' \in Seq(Flags16),
         Undisturbed', Ticks'
  PROVE  Inv16'
<1>1. Stage'
  BY StageKept DEF Inv16
<1>2. Types16'
  BY DEF Inv16, Types16, progress
<1> QED
  BY <1>1, <1>2 DEF Inv16

\* Entering a handler disables interrupts.
LEMMA EnterKept ==
  ASSUME Inv16, NEW of, NEW base, EnterINT16(of, base), dialogue' = dialogue,
         dialogue = << >> \/ ~flags.if
  PROVE  flags' \in Flags16 /\ frames' \in Seq(Flags16) /\ Undisturbed'
<1>1. flags' = [if |-> FALSE, tf |-> FALSE] /\ frames' = Append(frames, flags)
  BY DEF EnterINT16
<1>2. flags \in Flags16 /\ frames \in Seq(Flags16)
  BY DEF Inv16, Types16
<1>3. frames' \in Seq(Flags16)
  BY <1>1, <1>2
<1>4. \A i \in 1 .. Len(frames') : frames'[i] = IF i = Len(frames) + 1 THEN flags ELSE frames[i]
  BY <1>1, <1>2
<1>5. Len(frames') = Len(frames) + 1 /\ Len(frames) \in Nat
  BY <1>1, <1>2
<1>6. Undisturbed'
  BY <1>1, <1>4, <1>5 DEF Inv16, Undisturbed
<1> QED
  BY <1>1, <1>3, <1>6 DEF Flags16

LEMMA HeadKept == Inv16 /\ (Head16 \/ Monitor16 \/ Host16 \/ Stop16) => Inv16'
<1> SUFFICES ASSUME Inv16, Head16 \/ Monitor16 \/ Host16 \/ Stop16 PROVE Inv16'
  OBVIOUS
<1>1. UNCHANGED progress /\ UNCHANGED <<flags, frames>>
  BY DEF Head16, Monitor16, Host16, Stop16, Sigint16, Sigalrm16, Second16, devices, guest16, progress
<1>2. handler' = handler \/ handler' = None16
  BY DEF Head16, Monitor16, Host16, Stop16
<1>3. Ticks'
  BY <1>1, <1>2 DEF Inv16, Ticks, None16, progress
<1>4. Undisturbed'
  BY <1>1 DEF Inv16, Undisturbed, progress
<1> QED
  BY <1>1, <1>3, <1>4, ProgressKept DEF Inv16, Types16

LEMMA PlainKept == Inv16 /\ Plain16 => Inv16'
<1> SUFFICES ASSUME Inv16, Plain16 PROVE Inv16'
  OBVIOUS
<1>1. UNCHANGED progress /\ frames' = frames
  BY DEF Plain16, Done16, devices, guest16, progress
<1>2. flags' \in Flags16 /\ (flags'.if => dialogue = << >>)
  BY DEF Plain16, Flags16
<1>3. Ticks'
  BY DEF Plain16, Ticks, None16
<1>4. Undisturbed'
  BY <1>1, <1>2 DEF Inv16, Undisturbed, progress
<1> QED
  BY <1>1, <1>2, <1>3, <1>4, ProgressKept DEF Inv16, Types16

LEMMA SoftIntKept == Inv16 /\ SoftInt16 => Inv16'
<1> SUFFICES ASSUME Inv16, SoftInt16 PROVE Inv16'
  OBVIOUS
<1>1. UNCHANGED progress
  BY DEF SoftInt16, Done16, devices, progress
<1>2. flags' \in Flags16 /\ frames' \in Seq(Flags16) /\ Undisturbed'
  BY <1>1, EnterKept DEF SoftInt16, progress
<1>3. Ticks'
  BY DEF SoftInt16, EnterINT16, Ticks
<1> QED
  BY <1>1, <1>2, <1>3, ProgressKept

\* What a return leaves of the handlers' frames.
LEMMA Returned ==
  ASSUME NEW S, NEW s \in Seq(S), NEW t, t = SubSeq(s, 1, Len(s) - 1), Len(s) \in Nat \ {0}
  PROVE  /\ t \in Seq(S) /\ Len(t) = Len(s) - 1
         /\ \A i \in 1 .. Len(t) : t[i] = s[i]
<1>1. \A i \in 1 .. Len(s) : s[i] \in S
  OBVIOUS
<1> DEFINE n == Len(s) - 1
<1>2. n \in Nat /\ n < Len(s)
  OBVIOUS
<1>3. t = SubSeq(s, 1, n)
  OBVIOUS
<1> HIDE DEF n
<1>4. t = [i \in 1 .. n |-> s[i]]
  BY <1>2, <1>3
<1>5. \A i \in 1 .. n : s[i] \in S
  BY <1>1, <1>2
<1>6. t \in Seq(S) /\ Len(t) = n
  BY <1>2, <1>4, <1>5
<1> QED
  BY <1>4, <1>6 DEF n

\* A handler that returns restores flags that disturb no dialogue.
LEMMA IretKept == Inv16 /\ Iret16 => Inv16'
<1> SUFFICES ASSUME Inv16, Iret16 PROVE Inv16'
  OBVIOUS
<1>1. UNCHANGED progress
  BY DEF Iret16, Done16, devices, progress
<1>2. frames \in Seq(Flags16) /\ frames # << >>
  BY DEF Inv16, Types16, Iret16, InHandler16
<1>3. Len(frames) \in Nat \ {0}
  BY <1>2
<1>4. flags' = frames[Len(frames)] /\ frames' = SubSeq(frames, 1, Len(frames) - 1)
  BY DEF Iret16
<1>5. flags' \in Flags16
  BY <1>2, <1>3, <1>4
<1>6. /\ frames' \in Seq(Flags16) /\ Len(frames') = Len(frames) - 1
      /\ \A i \in 1 .. Len(frames') : frames'[i] = frames[i]
  BY <1>2, <1>3, <1>4, Returned
<1>7. Undisturbed'
  BY <1>1, <1>3, <1>4, <1>6 DEF Inv16, Undisturbed, progress
<1>8. Ticks'
  BY DEF Iret16, Ticks, None16
<1> QED
  BY <1>1, <1>5, <1>6, <1>7, <1>8, ProgressKept

\* Outside a dialogue an EOI leaves the controller as it is.
LEMMA EoiKept == Inv16 /\ Eoi16 => Inv16'
<1> SUFFICES ASSUME Inv16, Eoi16 PROVE Inv16'
  OBVIOUS
<1>1. dialogue = << >> /\ pic.acc_idx = 0 /\ pic \in PICs
  BY Inv16Idle DEF Inv16, Types16, Eoi16, Idle, PicSettled
<1>2. pic' = [pic EXCEPT !.acc_idx = 0]
  BY DEF Eoi16, writePICCommand
<1>3. pic' = pic
  BY <1>1, <1>2 DEF PICs
<1>4. UNCHANGED progress /\ UNCHANGED <<flags, frames>>
  BY <1>3 DEF Eoi16, guest16, progress
<1>5. Ticks'
  BY DEF Eoi16, Ticks, None16
<1>6. Undisturbed'
  BY <1>4 DEF Inv16, Undisturbed, progress
<1> QED
  BY <1>4, <1>5, <1>6, ProgressKept DEF Inv16, Types16

\* Behind an instruction the timer's handler is entered only with interrupts
\* enabled, so outside any dialogue.
LEMMA IrqKept == Inv16 /\ Irq16 => Inv16'
<1> SUFFICES ASSUME Inv16, Irq16 PROVE Inv16'
  OBVIOUS
<1>1. UNCHANGED <<pic, timer, wants, dialogue>>
  BY DEF Irq16
<1>2. bytes' = (IF dialogue = << >> THEN << >> ELSE bytes)
      /\ latched' = (IF dialogue = << >> THEN 0 ELSE latched)
  BY DEF Irq16
<1>3. \/ Quiet16
      \/ EnterINT16("step", 0) /\ flags.tf
      \/ EnterINT16("timer", pic.icw2) /\ TimerOpen16 /\ flags.if
  BY DEF Irq16, External16
<1>4. flags' \in Flags16 /\ frames' \in Seq(Flags16) /\ Undisturbed'
  <2>1. CASE Quiet16
    BY <1>1, <2>1 DEF Inv16, Types16, Undisturbed, Quiet16
  <2>2. CASE ~Quiet16
    <3>1. dialogue = << >> \/ ~flags.if
      BY DEF Inv16, Undisturbed
    <3> QED BY <1>1, <1>3, <2>2, <3>1, EnterKept
  <2> QED BY <2>1, <2>2
<1>5. Ticks'
  <2>1. CASE EnterINT16("timer", pic.icw2) /\ TimerOpen16 /\ flags.if
    <3>1. Idle
      BY <2>1, Inv16Idle DEF Inv16, Undisturbed
    <3> QED BY <1>1, <2>1, <3>1 DEF Ticks, Idle, PicSettled, TimerSettled, TimerOpen16, EnterINT16
  <2>2. CASE EnterINT16("step", 0)
    BY <2>2 DEF EnterINT16, Ticks
  <2>3. CASE Quiet16
    BY <2>3 DEF Quiet16, None16, Ticks
  <2> QED BY <1>3, <2>1, <2>2, <2>3
<1>6. CASE dialogue = << >>
  <2>1. Idle'
    BY <1>1, <1>2, <1>6, Inv16Idle DEF Idle, PicSettled, TimerSettled
  <2>2. Types16'
    BY <1>1, <1>2, <1>4, <1>6, WordsAre DEF Inv16, Types16
  <2> QED BY <1>4, <1>5, <2>1, <2>2 DEF Inv16, Stage
<1>7. CASE dialogue # << >>
  BY <1>1, <1>2, <1>4, <1>5, <1>7, ProgressKept DEF progress
<1> QED
  BY <1>6, <1>7

-----------------------------------------------------------------------------
(***************************************************************************)
(* The guest begins a dialogue.                                            *)
(***************************************************************************)
LEMMA BeginBase ==
  ASSUME Inv16, Idle, NEW b \in Bytes, NEW x \in Bytes, NEW k \in Controls, SetBase(b, x, k),
         bytes' = << >>, UNCHANGED <<pic, timer>>
  PROVE  wants' \in [mask : Bytes, base : Bytes, count : Words] /\ InBase'
<1>1. wants' = [wants EXCEPT !.base = b] /\ wants \in [mask : Bytes, base : Bytes, count : Words]
  BY DEF SetBase, Inv16, Types16
<1>2. /\ wants' \in [mask : Bytes, base : Bytes, count : Words]
      /\ wants'.mask = wants.mask /\ wants'.base = b /\ wants'.count = wants.count
  BY <1>1
<1>3. dialogue' = IF k = "icw1+4"
                  THEN <<Access("command", k), OutPIC(b), OutPIC(x), OutPIC(x)>>
                  ELSE <<Access("command", k), OutPIC(b), OutPIC(x)>>
  BY DEF SetBase
<1>4. BaseWords(k, x)'
  BY <1>2, <1>3 DEF BaseWords
<1> QED
  BY <1>2, <1>4 DEF InBase, Idle, PicSettled, TimerSettled

LEMMA BeginMask ==
  ASSUME Inv16, Idle, NEW m \in Bytes, SetMask(m), bytes' = << >>, UNCHANGED <<pic, timer>>
  PROVE  wants' \in [mask : Bytes, base : Bytes, count : Words] /\ InMask'
<1>1. wants' = [wants EXCEPT !.mask = m] /\ wants \in [mask : Bytes, base : Bytes, count : Words]
  BY DEF SetMask, Inv16, Types16
<1>2. /\ wants' \in [mask : Bytes, base : Bytes, count : Words]
      /\ wants'.mask = m /\ wants'.base = wants.base /\ wants'.count = wants.count
  BY <1>1
<1> QED
  BY <1>2 DEF SetMask, InMask, Idle, PicSettled, TimerSettled

LEMMA BeginCount ==
  ASSUME Inv16, Idle, NEW lo \in Bytes, NEW hi \in Bytes, SetCount(lo, hi), bytes' = << >>,
         UNCHANGED <<pic, timer>>
  PROVE  wants' \in [mask : Bytes, base : Bytes, count : Words] /\ InCount'
<1> DEFINE w == lo + (hi * Base)
<1>1. w \in Words
  BY WordOfBytes
<1>2. wants' = [wants EXCEPT !.count = w] /\ wants \in [mask : Bytes, base : Bytes, count : Words]
  BY DEF SetCount, Inv16, Types16
<1>3. w = lo + (hi * Base)
  OBVIOUS
<1> HIDE DEF w
<1>4. /\ wants' \in [mask : Bytes, base : Bytes, count : Words]
      /\ wants'.mask = wants.mask /\ wants'.base = wants.base /\ wants'.count = w
  BY <1>1, <1>2
<1>5. CountBytes(lo, hi)'
  BY <1>3, <1>4 DEF SetCount, CountBytes
<1> QED
  BY <1>4, <1>5 DEF InCount, Idle, PicSettled

LEMMA BeginByte ==
  ASSUME Inv16, Idle, NEW rw \in {1, 2}, NEW b \in Bytes, SetByte(rw, b), bytes' = << >>,
         UNCHANGED <<pic, timer>>
  PROVE  wants' \in [mask : Bytes, base : Bytes, count : Words] /\ InByte'
<1> DEFINE w == IF rw = 1 THEN b ELSE b * Base
<1>1. w \in Words
  BY WordOfBytes
<1>2. wants' = [wants EXCEPT !.count = w] /\ wants \in [mask : Bytes, base : Bytes, count : Words]
  BY DEF SetByte, Inv16, Types16
<1>3. w = IF rw = 1 THEN b ELSE b * Base
  OBVIOUS
<1> HIDE DEF w
<1>4. /\ wants' \in [mask : Bytes, base : Bytes, count : Words]
      /\ wants'.mask = wants.mask /\ wants'.base = wants.base /\ wants'.count = w
  BY <1>1, <1>2
<1>5. OneByte(rw, b)'
  BY <1>3, <1>4 DEF SetByte, OneByte
<1> QED
  BY <1>4, <1>5 DEF InByte, Idle, PicSettled

LEMMA BeginKept == Inv16 /\ Begin16 => Inv16'
<1> SUFFICES ASSUME Inv16, Begin16 PROVE Inv16'
  OBVIOUS
<1>1. /\ UNCHANGED <<pic, timer, flags, frames, latched>> /\ bytes' = << >>
      /\ ~flags.if /\ frames = << >> /\ handler' = None16
  BY DEF Begin16, InHandler16, devices
<1>2. Idle
  BY Inv16Idle DEF Begin16
<1>3. wants' \in [mask : Bytes, base : Bytes, count : Words] /\ Stage'
  <2>1. CASE \E b, x \in Bytes, k \in Controls : SetBase(b, x, k)
    BY <1>1, <1>2, <2>1, BeginBase DEF Stage
  <2>2. CASE \E m \in Bytes : SetMask(m)
    BY <1>1, <1>2, <2>2, BeginMask DEF Stage
  <2>3. CASE \E lo, hi \in Bytes : SetCount(lo, hi)
    BY <1>1, <1>2, <2>3, BeginCount DEF Stage
  <2>4. CASE \E rw \in {1, 2}, b \in Bytes : SetByte(rw, b)
    BY <1>1, <1>2, <2>4, BeginByte DEF Stage
  <2>5. CASE ReadCount
    <3>1. InLatch'
      BY <1>1, <1>2, <2>5 DEF ReadCount, InLatch, Idle, PicSettled, TimerSettled
    <3>2. wants' = wants
      BY <2>5 DEF ReadCount
    <3> QED BY <3>1, <3>2 DEF Stage, Inv16, Types16
  <2> QED
    BY <2>1, <2>2, <2>3, <2>4, <2>5 DEF Begin16, Controls
<1>4. Types16'
  BY <1>1, <1>3 DEF Inv16, Types16
<1>5. Undisturbed'
  BY <1>1 DEF Undisturbed
<1>6. Ticks'
  BY <1>1 DEF Ticks, None16
<1> QED
  BY <1>3, <1>4, <1>5, <1>6 DEF Inv16

-----------------------------------------------------------------------------
(***************************************************************************)
(* One access of a dialogue, by its port.                                  *)
(***************************************************************************)
LEMMA CommandEffect ==
  ASSUME NEW k, PortAccess16, Head(dialogue) = Access("command", k)
  PROVE  /\ pic' = writePICCommand(pic, k) /\ dialogue' = Tail(dialogue)
         /\ timer' = timer /\ bytes' = bytes /\ latched' = latched
BY DEF PortAccess16, Access

LEMMA PICEffect ==
  ASSUME NEW b, PortAccess16, Head(dialogue) = OutPIC(b)
  PROVE  /\ pic' = writePICData(pic, b) /\ dialogue' = Tail(dialogue)
         /\ timer' = timer /\ bytes' = bytes /\ latched' = latched
BY DEF PortAccess16, OutPIC, Access

LEMMA ControlEffect ==
  ASSUME NEW rw, PortAccess16, Head(dialogue) = Access("control", rw)
  PROVE  /\ timer' = writeControl(timer, rw) /\ dialogue' = Tail(dialogue)
         /\ pic' = pic /\ bytes' = bytes
         /\ latched' = IF rw = 0 THEN timer.dummy_counter ELSE latched
BY DEF PortAccess16, Access

LEMMA TimerEffect ==
  ASSUME NEW b, PortAccess16, Head(dialogue) = OutTimer(b)
  PROVE  /\ timer' = writeCounter(timer, b) /\ dialogue' = Tail(dialogue)
         /\ pic' = pic /\ bytes' = bytes /\ latched' = latched
BY DEF PortAccess16, OutTimer, Access

LEMMA ReadEffect ==
  ASSUME PortAccess16, Head(dialogue) = Read
  PROVE  /\ timer' = readCounter(timer) /\ dialogue' = Tail(dialogue)
         /\ pic' = pic /\ bytes' = Append(bytes, readByte(timer)) /\ latched' = latched
BY DEF PortAccess16, Read, Access

-----------------------------------------------------------------------------
(***************************************************************************)
(* One access of each dialogue.                                            *)
(***************************************************************************)
\* What is left to show of an access: the other parts of Inv16 follow.
Advances == pic' \in PICs /\ timer' \in Timers /\ latched' \in Words /\ Stage'

LEMMA BaseAdvances ==
  ASSUME Inv16, PortAccess16, InBase
  PROVE  Advances
<1>1. PICK k \in Controls, x \in Bytes : BaseWords(k, x)
  BY DEF InBase
<1>2. /\ pic \in PICs /\ timer \in Timers /\ latched \in Words /\ wants.base \in Bytes
      /\ wants' = wants /\ bytes = << >> /\ pic.ocw1 = wants.mask /\ timer.counter = wants.count
  BY DEF Inv16, Types16, PortAccess16, InBase, TimerSettled
<1>3. CASE dialogue = IF k = "icw1+4"
                      THEN <<Access("command", k), OutPIC(wants.base), OutPIC(x), OutPIC(x)>>
                      ELSE <<Access("command", k), OutPIC(wants.base), OutPIC(x)>>
  <2>1. Head(dialogue) = Access("command", k)
    BY <1>3
  <2>2. Tail(dialogue) = IF k = "icw1+4" THEN <<OutPIC(wants.base), OutPIC(x), OutPIC(x)>>
                         ELSE <<OutPIC(wants.base), OutPIC(x)>>
    BY <1>3
  <2>3. pic' = [pic EXCEPT !.acc_idx = 2, !.icw1 = k]
    BY <2>1, CommandEffect DEF writePICCommand, Controls
  <2>4. pic' \in PICs /\ pic'.acc_idx = 2 /\ pic'.icw1 = k /\ pic'.ocw1 = pic.ocw1
    BY <1>2, <2>3 DEF PICs, Controls
  <2>5. BaseWords(k, x)'
    BY <1>2, <2>1, <2>2, <2>4, CommandEffect DEF BaseWords
  <2>6. InBase'
    BY <1>2, <2>1, <2>4, <2>5, CommandEffect DEF InBase, TimerSettled
  <2> QED BY <1>2, <2>1, <2>4, <2>6, CommandEffect DEF Advances, Stage
<1>4. CASE /\ pic.acc_idx = 2 /\ pic.icw1 = k
           /\ dialogue = IF k = "icw1+4" THEN <<OutPIC(wants.base), OutPIC(x), OutPIC(x)>>
                         ELSE <<OutPIC(wants.base), OutPIC(x)>>
  <2>1. Head(dialogue) = OutPIC(wants.base)
    BY <1>4
  <2>2. Tail(dialogue) = IF k = "icw1+4" THEN <<OutPIC(x), OutPIC(x)>> ELSE <<OutPIC(x)>>
    BY <1>4
  <2>3. pic' = [pic EXCEPT !.acc_idx = 3, !.icw2 = wants.base]
    <3>1. pic.acc_idx = 2
      BY <1>4
    <3>2. writePICData(pic, wants.base) = [pic EXCEPT !.acc_idx = 3, !.icw2 = wants.base]
      BY <3>1 DEF writePICData
    <3> QED BY <2>1, <3>2, PICEffect
  <2>4. /\ pic' \in PICs /\ pic'.acc_idx = 3 /\ pic'.icw1 = k /\ pic'.ocw1 = pic.ocw1
        /\ pic'.icw2 = wants.base
    BY <1>2, <1>4, <2>3 DEF PICs, Controls
  <2>5. BaseWords(k, x)'
    BY <1>2, <2>1, <2>2, <2>4, PICEffect DEF BaseWords
  <2>6. InBase'
    BY <1>2, <2>1, <2>4, <2>5, PICEffect DEF InBase, TimerSettled
  <2> QED BY <1>2, <2>1, <2>4, <2>6, PICEffect DEF Advances, Stage
<1>5. CASE /\ pic.acc_idx = 3 /\ pic.icw1 = k /\ pic.icw2 = wants.base
           /\ dialogue = IF k = "icw1+4" THEN <<OutPIC(x), OutPIC(x)>> ELSE <<OutPIC(x)>>
  <2>1. Head(dialogue) = OutPIC(x)
    BY <1>5
  <2>2. Tail(dialogue) = IF k = "icw1+4" THEN <<OutPIC(x)>> ELSE << >>
    BY <1>5
  <2>3. pic' = [pic EXCEPT !.acc_idx = IF k = "icw1+4" THEN 4 ELSE 0]
    BY <1>5, <2>1, PICEffect DEF writePICData
  <2>4. /\ pic' \in PICs /\ pic'.acc_idx = (IF k = "icw1+4" THEN 4 ELSE 0)
        /\ pic'.ocw1 = pic.ocw1 /\ pic'.icw2 = wants.base
    BY <1>2, <1>5, <2>3 DEF PICs
  <2>5. CASE k = "icw1+4"
    <3>1. BaseWords(k, x)'
      BY <1>2, <2>1, <2>2, <2>4, <2>5, PICEffect DEF BaseWords
    <3>2. InBase'
      BY <1>2, <2>1, <2>4, <3>1, PICEffect DEF InBase, TimerSettled
    <3> QED BY <1>2, <2>1, <2>4, <3>2, PICEffect DEF Advances, Stage
  <2>6. CASE k # "icw1+4"
    <3>1. Idle'
      BY <1>2, <2>1, <2>2, <2>4, <2>6, PICEffect DEF Idle, PicSettled, TimerSettled
    <3> QED BY <1>2, <2>1, <2>4, <3>1, PICEffect DEF Advances, Stage
  <2> QED BY <2>5, <2>6
<1>6. CASE pic.acc_idx = 4 /\ pic.icw2 = wants.base /\ dialogue = <<OutPIC(x)>>
  <2>1. Head(dialogue) = OutPIC(x) /\ Tail(dialogue) = << >>
    BY <1>6
  <2>2. pic' = [pic EXCEPT !.acc_idx = 0]
    BY <1>6, <2>1, PICEffect DEF writePICData
  <2>3. /\ pic' \in PICs /\ pic'.acc_idx = 0
        /\ pic'.ocw1 = pic.ocw1 /\ pic'.icw2 = wants.base
    BY <1>2, <1>6, <2>2 DEF PICs
  <2>4. Idle'
    BY <1>2, <2>1, <2>3, PICEffect DEF Idle, PicSettled, TimerSettled
  <2> QED BY <1>2, <2>1, <2>3, <2>4, PICEffect DEF Advances, Stage
<1> QED
  BY <1>1, <1>3, <1>4, <1>5, <1>6 DEF BaseWords

LEMMA MaskAdvances ==
  ASSUME Inv16, PortAccess16, InMask
  PROVE  Advances
<1>1. Head(dialogue) = OutPIC(wants.mask) /\ Tail(dialogue) = << >>
  BY DEF InMask
<1>2. /\ pic \in PICs /\ timer \in Timers /\ latched \in Words /\ wants.mask \in Bytes
      /\ wants' = wants
  BY DEF Inv16, Types16, PortAccess16
<1>3. pic' = [pic EXCEPT !.ocw1 = wants.mask]
  BY <1>1, PICEffect DEF writePICData, InMask
<1>4. /\ pic' \in PICs /\ pic'.acc_idx = pic.acc_idx
      /\ pic'.ocw1 = wants.mask /\ pic'.icw2 = pic.icw2
  BY <1>2, <1>3 DEF PICs
<1>5. Idle'
  BY <1>1, <1>2, <1>4, PICEffect DEF InMask, Idle, PicSettled, TimerSettled
<1> QED
  BY <1>1, <1>2, <1>4, <1>5, PICEffect DEF Advances, Stage

LEMMA CountAdvances ==
  ASSUME Inv16, PortAccess16, InCount
  PROVE  Advances
<1>1. PICK lo \in Bytes, hi \in Bytes : CountBytes(lo, hi)
  BY DEF InCount
<1>2. /\ pic \in PICs /\ timer \in Timers /\ latched \in Words
      /\ wants' = wants /\ bytes = << >> /\ PicSettled /\ wants.count = lo + (hi * Base)
  BY <1>1 DEF Inv16, Types16, PortAccess16, InCount, CountBytes
<1>3. ASSUME PicSettled', bytes' = << >>, CountBytes(lo, hi)'
      PROVE  Stage'
  BY <1>3 DEF Stage, InCount
<1>5. CASE dialogue = <<Access("control", 3), OutTimer(lo), OutTimer(hi)>>
  <2>1. Head(dialogue) = Access("control", 3)
        /\ Tail(dialogue) = <<OutTimer(lo), OutTimer(hi)>>
    BY <1>5
  <2>2. timer' = writeControl(timer, 3)
    BY <2>1, ControlEffect
  <2>3. timer' \in Timers /\ timer'.rw = 3 /\ timer'.rwCount = 0
    BY <1>2, <2>2, ModeWritten DEF Holds
  <2>4. CountBytes(lo, hi)'
    BY <1>2, <2>1, <2>3, ControlEffect DEF CountBytes
  <2>5. PicSettled' /\ bytes' = << >>
    BY <1>2, <2>1, ControlEffect DEF PicSettled
  <2> QED BY <1>2, <1>3, <2>1, <2>3, <2>4, <2>5, ControlEffect DEF Advances
<1>6. CASE timer.rw = 3 /\ timer.rwCount = 0 /\ dialogue = <<OutTimer(lo), OutTimer(hi)>>
  <2>1. Head(dialogue) = OutTimer(lo) /\ Tail(dialogue) = <<OutTimer(hi)>>
    BY <1>6
  <2>2. timer' = writeCounter(timer, lo)
    BY <2>1, TimerEffect
  <2>3. /\ timer' \in Timers /\ timer'.rw = 3 /\ timer'.rwCount = 1
        /\ timer'.counter_shadow = lo
    BY <1>2, <1>6, <2>2, FirstHalfWritten DEF Holds
  <2>4. CountBytes(lo, hi)'
    BY <1>2, <2>1, <2>3, TimerEffect DEF CountBytes
  <2>5. PicSettled' /\ bytes' = << >>
    BY <1>2, <2>1, TimerEffect DEF PicSettled
  <2> QED BY <1>2, <1>3, <2>1, <2>3, <2>4, <2>5, TimerEffect DEF Advances
<1>7. CASE /\ timer.rw = 3 /\ timer.rwCount = 1 /\ timer.counter_shadow = lo
           /\ dialogue = <<OutTimer(hi)>>
  <2>1. Head(dialogue) = OutTimer(hi) /\ Tail(dialogue) = << >>
    BY <1>7
  <2>2. timer' = writeCounter(timer, hi)
    BY <2>1, TimerEffect
  <2>3. timer' \in Timers /\ timer'.counter = wants.count
    BY <1>2, <1>7, <2>2, SecondHalfWritten DEF Holds
  <2>4. Idle'
    BY <1>2, <2>1, <2>3, TimerEffect DEF Idle, PicSettled, TimerSettled
  <2> QED BY <1>2, <2>1, <2>3, <2>4, TimerEffect DEF Advances, Stage
<1> QED
  BY <1>1, <1>5, <1>6, <1>7 DEF CountBytes

LEMMA ByteAdvances ==
  ASSUME Inv16, PortAccess16, InByte
  PROVE  Advances
<1>1. PICK rw \in {1, 2}, b \in Bytes : OneByte(rw, b)
  BY DEF InByte
<1>2. /\ pic \in PICs /\ timer \in Timers /\ latched \in Words
      /\ wants' = wants /\ bytes = << >> /\ PicSettled
      /\ wants.count = IF rw = 1 THEN b ELSE b * Base
  BY <1>1 DEF Inv16, Types16, PortAccess16, InByte, OneByte
<1>3. CASE dialogue = <<Access("control", rw), OutTimer(b)>>
  <2>1. Head(dialogue) = Access("control", rw) /\ Tail(dialogue) = <<OutTimer(b)>>
    BY <1>3
  <2>2. timer' = writeControl(timer, rw)
    BY <2>1, ControlEffect
  <2>3. timer' \in Timers /\ timer'.rw = rw
    BY <1>2, <2>2, ModeWritten DEF Holds
  <2>4. OneByte(rw, b)'
    BY <1>2, <2>1, <2>3, ControlEffect DEF OneByte
  <2>5. InByte'
    BY <1>2, <2>1, <2>4, ControlEffect DEF InByte, PicSettled
  <2> QED BY <1>2, <2>1, <2>3, <2>5, ControlEffect DEF Advances, Stage
<1>4. CASE timer.rw = rw /\ dialogue = <<OutTimer(b)>>
  <2>1. Head(dialogue) = OutTimer(b) /\ Tail(dialogue) = << >>
    BY <1>4
  <2>2. timer' = writeCounter(timer, b)
    BY <2>1, TimerEffect
  <2>3. timer' \in Timers /\ timer'.counter = wants.count
    BY <1>2, <1>4, <2>2, ByteWritten
  <2>4. Idle'
    BY <1>2, <2>1, <2>3, TimerEffect DEF Idle, PicSettled, TimerSettled
  <2> QED BY <1>2, <2>1, <2>3, <2>4, TimerEffect DEF Advances, Stage
<1> QED
  BY <1>1, <1>3, <1>4 DEF OneByte

LEMMA LatchAdvances ==
  ASSUME Inv16, PortAccess16, InLatch
  PROVE  Advances
<1>1. /\ pic \in PICs /\ timer \in Timers /\ latched \in Words
      /\ wants' = wants /\ PicSettled /\ timer.counter = wants.count
  BY DEF Inv16, Types16, PortAccess16, InLatch, TimerSettled
<1>2. CASE bytes = << >> /\ dialogue = <<Access("control", 0), Read, Read>>
  <2>1. Head(dialogue) = Access("control", 0) /\ Tail(dialogue) = <<Read, Read>>
    BY <1>2
  <2>2. timer' = writeControl(timer, 0)
    BY <2>1, ControlEffect
  <2>3. /\ timer' \in Timers /\ timer'.rw = 0 /\ timer'.rwCount = 0
        /\ timer'.counter = timer.counter /\ timer'.counter_shadow = timer.dummy_counter
    BY <1>1, <2>2, CountLatched DEF Holds
  <2>4. timer.dummy_counter \in Words /\ latched' = timer.dummy_counter
    BY <1>1, <2>1, ControlEffect DEF Timers
  <2>5. InLatch'
    BY <1>1, <1>2, <2>1, <2>3, <2>4, ControlEffect DEF InLatch, PicSettled, TimerSettled
  <2> QED BY <1>1, <2>1, <2>3, <2>4, <2>5, ControlEffect DEF Advances, Stage
<1>3. CASE /\ timer.rw = 0 /\ timer.rwCount = 0 /\ timer.counter_shadow = latched
           /\ bytes = << >> /\ dialogue = <<Read, Read>>
  <2>1. Head(dialogue) = Read /\ Tail(dialogue) = <<Read>>
    BY <1>3
  <2>2. timer' = [timer EXCEPT !.rwCount = 1] /\ bytes' = <<latched % Base>>
    BY <1>1, <1>3, <2>1, ReadEffect DEF readCounter, readByte, Timers
  <2>3. /\ timer' \in Timers /\ timer'.rw = 0 /\ timer'.rwCount = 1
        /\ timer'.counter = timer.counter /\ timer'.counter_shadow = latched
    BY <1>1, <1>3, <2>2 DEF Timers
  <2>4. InLatch'
    BY <1>1, <2>1, <2>2, <2>3, ReadEffect DEF InLatch, PicSettled, TimerSettled
  <2> QED BY <1>1, <2>1, <2>3, <2>4, ReadEffect DEF Advances, Stage
<1>4. CASE /\ timer.rw = 0 /\ timer.rwCount = 1 /\ timer.counter_shadow = latched
           /\ bytes = <<latched % Base>> /\ dialogue = <<Read>>
  <2>1. Head(dialogue) = Read /\ Tail(dialogue) = << >>
    BY <1>4
  <2>2. timer' = [timer EXCEPT !.rwCount = 0]
    BY <1>1, <1>4, <2>1, ReadEffect DEF readCounter, Timers
  <2>3. bytes' = <<latched % Base, latched \div Base>>
    BY <1>4, <2>1, ReadEffect DEF readByte
  <2>4. timer' \in Timers /\ timer'.counter = timer.counter
    BY <1>1, <2>2 DEF Timers
  <2>5. bytes'[1] + (Base * bytes'[2]) = latched
    BY <1>1, <2>3, Halves, WordsAre
  <2>6. Idle'
    BY <1>1, <2>1, <2>4, <2>5, ReadEffect DEF Idle, PicSettled, TimerSettled
  <2> QED BY <1>1, <2>1, <2>4, <2>6, ReadEffect DEF Advances, Stage
<1> QED
  BY <1>2, <1>3, <1>4 DEF InLatch

LEMMA PortAccessKept == Inv16 /\ PortAccess16 => Inv16'
<1> SUFFICES ASSUME Inv16, PortAccess16 PROVE Inv16'
  OBVIOUS
<1>1. Advances
  BY BaseAdvances, MaskAdvances, CountAdvances, ByteAdvances, LatchAdvances
     DEF Inv16, Stage, PortAccess16, Idle
<1>2. UNCHANGED <<flags, frames, wants>> /\ handler' = None16 /\ dialogue # << >>
  BY DEF PortAccess16
<1>3. Types16'
  BY <1>1, <1>2 DEF Inv16, Types16, Advances
<1>4. Undisturbed'
  BY <1>2 DEF Inv16, Undisturbed
<1>5. Ticks'
  BY <1>2 DEF Ticks, None16
<1> QED
  BY <1>1, <1>3, <1>4, <1>5 DEF Inv16, Advances

LEMMA Inv16Step == Inv16 /\ [Next16]_vars16 => Inv16'
<1> SUFFICES ASSUME Inv16, [Next16]_vars16 PROVE Inv16'
  OBVIOUS
<1>1. CASE UNCHANGED vars16
  <2>1. UNCHANGED progress /\ UNCHANGED <<flags, frames, handler>>
    BY <1>1 DEF vars16, progress
  <2>2. Ticks' /\ Undisturbed'
    BY <2>1 DEF Inv16, Ticks, Undisturbed, progress
  <2> QED BY <2>1, <2>2, ProgressKept DEF Inv16, Types16
<1> QED
  BY <1>1, HeadKept, PlainKept, SoftIntKept, IretKept, EoiKept, BeginKept, PortAccessKept, IrqKept
     DEF Next16, mainloop16, Exec16

-----------------------------------------------------------------------------
(***************************************************************************)
(* The theorems.                                                           *)
(***************************************************************************)
\* Whichever loop runs, the other's variables stay.
LEMMA MachineStep16 == [MachineNext]_machine => [Next16]_vars16
BY DEF MachineNext, Run16, Run32, machine

\* On the 8086 and 80186 the controller and the timer are at any time how far the
\* guest's dialogue with them has come (mainloop16.c:242-365, dev_PIC.c:24-49,
\* dev_timer.c:16-79).
THEOREM Inv16Invariant == MachineSpec => []Inv16
<1>1. MachineInit => Inv16
  BY Inv16Init DEF MachineInit
<1>2. Inv16 /\ [MachineNext]_machine => Inv16'
  BY Inv16Step, MachineStep16
<1> QED
  BY <1>1, <1>2, PTL DEF MachineSpec

\* Outside a dialogue they are as the guest has programmed them, a count that was
\* read is the one that was latched, and the timer interrupts only where it may.
THEOREM ProgrammedHolds == MachineSpec => []Programmed
BY Inv16Invariant, Inv16Programmed, PTL
=============================================================================
