------------------------------ MODULE Protected ------------------------------
(***************************************************************************)
(* Interrupts, IRET and task switches of the 386 in protected mode:        *)
(* enterINT32, exIRET, exJMP_interSegment, exCALL_interSegment, LTR and    *)
(* LLDT, with the state they keep in TSSs and on the kernel's stacks.      *)
(*                                                                         *)
(* Around them runs a guest kernel in the manner of Linux 2.0: one TSS and *)
(* one LDT per task; tasks run in user or in virtual 8086 mode; handlers   *)
(* run at level 0 on the stack that the TSS names, may be interrupted, may *)
(* switch tasks by a far JMP or CALL, and balance their stack.  GDT, LDTs, *)
(* TSSs and kernel stacks are resident; faults in the middle of an entry   *)
(* are the subject of IntDelivery.                                         *)
(*                                                                         *)
(* A stack pointer is <<whose stack, depth>>.  Only the kernel's stacks    *)
(* have contents: what the CPU has pushed there, as tagged words.  The     *)
(* model forgets what nothing reads again: the words that have been        *)
(* popped, and the registers in the TSS of the task that runs.             *)
(***************************************************************************)
EXTENDS Segments, SequencesExt

CONSTANTS
    Boot,       \* the task that starts the others
    VmTasks,    \* tasks whose lowest context is in virtual 8086 mode
    Guests,     \* what a guest does beside interrupts and JMP: sets of GuestOps
    MaxWords,   \* an interrupt of a handler needs this much room on its stack
    Values      \* of a general register

GuestOps == {"load", "nest", "call", "repair", "refused", "absent", "coprocessor"}

ASSUME ProtectedAssumption ==
    /\ Boot \in Tasks \ VmTasks
    /\ VmTasks \subseteq Tasks
    /\ None \notin Tasks
    /\ Tasks \cap LdtSelectors = {}
    /\ Guests \subseteq SUBSET GuestOps
    /\ MaxWords \in Nat

VARIABLES
    reg,       \* the registers
    stack,     \* of each task, its kernel stack
    tss,       \* of each task, the registers in its TSS
    busy,      \* tasks whose TSS descriptor is of the type BUSY
    link,      \* of each task, the back link in its TSS
    present,   \* tasks whose extra data segment is present
    again,     \* tasks whose load of ES failed, and which will repeat it
    does,      \* what the guest does: of Guests
    stopped,   \* ex86 has left the main loop
    caller,    \* history: of each task, the one that CALLed it last
    waiting,   \* history: tasks that have CALLed another and not been returned to
    refused    \* history: tasks that a JMP left busy without switching to them

vars == <<reg, stack, tss, busy, link, present, again, does, stopped, caller, waiting, refused>>

State == [reg |-> reg, stack |-> stack, tss |-> tss, busy |-> busy, link |-> link]
Set(m) ==
    /\ reg' = m.reg /\ stack' = m.stack /\ tss' = m.tss
    /\ busy' = m.busy /\ link' = m.link

Flags(r) == [if |-> r.if, nt |-> r.nt, vm |-> r.vm]
SetFlags(r, f) == [r EXCEPT !.if = f.if, !.nt = f.nt, !.vm = f.vm]

(***************************************************************************)
(* The stack that SS:ESP names.                                            *)
(***************************************************************************)
PushAll(m, ws) ==
    LET t == m.reg.sp[1]
        n == m.reg.sp[2]
    IN [m EXCEPT !.stack[t] = @ \o ws, !.reg.sp = <<t, n + Len(ws)>>]

\* The word that is i pops away, and what is left after i pops.
Word(m, i) == m.stack[m.reg.sp[1]][m.reg.sp[2] - i]
Forget(m, i) ==
    [m EXCEPT !.stack[m.reg.sp[1]] = SubSeq(@, 1, m.reg.sp[2] - i)]
Pop(m, i) == [Forget(m, i) EXCEPT !.reg.sp = <<@[1], @[2] - i>>]

(***************************************************************************)
(* enterINT32 of an interrupt or trap gate to the kernel's code segment.   *)
(***************************************************************************)
Gated(r, gate) ==
    [r EXCEPT !.if = @ /\ gate = "trap", !.nt = FALSE, !.vm = FALSE]

\* The stack of the inner level, from the TSS.
InnerStack(r) ==
    [updateSegReg([r EXCEPT !.cpl = 0], "ss", "KDS") EXCEPT !.sp = <<r.dtr, 0>>]

\* Mutant: the data segments are zeroed before they are pushed.
SaveVmSegments_Zeroed(m) ==
    PushAll([m EXCEPT !.reg = updateSegReg(updateSegReg(@, "ds", "null"), "es", "null")],
            << <<"ds", "null">>, <<"es", "null">> >>)

\* From virtual 8086 mode, the data segments are saved and zeroed.
SaveVmSegments(m) ==
    LET saved == PushAll(m, << <<"ds", m.reg.sel["ds"]>>, <<"es", m.reg.sel["es"]>> >>)
    IN [saved EXCEPT !.reg = updateSegReg(updateSegReg(@, "ds", "null"), "es", "null")]

EnterINT(m, gate, codes) ==
    LET r == m.reg
        inner == [m EXCEPT !.reg = InnerStack(Gated(r, gate))]
        based == CASE r.cpl = 0 -> [m EXCEPT !.reg = Gated(r, gate)]
                   [] OTHER ->
                      PushAll(IF r.vm THEN SaveVmSegments(inner) ELSE inner,
                              << <<"ss", r.sel["ss"]>>, <<"esp", r.sp>> >>)
        frame == << <<"eflags", Flags(r)>>, <<"cs", r.sel["cs"]>>, <<"eip", r.ip>> >>
        pushed == PushAll(based, frame \o codes)
    IN [pushed EXCEPT !.reg = [updateSegReg(@, "cs", "KCS") EXCEPT !.ip = 0]]

\* enterINTwithECODE: the instruction has changed nothing that is put back.
Faults(m) == EnterINT(m, "int", << <<"code", 0>> >>)

(***************************************************************************)
(* exIRET, with NT clear, at level 0.                                      *)
(***************************************************************************)
IretToVM(m) ==
    LET r0 == updateSegReg(SetFlags(m.reg, Word(m, 2)[2]), "cs", Word(m, 1)[2])
        r1 == updateSegReg([r0 EXCEPT !.ip = Word(m, 0)[2]], "ss", Word(m, 4)[2])
        r2 == updateSegReg([r1 EXCEPT !.sp = Word(m, 3)[2]], "es", Word(m, 5)[2])
        r3 == updateSegReg(r2, "ds", Word(m, 6)[2])
    IN [Forget(m, 7) EXCEPT !.reg = [r3 EXCEPT !.cpl = 3]]

IretOuter(m) ==
    LET r0 == [m.reg EXCEPT !.if = Word(m, 2)[2].if, !.nt = Word(m, 2)[2].nt,
                            !.ip = Word(m, 0)[2]]
        r1 == updateSegReg(updateSegReg(r0, "cs", Word(m, 1)[2]), "ss", Word(m, 4)[2])
        r2 == [r1 EXCEPT !.sp = Word(m, 3)[2]]
    IN [Forget(m, 5) EXCEPT !.reg = Nulled(Nulled(r2, "es"), "ds")]

IretSame(m) ==
    LET r0 == [m.reg EXCEPT !.if = Word(m, 2)[2].if, !.nt = Word(m, 2)[2].nt,
                            !.ip = Word(m, 0)[2]]
    IN Pop([m EXCEPT !.reg = updateSegReg(r0, "cs", Word(m, 1)[2])], 3)

exIRET(m) ==
    CASE Word(m, 2)[2].vm -> IretToVM(m)
      [] ~Word(m, 2)[2].vm /\ RPL(Word(m, 1)[2]) > m.reg.cpl -> IretOuter(m)
      [] OTHER -> IretSame(m)

(***************************************************************************)
(* The task switch.                                                        *)
(***************************************************************************)
\* loadTaskRegister.  The back link goes into the TSS of the old task.
loadTaskRegister(m, t, setTaskBusy, prevTaskLink) ==
    [m EXCEPT !.busy = IF setTaskBusy THEN @ \cup {t} ELSE @,
              !.link = [u \in Tasks |-> IF u = m.reg.dtr /\ prevTaskLink # None
                                        THEN prevTaskLink ELSE @[u]]]

unloadTaskRegister(m, nextEIP, clearTaskBusy, clearNT) ==
    LET r == [m.reg EXCEPT !.nt = @ /\ ~clearNT]
    IN [m EXCEPT
          !.busy = IF clearTaskBusy THEN @ \ {r.tr} ELSE @,
          !.reg = r,
          !.tss[r.dtr] = [flags |-> Flags(r), ax |-> r.ax, ip |-> nextEIP,
                          sp |-> r.sp, sel |-> r.sel]]

\* Mutant: the segments are loaded while the LDT is the old task's.
loadTaskState_LateLDT(r, T) ==
    LET r0 == [SetFlags(r, T.flags) EXCEPT !.cr3 = r.dtr, !.tlb = {r.dtr},
                                           !.ax = T.ax, !.sp = T.sp]
        r1 == updateSegReg(updateSegReg(r0, "es", T.sel["es"]), "cs", T.sel["cs"])
        r2 == updateSegReg(updateSegReg(r1, "ss", T.sel["ss"]), "ds", T.sel["ds"])
    IN [r2 EXCEPT !.ip = T.ip, !.ldtr = r.dtr, !.dldt = r.dtr]

\* loadTaskState.  The TSS names the directory and the LDT of its task; the TLB
\* is flushed and filled again by the accesses that follow.
loadTaskState(r, T) ==
    LET r0 == [SetFlags(r, T.flags) EXCEPT !.cr3 = r.dtr, !.tlb = {r.dtr},
                   !.ldtr = r.dtr, !.dldt = r.dtr, !.ax = T.ax, !.sp = T.sp]
        r1 == updateSegReg(updateSegReg(r0, "es", T.sel["es"]), "cs", T.sel["cs"])
        r2 == updateSegReg(updateSegReg(r1, "ss", T.sel["ss"]), "ds", T.sel["ds"])
    IN [r2 EXCEPT !.ip = T.ip]

\* What a TSS that has been loaded may say: nothing reads it before it is saved
\* again.
KernelSel == [seg \in SegRegs |-> IF seg = "cs" THEN "KCS" ELSE "KDS"]

Forgotten(t) ==
    [flags |-> [if |-> FALSE, nt |-> FALSE, vm |-> FALSE], ip |-> 0,
     ax |-> CHOOSE v \in Values : TRUE, sp |-> <<t, 0>>, sel |-> KernelSel]

\* TR and its descriptor cache are the new task's; CR0.TS is set.
NewTask(m, t) ==
    LET r == [m.reg EXCEPT !.tr = t, !.dtr = t, !.ts = TRUE]
    IN [m EXCEPT !.reg = loadTaskState(r, m.tss[t]), !.tss[t] = Forgotten(t)]

Next1(ip) == 1 - ip     \* the instruction behind this one

\* Mutant: the TSS that is left stays busy.
SwitchByJMP_StaysBusy(m, t) ==
    LET switched == NewTask(unloadTaskRegister(loadTaskRegister(m, t, TRUE, None),
                                               Next1(m.reg.ip), FALSE, FALSE), t)
    IN [switched EXCEPT !.reg.nt = FALSE]

SwitchByJMP(m, t) ==
    LET switched == NewTask(unloadTaskRegister(loadTaskRegister(m, t, TRUE, None),
                                               Next1(m.reg.ip), TRUE, FALSE), t)
    IN [switched EXCEPT !.reg.nt = FALSE]

SwitchByCALL(m, t) ==
    LET switched == NewTask(unloadTaskRegister(loadTaskRegister(m, t, TRUE, m.reg.tr),
                                               Next1(m.reg.ip), FALSE, FALSE), t)
    IN [switched EXCEPT !.reg.nt = TRUE]

SwitchByIRET(m, t) ==
    NewTask(unloadTaskRegister(loadTaskRegister(m, t, FALSE, None),
                               Next1(m.reg.ip), TRUE, TRUE), t)

(***************************************************************************)
(* The guest.  Boot is its kernel's first context; the others are made to  *)
(* look as if they had been switched from in a handler.                    *)
(***************************************************************************)
UserFrame == << <<"ss", "UDS">>, <<"esp", <<"user", 0>>>>,
                <<"eflags", [if |-> TRUE, nt |-> FALSE, vm |-> FALSE]>>,
                <<"cs", "UCS">>, <<"eip", 0>> >>
VmFrame == << <<"ds", "v1">>, <<"es", "v1">>,
              <<"ss", "v1">>, <<"esp", <<"user", 0>>>>,
              <<"eflags", [if |-> TRUE, nt |-> FALSE, vm |-> TRUE]>>,
              <<"cs", "v1">>, <<"eip", 0>> >>
FirstFrame(t) == IF t \in VmTasks THEN VmFrame ELSE UserFrame

Init ==
    /\ stack = [t \in Tasks |-> FirstFrame(t)]
    /\ tss = [t \in Tasks |->
          IF t = Boot THEN Forgotten(t)
          ELSE [Forgotten(t) EXCEPT !.sp = <<t, Len(FirstFrame(t))>>]]
    /\ busy = {}
    /\ link = [t \in Tasks |-> None]
    /\ present = Tasks
    /\ again = {}
    /\ does \in Guests
    /\ stopped = FALSE
    /\ caller = [t \in Tasks |-> None]
    /\ waiting = {}
    /\ refused = {}
    /\ reg = [sel |-> KernelSel, desc |-> [seg \in SegRegs |-> RawDesc(KernelSel[seg], None)],
              cpl |-> 0, if |-> FALSE, nt |-> FALSE, vm |-> FALSE,
              ip |-> 0, sp |-> <<Boot, Len(FirstFrame(Boot))>>,
              ax |-> CHOOSE v \in Values : TRUE,
              ldtr |-> None, dldt |-> None, tr |-> None, dtr |-> None,
              cr3 |-> Boot, tlb |-> {Boot}, ts |-> FALSE]

guest == <<present, again, does, stopped, caller, waiting, refused>>
memory == <<stack, tss, busy, link>>

Booted == reg.tr # None /\ reg.dldt # None
Kernel == Booted /\ ~stopped /\ reg.cpl = 0
User == Booted /\ ~stopped /\ reg.cpl # 0

\* The load of ES has failed and nobody has loaded it since.
Torn == reg.desc["es"] # DescOf(reg, reg.sel["es"])

\* exLSDesc: LTR and LLDT.
Ltr ==
    /\ reg.tr = None
    /\ Set([loadTaskRegister(State, Boot, TRUE, None) EXCEPT
               !.reg.dtr = Boot, !.reg.tr = Boot])
    /\ UNCHANGED guest

Lldt ==
    /\ reg.dldt = None
    /\ reg' = [reg EXCEPT !.ldtr = Boot, !.dldt = Boot]
    /\ UNCHANGED <<memory, guest>>

\* What the running context computes: it moves on; a user changes a general
\* register and ESP, the kernel IF.
Compute ==
    /\ \/ /\ User /\ reg.tr \notin again
          /\ \E v \in Values :
                reg' = [reg EXCEPT !.ip = Next1(@), !.ax = v, !.sp = <<"user", v>>]
       \/ /\ Kernel
          /\ \E i \in BOOLEAN : reg' = [reg EXCEPT !.ip = Next1(@), !.if = i]
    /\ UNCHANGED <<memory, guest>>

Loadable ==
    CASE reg.vm -> {<<"es", s>> : s \in Paragraphs}
      [] ~reg.vm /\ reg.cpl = 0 -> {<<"ds", "KDS">>}
      [] OTHER -> {<<"ds", "UDS">>} \cup {<<"es", "UXS">> : t \in {reg.tr} \cap present}

\* MOV to DS or ES.
LoadSegment(seg, s) ==
    /\ Kernel \/ User
    /\ "load" \in does /\ <<seg, s>> \in Loadable
    /\ User /\ reg.tr \in again => seg = "es" /\ s = "UXS"
    /\ reg' = [updateSegReg(reg, seg, s) EXCEPT !.ip = Next1(@)]
    /\ again' = IF User THEN again \ {reg.tr} ELSE again
    /\ UNCHANGED <<memory, present, does, stopped, caller, waiting, refused>>

\* MOV ES of a segment that is not present.
LoadAbsent ==
    /\ User /\ ~reg.vm /\ reg.tr \notin present
    /\ Set(Faults([State EXCEPT !.reg = updateSegRegNP(@, "es", "UXS")]))
    /\ again' = again \cup {reg.tr}
    /\ UNCHANGED <<present, does, stopped, caller, waiting, refused>>

\* The kernel takes the extra data segment of its task away, or brings it back.
SetPresence ==
    /\ Kernel /\ "absent" \in does /\ reg.tr \notin VmTasks
    /\ present' \in {present \cup {reg.tr}, present \ {reg.tr}}
    /\ UNCHANGED <<reg, memory, again, does, stopped, caller, waiting, refused>>

\* CLTS.
Clts ==
    /\ Kernel /\ "coprocessor" \in does
    /\ reg' = [reg EXCEPT !.ts = FALSE]
    /\ UNCHANGED <<memory, guest>>

\* An interrupt of a device, or INT in user mode.
Interrupt(gate) ==
    /\ \/ Kernel /\ reg.if /\ "nest" \in does /\ reg.sp[2] + 3 <= MaxWords
       \/ User
    /\ Set(EnterINT(State, gate, << >>))
    /\ UNCHANGED guest

\* A handler takes the error code off, and returns.
DropCode ==
    /\ Kernel /\ Word(State, 0)[1] = "code"
    /\ Set([Pop(State, 1) EXCEPT !.reg.ip = Next1(@)])
    /\ UNCHANGED guest

Iret ==
    /\ Kernel /\ ~reg.nt /\ Word(State, 0)[1] = "eip"
    /\ Set(exIRET(State))
    /\ UNCHANGED guest

\* The kernel switches to a task which it takes for available, whose segments
\* are there, having loaded segments of its own.
MaySwitchTo(t) ==
    /\ Kernel /\ ~Torn
    /\ t # reg.tr /\ t \in present

Jmp(t) ==
    /\ MaySwitchTo(t) /\ t \notin busy
    /\ Set(SwitchByJMP(State, t))
    /\ UNCHANGED guest

Call(t) ==
    /\ MaySwitchTo(t) /\ t \notin busy /\ "call" \in does
    /\ Set(SwitchByCALL(State, t))
    /\ caller' = [caller EXCEPT ![t] = reg.tr]
    /\ waiting' = waiting \cup {reg.tr}
    /\ UNCHANGED <<present, again, does, stopped, refused>>

\* IRET with NT set.  A link that is null faults.
IretNT(t) ==
    /\ Kernel /\ ~Torn /\ reg.nt /\ link[reg.dtr] = t
    /\ t = caller[reg.tr] /\ t \in waiting \cap present
    /\ Set(SwitchByIRET(State, t))
    /\ waiting' = waiting \ {t}
    /\ UNCHANGED <<present, again, does, stopped, caller, refused>>

IretNTFaults ==
    /\ Kernel /\ reg.nt /\ link[reg.dtr] = None
    /\ reg.sp[2] + 4 <= MaxWords
    /\ Set(Faults(State))
    /\ UNCHANGED guest

\* External: the guest's own remedy, a store into its TSS.
RepairLink ==
    /\ Kernel /\ reg.nt /\ "repair" \in does
    /\ link' = [link EXCEPT ![reg.tr] = caller[reg.tr]]
    /\ UNCHANGED <<reg, stack, tss, busy, guest>>

\* A far JMP in user mode to a TSS: the check of the DPL comes after the
\* descriptor has been marked.
JmpRefused(t) ==
    /\ User /\ ~reg.vm /\ reg.tr \notin again /\ "refused" \in does
    /\ Set(Faults(IF t \in busy THEN State ELSE loadTaskRegister(State, t, TRUE, None)))
    /\ refused' = IF t \in busy THEN refused ELSE refused \cup {t}
    /\ UNCHANGED <<present, again, does, stopped, caller, waiting>>

\* To a TSS that has been left busy: JMP takes the descriptor for a code segment
\* and raises a fault that has no handler; CALL is an unknown instruction.
JmpBusy(t) ==
    /\ MaySwitchTo(t) /\ t \in busy \cap refused
    /\ reg' = updateSegReg([reg EXCEPT !.ip = 0], "cs", t)
    /\ stopped' = TRUE
    /\ UNCHANGED <<memory, present, again, does, caller, waiting, refused>>

CallBusy(t) ==
    /\ MaySwitchTo(t) /\ t \in busy \cap refused /\ "call" \in does
    /\ stopped' = TRUE
    /\ UNCHANGED <<reg, memory, present, again, does, caller, waiting, refused>>

Next ==
    \/ Ltr \/ Lldt
    \/ Compute \/ LoadAbsent \/ SetPresence \/ Clts
    \/ \E seg \in {"ds", "es"}, s \in Selectors : LoadSegment(seg, s)
    \/ \E gate \in {"int", "trap"} : Interrupt(gate)
    \/ DropCode \/ Iret \/ IretNTFaults \/ RepairLink
    \/ \E t \in Tasks :
          \/ Jmp(t) \/ Call(t) \/ IretNT(t)
          \/ JmpRefused(t) \/ JmpBusy(t) \/ CallBusy(t)

Spec == Init /\ [][Next]_vars

(***************************************************************************)
(* Properties.                                                             *)
(***************************************************************************)
\* What the CPU has cached belongs to the registers that the guest sees: each
\* descriptor to its selector, the CPL to CS, the TLB to CR3; after a switch all
\* are the new task's.  Only between an ES that could not be loaded and the
\* repetition of the load do selector and descriptor differ (decode.c:489-495,
\* descriptor.c:358-387).
CachesAgree ==
    /\ \A seg \in SegRegs :
          \/ reg.desc[seg] = DescOf(reg, reg.sel[seg])
          \/ seg = "es" /\ reg.tr \in again
    /\ reg.cpl = IF reg.vm THEN 3 ELSE RPL(reg.sel["cs"])
    /\ reg.dtr = reg.tr /\ reg.dldt = reg.ldtr
    /\ reg.tr # None => reg.cr3 = reg.tr
    /\ reg.tlb \subseteq {reg.cr3}

\* The running task is marked busy, and beside it only tasks that wait for one
\* they have called, and those a refused JMP left marked (descriptor.c:306-336):
\* any other can be switched to.
OneBusy ==
    reg.tr # None =>
        /\ reg.tr \in busy
        /\ busy = {reg.tr} \cup waiting \cup refused

\* A task that is to return has the back link of the task that called it:
\* "Set busy bits and link field" (ExInst86.c:1992).
LinkNamesCaller == Kernel /\ reg.nt => link[reg.tr] = caller[reg.tr]

InHandler == <<"in", "handler">>
ToBeLoaded == <<"to be", "loaded">>

\* The contexts of a task: the frames on its kernel stack, and what runs, or is
\* to run when it is switched to.
Frame(st, d) ==
    LET f == st[d - 2][2]
        level == CASE f.vm -> "vm"
                   [] ~f.vm /\ RPL(st[d - 1][2]) = 3 -> "user"
                   [] OTHER -> "kernel"
    IN [level |-> level, ip |-> st[d][2], if |-> f.if, nt |-> f.nt,
        sp |-> IF level = "kernel" THEN 0 ELSE st[d - 3][2][2],
        ds |-> IF level = "vm" THEN RealDesc(st[d - 6][2]).of ELSE InHandler,
        es |-> IF level = "vm" THEN RealDesc(st[d - 5][2]).of ELSE InHandler]

Frames(st, depth) ==
    LET upTo[d \in 0 .. depth] ==
            IF d = 0 THEN << >>
            ELSE IF st[d][1] = "eip" THEN Append(upTo[d - 1], Frame(st, d))
            ELSE upTo[d - 1]
    IN upTo[depth]

Running(r) ==
    [level |-> CASE r.vm -> "vm" [] ~r.vm /\ r.cpl = 3 -> "user" [] OTHER -> "kernel",
     ip |-> r.ip, if |-> r.if, nt |-> r.nt, sp |-> IF r.cpl = 0 THEN 0 ELSE r.sp[2],
     ds |-> r.desc["ds"].of,
     es |-> IF r.desc["es"] = DescOf(r, r.sel["es"]) THEN r.desc["es"].of ELSE ToBeLoaded]

Parked(T, ldt) ==
    [level |-> "kernel", ip |-> T.ip, if |-> T.flags.if, nt |-> T.flags.nt, sp |-> 0,
     ds |-> RawDesc(T.sel["ds"], ldt).of, es |-> RawDesc(T.sel["es"], ldt).of]

Current == IF reg.tr = None THEN Boot ELSE reg.tr

ContextsOf(t) ==
    IF t = Current
    THEN Append(Frames(stack[t], IF reg.cpl = 0 THEN reg.sp[2] ELSE 0), Running(reg))
    ELSE Append(Frames(stack[t], tss[t].sp[2]), Parked(tss[t], t))

Contexts == INSTANCE ContextStacks WITH
    Segments <- {<<"real", s>> : s \in Paragraphs} \cup {<<t, s>> : t \in Tasks, s \in LdtSelectors}
                \cup {<<None, "KDS">>, <<None, "null">>, ToBeLoaded},
    Privileged <- {<<None, "KDS">>},
    NullSegment <- <<None, "null">>,
    Pending <- ToBeLoaded,
    Elsewhere <- InHandler,
    current <- Current,
    stack <- [t \in Tasks |-> ContextsOf(t)],
    gpr <- [t \in Tasks |-> IF t = Current THEN reg.ax ELSE tss[t].ax],
    ts <- reg.ts

\* Interrupts and task switches are invisible to what they interrupt: each task
\* is a stack of contexts of which only the last one runs, and goes on where,
\* with what flags, stack and registers it was left.
ImplementsContextStacks == Contexts!Spec
=============================================================================
