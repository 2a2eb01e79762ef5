------------------------------- MODULE Loop16 -------------------------------
(***************************************************************************)
(* The main loop of the 8086 and 80186 (src/src/mainloop16.c) with the     *)
(* interrupt controller and the timer that it asks after each instruction. *)
(* No instruction faults here.  SIGINT does not end the run: the second    *)
(* one within a second opens the emulator's monitor.                       *)
(*                                                                         *)
(* The guest programs the controller and the timer by dialogues of several *)
(* port accesses, with interrupts disabled; the handler of the timer ends  *)
(* with an EOI.  Of the CPU the model keeps IF and TF.                     *)
(***************************************************************************)
EXTENDS PIC, Timer, Sequences

CONSTANTS
    Guests16,   \* what a guest does beside computing: sets of GuestOps16
    MaxUnseen,  \* SIGINTs that arrive before the loop looks
    MaxFrames   \* handlers that have interrupted one another

GuestOps16 == {"pic", "count", "byte", "latch", "stack", "trap", "stop"}

ASSUME Loop16Assumption ==
    /\ Bytes = 0 .. Base - 1
    /\ Guests16 \subseteq SUBSET GuestOps16
    /\ MaxUnseen \in Nat \ {0}
    /\ MaxFrames \in Nat \ {0}

VARIABLES
    does16,    \* what the guest does: of Guests16
    at,        \* head; exec: the instruction; irq: behind it; monitor; exit
    unseen,    \* intflag - prev_eflag: SIGINTs the loop has not noticed
    recent,    \* less than 1000 ms since prevSIGINTtime
    alarm,     \* timerflag
    interval,  \* of the host's timer
    pic, timer,
    flags,     \* [if, tf]
    traced,    \* TF in prev_flags
    held,      \* the instruction was a MOV SS or POP SS that changed SS
    debug16,   \* DEBUG: the breakpoint was hit
    frames,    \* the flags that the handlers running have on their stack
    dialogue,  \* the port accesses the guest is still to make
    bytes,     \* what it has read in this dialogue
    latched,   \* history: the count that was latched in it
    wants,     \* history: what the guest has programmed
    handler    \* history: the handler entered in this step, and its vector's base

vars16 == <<does16, at, unseen, recent, alarm, interval, pic, timer, flags, traced, held,
            debug16, frames, dialogue, bytes, latched, wants, handler>>

None16 == [of |-> "none", base |-> 0]

Init16 ==
    /\ does16 \in Guests16
    /\ at = "head" /\ unseen = 0 /\ recent \in BOOLEAN
    /\ alarm = FALSE /\ interval = 0 /\ pic = ResetPIC /\ timer = ResetTimer
    /\ flags = [if |-> FALSE, tf |-> FALSE]
    /\ traced = FALSE /\ held = FALSE /\ debug16 = FALSE
    /\ frames = << >> /\ dialogue = << >> /\ bytes = << >> /\ latched = 0
    /\ wants = [mask |-> 0, base |-> 0, count |-> 0]
    /\ handler = None16

(***************************************************************************)
(* The head of the loop.                                                   *)
(***************************************************************************)
devices == <<alarm, interval, pic, timer>>
guest16 == <<does16, frames, dialogue, bytes, latched, wants>>

\* Mutant: the monitor wants two SIGINTs in one look, not two looks.
NoticeSIGINT_TwoAtOnce ==
    /\ unseen' = 0
    /\ recent' = TRUE
    /\ at' = IF unseen > 1 THEN "monitor" ELSE "exec"

\* Any number of SIGINTs since the last look is one Ctrl+C.
NoticeSIGINT ==
    /\ unseen' = 0
    /\ recent' = TRUE
    /\ at' = IF recent THEN "monitor" ELSE "exec"

\* A breakpoint starts the debug output, and a stop count ends the run.
Head16 ==
    /\ at = "head"
    /\ \/ IF unseen = 0 THEN at' = "exec" /\ UNCHANGED <<unseen, recent>> ELSE NoticeSIGINT
       \/ "stop" \in does16 /\ at' = "exit" /\ UNCHANGED <<unseen, recent>>
    /\ debug16' \in (IF "stop" \in does16 THEN {debug16, TRUE} ELSE {debug16})
    /\ handler' = None16
    /\ UNCHANGED <<devices, flags, traced, held, guest16>>

\* emuMonitor16: "exit" returns to the emulation and "halt" ends it; what the
\* other commands show is left out.
Monitor16 ==
    /\ at = "monitor"
    /\ at' \in {"exec", "exit"}
    /\ UNCHANGED <<unseen, recent, devices, flags, traced, held, debug16, guest16, handler>>

(***************************************************************************)
(* The instruction.                                                        *)
(***************************************************************************)
InHandler16 == frames # << >>

\* enterINT in real mode.  It cannot fail.
EnterINT16(of, base) ==
    /\ frames' = Append(frames, flags)
    /\ flags' = [if |-> FALSE, tf |-> FALSE]
    /\ handler' = [of |-> of, base |-> base]

Done16 ==
    /\ at' = "irq"
    /\ traced' = flags.tf

\* CLI, STI, POPF, and all that touches neither flags nor ports.
Plain16 ==
    /\ \E i, t \in BOOLEAN :
          /\ flags' = [if |-> i, tf |-> t]
          /\ i => dialogue = << >> /\ Len(frames) < MaxFrames
          /\ t => "trap" \in does16 /\ ~InHandler16
    /\ held' \in (IF "stack" \in does16 THEN BOOLEAN ELSE {FALSE})
    /\ handler' = None16
    /\ Done16
    /\ UNCHANGED <<devices, guest16>>

SoftInt16 ==
    /\ Len(frames) < MaxFrames /\ dialogue = << >>
    /\ EnterINT16("soft", 0)
    /\ held' = FALSE
    /\ Done16
    /\ UNCHANGED <<devices, does16, dialogue, bytes, latched, wants>>

Iret16 ==
    /\ InHandler16
    /\ flags' = frames[Len(frames)]
    /\ frames' = SubSeq(frames, 1, Len(frames) - 1)
    /\ held' = FALSE
    /\ handler' = None16
    /\ Done16
    /\ UNCHANGED <<devices, does16, dialogue, bytes, latched, wants>>

\* The handler's EOI.
Eoi16 ==
    /\ InHandler16 /\ ~flags.if /\ dialogue = << >>
    /\ pic' = writePICCommand(pic, "ocw2")
    /\ held' = FALSE
    /\ handler' = None16
    /\ Done16
    /\ UNCHANGED <<alarm, interval, timer, flags, guest16>>

\* The guest begins to program a device, with interrupts disabled.
Access(port, data) == [port |-> port, data |-> data]
OutPIC(data) == Access("pic", data)
OutTimer(data) == Access("timer", data)
Read == Access("read", 0)

SetBase(b, x, icw1) ==
    /\ dialogue' = <<Access("command", icw1), OutPIC(b), OutPIC(x)>>
                   \o (IF icw1 = "icw1+4" THEN <<OutPIC(x)>> ELSE << >>)
    /\ wants' = [wants EXCEPT !.base = b]
SetMask(m) ==
    /\ dialogue' = <<OutPIC(m)>>
    /\ wants' = [wants EXCEPT !.mask = m]
SetCount(lo, hi) ==
    /\ dialogue' = <<Access("control", 3), OutTimer(lo), OutTimer(hi)>>
    /\ wants' = [wants EXCEPT !.count = lo + (hi * Base)]
SetByte(rw, b) ==
    /\ dialogue' = <<Access("control", rw), OutTimer(b)>>
    /\ wants' = [wants EXCEPT !.count = IF rw = 1 THEN b ELSE b * Base]
ReadCount ==
    /\ timer.rw \in {0, 3}
    /\ dialogue' = <<Access("control", 0), Read, Read>>
    /\ UNCHANGED wants

Begin16 ==
    /\ dialogue = << >> /\ ~flags.if /\ ~InHandler16
    /\ \/ /\ "pic" \in does16
          /\ \/ \E b, x \in Bytes, icw1 \in {"icw1", "icw1+4"} :
                   x # b /\ SetBase(b, x, icw1)
             \/ \E m \in Bytes : SetMask(m)
       \/ "count" \in does16 /\ \E lo, hi \in Bytes : SetCount(lo, hi)
       \/ "byte" \in does16 /\ \E rw \in {1, 2}, b \in Bytes : SetByte(rw, b)
       \/ "latch" \in does16 /\ ReadCount
    /\ bytes' = << >>
    /\ held' = FALSE
    /\ handler' = None16
    /\ Done16
    /\ UNCHANGED <<devices, does16, flags, frames, latched>>

\* It goes on with it: one IN or OUT.
PortAccess16 ==
    /\ dialogue # << >> /\ ~InHandler16
    /\ dialogue' = Tail(dialogue)
    /\ LET a == Head(dialogue)
       IN /\ pic' = CASE a.port = "command" -> writePICCommand(pic, a.data)
                      [] a.port = "pic" -> writePICData(pic, a.data)
                      [] OTHER -> pic
          /\ timer' = CASE a.port = "control" -> writeControl(timer, a.data)
                        [] a.port = "timer" -> writeCounter(timer, a.data)
                        [] a.port = "read" -> readCounter(timer)
                        [] OTHER -> timer
          /\ bytes' = IF a.port = "read" THEN Append(bytes, readByte(timer)) ELSE bytes
          /\ latched' = IF a.port = "control" /\ a.data = 0 THEN timer.dummy_counter
                        ELSE latched
          /\ interval' = IF a.port = "timer" /\ timer'.rwCount = 0
                         THEN Interval(timer') ELSE interval
    /\ held' = FALSE
    /\ handler' = None16
    /\ Done16
    /\ UNCHANGED <<alarm, does16, flags, frames, wants>>

\* HLT, an unknown instruction or one that returns an error.
Stop16 ==
    /\ "stop" \in does16
    /\ at' = "exit"
    /\ handler' = None16
    /\ UNCHANGED <<devices, flags, traced, held, guest16>>

Exec16 ==
    /\ at = "exec"
    /\ Plain16 \/ SoftInt16 \/ Iret16 \/ Eoi16 \/ Begin16 \/ PortAccess16 \/ Stop16
    /\ UNCHANGED <<unseen, recent, debug16>>

(***************************************************************************)
(* After the instruction.                                                  *)
(***************************************************************************)
Quiet16 == handler' = None16 /\ UNCHANGED <<flags, frames>>

TimerOpen16 == timer.counter # 0 /\ pic.ocw1 % 2 = 0

\* Mutant: the flag is reset before counter and mask are asked.
External16_ResetFirst ==
    IF alarm
    THEN /\ alarm' = FALSE
         /\ IF debug16 \/ ~TimerOpen16 THEN Quiet16 ELSE EnterINT16("timer", pic.icw2)
    ELSE Quiet16 /\ UNCHANGED alarm

External16 ==
    IF TimerOpen16 /\ alarm
    THEN /\ alarm' = FALSE
         /\ IF debug16 THEN Quiet16 ELSE EnterINT16("timer", pic.icw2)
    ELSE Quiet16 /\ UNCHANGED alarm

Irq16 ==
    /\ at = "irq"
    /\ at' = "head"
    /\ CASE held -> Quiet16 /\ UNCHANGED alarm
         [] ~held /\ traced /\ flags.tf -> EnterINT16("step", 0) /\ UNCHANGED alarm
         [] ~held /\ ~(traced /\ flags.tf) /\ flags.if -> External16
         [] OTHER -> Quiet16 /\ UNCHANGED alarm
    /\ bytes' = IF dialogue = << >> THEN << >> ELSE bytes
    /\ latched' = IF dialogue = << >> THEN 0 ELSE latched
    /\ UNCHANGED <<unseen, recent, interval, pic, timer, traced, held, debug16,
                   does16, dialogue, wants>>

(***************************************************************************)
(* The host: its signals, and a second that passes since a Ctrl+C.         *)
(***************************************************************************)
Sigint16 ==
    /\ unseen < MaxUnseen
    /\ unseen' = unseen + 1
    /\ UNCHANGED <<recent, alarm>>
Sigalrm16 == interval # 0 /\ alarm' = TRUE /\ UNCHANGED <<unseen, recent>>
Second16 == recent' = FALSE /\ UNCHANGED <<unseen, alarm>>

Host16 ==
    /\ at # "exit"
    /\ Sigint16 \/ Sigalrm16 \/ Second16
    /\ handler' = None16
    /\ UNCHANGED <<at, interval, pic, timer, flags, traced, held, debug16, guest16>>

mainloop16 == Head16 \/ Exec16 \/ Irq16
Next16 == mainloop16 \/ Monitor16 \/ Host16

\* The loop runs; what is typed into the monitor is up to the user.
Spec16 == Init16 /\ [][Next16]_vars16 /\ WF_vars16(mainloop16)
-----------------------------------------------------------------------------
(***************************************************************************)
(* Properties.                                                             *)
(***************************************************************************)
\* Outside a dialogue the controller and the timer are as the guest has
\* programmed them, whatever interrupted it before, what it has read is the count
\* that was latched, and the timer's interrupt comes only where its mask, count
\* and vector base let it (dev_PIC.c:24-49, dev_timer.c:16-79).
Programmed ==
    /\ dialogue = << >> =>
          /\ pic.acc_idx = 0
          /\ pic.ocw1 = wants.mask /\ pic.icw2 = wants.base
          /\ timer.counter = wants.count
          /\ bytes # << >> => bytes[1] + (Base * bytes[2]) = latched
    /\ handler.of = "timer" =>
          wants.mask % 2 = 0 /\ wants.count # 0 /\ handler.base = wants.base

\* A guest that keeps the timer programmed and comes back to an instruction end
\* with interrupts enabled gets its ticks (mainloop16.c:355-362).
Ready16 ==
    at = "irq" /\ flags.if /\ ~(traced /\ flags.tf) /\ ~held /\ TimerOpen16
TickServed16 == []<>Ready16 => (alarm ~> handler.of = "timer" \/ debug16)

\* A second Ctrl+C within a second of one that the loop has noticed opens the
\* monitor (mainloop16.c:246-259).
MonitorOpens == recent /\ unseen > 0 ~> at \in {"monitor", "exit"} \/ ~recent
=============================================================================
