---------------------------- MODULE FloppyDriver ----------------------------
(***************************************************************************)
(* A floppy driver of a guest, which is not part of the repository: the    *)
(* protocol of the 82078 as the guests that src/dev_FDC.c was written for  *)
(* follow it.  The driver sends a packet byte by byte while the main       *)
(* status register lets it, waits for the interrupt of the commands that   *)
(* have one, reads the results the data sheet promises, and may give up    *)
(* and reset the controller at any byte.  It programs the DMA before a     *)
(* READ with interrupts disabled, and touches the motor bits between       *)
(* commands only.  It has no WRITE that it waits for: the controller       *)
(* raises no interrupt for one.                                            *)
(***************************************************************************)
EXTENDS Floppy

CONSTANTS
    ReadPlaces,     \* places the driver reads
    SeekCylinders,  \* cylinders it moves to
    FdcBuffers      \* cells it reads to

ASSUME DriverAssumption ==
    /\ ReadPlaces \subseteq [c : 0 .. 79, h : 0 .. NHead - 1, s : 1 .. NSector]
    /\ SeekCylinders \subseteq 0 .. 79
    /\ NHead <= 256 /\ NSector <= 255
    /\ FdcBuffers \subseteq Cells /\ \A a \in FdcBuffers : a < Base * Base * Base

VARIABLES
    drv     \* what it does: [phase, packet, sent, due, to]; sent bytes of the
            \* packet are out, due results are still to come, a READ goes to to

Phases == {"off", "idle", "send", "wait", "results", "reset", "taken"}

Simple == {SENSEI, DUMPREGS, UNLOCK, PARTID, PERPENDICULAR, RECALIBRATE,
           GETSTATUS, SPECIFY, CONFIGURE, WRITE}

\* What the data sheet says of the commands.
PacketLength(c) ==
    IF c \in {SENSEI, DUMPREGS, UNLOCK, PARTID} THEN 1
    ELSE IF c \in {PERPENDICULAR, RECALIBRATE, GETSTATUS} THEN 2
    ELSE IF c = SPECIFY THEN 3 ELSE IF c = CONFIGURE THEN 4 ELSE 9

Promised(c) ==
    IF c \in {READ, WRITE} THEN 7 ELSE IF c = SENSEI THEN 2
    ELSE IF c = DUMPREGS THEN 10 ELSE IF c \in {UNLOCK, PARTID, GETSTATUS} THEN 1 ELSE 0

Interrupting == {READ, SEEK, RECALIBRATE}

NoPacket == << >>

SimplePacket(c) == [i \in 1 .. PacketLength(c) |-> IF i = 1 THEN c ELSE 0]

SeekPacket(c) == <<SEEK, 0, c>>

ReadPacket(p) == <<READ, 0, p.c, p.h, p.s, 2, NSector, 0, 0>>

Reading(d) == d.packet # NoPacket /\ d.packet[1] = READ

\* The place a READ asks for.
Asked(d) == [c |-> d.packet[3], h |-> d.packet[4], s |-> d.packet[5]]

DriverInit ==
    drv = [phase |-> "off", packet |-> NoPacket, sent |-> 0, due |-> 0, to |-> 0]

\* The driver leaves what it was doing, and the buffer of a READ.
Leave(phase, due) ==
    /\ drv' = [drv EXCEPT !.phase = phase, !.packet = NoPacket, !.sent = 0,
                          !.due = due, !.to = 0]
    /\ memory' = IF Reading(drv) THEN [memory EXCEPT ![drv.to] = Blank] ELSE memory

StartPacket(p, to) ==
    drv' = [drv EXCEPT !.phase = "send", !.packet = p, !.to = to]

StartSimple ==
    /\ drv.phase = "idle"
    /\ \/ \E c \in Simple : StartPacket(SimplePacket(c), 0)
       \/ \E c \in SeekCylinders : StartPacket(SeekPacket(c), 0)
    /\ UNCHANGED <<fdc, dma, image, memory>>

\* The DMA is programmed first: the page, the low byte, the high byte.
StartRead ==
    /\ drv.phase = "idle"
    /\ \E p \in ReadPlaces, a \in FdcBuffers :
          /\ dma' = WriteAddr(WriteAddr(SetPage(dma, (a \div Base) \div Base), a % Base),
                              (a \div Base) % Base)
          /\ StartPacket(ReadPacket(p), a)
    /\ UNCHANGED <<fdc, image, memory>>

AfterPacket(d) ==
    LET c == d.packet[1]
    IN  [d EXCEPT !.due = Promised(c), !.sent = 0,
                  !.packet = IF Promised(c) > 0 THEN @ ELSE NoPacket,
                  !.phase = IF c \in Interrupting THEN "wait"
                            ELSE IF Promised(c) > 0 THEN "results" ELSE "idle"]

SendByte ==
    /\ drv.phase = "send" /\ ~Dio(fdc)
    /\ WriteFifo(drv.packet[drv.sent + 1])
    /\ LET d == [drv EXCEPT !.sent = @ + 1]
       IN  drv' = IF d.sent = Len(d.packet) THEN AfterPacket(d) ELSE d

ReadResult ==
    /\ drv.phase = "results" /\ Dio(fdc)
    /\ ReadFifo
    /\ IF drv.due = 1 THEN Leave("idle", 0)
       ELSE drv' = [drv EXCEPT !.due = @ - 1] /\ UNCHANGED memory

\* Its interrupt handler runs.
TakeIrq ==
    /\ TakeRequest
    /\ drv' = [drv EXCEPT !.phase =
                 CASE @ = "wait" -> IF drv.due > 0 THEN "results" ELSE "idle"
                   [] @ = "reset" -> "taken"
                   [] OTHER -> @]
    /\ UNCHANGED <<image, memory>>

\* A reset at any time, by the output register in two steps; the first reset
\* after power on raises no interrupt, because the DMA bit was not set.
EnterReset ==
    /\ drv.phase \notin {"reset", "taken"}
    /\ WriteDor({"dma"})
    /\ Leave(IF "dma" \in fdc.dor THEN "reset" ELSE "taken", 0)
    /\ UNCHANGED image

LeaveReset ==
    /\ drv.phase \in {"reset", "taken"}
    /\ \E m \in SUBSET {"motor"} : WriteDor({"dma", "run"} \cup m)
    /\ Leave(IF drv.phase = "reset" THEN "wait" ELSE "idle", 0)
    /\ UNCHANGED image

\* A reset by the data rate register keeps the results that were not read.
ResetByRate ==
    /\ drv.phase \in {"idle", "send", "wait", "results"}
    /\ WriteDsr
    /\ Leave("wait", drv.due)
    /\ UNCHANGED image

Motor ==
    /\ drv.phase = "idle"
    /\ \E m \in SUBSET {"motor"} : WriteDor({"dma", "run"} \cup m)
    /\ UNCHANGED <<drv, image, memory>>

DriverNext ==
    \/ StartSimple \/ StartRead \/ SendByte \/ ReadResult \/ TakeIrq
    \/ EnterReset \/ LeaveReset \/ ResetByRate \/ Motor

\* The controller and the driver agree which byte comes next, and on which way.
InStep ==
    /\ fdc.pointer = IF drv.phase = "send" THEN drv.sent ELSE 0
    /\ fdc.len - fdc.cnt = drv.due

\* The driver never waits in vain, and is never interrupted by surprise.
IrqExact ==
    /\ drv.phase \in {"wait", "reset"} => fdc.irq
    /\ fdc.irq => drv.phase \in {"wait", "reset"}
=============================================================================
